-------------------------- MODULE SourceRuntime_proofs --------------------------
(***************************************************************************)
(* Proofs about SourceRuntime: whatever requests race for the runtime of a *)
(* source, are dropped while they build it or come after a restart, one    *)
(* life of the server has one outcome per source, and a sign-in that is    *)
(* under way finds its entry.                                              *)
(***************************************************************************)
EXTENDS SourceRuntime, TLAPS

(* A request is of this life until it is done, and never of a later one.   *)
Alive == \A q \in Request : requests[q] # None =>
  /\ requests[q].life <= life
  /\ requests[q].at # "done" => requests[q].life = life

(* The permit of a cell is held by the request that builds, while the cell  *)
(* is empty.                                                               *)
OneBuilder ==
  /\ \A s \in Source : builder[s] # None =>
       At(builder[s], "build") /\ requests[builder[s]].source = s /\ cell[s] = None
  /\ \A q \in Request : At(q, "build") => builder[requests[q].source] = q

(* What a request of this life holds is what is in the cell. *)
HoldsCell == \A q \in Request : requests[q] # None =>
  /\ requests[q].life = life /\ requests[q].runtime # None =>
       requests[q].runtime = cell[requests[q].source]
  /\ requests[q].at = "serve" => requests[q].runtime \in Request

(* A request that serves a sign-in serves one of its source. *)
Belongs == \A q \in Request : requests[q] # None =>
  (requests[q].op \in {"callback", "redeem"} =>
    /\ requests[q].signIn \in SignIn /\ signIns[requests[q].signIn] # None
    /\ signIns[requests[q].signIn].source = requests[q].source)

(* The sign-ins under way and the entries of the stores match. *)
Stored ==
  /\ \A f \in SignIn : signIns[f] # None /\ signIns[f].at # "over" =>
       /\ cell[signIns[f].source] \in Request
       /\ [kind |-> signIns[f].at, signIn |-> f, runtime |-> cell[signIns[f].source]] \in stored
  /\ \A e \in stored :
       /\ signIns[e.signIn] # None /\ signIns[e.signIn].at = e.kind
       /\ e.runtime = cell[signIns[e.signIn].source]

CellInv == TypeOK /\ Alive /\ OneBuilder /\ HoldsCell /\ Belongs /\ Stored /\ OneOutcome

LEMMA CellInit == Init => CellInv
BY RuntimeAssumption DEF Init, CellInv, TypeOK, Alive, OneBuilder, HoldsCell, Belongs, Stored, OneOutcome,
   Runtime, At

(* The outcome of a build, as a request receives it. *)
LEMMA HoldingFields ==
  ASSUME NEW k \in Stage, NEW r \in Request \cup {Failed}
  PROVE  /\ Holding(k, r) \in Stage /\ Holding(k, r) # None
         /\ Holding(k, r).runtime = r /\ Holding(k, r).life = k.life
         /\ Holding(k, r).source = k.source /\ Holding(k, r).op = k.op
         /\ Holding(k, r).signIn = k.signIn
         /\ Holding(k, r).at = IF r = Failed THEN "done" ELSE "serve"
<1>1. CASE r = Failed
  <2> DEFINE answer == IF Resolved(k.source) THEN "unavailable" ELSE "misconfigured"
  <2>1. Holding(k, r) = [k EXCEPT !.at = "done", !.runtime = r, !.answer = answer]
    BY <1>1 DEF Holding
  <2>2. answer \in Answer /\ r \in Runtime
    BY <1>1 DEF Answer, Runtime
  <2> HIDE DEF answer
  <2>3. Holding(k, r) \in Stage
    BY <2>1, <2>2 DEF Stage
  <2> QED
    BY <1>1, <2>1, <2>3, RuntimeAssumption DEF Stage
<1>2. CASE r # Failed
  BY <1>2, RuntimeAssumption DEF Holding, Stage, Runtime
<1> QED
  BY <1>1, <1>2

(* An answer leaves of a request everything but its stage. *)
LEMMA AnsweredFields ==
  ASSUME TypeOK, NEW q \in Request, requests[q] # None, NEW answer \in Answer, Answered(q, answer)
  PROVE  /\ requests' \in [Request -> {None} \cup Stage]
         /\ requests'[q] # None /\ requests'[q].at = "done" /\ requests'[q].life = requests[q].life
         /\ requests'[q].source = requests[q].source /\ requests'[q].runtime = requests[q].runtime
         /\ requests'[q].op = requests[q].op /\ requests'[q].signIn = requests[q].signIn
         /\ \A p \in Request : p # q => requests'[p] = requests[p]
<1> DEFINE new == [requests[q] EXCEPT !.at = "done", !.answer = answer]
<1>1. requests[q] \in Stage
  BY DEF TypeOK
<1>2. /\ new \in Stage /\ new.at = "done" /\ new.life = requests[q].life
      /\ new.source = requests[q].source /\ new.runtime = requests[q].runtime
      /\ new.op = requests[q].op /\ new.signIn = requests[q].signIn
  BY <1>1 DEF Stage
<1>3. new # None
  BY <1>2, RuntimeAssumption
<1>4. requests' = [requests EXCEPT ![q] = new]
  BY DEF Answered
<1> HIDE DEF new
<1> QED
  BY <1>2, <1>3, <1>4 DEF TypeOK

(* A request is answered and nothing else changes. *)
LEMMA AnswerKeeps ==
  ASSUME CellInv, NEW q \in Request, requests[q] # None, requests[q].at \in {"cell", "serve"},
         NEW answer \in Answer, Answered(q, answer),
         UNCHANGED <<cell, builder, stored, signIns, life>>
  PROVE  CellInv'
<1>1. TypeOK'
  BY AnsweredFields DEF CellInv, TypeOK
<1>2. Alive' /\ HoldsCell' /\ Belongs' /\ Stored'
  BY AnsweredFields DEF CellInv, Alive, HoldsCell, Belongs, Stored
<1>3. OneBuilder'
  BY AnsweredFields DEF CellInv, OneBuilder, At, TypeOK
<1>4. OneOutcome'
  BY AnsweredFields DEF CellInv, OneOutcome
<1> QED
  BY <1>1, <1>2, <1>3, <1>4 DEF CellInv

(* The two outcomes of an answer are answers. *)
LEMMA ProjectKeeps ==
  ASSUME CellInv, NEW q \in Request, Project(q)
  PROVE  CellInv'
<1>1. \E answer \in Answer : Answered(q, answer)
  BY DEF Project, Answer
<1> QED
  BY <1>1, AnswerKeeps DEF Project, At

LEMMA UseTokenKeeps ==
  ASSUME CellInv, NEW q \in Request, UseToken(q)
  PROVE  CellInv'
<1>1. \E answer \in Answer : Answered(q, answer)
  BY DEF UseToken, Answer
<1> QED
  BY <1>1, AnswerKeeps DEF UseToken, Serving, At

(* A request that arrives holds nothing yet. *)
LEMMA ArriveKeeps ==
  ASSUME CellInv, NEW q \in Request, NEW op \in Op, NEW s \in Source, NEW f \in SignIn \cup {None},
         Arrive(q, op, s, f)
  PROVE  CellInv'
<1> DEFINE new == [at |-> "cell", op |-> op, source |-> s, signIn |-> f,
                   runtime |-> None, life |-> life, answer |-> None]
<1>1. /\ new \in Stage /\ new.at = "cell" /\ new.op = op /\ new.source = s /\ new.signIn = f
      /\ new.runtime = None /\ new.life = life
  BY DEF CellInv, TypeOK, Stage, Runtime
<1>2. new # None
  BY <1>1, RuntimeAssumption
<1>3. requests' = [requests EXCEPT ![q] = new] /\ requests[q] = None
  BY DEF Arrive
<1>4. op \in {"callback", "redeem"} => f # None /\ signIns[f] # None /\ signIns[f].source = s
  BY DEF Arrive
<1>5. UNCHANGED <<cell, builder, stored, signIns, life>>
  BY DEF Arrive
<1> HIDE DEF new
<1>6. /\ requests' \in [Request -> {None} \cup Stage] /\ requests'[q] = new
      /\ \A p \in Request : p # q => requests'[p] = requests[p]
  BY <1>1, <1>3 DEF CellInv, TypeOK
<1>7. TypeOK'
  BY <1>5, <1>6 DEF CellInv, TypeOK
<1>8. Alive' /\ HoldsCell' /\ Belongs' /\ Stored'
  BY <1>1, <1>4, <1>5, <1>6 DEF CellInv, Alive, HoldsCell, Belongs, Stored, TypeOK
<1>9. OneBuilder'
  BY <1>1, <1>2, <1>3, <1>5, <1>6 DEF CellInv, OneBuilder, At, TypeOK
<1>10. OneOutcome'
  BY <1>1, <1>5, <1>6 DEF CellInv, OneOutcome
<1> QED
  BY <1>7, <1>8, <1>9, <1>10 DEF CellInv

(* A request that finds an outcome holds what the others of its life hold.  *)
LEMMA FindKeeps ==
  ASSUME CellInv, NEW q \in Request, Find(q)
  PROVE  CellInv'
<1> DEFINE k == requests[q]
           r == cell[k.source]
           new == Holding(k, r)
<1>1. k # None /\ k \in Stage /\ k.at = "cell" /\ k.source \in Source /\ k.life = life
  BY DEF CellInv, TypeOK, Alive, Find, At, Stage
<1>2. r \in Request \cup {Failed}
  BY <1>1 DEF CellInv, TypeOK, Runtime, Find
<1>3. /\ new \in Stage /\ new # None /\ new.runtime = r /\ new.life = life
      /\ new.source = k.source /\ new.op = k.op /\ new.signIn = k.signIn
      /\ new.at = IF r = Failed THEN "done" ELSE "serve"
  BY <1>1, <1>2, HoldingFields
<1>4. requests' = [requests EXCEPT ![q] = new]
  BY DEF Find
<1>5. UNCHANGED <<cell, builder, stored, signIns, life>>
  BY DEF Find
<1> HIDE DEF new
<1>6. /\ requests' \in [Request -> {None} \cup Stage] /\ requests'[q] = new
      /\ \A p \in Request : p # q => requests'[p] = requests[p]
  BY <1>3, <1>4 DEF CellInv, TypeOK
<1>7. TypeOK'
  BY <1>5, <1>6 DEF CellInv, TypeOK
<1>8. Alive' /\ Belongs' /\ Stored'
  BY <1>1, <1>3, <1>5, <1>6 DEF CellInv, Alive, Belongs, Stored, TypeOK
<1>9. HoldsCell'
  BY <1>1, <1>2, <1>3, <1>5, <1>6 DEF CellInv, HoldsCell
<1>10. OneBuilder'
  BY <1>1, <1>3, <1>5, <1>6 DEF CellInv, OneBuilder, At, TypeOK
<1>11. OneOutcome'
  <2> SUFFICES ASSUME NEW p \in Request, requests'[p] # None, p # q,
                      requests'[p].source = new.source, requests'[p].life = new.life,
                      requests'[p].runtime # None
               PROVE  requests'[p].runtime = new.runtime
    BY <1>5, <1>6 DEF CellInv, OneOutcome
  <2> QED
    BY <1>3, <1>6 DEF CellInv, HoldsCell
<1> QED
  BY <1>7, <1>8, <1>9, <1>10, <1>11 DEF CellInv

(* A request takes the permit of an empty cell. *)
LEMMA BuildKeeps ==
  ASSUME CellInv, NEW q \in Request, Build(q)
  PROVE  CellInv'
<1> DEFINE k == requests[q]
           new == [k EXCEPT !.at = "build"]
<1>1. k # None /\ k \in Stage /\ k.at = "cell" /\ k.source \in Source
  BY DEF CellInv, TypeOK, Build, At, Stage
<1>2. /\ new \in Stage /\ new.at = "build" /\ new.life = k.life /\ new.source = k.source
      /\ new.op = k.op /\ new.signIn = k.signIn /\ new.runtime = k.runtime
  BY <1>1 DEF Stage
<1>3. new # None
  BY <1>2, RuntimeAssumption
<1>4. /\ requests' = [requests EXCEPT ![q] = new]
      /\ builder' = [builder EXCEPT ![k.source] = q]
      /\ cell[k.source] = None /\ builder[k.source] = None
      /\ UNCHANGED <<cell, stored, signIns, life>>
  BY DEF Build
<1> HIDE DEF new
<1>5. /\ requests' \in [Request -> {None} \cup Stage] /\ requests'[q] = new
      /\ \A p \in Request : p # q => requests'[p] = requests[p]
  BY <1>2, <1>4 DEF CellInv, TypeOK
<1>6. /\ builder' \in [Source -> Request \cup {None}] /\ builder'[k.source] = q
      /\ \A s \in Source : s # k.source => builder'[s] = builder[s]
  BY <1>1, <1>4 DEF CellInv, TypeOK
<1> HIDE DEF k
<1>7. TypeOK'
  BY <1>4, <1>5, <1>6 DEF CellInv, TypeOK
<1>8. Alive' /\ HoldsCell' /\ Belongs' /\ Stored'
  BY <1>1, <1>2, <1>4, <1>5 DEF CellInv, Alive, HoldsCell, Belongs, Stored, TypeOK, k
<1>9. OneBuilder'
  <2>1. ASSUME NEW s \in Source, builder'[s] # None
        PROVE  requests'[builder'[s]] # None /\ requests'[builder'[s]].at = "build"
               /\ requests'[builder'[s]].source = s /\ cell[s] = None
    <3>1. CASE s = k.source
      BY <3>1, <1>2, <1>3, <1>4, <1>5, <1>6
    <3>2. CASE s # k.source
      <4>1. builder[s] # None /\ builder[s] \in Request /\ builder'[s] = builder[s]
        BY <3>2, <2>1, <1>6 DEF CellInv, TypeOK
      <4>2. builder[s] # q
        BY <4>1, <1>1 DEF CellInv, OneBuilder, At, k
      <4> QED
        BY <4>1, <4>2, <1>5 DEF CellInv, OneBuilder, At
    <3> QED
      BY <3>1, <3>2
  <2>2. ASSUME NEW p \in Request, requests'[p] # None, requests'[p].at = "build"
        PROVE  builder'[requests'[p].source] = p
    <3>1. CASE p = q
      BY <3>1, <1>2, <1>5, <1>6
    <3>2. CASE p # q
      <4>1. requests[p] # None /\ requests[p].at = "build" /\ requests'[p] = requests[p]
            /\ requests[p].source \in Source
        BY <3>2, <2>2, <1>5 DEF CellInv, TypeOK, Stage
      <4>2. builder[requests[p].source] = p
        BY <4>1 DEF CellInv, OneBuilder, At
      <4> QED
        BY <4>1, <4>2, <1>4, <1>6, RuntimeAssumption
    <3> QED
      BY <3>1, <3>2
  <2> QED
    BY <2>1, <2>2, <1>4 DEF OneBuilder, At
<1>10. OneOutcome'
  BY <1>1, <1>2, <1>4, <1>5 DEF CellInv, OneOutcome, k
<1> QED
  BY <1>7, <1>8, <1>9, <1>10 DEF CellInv

(* The request that builds settles the cell.  It was empty, so no request   *)
(* of this life held anything of the source and nothing was stored for it. *)
LEMMA SettleKeeps ==
  ASSUME CellInv, NEW q \in Request, Settle(q)
  PROVE  CellInv'
<1> DEFINE k == requests[q]
           s == k.source
<1>1. PICK r \in Outcomes(q) : cell' = [cell EXCEPT ![s] = r] /\ requests' = [requests EXCEPT ![q] = Holding(k, r)]
  BY DEF Settle
<1> DEFINE new == Holding(k, r)
<1>2. k # None /\ k \in Stage /\ k.at = "build" /\ s \in Source /\ k.life = life
  BY DEF CellInv, TypeOK, Alive, Settle, At, Stage
<1>3. r \in Request \cup {Failed} /\ r # None
  BY RuntimeAssumption DEF Outcomes
<1>4. /\ new \in Stage /\ new # None /\ new.runtime = r /\ new.life = life
      /\ new.source = s /\ new.op = k.op /\ new.signIn = k.signIn
      /\ new.at = IF r = Failed THEN "done" ELSE "serve"
  BY <1>2, <1>3, HoldingFields
<1>5. builder[s] = q /\ cell[s] = None
  BY <1>2, RuntimeAssumption DEF CellInv, OneBuilder, At
<1>6. builder' = [builder EXCEPT ![s] = None] /\ UNCHANGED <<stored, signIns, life>>
  BY DEF Settle
<1> HIDE DEF new
<1>7. /\ requests' \in [Request -> {None} \cup Stage] /\ requests'[q] = new
      /\ \A p \in Request : p # q => requests'[p] = requests[p]
  BY <1>1, <1>4 DEF CellInv, TypeOK, new
<1>8. /\ cell' \in [Source -> Runtime] /\ cell'[s] = r
      /\ \A t \in Source : t # s => cell'[t] = cell[t]
  BY <1>1, <1>2, <1>3 DEF CellInv, TypeOK, Runtime
<1>9. /\ builder' \in [Source -> Request \cup {None}] /\ builder'[s] = None
      /\ \A t \in Source : t # s => builder'[t] = builder[t]
  BY <1>2, <1>6 DEF CellInv, TypeOK
<1>10. ASSUME NEW p \in Request, p # q, requests[p] # None, requests[p].life = life, requests[p].source = s
       PROVE  requests[p].runtime = None
  BY <1>5, <1>10 DEF CellInv, HoldsCell
<1>11. TypeOK'
  BY <1>6, <1>7, <1>8, <1>9 DEF CellInv, TypeOK
<1>12. Alive' /\ Belongs'
  BY <1>2, <1>4, <1>6, <1>7 DEF CellInv, Alive, Belongs, TypeOK
<1>13. HoldsCell'
  <2> SUFFICES ASSUME NEW p \in Request, requests'[p] # None
               PROVE  /\ requests'[p].life = life /\ requests'[p].runtime # None =>
                           requests'[p].runtime = cell'[requests'[p].source]
                      /\ requests'[p].at = "serve" => requests'[p].runtime \in Request
    BY <1>6 DEF HoldsCell
  <2>1. CASE p = q
    BY <2>1, <1>3, <1>4, <1>7, <1>8
  <2>2. CASE p # q
    <3>1. requests'[p] = requests[p] /\ requests[p].source \in Source
      BY <2>2, <1>7 DEF CellInv, TypeOK, Stage
    <3> QED
      BY <2>2, <3>1, <1>8, <1>10 DEF CellInv, HoldsCell
  <2> QED
    BY <2>1, <2>2
<1>14. Stored'
  <2>1. ASSUME NEW f \in SignIn, signIns[f] # None, signIns[f].at # "over"
        PROVE  signIns[f].source # s /\ signIns[f].source \in Source
    BY <2>1, <1>5, RuntimeAssumption DEF CellInv, Stored, TypeOK, Begun
  <2>2. ASSUME NEW e \in stored
        PROVE  e.signIn \in SignIn /\ signIns[e.signIn] # None /\ signIns[e.signIn].source # s
               /\ signIns[e.signIn].source \in Source
    <3>1. e \in Entry
      BY DEF CellInv, TypeOK
    <3>2. e.signIn \in SignIn /\ e.runtime \in Request
      BY <3>1 DEF Entry
    <3>3. signIns[e.signIn] # None /\ e.runtime = cell[signIns[e.signIn].source]
      BY DEF CellInv, Stored
    <3> QED
      BY <3>2, <3>3, <1>5, RuntimeAssumption DEF CellInv, TypeOK, Begun
  <2> QED
    BY <2>1, <2>2, <1>6, <1>8 DEF CellInv, Stored
<1>15. OneBuilder'
  <2>1. ASSUME NEW t \in Source, builder'[t] # None
        PROVE  requests'[builder'[t]] # None /\ requests'[builder'[t]].at = "build"
               /\ requests'[builder'[t]].source = t /\ cell'[t] = None
    <3>1. t # s /\ builder'[t] = builder[t] /\ builder[t] \in Request
      BY <2>1, <1>9 DEF CellInv, TypeOK
    <3>2. requests[builder[t]] # None /\ requests[builder[t]].at = "build"
          /\ requests[builder[t]].source = t /\ cell[t] = None
      BY <2>1, <3>1 DEF CellInv, OneBuilder, At
    <3> QED
      BY <3>1, <3>2, <1>7, <1>8
  <2>2. ASSUME NEW p \in Request, requests'[p] # None, requests'[p].at = "build"
        PROVE  builder'[requests'[p].source] = p
    <3>1. p # q /\ requests'[p] = requests[p] /\ requests[p].source \in Source
      BY <2>2, <1>4, <1>7 DEF CellInv, TypeOK, Stage
    <3>2. builder[requests[p].source] = p
      BY <2>2, <3>1 DEF CellInv, OneBuilder, At
    <3> QED
      BY <3>1, <3>2, <1>5, <1>9
  <2> QED
    BY <2>1, <2>2 DEF OneBuilder, At
<1>16. OneOutcome'
  <2> SUFFICES ASSUME NEW p \in Request, requests'[p] # None, p # q,
                      requests'[p].source = s, requests'[p].life = life
               PROVE  requests'[p].runtime = None
    BY <1>4, <1>7 DEF CellInv, OneOutcome
  <2> QED
    BY <1>7, <1>10
<1> QED
  BY <1>11, <1>12, <1>13, <1>14, <1>15, <1>16 DEF CellInv

-----------------------------------------------------------------------------
(* Sign-ins. *)

(* A request that serves has its source's runtime of this life. *)
LEMMA ServingHolds ==
  ASSUME CellInv, NEW q \in Request, At(q, "serve")
  PROVE  /\ requests[q] # None /\ requests[q].source \in Source
         /\ requests[q].runtime \in Request /\ requests[q].runtime = cell[requests[q].source]
BY RuntimeAssumption DEF CellInv, TypeOK, Alive, HoldsCell, At, Stage

(* The answer to a request that serves keeps what is about requests only,   *)
(* and Belongs as long as no sign-in goes or changes its source.           *)
LEMMA ServedKeeps ==
  ASSUME CellInv, NEW q \in Request, At(q, "serve"), NEW answer \in Answer, Answered(q, answer),
         UNCHANGED <<cell, builder, life>>,
         signIns' \in [SignIn -> {None} \cup Begun], stored' \subseteq Entry,
         \A f \in SignIn : signIns[f] # None => signIns'[f] # None /\ signIns'[f].source = signIns[f].source
  PROVE  TypeOK' /\ Alive' /\ OneBuilder' /\ HoldsCell' /\ Belongs' /\ OneOutcome'
<1>1. requests[q] # None /\ requests[q].at = "serve"
  BY DEF At
<1>2. TypeOK'
  BY <1>1, AnsweredFields DEF CellInv, TypeOK
<1>3. Alive' /\ HoldsCell'
  BY <1>1, AnsweredFields DEF CellInv, Alive, HoldsCell
<1>4. Belongs'
  BY <1>1, AnsweredFields DEF CellInv, Belongs
<1>5. OneBuilder'
  BY <1>1, AnsweredFields DEF CellInv, OneBuilder, At, TypeOK
<1>6. OneOutcome'
  BY <1>1, AnsweredFields DEF CellInv, OneOutcome
<1> QED
  BY <1>2, <1>3, <1>4, <1>5, <1>6

(* A new sign-in is stored with the runtime of its source. *)
LEMMA StartKeeps ==
  ASSUME CellInv, NEW q \in Request, Start(q)
  PROVE  CellInv'
<1>1. At(q, "serve") /\ UNCHANGED <<cell, builder, life>>
  BY DEF Start, Serving
<1>2. CASE Answered(q, "refused") /\ UNCHANGED <<signIns, stored>>
  BY <1>1, <1>2, AnswerKeeps DEF At, Answer
<1>3. ASSUME NEW f \in SignIn, signIns[f] = None,
             signIns' = [signIns EXCEPT ![f] = [source |-> requests[q].source, at |-> "state"]],
             stored' = stored \cup {[kind |-> "state", signIn |-> f, runtime |-> requests[q].runtime]},
             Answered(q, "ok")
      PROVE  CellInv'
  <2> DEFINE b == [source |-> requests[q].source, at |-> "state"]
             e == [kind |-> "state", signIn |-> f, runtime |-> requests[q].runtime]
  <2>1. requests[q].source \in Source /\ requests[q].runtime \in Request
        /\ requests[q].runtime = cell[requests[q].source]
    BY <1>1, ServingHolds
  <2>2. b \in Begun /\ b # None /\ b.source = requests[q].source /\ b.at = "state"
    <3>1. b \in Begun
      BY <2>1 DEF Begun, Kind
    <3> QED
      BY <3>1, RuntimeAssumption
  <2>3. e \in Entry /\ e.kind = "state" /\ e.signIn = f /\ e.runtime = cell[b.source]
    BY <2>1 DEF Entry, Kind
  <2>4. stored' = stored \cup {e} /\ signIns' = [signIns EXCEPT ![f] = b]
    BY <1>3
  <2>5. e = [kind |-> b.at, signIn |-> f, runtime |-> cell[b.source]] /\ cell[b.source] \in Request
    BY <2>1
  <2> HIDE DEF b, e
  <2>6. /\ signIns' \in [SignIn -> {None} \cup Begun] /\ signIns'[f] = b
        /\ \A g \in SignIn : g # f => signIns'[g] = signIns[g]
    BY <2>2, <2>4 DEF CellInv, TypeOK
  <2>7. TypeOK' /\ Alive' /\ OneBuilder' /\ HoldsCell' /\ Belongs' /\ OneOutcome'
    <3>1. stored' \subseteq Entry
      BY <2>3, <2>4 DEF CellInv, TypeOK
    <3>2. \A g \in SignIn : signIns[g] # None => signIns'[g] # None /\ signIns'[g].source = signIns[g].source
      BY <1>3, <2>6
    <3>3. "ok" \in Answer
      BY DEF Answer
    <3> QED
      BY <1>1, <1>3, <2>6, <3>1, <3>2, <3>3, ServedKeeps
  <2>8. Stored'
    <3>1. ASSUME NEW g \in SignIn, signIns'[g] # None, signIns'[g].at # "over"
          PROVE  cell[signIns'[g].source] \in Request
                 /\ [kind |-> signIns'[g].at, signIn |-> g, runtime |-> cell[signIns'[g].source]] \in stored'
      <4>1. CASE g = f
        BY <4>1, <2>4, <2>5, <2>6
      <4>2. CASE g # f
        BY <4>2, <3>1, <2>4, <2>6 DEF CellInv, Stored
      <4> QED
        BY <4>1, <4>2
    <3>2. ASSUME NEW d \in stored'
          PROVE  signIns'[d.signIn] # None /\ signIns'[d.signIn].at = d.kind
                 /\ d.runtime = cell[signIns'[d.signIn].source]
      <4>1. CASE d = e
        BY <4>1, <2>2, <2>3, <2>6
      <4>2. CASE d \in stored
        <5>1. signIns[d.signIn] # None /\ signIns[d.signIn].at = d.kind
              /\ d.runtime = cell[signIns[d.signIn].source] /\ d.signIn \in SignIn
          BY <4>2 DEF CellInv, Stored, TypeOK, Entry
        <5> QED
          BY <5>1, <1>3, <2>6
      <4> QED
        BY <4>1, <4>2, <2>4
    <3> QED
      BY <3>1, <3>2, <1>1 DEF Stored
  <2> QED
    BY <2>7, <2>8 DEF CellInv
<1> QED
  BY <1>2, <1>3 DEF Start

(* A sign-in has one entry at a time. *)
LEMMA OneEntry ==
  ASSUME CellInv, NEW d \in stored, NEW e \in stored, d.signIn = e.signIn
  PROVE  d = e
<1>1. d \in Entry /\ e \in Entry
  BY DEF CellInv, TypeOK
<1>2. d.kind = e.kind /\ d.runtime = e.runtime
  BY DEF CellInv, Stored
<1> QED
  BY <1>1, <1>2 DEF Entry

(* When the entry of a sign-in is taken, the sign-in goes on without it, or *)
(* with the next one in the same runtime.                                  *)
LEMMA EntryTaken ==
  ASSUME CellInv, NEW e \in stored, NEW at \in {"over", "metadata"}, UNCHANGED cell,
         signIns' = [signIns EXCEPT ![e.signIn] = [@ EXCEPT !.at = at]],
         stored' = (stored \ {e}) \cup
                     (IF at = "over" THEN {}
                      ELSE {[kind |-> "metadata", signIn |-> e.signIn, runtime |-> e.runtime]})
  PROVE  /\ signIns' \in [SignIn -> {None} \cup Begun] /\ stored' \subseteq Entry /\ Stored'
         /\ \A f \in SignIn : signIns[f] # None => signIns'[f] # None /\ signIns'[f].source = signIns[f].source
<1> DEFINE f == e.signIn
           b == signIns[f]
           new == [b EXCEPT !.at = at]
           next == [kind |-> "metadata", signIn |-> f, runtime |-> e.runtime]
<1>1. e \in Entry /\ f \in SignIn /\ e.runtime \in Request
  BY DEF CellInv, TypeOK, Entry
<1>2. b # None /\ b \in Begun /\ b.source \in Source /\ e.runtime = cell[b.source]
  <2>1. b # None /\ e.runtime = cell[b.source]
    BY DEF CellInv, Stored
  <2> QED
    BY <2>1, <1>1 DEF CellInv, TypeOK, Begun
<1>3. new \in Begun /\ new.at = at /\ new.source = b.source
  BY <1>2 DEF Begun, Kind
<1>4. new # None
  BY <1>3, RuntimeAssumption
<1>5. next \in Entry /\ next.kind = "metadata" /\ next.signIn = f /\ next.runtime = cell[b.source]
  BY <1>1, <1>2 DEF Entry, Kind
<1>6. next = [kind |-> "metadata", signIn |-> f, runtime |-> cell[b.source]]
  BY <1>2
<1>7. signIns' = [signIns EXCEPT ![f] = new]
  OBVIOUS
<1>8. stored' = (stored \ {e}) \cup (IF at = "over" THEN {} ELSE {next})
  OBVIOUS
<1>9. \A d \in stored : d.signIn = f => d = e
  BY OneEntry
<1> HIDE DEF new, next
<1>10. /\ signIns' \in [SignIn -> {None} \cup Begun] /\ signIns'[f] = new
       /\ \A g \in SignIn : g # f => signIns'[g] = signIns[g]
  BY <1>1, <1>3, <1>7 DEF CellInv, TypeOK
<1>11. stored' \subseteq Entry
  BY <1>5, <1>8 DEF CellInv, TypeOK
<1>12. Stored'
  <2>1. ASSUME NEW g \in SignIn, signIns'[g] # None, signIns'[g].at # "over"
        PROVE  cell[signIns'[g].source] \in Request
               /\ [kind |-> signIns'[g].at, signIn |-> g, runtime |-> cell[signIns'[g].source]] \in stored'
    <3>1. CASE g = f
      <4>1. at = "metadata" /\ cell[b.source] \in Request
        BY <3>1, <2>1, <1>1, <1>2, <1>3, <1>10
      <4> QED
        BY <3>1, <4>1, <1>3, <1>6, <1>8, <1>10
    <3>2. CASE g # f
      <4>1. signIns'[g] = signIns[g] /\ cell[signIns[g].source] \in Request
            /\ [kind |-> signIns[g].at, signIn |-> g, runtime |-> cell[signIns[g].source]] \in stored
        BY <3>2, <2>1, <1>10 DEF CellInv, Stored
      <4> QED
        BY <3>2, <4>1, <1>8
    <3> QED
      BY <3>1, <3>2
  <2>2. ASSUME NEW d \in stored'
        PROVE  signIns'[d.signIn] # None /\ signIns'[d.signIn].at = d.kind
               /\ d.runtime = cell[signIns'[d.signIn].source]
    <3>1. CASE d = next /\ at = "metadata"
      BY <3>1, <1>3, <1>4, <1>5, <1>10
    <3>2. CASE d \in stored /\ d # e
      <4>1. signIns[d.signIn] # None /\ signIns[d.signIn].at = d.kind
            /\ d.runtime = cell[signIns[d.signIn].source] /\ d.signIn \in SignIn
        BY <3>2 DEF CellInv, Stored, TypeOK, Entry
      <4> QED
        BY <3>2, <4>1, <1>9, <1>10
    <3> QED
      BY <3>1, <3>2, <1>8
  <2> QED
    BY <2>1, <2>2 DEF Stored
<1> QED
  BY <1>2, <1>3, <1>4, <1>10, <1>11, <1>12

(* What a request takes is the entry of its own sign-in. *)
LEMMA CallbackKeeps ==
  ASSUME CellInv, NEW q \in Request, Callback(q)
  PROVE  CellInv'
<1> DEFINE e == Kept(q, "state")
<1>1. At(q, "serve") /\ UNCHANGED <<cell, builder, life>>
  BY DEF Callback, Serving
<1>2. e.signIn = requests[q].signIn /\ e.runtime = requests[q].runtime
  BY DEF Kept
<1>3. CASE Answered(q, "missing") /\ UNCHANGED <<stored, signIns>>
  BY <1>1, <1>3, AnswerKeeps DEF At, Answer
<1>4. ASSUME e \in stored, stored' = stored \ {e}, Goes(q, "over"),
             NEW answer \in {"ok", "refused"}, Answered(q, answer)
      PROVE  CellInv'
  <2>1. signIns' = [signIns EXCEPT ![e.signIn] = [@ EXCEPT !.at = "over"]]
    BY <1>2, <1>4 DEF Goes
  <2>2. stored' = (stored \ {e}) \cup {}
    BY <1>4
  <2> HIDE DEF e
  <2>3. /\ signIns' \in [SignIn -> {None} \cup Begun] /\ stored' \subseteq Entry /\ Stored'
        /\ \A f \in SignIn : signIns[f] # None => signIns'[f] # None /\ signIns'[f].source = signIns[f].source
    BY <1>1, <1>4, <2>1, <2>2, EntryTaken
  <2>4. answer \in Answer
    BY DEF Answer
  <2> QED
    BY <1>1, <1>4, <2>3, <2>4, ServedKeeps DEF CellInv
<1>5. ASSUME e \in stored, stored' = (stored \ {e}) \cup {Kept(q, "metadata")}, Goes(q, "metadata"),
             Answered(q, "ok")
      PROVE  CellInv'
  <2>1. signIns' = [signIns EXCEPT ![e.signIn] = [@ EXCEPT !.at = "metadata"]]
    BY <1>2, <1>5 DEF Goes
  <2>2. stored' = (stored \ {e}) \cup {[kind |-> "metadata", signIn |-> e.signIn, runtime |-> e.runtime]}
    BY <1>5, <1>2 DEF Kept
  <2> HIDE DEF e
  <2>3. /\ signIns' \in [SignIn -> {None} \cup Begun] /\ stored' \subseteq Entry /\ Stored'
        /\ \A f \in SignIn : signIns[f] # None => signIns'[f] # None /\ signIns'[f].source = signIns[f].source
    BY <1>1, <1>5, <2>1, <2>2, EntryTaken
  <2>4. "ok" \in Answer
    BY DEF Answer
  <2> QED
    BY <1>1, <1>5, <2>3, <2>4, ServedKeeps DEF CellInv
<1> QED
  BY <1>3, <1>4, <1>5 DEF Callback

LEMMA RedeemKeeps ==
  ASSUME CellInv, NEW q \in Request, Redeem(q)
  PROVE  CellInv'
<1> DEFINE e == Kept(q, "metadata")
<1>1. At(q, "serve") /\ UNCHANGED <<cell, builder, life>>
  BY DEF Redeem, Serving
<1>2. e.signIn = requests[q].signIn
  BY DEF Kept
<1>3. CASE Answered(q, "missing") /\ UNCHANGED <<stored, signIns>>
  BY <1>1, <1>3, AnswerKeeps DEF At, Answer
<1>4. ASSUME e \in stored, stored' = stored \ {e}, Goes(q, "over"), Answered(q, "ok")
      PROVE  CellInv'
  <2>1. signIns' = [signIns EXCEPT ![e.signIn] = [@ EXCEPT !.at = "over"]]
    BY <1>2, <1>4 DEF Goes
  <2>2. stored' = (stored \ {e}) \cup {}
    BY <1>4
  <2> HIDE DEF e
  <2>3. /\ signIns' \in [SignIn -> {None} \cup Begun] /\ stored' \subseteq Entry /\ Stored'
        /\ \A f \in SignIn : signIns[f] # None => signIns'[f] # None /\ signIns'[f].source = signIns[f].source
    BY <1>1, <1>4, <2>1, <2>2, EntryTaken
  <2>4. "ok" \in Answer
    BY DEF Answer
  <2> QED
    BY <1>1, <1>4, <2>3, <2>4, ServedKeeps DEF CellInv
<1> QED
  BY <1>3, <1>4 DEF Redeem

LEMMA LapseKeeps ==
  ASSUME CellInv, NEW e \in stored, Lapse(e)
  PROVE  CellInv'
<1>1. /\ signIns' = [signIns EXCEPT ![e.signIn] = [@ EXCEPT !.at = "over"]]
      /\ stored' = (stored \ {e}) \cup {} /\ UNCHANGED <<cell, builder, requests, life>>
  BY DEF Lapse
<1>2. /\ signIns' \in [SignIn -> {None} \cup Begun] /\ stored' \subseteq Entry /\ Stored'
      /\ \A f \in SignIn : signIns[f] # None => signIns'[f] # None /\ signIns'[f].source = signIns[f].source
  BY <1>1, EntryTaken
<1>3. TypeOK'
  BY <1>1, <1>2 DEF CellInv, TypeOK
<1>4. Belongs'
  BY <1>1, <1>2 DEF CellInv, Belongs
<1>5. Alive' /\ OneBuilder' /\ HoldsCell' /\ OneOutcome'
  BY <1>1 DEF CellInv, Alive, OneBuilder, HoldsCell, OneOutcome, At
<1> QED
  BY <1>2, <1>3, <1>4, <1>5 DEF CellInv

-----------------------------------------------------------------------------
(* Dropped requests and restarts. *)

(* A request that is dropped gives back its permit and keeps what it holds. *)
LEMMA DropKeeps ==
  ASSUME CellInv, NEW q \in Request, Drop(q)
  PROVE  CellInv'
<1> DEFINE k == requests[q]
           new == [k EXCEPT !.at = "done"]
<1>1. k # None /\ k \in Stage /\ k.at # "done" /\ k.source \in Source
  BY DEF CellInv, TypeOK, Drop, Stage
<1>2. /\ new \in Stage /\ new.at = "done" /\ new.life = k.life /\ new.source = k.source
      /\ new.op = k.op /\ new.signIn = k.signIn /\ new.runtime = k.runtime
  BY <1>1 DEF Stage
<1>3. new # None
  BY <1>2, RuntimeAssumption
<1>4. requests' = [requests EXCEPT ![q] = new] /\ UNCHANGED <<cell, stored, signIns, life>>
  BY DEF Drop
<1>5. /\ builder' \in [Source -> Request \cup {None}]
      /\ \A s \in Source : builder'[s] = IF builder[s] = q THEN None ELSE builder[s]
  BY DEF Drop, CellInv, TypeOK
<1> HIDE DEF new
<1>6. /\ requests' \in [Request -> {None} \cup Stage] /\ requests'[q] = new
      /\ \A p \in Request : p # q => requests'[p] = requests[p]
  BY <1>2, <1>4 DEF CellInv, TypeOK
<1> HIDE DEF k
<1>7. TypeOK'
  BY <1>4, <1>5, <1>6 DEF CellInv, TypeOK
<1>8. Alive' /\ HoldsCell' /\ Belongs' /\ Stored'
  BY <1>1, <1>2, <1>4, <1>6 DEF CellInv, Alive, HoldsCell, Belongs, Stored, TypeOK, k
<1>9. OneBuilder'
  <2>1. ASSUME NEW s \in Source, builder'[s] # None
        PROVE  requests'[builder'[s]] # None /\ requests'[builder'[s]].at = "build"
               /\ requests'[builder'[s]].source = s /\ cell[s] = None
    <3>1. builder[s] # q /\ builder'[s] = builder[s] /\ builder[s] \in Request
      BY <2>1, <1>5 DEF CellInv, TypeOK
    <3> QED
      BY <2>1, <3>1, <1>6 DEF CellInv, OneBuilder, At
  <2>2. ASSUME NEW p \in Request, requests'[p] # None, requests'[p].at = "build"
        PROVE  builder'[requests'[p].source] = p
    <3>1. p # q /\ requests'[p] = requests[p] /\ requests[p].source \in Source
      BY <2>2, <1>2, <1>6 DEF CellInv, TypeOK, Stage
    <3>2. builder[requests[p].source] = p
      BY <2>2, <3>1 DEF CellInv, OneBuilder, At
    <3> QED
      BY <3>1, <3>2, <1>5
  <2> QED
    BY <2>1, <2>2, <1>4 DEF OneBuilder, At
<1>10. OneOutcome'
  BY <1>1, <1>2, <1>4, <1>6 DEF CellInv, OneOutcome, k
<1> QED
  BY <1>7, <1>8, <1>9, <1>10 DEF CellInv

(* A restart ends every request and every sign-in; what requests of the     *)
(* lives before held stays as it was.                                      *)
LEMMA RestartKeeps ==
  ASSUME CellInv, Restart
  PROVE  CellInv'
<1>1. ASSUME NEW q \in Request, requests[q] # None
      PROVE  /\ requests'[q] \in Stage /\ requests'[q] # None /\ requests'[q].at = "done"
             /\ requests'[q].life = requests[q].life /\ requests'[q].source = requests[q].source
             /\ requests'[q].op = requests[q].op /\ requests'[q].signIn = requests[q].signIn
             /\ requests'[q].runtime = requests[q].runtime
  <2> DEFINE new == [requests[q] EXCEPT !.at = "done"]
  <2>1. requests[q] \in Stage
    BY <1>1 DEF CellInv, TypeOK
  <2>2. /\ new \in Stage /\ new.at = "done" /\ new.life = requests[q].life
        /\ new.source = requests[q].source /\ new.op = requests[q].op
        /\ new.signIn = requests[q].signIn /\ new.runtime = requests[q].runtime
    BY <2>1 DEF Stage
  <2>3. new # None
    BY <2>2, RuntimeAssumption
  <2>4. requests'[q] = new
    BY <1>1 DEF Restart
  <2> HIDE DEF new
  <2> QED
    BY <2>2, <2>3, <2>4
<1>2. \A q \in Request : requests[q] = None => requests'[q] = None
  BY DEF Restart
<1>3. ASSUME NEW f \in SignIn, signIns[f] # None
      PROVE  /\ signIns'[f] \in Begun /\ signIns'[f] # None /\ signIns'[f].at = "over"
             /\ signIns'[f].source = signIns[f].source
  <2> DEFINE new == [signIns[f] EXCEPT !.at = "over"]
  <2>1. signIns[f] \in Begun
    BY <1>3 DEF CellInv, TypeOK
  <2>2. new \in Begun /\ new.at = "over" /\ new.source = signIns[f].source
    BY <2>1 DEF Begun
  <2>3. new # None
    BY <2>2, RuntimeAssumption
  <2>4. signIns'[f] = new
    BY <1>3 DEF Restart
  <2> HIDE DEF new
  <2> QED
    BY <2>2, <2>3, <2>4
<1>4. \A f \in SignIn : signIns[f] = None => signIns'[f] = None
  BY DEF Restart
<1>5. stored' = {} /\ life' = life + 1 /\ life' \in 1 .. MaxLives /\ life \in Nat
  BY RuntimeAssumption DEF Restart, CellInv, TypeOK
<1>6. /\ cell' \in [Source -> Runtime] /\ builder' \in [Source -> Request \cup {None}]
      /\ \A s \in Source : builder'[s] = None
  BY DEF Restart, Runtime
<1>7. requests' \in [Request -> {None} \cup Stage]
  <2>1. requests' = [q \in Request |-> requests'[q]]
    BY DEF Restart
  <2>2. \A q \in Request : requests'[q] \in {None} \cup Stage
    BY <1>1, <1>2
  <2> QED
    BY <2>1, <2>2
<1>8. signIns' \in [SignIn -> {None} \cup Begun]
  <2>1. signIns' = [f \in SignIn |-> signIns'[f]]
    BY DEF Restart
  <2>2. \A f \in SignIn : signIns'[f] \in {None} \cup Begun
    BY <1>3, <1>4
  <2> QED
    BY <2>1, <2>2
<1>9. TypeOK'
  BY <1>5, <1>6, <1>7, <1>8 DEF TypeOK
<1>10. \A q \in Request : requests'[q] # None =>
         requests'[q].life \in Nat /\ requests'[q].life <= life /\ requests'[q].at = "done"
  <2>1. \A q \in Request : requests[q] # None => requests[q].life \in Nat /\ requests[q].life <= life
    BY DEF CellInv, TypeOK, Stage, Alive
  <2> QED
    BY <2>1, <1>1, <1>2
<1>11. Alive' /\ HoldsCell'
  BY <1>5, <1>10 DEF Alive, HoldsCell
<1>12. Belongs'
  BY <1>1, <1>2, <1>3 DEF CellInv, Belongs
<1>13. Stored'
  BY <1>3, <1>4, <1>5 DEF Stored
<1>14. OneBuilder'
  BY <1>6, <1>10 DEF OneBuilder, At
<1>15. OneOutcome'
  BY <1>1, <1>2 DEF CellInv, OneOutcome
<1> QED
  BY <1>9, <1>11, <1>12, <1>13, <1>14, <1>15 DEF CellInv

-----------------------------------------------------------------------------
LEMMA CellNext ==
  ASSUME CellInv, [Next]_vars
  PROVE  CellInv'
<1>1. CASE UNCHANGED vars
  BY <1>1 DEF vars, CellInv, TypeOK, Alive, OneBuilder, HoldsCell, Belongs, Stored, OneOutcome, At
<1>2. CASE Next
  BY <1>2, ArriveKeeps, ProjectKeeps, FindKeeps, BuildKeeps, SettleKeeps, StartKeeps, CallbackKeeps,
     RedeemKeeps, UseTokenKeeps, DropKeeps, LapseKeeps, RestartKeeps DEF Next
<1> QED
  BY <1>1, <1>2

(* Requests, the cells of the sources, their stores and the sign-ins keep   *)
(* their types.                                                            *)
THEOREM RuntimeTypes == Spec => []TypeOK
<1>1. Spec => []CellInv
  BY CellInit, CellNext, PTL DEF Spec
<1>2. CellInv => TypeOK
  BY DEF CellInv
<1> QED
  BY <1>1, <1>2, PTL

(* All that get past the cell of a source in one life of the server hold    *)
(* one runtime, or all the same error.                                     *)
THEOREM OneRuntimePerLife == Spec => []OneOutcome
<1>1. Spec => []CellInv
  BY CellInit, CellNext, PTL DEF Spec
<1>2. CellInv => OneOutcome
  BY DEF CellInv
<1> QED
  BY <1>1, <1>2, PTL

(* A request that serves the source of a sign-in under way has the store    *)
(* the sign-in was put into.                                               *)
THEOREM SignInsFound == Spec => []SignInsAreFound
<1>1. Spec => []CellInv
  BY CellInit, CellNext, PTL DEF Spec
<1>2. ASSUME CellInv PROVE SignInsAreFound
  <2> SUFFICES ASSUME NEW f \in SignIn, NEW q \in Request,
                      signIns[f] # None, signIns[f].at # "over", At(q, "serve"),
                      requests[q].source = signIns[f].source
               PROVE  [kind |-> signIns[f].at, signIn |-> f, runtime |-> requests[q].runtime] \in stored
    BY DEF SignInsAreFound
  <2>1. requests[q].runtime = cell[signIns[f].source]
    BY <1>2, ServingHolds
  <2> QED
    BY <1>2, <2>1 DEF CellInv, Stored
<1> QED
  BY <1>1, <1>2, PTL
=============================================================================
