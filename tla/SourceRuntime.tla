----------------------------- MODULE SourceRuntime -----------------------------
(***************************************************************************)
(* The OIDC sources of packages/amagi-securitydept as the routes of        *)
(* /api/auth use them through AuthFacadeService.  The runtime of a source   *)
(* (its client, its token verifier and the stores of sign-ins under way)   *)
(* is built by the first request that needs it, with calls to the provider, *)
(* and kept in a tokio OnceCell, an error as much as a runtime.  A request  *)
(* may be dropped at any await, when its connection closes, and the server  *)
(* may be restarted, which loses the cells and the stores.                 *)
(*                                                                         *)
(* The protocol itself, the two stores included, is SecurityDept's.  What   *)
(* becomes of verified claims and tokens is AccountBinding's subject.      *)
(***************************************************************************)
EXTENDS Naturals

CONSTANTS
  Source,    \* the configured oidc_sources
  Broken,    \* those whose configuration SecurityDept rejects
  Request,   \* requests, each one source's
  SignIn,    \* states that oidc_start issues
  None,      \* nothing yet
  Failed,    \* the error a build ended with
  MaxLives   \* bound: the server is started so many times

(* token stands for refresh, user info and bearer tokens. *)
Op      == {"config", "start", "callback", "redeem", "token"}
Answer  == {"ok", "refused", "missing", "misconfigured", "unavailable"}
Kind    == {"state", "metadata"}
Runtime == Request \cup {None, Failed}
Entry   == [kind : Kind, signIn : SignIn, runtime : Request]
Begun   == [source : Source, at : Kind \cup {"over"}]
Stage   == [at : {"cell", "build", "serve", "done"}, op : Op, source : Source,
            signIn : SignIn \cup {None}, runtime : Runtime, life : Nat,
            answer : Answer \cup {None}]

ASSUME RuntimeAssumption ==
  /\ Broken \subseteq Source /\ MaxLives \in Nat \ {0}
  /\ None # Failed /\ {None, Failed} \cap Request = {}
  /\ None \notin SignIn \cup Answer \cup Begun \cup Stage

VARIABLES
  cell,      \* runtime_bundle of a source: None, Failed, or the request that built it
  builder,   \* the request that holds the permit of a cell, None
  stored,    \* entries of the pending-state and redemption stores of the runtimes
  signIns,   \* None, or the source of a sign-in and the entry it should find next
  requests,  \* None, or how far a request is
  life       \* how often the server has been started

vars == <<cell, builder, stored, signIns, requests, life>>

Init ==
  /\ cell = [s \in Source |-> None]
  /\ builder = [s \in Source |-> None]
  /\ stored = {}
  /\ signIns = [f \in SignIn |-> None]
  /\ requests = [q \in Request |-> None]
  /\ life = 1

At(q, stage) == requests[q] # None /\ requests[q].at = stage

Answered(q, answer) == requests' = [requests EXCEPT ![q] = [@ EXCEPT !.at = "done", !.answer = answer]]

(* build_securitydept_source_config has accepted the source. *)
Resolved(s) == s \notin Broken

(* A request once it has the outcome of a build: an error is its answer.   *)
Holding(k, runtime) ==
  IF runtime # Failed THEN [k EXCEPT !.at = "serve", !.runtime = runtime]
  ELSE [k EXCEPT !.at = "done", !.runtime = runtime,
                 !.answer = IF Resolved(k.source) THEN "unavailable" ELSE "misconfigured"]

-----------------------------------------------------------------------------
(* A request arrives; a callback and a redemption belong to a sign-in that  *)
(* was begun with the source, and may come again.                          *)
Arrive(q, op, s, f) ==
  /\ requests[q] = None
  /\ IF op \in {"callback", "redeem"} THEN f # None /\ signIns[f] # None /\ signIns[f].source = s
     ELSE f = None
  /\ requests' = [requests EXCEPT ![q] = [at |-> "cell", op |-> op, source |-> s, signIn |-> f,
                                          runtime |-> None, life |-> life, answer |-> None]]
  /\ UNCHANGED <<cell, builder, stored, signIns, life>>

(* The projection for the frontend needs the configuration only. *)
Project(q) ==
  /\ At(q, "cell") /\ requests[q].op = "config"
  /\ Answered(q, IF Resolved(requests[q].source) THEN "ok" ELSE "misconfigured")
  /\ UNCHANGED <<cell, builder, stored, signIns, life>>

(* source_bundle: the outcome is there already ...                         *)
Find(q) ==
  /\ At(q, "cell") /\ requests[q].op # "config"
  /\ cell[requests[q].source] # None
  /\ requests' = [requests EXCEPT ![q] = Holding(@, cell[requests[q].source])]
  /\ UNCHANGED <<cell, builder, stored, signIns, life>>

(* Mutant of Build: a request that finds no runtime builds one, whoever     *)
(* else is building.                                                       *)
BuildBeside(q) ==
  /\ At(q, "cell") /\ requests[q].op # "config"
  /\ cell[requests[q].source] = None
  /\ builder' = [builder EXCEPT ![requests[q].source] = q]
  /\ requests' = [requests EXCEPT ![q] = [@ EXCEPT !.at = "build"]]
  /\ UNCHANGED <<cell, stored, signIns, life>>

(* ... or one request builds it while the others wait. *)
Build(q) ==
  /\ At(q, "cell") /\ requests[q].op # "config"
  /\ LET s == requests[q].source IN
     /\ cell[s] = None /\ builder[s] = None
     /\ builder' = [builder EXCEPT ![s] = q]
  /\ requests' = [requests EXCEPT ![q] = [@ EXCEPT !.at = "build"]]
  /\ UNCHANGED <<cell, stored, signIns, life>>

(* build_runtime_bundle: the configuration is wrong, the provider does not  *)
(* answer, or there is a runtime.                                          *)
Outcomes(q) == IF Resolved(requests[q].source) THEN {q, Failed} ELSE {Failed}

(* Mutant of Settle: only a runtime is kept. *)
SettleRuntime(q) ==
  /\ At(q, "build")
  /\ \E outcome \in Outcomes(q) :
       /\ cell' = [cell EXCEPT ![requests[q].source] = IF outcome = Failed THEN None ELSE outcome]
       /\ requests' = [requests EXCEPT ![q] = Holding(@, outcome)]
  /\ builder' = [builder EXCEPT ![requests[q].source] = None]
  /\ UNCHANGED <<stored, signIns, life>>

Settle(q) ==
  /\ At(q, "build")
  /\ \E outcome \in Outcomes(q) :
       /\ cell' = [cell EXCEPT ![requests[q].source] = outcome]
       /\ requests' = [requests EXCEPT ![q] = Holding(@, outcome)]
  /\ builder' = [builder EXCEPT ![requests[q].source] = None]
  /\ UNCHANGED <<stored, signIns, life>>

-----------------------------------------------------------------------------
(* What a request does with the runtime it holds.                          *)

Serving(q, op) == At(q, "serve") /\ requests[q].op = op
Kept(q, kind)  == [kind |-> kind, signIn |-> requests[q].signIn, runtime |-> requests[q].runtime]
Goes(q, at)    == signIns' = [signIns EXCEPT ![requests[q].signIn] = [@ EXCEPT !.at = at]]

(* oidc_start stores a new state, unless its redirect is refused.          *)
Start(q) ==
  /\ Serving(q, "start")
  /\ \/ \E f \in SignIn :
          /\ signIns[f] = None
          /\ signIns' = [signIns EXCEPT ![f] = [source |-> requests[q].source, at |-> "state"]]
          /\ stored' = stored \cup {[kind |-> "state", signIn |-> f, runtime |-> requests[q].runtime]}
          /\ Answered(q, "ok")
     \/ Answered(q, "refused") /\ UNCHANGED <<signIns, stored>>
  /\ UNCHANGED <<cell, builder, life>>

(* oidc_callback takes the state out of the store and exchanges the code,   *)
(* which may fail, or leave metadata to be redeemed.                       *)
Callback(q) ==
  /\ Serving(q, "callback")
  /\ IF Kept(q, "state") \in stored
     THEN \/ /\ stored' = stored \ {Kept(q, "state")}
             /\ Goes(q, "over")
             /\ \E answer \in {"ok", "refused"} : Answered(q, answer)
          \/ /\ stored' = (stored \ {Kept(q, "state")}) \cup {Kept(q, "metadata")}
             /\ Goes(q, "metadata")
             /\ Answered(q, "ok")
     ELSE Answered(q, "missing") /\ UNCHANGED <<stored, signIns>>
  /\ UNCHANGED <<cell, builder, life>>

(* oidc_metadata_redeem: once. *)
Redeem(q) ==
  /\ Serving(q, "redeem")
  /\ IF Kept(q, "metadata") \in stored
     THEN stored' = stored \ {Kept(q, "metadata")} /\ Goes(q, "over") /\ Answered(q, "ok")
     ELSE Answered(q, "missing") /\ UNCHANGED <<stored, signIns>>
  /\ UNCHANGED <<cell, builder, life>>

(* Refresh, user info and bearer tokens leave the runtime as it is.        *)
UseToken(q) ==
  /\ Serving(q, "token")
  /\ \E answer \in {"ok", "refused"} : Answered(q, answer)
  /\ UNCHANGED <<cell, builder, stored, signIns, life>>

-----------------------------------------------------------------------------
(* The connection of a request closes: its handler goes, and the permit, if *)
(* it was building, goes to another one.                                   *)
Drop(q) ==
  /\ requests[q] # None /\ requests[q].at # "done"
  /\ requests' = [requests EXCEPT ![q] = [@ EXCEPT !.at = "done"]]
  /\ builder' = [s \in Source |-> IF builder[s] = q THEN None ELSE builder[s]]
  /\ UNCHANGED <<cell, stored, signIns, life>>

(* The stores keep an entry for a while. *)
Lapse(e) ==
  /\ stored' = stored \ {e}
  /\ signIns' = [signIns EXCEPT ![e.signIn] = [@ EXCEPT !.at = "over"]]
  /\ UNCHANGED <<cell, builder, requests, life>>

Restart ==
  /\ life < MaxLives /\ life' = life + 1
  /\ cell' = [s \in Source |-> None]
  /\ builder' = [s \in Source |-> None]
  /\ stored' = {}
  /\ signIns' = [f \in SignIn |-> IF signIns[f] = None THEN None ELSE [signIns[f] EXCEPT !.at = "over"]]
  /\ requests' = [q \in Request |->
                    IF requests[q] = None THEN None ELSE [requests[q] EXCEPT !.at = "done"]]

Next ==
  \/ \E q \in Request :
       \/ \E op \in Op, s \in Source, f \in SignIn \cup {None} : Arrive(q, op, s, f)
       \/ Project(q) \/ Find(q) \/ Build(q) \/ Settle(q)
       \/ Start(q) \/ Callback(q) \/ Redeem(q) \/ UseToken(q)
       \/ Drop(q)
  \/ \E e \in stored : Lapse(e)
  \/ Restart

Spec == Init /\ [][Next]_vars

-----------------------------------------------------------------------------
(* Properties. *)

TypeOK ==
  /\ cell \in [Source -> Runtime]
  /\ builder \in [Source -> Request \cup {None}]
  /\ stored \subseteq Entry
  /\ signIns \in [SignIn -> {None} \cup Begun]
  /\ requests \in [Request -> {None} \cup Stage]
  /\ life \in 1 .. MaxLives

(* However requests race for a source, and whichever of them are dropped in *)
(* the middle of its build, all that get past the cell in one life of the   *)
(* server hold one runtime, or all the same error: a provider that could    *)
(* not be reached once stays unusable, though it may be back.              *)
OneOutcome == \A q, p \in Request : requests[q] # None /\ requests[p] # None =>
  LET a == requests[q]
      b == requests[p]
  IN a.source = b.source /\ a.life = b.life /\ None \notin {a.runtime, b.runtime}
       => a.runtime = b.runtime

(* A sign-in that is under way finds what the server keeps for it: every    *)
(* request that serves its source has the store it was put into, until it   *)
(* is used, lapses, or the server is restarted.                            *)
SignInsAreFound == \A f \in SignIn, q \in Request :
  signIns[f] # None /\ signIns[f].at # "over" /\ At(q, "serve")
    /\ requests[q].source = signIns[f].source
    => [kind |-> signIns[f].at, signIn |-> f, runtime |-> requests[q].runtime] \in stored
=============================================================================
