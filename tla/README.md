# Formal model of amagi

Amagi is a self-hosted control plane for bookmarks: a Rust API server over Postgres, a TypeScript
sync client that runs in a browser extension, and a dashboard. This directory holds TLA+ modules
that model its core, the TLC configurations that check them, and TLAPS proofs of the main theorems.
`PROJECT.json` lists, for every definition, the source lines it stands for.

Run a check with `tlc -config MCMoveCycle.cfg MCBookmarkLibrary`, a proof with `tlapm SourceRuntime_proofs.tla`.

## 1. Inventory

| Component | Source | State | Operations | Modelled by |
|---|---|---|---|---|
| Bookmark store | `packages/amagi-bookmarks` | `bookmark_nodes`, `library_heads`, `node_revisions` | create library; create, update, move, delete, restore node; tree; revisions | `BookmarkLibrary`, `LibraryReaders`, `RevisionLog` |
| Sync service, protocol | `packages/amagi-sync` (`preview`, `apply`, `ack_cursor`, `feed`) | `sync_previews`, `node_client_mappings`, `sync_cursors` | feed, preview, apply and its replay, ack, expiry | `SyncServer`, `LibraryReaders` |
| Sync service, profiles | `packages/amagi-sync` (registration, session, profiles, targets, rules) | `devices`, `browser_clients`, `sync_profiles`, their targets and rules | register, start session, list, profile, target and rule requests | `SyncProfiles` |
| Sync client | `packages/amagi-sync-client` | stored sync state: mappings, cursor, last known tree, status | one manual sync run: session, feed, diff, preview, apply, local apply, ack, save | `ManualSync`, `SyncPosition`; partly: no first registration, every node a folder |
| Browser adapter | `packages/amagi-webext` | the browser's bookmark tree | load tree, run a local plan | `ManualSync` |
| Extension background | `apps/extension-web/src/extension` | settings, stored state | one run per message | `ManualSync`, the runs only |
| Account binding, principals | `packages/amagi-auth` | `users`, `auth_users`, `oidc_account_bindings`, `audit_events` | user-info: look up or create a binding; bearer: look up a user | `AccountBinding` |
| OIDC source runtime | `packages/amagi-securitydept`, the routes of `/api/auth` | a cell per source, with the runtime or the error of its one build; the stores of the runtime's sign-ins | project the configuration; start, callback, redeem; refresh, user info, bearer | `SourceRuntime` |
| Schema, database runtime | `packages/amagi-db`, `packages/amagi-db-migration` | the tables and their keys | migrations, row level security | tables, unique indexes and the policies of the bindings table in the modules above |
| API server | `apps/api-server` | none after start | resolve the user, call one service, map the error | the user's resolution in `AccountBinding`, restarts in `SourceRuntime` |
| Configuration | `packages/amagi-config` | none after start | load, validate | not modelled |
| Dashboard, auth client, test utilities | `apps/dashboard-web`, `packages/amagi-auth-client`, `packages/amagi-test-utils` | presentation, browser token store | | not modelled |

**Interaction.** Dashboard handlers and sync handlers each open one Postgres transaction per
request, at the default isolation level READ COMMITTED, and run a list of statements in it. The
sync service's `apply` runs bookmark operations inside its own transaction through `bind_txn`. No
statement of the code is a `SELECT ... FOR UPDATE`; the only row locks come from `UPDATE` and from
unique indexes. A client reads `feed`, sends its local changes with `preview`, confirms with
`apply`, changes its browser tree, and acknowledges with `ack_cursor`.

**What is hard.** Checks are made on rows that nobody has locked and that a concurrent transaction
may change before the write (`move_node`, `create_node`, `apply`, `ack_cursor`, `update_profile`).
Readers run two statements, each with a snapshot of its own. Operations of one apply share a
transaction, so the library head is held while the next row is awaited. Requests are lost, late or
repeated. The client and the server each keep a part of the state of a sync, and the client's
script may be stopped between any two awaits. Requests that need a runtime of an OIDC source wait for one of
them to build it, and that one may be dropped while it does.

**What makes the components correct.**

* Bookmark store: the revisions of a library are numbered without gaps by its head; nothing is ever
  added at or below a head somebody has read; the tree is the replay of its log; nodes stay in
  their library, below folders, acyclic, and are only placed below live folders.
* Readers: paging skips nothing; a loaded tree plus the feed after its clock is complete.
* Sync protocol: a preview is applied at most once and whole or not at all; it is applied to the
  state it was computed from; created nodes are mapped; cursors only advance and never pass a
  revision the client does not have.
* Profiles: an owner always has an enabled manual profile, and one default profile.
* Sync client: a synced tree is equal to the server's; a crash or a lost answer at any point of a
  run is repaired by later runs; a client that is behind catches up.
* Account binding: one user per external identity, however many first logins run at once.
* OIDC sources: one runtime per source while the server runs, so that a sign-in finds what its start has stored.

The hazards behind these properties are listed with their lines in `PROJECT.json`.

## 2. Modules

```
RevisionLog          abstract: numbered logs and a tree that is their replay
   ^ refined by
BookmarkLibrary      transactions, row locks, checks, writes, commit, rollback
   ^ extended by
   |-- LibraryReaders        revisions, feed and tree beside the writers
   |-- SyncServer            preview, apply, ack on top of the store
   |-- BookmarkLibrary_proofs        clocks, log, refinement
        |-- LibraryReaders_proofs
        |-- LibraryTree_proofs       the shape of the tree
             |-- SyncServer_proofs

SyncPosition         abstract: a client acknowledges only what its browser has
   ^ refined by
ManualSync           a client run await by await, its browser, and the server call by call
   |-- ManualSync_proofs

SyncProfiles         devices, clients, profiles, targets and rules
   |-- SyncProfiles_proofs

AccountBinding       logins, bindings, bearers
   |-- AccountBinding_proofs

SourceRuntime        the runtimes of OIDC sources, their requests and sign-ins
   |-- SourceRuntime_proofs

MCBookmarkLibrary, MCLibraryReaders, MCSyncServer, MCManualSync, MCSyncProfiles,
MCAccountBinding, MCSourceRuntime     finite instances for TLC
```

### BookmarkLibrary

`nodes`, `heads` and `revisions` are the committed tables. Each element of `Txn` is a database
connection that runs one transaction at a time. What an open transaction has written is in `draft`
(row versions), `claim` (advanced heads) and `pending` (revisions); the locks it holds are read off
these, and `Visible(t, n)` is what a statement of `t` sees. An operation is three steps, because
the code takes its locks one after the other:

| Step | Code | Takes |
|---|---|---|
| `CheckCreateLibrary`, `CheckCreate`, `CheckUpdate`, `CheckMove`, `CheckSetDeleted` | everything up to the first write: `owned_node`, `ensure_not_root`, `folder_parent`, `is_descendant`, `normalized_url` | nothing |
| `WriteNode` | `INSERT` or `UPDATE ... RETURNING` of the node | the node's row lock |
| `LogRevision` | `append_revision`: `UPDATE library_heads ... + 1 RETURNING`, then the revision | the head's row lock |
| `Commit`, `Rollback` | `finish_write_txn` | releases all |

The two details on which the properties hang are kept exactly. An `UPDATE` that waited writes its own
columns over the row version that is newest when the lock is granted, so `Written` is applied to
the row visible at that moment and not to the one that was checked; but `update_node` computes both
its columns from the row it had read, so it carries the old value of the column it did not mean to
change. The head is incremented in SQL, so the clock follows the newest head.

`Rollback` stands for every end without commit: a refused check, a database error, a client that
disconnects, a server that stops. A request whose check fails writes nothing and is not a step.
`DeadlockVictim` is Postgres's deadlock detector.

Left out as data: sort keys and their generation, `bookmark_meta`, library names, timestamps,
`url_normalized` (always equal to `url`). Left out because it is constant: the owner check (all
requests are the owner's) and row level security. `MaxHops` is the 128 of `is_descendant`; an
instance has fewer nodes, so the walk of an acyclic chain is never cut, and the walk of a cycle is.

### RevisionLog

The promise to readers, without transactions: one kind of step appends a batch of revisions that
continue the numbering of their library and sets every touched row to the payload of its last
revision in the batch. `BookmarkLibrary` implements it with the identity as refinement mapping on
the three tables.

### LibraryReaders

Adds readers: `ReadPage` (the dashboard's revision list), `PullHead` and `PullOps` (the sync feed:
head first, ops second, in two statements), `ReadTreeHead` and `ReadTreeNodes` (the tree, likewise).
Writers may commit between the two statements of a reader.

### SyncServer

A sync request is served on a connection `t` (`calls[t]`) and does its steps there; an apply drives
`phase[t]`, `draft[t]`, ... of `BookmarkLibrary` through the same operations a dashboard request
uses. `StartPreview` reads the head, `FinishPreview` the server ops and the targets of the local
mutations, and stores the preview. `StartApply` makes the checks of `apply` (status, expiry, head) and
parses the stored mutations; then `ApplyMutation`, which checks again that the nodes are in the library (`InSyncLibrary`), `ApplyWrite` and `ApplyLog` run each accepted mutation, and `FinishApply`
marks the preview and commits. `StartAck` and `FinishAck` are the read and the write of
`upsert_cursor`. `FailCall` is a failed request at any point.

`clients` is the part of the client the server's promises are about: the positions it has reached
and the clocks it was handed or made itself. A request of a client may carry any position it has
reached, so late and repeated acks and previews from an old cursor are included. The response to an
apply may be lost (`UNCHANGED clients` in `FinishApply`) and asked for again (`ReplayApply`).
Clients are honest: they acknowledge only a `newClock` they got.

Simplifications: the statements of `FinishPreview` are one step (a commit between two of them makes
the preview's `toClock` stale, and `StartApply` refuses it; the run `sync_creates` checks that
refusal for the gap between head and ops). The library is a normal one, since the service refuses to create
a vault. `Expire` may happen at any time; `mark_preview_expired` is always rolled back with the error
the handler returns, so the status `expired` is never stored.

### ManualSync and SyncPosition

`ManualSync` is one browser client over many runs of `runManualSync`. What survives a run is
`tree` (the browser's bookmarks) and `disk` (the stored `SyncState`); what the server holds is `log`
(the revisions of the library), `bound` (`node_client_mappings`) and `ack` (`sync_cursors`). A run is a
record in `run[r]`, and its `pc` is the await it stands at:

| `pc` | Action | Code |
|---|---|---|
| | `Begin` | `loadState`, `startSession`, `feed`: the stored cursor, else the server's, else 0 |
| `read` | `ReadTree` | `adapter.loadTree`, `buildLocalMutations` |
| `preview` | `Preview` | `preview`: `stale_base_clock`, refused and unmapped mutations, the server ops |
| `confirm` | `Confirm` | `confirmApply`, or the run ends `awaiting-confirmation` |
| `apply` | `Apply` | `apply`: head check, the mutations, the mappings; then `buildLocalApplyPlan` |
| `local` | `LocalStep`, `Recover`, `Reload` | `applyLocalPlan` op by op; its rejection; `loadTree` again |
| `ack` | `Ack` | `ackCursor` |
| `save` | `Save` | `saveState` |

`Abort` ends a run at any await: a call fails or its answer is lost, or the background script is
stopped. `Dashboard` writes to the library between any two of them, and `UserEdit` to the browser.
`origin`, `have` and `steady` record history for the properties and are read by no other action; except that
`origin` also says which browser ids were used, since a browser never reuses one.

The server's calls are one step here, because how their statements interleave is the subject of `SyncServer`.
Every node is a folder, `title` stands for a node's content and sort keys are left out, so the order
of siblings is not compared. The initial state is the one the orchestrator's tests set up
(`orchestrator.test.ts:504-518`): an empty browser whose bar is bound to the library's root. `Start`
and `FirstCursor` say where the client stands then; 1 is behind `library.create`. `MaxExt`,
`MaxClock` and `MaxEdits` bound browser ids, log and edits.

`SyncPosition` is the promise to the server that keeps the cursor: three variables, a step that
grows the library or the browser, and an acknowledgement that covers only what the browser has.

### SyncProfiles

`rows` is the committed row of every id of the five tables, `draft[t]` what the open transaction of
connection `t` has written, and with it locked, and `run[t]` its request and the name of its next statement.
Each handler of `service.rs` is a path through the statements of `repository.rs`:

| Request | Statements |
|---|---|
| `register` | `UpsertDevice`, `FindClient`, `WriteClient`, `EnsureDefault`, `EnsureRules` |
| `session` | `FindSessionClient`, `EnsureDefault`, `EnsureRules`, `SelectProfile` |
| `list` | `EnsureDefault`, `EnsureRules` |
| `create` | `CreateProfile` |
| `update` | `FindProfile`, `CountManual` when it disables, `WriteProfile`, and the default's two when it leaves the profile enabled |
| `target.*`, `rule.*` | `FindProfile`, then `InsertTarget` or `InsertRule`, or `FindRow` and `DeleteRow` or `UpdateRule` |

A failed check is a `Rollback`, as in `finish_write_txn`, and a rollback may also come at any time. The
unique index on `browser_clients` is `Collides`: an insert waits for an uncommitted row with its
columns and fails on a committed one. Ids are fresh UUIDs; `OutOfIds` is the bound on them, and a
request that finds none left fails. Columns nobody's control flow reads (names, directions,
conflict policies) are left out. `Disabler` is the set of connections whose requests may disable a profile.

### AccountBinding

Each `Login` is one user-info request with verified claims: `UserInfo` derives its identity
(`ExternalOidcIdentity::new`, with the source's `oidc_identity_claim`), and `Lookup`, `Insert`, `Touch`,
`RecordAudit` and `Commit` are the statements of its transaction. Row level security is part of the model: `Visible` and `Owned`
are the policies of `oidc_account_bindings`, so that an `UPDATE` touches only rows of the user that was
set before. `Contended` is the wait for a transaction that holds a row with the same source and identity key. The answer
to a committed login may be lost. Each `Bearer` is one request with a verified token, answered by
`lookup_by_oidc_subject`.

### SourceRuntime

`cell[s]` is the `OnceCell` of a source: empty, the runtime (named by the request that built it), or the error of the
build, which the cell keeps just as well. `builder[s]` is the request whose initialiser runs; tokio gives the permit to another waiter
when it is dropped (`Drop`), which happens to a handler whose connection closes. A request stands at one of four stages:

| Stage | Actions | Code |
|---|---|---|
| `cell` | `Project`; `Find`, `Build` | `frontend_config_projection`; `source_bundle`: the outcome is there, or this request builds it |
| `build` | `Settle` | `build_runtime_bundle`, with its calls to the provider; a source whose configuration was rejected fails here |
| `serve` | `Start`, `Callback`, `Redeem`, `UseToken` | the service call on the runtime it holds |
| `done` | | answered or dropped |

`stored` is what the two in-memory stores of a runtime keep: the state of a sign-in until its callback, then metadata until
it is redeemed. An entry belongs to the runtime it was put into, and is lost when it lapses or the server is restarted
(`Restart`, which also empties the cells). `signIns` is history: where a sign-in is, so that `SignInsAreFound` can say what
its next request should find. The protocol and the stores are the SecurityDept library's and external.

## 3. Runs

All bounds are constants of the modules: `BatchSize` operations in one transaction, `MaxClock` (no
operation is started on a library whose clock, as its transaction sees it, has reached it),
`PageLimit` and `OpsLimit` for the 500 of a page and of a preview, `MaxExt` and `MaxEdits`, and the sets of
ids and requests. Runs set `CHECK_DEADLOCK FALSE` where these bounds stop the model.

| Run | Question | Instance |
|---|---|---|
| `library` | Do the log, the tree and the abstract specification agree under every interleaving of two transactions of two operations, with rollbacks? | two libraries, three nodes, folders and bookmarks, all six operations, clocks to 4 (5 and 6 when transactions overlap) |
| `requests_end` | Do transactions that lock a row and the head in opposite orders end? | two connections, `FairSpec` |
| `move_cycle` | violation: `MoveDoesNotCreateCycles` | two moves, each below the other's node |
| `readers` | Do paging readers and tree readers miss a revision? | pages of two, two writers, up to six revisions, so pages are cut and the log grows during a read |
| `sync_serial` | Does the protocol keep its promises, is the tree acyclic, and are nodes placed under live folders only, when requests do not overlap? | one connection, two previews, all five mutation kinds, lost responses, replays, late acks, dashboard moves, deletes and restores, four nodes, clocks to 5; 3.4 million states |
| `sync_creates` | What survives when two requests of a client overlap? | two connections, lists of creates |
| `profiles` | Does a user keep an enabled manual profile, do registrations stay out of each other's way, does every request end? | two connections, one of which disables; two profiles, two clients, one device with two extension instances; `FairSpec` |
| `profile_rules` | Do concurrent updates and deletes of rules and targets keep columns, deletions and matchers? | two connections, two rules, one target |
| `manual_sync` | Do synced trees agree, is nothing echoed, does the cursor keep its promise, whatever fails? | three server nodes, four browser ids, clocks to 4, two edits, one run at a time; 2.9 million states up to the symmetry of the nodes |
| `first_sync` | violation: `ServerOpsBecomePlan` | the same with a client that starts at clock 0 |
| `source_runtime` | Do requests that race for a source's runtime, are dropped while they build it or come after a restart agree on it, and does a sign-in find its entry? | a good source and one with a rejected configuration, four requests, two sign-ins, one restart; 426 thousand states up to symmetry |
| `account_binding` | Do racing, failing and repeated logins agree on one user, and does each of them end? | three logins, one bearer, a source keyed by `sub` and one keyed by another claim, claims of two texts or missing; `FairSpec` |

**Why the bounds are enough.** Every conflict the code can have is between two transactions over a
row, a head, a mapping, a preview or a cursor; two connections produce each of them, in both orders, and two
operations per transaction are what it takes to hold a head while waiting for a row. Three nodes
are a root and two folders that can be moved below each other; four give chains. Clocks
up to 4 leave, after the library and its nodes are created, room for two concurrent operations and
one after them. A client run needs two server operations to have an order among them, two edits to
create a folder and change it, and two nodes besides the root for one to lie in the other; how many runs follow each other is not
bounded. Two logins race and a third comes after both. Of four requests one builds, one waits, and two more start a sign-in and
complete it or come after a restart. What is proved (section 5) does not depend on these bounds at all.

**Fairness.** `requests_end`: `WF` of `Commit` and of `DeadlockVictim`, since a handler
that has done its work commits, and Postgres runs its deadlock check after `deadlock_timeout`; `SF`
of `WriteNode` and `LogRevision`, since a lock is handed to its waiters in turn, so that a statement that finds
it free again and again is not passed over for ever. `profiles`: `SF` of a transaction's `Statement`, for the
same reason. `account_binding`: `WF` of a login's `Step`; there are finitely many logins, so a key is not
taken from a waiting one for ever. Starting a request is never fair, and the
rollback of a request is not assumed except for a deadlock's victim.

## 4. Where properties end

**Contradicted by the code.** Two runs show the code doing what its documents exclude:

* `move_cycle`: `move_node` validates the new parent and its ancestors with plain `SELECT`s, and the
  ancestors can move before the write (`docs/en/003-DATABASE.md:704`).
* `first_sync`: the first revision of a library has no node, and `toLocalApplyOp` throws on it, after
  the server has applied (`docs/en/005-SYNC.md:300`).

**Checked under a restriction.** Some properties hold only while requests, runs or
edits do not overlap in a certain way. Their configurations state the restriction in a constant;
lifting it makes TLC print the behaviour described here.

| Property | Lift | What happens |
|---|---|---|
| `PlacedUnderLiveFolder` | `Txn = {t1, t2}` in `MCSyncSerial.cfg` | `create_node` reads its parent, another connection deletes it, the child is inserted |
| `AppliedOnce` | `MutationLists <- DeleteLists` in `MCSyncCreates.cfg` | two applies of one preview both read `pending`; the mapping table stops creates only |
| `ApplyFollowsPreview` | two connections, `DashboardOps = {"node.delete"}` | a dashboard delete commits between the head check of `apply` and its first write |
| `NoSkippedRevision` | `OpsLimit = 2` and a client three behind | the preview is cut at the limit, `newClock` is the head, and the client acknowledges it |
| `CursorsOnlyAdvance` | two connections | two acks read the cursor, and the one with the smaller clock writes last |
| `ManualProfileRemains` | `Disabler = {t1, t2}` in `MCSyncProfiles.cfg` | each of two requests counts two enabled profiles and disables one (`docs/en/005-SYNC.md:83` excludes it) |
| `NothingEchoed` | `FirstCursor = None` in `MCManualSync.cfg` | the run is stopped between `ackCursor` and `saveState`: the next one takes the server's cursor and uploads what it had downloaded (`docs/en/005-SYNC.md:263` saves first) |
| `NothingEchoed` | `Run = {r1, r2}` | the run that saves last overwrites the mappings of the other |
| `SyncedTreesAgree` | `"node.restore"` in `DashboardOps` | a plan is sorted by kind: a delete and a restore of one node are performed as create, then delete |
| `SyncedTreesAgree` | without `steady` | an edit after the diff and before the reload is stored as known, and never sent |
| `SyncedTreesAgree` | `Run = {r1, r2}` | one run reloads the tree in which the other has created a bookmark, and stores it as known, without a mapping |
| `SyncedTreesAgree` | `FirstCursor = None` | as for `NothingEchoed`: the library shows the bookmark twice |
| `SyncedTreesAgree` | `OpsLimit = 2` and a client three behind | as for `NoSkippedRevision`: the revision that was cut off is missing |

Two behaviours are no violation of any stated promise but good to know. A client that is behind
and has changes gets `stale_base_clock` in every run, and no code pulls the server's ops first, so it
stays in `needs-user-resolution`. A child of a folder that was created in the same plan is addressed as
`server:<id>`; the plan fails and the run after the next diff repairs it. In `AccountBinding`, for a source whose
`oidc_identity_claim` is not `sub`, one subject may have two identity keys, hence two users, and a bearer is answered
with either; after the subject of a binding has changed, tokens with the old one get 401. A provider that cannot be reached
when its source is first used stays unusable until a restart, though the error that is kept (`SecurityDeptError::runtime_build`) tells the user to retry.

## 5. Proofs

The proof modules hold for every set of libraries, nodes, connections, logins and runs, every batch size, depth limit and
page size. The only assumptions on constants are the named ones of the modules: that the sets
are what their names say and `None` is none of their elements, and that bounds are numbers. Where a property holds only under a
restriction of section 4, which says what happens without it, so does its theorem:

| Theorems | Hypothesis |
|---|---|
| `SerialPlacement`, `SyncPlacesUnderLive`, `SerialMovesKeepTree`, `SyncKeepsTree`, `SerialAppliesFollow`, `SerialCursorsAdvance` | one connection |
| `SerialCursorsSkipNothing` | one connection, and `[]FewDue`: no preview has more due than it can carry |
| `PreviewsApplyOnce` | one connection, or every non-empty list of mutations has a create |
| `ManualProfileStays` | at most one connection disables |
| `PositionRefined` | `OpsLimit >= MaxClock`: previews are not cut |
| `SerialRunsEchoNothing` | one run at a time, and a stored cursor from the start |
| `SerialRunsAgree` | one run at a time, a stored cursor from the start, no `node.restore` by the dashboard, `OpsLimit >= MaxClock`, finitely many nodes |

* `TypeCorrect`: `Spec => [](TypeOK /\ OperationInv)`. `OperationInv` is what the type invariant
  lacks to be inductive: a transaction between its check and its write has a request, and the row it is going
  to update exists (rows are never removed), so `Written` yields a row.
* `ClocksAreGapFree`: `Spec => []GapFreeClocks`. Gap-freeness of the committed log says nothing
  about clocks handed out by open transactions, so it is strengthened to `ClockInv`: a head is
  claimed by one transaction at a time, and the pending revisions of that transaction number exactly the
  interval from the committed head to its claim. `Commit` joins the two intervals, `Rollback` drops
  one. The interval facts are lemmas on a predicate `Numbered(S, l, from, to)`.
  `OpenClocksAreExclusive` states `ClockInv` itself.
* `CursorsStayComplete`: `Spec => NoLateRevision`, an action property that follows from the same
  invariant: the revisions a commit adds have clocks above the committed head.
* `ImplementsLog`: `Spec => ImplementsRevisionLog`. Besides `ClockInv` a commit needs `DraftInv`
  (`DraftsFollowLog`):
  the row version a transaction is about to publish is the payload of its last revision of that node.
* `TreeFollowsLog`: `Spec => []RowIsLastRevision`. This needs `RowLockInv` too: versions of one
  row are never held by two transactions and a fresh node id is nobody else's, so the revision that
  a commit logs for a node is later than all that are committed for it.
* `TreeKeepsShape`, `SyncKeepsShape`: `TreeShape` of the store alone and beside applies. `ShapeInv` gives the committed rows and
  the drafts one shape (`Drafted`), says that what an operation has found is still there, since rows are never removed and keep library
  and kind (`Asked`, `NamedRoot`), and that a library has one founder, who drafts its root and its first revision (`OneFounder`, `OneRoot`).
* `SerialPlacement`, `SyncPlacesUnderLive`: `PlacedInv` looks at a transaction's `History`, the committed revisions and its
  own: the folder its check found is live in it, and stays so until the revision that places the node has its clock.
* `SerialMovesKeepTree`, `SyncKeepsTree`: the tree is acyclic when every non-empty set of nodes has a member whose parent lies
  outside it, which is `StoredAcyclic`, and `SeenAcyclic` of what a transaction sees. `WalkLeaves` is the heart: if the walk from the new parent meets a root
  and never the moved node, no set closed under parents contains the moved node. The least number of hops at which the walk has
  left the set (`Smallest`) stands for the induction.
* `PagingIsComplete`, `SyncFeedIsComplete`, `TreeAndFeedAreComplete`: `ReadersSpec` implies
  `FeedIsPrefix`, `PullIsPrefix` and `TreeThenFeedIsComplete`. Readers change nothing of the store
  (`ReadersSpec => Spec`), so the theorems above hold beside them. Clocks have no gaps, so the first
  `PageLimit` revisions after a cursor are those of an interval of clocks (`PageIsInterval`, which
  counts them by a bijection), and an empty page means the cursor is at the head. The strengthening
  `ReadersInv` says that no cursor, tree clock or head a feed has read is past the committed
  head; hence what a step of the store appends, by `ImplementsLog`, is after all of them.
* `SyncKeepsLog`, `SyncKeepsPositions`, `SyncTreeFollowsLog`: every step of `SyncNext` is a step of `BookmarkLibrary` or leaves
  the store alone (`StoreSteps`), so what the store promises holds of applies beside requests. That
  an accepted mutation is well typed when it becomes an operation needs `ServiceInv`, the types of stored previews and of requests.
* `PreviewsAreExact`: `SyncSpec => []PreviewOpsAreExact`. Its invariant `OpsInv` says of a preview that is not applied
  yet: it has all that is due up to `to`, and either nothing later or the head is past `to` already. What is due does not change, because
  `to` was a head (`DueIsStable`). An apply starts only with the head at `to`, so only with an exact preview.
* `CreatesStayMapped`: `SyncSpec => []CreatesAreMapped`. `MapInv` follows the bindings through an apply: its uncommitted
  bindings are one to one and of nodes only it has drafted, its pending creates have one each, and it has none before it
  holds the head. Two applies with bindings would both hold the head, so no binding is committed next to
  an uncommitted one with its external id (`ApplyFrame`); the check `ApplyLog` makes under the lock settles the ones before.
* `SyncTypes`: `SyncTypeOK`, with `TypesInv` for the requests under way. That the loop of a preview over its mutations yields a list of them is
  shown at the least index at which it would not.
* `PreviewsApplyOnce`: `AppliedOnce`, in which `OnceInv` counts along: an apply that holds the head has as many mutations left
  and clocks of its own as its preview has accepted, from its head on. A second apply of a preview that has meanwhile been applied
  still has to make a create whose external id is bound by now, so it never logs it.
* `SerialAppliesFollow`, `SerialCursorsAdvance`: with one connection the head stays at `to` during an apply, and
  the cursor where an ack has read it.
* `SerialCursorsSkipNothing`: `NoSkippedRevision`. `SkipInv` says that whatever a client has reached, has acknowledged or is asking about lies in what it
  knows, and that an answer to its apply brings all clocks up to the head it will acknowledge: those of the preview (`PreviewsAreExact`) and its own, which directly follow.
* `SyncClientTypes`: `TypeOK` of `ManualSync`; `Typed` gives every await the fields the rest of its run reads.
* `PositionRefined`: `Spec => ImplementsPosition` for `ManualSync`. Its invariant `PositionInv` says
  for each await what the run relies on: the base it read is covered by the browser, its preview carries every
  revision after the base, and while it performs the plan, a revision up to the new clock that the browser lacks is still
  in the plan. The log and the browser's clocks only grow, so what one run relies on survives every step of another
  run, of the user and of the dashboard.
* `SerialRunsEchoNothing`: `NothingEchoed`. The run may stop between any two awaits, so the mappings it has saved may lack nodes that it
  has created in the browser for the server. `EchoInv` calls these strays, and says that they exist only while the stored cursor is behind the head of the library. A
  run that meets one sends its base with the local change, so the server refuses it with `stale_base_clock`; a run that gets past the
  preview has none, and saves every mapping it makes together with its cursor.
* `SerialRunsAgree`: `SyncedTreesAgree`. `AgreeInv` speaks of the states in which the user has not edited between the two loads of
  a run (`steady`). It says that the browser's tree hangs together below the bar (`Nested`); that the log is one that starts with
  `library.create` and in which each row is what its operation makes of the row before, with a parent that has a row and none that
  comes back from the deleted (`Grown`); that the stored state, once its cursor is above 0, knows the tree that the library shows at that
  cursor, under a map that gives no node to two bookmarks (`StateFits`, `Matched`); and for each await of a run what the rest of
  it relies on. Before the apply that is a preview that has all revisions after the cursor, and no local change if there are any.
  While the plan is performed it is `Halfway`: for each field of each bookmark, the browser has what the library shows at
  the new clock, or an operation that will set it is left in the plan; the phases (create, update, move, delete) and the
  clocks within one order those. Or it is `Doomed`: an operation left is about a bookmark that is gone, so the run will end in `recovery-required`. A client
  with changes misses no revision, so its tree is what the library shows after the apply (`HalfwayApplied`). At the end nothing is
  left, and the trees agree (`NothingLeft`). `Shown`, `Chain` and `Subtree` are closures, computed by a walk as long as
  the set is large; `WalkIsLeast` says that a walk passes the least closed set, by counting (no induction over the tree), and
  `ChainFacts`, `SubtreeFacts`, `LineageFacts` and `ShownFacts` are what the steps cite. Without any one of the first four
  hypotheses TLC finds the property violated (section 4); the last is what a walk needs.
* `AccountTypes`, `LoginsAgree`, `NothingHalfMade`: `Spec` of `AccountBinding` implies `TypeOK`,
  `OneUserPerIdentity` and `UsersAreAccountedFor`. These say nothing of the moments at which logins race, so
  the inductive invariant `BindingInv` adds to the type invariant: `KeysInv`, committed bindings are
  unique by key and by user; `RowsInv`, two transactions never hold rows with one key, which is what the wait for
  the unique index buys; `UsersInv`, users are the committed logins that made one for themselves; `LoginInv`, what a login has
  found out is still true (a login that has inserted sees no committed binding with its key, one that reuses a user
  sees that user's binding); and `AuditInv`, events are those of committed logins.
* `BearersFindLogins`: `BearerFindsLogin`. `BearerInv` says that a binding carries the subject of a login that was given its user
  (`FromLogins`, `RowSubjects`): a later login that changes the subject is one itself.
* `ProfileTypes`, `RegistrationsApart`, `MatchersStayValid`, `DeletionIsFinal`, `ColumnsFollowRequests`,
  `DefaultsComplete`, `ManualProfileStays`: all properties of `SyncProfiles` but its liveness. Rows of the five tables never
  depend on two open transactions at once, so the inductive invariant `ProfilesInv` is one predicate `OwnInv(R, D, k)` of
  the committed rows `R` and of one transaction's draft `D` and run `k`, plus `Exclusive` (a row is drafted by one
  transaction at a time) and the types of the committed rows. `OwnInv` says what a draft may hold, given the
  request that wrote it, and what each statement relies on: a registration at its insert holds its device and knows that no committed client
  has its columns; a transaction that is done with an uncommitted default profile has drafted both its rules. A
  statement of one transaction changes nothing the `OwnInv` of another one speaks of (`OwnStep`, `FirstWrite`, `ReadStep` do this once for all
  statements), and a commit changes no row another one has drafted and takes none back (`OthersKeep`). The action
  properties then only look at the one transaction that commits (`OnlyCommit`). `ManualProfileStays` has an invariant of its own,
  `KeepInv`: whoever disables and has passed the count can rely on another enabled profile; only a disabling commit
  could take it away (`CommitTakes`), and there is no second disabler.

* `RuntimeTypes`, `OneRuntimePerLife`, `SignInsFound`: `TypeOK`, `OneOutcome` and `SignInsAreFound` of `SourceRuntime`. `CellInv` adds that
  a request is of the present life of the server (`Alive`), that only a request at its build is the builder (`OneBuilder`), that whoever is past a cell
  holds what the cell has (`HoldsCell`), and that stores and sign-ins tell the same (`Belongs`, `Stored`). So `Settle`
  finds an empty cell, for which no request of this life holds a runtime and nothing is stored.

TLC checks the properties these theorems state as well, in the runs `library`, `readers`, `sync_serial`, `sync_creates`, `manual_sync`, `profiles`,
`profile_rules`, `account_binding` and `source_runtime`; `TypeOK` of `SourceRuntime` is proved only. `AppliedOnce` is run for two connections that send creates (`sync_creates`),
`ColumnsChangeByRequest` for rules and targets (`profile_rules`); the theorems are about all mutations and about profiles too.

Every invariant and every action property that a run checks is now also a theorem. Only model-checked are the liveness properties `RequestsEnd`,
`TransactionsEnd` and `LoginsEnd`, as liveness under fairness is beyond the prover, and the two violations are found by TLC. Where a proof
needs an induction over data, it is a least counterexample to a recursive function or to a clock (`Smallest`, `LeastNat`, `Onward`).

## 6. Not modelled

* The first registration of a client inside a run; the server's side of it is `SyncProfiles`.
* What the SecurityDept library does in start, callback, refresh and redemption of a sign-in and in the verification of tokens:
  `SourceRuntime` has these requests with what they put into and take from the stores, the protocol itself is external. The auth
  client is a wrapper of the browser half of that library.
* HTTP parsing and error mapping, configuration loading, migrations as DDL, and the policies of the tables other than
  `oidc_account_bindings`: declarative, and constant for the one owner of a model.
* Sort keys, bookmark metadata, conflict records and summaries: data no control flow reads.
* The dashboard, the extension's pages and the test utilities: presentation and harness.

What would come next: the steps of `SyncServer`'s apply as a refinement of the one-step calls of `ManualSync`.
