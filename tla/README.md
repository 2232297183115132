# editorzero: TLA+ models and proofs

editorzero is a collaborative document server in one Node.js process. People
and agents call *capabilities* over HTTP, MCP and a CLI; documents are Yjs
CRDTs that browsers edit live over WebSockets; all state is in SQLite or
Postgres. This directory holds the models of the parts whose correctness depends on
order, failure and concurrency, the TLC runs that check them, and the TLAPS
proofs of what matters most. Paths are relative to `packages/` of the
repository unless they start with `apps/` or `docs/`.

## The system

| component | state it keeps | operations | talks to |
|---|---|---|---|
| dispatcher (`dispatcher/src/dispatcher.ts`, `api-server/.../createApiDispatcher.ts`) | none; per call a context | `dispatch`: rate limit, validate, gate, read or write transaction, audit | gate, sync, database |
| sync (`sync/src/hocuspocus.ts`) | resident Y.Docs (in Hocuspocus), `#docLocks`, `#liveConnections`, `#appliedSeq`, `#aheadSeqs`, staging maps | `bind().transact/commit/rollback`, `read`, `onLoadDocument`, `afterUnloadDocument`, `closeDocumentConnections`, `close` | database, WebSocket clients |
| database (`db/src`) | `doc_updates`, `doc_counters`, `audit_events`, `outbox`, metadata tables | `withSystemTx`, `DocUpdatesWriter.write`, `AuditWriter.write`, `OutboxWriter.append` | everything |
| collaboration gate, policies and revocation (`sync/src/collab-gate.ts`, `api-server/.../revocationTap.ts`, `collabSockets.ts`, `collabPolicies.ts`, `apps/server/src/collab.ts`) | socket registry, promise chain per connection | classify a frame, authorize an attach, dispatch `doc.apply_update`, close sockets after a revoking commit | dispatcher, sync |
| capabilities (`capabilities/src`) | rows of `docs`, `collections`, `spaces`, memberships, grants, agents, tokens | about 55 handlers | the transaction they run in |
| permission gate and ceiling (`dispatcher/src/gate.ts`, `capabilities/src/acl/ceiling.ts`) | none | allow or deny a principal | membership and grant rows |
| audit reducer (`audit/src/reducer.ts`) | a state rebuilt from effects | `reduce` | `audit_events` |
| rate limiter, ids (`rateLimit.ts`, `ids/src/index.ts`) | buckets; last timestamp and counter | `consume`; `uuidV7` | the clock |
| routes, CLI, MCP, web application, auth, schemas | no server state of their own | projections of the capability registry | dispatcher |

What is hard about it: a content mutation runs under **two** resources, the
promise-chain lock of its document and a database transaction, and touches
**three** states, the rows, the resident Y.Doc and the clients attached to it.
Nothing in memory may show an update before SQL commits it, and everything in
memory must show it afterwards, while hydrations, unloads, attachments, failing
applies, rollbacks and restarts happen in between. Around it, one pipeline has
to leave exactly the right audit row whatever throws. And the capabilities
themselves keep a tree whose invariants no single table constraint states: what
is in the trash keeps its place, its space, its slug and its grants, the world
changes around it, and a restore must put it back without breaking anything. Who may
read, and under which credential, is decided once, by several reads or before
a transaction begins, and used afterwards: a feed, a call, a minted token
outlive the moment they were checked at, and something must end or bound them.

`PROJECT.json` lists every component with its status, and every hazard with its
line and the properties that cover it.

## Modules

| module | what it is |
|---|---|
| `SerialLog` | the abstract specification: a log of updates per document, each committed on top of the whole log; observers are shown committed updates only |
| `SyncWritePath` | the write path, the read path, hydration and WebSocket attachment of `HocuspocusSync`, inside the transactions of `createApiDispatcher` |
| `SyncWritePathProofs` | its inductive invariant, its safety properties and the refinement, proved |
| `Dispatch` | the dispatcher's pipeline: outcomes, audit rows, outbox rows, replies |
| `MCDispatch` | its instances for TLC |
| `DispatchProofs` | its inductive invariant and safety properties, proved |
| `Lifecycle` | spaces, collections, documents, rosters, guest grants, and the audit reducer run over their effects |
| `MCLifecycle` | its instances for TLC |
| `LifecycleProofs` | its inductive invariant, its safety properties and the grant transitions, proved |
| `TreeTransactions` | the capabilities of `Lifecycle` that shape the tree, as SERIALIZABLE transactions that overlap |
| `MCTreeTransactions`, `TreeTransactionsProofs` | its instance for TLC; its inductive invariant and safety properties, proved |
| `Sharing` | the access ladder and every capability that changes a row it reads: members, spaces, rosters, collections, documents, grants |
| `MCSharing`, `SharingProofs` | its instance for TLC; its properties, proved |
| `Identity` | members, agents and tokens under overlapping SERIALIZABLE transactions, with the replay of their effects |
| `MCIdentity`, `IdentityProofs` | its instance for TLC; its inductive invariant and safety properties, proved |
| `Collab` | WebSockets from upgrade to attachment, the commits that narrow standing, and the revocation tap that closes feeds after them |
| `MCCollab`, `CollabProofs` | its instance for TLC; its inductive invariant and safety properties, proved |
| `WriteGate` | the frames of a document's connections through the write gate, the rate limiter, and the ids of the rows that result |
| `MCWriteGate`, `WriteGateProofs` | its instance for TLC; its properties, proved |

`SyncWritePath` implements `SerialLog`. The others look at one process from
several sides, each with what the others settle as one step. `SyncWritePath` has
the transaction and the memory behind a content mutation; `WriteGate` what comes
before it, with the mutation as one step; `Dispatch` the outcome and the audit
row of any call; `Lifecycle` what the tree's handlers do to tables and log,
whoever calls; `TreeTransactions` what happens to the tree when the transactions
behind that overlap, and `Identity` to members, agents and tokens; `Sharing` who
may call, with a subtree as one row; `Collab` what those commits mean for feeds
that were opened before.

### SyncWritePath

A process is a promise chain of the Node.js process: a write dispatch, a read
dispatch or the attachment of a WebSocket to a document. A step is the code
between two awaits, and `pc` names the await a process is at. A Y.Doc is a
CRDT, so its state is the *set* of updates applied to it; since the dispatcher
refuses a second `ctx.transact`, an update is named by the dispatch that made
it.

| variable | in the code |
|---|---|
| `rows`, `seq`, `nextSeq` | committed `doc_updates` of a document, their `seq`, `doc_counters.next_seq` |
| `snap[w]` | the rows `w`'s SERIALIZABLE snapshot (or `BEGIN IMMEDIATE`) can see |
| `view` | a writer's clone, what a reader's `fn` saw, what a client was sent |
| `lockQ[d]` | `#docLocks`: the promise chain, holder first |
| `phase`, `buf`, `resident` | Hocuspocus' document: absent, in `onLoadDocument`, or resident with a state |
| `mark`, `ahead` | `#appliedSeq`, `#aheadSeqs` |
| `singleton` | an entry of `#liveConnections` |
| `lagging` | history: committed updates their dispatch did not apply: the apply threw, or the COMMIT was not acknowledged |

`BeginTx` to `CommitTx` is `runInWriteTx`; `CallTransact`, `Acquire`,
`BeginLoad`, `FetchRows`, `FinishLoad`, `Opened`, `SnapshotResident`,
`ReadTail`, `WriteRow`/`NoUpdate` are `#runTransactLocked` with the hydration it
may start; `CallCommit` and `ApplyCommitted` are `bound.commit()`;
`HandlerThrows`, `WriteConflict` and `LoadThrows` are the throws, `RollBack`
and `AuditFailure` what they lead to. With `AckLost` a COMMIT may take effect and
throw all the same (`CommitUnacknowledged`): the row is there, the dispatch goes
on as a failure, `bound.commit()` is skipped and the staging goes with the
binding. The update is neither applied to the resident document nor broadcast
while the process lives. It stays ahead of the watermark, so clones still get it
by the tail. `ClientsConverge` and `ResidentInv` leave out what is `lagging`;
`ReadYourWrites` promises an update only to those who come after a dispatch that
returned. `CallRead`, `ReadResident` and
`AuditRead` are a read. `Authenticate`, `Attach`, `Detach` are a WebSocket,
which does not take the document lock. `Unload` is Hocuspocus dropping a
document nobody is connected to, `Crash` a restart. `PoolSize = 1` is SQLite,
more is Postgres.

Taken from how the code uses them, not from source under `src/`: Hocuspocus'
`createDocument` (joiners share one load; a throwing hook unloads the document
and rejects them all), unloading when the last connection leaves, and that
opening a resident document is atomic with respect to unloading it. A Postgres
snapshot is taken at `BeginTx`.

### Dispatch

A call is refused at the door (rate limit, tenant mismatch, unknown
capability), fails validation, is denied or allowed by the gate, and then is a
read or a mutation of one object. A mutation's transaction holds the object's
new version, the allow audit row with its id made *before* the commit, and the
outbox rows. Every other outcome is recorded in a transaction of its own, which
may fail (`DbFails`); `AckLost` lets a COMMIT throw although it took effect:
the catch block takes that for a rollback and writes a second, failing row, so
`ReplyIsAudited` promises a call whose acknowledgement was `lost` only that the
log holds what it was told.
`history[o]` is the commit order of an object's mutations: the state the audit
log must rebuild.

### Lifecycle

Each capability is one step, from its first `SELECT` to its effect in the audit
log: it runs in one SERIALIZABLE (or `BEGIN IMMEDIATE`) transaction. A refusal
rolls back and is no step, so a guard is the conjunction of the handler's
checks. `spaces`, `collections`, `docs`, `space_members` and `grants` are the
tables; a row with status `none` does not exist, `trashed` is `deleted_at`.
`replayed` is the fold of `applyStateEffect` over the effects so far: every
action both changes the tables the way the handler does and calls `Emit` with
what the capability's `effectOnAllow` carries, and the reducer's operators work
on the replayed state alone.

`Up` is the ancestor walk (the least set closed under parents, so that the
model needs no recursion and the proofs can use it), `Down` the walk that also
visits trashed rows, `LiveBelow` the one that stops at them. `Placement` is
`placementOf`: a live space, none, or the anomaly of a binding to a dead one.
`CollectionMove` and `DocMove` have the three policies of a move and drop the
grants `adopt_baseline` sheds.

Abstracted: who may call, except where it hangs on the tree (any call that the
tree allows can happen, which is more than the program does; `Sharing` has the
rest); the formatting of a public slug (a pair of slug and number, so that a
document whose own slug looks like another's suffixed one does not occur). Left
out: personal spaces, roles on a roster and grants other than guest edges
(`Sharing`), titles, order keys, timestamps and `render_version`.

### TreeTransactions

`Lifecycle` takes a capability for one step because its transaction is
serializable. `TreeTransactions` takes that apart for the tree. `rows` has the
committed rows of `spaces`, `collections`, `docs` and `space_members`: status,
parent, space. A handler reads a snapshot and decides on it (`SpaceCreate` to
`DocRestore`, each ending in `Perform`); what it asked and what it will write
wait in `work` until it commits or aborts. The queries of a handler are kept as
its code makes them, rows by id, children, live children, live rows of a space,
because a predicate also reads the rows that are not there yet (`Sees`).

Isolation is that of `Identity`: two overlapping transactions do not both write
a row (`WrittenOnce`), and one does not commit that read what a concurrent one
overwrote and overwrites what a concurrent one read (`NoPivot`). `missed`,
`readBy` and `stale` remember that much of the transactions that have committed
meanwhile. Nothing is assumed to be equivalent to a serial order.

Left to `Lifecycle`: slugs, the depth cap, grants, publishing and the audit log.
They add refusals and reads, and so only transactions that fail.

### Sharing

`role`, `space`, `roster`, `coll`, `doc` and `grants` are the rows the ladder of
`capabilities/src/acl/ceiling.ts` reads; `BaselineReach`, `SpaceOwnerTierBody`,
`CanAdministerSpace`, `CanAdministerDoc`, `CanRead` are its predicates, and
`SpaceOf` the space a document's chain of collections ends in. A capability is
one step by a caller `p`: the scopes the gate asks for (`Manages`,
`Administers`), the handler's checks, its writes. A collection stands for a
subtree, since all its rows carry one space (`Lifecycle!SpaceIsInherited`).
The initial state is a workspace right after signup: an owner and every
personal space.

Kept as the code has it, where a reader might expect otherwise: rows of a
removed member stay and count again once the member is back; the roster rung
does not restore a space; revoking an edge on a trashed document is possible,
on a dead space it is not; `keep_grants` may knowingly carry an unmarked edge
across a boundary. Abstracted: an agent is always live and its token may hold
any scope, `workspace:admin` included (`Identity` and `Collab` have the rest);
`edit` and `comment` edges confer the same reading as `view`; `access_mode` is
`space` for every document, as the handlers write no other. A live document
below a dead space cannot be reached (`Lifecycle`), so nothing is said of one.

### Identity

`rows` maps every key of `workspace_members`, `agents` and `agent_tokens` to its
row; `dead` is `deleted_at` or `revoked_at`. A call is resolved and passes the
gate (`UserCalls`, `AgentCalls`), then its handler reads a snapshot and writes
at most one row (`Perform`, through one action per capability), its audit row
takes an id (`Audit`), and it commits or aborts. `log` is in id order and holds
uncommitted rows too, so ids and commits come in different orders.

Isolation is what Postgres promises and no more: a row lock makes a second
writer wait, and fail when the first commits; a transaction may not commit with
both a read that was overwritten and a write over something read by concurrent
ones (`Serializable`); any transaction may abort. Predicates are the rows that
matched them: phantoms only cause more aborts. SQLite runs one write transaction
at a time, which is a subset. `root` and `source` are history: where an agent's
and a token's chain of creators begins.

Left out: guests (a member without scopes calls nothing here), token hashes and
expiry. What the properties do not claim: an owner who is demoted keeps the
tokens minted before, as ADR 0044 decides.

### Collab

A socket is resolved, registered, and then asks to attach: `ReadPrincipal`,
`ReadRow`, `ReadSpaces`, `ReadRoster`, `ReadGrants` are the separate reads of
`collabAuthorize`, `Attach` the join. A commit changes the tables at once and
starts a tap, which makes its own reads one at a time (`TapReads...`) and then
closes sockets (`TapCloses`), or the room (`TapClosesRoom`,
`closeDocumentConnections`). `marks` is history and states the exemptions of the
properties: `widened`, standing was widened while the feed was being authorized
or while a tap was reading; `moved`, the document changed buckets; `deleted`, it
was deleted during the authorization. Each of them is a case in which the code
leaves a feed behind that the rule would end.

A personal space is a closed space with its owner on the roster. Left out: the
tap of `space.archive` (an archived space is empty), expiry of sessions and
tokens, and taps whose reads fail.

Sessions end on four paths of the `/auth/*` mount. `SignOut`, `RevokeSessions`
and `RevokeOtherSessions` close the sockets of the session or of all the user's
sessions, if a principal was resolved from the request and the response is ok
(`closing`); else, and always on `POST /auth/revoke-session` (`RevokeSession`,
the residual `app.ts:139-143` names), nothing is closed. A feed that was held or
being authorized then carries the mark `unclosed`: `DeadCredentialsHoldNoFeed`
does not claim that such a feed ends with its session, only that it ends with
its user's membership. The session is destroyed and its sockets are closed by
the tap in separate steps; the principal is resolved with the destruction.

### WriteGate

An edit depends on all its tab had seen (`deps`). A connection's frames wait in
a chain (`conn`): `GateFrame` takes the head, passes it without a call if the
document has it all already, else it is resolved, charged (`Consume`) and
dispatched, and a failure anywhere (`Fails`) closes the connection and refuses
the rest of the chain (`Refuse`). The chain of a dropped connection goes on
beside the one of its successor. `Commit` is the whole call, whose row is
numbered by `UuidV7`. The wall clock moves forward (`Tick`) and may be set back.

External, from how the code relies on it: a provider syncs before it sends
deltas (`sync/src/foreign-update.ts`). No capability of the registry declares a
rate limit of its own yet; the instance gives `doc.apply_update` one, so that a
call is charged to two buckets. Bucket levels are counted in units of time,
which makes them integers. Left out: connections that may only read, awareness
frames, and restarts (ids and buckets are in memory).

## Runs

| run | instance | question |
|---|---|---|
| `sync_write_path` | 2 writers, 1 reader, 1 client, 1 document, 3 connections, 1 restart, loads and applies may throw, lost acknowledgements | the inductive invariant, the watermark, the clone, the seqs, the refinement of `SerialLog`; committed only, residency of staged documents, read your writes; every dispatch returns, every client converges |
| `sync_sqlite_deadlock` | 2 writers, 1 reader, 1 connection | **violated**: a dispatch that never returns |
| `sync_failed_apply` | 2 writers, applies may throw | **violated**: a failed apply is not healed |
| `dispatch` | 3 calls, 1 object, 2 connections, 1 restart, all failures, lost acknowledgements | replay, events, replies agree with the log, every call is answered |
| `lifecycle` | 2 spaces, 3 collections, 2 documents, 1 user, 2 slugs, depth cap 2 (`SmallTrees`: all spaces and collections, or documents in a smaller tree) | nothing live under anything dead, inherited spaces, no cycles, the depth cap, slugs, public addresses, replay, whole grant transitions |
| `tree_transactions` | 2 overlapping calls, 1 space, 2 collections, 1 document, 1 user | live on live, no cycles, one space per subtree |
| `sharing` | 2 users, an agent of the first, a team space, the second user's personal space, 1 collection, 1 document, one subject at a time with a row on documents and one on spaces | access is delegated, crossings are vouched for |
| `identity` | 3 users, 2 agents, 2 tokens, 2 overlapping calls, 4 audit rows | the last owner, final revocations, replay, authority from a human |
| `identity_echo` | the same | **violated**: a same-name rename converges |
| `collab` | 1 socket under one of a user's two sessions or that user's agent's token, 2 spaces, 3 commits | who holds a feed once every tap has run |
| `collab_agent_feeds` | the same, 1 commit | **violated**: no move leaves an agent's feed behind |
| `write_gate` | 2 tabs, 2 connections each, 2 edits, 3 buckets, 2 units of time, a 1-bit counter | every dispatched frame integrates, buckets follow their definition, ids ascend |

Why the bounds are enough: two writers of a document meet in every race between
a clone and a commit, and leave a gap for the watermark when the second is
applied first; documents interact only through the connection pool; an observer
is compared with the rows only, so one of each kind suffices. More of each is
what the proofs are for.
`MaxCrashes` bounds the restarts. Three mutations of one object cover every
order of id and commit. Three collections under a cap of two are the least with
a chain that can exceed the cap, a trashed part in it and a second place to move
to; two spaces are needed to leave one behind. Two documents share a slug, a
parent and a public address.

In `tree_transactions` two calls make a write skew, two collections a cycle of
moves or a subtree with something in it; a third call is a reader between them,
which the proof covers and a run without the document and the user has passed.
In `sharing` one document suffices, as no rule relates two; the reach of one
subject by another's act needs two of them, and both kinds of space are needed
for a boundary. `MaxRows` keeps the rows of one subject on a document beside
those of one on a space, and `Holders` says who may get the latter; the proofs
have no bound. In `identity` two calls are enough for a write skew, and the
third user lets somebody be left; four audit rows hold an agent, a token, and
two revocations or renames of it. In `collab` sockets do not interact, so one is
followed; the second session lets one revoke the other; three commits let two
taps overlap beside a third change. In
`write_gate` the second edit may depend on the first or on another tab's, a
second connection starts while the first one's chain still runs, and a 1-bit
counter overflows at the second row of a millisecond. Symmetry is used in safety
runs only.

**Fairness** (`FairSpec`) is weak, per process: the event loop resumes every
promise whose await has settled, and the database serves every query. The lock
is a first-come-first-served chain, so nothing stronger is needed. No fairness
is assumed of handlers throwing, clients attaching or detaching, or restarts.
The properties of `Sharing`, `Identity`, `Collab` and `WriteGate` are safety and
need none. `CHECK_DEADLOCK FALSE` stands in `sync_sqlite_deadlock`, because the
deadlock it exhibits would otherwise be reported before the property, and in the
`Collab` and `WriteGate` runs, whose behaviours end when the bounds on commits,
edits and connections are used up.

## What is proved

For every number of documents, dispatches, clients, connections, restarts,
members, sockets and rows, from the named assumptions on the constants of each
module. They say that kinds of keys are disjoint and that bounds are numbers.

`SyncWritePathProofs!Inductive`: `Spec => []IInv`. None of the safety
properties is inductive. The argument, conjunct by conjunct:

- `LockInv`: whoever is in the critical section heads the lock's queue, so at
  most one process per document is between `Acquire` and release;
- `RowsInv`, `TargetInv`, `SeqGapFree`: the committed rows are those of the
  dispatches past their commit, with seqs `1 .. next_seq - 1`;
- `StagedInv`: at most one open transaction has a new row of a document, it
  holds `next_seq`, and its clone was everything committed. This is where the
  counter's row lock and the serialization failure are used;
- `ResidencyInv`, `LoadInv`: a document with a singleton stays resident, and a
  hydration ends with every committed row. A hydration by a *writer* reads its
  own snapshot, which may be old: `SnapInv` says it is not, as long as the
  document has no singleton, since every committed update made one;
- `ResidentInv`: a committed row is in the resident document, is lagging (its
  apply threw, or its COMMIT was not acknowledged), or its dispatch is still to
  apply it; and the watermark only covers rows the
  resident document has;
- `CloneInv`, `ViewInv`: the clone between its steps, and what observers hold.

The module derives from it `TypeOK`, `CommittedOnly`,
`WatermarkContiguous`, `CloneComplete`, `SeqGapFree`, `StagedIsResident`, the
action property `ReadYourWrites`, and the refinement `Spec =>
ImplementsSerialLog`.

`DispatchProofs`: the invariant's core is `IdInv`: an audit row's id is made
after its object's row was locked, so it is above every id of that object in
the log; hence `ReplayFaithful` although ids are made before commits.
`EventsFollowState` is inductive with it. `RepliesAudited` adds, for each call,
which rows it can have at each point of its pipeline.

`LifecycleProofs`, for any number of spaces, collections, documents, users and
slugs, from `NullsAreNoIds` (a null is not an id): `Inductive` is the
conjunction of the properties the runs check (the depth cap aside) and
`RowInv`, which says that a row never created is blank and nothing hangs below
it. They need each other: that the space of a row is its parent's is what makes
one `space_id` in the effect enough to replay a move, and that nothing live is
below anything trashed is what makes a cycle check along a live chain enough.
The proof rests on lemmas about `Up` and `Down` (`UpLeast`, `UpTransitive`,
`UpStep`, `DownSame`) and on `Reparent`: a forest stays one when a row is put
under one that is not below it. There is one lemma per action, and
`WholeTransitions` proves the action property on grants from the same
invariant. `DepthCapped` adds that chains are finite, which no assumption on
`Collections` is needed for, and `UpMoved`: below a row that moves, at most the
new ancestors, the row and what was between remain. What a move did not count,
because something above it was in the trash, is not live (`LiveUp`), and is
counted when it is restored.

`TreeTransactionsProofs`, for any number of calls, spaces, collections,
documents and users, has two halves that meet in one definition. A handler is
`Sound` if its writes keep *every* sound tree sound that answers its queries as
the present one does and has the rows it overwrites; a sound tree (`Good`) is
one with the three properties, blank rows below which nothing hangs, and columns
that fit. The first half has a lemma per capability. In the hardest,
`CollectionMoveStep`, the ancestors of the new parent are read row by row, so
they are the same in the other tree, and a set of collections closed under
parents could only be one they are part of; when the move crosses, the children
of every row below are read, so nothing can have been added there, while
otherwise nothing below changes space. The second half does not mention trees.
`Accurate`: as long as nothing it read was overwritten, an open transaction is
sound. `CyclesShow`: if some open transactions committed together would spoil
the tree, then one of them overwrites what another one, or one that has
committed meanwhile, has read. A commit is then good either way: it has missed
nothing and is sound, or it has, and must not overwrite what others read
(`NoPivot`), which by `CyclesShow` of itself alone means that it spoils nothing.

`SharingProofs` needs little of an invariant (`TypeOK`, inductive as it stands)
and rests on two lemmas. `Delegation`: every capability either leaves alone all
rows the ladder reads about a subject and a document (`Untouched`), or was asked
for by someone who vouches for the document. `LadderReads`: with those rows left
alone, reading and administration stay what they are. `Delegated` and
`CrossingsVouched` follow; the latter also from `NewEdgesAreWithin`, that a
grant is only ever written within its subject's reach.

`IdentityProofs`: the last owner stays because of two calls that each retire
one, the later has counted the earlier's (`OneCountedTheOther`), so that one of
them is a pivot once nobody else is left (`LeavesOneOrPivot`), and a pivot does
not commit. `RowsHaveSource` carries the origin of agents and tokens along their
chains, `HoldsItsRow` keeps a row that was found live alive until the commit.
`LogRebuilds` is about a fold over the log in the order of its ids, which is not
the order of the commits. A call's audit row takes its id while the call holds
the lock of the row it writes, so the writes of *one* row carry ids in the order
of their commits (`WritesInOrder`), and effects on different rows commute
(`ReductionsCommute`). So an entry that comes to count when its call commits is
as good as reduced last (`ReplayCountsLate`), which is what the commit did to the
tables. Steps along the log are taken by the least index at which they could go
wrong (`IntervalInduction`, from the well-foundedness of the natural numbers).

`CollabProofs`: whoever has lost standing is about to be closed. Each part of
the invariant says which tap in flight will close a feed that nothing in the
tables entitles any more: `CredInv` for credentials (a feed of a session that
was ended without closing has no such tap, and is excepted by its mark) and for
their holders, `RoomInv` for a deleted document, `StandInv` for the ladder, with
the rungs a half-made authorization has passed. When no tap is left, the
properties are what remains.

`WriteGateProofs`: a frame depends on what is resident, on earlier frames of its
connection and on itself (`FramesInv`). A new edit keeps that because all that a
connected tab knows is resident or on its connection (`SentInv`), a reconnect
because it sends everything that is missing, and the gate because frames leave a
chain from the front when they are resident, or all at once. Edits have to be
distinguishable, which is `DepsInv`: a tab knows all its own. A bucket is bounded
from below as of its last refill (`Lower`) and from above as of now (`Upper`): the
two are different moments of a clock that is set back. For ids, `IdsInv`: nothing
in the log is above the last stamp, and `uuidV7` only goes up.

Model-checked only: the liveness properties `DispatchReturns`, `ClientsConverge`
and `CallsAreAnswered` (the proof system has no fairness or `ENABLED` reasoning
here).

## Findings

1. `sync_sqlite_deadlock` (`sync/src/hocuspocus.ts:481`). A read of a cold
   document hydrates it through the untransacted handle while it holds the
   document lock. With one connection, a write transaction that is waiting for
   that lock holds it: both wait forever. The integration test calls the shape
   unreachable because reads never run inside a transaction; two separate
   dispatches are enough. Postgres reaches it when such writers hold the whole
   pool.
2. `sync_failed_apply` (`sync/src/hocuspocus.ts:872`). A failed post-commit
   apply is said to be healed when the document unloads. The singleton
   connection every dispatch leaves behind is released by `close()` only, so
   it never does.
3. `collab_agent_feeds` (`api-server/src/composition/revocationTap.ts:299`).
   The tap of a move closes the agents whose grant on the document the move
   drops, since "an agent reads a bucket via a GRANT". It also reads through a
   grant on the space, and anything at the workspace root: such an agent's feed
   survives the move that ends its standing.
4. `identity_echo` (`capabilities/src/agent/update.ts:106`). The same-name echo
   of a rename is called replay-convergent. It writes no row, so nothing orders
   it against a concurrent rename: it may hold the later audit id, and a replay
   restores the name that was replaced.

## Not modelled

- Routes, CLI, MCP server and web application: projections of the capability
  registry onto transports, without server state. Schemas, errors, constants,
  configuration and logging: declarations. They are most of the repository's
  lines, which is why the modelled share of it is small; the modelled part is
  the dispatcher, the sync service, the composition around them, and the
  capabilities that write.
- The block model and its operations: recursive functions over ProseMirror
  trees, whose correctness is about data; their tests enumerate it.
- better-auth behind `auth/src/create-auth.ts`: a library. What it stores is
  modelled as the initial state, what is resolved from it in `Identity` and
  `Collab`.
- Expiry of sessions and tokens, and `close()` at shutdown.
- Slugs, the depth cap and grants under overlapping transactions. The unique
  indexes stop a second sibling slug whatever the isolation; the depth cap and
  the grants are decided by reads that `TreeTransactions` leaves out.

What could be added next: the depth cap under overlapping moves, and a handler's
grants in `TreeTransactions`.
