--------------------------- MODULE SyncWritePath ---------------------------
(***************************************************************************)
(* The write path of a content mutation, the read path and the WebSocket   *)
(* attach as they meet in packages/sync/src/hocuspocus.ts, inside the SQL  *)
(* transaction of packages/api-server/src/composition/createApiDispatcher  *)
(* (runInWriteTx, runRead, withAuditTx).                                   *)
(*                                                                         *)
(* A Y.Doc is a CRDT: its state is the SET of updates applied to it, and   *)
(* applying one twice or in another order changes nothing.  Every write    *)
(* dispatch makes at most one update (the dispatcher refuses a second      *)
(* ctx.transact), so an update is named by the dispatch that made it.      *)
(*                                                                         *)
(* A process is a promise chain of the one Node.js process: a write        *)
(* dispatch, a read dispatch, or the attachment of one WebSocket to one    *)
(* document.  A step of a process is the code between two awaits.          *)
(***************************************************************************)
EXTENDS Integers, Sequences, FiniteSets

CONSTANTS Docs,       \* documents
          Writers,    \* write dispatches; also the update each one makes
          Readers,    \* read dispatches
          Clients,    \* WebSocket attachments, each to one document
          NoDoc,      \* the target of a dispatch that touches no Y.Doc
          PoolSize,   \* database connections: 1 is SQLite, more is Postgres
          MaxCrashes, \* bound: restarts of the server process
          AckLost,    \* may COMMIT throw although it took effect?
          ApplyFails, \* may a post-commit apply throw?
          LoadFails   \* may a hydration throw?

Procs == Writers \cup Readers \cup Clients

ASSUME ProcsAreDistinct ==
  /\ Writers \cap Readers = {}
  /\ Writers \cap Clients = {}
  /\ Readers \cap Clients = {}
ASSUME NoDocIsNoDoc == NoDoc \notin Docs
ASSUME PoolAssumption == PoolSize \in Nat \ {0}
ASSUME BoundAssumption ==
  /\ MaxCrashes \in Nat
  /\ AckLost \in BOOLEAN
  /\ ApplyFails \in BOOLEAN
  /\ LoadFails \in BOOLEAN

VARIABLES
  rows,       \* rows[d]: dispatches whose doc_updates row of d is committed
  nextSeq,    \* nextSeq[d]: the committed doc_counters.next_seq
  seq,        \* seq[w]: the seq of w's row, 0 while it has none
  pc,         \* where each process is
  target,     \* the document each process works on
  snap,       \* snap[w]: the rows of its document w's transaction can see
  view,       \* writer: its clone; reader: its result; client: what it was sent
  lockQ,      \* lockQ[d]: the promise chain of the doc lock, holder first
  phase,      \* phase[d]: is the document resident, or being hydrated?
  buf,        \* buf[d]: rows a hydration has fetched but not yet applied
  resident,   \* resident[d]: the state of the resident Y.Doc
  mark,       \* #appliedSeq
  ahead,      \* #aheadSeqs
  singleton,  \* singleton[d]: does #liveConnections hold a DirectConnection?
  lagging,    \* committed updates the dispatch did not apply: the apply threw,
              \* or COMMIT did (history only)
  crashes     \* restarts so far

durable == <<rows, nextSeq>>
memory  == <<phase, buf, resident, mark, ahead, singleton>>
vars == <<rows, nextSeq, seq, pc, target, snap, view, lockQ, phase, buf,
          resident, mark, ahead, singleton, lagging, crashes>>

-----------------------------------------------------------------------------
(* Program points *)

OpenTx     == {"running", "lockWait", "opening", "hydrating", "fetched",
               "opened", "snapped", "cloned", "handled"}
WriterPC   == OpenTx \cup {"idle", "committed", "applyWait", "failing",
                           "failed", "done", "crashed"}
ReaderPC   == {"idle", "lockWait", "opening", "hydrating", "fetched",
               "opened", "auditing", "done", "crashed"}
ClientPC   == {"idle", "opening", "hydrating", "fetched", "attached"}

\* Inside HocuspocusSync#withDocLock.
Critical   == {"opening", "hydrating", "fetched", "opened", "snapped", "cloned"}
\* Inside Hocuspocus.createDocument.
Loading    == {"opening", "hydrating", "fetched"}
Finished   == {"done", "failed", "crashed"}

TypeOK ==
  /\ rows \in [Docs -> SUBSET Writers]
  /\ nextSeq \in [Docs -> Nat \ {0}]
  /\ seq \in [Writers -> Nat]
  /\ pc \in [Procs -> WriterPC \cup ReaderPC \cup ClientPC]
  /\ \A w \in Writers : pc[w] \in WriterPC
  /\ \A r \in Readers : pc[r] \in ReaderPC
  /\ \A c \in Clients : pc[c] \in ClientPC
  /\ target \in [Procs -> Docs \cup {NoDoc}]
  /\ snap \in [Writers -> SUBSET Writers]
  /\ view \in [Procs -> SUBSET Writers]
  /\ lockQ \in [Docs -> Seq(Writers \cup Readers)]
  /\ phase \in [Docs -> {"cold", "loading", "fetched", "hot"}]
  /\ buf \in [Docs -> SUBSET Writers]
  /\ resident \in [Docs -> SUBSET Writers]
  /\ mark \in [Docs -> Nat]
  /\ ahead \in [Docs -> SUBSET Nat]
  /\ singleton \in [Docs -> BOOLEAN]
  /\ lagging \in SUBSET Writers
  /\ crashes \in 0..MaxCrashes

Init ==
  /\ rows = [d \in Docs |-> {}]
  /\ nextSeq = [d \in Docs |-> 1]
  /\ seq = [w \in Writers |-> 0]
  /\ pc = [p \in Procs |-> "idle"]
  /\ target = [p \in Procs |-> NoDoc]
  /\ snap = [w \in Writers |-> {}]
  /\ view = [p \in Procs |-> {}]
  /\ lockQ = [d \in Docs |-> <<>>]
  /\ phase = [d \in Docs |-> "cold"]
  /\ buf = [d \in Docs |-> {}]
  /\ resident = [d \in Docs |-> {}]
  /\ mark = [d \in Docs |-> 0]
  /\ ahead = [d \in Docs |-> {}]
  /\ singleton = [d \in Docs |-> FALSE]
  /\ lagging = {}
  /\ crashes = 0

-----------------------------------------------------------------------------
(* Helpers *)

Move(p, to) == pc' = [pc EXCEPT ![p] = to]

\* Kysely hands out a connection: SQLite has one, Postgres a pool.  A
\* transaction keeps its connection until it commits or rolls back.
FreeConnection == Cardinality({w \in Writers : pc[w] \in OpenTx}) < PoolSize

\* Hydration through the untransacted handle competes for a connection like
\* everything else; a writer reads through the one its transaction holds.
CanQuery(p) == p \in Writers \/ FreeConnection

Holds(p, d) == lockQ[d] # <<>> /\ Head(lockQ[d]) = p

Enqueue(p, d) == lockQ' = [lockQ EXCEPT ![d] = Append(@, p)]
Release(d)    == lockQ' = [lockQ EXCEPT ![d] = Tail(@)]

\* The doc_counters row of d is locked by a transaction that updated it.
CounterLocked(d) ==
  \E x \in Writers : pc[x] = "handled" /\ target[x] = d /\ seq[x] > 0

\* The last seq of a set of rows, 0 when there is none.
LastSeq(S) ==
  IF S = {} THEN 0 ELSE CHOOSE n \in {seq[x] : x \in S} :
                          \A x \in S : seq[x] <= n

\* The end of the gap-free run that starts at s and continues in A.
RunEnd(s, A) ==
  CHOOSE n \in {s} \cup A : n >= s /\ (s + 1)..n \subseteq A /\ (n + 1) \notin A

\* Mutant: the watermark is the maximum seq applied.
MaxWatermark(d, s) ==
  /\ mark' = [mark EXCEPT ![d] = IF s > @ THEN s ELSE @]
  /\ UNCHANGED ahead

\* #advanceWatermark
AdvanceWatermark(d, s) ==
  IF s <= mark[d] THEN UNCHANGED <<mark, ahead>>
  ELSE IF s > mark[d] + 1
       THEN /\ ahead' = [ahead EXCEPT ![d] = @ \cup {s}]
            /\ UNCHANGED mark
       ELSE LET n == RunEnd(s, ahead[d]) IN
            /\ mark' = [mark EXCEPT ![d] = n]
            /\ ahead' = [ahead EXCEPT ![d] = @ \ (s + 1)..n]

-----------------------------------------------------------------------------
(* A write dispatch: runInWriteTx *)

\* withSystemTx opens the transaction (BEGIN IMMEDIATE, or a SERIALIZABLE
\* transaction whose snapshot is the committed state), and sync.bind makes an
\* empty staging map.  The handler works on one document or on none.
BeginTx(w, d) ==
  /\ pc[w] = "idle"
  /\ FreeConnection
  /\ Move(w, "running")
  /\ target' = [target EXCEPT ![w] = d]
  /\ snap' = [snap EXCEPT ![w] = IF d = NoDoc THEN {} ELSE rows[d]]
  /\ UNCHANGED <<rows, nextSeq, seq, view, lockQ, memory, lagging, crashes>>

\* A metadata-only handler returns without calling ctx.transact.
SkipTransact(w) ==
  /\ pc[w] = "running"
  /\ target[w] = NoDoc
  /\ Move(w, "handled")
  /\ UNCHANGED <<rows, nextSeq, seq, target, snap, view, lockQ, memory,
                 lagging, crashes>>

\* ctx.transact chains onto the document's lock.
CallTransact(w) ==
  /\ pc[w] = "running"
  /\ target[w] \in Docs
  /\ Move(w, "lockWait")
  /\ Enqueue(w, target[w])
  /\ UNCHANGED <<rows, nextSeq, seq, target, snap, view, memory, lagging,
                 crashes>>

\* #snapshotResident: the clone starts as the resident document.
SnapshotResident(w) ==
  /\ w \in Writers
  /\ pc[w] = "opened"
  /\ Move(w, "snapped")
  /\ view' = [view EXCEPT ![w] = resident[target[w]]]
  /\ UNCHANGED <<rows, nextSeq, seq, target, snap, lockQ, memory, lagging,
                 crashes>>

\* Mutant: the clone is the resident document, without the tail.
ReadNoTail(w) ==
  /\ pc[w] = "snapped"
  /\ Move(w, "cloned")
  /\ UNCHANGED <<rows, nextSeq, seq, target, snap, view, lockQ, memory,
                 lagging, crashes>>

\* The clone is topped up with the rows above the watermark that the
\* transaction sees.
ReadTail(w) ==
  LET d == target[w] IN
  /\ pc[w] = "snapped"
  /\ Move(w, "cloned")
  /\ view' = [view EXCEPT ![w] = @ \cup {x \in snap[w] : seq[x] > mark[d]}]
  /\ UNCHANGED <<rows, nextSeq, seq, target, snap, lockQ, memory, lagging,
                 crashes>>

\* Mutant: the update is applied to the resident document as it is written.
WriteThrough(w) ==
  LET d == target[w] IN
  /\ pc[w] = "cloned"
  /\ ~CounterLocked(d)
  /\ rows[d] = snap[w]
  /\ seq' = [seq EXCEPT ![w] = nextSeq[d]]
  /\ resident' = [resident EXCEPT ![d] = @ \cup {w}]
  /\ Move(w, "handled")
  /\ Release(d)
  /\ UNCHANGED <<rows, nextSeq, target, snap, view, phase, buf, mark, ahead,
                 singleton, lagging, crashes>>

\* Mutant: the seq is read without the counter's row lock.
WriteUnlocked(w) ==
  LET d == target[w] IN
  /\ pc[w] = "cloned"
  /\ seq' = [seq EXCEPT ![w] = nextSeq[d]]
  /\ Move(w, "handled")
  /\ Release(d)
  /\ UNCHANGED <<rows, nextSeq, target, snap, view, memory, lagging, crashes>>

\* fn changed the clone: DocUpdatesWriter allocates the next seq under the
\* counter's row lock and inserts the row; the binding stages it.
WriteRow(w) ==
  LET d == target[w] IN
  /\ pc[w] = "cloned"
  /\ ~CounterLocked(d)
  /\ rows[d] = snap[w]
  /\ seq' = [seq EXCEPT ![w] = nextSeq[d]]
  /\ Move(w, "handled")
  /\ Release(d)
  /\ UNCHANGED <<rows, nextSeq, target, snap, view, memory, lagging, crashes>>

\* fn left the clone as it was: no row, nothing staged.
NoUpdate(w) ==
  /\ pc[w] = "cloned"
  /\ Move(w, "handled")
  /\ Release(target[w])
  /\ UNCHANGED <<rows, nextSeq, seq, target, snap, view, memory, lagging,
                 crashes>>

\* The rest of the transaction (output parse, audit row, outbox rows) is
\* written and SQL commits: the counter, the row and everything else at once.
Persist(w) ==
  LET d == target[w] IN
  /\ pc[w] = "handled"
  /\ IF seq[w] > 0
     THEN /\ rows' = [rows EXCEPT ![d] = @ \cup {w}]
          /\ nextSeq' = [nextSeq EXCEPT ![d] = seq[w] + 1]
     ELSE UNCHANGED <<rows, nextSeq>>
  /\ UNCHANGED <<seq, target, snap, view, lockQ, memory, crashes>>

CommitTx(w) ==
  /\ Persist(w)
  /\ Move(w, "committed")
  /\ UNCHANGED lagging

\* COMMIT took effect but its acknowledgement was lost: withSystemTx throws,
\* bound.commit() is skipped, and the dispatch goes on as a failure.  What it
\* staged is dropped with the binding, and nobody applies the committed row.
CommitUnacknowledged(w) ==
  /\ AckLost
  /\ Persist(w)
  /\ Move(w, "failing")
  /\ lagging' = IF seq[w] > 0 THEN lagging \cup {w} ELSE lagging

\* Mutant: the dispatch returns without waiting for bound.commit().
ForgetCommit(w) ==
  /\ pc[w] = "committed"
  /\ Move(w, "done")
  /\ UNCHANGED <<rows, nextSeq, seq, target, snap, view, lockQ, memory,
                 lagging, crashes>>

\* bound.commit() chains onto the lock of the document it staged, if any.
CallCommit(w) ==
  /\ pc[w] = "committed"
  /\ IF seq[w] > 0
     THEN Move(w, "applyWait") /\ Enqueue(w, target[w])
     ELSE Move(w, "done") /\ UNCHANGED lockQ
  /\ UNCHANGED <<rows, nextSeq, seq, target, snap, view, memory, lagging,
                 crashes>>

\* Mutant: the apply does not take the document's lock.
ApplyUnlocked(w) ==
  LET d == target[w] IN
  /\ pc[w] = "applyWait"
  /\ Move(w, "done")
  /\ lockQ' = [lockQ EXCEPT ![d] = SelectSeq(@, LAMBDA p : p # w)]
  /\ IF phase[d] = "hot"
     THEN /\ resident' = [resident EXCEPT ![d] = @ \cup {w}]
          /\ AdvanceWatermark(d, seq[w])
     ELSE UNCHANGED <<resident, mark, ahead>>
  /\ UNCHANGED <<rows, nextSeq, seq, target, snap, view, phase, buf, singleton,
                 lagging, crashes>>

\* Mutant: the apply reaches the resident document and nobody else.
ApplySilently(w) ==
  LET d == target[w] IN
  /\ pc[w] = "applyWait"
  /\ Holds(w, d)
  /\ Move(w, "done")
  /\ Release(d)
  /\ IF phase[d] = "hot"
     THEN /\ resident' = [resident EXCEPT ![d] = @ \cup {w}]
          /\ AdvanceWatermark(d, seq[w])
     ELSE UNCHANGED <<resident, mark, ahead>>
  /\ UNCHANGED <<rows, nextSeq, seq, target, snap, view, phase, buf, singleton,
                 lagging, crashes>>

\* #applyCommitted: apply to the resident document, which sends the update to
\* every attached client, and advance the watermark; nothing to do when the
\* document is not resident.
ApplyCommitted(w) ==
  LET d == target[w] IN
  /\ pc[w] = "applyWait"
  /\ Holds(w, d)
  /\ Move(w, "done")
  /\ Release(d)
  /\ IF phase[d] = "hot"
     THEN /\ resident' = [resident EXCEPT ![d] = @ \cup {w}]
          /\ view' = [p \in Procs |->
                        IF pc[p] = "attached" /\ target[p] = d
                        THEN view[p] \cup {w} ELSE view[p]]
          /\ AdvanceWatermark(d, seq[w])
     ELSE /\ mark' = [mark EXCEPT ![d] = 0]
          /\ ahead' = [ahead EXCEPT ![d] = {}]
          /\ UNCHANGED <<resident, view>>
  /\ UNCHANGED <<rows, nextSeq, seq, target, snap, phase, buf, singleton,
                 lagging, crashes>>

\* Y.applyUpdate throws: logged, swallowed, the watermark stays.
ApplyThrows(w) ==
  LET d == target[w] IN
  /\ ApplyFails
  /\ pc[w] = "applyWait"
  /\ Holds(w, d)
  /\ phase[d] = "hot"
  /\ Move(w, "done")
  /\ Release(d)
  /\ lagging' = lagging \cup {w}
  /\ UNCHANGED <<rows, nextSeq, seq, target, snap, view, memory, crashes>>

\* Mutant: a throw inside the lock leaves it held.
RollBackHolding(w) ==
  /\ Move(w, "failing")
  /\ seq' = [seq EXCEPT ![w] = 0]
  /\ view' = [view EXCEPT ![w] = {}]
  /\ UNCHANGED <<rows, nextSeq, target, snap, lockQ, memory, lagging, crashes>>

\* Mutant: the rolled back update stays staged.
RollBackStaged(w) ==
  LET d == target[w] IN
  /\ Move(w, "failing")
  /\ view' = [view EXCEPT ![w] = {}]
  /\ IF pc[w] \in Critical THEN Release(d) ELSE UNCHANGED lockQ
  /\ UNCHANGED <<rows, nextSeq, seq, target, snap, memory, lagging, crashes>>

\* The handler, the output parse, the audit write, the outbox flush or SQL
\* itself throws: the transaction rolls back and bound.rollback() drops the
\* staged update.  The lock is released if the throw left ctx.transact.
RollBack(w) ==
  LET d == target[w] IN
  /\ Move(w, "failing")
  /\ seq' = [seq EXCEPT ![w] = 0]
  /\ view' = [view EXCEPT ![w] = {}]
  /\ IF pc[w] \in Critical THEN Release(d) ELSE UNCHANGED lockQ
  /\ UNCHANGED <<rows, nextSeq, target, snap, memory, lagging, crashes>>

HandlerThrows(w) ==
  /\ pc[w] \in {"running", "snapped", "cloned", "handled"}
  /\ RollBack(w)

\* Postgres: the counter was updated after this transaction's snapshot, and
\* the UPDATE fails with 40001.
WriteConflict(w) ==
  /\ pc[w] = "cloned"
  /\ ~CounterLocked(target[w])
  /\ rows[target[w]] # snap[w]
  /\ RollBack(w)

\* The deny or error audit row is written in a transaction of its own.
AuditFailure(w) ==
  /\ pc[w] = "failing"
  /\ FreeConnection
  /\ Move(w, "failed")
  /\ UNCHANGED <<rows, nextSeq, seq, target, snap, view, lockQ, memory,
                 lagging, crashes>>

-----------------------------------------------------------------------------
(* Entering the lock and opening the document *)

\* The previous holder's promise settled: this one's callback runs.
Acquire(p) ==
  /\ pc[p] = "lockWait"
  /\ Holds(p, target[p])
  /\ Move(p, "opening")
  /\ UNCHANGED <<rows, nextSeq, seq, target, snap, view, lockQ, memory,
                 lagging, crashes>>

\* createDocument: the first opener of a document that is not resident runs
\* onLoadDocument; later ones join its promise.
BeginLoad(p) ==
  LET d == target[p] IN
  /\ pc[p] = "opening"
  /\ phase[d] = "cold"
  /\ Move(p, "hydrating")
  /\ phase' = [phase EXCEPT ![d] = "loading"]
  /\ UNCHANGED <<rows, nextSeq, seq, target, snap, view, lockQ, buf, resident,
                 mark, ahead, singleton, lagging, crashes>>

\* onLoadDocument reads the rows: a writer through its transaction, anyone
\* else through the untransacted handle, which waits for a connection.
FetchRows(p) ==
  LET d == target[p] IN
  /\ pc[p] = "hydrating"
  /\ CanQuery(p)
  /\ Move(p, "fetched")
  /\ phase' = [phase EXCEPT ![d] = "fetched"]
  /\ buf' = [buf EXCEPT ![d] = IF p \in Writers THEN snap[p] ELSE rows[d]]
  /\ UNCHANGED <<rows, nextSeq, seq, target, snap, view, lockQ, resident, mark,
                 ahead, singleton, lagging, crashes>>

\* The rows are applied and the watermark is born; the joiners may go on.
FinishLoad(p) ==
  LET d == target[p] IN
  /\ pc[p] = "fetched"
  /\ Move(p, "opening")
  /\ phase' = [phase EXCEPT ![d] = "hot"]
  /\ resident' = [resident EXCEPT ![d] = buf[d]]
  /\ mark' = [mark EXCEPT ![d] = LastSeq(buf[d])]
  /\ ahead' = [ahead EXCEPT ![d] = {}]
  /\ buf' = [buf EXCEPT ![d] = {}]
  /\ UNCHANGED <<rows, nextSeq, seq, target, snap, view, lockQ, singleton,
                 lagging, crashes>>

\* The hook throws: the document unloads, its connections close, and the open
\* rejects for the loader and for everyone who joined it.
LoadThrows(p) ==
  LET d == target[p]
      joined == {q \in Procs : pc[q] \in Loading /\ target[q] = d} IN
  /\ LoadFails
  /\ pc[p] \in {"hydrating", "fetched"}
  /\ pc' = [q \in Procs |->
              IF q \notin joined THEN pc[q]
              ELSE IF q \in Writers THEN "failing"
              ELSE IF q \in Readers THEN "auditing"
              ELSE "idle"]
  /\ IF joined \cap (Writers \cup Readers) # {}
     THEN Release(d) ELSE UNCHANGED lockQ
  /\ phase' = [phase EXCEPT ![d] = "cold"]
  /\ buf' = [buf EXCEPT ![d] = {}]
  /\ UNCHANGED <<rows, nextSeq, seq, target, snap, view, resident, mark,
                 ahead, singleton, lagging, crashes>>

\* Mutant: the connection is dropped again instead of being kept.
OpenedOnce(p) ==
  LET d == target[p] IN
  /\ p \in Writers \cup Readers
  /\ pc[p] = "opening"
  /\ phase[d] = "hot"
  /\ Move(p, "opened")
  /\ UNCHANGED <<rows, nextSeq, seq, target, snap, view, lockQ, memory,
                 lagging, crashes>>

\* openDirectConnection returns: the connection becomes the document's
\* singleton, and the previous one is released while this one is held.
Opened(p) ==
  LET d == target[p] IN
  /\ p \in Writers \cup Readers
  /\ pc[p] = "opening"
  /\ phase[d] = "hot"
  /\ Move(p, "opened")
  /\ singleton' = [singleton EXCEPT ![d] = TRUE]
  /\ UNCHANGED <<rows, nextSeq, seq, target, snap, view, lockQ, phase, buf,
                 resident, mark, ahead, lagging, crashes>>

-----------------------------------------------------------------------------
(* A read dispatch: runRead *)

\* The handler reads its metadata row, then ctx.transact is HocuspocusSync.read.
CallRead(r, d) ==
  /\ pc[r] = "idle"
  /\ FreeConnection
  /\ Move(r, "lockWait")
  /\ target' = [target EXCEPT ![r] = d]
  /\ Enqueue(r, d)
  /\ UNCHANGED <<rows, nextSeq, seq, snap, view, memory, lagging, crashes>>

\* fn runs on a clone of the resident document, and the lock is released.
ReadResident(r) ==
  LET d == target[r] IN
  /\ r \in Readers
  /\ pc[r] = "opened"
  /\ Move(r, "auditing")
  /\ view' = [view EXCEPT ![r] = resident[d]]
  /\ Release(d)
  /\ UNCHANGED <<rows, nextSeq, seq, target, snap, memory, lagging, crashes>>

\* The audit row of the read is written in a transaction of its own.
AuditRead(r) ==
  /\ pc[r] = "auditing"
  /\ FreeConnection
  /\ Move(r, "done")
  /\ UNCHANGED <<rows, nextSeq, seq, target, snap, view, lockQ, memory,
                 lagging, crashes>>

-----------------------------------------------------------------------------
(* A WebSocket attachment *)

\* onAuthenticate: collabAuthorize queries the principal and the document.
Authenticate(c, d) ==
  /\ pc[c] = "idle"
  /\ FreeConnection
  /\ Move(c, "opening")
  /\ target' = [target EXCEPT ![c] = d]
  /\ UNCHANGED <<rows, nextSeq, seq, snap, view, lockQ, memory, lagging, crashes>>

\* The connection joins the document and is sent its state.  No doc lock.
Attach(c) ==
  LET d == target[c] IN
  /\ c \in Clients
  /\ pc[c] = "opening"
  /\ phase[d] = "hot"
  /\ Move(c, "attached")
  /\ view' = [view EXCEPT ![c] = resident[d]]
  /\ UNCHANGED <<rows, nextSeq, seq, target, snap, lockQ, memory, lagging,
                 crashes>>

Detach(c) ==
  /\ pc[c] = "attached"
  /\ Move(c, "idle")
  /\ view' = [view EXCEPT ![c] = {}]
  /\ UNCHANGED <<rows, nextSeq, seq, target, snap, lockQ, memory, lagging,
                 crashes>>

\* Hocuspocus drops a document nobody is connected to; afterUnloadDocument
\* drops its watermark.
Unload(d) ==
  /\ phase[d] = "hot"
  /\ ~singleton[d]
  /\ \A p \in Procs : target[p] = d => pc[p] \notin Loading \cup {"attached"}
  /\ phase' = [phase EXCEPT ![d] = "cold"]
  /\ resident' = [resident EXCEPT ![d] = {}]
  /\ mark' = [mark EXCEPT ![d] = 0]
  /\ ahead' = [ahead EXCEPT ![d] = {}]
  /\ UNCHANGED <<rows, nextSeq, seq, pc, target, snap, view, lockQ, buf,
                 singleton, lagging, crashes>>

-----------------------------------------------------------------------------
(* A restart: memory is lost, open transactions never committed *)

Crash ==
  /\ crashes < MaxCrashes
  /\ crashes' = crashes + 1
  /\ pc' = [p \in Procs |->
              IF p \in Clients THEN "idle"
              ELSE IF pc[p] \in Finished \cup {"idle"} THEN pc[p]
              ELSE "crashed"]
  /\ seq' = [w \in Writers |-> IF pc[w] \in OpenTx THEN 0 ELSE seq[w]]
  /\ view' = [p \in Procs |->
                IF p \in Clients \/ pc[p] \in OpenTx \cup {"auditing"}
                THEN {} ELSE view[p]]
  /\ lockQ' = [d \in Docs |-> <<>>]
  /\ phase' = [d \in Docs |-> "cold"]
  /\ buf' = [d \in Docs |-> {}]
  /\ resident' = [d \in Docs |-> {}]
  /\ mark' = [d \in Docs |-> 0]
  /\ ahead' = [d \in Docs |-> {}]
  /\ singleton' = [d \in Docs |-> FALSE]
  /\ lagging' = {}
  /\ UNCHANGED <<rows, nextSeq, target, snap>>

-----------------------------------------------------------------------------
Idle == UNCHANGED vars /\ \A p \in Writers \cup Readers : pc[p] \in Finished

WriterStep(w) ==
  \/ SkipTransact(w) \/ CallTransact(w) \/ SnapshotResident(w) \/ ReadTail(w)
  \/ WriteRow(w) \/ NoUpdate(w) \/ WriteConflict(w) \/ CommitTx(w)
  \/ CommitUnacknowledged(w) \/ CallCommit(w) \/ ApplyCommitted(w) \/ ApplyThrows(w) \/ AuditFailure(w)

OpenStep(p) ==
  \/ Acquire(p) \/ BeginLoad(p) \/ FetchRows(p) \/ FinishLoad(p) \/ Opened(p)

Next ==
  \/ \E w \in Writers : WriterStep(w) \/ HandlerThrows(w)
  \/ \E w \in Writers, d \in Docs \cup {NoDoc} : BeginTx(w, d)
  \/ \E p \in Procs : OpenStep(p) \/ LoadThrows(p)
  \/ \E r \in Readers : ReadResident(r) \/ AuditRead(r)
  \/ \E r \in Readers, d \in Docs : CallRead(r, d)
  \/ \E c \in Clients : Attach(c) \/ Detach(c)
  \/ \E c \in Clients, d \in Docs : Authenticate(c, d)
  \/ \E d \in Docs : Unload(d)
  \/ Crash
  \/ Idle

Spec == Init /\ [][Next]_vars

\* The event loop runs every promise whose await has settled, the database
\* serves every query, and nothing obliges a client to attach or a handler to
\* throw.  Weak fairness per process is enough: the lock is first come first
\* served.
Fairness ==
  /\ \A w \in Writers : WF_vars(WriterStep(w))
  /\ \A p \in Procs : WF_vars(OpenStep(p))
  /\ \A r \in Readers : WF_vars(ReadResident(r) \/ AuditRead(r))
  /\ \A c \in Clients : WF_vars(Attach(c))
  /\ \A d \in Docs : WF_vars(Unload(d))

FairSpec == Spec /\ Fairness

-----------------------------------------------------------------------------
(* Safety *)

\* Broadcast after commit: the resident document, what a read returned and
\* what a client was sent hold committed updates only, whatever rolls back
\* (hocuspocus.ts, "clients never see a delta that did not commit").
CommittedOnly ==
  /\ \A d \in Docs : resident[d] \cup buf[d] \subseteq rows[d]
  /\ \A o \in Readers \cup Clients :
       view[o] # {} => target[o] \in Docs /\ view[o] \subseteq rows[target[o]]

\* The watermark is contiguous: every committed row at or below it has reached
\* the resident document, and so has every row parked above it
\* (hocuspocus.ts, #appliedSeq and #aheadSeqs).
WatermarkContiguous ==
  \A d \in Docs : phase[d] = "hot" =>
    \A w \in rows[d] :
      seq[w] <= mark[d] \/ seq[w] \in ahead[d] => w \in resident[d]

\* No lost durable state: when the handler's function receives the clone, the
\* clone is exactly what the transaction sees of the document plus what other
\* dispatches have committed since; in particular no committed row the
\* transaction sees is missing.
CloneComplete ==
  \A w \in Writers : pc[w] = "cloned" =>
    snap[w] \subseteq view[w] /\ view[w] \subseteq rows[target[w]]

\* doc_updates.seq is allocated once and without gaps: the committed rows of a
\* document carry exactly 1 .. next_seq - 1, one row each.
SeqGapFree ==
  \A d \in Docs :
    /\ {seq[w] : w \in rows[d]} = 1..(nextSeq[d] - 1)
    /\ \A v, w \in rows[d] : seq[v] = seq[w] => v = w

\* "Any doc with uncommitted doc_updates rows is resident", and stays so until
\* its updates were applied, so that no hydration runs beside them.
StagedIsResident ==
  \A w \in Writers :
    pc[w] \in {"handled", "committed", "applyWait"} /\ seq[w] > 0
      => phase[target[w]] = "hot"

\* Read your writes: a read that takes its clone now shows every update whose
\* dispatch has returned, unless its apply threw (the resident freshness
\* contract: every commit advances the resident it touched).  A dispatch whose
\* COMMIT went unacknowledged has not returned: its caller was told it failed.
ReadYourWrites ==
  [][\A r \in Readers : pc[r] = "opened" /\ pc'[r] = "auditing" =>
       {w \in rows[target[r]] : pc[w] = "done"} \ lagging \subseteq view'[r]]_vars

\* The write path implements the serial log: an update commits on top of all
\* the updates before it, and observers are shown committed updates only.
Abstract == INSTANCE SerialLog WITH
  Updates   <- Writers,
  Observers <- Readers \cup Clients,
  log       <- rows,
  basis     <- [w \in Writers |->
                  IF \E d \in Docs : w \in rows[d] THEN view[w] ELSE {}],
  seen      <- [o \in Readers \cup Clients |-> view[o]]

ImplementsSerialLog == Abstract!Spec

-----------------------------------------------------------------------------
(* The inductive invariant behind the safety properties, in named parts *)

\* The doc lock excludes: whoever is inside it is first in its queue.
LockInv ==
  \A p \in Writers \cup Readers : pc[p] \in Critical => Holds(p, target[p])

\* Who works on a document, and which dispatch has a seq.
TargetInv ==
  /\ \A w \in Writers :
       /\ pc[w] \in Critical \cup {"lockWait", "applyWait"} => target[w] \in Docs
       /\ pc[w] = "applyWait" => seq[w] > 0
       /\ seq[w] > 0 =>
            /\ target[w] \in Docs
            /\ pc[w] \in {"handled", "committed", "applyWait", "done", "failing",
                         "failed", "crashed"}
  /\ \A p \in Readers \cup Clients : pc[p] # "idle" => target[p] \in Docs

\* The committed rows are those of the dispatches past their commit.
RowsInv ==
  \A d \in Docs, w \in Writers :
    w \in rows[d] <=> seq[w] > 0 /\ pc[w] # "handled" /\ target[w] = d

\* A transaction sees committed rows; all of them, until the document has a
\* singleton connection, that is until some dispatch could add one.
SnapInv ==
  \A w \in Writers : pc[w] \in OpenTx /\ target[w] \in Docs =>
    /\ snap[w] \subseteq rows[target[w]]
    /\ ~singleton[target[w]] => snap[w] = rows[target[w]]

\* At most one open transaction has a new row of a document; it holds the next
\* seq and was computed from everything committed so far.
StagedInv ==
  \A w \in Writers : pc[w] = "handled" /\ seq[w] > 0 =>
    /\ seq[w] = nextSeq[target[w]]
    /\ view[w] = rows[target[w]]
    /\ \A x \in Writers :
         pc[x] = "handled" /\ seq[x] > 0 /\ target[x] = target[w] => x = w

\* A singleton keeps its document resident, and whoever is past the open, or
\* has staged an update, has made one.
ResidencyInv ==
  /\ \A d \in Docs : singleton[d] => phase[d] = "hot"
  /\ \A p \in Writers \cup Readers :
       pc[p] \in {"opened", "snapped", "cloned"} => singleton[target[p]]
  /\ \A w \in Writers :
       pc[w] \in {"handled", "committed", "applyWait"} /\ seq[w] > 0
         => singleton[target[w]]

\* One hydration of a document at a time, and it ends up with every row.
LoadInv ==
  /\ \A p \in Procs :
       /\ pc[p] = "hydrating" => phase[target[p]] = "loading"
       /\ pc[p] = "fetched" => phase[target[p]] = "fetched"
       /\ \A q \in Procs :
            /\ {pc[p], pc[q]} \subseteq {"hydrating", "fetched"}
            /\ target[p] = target[q]
            => p = q
  /\ \A d \in Docs :
       /\ phase[d] = "fetched" => buf[d] = rows[d]
       /\ phase[d] # "fetched" => buf[d] = {}
       /\ phase[d] # "hot" => resident[d] = {}

\* The resident document and its watermark against the committed rows.
ResidentInv ==
  \A d \in Docs :
    /\ resident[d] \subseteq rows[d]
    /\ mark[d] < nextSeq[d]
    /\ ahead[d] \subseteq 1..(nextSeq[d] - 1)
    /\ phase[d] = "hot" =>
         \A w \in rows[d] :
           /\ seq[w] <= mark[d] \/ seq[w] \in ahead[d] => w \in resident[d]
           /\ \/ w \in resident[d] \cup lagging
              \/ pc[w] \in {"committed", "applyWait"}

\* A clone between the steps that build it.
CloneInv ==
  \A w \in Writers :
    /\ pc[w] \in {"snapped", "cloned"} => view[w] \subseteq rows[target[w]]
    /\ pc[w] = "snapped" =>
         \A x \in snap[w] : seq[x] <= mark[target[w]] => x \in view[w]
    /\ pc[w] = "cloned" => snap[w] \subseteq view[w]

\* What observers hold.
ViewInv ==
  /\ \A r \in Readers : pc[r] \notin {"auditing", "done"} => view[r] = {}
  /\ \A c \in Clients : pc[c] # "attached" => view[c] = {}
  /\ \A o \in Readers \cup Clients : pc[o] # "idle" =>
       view[o] \subseteq rows[target[o]]

IInv ==
  /\ TypeOK /\ LockInv /\ TargetInv /\ RowsInv /\ SeqGapFree /\ SnapInv
  /\ StagedInv /\ ResidencyInv /\ LoadInv /\ ResidentInv /\ CloneInv /\ ViewInv

-----------------------------------------------------------------------------
(* Liveness *)

\* A dispatch that has started returns: no wait on a connection, on the doc
\* lock or on another's hydration lasts forever.
DispatchReturns ==
  \A p \in Writers \cup Readers :
    pc[p] # "idle" ~> pc[p] \in Finished

\* Live convergence: an attached client is sent every committed update of its
\* document, unless the update's apply threw or its COMMIT went unacknowledged,
\* or it is detached.
ClientsConverge ==
  \A c \in Clients, w \in Writers, d \in Docs :
    w \in rows[d] /\ pc[c] = "attached" /\ target[c] = d
      ~> pc[c] # "attached" \/ target[c] # d \/ w \in view[c] \cup lagging

\* A failed post-commit apply is "healed by the next cold hydration (the
\* resident unloads eventually)": the update reaches the resident document.
FailedApplyHeals ==
  \A w \in Writers, d \in Docs :
    w \in lagging /\ target[w] = d ~> w \in resident[d]
=============================================================================
