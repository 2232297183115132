------------------------------ MODULE Dispatch ------------------------------
(***************************************************************************)
(* One pipeline for every capability call: packages/dispatcher/src/        *)
(* dispatcher.ts inside withRateLimit, over the transactions of            *)
(* createApiDispatcher.ts and the audit and outbox writers of packages/db. *)
(*                                                                         *)
(* A mutation writes one metadata row (its object) in a SQL transaction    *)
(* that also holds the allow audit row and the outbox rows.  Everything    *)
(* else (a read, a denial, an error) leaves only an audit row, written in  *)
(* a short transaction of its own.  SyncWritePath has the part of a        *)
(* mutation that goes through the Y.Doc; here ctx.transact is one more     *)
(* step of the handler that may throw.                                     *)
(***************************************************************************)
EXTENDS Integers, Sequences, FiniteSets

CONSTANTS Calls,      \* capability invocations
          Objects,    \* metadata rows the mutations write
          NoObject,
          PoolSize,   \* database connections: 1 is SQLite, more is Postgres
          DbFails,    \* may a query outside the write transaction throw?
          AckLost,    \* may COMMIT throw although it took effect?
          MaxCrashes  \* bound: restarts of the server process

ASSUME NoObjectIsNoObject == NoObject \notin Objects
ASSUME PoolAssumption == PoolSize \in Nat \ {0}
ASSUME BoundAssumption ==
  MaxCrashes \in Nat /\ DbFails \in BOOLEAN /\ AckLost \in BOOLEAN

VARIABLES
  pc,        \* where each call is
  object,    \* the row a mutation writes; NoObject for a read
  base,      \* base[c]: the version of its object c's transaction sees
  rowId,     \* rowId[c]: the id of the allow row in c's transaction, or 0
  outcome,   \* outcome[c]: what the audit transaction of c is to record
  history,   \* history[o]: the mutations of row o, in commit order
  audit,     \* committed audit_events rows
  outbox,    \* committed outbox rows
  nextId,    \* uuidV7: ids ascend within the process
  reply,     \* reply[c]: what the caller was told
  lost,      \* calls an acknowledgement of COMMIT was lost of (history only)
  crashes

vars == <<pc, object, base, rowId, outcome, history, audit, outbox, nextId,
          reply, lost, crashes>>

Outcomes == {"allow", "deny", "error"}
OpenTx   == {"handling", "written", "audited", "flushed"}
PC       == OpenTx \cup {"idle", "gate", "begin", "reading", "committed",
                         "auditing", "replied", "crashed"}

\* What a caller can be told.  "refused": before the pipeline, no audit row.
\* "broken": the database failed while the outcome was to be recorded.
Replies == {"none", "refused", "broken"} \cup Outcomes

Rows   == [id : Nat, call : Calls, outcome : Outcomes]
Events == [event : {"audit.appended", "handler"}, call : Calls]

TypeOK ==
  /\ pc \in [Calls -> PC]
  /\ object \in [Calls -> Objects \cup {NoObject}]
  /\ base \in [Calls -> Nat]
  /\ rowId \in [Calls -> Nat]
  /\ outcome \in [Calls -> Outcomes]
  /\ history \in [Objects -> Seq(Calls)]
  /\ audit \subseteq Rows
  /\ outbox \subseteq Events
  /\ nextId \in Nat \ {0}
  /\ reply \in [Calls -> Replies]
  /\ lost \subseteq Calls
  /\ crashes \in 0..MaxCrashes

Init ==
  /\ pc = [c \in Calls |-> "idle"]
  /\ object = [c \in Calls |-> NoObject]
  /\ base = [c \in Calls |-> 0]
  /\ rowId = [c \in Calls |-> 0]
  /\ outcome = [c \in Calls |-> "allow"]
  /\ history = [o \in Objects |-> <<>>]
  /\ audit = {}
  /\ outbox = {}
  /\ nextId = 1
  /\ reply = [c \in Calls |-> "none"]
  /\ lost = {}
  /\ crashes = 0

-----------------------------------------------------------------------------
durable == <<history, audit, outbox, lost>>

IsRead(c) == object[c] = NoObject

Move(c, to)   == pc' = [pc EXCEPT ![c] = to]
Answer(c, r)  == Move(c, "replied") /\ reply' = [reply EXCEPT ![c] = r]

\* Record the outcome o of c in an audit transaction of its own.
Record(c, o) == Move(c, "auditing") /\ outcome' = [outcome EXCEPT ![c] = o]

FreeConnection == Cardinality({c \in Calls : pc[c] \in OpenTx}) < PoolSize

\* The row of o is locked by a transaction that wrote it.
RowLocked(o) ==
  \E c \in Calls : object[c] = o /\ pc[c] \in {"written", "audited", "flushed"}

\* AuditWriter.write: an audit_events row and its outbox(audit.appended) row.
AppendAudit(c, id, o) ==
  /\ audit' = audit \cup {[id |-> id, call |-> c, outcome |-> o]}
  /\ outbox' = outbox \cup {[event |-> "audit.appended", call |-> c]}

-----------------------------------------------------------------------------
(* Before the handler *)

\* An exhausted rate limit bucket, a tenant mismatch or an unknown capability
\* is refused at the door and leaves no audit row.
Refuse(c) ==
  /\ pc[c] = "idle"
  /\ Answer(c, "refused")
  /\ UNCHANGED <<object, base, rowId, outcome, durable, nextId, crashes>>

\* A read, or a mutation of o, whose input parses.
Invoke(c, o) ==
  /\ pc[c] = "idle"
  /\ Move(c, "gate")
  /\ object' = [object EXCEPT ![c] = o]
  /\ UNCHANGED <<base, rowId, outcome, durable, nextId, reply, crashes>>

\* An input that does not parse is recorded before the gate is asked.
InvalidInput(c) ==
  /\ pc[c] = "idle"
  /\ Record(c, "error")
  /\ UNCHANGED <<object, base, rowId, durable, nextId, reply, crashes>>

\* The gate answers; for a delegated principal it has asked the database.
GateAllows(c) ==
  /\ pc[c] = "gate"
  /\ Move(c, IF IsRead(c) THEN "reading" ELSE "begin")
  /\ UNCHANGED <<object, base, rowId, outcome, durable, nextId, reply, crashes>>

GateDenies(c) ==
  /\ pc[c] = "gate"
  /\ Record(c, "deny")
  /\ UNCHANGED <<object, base, rowId, durable, nextId, reply, crashes>>

\* The delegator's role query throws; nothing around the gate catches it.
GateThrows(c) ==
  /\ DbFails
  /\ pc[c] = "gate"
  /\ Answer(c, "broken")
  /\ UNCHANGED <<object, base, rowId, outcome, durable, nextId, crashes>>

-----------------------------------------------------------------------------
(* A read: no transaction, then its audit row *)

ReadReturns(c) ==
  /\ pc[c] = "reading"
  /\ FreeConnection
  /\ Record(c, "allow")
  /\ UNCHANGED <<object, base, rowId, durable, nextId, reply, crashes>>

\* PermissionDeniedError from the handler is a denial, all else an error.
ReadThrows(c, o) ==
  /\ pc[c] = "reading"
  /\ Record(c, o)
  /\ UNCHANGED <<object, base, rowId, durable, nextId, reply, crashes>>

-----------------------------------------------------------------------------
(* A mutation: one transaction *)

BeginTx(c) ==
  /\ pc[c] = "begin"
  /\ FreeConnection
  /\ Move(c, "handling")
  /\ base' = [base EXCEPT ![c] = Len(history[object[c]])]
  /\ UNCHANGED <<object, rowId, outcome, durable, nextId, reply, crashes>>

\* The handler writes its row and returns, and its output parses.  It waits
\* for a transaction that wrote the row before it; if that one committed the
\* snapshot is stale and SERIALIZABLE aborts (HandlerThrows).
HandlerReturns(c) ==
  /\ pc[c] = "handling"
  /\ ~RowLocked(object[c])
  /\ base[c] = Len(history[object[c]])
  /\ Move(c, "written")
  /\ UNCHANGED <<object, base, rowId, outcome, durable, nextId, reply, crashes>>

\* The allow audit row joins the transaction; its id is made now.
AuditAllow(c) ==
  /\ pc[c] = "written"
  /\ Move(c, "audited")
  /\ rowId' = [rowId EXCEPT ![c] = nextId]
  /\ nextId' = nextId + 1
  /\ UNCHANGED <<object, base, outcome, durable, reply, crashes>>

\* Mutant: the handler's events are written outside the transaction.
FlushApart(c) ==
  /\ pc[c] = "audited"
  /\ Move(c, "flushed")
  /\ outbox' = outbox \cup {[event |-> "handler", call |-> c]}
  /\ UNCHANGED <<object, base, rowId, outcome, history, audit, nextId, reply,
                 lost, crashes>>

\* The queued handler events join the transaction.
FlushOutbox(c) ==
  /\ pc[c] = "audited"
  /\ Move(c, "flushed")
  /\ UNCHANGED <<object, base, rowId, outcome, durable, nextId, reply, crashes>>

\* What a commit makes durable, all at once.
Commit(c) ==
  /\ history' = [history EXCEPT ![object[c]] = Append(@, c)]
  /\ audit' = audit \cup {[id |-> rowId[c], call |-> c, outcome |-> "allow"]}
  /\ outbox' = outbox \cup {[event |-> e, call |-> c] :
                              e \in {"audit.appended", "handler"}}

\* Mutant: the allow row is left to an audit transaction after the commit.
CommitUnaudited(c) ==
  /\ pc[c] = "flushed"
  /\ history' = [history EXCEPT ![object[c]] = Append(@, c)]
  /\ Record(c, "allow")
  /\ UNCHANGED <<object, base, rowId, audit, outbox, nextId, reply, lost,
                 crashes>>

CommitTx(c) ==
  /\ pc[c] = "flushed"
  /\ Commit(c)
  /\ Move(c, "committed")
  /\ UNCHANGED <<object, base, rowId, outcome, nextId, reply, lost, crashes>>

\* COMMIT took effect but its acknowledgement was lost: the catch block
\* records an error.
CommitUnacknowledged(c) ==
  /\ AckLost
  /\ pc[c] = "flushed"
  /\ Commit(c)
  /\ Record(c, "error")
  /\ lost' = lost \cup {c}
  /\ UNCHANGED <<object, base, rowId, nextId, reply, crashes>>

\* bound.commit() has applied what was staged (it never throws), and the
\* dispatch returns its output.
Return(c) ==
  /\ pc[c] = "committed"
  /\ Answer(c, "allow")
  /\ UNCHANGED <<object, base, rowId, outcome, durable, nextId, crashes>>

\* Mutant: a throw rolls back and the call is tried again, without a bound.
ThrowRetried(c, o) ==
  /\ pc[c] \in OpenTx
  /\ o = "deny" => pc[c] = "handling"
  /\ Move(c, "gate")
  /\ rowId' = [rowId EXCEPT ![c] = 0]
  /\ UNCHANGED <<object, base, outcome, durable, nextId, reply, crashes>>

\* A throw anywhere in the transaction rolls it back, audit row included.
\* Only the handler can throw a denial.
HandlerThrows(c, o) ==
  /\ pc[c] \in OpenTx
  /\ o = "deny" => pc[c] = "handling"
  /\ Record(c, o)
  /\ rowId' = [rowId EXCEPT ![c] = 0]
  /\ UNCHANGED <<object, base, durable, nextId, reply, crashes>>

-----------------------------------------------------------------------------
(* The short audit transaction: withAuditTx *)

WriteAudit(c) ==
  /\ pc[c] = "auditing"
  /\ FreeConnection
  /\ AppendAudit(c, nextId, outcome[c])
  /\ nextId' = nextId + 1
  /\ Answer(c, outcome[c])
  /\ UNCHANGED <<object, base, rowId, outcome, history, lost, crashes>>

\* Mutant: a failing audit write is swallowed.
AuditFailureSwallowed(c) ==
  /\ DbFails
  /\ pc[c] = "auditing"
  /\ Answer(c, outcome[c])
  /\ UNCHANGED <<object, base, rowId, outcome, durable, nextId, crashes>>

\* What a failing audit transaction leads to: for a read that succeeded the
\* catch block makes an error of it and tries once more; otherwise the caller
\* sees the database's error.
AuditFailed(c) ==
  IF outcome[c] = "allow"
  THEN Record(c, "error") /\ UNCHANGED reply
  ELSE Answer(c, "broken") /\ UNCHANGED outcome

AuditThrows(c) ==
  /\ DbFails
  /\ pc[c] = "auditing"
  /\ AuditFailed(c)
  /\ UNCHANGED <<object, base, rowId, durable, nextId, crashes>>

\* It committed, but its acknowledgement was lost.
AuditUnacknowledged(c) ==
  /\ AckLost
  /\ pc[c] = "auditing"
  /\ FreeConnection
  /\ AppendAudit(c, nextId, outcome[c])
  /\ nextId' = nextId + 1
  /\ AuditFailed(c)
  /\ lost' = lost \cup {c}
  /\ UNCHANGED <<object, base, rowId, history, crashes>>

-----------------------------------------------------------------------------
Crash ==
  /\ crashes < MaxCrashes
  /\ crashes' = crashes + 1
  /\ pc' = [c \in Calls |->
              IF pc[c] \in {"idle", "replied"} THEN pc[c] ELSE "crashed"]
  /\ rowId' = [c \in Calls |-> IF pc[c] \in OpenTx THEN 0 ELSE rowId[c]]
  /\ UNCHANGED <<object, base, outcome, durable, nextId, reply>>

Idle == UNCHANGED vars /\ \A c \in Calls : pc[c] \in {"replied", "crashed"}

Step(c) ==
  \/ GateAllows(c) \/ GateDenies(c) \/ GateThrows(c)
  \/ ReadReturns(c) \/ BeginTx(c) \/ HandlerReturns(c) \/ AuditAllow(c)
  \/ FlushOutbox(c) \/ CommitTx(c) \/ CommitUnacknowledged(c) \/ Return(c)
  \/ WriteAudit(c) \/ AuditThrows(c) \/ AuditUnacknowledged(c)
  \/ \E o \in {"deny", "error"} : ReadThrows(c, o) \/ HandlerThrows(c, o)

Next ==
  \/ \E c \in Calls : Refuse(c) \/ InvalidInput(c) \/ Step(c)
  \/ \E c \in Calls, o \in Objects \cup {NoObject} : Invoke(c, o)
  \/ Crash
  \/ Idle

Spec == Init /\ [][Next]_vars

\* The event loop and the database serve every call; nobody must call.
FairSpec == Spec /\ \A c \in Calls : WF_vars(Step(c))

-----------------------------------------------------------------------------
Allowed(o)  == {r \in audit : r.outcome = "allow" /\ object[r.call] = o}
RowsOf(c)   == {r \in audit : r.call = c}

\* The audit log alone reconstructs the state: the allow rows of an object,
\* in the order of their ids, are exactly the mutations that committed, in
\* commit order (brief.md, invariant 3; AuditWriter, "creation-ordered id").
ReplayFaithful ==
  \A o \in Objects :
    /\ {r.call : r \in Allowed(o)} = {history[o][i] : i \in DOMAIN history[o]}
    /\ \A q, r \in Allowed(o), i, j \in DOMAIN history[o] :
         q.call = history[o][i] /\ r.call = history[o][j]
           => (q.id < r.id <=> i < j)

\* The caller is told what the log says: a row of that outcome, its only one,
\* and no row when the call was refused or its outcome could not be recorded --
\* except that a call whose COMMIT acknowledgement was lost may have more rows.
ReplyIsAudited ==
  \A c \in Calls :
    /\ reply[c] \in Outcomes => \E r \in RowsOf(c) : r.outcome = reply[c]
    /\ c \notin lost =>
         /\ reply[c] \in Outcomes => \E r \in audit : RowsOf(c) = {r}
         /\ reply[c] \in {"refused", "broken"} => RowsOf(c) = {}

\* No event without its cause: handler events are committed with the mutation
\* that queued them, and every audit row has its fan-out row.
EventsFollowState ==
  \A c \in Calls :
    /\ [event |-> "handler", call |-> c] \in outbox <=>
         \E o \in Objects : \E i \in DOMAIN history[o] : history[o][i] = c
    /\ [event |-> "audit.appended", call |-> c] \in outbox <=> RowsOf(c) # {}

-----------------------------------------------------------------------------
(* The inductive invariant behind ReplayFaithful and EventsFollowState *)

\* Who has an object, and who has left nothing durable yet.
CallInv ==
  \A c \in Calls :
    /\ pc[c] \in OpenTx \cup {"begin", "committed"} => object[c] \in Objects
    /\ pc[c] = "reading" => object[c] = NoObject
    /\ pc[c] = "auditing" /\ outcome[c] = "allow" => object[c] = NoObject
    /\ pc[c] \in OpenTx \cup {"idle", "gate", "begin", "reading"} =>
         /\ \A r \in audit : r.call # c
         /\ \A o \in Objects : \A i \in DOMAIN history[o] : history[o][i] # c

\* One open transaction at most has written an object.
LockInv ==
  \A c, d \in Calls :
    /\ {pc[c], pc[d]} \subseteq {"written", "audited", "flushed"}
    /\ object[c] = object[d]
    => c = d

\* The id of a transaction's audit row was made after its row was locked, so
\* it is above every id of that object in the log.
IdInv ==
  /\ \A r \in audit : r.id < nextId
  /\ \A c \in Calls : pc[c] \in {"audited", "flushed"} =>
       /\ rowId[c] < nextId
       /\ \A r \in Allowed(object[c]) : r.id < rowId[c]

IInv ==
  TypeOK /\ CallInv /\ LockInv /\ IdInv /\ ReplayFaithful /\ EventsFollowState

\* With it: a call that lost no acknowledgement has its one row exactly when it
\* was answered, or is about to be.
AnswerInv ==
  \A c \in Calls :
    /\ reply[c] # "none" => pc[c] = "replied"
    /\ pc[c] = "auditing" /\ c \notin lost => RowsOf(c) = {}
    /\ pc[c] = "committed" =>
         \E r \in audit : RowsOf(c) = {r} /\ r.outcome = "allow"

-----------------------------------------------------------------------------
\* Every call that was made is answered, unless the process dies: from some
\* point on none is under way.
CallsAreAnswered ==
  <>[](\A c \in Calls : pc[c] \in {"idle", "replied", "crashed"})
=============================================================================
