----------------------------- MODULE SerialLog -----------------------------
(***************************************************************************)
(* What the write path promises its users, with no transaction, lock,     *)
(* resident document or watermark in sight (ADR 0043, architecture 6.1):   *)
(*                                                                         *)
(*  - every document is a log of updates, each committed in one step;      *)
(*  - an update was computed from a document that held EVERY update that   *)
(*    was committed before it, and nothing else;                           *)
(*  - what an observer (a read, an attached WebSocket client) is shown is  *)
(*    made of committed updates only, and grows until it is dropped.       *)
(*                                                                         *)
(* SyncWritePath implements this specification.                            *)
(***************************************************************************)

CONSTANTS Docs,       \* documents
          Updates,    \* update identities: one per write dispatch
          Observers   \* read dispatches and WebSocket attachments

VARIABLES
  log,      \* log[d]: the committed updates of d
  basis,    \* basis[u]: the state of the document u was computed from
  seen      \* seen[o]: the updates observer o has been shown

vars == <<log, basis, seen>>

Init ==
  /\ log = [d \in Docs |-> {}]
  /\ basis = [u \in Updates |-> {}]
  /\ seen = [o \in Observers |-> {}]

Committed(u) == \E d \in Docs : u \in log[d]

\* One write dispatch takes effect: its update joins the log on top of the
\* whole log.
Commit(u, d) ==
  /\ ~Committed(u)
  /\ log' = [log EXCEPT ![d] = @ \cup {u}]
  /\ basis' = [basis EXCEPT ![u] = log[d]]
  /\ UNCHANGED seen

\* Observers are shown more committed updates, or start again from nothing
\* (a broadcast reaches several of them, a restart all of them).
Show ==
  /\ seen' \in [Observers -> SUBSET Updates]
  /\ \A o \in Observers :
       \/ seen'[o] = {}
       \/ seen'[o] = seen[o]
       \/ /\ seen[o] \subseteq seen'[o]
          /\ \E d \in Docs : seen'[o] \subseteq log[d]
  /\ UNCHANGED <<log, basis>>

Next == (\E u \in Updates, d \in Docs : Commit(u, d)) \/ Show

Spec == Init /\ [][Next]_vars
=============================================================================
