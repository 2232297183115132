------------------------------- MODULE WriteGate -------------------------------
(***************************************************************************)
(* The door of the collaborative write lane of one document: the frames of *)
(* each connection pass one at a time through the write gate               *)
(* (sync/src/collab-gate.ts), the ones with something new are charged to   *)
(* the rate limiter (composition/rateLimit.ts) and dispatched as           *)
(* doc.apply_update, whose audit rows are numbered by uuidV7               *)
(* (ids/src/index.ts), all on one wall clock that may be set back.         *)
(*                                                                         *)
(* An edit depends on all that its tab had seen.  A frame is a set of      *)
(* edits: one that was just made, or, upon a reconnect, all that the       *)
(* server lacks; that a provider syncs before it sends deltas is what      *)
(* foreign-update.ts assumes of it.  The commit of a call is one step      *)
(* (SyncWritePath).                                                        *)
(***************************************************************************)
EXTENDS Integers, Sequences, FiniteSets

CONSTANTS
  Tabs,          \* browser tabs with the document open
  Buckets,       \* keys of the rate limiter
  BucketsOf,     \* of a tab: its principal's, and those the capability declares
  Burst,         \* of a bucket: how many calls it admits when full
  Period,        \* of a bucket: units of time that earn one more call
  CounterMax,    \* of the sub-millisecond counter
  MaxEdits,      \* bound: edits made
  MaxConns,      \* bound: connections per tab
  MaxForward     \* bound: units the clock moves forward

Edits == Tabs \X (1..MaxEdits)
Conns == Tabs \X (1..MaxConns)
Seeds == 0..((CounterMax + 1) \div 2 - 1)

ASSUME WriteGateAssumption ==
  /\ BucketsOf \in [Tabs -> SUBSET Buckets]
  /\ Burst \in [Buckets -> Nat \ {0}] /\ Period \in [Buckets -> Nat \ {0}]
  /\ CounterMax \in Nat \ {0} /\ {MaxEdits, MaxConns, MaxForward} \subseteq Nat \ {0}

VARIABLES
  known,      \* of every tab: the edits it has, its own and received
  deps,       \* of every edit made: what its tab had seen
  cur,        \* of every tab: its newest connection
  conn,       \* of every connection: open or not, its frames, where its first one is
  resident,   \* edits committed to the document
  log,        \* audit rows of the updates persisted: id and edits
  bucket,     \* tokens, in units of time, and the last refill
  clock, forward,    \* the wall clock; all it ever moved forward
  lastTs, counter,   \* of uuidV7
  admitted    \* history: of every call admitted, its tab and the clocks

clocks == <<clock, forward>>
ids == <<lastTs, counter>>
tabs == <<known, deps>>
vars == <<known, deps, cur, conn, resident, log, bucket, clock, forward, lastTs, counter, admitted>>

Fresh == [open |-> TRUE, frames |-> <<>>, at |-> "idle"]
Condemned == [open |-> FALSE, frames |-> <<>>, at |-> "idle"]

Init ==
  /\ known = [t \in Tabs |-> {}]
  /\ deps = <<>>
  /\ cur = [t \in Tabs |-> 1]
  /\ conn = [c \in Conns |-> IF c[2] = 1 THEN Fresh ELSE Condemned]
  /\ resident = {}
  /\ log = <<>>
  /\ bucket = [b \in Buckets |-> [tokens |-> Burst[b] * Period[b], lastRefill |-> 0]]
  /\ clock = 0 /\ forward = 0
  /\ lastTs = 0 /\ counter = 0
  /\ admitted = <<>>

-----------------------------------------------------------------------------
(* Tabs *)

Newest(t) == <<t, cur[t]>>

\* Sent at once, or, offline, kept for the next sync.
Edit(t) ==
  LET e == <<t, Cardinality({x \in known[t] : x[1] = t}) + 1>> IN
  /\ Cardinality(DOMAIN deps) < MaxEdits
  /\ known' = [known EXCEPT ![t] = @ \cup {e}]
  /\ deps' = [x \in DOMAIN deps \cup {e} |-> IF x = e THEN known[t] ELSE deps[x]]
  /\ conn' = IF conn[Newest(t)].open
             THEN [conn EXCEPT ![Newest(t)].frames = Append(@, {e})] ELSE conn
  /\ UNCHANGED <<cur, resident, log, bucket, clocks, ids, admitted>>

\* Only what is committed is ever broadcast.
Receive(t) ==
  /\ conn[Newest(t)].open
  /\ known' = [known EXCEPT ![t] = @ \cup resident]
  /\ UNCHANGED <<deps, cur, conn, resident, log, bucket, clocks, ids, admitted>>

\* Frames still on their way are lost; those that arrived stay in the chain.
Drop(t) ==
  LET c == Newest(t)
      first == IF conn[c].at = "idle" THEN 0 ELSE 1
  IN
  /\ conn[c].open
  /\ \E arrived \in first..Len(conn[c].frames) :
       conn' = [conn EXCEPT ![c].open = FALSE, ![c].frames = SubSeq(@, 1, arrived)]
  /\ UNCHANGED <<tabs, cur, resident, log, bucket, clocks, ids, admitted>>

Reconnect(t) ==
  /\ ~conn[Newest(t)].open /\ cur[t] < MaxConns
  /\ cur' = [cur EXCEPT ![t] = @ + 1]
  /\ conn' = [conn EXCEPT ![<<t, cur[t] + 1>>] =
                [Fresh EXCEPT !.frames =
                   IF known[t] \subseteq resident THEN <<>> ELSE <<known[t] \ resident>>]]
  /\ UNCHANGED <<tabs, resident, log, bucket, clocks, ids, admitted>>

-----------------------------------------------------------------------------
(* The gate: a frame waits until the one before it has settled, whether its *)
(* connection is still there or not.                                        *)

Goto(c, at) == conn' = [conn EXCEPT ![c].at = at]
Settle(c) == conn' = [conn EXCEPT ![c].at = "idle", ![c].frames = Tail(@)]

\* Mutant: the chain does not latch, later frames get their turn.
RefuseAlone(c) ==
  conn' = [conn EXCEPT ![c] = [open |-> FALSE, frames |-> Tail(@.frames), at |-> "idle"]]

\* The connection closes, and every later frame of the chain is refused.
Refuse(c) == conn' = [conn EXCEPT ![c] = Condemned]

\* What the resident contains already is passed without a call.
GateFrame(c) ==
  /\ conn[c].at = "idle" /\ conn[c].frames # <<>>
  /\ IF Head(conn[c].frames) \subseteq resident THEN Settle(c) ELSE Goto(c, "resolving")
  /\ UNCHANGED <<tabs, cur, resident, log, bucket, clocks, ids, admitted>>

Elapsed(b) == IF clock > bucket[b].lastRefill THEN clock - bucket[b].lastRefill ELSE 0
Full(b) == Burst[b] * Period[b]

Refilled(b) == LET t == bucket[b].tokens + Elapsed(b) IN IF t > Full(b) THEN Full(b) ELSE t

\* Mutant: a refused call has charged the buckets that were not exhausted.
ChargingEach(mine, charged) ==
  bucket' = [b \in Buckets |->
               IF b \notin mine THEN bucket[b]
               ELSE [tokens |-> Refilled(b) - (IF Refilled(b) >= Period[b] THEN Period[b] ELSE 0),
                     lastRefill |-> clock]]

Charging(mine, charged) ==
  bucket' = [b \in Buckets |->
               IF b \notin mine THEN bucket[b]
               ELSE [tokens |-> Refilled(b) - (IF b \in charged THEN Period[b] ELSE 0),
                     lastRefill |-> clock]]

\* Every bucket is refilled; all are charged, or none is and the call refused.
Consume(c) ==
  LET mine == BucketsOf[c[1]]
      allowed == \A b \in mine : Refilled(b) >= Period[b]
  IN
  /\ conn[c].at = "resolving"
  /\ Charging(mine, IF allowed THEN mine ELSE {})
  /\ IF allowed
     THEN /\ Goto(c, "dispatched")
          /\ admitted' = Append(admitted, [tab |-> c[1], clock |-> clock, forward |-> forward])
     ELSE Refuse(c) /\ UNCHANGED admitted
  /\ UNCHANGED <<tabs, cur, resident, log, clocks, ids>>

\* The credential is dead, the call denied, a delta not integrable, a write lost.
Fails(c) ==
  /\ conn[c].at \in {"resolving", "dispatched"}
  /\ Refuse(c)
  /\ UNCHANGED <<tabs, cur, resident, log, bucket, clocks, ids, admitted>>

\* Mutant: the counter wraps within its millisecond.
UuidV7Wraps ==
  IF clock > lastTs
  THEN lastTs' = clock /\ counter' \in Seeds
  ELSE lastTs' = lastTs /\ counter' = (counter + 1) % (CounterMax + 1)

\* A new millisecond reseeds; else the counter goes on, its overflow carried
\* into the millisecond, however far the clock was set back.
UuidV7 ==
  IF clock > lastTs
  THEN lastTs' = clock /\ counter' \in Seeds
  ELSE /\ counter' = (counter + 1) % (CounterMax + 1)
       /\ lastTs' = IF counter' = 0 THEN lastTs + 1 ELSE lastTs

Integrable(frame) == \A e \in frame : deps[e] \subseteq resident \cup frame

\* The row is numbered while the call holds the document (SyncWritePath).  When
\* another call was first nothing is persisted, and the row says nothing.
Commit(c) ==
  LET frame == Head(conn[c].frames) IN
  /\ conn[c].at = "dispatched"
  /\ Integrable(frame)
  /\ UuidV7
  /\ resident' = resident \cup frame
  /\ log' = IF frame \subseteq resident THEN log
             ELSE Append(log, [id |-> <<lastTs', counter'>>, edits |-> frame \ resident])
  /\ Settle(c)
  /\ UNCHANGED <<tabs, cur, bucket, clocks, admitted>>

-----------------------------------------------------------------------------
Tick ==
  /\ forward < MaxForward
  /\ clock' = clock + 1 /\ forward' = forward + 1
  /\ UNCHANGED <<tabs, cur, conn, resident, log, bucket, ids, admitted>>

SetBack ==
  /\ clock > 0
  /\ clock' = clock - 1
  /\ UNCHANGED <<tabs, cur, conn, resident, log, bucket, forward, ids, admitted>>

Next ==
  \/ \E t \in Tabs : Edit(t) \/ Receive(t) \/ Drop(t) \/ Reconnect(t)
  \/ \E c \in Conns : GateFrame(c) \/ Consume(c) \/ Fails(c) \/ Commit(c)
  \/ Tick \/ SetBack

Spec == Init /\ [][Next]_vars

-----------------------------------------------------------------------------
(* Properties *)

\* "B (causally dependent on A via the client's Yjs clock) could clone a
\* resident that lacks uncommitted A and refuse not_integrable" (collab-gate.ts):
\* no call dispatched for a frame ever finds the document without what the
\* frame depends on, through refusals, drops, and chains of dead connections
\* running on beside those of live ones.
FramesIntegrate ==
  \A c \in Conns : conn[c].at = "dispatched" => Integrable(Head(conn[c].frames))

\* The reference definition of a bucket: whatever window since a charge is
\* taken, it admits no more than a burst and what the window earns.  A bucket
\* holds no less (a refused call costs nothing, in whichever of its buckets) and
\* no more (no rate is exceeded): by the wall clock and by the time that really
\* passed, which are the same until the clock is set back.
BucketsFollowReference ==
  \A b \in Buckets :
    LET charges == {i \in DOMAIN admitted : b \in BucketsOf[admitted[i].tab]}
        since(i) == Cardinality({j \in charges : j >= i})
        left(i, earned) == Full(b) + earned - since(i) * Period[b]
        tokens == Refilled(b)
    IN /\ \/ tokens >= Full(b)
          \/ \E i \in charges : tokens >= left(i, clock - admitted[i].clock)
       /\ tokens <= Full(b)
       /\ \A i \in charges : tokens <= left(i, forward - admitted[i].forward)

\* "Intra-process burst monotonicity" (ids/src/index.ts): the rows of the
\* document sort by id in the order they were committed, though the clock is
\* set back and the counter overflows.
Precedes(i, j) == i[1] < j[1] \/ (i[1] = j[1] /\ i[2] < j[2])
IdsAscend == \A i, j \in DOMAIN log : i < j => Precedes(log[i].id, log[j].id)
=============================================================================
