-------------------------- MODULE DispatchProofs --------------------------
(***************************************************************************)
(* The dispatch pipeline keeps the audit log and the state in step.  The   *)
(* argument: an audit id is made while the transaction holds the lock of   *)
(* the row it wrote, so it is above every id of that row in the log, and   *)
(* the log row, the state and the events are committed together.           *)
(***************************************************************************)
EXTENDS Dispatch, TLAPS

USE DEF Move, Answer, Record, AuditFailed, durable, Outcomes, OpenTx, PC,
        Replies, IsRead, Rows, Events
USE NoObjectIsNoObject, BoundAssumption

\* The log of every object is untouched: the log still replays to the state.
LEMMA SameLog ==
  ASSUME ReplayFaithful, history' = history,
         \A o \in Objects : Allowed(o)' = Allowed(o)
  PROVE  ReplayFaithful'
BY DEF ReplayFaithful

\* No row and no event is added: events still follow the state.
LEMMA SameEvents ==
  ASSUME EventsFollowState, history' = history, audit' = audit,
         outbox' = outbox
  PROVE  EventsFollowState'
BY DEF EventsFollowState, RowsOf

\* A commit extends the history of one object and no other.
LEMMA CommitHistory ==
  ASSUME IInv, NEW c \in Calls, pc[c] = "flushed", Commit(c)
  PROVE  /\ object[c] \in Objects
         /\ history' \in [Objects -> Seq(Calls)]
         /\ \A o \in Objects \ {object[c]} : history'[o] = history[o]
         /\ history'[object[c]] = Append(history[object[c]], c)
<1>1. object[c] \in Objects /\ history \in [Objects -> Seq(Calls)]
  BY DEF IInv, TypeOK, CallInv
<1>2. Append(history[object[c]], c) \in Seq(Calls)
  BY <1>1
<1>3. history' = [history EXCEPT ![object[c]] = Append(history[object[c]], c)]
  BY DEF Commit
<1> QED BY <1>1, <1>2, <1>3

\* What Append does to the positions of a sequence.
LEMMA AppendFacts ==
  ASSUME NEW S, NEW s \in Seq(S), NEW x \in S
  PROVE  /\ DOMAIN Append(s, x) = DOMAIN s \cup {Len(s) + 1}
         /\ \A i \in DOMAIN s : Append(s, x)[i] = s[i] /\ i < Len(s) + 1
         /\ Append(s, x)[Len(s) + 1] = x
         /\ DOMAIN s \subseteq Nat /\ Len(s) \in Nat
  OBVIOUS

\* After a commit the log still replays to the state: the new row is the last
\* of its object by id, and the mutation is the last of its history.
LEMMA CommitReplays ==
  ASSUME IInv, NEW c \in Calls, pc[c] = "flushed", Commit(c), object' = object
  PROVE  ReplayFaithful'
<1> DEFINE row == [id |-> rowId[c], call |-> c, outcome |-> "allow"]
           h == history[object[c]]
<1>1. /\ object[c] \in Objects
      /\ \A o \in Objects \ {object[c]} : history'[o] = history[o]
      /\ history'[object[c]] = Append(h, c)
  BY CommitHistory
<1>2. h \in Seq(Calls)
  BY <1>1 DEF IInv, TypeOK
<1>3. audit' = audit \cup {row}
  BY DEF Commit
<1>4. \A o \in Objects \ {object[c]} : Allowed(o)' = Allowed(o)
  BY <1>1, <1>3 DEF Allowed
<1>5. Allowed(object[c])' = Allowed(object[c]) \cup {row}
  BY <1>1, <1>3 DEF Allowed
<1>6. ASSUME NEW o \in Objects, o # object[c]
      PROVE  /\ {r.call : r \in Allowed(o)'}
                  = {history'[o][i] : i \in DOMAIN history'[o]}
             /\ \A q, r \in Allowed(o)', i, j \in DOMAIN history'[o] :
                  q.call = history'[o][i] /\ r.call = history'[o][j]
                    => (q.id < r.id <=> i < j)
  <2>1. history'[o] = history[o] /\ Allowed(o)' = Allowed(o)
    BY <1>1, <1>4, <1>6
  <2>2. /\ {r.call : r \in Allowed(o)}
             = {history[o][i] : i \in DOMAIN history[o]}
        /\ \A q, r \in Allowed(o), i, j \in DOMAIN history[o] :
             q.call = history[o][i] /\ r.call = history[o][j]
               => (q.id < r.id <=> i < j)
    BY DEF IInv, ReplayFaithful
  <2> QED BY <2>1, <2>2
<1>7. ASSUME NEW o \in Objects, o = object[c]
      PROVE  /\ {r.call : r \in Allowed(o)'}
                  = {history'[o][i] : i \in DOMAIN history'[o]}
             /\ \A q, r \in Allowed(o)', i, j \in DOMAIN history'[o] :
                  q.call = history'[o][i] /\ r.call = history'[o][j]
                    => (q.id < r.id <=> i < j)
  <2> DEFINE A == Allowed(o)
             n == Len(h) + 1
             g == Append(h, c)
  <2>1. /\ history'[o] = g /\ Allowed(o)' = A \cup {row}
        /\ history[o] = h
    BY <1>1, <1>5, <1>7
  <2>2. /\ DOMAIN g = DOMAIN h \cup {n}
        /\ \A i \in DOMAIN h : g[i] = h[i] /\ i < n
        /\ g[n] = c
        /\ DOMAIN h \subseteq Nat /\ n \in Nat
    BY <1>2, AppendFacts
  <2>3. /\ {r.call : r \in A} = {h[i] : i \in DOMAIN h}
        /\ \A q, r \in A, i, j \in DOMAIN h :
             q.call = h[i] /\ r.call = h[j] => (q.id < r.id <=> i < j)
    BY <2>1 DEF IInv, ReplayFaithful
  <2>4. /\ \A r \in A : r.call # c /\ r.id < rowId[c] /\ r.id \in Nat
        /\ \A i \in DOMAIN h : h[i] # c
        /\ rowId[c] \in Nat
    BY <1>1, <1>7 DEF IInv, TypeOK, CallInv, IdInv, Allowed
  <2>5. row.call = c /\ row.id = rowId[c]
    OBVIOUS
  <2> HIDE DEF row, A, n, g, h
  <2>6. {r.call : r \in A \cup {row}} = {r.call : r \in A} \cup {c}
    BY <2>5
  <2>7. {g[i] : i \in DOMAIN g} = {h[i] : i \in DOMAIN h} \cup {c}
    BY <2>2
  <2>8. ASSUME NEW q \in A \cup {row}, NEW r \in A \cup {row},
               NEW i \in DOMAIN g, NEW j \in DOMAIN g,
               q.call = g[i], r.call = g[j]
        PROVE  q.id < r.id <=> i < j
    <3>1. CASE q \in A /\ r \in A
      <4>1. i \in DOMAIN h /\ j \in DOMAIN h
        BY <2>2, <2>4, <2>8, <3>1
      <4> QED BY <2>2, <2>3, <2>8, <3>1, <4>1
    <3>2. CASE q \in A /\ r = row
      <4>1. i \in DOMAIN h /\ j = n
        BY <2>2, <2>4, <2>5, <2>8, <3>2
      <4> QED BY <2>2, <2>4, <2>5, <3>2, <4>1
    <3>3. CASE q = row /\ r \in A
      <4>1. i = n /\ j \in DOMAIN h
        BY <2>2, <2>4, <2>5, <2>8, <3>3
      <4> QED BY <2>2, <2>4, <2>5, <3>3, <4>1
    <3>4. CASE q = row /\ r = row
      <4>1. i = n /\ j = n
        BY <2>2, <2>4, <2>5, <2>8, <3>4
      <4> QED BY <2>2, <2>4, <2>5, <3>4, <4>1
    <3> QED BY <3>1, <3>2, <3>3, <3>4
  <2>9. {r.call : r \in A \cup {row}} = {g[i] : i \in DOMAIN g}
    BY <2>3, <2>6, <2>7
  <2> QED BY <2>1, <2>8, <2>9
<1> QED BY <1>6, <1>7 DEF ReplayFaithful

\* A commit adds the mutation to the history, its row and its two events at
\* once, so events still follow the state.
LEMMA CommitEvents ==
  ASSUME IInv, NEW c \in Calls, pc[c] = "flushed", Commit(c), object' = object
  PROVE  EventsFollowState'
<1> DEFINE row == [id |-> rowId[c], call |-> c, outcome |-> "allow"]
<1>1. /\ object[c] \in Objects
      /\ \A o \in Objects \ {object[c]} : history'[o] = history[o]
      /\ history'[object[c]] = Append(history[object[c]], c)
  BY CommitHistory
<1>2. history[object[c]] \in Seq(Calls)
  BY <1>1 DEF IInv, TypeOK
<1>3. \A d \in Calls :
        (\E o \in Objects : \E i \in DOMAIN history'[o] : history'[o][i] = d)
          <=> \/ d = c
              \/ \E o \in Objects : \E i \in DOMAIN history[o] : history[o][i] = d
  <2>1. /\ DOMAIN history'[object[c]] =
             DOMAIN history[object[c]] \cup {Len(history[object[c]]) + 1}
        /\ \A i \in DOMAIN history[object[c]] :
             history'[object[c]][i] = history[object[c]][i]
        /\ history'[object[c]][Len(history[object[c]]) + 1] = c
    BY <1>1, <1>2, AppendFacts
  <2> QED BY SMTT(20), <1>1, <2>1
<1>4. audit' = audit \cup {row} /\ row.call = c
  BY DEF Commit
<1>5. \A d \in Calls : RowsOf(d)' # {} <=> d = c \/ RowsOf(d) # {}
  BY <1>4 DEF RowsOf
<1>6. \A d \in Calls, e \in {"audit.appended", "handler"} :
        [event |-> e, call |-> d] \in outbox'
          <=> d = c \/ [event |-> e, call |-> d] \in outbox
  BY DEF Commit
<1>7. ASSUME NEW d \in Calls
      PROVE  /\ [event |-> "handler", call |-> d] \in outbox' <=>
                  \E o \in Objects : \E i \in DOMAIN history'[o] : history'[o][i] = d
             /\ [event |-> "audit.appended", call |-> d] \in outbox'
                  <=> RowsOf(d)' # {}
  <2>1. /\ [event |-> "handler", call |-> d] \in outbox <=>
             \E o \in Objects : \E i \in DOMAIN history[o] : history[o][i] = d
        /\ [event |-> "audit.appended", call |-> d] \in outbox <=> RowsOf(d) # {}
    BY DEF IInv, EventsFollowState
  <2> QED BY <1>3, <1>5, <1>6, <2>1
<1> QED BY <1>7 DEF EventsFollowState

\* A refusal at the door keeps the invariant.
LEMMA RefuseKeeps ==
  ASSUME IInv, NEW c \in Calls, Refuse(c)
  PROVE  IInv'
<1>1. TypeOK'
  BY DEF IInv, TypeOK, Refuse
<1>2. CallInv'
  BY DEF IInv, TypeOK, CallInv, Refuse
<1>3. LockInv'
  BY DEF IInv, TypeOK, CallInv, LockInv, Refuse
<1>4. IdInv'
  BY DEF IInv, TypeOK, CallInv, LockInv, IdInv, Allowed, Refuse
<1>5. ReplayFaithful'
  <2>1. \A q \in Objects : Allowed(q)' = Allowed(q)
    BY DEF IInv, TypeOK, CallInv, Allowed, Refuse
  <2>2. history' = history
    BY DEF Refuse
  <2> QED BY <2>1, <2>2, SameLog DEF IInv
<1>6. EventsFollowState'
  <2>1. history' = history /\ audit' = audit /\ outbox' = outbox
    BY DEF Refuse
  <2> QED BY <2>1, SameEvents DEF IInv
<1> QED BY <1>1, <1>2, <1>3, <1>4, <1>5, <1>6 DEF IInv

\* A new call keeps the invariant.
LEMMA InvokeKeeps ==
  ASSUME IInv, NEW c \in Calls, NEW o \in Objects \cup {NoObject},
         Invoke(c, o)
  PROVE  IInv'
<1>1. TypeOK'
  BY DEF IInv, TypeOK, Invoke
<1>2. CallInv'
  BY DEF IInv, TypeOK, CallInv, Invoke
<1>3. LockInv'
  BY DEF IInv, TypeOK, CallInv, LockInv, Invoke
<1>4. IdInv'
  BY DEF IInv, TypeOK, CallInv, LockInv, IdInv, Allowed, Invoke
<1>5. ReplayFaithful'
  <2>1. \A q \in Objects : Allowed(q)' = Allowed(q)
    BY DEF IInv, TypeOK, CallInv, Allowed, Invoke
  <2>2. history' = history
    BY DEF Invoke
  <2> QED BY <2>1, <2>2, SameLog DEF IInv
<1>6. EventsFollowState'
  <2>1. history' = history /\ audit' = audit /\ outbox' = outbox
    BY DEF Invoke
  <2> QED BY <2>1, SameEvents DEF IInv
<1> QED BY <1>1, <1>2, <1>3, <1>4, <1>5, <1>6 DEF IInv

\* An input that does not parse keeps the invariant.
LEMMA InvalidInputKeeps ==
  ASSUME IInv, NEW c \in Calls, InvalidInput(c)
  PROVE  IInv'
<1>1. TypeOK'
  BY DEF IInv, TypeOK, InvalidInput
<1>2. CallInv'
  BY DEF IInv, TypeOK, CallInv, InvalidInput
<1>3. LockInv'
  BY DEF IInv, TypeOK, CallInv, LockInv, InvalidInput
<1>4. IdInv'
  BY DEF IInv, TypeOK, CallInv, LockInv, IdInv, Allowed, InvalidInput
<1>5. ReplayFaithful'
  <2>1. \A q \in Objects : Allowed(q)' = Allowed(q)
    BY DEF IInv, TypeOK, CallInv, Allowed, InvalidInput
  <2>2. history' = history
    BY DEF InvalidInput
  <2> QED BY <2>1, <2>2, SameLog DEF IInv
<1>6. EventsFollowState'
  <2>1. history' = history /\ audit' = audit /\ outbox' = outbox
    BY DEF InvalidInput
  <2> QED BY <2>1, SameEvents DEF IInv
<1> QED BY <1>1, <1>2, <1>3, <1>4, <1>5, <1>6 DEF IInv

\* The gate allowing keeps the invariant.
LEMMA GateAllowsKeeps ==
  ASSUME IInv, NEW c \in Calls, GateAllows(c)
  PROVE  IInv'
<1>1. TypeOK'
  BY DEF IInv, TypeOK, GateAllows
<1>2. CallInv'
  BY DEF IInv, TypeOK, CallInv, GateAllows
<1>3. LockInv'
  BY DEF IInv, TypeOK, CallInv, LockInv, GateAllows
<1>4. IdInv'
  BY DEF IInv, TypeOK, CallInv, LockInv, IdInv, Allowed, GateAllows
<1>5. ReplayFaithful'
  <2>1. \A q \in Objects : Allowed(q)' = Allowed(q)
    BY DEF IInv, TypeOK, CallInv, Allowed, GateAllows
  <2>2. history' = history
    BY DEF GateAllows
  <2> QED BY <2>1, <2>2, SameLog DEF IInv
<1>6. EventsFollowState'
  <2>1. history' = history /\ audit' = audit /\ outbox' = outbox
    BY DEF GateAllows
  <2> QED BY <2>1, SameEvents DEF IInv
<1> QED BY <1>1, <1>2, <1>3, <1>4, <1>5, <1>6 DEF IInv

\* The gate denying keeps the invariant.
LEMMA GateDeniesKeeps ==
  ASSUME IInv, NEW c \in Calls, GateDenies(c)
  PROVE  IInv'
<1>1. TypeOK'
  BY DEF IInv, TypeOK, GateDenies
<1>2. CallInv'
  BY DEF IInv, TypeOK, CallInv, GateDenies
<1>3. LockInv'
  BY DEF IInv, TypeOK, CallInv, LockInv, GateDenies
<1>4. IdInv'
  BY DEF IInv, TypeOK, CallInv, LockInv, IdInv, Allowed, GateDenies
<1>5. ReplayFaithful'
  <2>1. \A q \in Objects : Allowed(q)' = Allowed(q)
    BY DEF IInv, TypeOK, CallInv, Allowed, GateDenies
  <2>2. history' = history
    BY DEF GateDenies
  <2> QED BY <2>1, <2>2, SameLog DEF IInv
<1>6. EventsFollowState'
  <2>1. history' = history /\ audit' = audit /\ outbox' = outbox
    BY DEF GateDenies
  <2> QED BY <2>1, SameEvents DEF IInv
<1> QED BY <1>1, <1>2, <1>3, <1>4, <1>5, <1>6 DEF IInv

\* The gate throwing keeps the invariant.
LEMMA GateThrowsKeeps ==
  ASSUME IInv, NEW c \in Calls, GateThrows(c)
  PROVE  IInv'
<1>1. TypeOK'
  BY DEF IInv, TypeOK, GateThrows
<1>2. CallInv'
  BY DEF IInv, TypeOK, CallInv, GateThrows
<1>3. LockInv'
  BY DEF IInv, TypeOK, CallInv, LockInv, GateThrows
<1>4. IdInv'
  BY DEF IInv, TypeOK, CallInv, LockInv, IdInv, Allowed, GateThrows
<1>5. ReplayFaithful'
  <2>1. \A q \in Objects : Allowed(q)' = Allowed(q)
    BY DEF IInv, TypeOK, CallInv, Allowed, GateThrows
  <2>2. history' = history
    BY DEF GateThrows
  <2> QED BY <2>1, <2>2, SameLog DEF IInv
<1>6. EventsFollowState'
  <2>1. history' = history /\ audit' = audit /\ outbox' = outbox
    BY DEF GateThrows
  <2> QED BY <2>1, SameEvents DEF IInv
<1> QED BY <1>1, <1>2, <1>3, <1>4, <1>5, <1>6 DEF IInv

\* A read returning keeps the invariant.
LEMMA ReadReturnsKeeps ==
  ASSUME IInv, NEW c \in Calls, ReadReturns(c)
  PROVE  IInv'
<1>1. TypeOK'
  BY DEF IInv, TypeOK, ReadReturns
<1>2. CallInv'
  BY DEF IInv, TypeOK, CallInv, ReadReturns
<1>3. LockInv'
  BY DEF IInv, TypeOK, CallInv, LockInv, ReadReturns
<1>4. IdInv'
  BY DEF IInv, TypeOK, CallInv, LockInv, IdInv, Allowed, ReadReturns
<1>5. ReplayFaithful'
  <2>1. \A q \in Objects : Allowed(q)' = Allowed(q)
    BY DEF IInv, TypeOK, CallInv, Allowed, ReadReturns
  <2>2. history' = history
    BY DEF ReadReturns
  <2> QED BY <2>1, <2>2, SameLog DEF IInv
<1>6. EventsFollowState'
  <2>1. history' = history /\ audit' = audit /\ outbox' = outbox
    BY DEF ReadReturns
  <2> QED BY <2>1, SameEvents DEF IInv
<1> QED BY <1>1, <1>2, <1>3, <1>4, <1>5, <1>6 DEF IInv

\* A read throwing keeps the invariant.
LEMMA ReadThrowsKeeps ==
  ASSUME IInv, NEW c \in Calls, NEW x \in {"deny", "error"},
         ReadThrows(c, x)
  PROVE  IInv'
<1>1. TypeOK'
  BY DEF IInv, TypeOK, ReadThrows
<1>2. CallInv'
  BY DEF IInv, TypeOK, CallInv, ReadThrows
<1>3. LockInv'
  BY DEF IInv, TypeOK, CallInv, LockInv, ReadThrows
<1>4. IdInv'
  BY DEF IInv, TypeOK, CallInv, LockInv, IdInv, Allowed, ReadThrows
<1>5. ReplayFaithful'
  <2>1. \A q \in Objects : Allowed(q)' = Allowed(q)
    BY DEF IInv, TypeOK, CallInv, Allowed, ReadThrows
  <2>2. history' = history
    BY DEF ReadThrows
  <2> QED BY <2>1, <2>2, SameLog DEF IInv
<1>6. EventsFollowState'
  <2>1. history' = history /\ audit' = audit /\ outbox' = outbox
    BY DEF ReadThrows
  <2> QED BY <2>1, SameEvents DEF IInv
<1> QED BY <1>1, <1>2, <1>3, <1>4, <1>5, <1>6 DEF IInv

\* Opening the transaction keeps the invariant.
LEMMA BeginTxKeeps ==
  ASSUME IInv, NEW c \in Calls, BeginTx(c)
  PROVE  IInv'
<1>1. TypeOK'
  BY DEF IInv, TypeOK, BeginTx
<1>2. CallInv'
  BY DEF IInv, TypeOK, CallInv, BeginTx
<1>3. LockInv'
  BY DEF IInv, TypeOK, CallInv, LockInv, BeginTx
<1>4. IdInv'
  BY DEF IInv, TypeOK, CallInv, LockInv, IdInv, Allowed, BeginTx
<1>5. ReplayFaithful'
  <2>1. \A q \in Objects : Allowed(q)' = Allowed(q)
    BY DEF IInv, TypeOK, CallInv, Allowed, BeginTx
  <2>2. history' = history
    BY DEF BeginTx
  <2> QED BY <2>1, <2>2, SameLog DEF IInv
<1>6. EventsFollowState'
  <2>1. history' = history /\ audit' = audit /\ outbox' = outbox
    BY DEF BeginTx
  <2> QED BY <2>1, SameEvents DEF IInv
<1> QED BY <1>1, <1>2, <1>3, <1>4, <1>5, <1>6 DEF IInv

\* The handler writing its row: the row was not locked, so nobody else has
\* written it. It keeps the invariant.
LEMMA HandlerReturnsKeeps ==
  ASSUME IInv, NEW c \in Calls, HandlerReturns(c)
  PROVE  IInv'
<1>1. TypeOK'
  BY DEF IInv, TypeOK, HandlerReturns
<1>2. CallInv'
  BY DEF IInv, TypeOK, CallInv, HandlerReturns
<1>3. LockInv'
  BY DEF IInv, TypeOK, CallInv, LockInv, HandlerReturns, RowLocked
<1>4. IdInv'
  BY DEF IInv, TypeOK, CallInv, LockInv, IdInv, Allowed, HandlerReturns
<1>5. ReplayFaithful'
  <2>1. \A q \in Objects : Allowed(q)' = Allowed(q)
    BY DEF IInv, TypeOK, CallInv, Allowed, HandlerReturns
  <2>2. history' = history
    BY DEF HandlerReturns
  <2> QED BY <2>1, <2>2, SameLog DEF IInv
<1>6. EventsFollowState'
  <2>1. history' = history /\ audit' = audit /\ outbox' = outbox
    BY DEF HandlerReturns
  <2> QED BY <2>1, SameEvents DEF IInv
<1> QED BY <1>1, <1>2, <1>3, <1>4, <1>5, <1>6 DEF IInv

\* Making the id of the allow row, above every id there is, keeps the invariant.
LEMMA AuditAllowKeeps ==
  ASSUME IInv, NEW c \in Calls, AuditAllow(c)
  PROVE  IInv'
<1>1. TypeOK'
  BY DEF IInv, TypeOK, AuditAllow
<1>2. CallInv'
  BY DEF IInv, TypeOK, CallInv, AuditAllow
<1>3. LockInv'
  BY DEF IInv, TypeOK, CallInv, LockInv, AuditAllow
<1>4. IdInv'
  BY DEF IInv, TypeOK, CallInv, LockInv, IdInv, Allowed, AuditAllow
<1>5. ReplayFaithful'
  <2>1. \A q \in Objects : Allowed(q)' = Allowed(q)
    BY DEF IInv, TypeOK, CallInv, Allowed, AuditAllow
  <2>2. history' = history
    BY DEF AuditAllow
  <2> QED BY <2>1, <2>2, SameLog DEF IInv
<1>6. EventsFollowState'
  <2>1. history' = history /\ audit' = audit /\ outbox' = outbox
    BY DEF AuditAllow
  <2> QED BY <2>1, SameEvents DEF IInv
<1> QED BY <1>1, <1>2, <1>3, <1>4, <1>5, <1>6 DEF IInv

\* Flushing the outbox queue keeps the invariant.
LEMMA FlushOutboxKeeps ==
  ASSUME IInv, NEW c \in Calls, FlushOutbox(c)
  PROVE  IInv'
<1>1. TypeOK'
  BY DEF IInv, TypeOK, FlushOutbox
<1>2. CallInv'
  BY DEF IInv, TypeOK, CallInv, FlushOutbox
<1>3. LockInv'
  BY DEF IInv, TypeOK, CallInv, LockInv, FlushOutbox
<1>4. IdInv'
  BY DEF IInv, TypeOK, CallInv, LockInv, IdInv, Allowed, FlushOutbox
<1>5. ReplayFaithful'
  <2>1. \A q \in Objects : Allowed(q)' = Allowed(q)
    BY DEF IInv, TypeOK, CallInv, Allowed, FlushOutbox
  <2>2. history' = history
    BY DEF FlushOutbox
  <2> QED BY <2>1, <2>2, SameLog DEF IInv
<1>6. EventsFollowState'
  <2>1. history' = history /\ audit' = audit /\ outbox' = outbox
    BY DEF FlushOutbox
  <2> QED BY <2>1, SameEvents DEF IInv
<1> QED BY <1>1, <1>2, <1>3, <1>4, <1>5, <1>6 DEF IInv

\* The commit keeps the invariant.
LEMMA CommitTxKeeps ==
  ASSUME IInv, NEW c \in Calls, CommitTx(c)
  PROVE  IInv'
<1>0. /\ pc[c] = "flushed" /\ Commit(c)
      /\ UNCHANGED <<object, base, rowId, nextId, reply, crashes>>
  BY DEF CommitTx
<1>1. TypeOK'
  <2>1. history' \in [Objects -> Seq(Calls)]
    BY <1>0, CommitHistory
  <2>2. audit' \subseteq Rows /\ outbox' \subseteq Events
    BY <1>0 DEF IInv, TypeOK, Commit
  <2> QED BY <2>1, <2>2 DEF IInv, TypeOK, CommitTx
<1>2. CallInv'
  <2>1. /\ object[c] \in Objects /\ history[object[c]] \in Seq(Calls)
        /\ \A o \in Objects \ {object[c]} : history'[o] = history[o]
        /\ history'[object[c]] = Append(history[object[c]], c)
    BY <1>0, CommitHistory DEF IInv, TypeOK
  <2>2. \A o \in Objects : \A i \in DOMAIN history'[o] :
          history'[o][i] = c
            \/ (i \in DOMAIN history[o] /\ history'[o][i] = history[o][i])
    BY <2>1, AppendFacts
  <2>3. \A r \in audit' : r.call = c \/ r \in audit
    BY <1>0 DEF Commit
  <2> QED BY <2>2, <2>3 DEF IInv, TypeOK, CallInv, CommitTx
<1>3. LockInv'
  BY DEF IInv, TypeOK, CallInv, LockInv, CommitTx, Commit
<1>4. IdInv'
  BY DEF IInv, TypeOK, CallInv, LockInv, IdInv, Allowed, CommitTx, Commit
<1>5. ReplayFaithful'
  BY <1>0, CommitReplays
<1>6. EventsFollowState'
  BY <1>0, CommitEvents
<1> QED BY <1>1, <1>2, <1>3, <1>4, <1>5, <1>6 DEF IInv

\* A commit whose acknowledgement is lost keeps the invariant.
LEMMA CommitUnacknowledgedKeeps ==
  ASSUME IInv, NEW c \in Calls, CommitUnacknowledged(c)
  PROVE  IInv'
<1>0. /\ pc[c] = "flushed" /\ Commit(c)
      /\ UNCHANGED <<object, base, rowId, nextId, reply, crashes>>
  BY DEF CommitUnacknowledged
<1>1. TypeOK'
  <2>1. history' \in [Objects -> Seq(Calls)]
    BY <1>0, CommitHistory
  <2>2. audit' \subseteq Rows /\ outbox' \subseteq Events
    BY <1>0 DEF IInv, TypeOK, Commit
  <2> QED BY <2>1, <2>2 DEF IInv, TypeOK, CommitUnacknowledged
<1>2. CallInv'
  <2>1. /\ object[c] \in Objects /\ history[object[c]] \in Seq(Calls)
        /\ \A o \in Objects \ {object[c]} : history'[o] = history[o]
        /\ history'[object[c]] = Append(history[object[c]], c)
    BY <1>0, CommitHistory DEF IInv, TypeOK
  <2>2. \A o \in Objects : \A i \in DOMAIN history'[o] :
          history'[o][i] = c
            \/ (i \in DOMAIN history[o] /\ history'[o][i] = history[o][i])
    BY <2>1, AppendFacts
  <2>3. \A r \in audit' : r.call = c \/ r \in audit
    BY <1>0 DEF Commit
  <2> QED BY <2>2, <2>3 DEF IInv, TypeOK, CallInv, CommitUnacknowledged
<1>3. LockInv'
  BY DEF IInv, TypeOK, CallInv, LockInv, CommitUnacknowledged, Commit
<1>4. IdInv'
  BY DEF IInv, TypeOK, CallInv, LockInv, IdInv, Allowed,
         CommitUnacknowledged, Commit
<1>5. ReplayFaithful'
  BY <1>0, CommitReplays
<1>6. EventsFollowState'
  BY <1>0, CommitEvents
<1> QED BY <1>1, <1>2, <1>3, <1>4, <1>5, <1>6 DEF IInv

\* Returning keeps the invariant.
LEMMA ReturnKeeps ==
  ASSUME IInv, NEW c \in Calls, Return(c)
  PROVE  IInv'
<1>1. TypeOK'
  BY DEF IInv, TypeOK, Return
<1>2. CallInv'
  BY DEF IInv, TypeOK, CallInv, Return
<1>3. LockInv'
  BY DEF IInv, TypeOK, CallInv, LockInv, Return
<1>4. IdInv'
  BY DEF IInv, TypeOK, CallInv, LockInv, IdInv, Allowed, Return
<1>5. ReplayFaithful'
  <2>1. \A q \in Objects : Allowed(q)' = Allowed(q)
    BY DEF IInv, TypeOK, CallInv, Allowed, Return
  <2>2. history' = history
    BY DEF Return
  <2> QED BY <2>1, <2>2, SameLog DEF IInv
<1>6. EventsFollowState'
  <2>1. history' = history /\ audit' = audit /\ outbox' = outbox
    BY DEF Return
  <2> QED BY <2>1, SameEvents DEF IInv
<1> QED BY <1>1, <1>2, <1>3, <1>4, <1>5, <1>6 DEF IInv

\* A rollback keeps the invariant.
LEMMA HandlerThrowsKeeps ==
  ASSUME IInv, NEW c \in Calls, NEW x \in {"deny", "error"},
         HandlerThrows(c, x)
  PROVE  IInv'
<1>1. TypeOK'
  BY DEF IInv, TypeOK, HandlerThrows
<1>2. CallInv'
  BY DEF IInv, TypeOK, CallInv, HandlerThrows
<1>3. LockInv'
  BY DEF IInv, TypeOK, CallInv, LockInv, HandlerThrows
<1>4. IdInv'
  BY DEF IInv, TypeOK, CallInv, LockInv, IdInv, Allowed, HandlerThrows
<1>5. ReplayFaithful'
  <2>1. \A q \in Objects : Allowed(q)' = Allowed(q)
    BY DEF IInv, TypeOK, CallInv, Allowed, HandlerThrows
  <2>2. history' = history
    BY DEF HandlerThrows
  <2> QED BY <2>1, <2>2, SameLog DEF IInv
<1>6. EventsFollowState'
  <2>1. history' = history /\ audit' = audit /\ outbox' = outbox
    BY DEF HandlerThrows
  <2> QED BY <2>1, SameEvents DEF IInv
<1> QED BY <1>1, <1>2, <1>3, <1>4, <1>5, <1>6 DEF IInv

\* The audit transaction of a read, a denial or an error keeps the invariant.
LEMMA WriteAuditKeeps ==
  ASSUME IInv, NEW c \in Calls, WriteAudit(c)
  PROVE  IInv'
<1>1. TypeOK'
  BY DEF IInv, TypeOK, WriteAudit, AppendAudit
<1>2. CallInv'
  BY DEF IInv, TypeOK, CallInv, WriteAudit, AppendAudit
<1>3. LockInv'
  BY DEF IInv, TypeOK, CallInv, LockInv, WriteAudit, AppendAudit
<1>4. IdInv'
  BY DEF IInv, TypeOK, CallInv, LockInv, IdInv, Allowed, WriteAudit, AppendAudit
<1>5. ReplayFaithful'
  <2>1. \A q \in Objects : Allowed(q)' = Allowed(q)
    BY DEF IInv, TypeOK, CallInv, Allowed, WriteAudit, AppendAudit
  <2>2. history' = history
    BY DEF WriteAudit
  <2> QED BY <2>1, <2>2, SameLog DEF IInv
<1>6. EventsFollowState'
  <2> DEFINE row == [id |-> nextId, call |-> c, outcome |-> outcome[c]]
  <2>1. /\ audit' = audit \cup {row} /\ row.call = c
        /\ outbox' = outbox \cup {[event |-> "audit.appended", call |-> c]}
        /\ history' = history
    BY DEF WriteAudit, AppendAudit
  <2>2. \A d \in Calls : RowsOf(d)' # {} <=> d = c \/ RowsOf(d) # {}
    BY <2>1 DEF RowsOf
  <2>3. \A d \in Calls :
          /\ [event |-> "audit.appended", call |-> d] \in outbox'
               <=> d = c \/ [event |-> "audit.appended", call |-> d] \in outbox
          /\ [event |-> "handler", call |-> d] \in outbox'
               <=> [event |-> "handler", call |-> d] \in outbox
    BY <2>1
  <2> QED BY <2>1, <2>2, <2>3 DEF IInv, EventsFollowState
<1> QED BY <1>1, <1>2, <1>3, <1>4, <1>5, <1>6 DEF IInv

\* A failing audit transaction keeps the invariant.
LEMMA AuditThrowsKeeps ==
  ASSUME IInv, NEW c \in Calls, AuditThrows(c)
  PROVE  IInv'
<1>1. TypeOK'
  BY DEF IInv, TypeOK, AuditThrows
<1>2. CallInv'
  BY DEF IInv, TypeOK, CallInv, AuditThrows
<1>3. LockInv'
  <2>1. \A d \in Calls : pc'[d] \in {"written", "audited", "flushed"}
                          => pc[d] = pc'[d]
    <3> SUFFICES ASSUME NEW d \in Calls,
                        pc'[d] \in {"written", "audited", "flushed"}
                 PROVE  pc[d] = pc'[d]
      OBVIOUS
    <3>1. pc \in [Calls -> PC]
      BY DEF IInv, TypeOK
    <3>2. CASE outcome[c] = "allow"
      BY <3>1, <3>2 DEF AuditThrows, Record, Move
    <3>3. CASE outcome[c] # "allow"
      BY <3>1, <3>3 DEF AuditThrows, Answer, Move
    <3> QED BY <3>2, <3>3
  <2>2. object' = object
    BY DEF AuditThrows
  <2> QED BY <2>1, <2>2 DEF IInv, LockInv
<1>4. IdInv'
  BY DEF IInv, TypeOK, CallInv, LockInv, IdInv, Allowed, AuditThrows
<1>5. ReplayFaithful'
  <2>1. \A q \in Objects : Allowed(q)' = Allowed(q)
    BY DEF IInv, TypeOK, CallInv, Allowed, AuditThrows
  <2>2. history' = history
    BY DEF AuditThrows
  <2> QED BY <2>1, <2>2, SameLog DEF IInv
<1>6. EventsFollowState'
  <2>1. history' = history /\ audit' = audit /\ outbox' = outbox
    BY DEF AuditThrows
  <2> QED BY <2>1, SameEvents DEF IInv
<1> QED BY <1>1, <1>2, <1>3, <1>4, <1>5, <1>6 DEF IInv

\* An audit transaction whose acknowledgement is lost keeps the invariant.
LEMMA AuditUnacknowledgedKeeps ==
  ASSUME IInv, NEW c \in Calls, AuditUnacknowledged(c)
  PROVE  IInv'
<1>1. TypeOK'
  <2>1. pc' \in [Calls -> PC] /\ outcome' \in [Calls -> Outcomes]
        /\ reply' \in [Calls -> Replies]
    <3>1. CASE outcome[c] = "allow"
      BY <3>1 DEF IInv, TypeOK, AuditUnacknowledged
    <3>2. CASE outcome[c] # "allow"
      BY <3>2 DEF IInv, TypeOK, AuditUnacknowledged
    <3> QED BY <3>1, <3>2
  <2>2. audit' \subseteq Rows /\ outbox' \subseteq Events /\ nextId' \in Nat \ {0}
        /\ lost' \subseteq Calls
    BY DEF IInv, TypeOK, AuditUnacknowledged, AppendAudit
  <2>3. UNCHANGED <<object, base, rowId, history, crashes>>
    BY DEF AuditUnacknowledged
  <2> QED BY <2>1, <2>2, <2>3 DEF IInv, TypeOK
<1>2. CallInv'
  BY DEF IInv, TypeOK, CallInv, AuditUnacknowledged, AppendAudit
<1>3. LockInv'
  <2>1. \A d \in Calls : pc'[d] \in {"written", "audited", "flushed"}
                          => pc[d] = pc'[d]
    <3> SUFFICES ASSUME NEW d \in Calls,
                        pc'[d] \in {"written", "audited", "flushed"}
                 PROVE  pc[d] = pc'[d]
      OBVIOUS
    <3>1. pc \in [Calls -> PC]
      BY DEF IInv, TypeOK
    <3>2. CASE outcome[c] = "allow"
      BY <3>1, <3>2 DEF AuditUnacknowledged, Record, Move
    <3>3. CASE outcome[c] # "allow"
      BY <3>1, <3>3 DEF AuditUnacknowledged, Answer, Move
    <3> QED BY <3>2, <3>3
  <2>2. object' = object
    BY DEF AuditUnacknowledged
  <2> QED BY <2>1, <2>2 DEF IInv, LockInv
<1>4. \A q \in Objects : Allowed(q)' = Allowed(q)
  BY DEF IInv, TypeOK, CallInv, Allowed, AuditUnacknowledged, AppendAudit
<1>5. IdInv'
  <2>1. /\ \A d \in Calls : pc'[d] \in {"audited", "flushed"} => pc'[d] = pc[d]
        /\ rowId' = rowId /\ object' = object
    <3>1. pc \in [Calls -> PC]
      BY DEF IInv, TypeOK
    <3>2. CASE outcome[c] = "allow"
      BY <3>1, <3>2 DEF AuditUnacknowledged, Record, Move
    <3>3. CASE outcome[c] # "allow"
      BY <3>1, <3>3 DEF AuditUnacknowledged, Answer, Move
    <3> QED BY <3>2, <3>3
  <2>2. audit' = audit \cup {[id |-> nextId, call |-> c, outcome |-> outcome[c]]}
        /\ nextId' = nextId + 1 /\ pc[c] = "auditing"
    BY DEF AuditUnacknowledged, AppendAudit
  <2>3. \A d \in Calls : pc'[d] \in {"audited", "flushed"} => Allowed(object[d])' = Allowed(object[d])
    BY <1>4, <2>1 DEF IInv, CallInv
  <2> QED BY <2>1, <2>2, <2>3 DEF IInv, TypeOK, IdInv
<1>6. ReplayFaithful'
  <2>1. history' = history
    BY DEF AuditUnacknowledged
  <2> QED BY <1>4, <2>1, SameLog DEF IInv
<1>7. EventsFollowState'
  <2> DEFINE row == [id |-> nextId, call |-> c, outcome |-> outcome[c]]
  <2>1. /\ audit' = audit \cup {row} /\ row.call = c
        /\ outbox' = outbox \cup {[event |-> "audit.appended", call |-> c]}
        /\ history' = history
    BY DEF AuditUnacknowledged, AppendAudit
  <2>2. \A d \in Calls : RowsOf(d)' # {} <=> d = c \/ RowsOf(d) # {}
    BY <2>1 DEF RowsOf
  <2>3. \A d \in Calls :
          /\ [event |-> "audit.appended", call |-> d] \in outbox'
               <=> d = c \/ [event |-> "audit.appended", call |-> d] \in outbox
          /\ [event |-> "handler", call |-> d] \in outbox'
               <=> [event |-> "handler", call |-> d] \in outbox
    BY <2>1
  <2> QED BY <2>1, <2>2, <2>3 DEF IInv, EventsFollowState
<1> QED BY <1>1, <1>2, <1>3, <1>5, <1>6, <1>7 DEF IInv

\* A restart keeps the invariant.
LEMMA CrashKeeps ==
  ASSUME IInv, Crash
  PROVE  IInv'
<1>1. TypeOK'
  BY DEF IInv, TypeOK, Crash
<1>2. CallInv'
  BY DEF IInv, TypeOK, CallInv, Crash
<1>3. LockInv'
  BY DEF IInv, TypeOK, CallInv, LockInv, Crash
<1>4. IdInv'
  BY DEF IInv, TypeOK, CallInv, LockInv, IdInv, Allowed, Crash
<1>5. ReplayFaithful'
  <2>1. \A q \in Objects : Allowed(q)' = Allowed(q)
    BY DEF IInv, TypeOK, CallInv, Allowed, Crash
  <2>2. history' = history
    BY DEF Crash
  <2> QED BY <2>1, <2>2, SameLog DEF IInv
<1>6. EventsFollowState'
  <2>1. history' = history /\ audit' = audit /\ outbox' = outbox
    BY DEF Crash
  <2> QED BY <2>1, SameEvents DEF IInv
<1> QED BY <1>1, <1>2, <1>3, <1>4, <1>5, <1>6 DEF IInv

\* A stuttering step keeps the invariant.
LEMMA StutterKeeps ==
  ASSUME IInv, UNCHANGED vars
  PROVE  IInv'
<1>1. TypeOK'
  BY DEF IInv, vars, TypeOK
<1>2. CallInv'
  BY DEF IInv, vars, CallInv
<1>3. LockInv'
  BY DEF IInv, vars, LockInv
<1>4. \A o : Allowed(o)' = Allowed(o)
  BY DEF vars, Allowed
<1>5. IdInv'
  BY <1>4 DEF IInv, vars, IdInv
<1>6. ReplayFaithful'
  BY <1>4 DEF IInv, vars, ReplayFaithful
<1>7. EventsFollowState'
  <2>1. history' = history /\ audit' = audit /\ outbox' = outbox
    BY DEF vars
  <2> QED BY <2>1, SameEvents DEF IInv
<1> QED BY <1>1, <1>2, <1>3, <1>5, <1>6, <1>7 DEF IInv

\* The invariant holds initially.
LEMMA InitEstablishes == Init => IInv
<1> SUFFICES ASSUME Init PROVE IInv
  OBVIOUS
<1>1. TypeOK
  <2>1. <<>> \in Seq(Calls)
    OBVIOUS
  <2> QED BY <2>1 DEF Init, TypeOK
<1>2. CallInv /\ LockInv /\ IdInv
  BY DEF Init, CallInv, LockInv, IdInv, Allowed
<1>3. ReplayFaithful
  BY DEF Init, ReplayFaithful, Allowed
<1>4. EventsFollowState
  BY DEF Init, EventsFollowState, RowsOf
<1> QED BY <1>1, <1>2, <1>3, <1>4 DEF IInv

\* IInv is an inductive invariant of the pipeline, whatever throws, whatever
\* acknowledgement is lost and wherever the process dies.
THEOREM Inductive == Spec => []IInv
<1>1. IInv /\ [Next]_vars => IInv'
  <2> SUFFICES ASSUME IInv, [Next]_vars PROVE IInv'
    OBVIOUS
  <2>1. ASSUME NEW c \in Calls, Refuse(c) \/ InvalidInput(c)
        PROVE  IInv'
    BY <2>1, RefuseKeeps, InvalidInputKeeps
  <2>2. ASSUME NEW c \in Calls, Step(c)
        PROVE  IInv'
    BY <2>2, GateAllowsKeeps, GateDeniesKeeps, GateThrowsKeeps,
       ReadReturnsKeeps, BeginTxKeeps, HandlerReturnsKeeps, AuditAllowKeeps,
       FlushOutboxKeeps, CommitTxKeeps, CommitUnacknowledgedKeeps,
       ReturnKeeps, WriteAuditKeeps, AuditThrowsKeeps,
       AuditUnacknowledgedKeeps, ReadThrowsKeeps, HandlerThrowsKeeps
    DEF Step
  <2>3. ASSUME NEW c \in Calls, NEW o \in Objects \cup {NoObject}, Invoke(c, o)
        PROVE  IInv'
    BY <2>3, InvokeKeeps
  <2>4. CASE Crash
    BY <2>4, CrashKeeps
  <2>5. CASE Idle \/ UNCHANGED vars
    BY <2>5, StutterKeeps DEF Idle
  <2> QED BY <2>1, <2>2, <2>3, <2>4, <2>5 DEF Next
<1> QED BY <1>1, InitEstablishes, PTL DEF Spec

\* The audit log alone reconstructs the state, in commit order.
THEOREM AuditReplays == Spec => []ReplayFaithful
<1>1. IInv => ReplayFaithful
  BY DEF IInv
<1> QED BY <1>1, Inductive, PTL

\* Outbox events are committed with what caused them, and only then.
THEOREM EventsFollow == Spec => []EventsFollowState
<1>1. IInv => EventsFollowState
  BY DEF IInv
<1> QED BY <1>1, Inductive, PTL

-----------------------------------------------------------------------------
(* What the caller is told *)

\* What AnswerInv and ReplyIsAudited say of one call.
AnswerAt(c) ==
  /\ reply[c] # "none" => pc[c] = "replied"
  /\ pc[c] = "auditing" /\ c \notin lost => RowsOf(c) = {}
  /\ pc[c] = "committed" =>
       \E r \in audit : RowsOf(c) = {r} /\ r.outcome = "allow"
  /\ reply[c] \in Outcomes => \E r \in RowsOf(c) : r.outcome = reply[c]
  /\ c \notin lost =>
       /\ reply[c] \in Outcomes => \E r \in audit : RowsOf(c) = {r}
       /\ reply[c] \in {"refused", "broken"} => RowsOf(c) = {}

\* The two invariants together, call by call.
LEMMA AnswerByCall ==
  (AnswerInv /\ ReplyIsAudited) <=> \A c \in Calls : AnswerAt(c)
BY DEF AnswerInv, ReplyIsAudited, AnswerAt

\* A call keeps what is true of it as long as its place, its reply and its
\* rows are the same.
LEMMA AnswerKept ==
  ASSUME NEW d \in Calls, AnswerAt(d), pc'[d] = pc[d], reply'[d] = reply[d],
         RowsOf(d)' = RowsOf(d), d \in lost' <=> d \in lost
  PROVE  AnswerAt(d)'
<1>1. \A r : RowsOf(d) = {r} => r \in audit'
  BY DEF RowsOf
<1> QED BY <1>1 DEF AnswerAt

\* A call that has its place in front of the audit row has no row yet.
LEMMA NoRowYet ==
  ASSUME IInv, NEW c \in Calls,
         pc[c] \in OpenTx \cup {"idle", "gate", "begin", "reading"}
  PROVE  RowsOf(c) = {}
BY DEF IInv, CallInv, RowsOf

\* A step of one call that writes no audit row keeps the answers of the rest.
LEMMA QuietAnswers ==
  ASSUME \A d \in Calls : AnswerAt(d), NEW c \in Calls, audit' = audit, lost' = lost,
         \A d \in Calls \ {c} : pc'[d] = pc[d] /\ reply'[d] = reply[d],
         AnswerAt(c)'
  PROVE  \A d \in Calls : AnswerAt(d)'
<1> SUFFICES ASSUME NEW d \in Calls, d # c PROVE AnswerAt(d)'
  OBVIOUS
<1>1. RowsOf(d)' = RowsOf(d)
  BY DEF RowsOf
<1> QED BY <1>1, AnswerKept

\* A refusal keeps the answers.
LEMMA RefuseAnswers ==
  ASSUME IInv, \A d \in Calls : AnswerAt(d), NEW c \in Calls,
         Refuse(c)
  PROVE  \A d \in Calls : AnswerAt(d)'
<1>1. /\ pc \in [Calls -> PC]
      /\ reply \in [Calls -> Replies]
      /\ outcome \in [Calls -> Outcomes]
  BY DEF IInv, TypeOK
<1>2. audit' = audit /\ lost' = lost /\ RowsOf(c)' = RowsOf(c)
  BY DEF Refuse, durable, RowsOf
<1>3. \A d \in Calls \ {c} : pc'[d] = pc[d] /\ reply'[d] = reply[d]
  BY <1>1 DEF Refuse, Move, Answer, Record
<1>4. AnswerAt(c)'
  <2>1. AnswerAt(c) /\ (pc[c] \in
            OpenTx \cup {"idle", "gate", "begin", "reading"} => RowsOf(c) = {})
    BY NoRowYet
  <2> QED BY <1>1, <1>2, <2>1
          DEF Refuse, Move, Answer, Record, AnswerAt, OpenTx,
              Replies, Outcomes, IsRead
<1> QED BY <1>2, <1>3, <1>4, QuietAnswers

\* A new call keeps the answers.
LEMMA InvokeAnswers ==
  ASSUME IInv, \A d \in Calls : AnswerAt(d), NEW c \in Calls,
         NEW o \in Objects \cup {NoObject}, Invoke(c, o)
  PROVE  \A d \in Calls : AnswerAt(d)'
<1>1. /\ pc \in [Calls -> PC]
      /\ reply \in [Calls -> Replies]
      /\ outcome \in [Calls -> Outcomes]
  BY DEF IInv, TypeOK
<1>2. audit' = audit /\ lost' = lost /\ RowsOf(c)' = RowsOf(c)
  BY DEF Invoke, durable, RowsOf
<1>3. \A d \in Calls \ {c} : pc'[d] = pc[d] /\ reply'[d] = reply[d]
  BY <1>1 DEF Invoke, Move, Answer, Record
<1>4. AnswerAt(c)'
  <2>1. AnswerAt(c) /\ (pc[c] \in
            OpenTx \cup {"idle", "gate", "begin", "reading"} => RowsOf(c) = {})
    BY NoRowYet
  <2> QED BY <1>1, <1>2, <2>1
          DEF Invoke, Move, Answer, Record, AnswerAt, OpenTx,
              Replies, Outcomes, IsRead
<1> QED BY <1>2, <1>3, <1>4, QuietAnswers

\* An input that does not parse keeps the answers.
LEMMA InvalidInputAnswers ==
  ASSUME IInv, \A d \in Calls : AnswerAt(d), NEW c \in Calls,
         InvalidInput(c)
  PROVE  \A d \in Calls : AnswerAt(d)'
<1>1. /\ pc \in [Calls -> PC]
      /\ reply \in [Calls -> Replies]
      /\ outcome \in [Calls -> Outcomes]
  BY DEF IInv, TypeOK
<1>2. audit' = audit /\ lost' = lost /\ RowsOf(c)' = RowsOf(c)
  BY DEF InvalidInput, durable, RowsOf
<1>3. \A d \in Calls \ {c} : pc'[d] = pc[d] /\ reply'[d] = reply[d]
  BY <1>1 DEF InvalidInput, Move, Answer, Record
<1>4. AnswerAt(c)'
  <2>1. AnswerAt(c) /\ (pc[c] \in
            OpenTx \cup {"idle", "gate", "begin", "reading"} => RowsOf(c) = {})
    BY NoRowYet
  <2> QED BY <1>1, <1>2, <2>1
          DEF InvalidInput, Move, Answer, Record, AnswerAt, OpenTx,
              Replies, Outcomes, IsRead
<1> QED BY <1>2, <1>3, <1>4, QuietAnswers

\* Passing the gate keeps the answers.
LEMMA GateAllowsAnswers ==
  ASSUME IInv, \A d \in Calls : AnswerAt(d), NEW c \in Calls,
         GateAllows(c)
  PROVE  \A d \in Calls : AnswerAt(d)'
<1>1. /\ pc \in [Calls -> PC]
      /\ reply \in [Calls -> Replies]
      /\ outcome \in [Calls -> Outcomes]
  BY DEF IInv, TypeOK
<1>2. audit' = audit /\ lost' = lost /\ RowsOf(c)' = RowsOf(c)
  BY DEF GateAllows, durable, RowsOf
<1>3. \A d \in Calls \ {c} : pc'[d] = pc[d] /\ reply'[d] = reply[d]
  BY <1>1 DEF GateAllows, Move, Answer, Record
<1>4. AnswerAt(c)'
  <2>1. AnswerAt(c) /\ (pc[c] \in
            OpenTx \cup {"idle", "gate", "begin", "reading"} => RowsOf(c) = {})
    BY NoRowYet
  <2> QED BY <1>1, <1>2, <2>1
          DEF GateAllows, Move, Answer, Record, AnswerAt, OpenTx,
              Replies, Outcomes, IsRead
<1> QED BY <1>2, <1>3, <1>4, QuietAnswers

\* A denial keeps the answers.
LEMMA GateDeniesAnswers ==
  ASSUME IInv, \A d \in Calls : AnswerAt(d), NEW c \in Calls,
         GateDenies(c)
  PROVE  \A d \in Calls : AnswerAt(d)'
<1>1. /\ pc \in [Calls -> PC]
      /\ reply \in [Calls -> Replies]
      /\ outcome \in [Calls -> Outcomes]
  BY DEF IInv, TypeOK
<1>2. audit' = audit /\ lost' = lost /\ RowsOf(c)' = RowsOf(c)
  BY DEF GateDenies, durable, RowsOf
<1>3. \A d \in Calls \ {c} : pc'[d] = pc[d] /\ reply'[d] = reply[d]
  BY <1>1 DEF GateDenies, Move, Answer, Record
<1>4. AnswerAt(c)'
  <2>1. AnswerAt(c) /\ (pc[c] \in
            OpenTx \cup {"idle", "gate", "begin", "reading"} => RowsOf(c) = {})
    BY NoRowYet
  <2> QED BY <1>1, <1>2, <2>1
          DEF GateDenies, Move, Answer, Record, AnswerAt, OpenTx,
              Replies, Outcomes, IsRead
<1> QED BY <1>2, <1>3, <1>4, QuietAnswers

\* A gate that throws keeps the answers.
LEMMA GateThrowsAnswers ==
  ASSUME IInv, \A d \in Calls : AnswerAt(d), NEW c \in Calls,
         GateThrows(c)
  PROVE  \A d \in Calls : AnswerAt(d)'
<1>1. /\ pc \in [Calls -> PC]
      /\ reply \in [Calls -> Replies]
      /\ outcome \in [Calls -> Outcomes]
  BY DEF IInv, TypeOK
<1>2. audit' = audit /\ lost' = lost /\ RowsOf(c)' = RowsOf(c)
  BY DEF GateThrows, durable, RowsOf
<1>3. \A d \in Calls \ {c} : pc'[d] = pc[d] /\ reply'[d] = reply[d]
  BY <1>1 DEF GateThrows, Move, Answer, Record
<1>4. AnswerAt(c)'
  <2>1. AnswerAt(c) /\ (pc[c] \in
            OpenTx \cup {"idle", "gate", "begin", "reading"} => RowsOf(c) = {})
    BY NoRowYet
  <2> QED BY <1>1, <1>2, <2>1
          DEF GateThrows, Move, Answer, Record, AnswerAt, OpenTx,
              Replies, Outcomes, IsRead
<1> QED BY <1>2, <1>3, <1>4, QuietAnswers

\* A read keeps the answers.
LEMMA ReadReturnsAnswers ==
  ASSUME IInv, \A d \in Calls : AnswerAt(d), NEW c \in Calls,
         ReadReturns(c)
  PROVE  \A d \in Calls : AnswerAt(d)'
<1>1. /\ pc \in [Calls -> PC]
      /\ reply \in [Calls -> Replies]
      /\ outcome \in [Calls -> Outcomes]
  BY DEF IInv, TypeOK
<1>2. audit' = audit /\ lost' = lost /\ RowsOf(c)' = RowsOf(c)
  BY DEF ReadReturns, durable, RowsOf
<1>3. \A d \in Calls \ {c} : pc'[d] = pc[d] /\ reply'[d] = reply[d]
  BY <1>1 DEF ReadReturns, Move, Answer, Record
<1>4. AnswerAt(c)'
  <2>1. AnswerAt(c) /\ (pc[c] \in
            OpenTx \cup {"idle", "gate", "begin", "reading"} => RowsOf(c) = {})
    BY NoRowYet
  <2> QED BY <1>1, <1>2, <2>1
          DEF ReadReturns, Move, Answer, Record, AnswerAt, OpenTx,
              Replies, Outcomes, IsRead
<1> QED BY <1>2, <1>3, <1>4, QuietAnswers

\* Opening the transaction keeps the answers.
LEMMA BeginTxAnswers ==
  ASSUME IInv, \A d \in Calls : AnswerAt(d), NEW c \in Calls,
         BeginTx(c)
  PROVE  \A d \in Calls : AnswerAt(d)'
<1>1. /\ pc \in [Calls -> PC]
      /\ reply \in [Calls -> Replies]
      /\ outcome \in [Calls -> Outcomes]
  BY DEF IInv, TypeOK
<1>2. audit' = audit /\ lost' = lost /\ RowsOf(c)' = RowsOf(c)
  BY DEF BeginTx, durable, RowsOf
<1>3. \A d \in Calls \ {c} : pc'[d] = pc[d] /\ reply'[d] = reply[d]
  BY <1>1 DEF BeginTx, Move, Answer, Record
<1>4. AnswerAt(c)'
  <2>1. AnswerAt(c) /\ (pc[c] \in
            OpenTx \cup {"idle", "gate", "begin", "reading"} => RowsOf(c) = {})
    BY NoRowYet
  <2> QED BY <1>1, <1>2, <2>1
          DEF BeginTx, Move, Answer, Record, AnswerAt, OpenTx,
              Replies, Outcomes, IsRead
<1> QED BY <1>2, <1>3, <1>4, QuietAnswers

\* The handler keeps the answers.
LEMMA HandlerReturnsAnswers ==
  ASSUME IInv, \A d \in Calls : AnswerAt(d), NEW c \in Calls,
         HandlerReturns(c)
  PROVE  \A d \in Calls : AnswerAt(d)'
<1>1. /\ pc \in [Calls -> PC]
      /\ reply \in [Calls -> Replies]
      /\ outcome \in [Calls -> Outcomes]
  BY DEF IInv, TypeOK
<1>2. audit' = audit /\ lost' = lost /\ RowsOf(c)' = RowsOf(c)
  BY DEF HandlerReturns, durable, RowsOf
<1>3. \A d \in Calls \ {c} : pc'[d] = pc[d] /\ reply'[d] = reply[d]
  BY <1>1 DEF HandlerReturns, Move, Answer, Record
<1>4. AnswerAt(c)'
  <2>1. AnswerAt(c) /\ (pc[c] \in
            OpenTx \cup {"idle", "gate", "begin", "reading"} => RowsOf(c) = {})
    BY NoRowYet
  <2> QED BY <1>1, <1>2, <2>1
          DEF HandlerReturns, Move, Answer, Record, AnswerAt, OpenTx,
              Replies, Outcomes, IsRead
<1> QED BY <1>2, <1>3, <1>4, QuietAnswers

\* The allow row keeps the answers.
LEMMA AuditAllowAnswers ==
  ASSUME IInv, \A d \in Calls : AnswerAt(d), NEW c \in Calls,
         AuditAllow(c)
  PROVE  \A d \in Calls : AnswerAt(d)'
<1>1. /\ pc \in [Calls -> PC]
      /\ reply \in [Calls -> Replies]
      /\ outcome \in [Calls -> Outcomes]
  BY DEF IInv, TypeOK
<1>2. audit' = audit /\ lost' = lost /\ RowsOf(c)' = RowsOf(c)
  BY DEF AuditAllow, durable, RowsOf
<1>3. \A d \in Calls \ {c} : pc'[d] = pc[d] /\ reply'[d] = reply[d]
  BY <1>1 DEF AuditAllow, Move, Answer, Record
<1>4. AnswerAt(c)'
  <2>1. AnswerAt(c) /\ (pc[c] \in
            OpenTx \cup {"idle", "gate", "begin", "reading"} => RowsOf(c) = {})
    BY NoRowYet
  <2> QED BY <1>1, <1>2, <2>1
          DEF AuditAllow, Move, Answer, Record, AnswerAt, OpenTx,
              Replies, Outcomes, IsRead
<1> QED BY <1>2, <1>3, <1>4, QuietAnswers

\* The outbox flush keeps the answers.
LEMMA FlushOutboxAnswers ==
  ASSUME IInv, \A d \in Calls : AnswerAt(d), NEW c \in Calls,
         FlushOutbox(c)
  PROVE  \A d \in Calls : AnswerAt(d)'
<1>1. /\ pc \in [Calls -> PC]
      /\ reply \in [Calls -> Replies]
      /\ outcome \in [Calls -> Outcomes]
  BY DEF IInv, TypeOK
<1>2. audit' = audit /\ lost' = lost /\ RowsOf(c)' = RowsOf(c)
  BY DEF FlushOutbox, durable, RowsOf
<1>3. \A d \in Calls \ {c} : pc'[d] = pc[d] /\ reply'[d] = reply[d]
  BY <1>1 DEF FlushOutbox, Move, Answer, Record
<1>4. AnswerAt(c)'
  <2>1. AnswerAt(c) /\ (pc[c] \in
            OpenTx \cup {"idle", "gate", "begin", "reading"} => RowsOf(c) = {})
    BY NoRowYet
  <2> QED BY <1>1, <1>2, <2>1
          DEF FlushOutbox, Move, Answer, Record, AnswerAt, OpenTx,
              Replies, Outcomes, IsRead
<1> QED BY <1>2, <1>3, <1>4, QuietAnswers

\* The reply to a committed mutation keeps the answers.
LEMMA ReturnAnswers ==
  ASSUME IInv, \A d \in Calls : AnswerAt(d), NEW c \in Calls,
         Return(c)
  PROVE  \A d \in Calls : AnswerAt(d)'
<1>1. /\ pc \in [Calls -> PC]
      /\ reply \in [Calls -> Replies]
      /\ outcome \in [Calls -> Outcomes]
  BY DEF IInv, TypeOK
<1>2. audit' = audit /\ lost' = lost /\ RowsOf(c)' = RowsOf(c)
  BY DEF Return, durable, RowsOf
<1>3. \A d \in Calls \ {c} : pc'[d] = pc[d] /\ reply'[d] = reply[d]
  BY <1>1 DEF Return, Move, Answer, Record
<1>4. AnswerAt(c)'
  <2>1. AnswerAt(c) /\ (pc[c] \in
            OpenTx \cup {"idle", "gate", "begin", "reading"} => RowsOf(c) = {})
    BY NoRowYet
  <2> QED BY <1>1, <1>2, <2>1
          DEF Return, Move, Answer, Record, AnswerAt, OpenTx,
              Replies, Outcomes, IsRead
<1> QED BY <1>2, <1>3, <1>4, QuietAnswers

\* A failing audit write keeps the answers.
LEMMA AuditThrowsAnswers ==
  ASSUME IInv, \A d \in Calls : AnswerAt(d), NEW c \in Calls,
         AuditThrows(c)
  PROVE  \A d \in Calls : AnswerAt(d)'
<1>1. /\ pc \in [Calls -> PC]
      /\ reply \in [Calls -> Replies]
      /\ outcome \in [Calls -> Outcomes]
  BY DEF IInv, TypeOK
<1>2. audit' = audit /\ lost' = lost /\ RowsOf(c)' = RowsOf(c)
  BY DEF AuditThrows, durable, RowsOf
<1>3. \A d \in Calls \ {c} : pc'[d] = pc[d] /\ reply'[d] = reply[d]
  BY <1>1 DEF AuditThrows, Move, Answer, Record
<1>4. AnswerAt(c)'
  <2>1. AnswerAt(c) /\ (pc[c] \in
            OpenTx \cup {"idle", "gate", "begin", "reading"} => RowsOf(c) = {})
    BY NoRowYet
  <2> QED BY <1>1, <1>2, <2>1
          DEF AuditThrows, Move, Answer, Record, AnswerAt, OpenTx,
              Replies, Outcomes, IsRead
<1> QED BY <1>2, <1>3, <1>4, QuietAnswers

\* A read that throws keeps the answers.
LEMMA ReadThrowsAnswers ==
  ASSUME IInv, \A d \in Calls : AnswerAt(d), NEW c \in Calls,
         NEW t \in {"deny", "error"},
         ReadThrows(c, t)
  PROVE  \A d \in Calls : AnswerAt(d)'
<1>1. /\ pc \in [Calls -> PC]
      /\ reply \in [Calls -> Replies]
      /\ outcome \in [Calls -> Outcomes]
  BY DEF IInv, TypeOK
<1>2. audit' = audit /\ lost' = lost /\ RowsOf(c)' = RowsOf(c)
  BY DEF ReadThrows, durable, RowsOf
<1>3. \A d \in Calls \ {c} : pc'[d] = pc[d] /\ reply'[d] = reply[d]
  BY <1>1 DEF ReadThrows, Move, Answer, Record
<1>4. AnswerAt(c)'
  <2>1. AnswerAt(c) /\ (pc[c] \in
            OpenTx \cup {"idle", "gate", "begin", "reading"} => RowsOf(c) = {})
    BY NoRowYet
  <2> QED BY <1>1, <1>2, <2>1
          DEF ReadThrows, Move, Answer, Record, AnswerAt, OpenTx,
              Replies, Outcomes, IsRead
<1> QED BY <1>2, <1>3, <1>4, QuietAnswers

\* A throw in the transaction keeps the answers.
LEMMA HandlerThrowsAnswers ==
  ASSUME IInv, \A d \in Calls : AnswerAt(d), NEW c \in Calls,
         NEW t \in {"deny", "error"},
         HandlerThrows(c, t)
  PROVE  \A d \in Calls : AnswerAt(d)'
<1>1. /\ pc \in [Calls -> PC]
      /\ reply \in [Calls -> Replies]
      /\ outcome \in [Calls -> Outcomes]
  BY DEF IInv, TypeOK
<1>2. audit' = audit /\ lost' = lost /\ RowsOf(c)' = RowsOf(c)
  BY DEF HandlerThrows, durable, RowsOf
<1>3. \A d \in Calls \ {c} : pc'[d] = pc[d] /\ reply'[d] = reply[d]
  BY <1>1 DEF HandlerThrows, Move, Answer, Record
<1>4. AnswerAt(c)'
  <2>1. AnswerAt(c) /\ (pc[c] \in
            OpenTx \cup {"idle", "gate", "begin", "reading"} => RowsOf(c) = {})
    BY NoRowYet
  <2> QED BY <1>1, <1>2, <2>1
          DEF HandlerThrows, Move, Answer, Record, AnswerAt, OpenTx,
              Replies, Outcomes, IsRead
<1> QED BY <1>2, <1>3, <1>4, QuietAnswers

\* A commit gives the call its one row.
LEMMA CommitTxAnswers ==
  ASSUME IInv, \A d \in Calls : AnswerAt(d), NEW c \in Calls, CommitTx(c)
  PROVE  \A d \in Calls : AnswerAt(d)'
<1> DEFINE row == [id |-> rowId[c], call |-> c, outcome |-> "allow"]
<1>1. pc \in [Calls -> PC]
  BY DEF IInv, TypeOK
<1>2. audit' = audit \cup {row} /\ reply' = reply
  BY DEF CommitTx, Commit
<1>3. RowsOf(c) = {}
  BY NoRowYet DEF CommitTx, OpenTx
<1>4. RowsOf(c)' = {row}
  BY <1>2, <1>3 DEF RowsOf
<1>5. AnswerAt(c)'
  <2>1. pc'[c] = "committed" /\ reply[c] = "none"
    BY <1>1 DEF CommitTx, Move, AnswerAt
  <2>2. row \in audit' /\ RowsOf(c)' = {row} /\ row.outcome = "allow"
    BY <1>2, <1>4
  <2> HIDE DEF row
  <2>3. reply'[c] = "none" /\ "none" \notin Outcomes \cup {"refused", "broken"}
    BY <1>2, <2>1 DEF Outcomes
  <2> QED BY <2>1, <2>2, <2>3 DEF AnswerAt
<1>6. ASSUME NEW d \in Calls, d # c
      PROVE  AnswerAt(d)'
  <2>1. RowsOf(d)' = RowsOf(d)
    BY <1>2, <1>6 DEF RowsOf
  <2>2. pc'[d] = pc[d] /\ lost' = lost
    BY <1>1, <1>6 DEF CommitTx, Move
  <2> QED BY <1>2, <2>1, <2>2, AnswerKept
<1> QED BY <1>5, <1>6

\* An audit transaction gives the call its one row, of the outcome told.
LEMMA WriteAuditAnswers ==
  ASSUME IInv, \A d \in Calls : AnswerAt(d), NEW c \in Calls, WriteAudit(c)
  PROVE  \A d \in Calls : AnswerAt(d)'
<1> DEFINE row == [id |-> nextId, call |-> c, outcome |-> outcome[c]]
<1>1. /\ pc \in [Calls -> PC]
      /\ reply \in [Calls -> Replies]
      /\ outcome \in [Calls -> Outcomes]
  BY DEF IInv, TypeOK
<1>2. audit' = audit \cup {row}
  BY DEF WriteAudit, AppendAudit
<1>3. lost' = lost /\ (c \notin lost => RowsOf(c) = {})
  BY DEF WriteAudit, AnswerAt
<1>4. RowsOf(c)' = RowsOf(c) \cup {row}
  BY <1>2 DEF RowsOf
<1>5. AnswerAt(c)'
  <2>1. pc'[c] = "replied" /\ reply'[c] = outcome[c]
    BY <1>1 DEF WriteAudit, Answer, Move
  <2>2. /\ row \in audit' /\ row \in RowsOf(c)' /\ row.outcome = outcome[c]
        /\ c \notin lost => RowsOf(c)' = {row}
    BY <1>2, <1>3, <1>4
  <2> HIDE DEF row
  <2>3. reply'[c] \notin {"refused", "broken"}
    BY <1>1, <2>1 DEF Outcomes
  <2> QED BY <1>3, <2>1, <2>2, <2>3 DEF AnswerAt
<1>6. ASSUME NEW d \in Calls, d # c
      PROVE  AnswerAt(d)'
  <2>1. RowsOf(d)' = RowsOf(d)
    BY <1>2, <1>6 DEF RowsOf
  <2>2. pc'[d] = pc[d] /\ reply'[d] = reply[d]
    BY <1>1, <1>6 DEF WriteAudit, Answer, Move
  <2> QED BY <1>3, <2>1, <2>2, AnswerKept
<1> QED BY <1>5, <1>6

\* A call that loses the acknowledgement of its commit is answered an error,
\* once the error's own row is written.
LEMMA CommitUnacknowledgedAnswers ==
  ASSUME IInv, \A d \in Calls : AnswerAt(d), NEW c \in Calls, CommitUnacknowledged(c)
  PROVE  \A d \in Calls : AnswerAt(d)'
<1>1. pc \in [Calls -> PC]
  BY DEF IInv, TypeOK
<1>2. reply' = reply /\ lost' = lost \cup {c}
      /\ audit' = audit \cup {[id |-> rowId[c], call |-> c, outcome |-> "allow"]}
  BY DEF CommitUnacknowledged, Commit
<1>3. AnswerAt(c)'
  <2>1. pc'[c] = "auditing" /\ reply[c] = "none"
    BY <1>1 DEF CommitUnacknowledged, Record, Move, AnswerAt
  <2> QED BY <1>2, <2>1 DEF AnswerAt, Outcomes
<1>4. ASSUME NEW d \in Calls, d # c
      PROVE  AnswerAt(d)'
  <2>1. RowsOf(d)' = RowsOf(d)
    BY <1>2, <1>4 DEF RowsOf
  <2>2. pc'[d] = pc[d]
    BY <1>1, <1>4 DEF CommitUnacknowledged, Record, Move
  <2> QED BY <1>2, <1>4, <2>1, <2>2, AnswerKept
<1> QED BY <1>3, <1>4

\* An audit write whose acknowledgement is lost makes an error of a read that
\* succeeded, and leaves any other call without an answer.
LEMMA AuditUnacknowledgedAnswers ==
  ASSUME IInv, \A d \in Calls : AnswerAt(d), NEW c \in Calls, AuditUnacknowledged(c)
  PROVE  \A d \in Calls : AnswerAt(d)'
<1>1. /\ pc \in [Calls -> PC]
      /\ reply \in [Calls -> Replies]
  BY DEF IInv, TypeOK
<1>2. /\ lost' = lost \cup {c} /\ pc[c] = "auditing"
      /\ audit' = audit \cup {[id |-> nextId, call |-> c, outcome |-> outcome[c]]}
  BY DEF AuditUnacknowledged, AppendAudit
<1>3. AnswerAt(c)'
  <2>1. CASE outcome[c] = "allow"
    <3>1. pc'[c] = "auditing" /\ reply'[c] = "none"
      BY <1>1, <1>2, <2>1 DEF AuditUnacknowledged, Record, Move, AnswerAt
    <3> QED BY <1>2, <3>1 DEF AnswerAt, Outcomes
  <2>2. CASE outcome[c] # "allow"
    <3>1. pc'[c] = "replied" /\ reply'[c] = "broken"
      BY <1>1, <2>2 DEF AuditUnacknowledged, Answer, Move
    <3> QED BY <1>2, <3>1 DEF AnswerAt, Outcomes
  <2> QED BY <2>1, <2>2
<1>4. ASSUME NEW d \in Calls, d # c
      PROVE  AnswerAt(d)'
  <2>1. RowsOf(d)' = RowsOf(d)
    BY <1>2, <1>4 DEF RowsOf
  <2>2. pc'[d] = pc[d] /\ reply'[d] = reply[d]
    <3>1. CASE outcome[c] = "allow"
      BY <1>1, <1>4, <3>1 DEF AuditUnacknowledged, Record, Move
    <3>2. CASE outcome[c] # "allow"
      BY <1>1, <1>4, <3>2 DEF AuditUnacknowledged, Answer, Move
    <3> QED BY <3>1, <3>2
  <2> QED BY <1>2, <1>4, <2>1, <2>2, AnswerKept
<1> QED BY <1>3, <1>4

\* A restart keeps the answers: it answers nobody and writes no row.
LEMMA CrashAnswers ==
  ASSUME \A d \in Calls : AnswerAt(d), Crash
  PROVE  \A d \in Calls : AnswerAt(d)'
<1> SUFFICES ASSUME NEW d \in Calls PROVE AnswerAt(d)'
  OBVIOUS
<1>1. RowsOf(d)' = RowsOf(d) /\ reply' = reply /\ audit' = audit /\ lost' = lost
  BY DEF Crash, durable, RowsOf
<1>2. pc'[d] = IF pc[d] \in {"idle", "replied"} THEN pc[d] ELSE "crashed"
  BY DEF Crash
<1> QED BY <1>1, <1>2 DEF AnswerAt

\* A stuttering step keeps the answers.
LEMMA StutterAnswers ==
  ASSUME \A d \in Calls : AnswerAt(d), UNCHANGED vars
  PROVE  \A d \in Calls : AnswerAt(d)'
<1>1. \A d \in Calls : RowsOf(d)' = RowsOf(d)
  BY DEF vars, RowsOf
<1> QED BY <1>1, AnswerKept DEF vars

\* The caller is told what the log says: exactly one row, of that outcome,
\* for every call that lost no acknowledgement of a COMMIT.
THEOREM RepliesAudited == Spec => []ReplyIsAudited
<1> DEFINE J == \A c \in Calls : AnswerAt(c)
<1>1. Init => J
  BY DEF Init, AnswerAt, RowsOf, Outcomes
<1>2. IInv /\ J /\ [Next]_vars => J'
  <2> SUFFICES ASSUME IInv, J, [Next]_vars PROVE J'
    OBVIOUS
  <2>1. ASSUME NEW c \in Calls, Refuse(c) \/ InvalidInput(c)
        PROVE  J'
    BY <2>1, RefuseAnswers, InvalidInputAnswers
  <2>2. ASSUME NEW c \in Calls, Step(c)
        PROVE  J'
    BY <2>2, GateAllowsAnswers, GateDeniesAnswers, GateThrowsAnswers,
       ReadReturnsAnswers, BeginTxAnswers, HandlerReturnsAnswers,
       AuditAllowAnswers, FlushOutboxAnswers, CommitTxAnswers,
       CommitUnacknowledgedAnswers, ReturnAnswers, WriteAuditAnswers,
       AuditThrowsAnswers, AuditUnacknowledgedAnswers, ReadThrowsAnswers,
       HandlerThrowsAnswers DEF Step
  <2>3. ASSUME NEW c \in Calls, NEW o \in Objects \cup {NoObject},
               Invoke(c, o)
        PROVE  J'
    BY <2>3, InvokeAnswers
  <2>4. CASE Crash
    BY <2>4, CrashAnswers
  <2>5. CASE Idle \/ UNCHANGED vars
    BY <2>5, StutterAnswers DEF Idle
  <2> QED BY <2>1, <2>2, <2>3, <2>4, <2>5 DEF Next
<1>3. J => ReplyIsAudited
  BY AnswerByCall
<1> QED BY <1>1, <1>2, <1>3, Inductive, PTL DEF Spec
===========================================================================
