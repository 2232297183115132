------------------------- MODULE SyncWritePathProofs -------------------------
(***************************************************************************)
(* IInv is an inductive invariant of SyncWritePath.  There is one lemma    *)
(* per action, and under it one step per conjunct of IInv it can disturb.  *)
(* The non-trivial ones are CommitTx (rows stay gap-free and above the     *)
(* watermark), WriteRow (the clone is the whole log), ApplyCommitted (the  *)
(* watermark stays contiguous) and FetchRows (a hydration sees every row). *)
(***************************************************************************)
EXTENDS SyncWritePath, TLAPS, WellFoundedInduction
USE DEF Move, memory, Procs, OpenTx, WriterPC, ReaderPC, ClientPC, Critical,
        Loading, Finished

\* Joining a lock queue keeps its type and every holder in place.
LEMMA EnqueueFacts ==
  ASSUME TypeOK, NEW d \in Docs, NEW p \in Writers \cup Readers, Enqueue(p, d)
  PROVE  /\ lockQ' \in [Docs -> Seq(Writers \cup Readers)]
         /\ \A q \in Writers \cup Readers, e \in Docs : Holds(q, e) => Holds(q, e)'
<1>1. lockQ \in [Docs -> Seq(Writers \cup Readers)]
  BY DEF TypeOK
<1>2. lockQ' = [lockQ EXCEPT ![d] = Append(@, p)]
  BY DEF Enqueue
<1>3. Append(lockQ[d], p) \in Seq(Writers \cup Readers)
  BY <1>1
<1>4. ASSUME lockQ[d] # <<>>
      PROVE  Append(lockQ[d], p) # <<>> /\ Head(Append(lockQ[d], p)) = Head(lockQ[d])
  BY <1>1, <1>4
<1> QED BY <1>1, <1>2, <1>3, <1>4 DEF Holds

\* Leaving a lock queue keeps its type and touches no other queue.
LEMMA ReleaseFacts ==
  ASSUME TypeOK, NEW d \in Docs, lockQ[d] # <<>>, Release(d)
  PROVE  /\ lockQ' \in [Docs -> Seq(Writers \cup Readers)]
         /\ \A e \in Docs \ {d} : lockQ'[e] = lockQ[e]
<1>1. lockQ \in [Docs -> Seq(Writers \cup Readers)]
  BY DEF TypeOK
<1>2. Tail(lockQ[d]) \in Seq(Writers \cup Readers)
  BY <1>1
<1> QED BY <1>1, <1>2 DEF Release

\* Every non-empty set of naturals has a least element.
LEMMA NatMin ==
  ASSUME NEW T, T \subseteq Nat, T # {}
  PROVE  \E x \in T : \A y \in T : x <= y
<1>1. PICK x \in T : \A y \in T : ~(<<y, x>> \in OpToRel(<, Nat))
  BY NatLessThanWellFounded, WFMin, Zenon
<1>2. \A y \in T : y \in Nat /\ x \in Nat /\ ~(y < x)
  <2> TAKE y \in T
  <2>1. y \in Nat /\ x \in Nat
    OBVIOUS
  <2>2. ~(<<y, x>> \in OpToRel(<, Nat))
    BY <1>1
  <2>3. y < x => <<y, x>> \in OpToRel(<, Nat)
    BY <2>1, Zenon DEF OpToRel
  <2> QED BY <2>1, <2>2, <2>3
<1> QED BY <1>2

\* The CHOOSE of #advanceWatermark is well defined: the run it returns
\* starts at s and lies in A.
LEMMA RunEndFacts ==
  ASSUME NEW s \in Nat, NEW K \in Nat, NEW A, A \subseteq 1..K
  PROVE  /\ RunEnd(s, A) \in {s} \cup A
         /\ RunEnd(s, A) >= s
         /\ (s + 1)..RunEnd(s, A) \subseteq A
\* the first n from s on whose successor is missing
<1> DEFINE S == {n \in Nat : n >= s /\ (n + 1) \notin A}
<1>1. S \subseteq Nat /\ s + K \in S
  OBVIOUS
<1>2. PICK n \in S : \A m \in S : n <= m
  BY <1>1, NatMin
<1>3. \A k \in Nat : s <= k /\ k < n => (k + 1) \in A
  BY <1>2
<1>4. (s + 1)..n \subseteq A
  <2> SUFFICES ASSUME NEW k \in (s + 1)..n PROVE k \in A
    OBVIOUS
  <2>1. k - 1 \in Nat /\ s <= k - 1 /\ k - 1 < n /\ (k - 1) + 1 = k
    BY <1>2
  <2> QED BY <2>1, <1>3
<1>5. n \in {s} \cup A
  BY <1>2, <1>4
<1>6. n \in {s} \cup A /\ n >= s /\ (s + 1)..n \subseteq A /\ (n + 1) \notin A
  BY <1>2, <1>4, <1>5
<1>7. /\ RunEnd(s, A) \in {s} \cup A
      /\ RunEnd(s, A) >= s
      /\ (s + 1)..RunEnd(s, A) \subseteq A
  BY <1>6 DEF RunEnd
<1> QED BY <1>7

\* The SQL commit keeps the invariant: the staged seq is the next one, so the
\* rows stay gap-free, and the row is above the watermark until it is applied,
\* or lags behind for good when the acknowledgement is lost.
LEMMA PersistKeeps ==
  ASSUME IInv, NEW w \in Writers, Persist(w),
         NEW to \in {"committed", "failing"}, Move(w, to),
         lagging \subseteq lagging', lagging' \subseteq Writers,
         to = "failing" /\ seq[w] > 0 => w \in lagging'
  PROVE  IInv'
<1> DEFINE d == target[w]
<1>0. USE ProcsAreDistinct, NoDocIsNoDoc
<1>1. /\ pc[w] = "handled"
      /\ pc' = [pc EXCEPT ![w] = to]
      /\ UNCHANGED <<seq, target, snap, view, lockQ, memory, crashes>>
  BY DEF Persist, Move
<1>2. CASE seq[w] > 0
  <2>1. /\ rows' = [rows EXCEPT ![d] = @ \cup {w}]
        /\ nextSeq' = [nextSeq EXCEPT ![d] = seq[w] + 1]
    BY <1>2 DEF Persist
  <2>2. d \in Docs /\ seq[w] \in Nat /\ seq[w] = nextSeq[d]
    BY <1>1, <1>2 DEF IInv, TypeOK, TargetInv, StagedInv
  <2>3. singleton[d] = TRUE /\ phase[d] = "hot"
    BY <1>1, <1>2, <2>2 DEF IInv, ResidencyInv, TypeOK
  <2>4. /\ \A e \in Docs : e # d => rows'[e] = rows[e] /\ nextSeq'[e] = nextSeq[e]
        /\ rows'[d] = rows[d] \cup {w}
        /\ nextSeq'[d] = nextSeq[d] + 1
    BY <2>1, <2>2 DEF IInv, TypeOK
  <2>5. TypeOK'
    BY <1>1, <2>1, <2>2 DEF IInv, TypeOK
  <2>6. LockInv'
    BY <1>1 DEF IInv, TypeOK, LockInv, Holds
  <2>7. TargetInv'
    BY <1>1 DEF IInv, TypeOK, TargetInv
  <2>8. RowsInv'
    <3>1. ASSUME NEW e \in Docs, NEW x \in Writers
          PROVE  x \in rows'[e] <=> seq[x] > 0 /\ pc'[x] # "handled" /\ target[x] = e
      <4>1. x \in rows[e] <=> seq[x] > 0 /\ pc[x] # "handled" /\ target[x] = e
        BY DEF IInv, RowsInv
      <4>2. CASE x = w
        BY <4>1, <4>2, <1>1, <1>2, <2>2, <2>4 DEF IInv, TypeOK
      <4>3. CASE x # w
        BY ZenonT(30), <4>1, <4>3, <1>1, <2>4 DEF IInv, TypeOK
      <4> QED BY <4>2, <4>3
    <3> QED BY <3>1, <1>1 DEF RowsInv
  <2>9. SeqGapFree'
    <3>1. ASSUME NEW e \in Docs
          PROVE  {seq[x] : x \in rows'[e]} = 1..(nextSeq'[e] - 1)
      <4>1. {seq[x] : x \in rows[e]} = 1..(nextSeq[e] - 1) /\ nextSeq[e] \in Nat \ {0}
        BY DEF IInv, SeqGapFree, TypeOK
      <4>2. CASE e # d
        BY <4>1, <4>2, <2>4
      <4>3. CASE e = d
        <5>1. {seq[x] : x \in rows'[d]} = {seq[x] : x \in rows[d]} \cup {nextSeq[d]}
          BY <2>2, <2>4
        <5>2. 1..((nextSeq[d] + 1) - 1) = 1..(nextSeq[d] - 1) \cup {nextSeq[d]}
          BY <4>1, <4>3
        <5> QED BY <5>1, <5>2, <4>1, <4>3, <2>4
      <4> QED BY <4>2, <4>3
    <3>2. ASSUME NEW e \in Docs, NEW x \in rows'[e], NEW y \in rows'[e], seq[x] = seq[y]
          PROVE  x = y
      <4>1. \A u, v \in rows[e] : seq[u] = seq[v] => u = v
        BY DEF IInv, SeqGapFree
      <4>2. \A u \in rows[d] : seq[u] \in 1..(nextSeq[d] - 1)
        BY <2>2 DEF IInv, SeqGapFree
      <4>3. \A u \in rows[d] : seq[u] # nextSeq[d]
        BY <4>2, <2>2
      <4> QED BY <4>1, <4>3, <3>2, <2>2, <2>4
    <3> QED BY <3>1, <3>2, <1>1 DEF SeqGapFree
  <2>10. SnapInv'
    BY <1>1, <2>3, <2>4 DEF IInv, TypeOK, SnapInv
  <2>11. StagedInv'
    BY <1>1, <1>2, <2>2, <2>4 DEF IInv, TypeOK, StagedInv, TargetInv
  <2>12. ResidencyInv'
    BY <1>1 DEF IInv, TypeOK, ResidencyInv
  <2>13. LoadInv'
    BY <1>1, <2>3, <2>4 DEF IInv, TypeOK, LoadInv
  <2>14. ResidentInv'
    <3>1. ASSUME NEW e \in Docs
          PROVE  /\ resident[e] \subseteq rows'[e]
                 /\ mark[e] < nextSeq'[e]
                 /\ ahead[e] \subseteq 1..(nextSeq'[e] - 1)
      <4>1. /\ resident[e] \subseteq rows[e] /\ ahead[e] \subseteq 1..(nextSeq[e] - 1)
            /\ nextSeq[e] \in Nat /\ mark[e] \in Nat /\ mark[e] < nextSeq[e]
        BY DEF IInv, ResidentInv, TypeOK
      <4>2. rows[e] \subseteq rows'[e] /\ nextSeq'[e] \in Nat /\ nextSeq'[e] >= nextSeq[e]
        BY <2>4, <4>1
      <4> QED BY <4>1, <4>2
    <3>2. seq[w] \notin ahead[d]
      BY <2>2 DEF IInv, ResidentInv
    <3>3. ~(seq[w] <= mark[d])
      BY <2>2, <2>3 DEF IInv, TypeOK, ResidentInv
    <3>4. ASSUME NEW e \in Docs, phase[e] = "hot", NEW x \in rows'[e]
          PROVE  /\ seq[x] <= mark[e] \/ seq[x] \in ahead[e] => x \in resident[e]
                 /\ \/ x \in resident[e] \cup lagging'
                    \/ pc'[x] \in {"committed", "applyWait"}
      <4>1. CASE x \in rows[e]
        BY <1>1, <3>4, <4>1 DEF IInv, ResidentInv, TypeOK
      <4>2. CASE x \notin rows[e]
        <5>1. x = w /\ e = d
          BY <4>2, <2>4
        <5> QED BY <5>1, <3>2, <3>3, <1>1 DEF IInv, TypeOK
      <4> QED BY <4>1, <4>2
    <3> QED BY <1>1, <3>1, <3>4 DEF ResidentInv
  <2>15. CloneInv'
    <3>1. \A e \in Docs : rows[e] \subseteq rows'[e]
      BY <2>4
    <3> QED BY <1>1, <3>1 DEF IInv, TypeOK, CloneInv, TargetInv
  <2>16. ViewInv'
    BY ZenonT(30), <1>1, <2>4 DEF IInv, TypeOK, ViewInv, TargetInv
  <2> QED
    BY <2>5, <2>6, <2>7, <2>8, <2>9, <2>10, <2>11, <2>12, <2>13, <2>14,
             <2>15, <2>16 DEF IInv
<1>3. CASE seq[w] = 0
  <2>1. UNCHANGED <<rows, nextSeq>>
    BY <1>3 DEF Persist
  <2>2. TypeOK' /\ LockInv' /\ TargetInv' /\ SeqGapFree'
    BY <1>1, <1>3, <2>1 DEF IInv, TypeOK, LockInv, Holds, TargetInv, SeqGapFree
  <2>3. RowsInv' /\ SnapInv' /\ StagedInv'
    BY <1>1, <1>3, <2>1 DEF IInv, TypeOK, RowsInv, SnapInv, StagedInv
  <2>4. ResidencyInv' /\ LoadInv'
    BY <1>1, <1>3, <2>1 DEF IInv, TypeOK, ResidencyInv, LoadInv
  <2>5. ResidentInv'
    BY <1>1, <1>3, <2>1 DEF IInv, TypeOK, ResidentInv
  <2>6. CloneInv' /\ ViewInv'
    BY <1>1, <1>3, <2>1 DEF IInv, TypeOK, CloneInv, ViewInv
  <2> QED BY <2>2, <2>3, <2>4, <2>5, <2>6 DEF IInv
<1> QED
  <2>1. seq[w] = 0 \/ seq[w] > 0
    BY DEF IInv, TypeOK
  <2> QED BY <2>1, <1>2, <1>3

LEMMA CommitTxKeeps ==
  ASSUME IInv, NEW w \in Writers, CommitTx(w) PROVE IInv'
BY PersistKeeps DEF CommitTx, IInv, TypeOK

\* A commit nobody hears of keeps the invariant: its row is lagging at once.
LEMMA CommitUnacknowledgedKeeps ==
  ASSUME IInv, NEW w \in Writers, CommitUnacknowledged(w) PROVE IInv'
BY ZenonT(30), PersistKeeps DEF CommitUnacknowledged, IInv, TypeOK

\* ctx.transact joining the lock queue keeps the invariant.
LEMMA CallTransactKeeps ==
  ASSUME IInv, NEW w \in Writers, CallTransact(w) PROVE IInv'
<1>0. USE ProcsAreDistinct, NoDocIsNoDoc
<1>1. /\ pc[w] = "running" /\ target[w] \in Docs
      /\ pc' = [pc EXCEPT ![w] = "lockWait"]
      /\ Enqueue(w, target[w])
      /\ UNCHANGED <<rows, nextSeq, seq, target, snap, view, memory, lagging, crashes>>
  BY DEF CallTransact
<1>2. /\ lockQ' \in [Docs -> Seq(Writers \cup Readers)]
      /\ \A q \in Writers \cup Readers, e \in Docs : Holds(q, e) => Holds(q, e)'
  BY <1>1, EnqueueFacts DEF IInv
<1>3. LockInv'
  <2>1. \A q \in Writers \cup Readers :
           pc'[q] \in Critical => pc[q] \in Critical /\ target[q] \in Docs
    BY <1>1 DEF IInv, TypeOK, TargetInv
  <2>2. \A q \in Writers \cup Readers : pc[q] \in Critical => Holds(q, target[q])
    BY DEF IInv, LockInv
  <2>3. ASSUME NEW q \in Writers \cup Readers, pc'[q] \in Critical
        PROVE  Holds(q, target[q])'
    <3>1. Holds(q, target[q]) /\ target[q] \in Docs
      BY <2>1, <2>2, <2>3
    <3>2. \A e \in Docs : Holds(q, e) => Holds(q, e)'
      BY <1>2
    <3> QED BY <3>1, <3>2, <1>1 DEF Holds
  <2> QED BY <2>3 DEF LockInv
<1>4. TypeOK' /\ TargetInv' /\ RowsInv' /\ SeqGapFree'
  <2>1. TypeOK'
    BY <1>1, <1>2 DEF IInv, TypeOK
  <2>2. TargetInv'
    BY <1>1 DEF IInv, TypeOK, TargetInv
  <2>3. RowsInv' /\ SeqGapFree'
    BY <1>1 DEF IInv, TypeOK, RowsInv, SeqGapFree
  <2> QED BY <2>1, <2>2, <2>3
<1>5. SnapInv' /\ StagedInv' /\ ResidencyInv' /\ LoadInv'
  BY <1>1 DEF IInv, TypeOK, SnapInv, StagedInv, ResidencyInv, LoadInv
<1>6. ResidentInv' /\ CloneInv' /\ ViewInv'
  BY <1>1 DEF IInv, TypeOK, ResidentInv, CloneInv, ViewInv
<1> QED BY <1>3, <1>4, <1>5, <1>6 DEF IInv

\* bound.commit() joining the lock queue keeps the invariant.
LEMMA CallCommitKeeps ==
  ASSUME IInv, NEW w \in Writers, CallCommit(w) PROVE IInv'
<1>0. USE ProcsAreDistinct, NoDocIsNoDoc
<1>1. /\ pc[w] = "committed"
      /\ UNCHANGED <<rows, nextSeq, seq, target, snap, view, memory, lagging, crashes>>
  BY DEF CallCommit
<1>2. PICK to \in {"applyWait", "done"} :
        /\ pc' = [pc EXCEPT ![w] = to]
        /\ to = "applyWait" <=> seq[w] > 0
        /\ to = "applyWait" => Enqueue(w, target[w])
        /\ to = "done" => UNCHANGED lockQ
  BY DEF CallCommit
<1>3. /\ lockQ' \in [Docs -> Seq(Writers \cup Readers)]
      /\ \A q \in Writers \cup Readers, e \in Docs : Holds(q, e) => Holds(q, e)'
  <2>1. CASE to = "applyWait"
    <3>1. target[w] \in Docs /\ Enqueue(w, target[w])
      BY <1>2, <2>1 DEF IInv, TargetInv
    <3> QED BY <3>1, EnqueueFacts DEF IInv
  <2>2. CASE to = "done"
    BY <1>2, <2>2 DEF IInv, TypeOK, Holds
  <2> QED BY <2>1, <2>2
<1>4. LockInv'
  <2>1. \A q \in Writers \cup Readers :
           pc'[q] \in Critical => pc[q] \in Critical /\ target[q] \in Docs
    BY <1>1, <1>2 DEF IInv, TypeOK, TargetInv
  <2>2. \A q \in Writers \cup Readers : pc[q] \in Critical => Holds(q, target[q])
    BY DEF IInv, LockInv
  <2>3. ASSUME NEW q \in Writers \cup Readers, pc'[q] \in Critical
        PROVE  Holds(q, target[q])'
    <3>1. Holds(q, target[q]) /\ target[q] \in Docs
      BY <2>1, <2>2, <2>3
    <3>2. \A e \in Docs : Holds(q, e) => Holds(q, e)'
      BY <1>3
    <3> QED BY <3>1, <3>2, <1>1 DEF Holds
  <2> QED BY <2>3 DEF LockInv
<1>5. /\ pc'[w] = to /\ (to = "done" => ~(seq[w] > 0))
      /\ \A x \in Procs : x # w => pc'[x] = pc[x]
  BY <1>2 DEF IInv, TypeOK
<1>6. TypeOK' /\ TargetInv' /\ RowsInv' /\ SeqGapFree'
  <2>1. TypeOK'
    BY <1>1, <1>2, <1>3 DEF IInv, TypeOK
  <2>2. TargetInv' /\ RowsInv'
    BY <1>1, <1>2, <1>5 DEF IInv, TargetInv, RowsInv
  <2>3. SeqGapFree'
    BY <1>1 DEF IInv, SeqGapFree
  <2> QED BY <2>1, <2>2, <2>3
<1>7. SnapInv' /\ StagedInv' /\ ResidencyInv' /\ LoadInv'
  BY <1>1, <1>2 DEF IInv, TypeOK, SnapInv, StagedInv, ResidencyInv, LoadInv
<1>8. ResidentInv'
  <2>1. ASSUME NEW e \in Docs, NEW x \in rows[e], pc[x] \in {"committed", "applyWait"}
        PROVE  pc'[x] \in {"committed", "applyWait"}
    <3>1. x \in Writers /\ seq[x] > 0
      BY DEF IInv, TypeOK, RowsInv
    <3> QED BY <3>1, <2>1, <1>5
  <2> QED BY <1>1, <2>1 DEF IInv, ResidentInv
<1>9. CloneInv' /\ ViewInv'
  BY <1>1, <1>2 DEF IInv, TypeOK, CloneInv, ViewInv
<1> QED BY <1>4, <1>6, <1>7, <1>8, <1>9 DEF IInv

\* A rollback keeps the invariant: the row it drops was never committed.
LEMMA RollBackKeeps ==
  ASSUME IInv, NEW w \in Writers, RollBack(w),
         pc[w] \in {"running", "snapped", "cloned", "handled"}
  PROVE  IInv'
<1>0. USE ProcsAreDistinct, NoDocIsNoDoc
<1>1. /\ pc' = [pc EXCEPT ![w] = "failing"]
      /\ seq' = [seq EXCEPT ![w] = 0]
      /\ view' = [view EXCEPT ![w] = {}]
      /\ UNCHANGED <<rows, nextSeq, target, snap, memory, lagging, crashes>>
  BY DEF RollBack
<1>2. /\ pc'[w] = "failing" /\ seq'[w] = 0 /\ view'[w] = {}
      /\ \A x \in Procs : x # w => pc'[x] = pc[x] /\ view'[x] = view[x]
      /\ \A x \in Writers : x # w => seq'[x] = seq[x]
  BY <1>1 DEF IInv, TypeOK
\* a transaction that is still open has committed nothing
<1>3. \A e \in Docs : w \notin rows[e]
  BY DEF IInv, RowsInv, TargetInv
<1>4. /\ lockQ' \in [Docs -> Seq(Writers \cup Readers)]
      /\ \A q \in Writers \cup Readers :
           q # w /\ pc[q] \in Critical => Holds(q, target[q])'
  <2>1. \A q \in Writers \cup Readers :
           pc[q] \in Critical => Holds(q, target[q]) /\ target[q] \in Docs
    BY DEF IInv, LockInv, TargetInv
  <2>2. CASE pc[w] \in Critical
    <3>1. Holds(w, target[w]) /\ target[w] \in Docs /\ Release(target[w])
      BY <2>1, <2>2 DEF RollBack
    <3>2. /\ lockQ' \in [Docs -> Seq(Writers \cup Readers)]
          /\ \A e \in Docs \ {target[w]} : lockQ'[e] = lockQ[e]
      BY <3>1, ReleaseFacts DEF IInv, Holds
    <3>3. \A q \in Writers \cup Readers :
             q # w /\ pc[q] \in Critical => target[q] \in Docs \ {target[w]}
      BY <3>1, <2>1 DEF Holds
    <3> QED BY <3>2, <3>3, <2>1, <1>1 DEF Holds
  <2>3. CASE pc[w] \notin Critical
    <3>1. lockQ' = lockQ
      BY <2>3 DEF RollBack
    <3> QED BY <3>1, <2>1, <1>1 DEF Holds, IInv, TypeOK
  <2> QED BY <2>2, <2>3
<1>5. TypeOK'
  BY <1>1, <1>4 DEF IInv, TypeOK
<1>6. LockInv' /\ TargetInv'
  BY <1>1, <1>2, <1>4 DEF IInv, TypeOK, LockInv, TargetInv
<1>7. RowsInv' /\ SeqGapFree'
  <2>1. \A e \in Docs : \A x \in rows[e] : x # w /\ seq'[x] = seq[x]
    BY <1>2, <1>3 DEF IInv, TypeOK
  <2>2. \A e \in Docs : {seq'[x] : x \in rows[e]} = {seq[x] : x \in rows[e]}
    BY <2>1
  <2>3. SeqGapFree'
    BY <1>1, <2>1, <2>2 DEF IInv, SeqGapFree
  <2>4. ASSUME NEW e \in Docs, NEW x \in Writers
        PROVE  x \in rows[e] <=> seq'[x] > 0 /\ pc'[x] # "handled" /\ target[x] = e
    <3>1. CASE x = w
      BY <3>1, <1>2, <1>3
    <3>2. CASE x # w
      BY <3>2, <1>2 DEF IInv, RowsInv
    <3> QED BY <3>1, <3>2
  <2> QED BY <1>1, <2>3, <2>4 DEF RowsInv
<1>8. SnapInv' /\ StagedInv' /\ ResidencyInv'
  BY <1>1, <1>2 DEF IInv, TypeOK, SnapInv, StagedInv, ResidencyInv
<1>9. LoadInv'
  BY <1>1, <1>2 DEF IInv, TypeOK, LoadInv
<1>10. ResidentInv'
  <2>1. \A e \in Docs : \A x \in rows[e] : seq'[x] = seq[x] /\ pc'[x] = pc[x]
    BY <1>2, <1>3 DEF IInv, TypeOK
  <2> QED BY <1>1, <2>1 DEF IInv, ResidentInv
<1>11. CloneInv'
  <2>1. \A x \in Writers : pc[x] = "snapped" =>
           \A y \in snap[x] : y \in Writers /\ y # w
    BY <1>3 DEF IInv, TypeOK, SnapInv, TargetInv
  <2> QED BY <1>1, <1>2, <2>1 DEF IInv, TypeOK, CloneInv
<1>12. ViewInv'
  BY <1>1, <1>2 DEF IInv, TypeOK, ViewInv
<1> QED
  BY <1>5, <1>6, <1>7, <1>8, <1>9, <1>10, <1>11, <1>12 DEF IInv

\* The post-commit apply keeps the invariant: the watermark moves over seqs
\* whose updates are all in the resident document.
LEMMA ApplyCommittedKeeps ==
  ASSUME IInv, NEW w \in Writers, ApplyCommitted(w) PROVE IInv'
<1> DEFINE d == target[w]
<1>0. USE ProcsAreDistinct, NoDocIsNoDoc
<1>1. /\ pc[w] = "applyWait" /\ Holds(w, d) /\ Release(d)
      /\ pc' = [pc EXCEPT ![w] = "done"]
      /\ UNCHANGED <<rows, nextSeq, seq, target, snap, phase, buf, singleton,
                     lagging, crashes>>
  BY DEF ApplyCommitted
<1>2. d \in Docs /\ seq[w] \in Nat \ {0} /\ w \in rows[d]
  BY <1>1 DEF IInv, TypeOK, TargetInv, RowsInv
\* the document of a staged update has a singleton: it is resident
<1>3. phase[d] = "hot"
  BY <1>1, <1>2 DEF IInv, ResidencyInv
<1>4. /\ resident' = [resident EXCEPT ![d] = @ \cup {w}]
      /\ view' = [p \in Procs |->
                    IF pc[p] = "attached" /\ target[p] = d
                    THEN view[p] \cup {w} ELSE view[p]]
      /\ AdvanceWatermark(d, seq[w])
  BY <1>3 DEF ApplyCommitted
<1>5. /\ pc'[w] = "done"
      /\ \A x \in Procs : x # w => pc'[x] = pc[x]
  BY <1>1 DEF IInv, TypeOK
<1>6. /\ lockQ' \in [Docs -> Seq(Writers \cup Readers)]
      /\ \A e \in Docs \ {d} : lockQ'[e] = lockQ[e]
  BY <1>1, <1>2, ReleaseFacts DEF IInv, Holds
\* nobody is inside the lock that w holds
<1>7. \A q \in Writers \cup Readers :
         pc[q] \in Critical => Holds(q, target[q]) /\ target[q] \in Docs \ {d}
  BY <1>1, <1>2 DEF IInv, LockInv, TargetInv, Holds
\* #advanceWatermark stays within the gap-free run of applied seqs
<1>8. /\ mark' \in [Docs -> Nat] /\ ahead' \in [Docs -> SUBSET Nat]
      /\ \A e \in Docs \ {d} : mark'[e] = mark[e] /\ ahead'[e] = ahead[e]
      /\ mark'[d] < nextSeq[d]
      /\ ahead'[d] \subseteq 1..(nextSeq[d] - 1)
      /\ \A n \in Nat : n > 0 /\ (n <= mark'[d] \/ n \in ahead'[d]) =>
           n <= mark[d] \/ n \in ahead[d] \/ n = seq[w]
  <2>1. /\ mark \in [Docs -> Nat] /\ ahead \in [Docs -> SUBSET Nat]
        /\ nextSeq[d] \in Nat /\ mark[d] \in Nat /\ mark[d] < nextSeq[d]
        /\ ahead[d] \subseteq 1..(nextSeq[d] - 1)
    BY <1>2 DEF IInv, TypeOK, ResidentInv
  <2>2. seq[w] \in 1..(nextSeq[d] - 1)
    BY <1>2 DEF IInv, SeqGapFree
  <2>3. CASE seq[w] <= mark[d]
    <3>1. mark' = mark /\ ahead' = ahead
      BY <2>3, <1>4 DEF AdvanceWatermark
    <3> QED BY <3>1, <2>1
  <2>4. CASE seq[w] > mark[d] + 1
    <3>1. mark' = mark /\ ahead' = [ahead EXCEPT ![d] = @ \cup {seq[w]}]
      BY <2>4, <1>4, <1>2, <2>1 DEF AdvanceWatermark
    <3>2. ahead'[d] = ahead[d] \cup {seq[w]}
      BY <3>1, <2>1, <1>2
    <3> QED BY <3>1, <3>2, <2>1, <2>2, <1>2
  <2>5. CASE seq[w] = mark[d] + 1
    <3> DEFINE n == RunEnd(seq[w], ahead[d])
    <3>1. /\ mark' = [mark EXCEPT ![d] = n]
          /\ ahead' = [ahead EXCEPT ![d] = @ \ (seq[w] + 1)..n]
      BY <2>5, <1>4, <1>2, <2>1 DEF AdvanceWatermark
    <3>2. n \in {seq[w]} \cup ahead[d] /\ (seq[w] + 1)..n \subseteq ahead[d]
      BY <1>2, <2>1, RunEndFacts
    <3>3. n \in Nat /\ n < nextSeq[d]
      BY <3>2, <2>1, <2>2
    <3>4. mark'[d] = n /\ ahead'[d] \subseteq ahead[d]
      BY <3>1, <2>1, <1>2
    <3>5. ASSUME NEW k \in Nat, k <= n, ~(k <= mark[d]), k # seq[w]
          PROVE  k \in ahead[d]
      BY <3>2, <3>3, <3>5, <2>5, <2>1
    <3> HIDE DEF n
    <3> QED BY <3>1, <3>3, <3>4, <3>5, <2>1, <1>2
  <2> QED BY <2>1, <2>3, <2>4, <2>5, <1>2
<1>9. TypeOK'
  <2>1. view' \in [Procs -> SUBSET Writers]
    BY <1>4 DEF IInv, TypeOK
  <2>2. resident' \in [Docs -> SUBSET Writers]
    <3>1. resident \in [Docs -> SUBSET Writers] /\ resident[d] \cup {w} \in SUBSET Writers
      BY <1>2 DEF IInv, TypeOK
    <3> QED BY <3>1, <1>4
  <2> QED BY <1>1, <1>5, <1>6, <1>8, <2>1, <2>2 DEF IInv, TypeOK
<1>10. LockInv' /\ TargetInv'
  BY <1>1, <1>5, <1>6, <1>7 DEF IInv, TypeOK, LockInv, TargetInv, Holds
<1>11. RowsInv' /\ SeqGapFree' /\ SnapInv'
  BY <1>1, <1>5 DEF IInv, TypeOK, RowsInv, SeqGapFree, SnapInv
<1>12. \A x \in Writers : view'[x] = view[x]
  BY <1>4 DEF IInv, TypeOK
<1>13. StagedInv' /\ ResidencyInv'
  BY <1>1, <1>5, <1>12 DEF IInv, TypeOK, StagedInv, ResidencyInv
<1>14. /\ resident'[d] = resident[d] \cup {w}
       /\ \A e \in Docs \ {d} : resident'[e] = resident[e]
  BY <1>2, <1>4 DEF IInv, TypeOK
<1>15. LoadInv'
  <2>1. \A p \in Procs : pc'[p] \in {"hydrating", "fetched"} => pc'[p] = pc[p]
    BY <1>5
  <2>2. \A e \in Docs : phase[e] # "hot" => resident'[e] = {}
    BY <1>3, <1>14 DEF IInv, LoadInv
  <2> QED BY <1>1, <1>5, <2>1, <2>2 DEF IInv, LoadInv
<1>16. ResidentInv'
  <2>1. ASSUME NEW e \in Docs
        PROVE  /\ resident'[e] \subseteq rows[e]
               /\ mark'[e] < nextSeq[e]
               /\ ahead'[e] \subseteq 1..(nextSeq[e] - 1)
    BY <1>2, <1>8, <1>14 DEF IInv, ResidentInv
  <2>2. ASSUME NEW e \in Docs, phase[e] = "hot", NEW x \in rows[e]
        PROVE  /\ seq[x] <= mark'[e] \/ seq[x] \in ahead'[e] => x \in resident'[e]
               /\ \/ x \in resident'[e] \cup lagging
                  \/ pc'[x] \in {"committed", "applyWait"}
    <3>1. /\ seq[x] <= mark[e] \/ seq[x] \in ahead[e] => x \in resident[e]
          /\ \/ x \in resident[e] \cup lagging
             \/ pc[x] \in {"committed", "applyWait"}
      BY <2>2 DEF IInv, ResidentInv
    <3>2. x \in Writers /\ seq[x] \in Nat /\ seq[x] > 0
      BY DEF IInv, TypeOK, RowsInv
    <3>3. CASE e # d
      <4>1. x # w
        BY <3>3, <1>2 DEF IInv, RowsInv
      <4>2. pc'[x] = pc[x] /\ resident'[e] = resident[e] /\ mark'[e] = mark[e]
            /\ ahead'[e] = ahead[e]
        BY <4>1, <3>2, <3>3, <1>5, <1>8, <1>14
      <4> QED BY <4>2, <3>1
    <3>4. CASE e = d
      <4>1. seq[x] = seq[w] => x = w
        BY <3>4, <1>2 DEF IInv, SeqGapFree
      <4> QED BY <3>1, <3>2, <3>4, <4>1, <1>5, <1>8, <1>14
    <3> QED BY <3>3, <3>4
  <2> QED BY <1>1, <2>1, <2>2 DEF ResidentInv
<1>17. CloneInv'
  <2>1. \A x \in Writers : pc[x] = "snapped" => mark'[target[x]] = mark[target[x]]
    BY <1>7, <1>8
  <2> QED BY <1>1, <1>5, <1>12, <2>1 DEF IInv, CloneInv
<1>18. ViewInv'
  <2>1. \A o \in Readers \cup Clients :
          /\ pc'[o] = pc[o]
          /\ \/ view'[o] = view[o]
             \/ /\ pc[o] = "attached" /\ target[o] = d
                /\ view'[o] = view[o] \cup {w}
    BY <1>4, <1>5 DEF IInv, TypeOK
  <2>2. \A r \in Readers : pc[r] # "attached"
    BY DEF IInv, TypeOK
  <2> QED BY <1>1, <1>2, <2>1, <2>2 DEF IInv, ViewInv
<1> QED
  BY <1>9, <1>10, <1>11, <1>13, <1>15, <1>16, <1>17, <1>18 DEF IInv

\* Writing the row keeps the invariant: under the counter lock and without a
\* conflict the clone holds exactly the committed rows.
LEMMA WriteRowKeeps ==
  ASSUME IInv, NEW w \in Writers, WriteRow(w) PROVE IInv'
<1> DEFINE d == target[w]
<1>0. USE ProcsAreDistinct, NoDocIsNoDoc
<1>1. /\ pc[w] = "cloned" /\ Release(d)
      /\ ~CounterLocked(d) /\ rows[d] = snap[w]
      /\ pc' = [pc EXCEPT ![w] = "handled"]
      /\ seq' = [seq EXCEPT ![w] = nextSeq[d]]
      /\ UNCHANGED <<rows, nextSeq, target, snap, view, memory, lagging, crashes>>
  BY DEF WriteRow
<1>2. d \in Docs /\ Holds(w, d) /\ ~(seq[w] > 0) /\ nextSeq[d] \in Nat \ {0}
  BY <1>1 DEF IInv, TypeOK, TargetInv, LockInv
<1>3. \A e \in Docs : w \notin rows[e]
  BY <1>2 DEF IInv, RowsInv
<1>4. /\ pc'[w] = "handled" /\ seq'[w] = nextSeq[d]
      /\ \A x \in Procs : x # w => pc'[x] = pc[x]
      /\ \A x \in Writers : x # w => seq'[x] = seq[x]
  BY <1>1 DEF IInv, TypeOK
<1>5. /\ lockQ' \in [Docs -> Seq(Writers \cup Readers)]
      /\ \A e \in Docs \ {d} : lockQ'[e] = lockQ[e]
  BY <1>1, <1>2, ReleaseFacts DEF IInv, Holds
<1>6. \A q \in Writers \cup Readers : q # w /\ pc[q] \in Critical =>
         Holds(q, target[q]) /\ target[q] \in Docs \ {d}
  BY <1>1, <1>2 DEF IInv, LockInv, TargetInv, Holds
<1>7. TypeOK'
  BY <1>1, <1>2, <1>5 DEF IInv, TypeOK
<1>8. LockInv' /\ TargetInv'
  BY <1>1, <1>2, <1>4, <1>5, <1>6 DEF IInv, LockInv, TargetInv, Holds
<1>9. RowsInv'
  <2>1. ASSUME NEW e \in Docs, NEW x \in Writers
        PROVE  x \in rows[e] <=> seq'[x] > 0 /\ pc'[x] # "handled" /\ target[x] = e
    <3>1. CASE x = w
      BY <3>1, <1>3, <1>4
    <3>2. CASE x # w
      BY <3>2, <1>4 DEF IInv, RowsInv
    <3> QED BY <3>1, <3>2
  <2> QED BY <1>1, <2>1 DEF RowsInv
<1>10. \A e \in Docs : \A x \in rows[e] : seq'[x] = seq[x] /\ pc'[x] = pc[x]
  BY <1>3, <1>4 DEF IInv, TypeOK
<1>11. SeqGapFree' /\ ResidentInv'
  <2>1. \A e \in Docs : {seq'[x] : x \in rows[e]} = {seq[x] : x \in rows[e]}
    BY <1>10
  <2> QED BY <1>1, <1>10, <2>1 DEF IInv, SeqGapFree, ResidentInv
<1>12. SnapInv' /\ ResidencyInv'
  BY <1>1, <1>4 DEF IInv, SnapInv, ResidencyInv
\* the clone holds everything the transaction sees, and it sees every row
<1>13. view[w] = rows[d]
  BY <1>1 DEF IInv, CloneInv
<1>14. StagedInv'
  <2>1. ASSUME NEW x \in Writers, pc'[x] = "handled", seq'[x] > 0
        PROVE  /\ seq'[x] = nextSeq[target[x]]
               /\ view[x] = rows[target[x]]
               /\ x # w => target[x] # d
    <3>1. CASE x = w
      BY <3>1, <1>4, <1>13
    <3>2. CASE x # w
      <4>1. pc[x] = "handled" /\ seq[x] > 0 /\ seq'[x] = seq[x]
        BY <3>2, <2>1, <1>4
      <4> QED BY <4>1, <1>1 DEF IInv, StagedInv, CounterLocked
    <3> QED BY <3>1, <3>2
  <2>2. ASSUME NEW x \in Writers, pc'[x] = "handled", seq'[x] > 0,
               NEW y \in Writers, pc'[y] = "handled", seq'[y] > 0,
               target[x] = target[y]
        PROVE  x = y
    <3>1. CASE x = w \/ y = w
      BY <3>1, <2>1, <2>2
    <3>2. CASE x # w /\ y # w
      BY <3>2, <2>2, <1>4 DEF IInv, StagedInv
    <3> QED BY <3>1, <3>2
  <2> QED BY <1>1, <2>1, <2>2 DEF StagedInv
<1>15. LoadInv'
  BY <1>1, <1>4 DEF IInv, LoadInv
<1>16. CloneInv'
  <2>1. \A x \in Writers : pc[x] = "snapped" =>
           \A y \in snap[x] : y \in Writers /\ y # w
    BY <1>3 DEF IInv, TypeOK, SnapInv, TargetInv
  <2> QED BY <1>1, <1>4, <2>1 DEF IInv, CloneInv
<1>17. ViewInv'
  BY <1>1, <1>4 DEF IInv, ViewInv
<1> QED
  BY <1>7, <1>8, <1>9, <1>11, <1>12, <1>14, <1>15, <1>16, <1>17 DEF IInv

\* A hydration's read keeps the invariant: whoever reads, the rows are all
\* the committed ones, for no dispatch can have added one.
LEMMA FetchRowsKeeps ==
  ASSUME IInv, NEW p \in Procs, FetchRows(p) PROVE IInv'
<1> DEFINE d == target[p]
<1>0. USE ProcsAreDistinct, NoDocIsNoDoc
<1>1. /\ pc[p] = "hydrating"
      /\ pc' = [pc EXCEPT ![p] = "fetched"]
      /\ phase' = [phase EXCEPT ![d] = "fetched"]
      /\ buf' = [buf EXCEPT ![d] = IF p \in Writers THEN snap[p] ELSE rows[d]]
      /\ UNCHANGED <<rows, nextSeq, seq, target, snap, view, lockQ, resident,
                     mark, ahead, singleton, lagging, crashes>>
  BY DEF FetchRows
<1>2. d \in Docs /\ phase[d] = "loading" /\ singleton[d] = FALSE
  BY <1>1 DEF IInv, TypeOK, TargetInv, LoadInv, ResidencyInv
\* no dispatch has been able to add a row since p's transaction began
<1>3. p \in Writers => snap[p] = rows[d]
  BY <1>1, <1>2 DEF IInv, SnapInv
<1>4. /\ pc'[p] = "fetched"
      /\ \A x \in Procs : x # p => pc'[x] = pc[x]
      /\ phase'[d] = "fetched" /\ buf'[d] = rows[d]
      /\ \A e \in Docs \ {d} : phase'[e] = phase[e] /\ buf'[e] = buf[e]
  BY <1>1, <1>2, <1>3 DEF IInv, TypeOK
<1>5. TypeOK'
  BY <1>1, <1>2, <1>3 DEF IInv, TypeOK
<1>6. LockInv' /\ TargetInv' /\ RowsInv' /\ SeqGapFree'
  BY <1>1, <1>4
  DEF IInv, TypeOK, LockInv, Holds, TargetInv, RowsInv, SeqGapFree
<1>7. SnapInv' /\ StagedInv' /\ ResidencyInv'
  BY <1>1, <1>2, <1>4 DEF IInv, TypeOK, SnapInv, StagedInv, ResidencyInv
<1>8. LoadInv'
  <2>1. \A q \in Procs : q # p /\ pc'[q] \in {"hydrating", "fetched"} =>
           pc[q] = pc'[q] /\ target[q] # d
    BY <1>1, <1>4 DEF IInv, LoadInv
  <2>2. \A q \in Procs : pc'[q] \in {"hydrating", "fetched"} => target[q] \in Docs
    BY <1>1, <1>4 DEF IInv, TargetInv, TypeOK
  <2>3. ASSUME NEW q \in Procs
        PROVE  /\ pc'[q] = "hydrating" => phase'[target[q]] = "loading"
               /\ pc'[q] = "fetched" => phase'[target[q]] = "fetched"
    <3>1. CASE q = p
      BY <3>1, <1>4
    <3>2. CASE q # p
      BY <3>2, <2>1, <2>2, <1>4 DEF IInv, LoadInv
    <3> QED BY <3>1, <3>2
  <2>4. ASSUME NEW q \in Procs, NEW r \in Procs, target[q] = target[r],
               {pc'[q], pc'[r]} \subseteq {"hydrating", "fetched"}
        PROVE  q = r
    <3>1. CASE q = p \/ r = p
      BY <3>1, <2>1, <2>4
    <3>2. CASE q # p /\ r # p
      BY <3>2, <2>4, <1>4 DEF IInv, LoadInv
    <3> QED BY <3>1, <3>2
  <2>5. \A e \in Docs :
          /\ phase'[e] = "fetched" => buf'[e] = rows[e]
          /\ phase'[e] # "fetched" => buf'[e] = {}
          /\ phase'[e] # "hot" => resident[e] = {}
    BY <1>2, <1>4 DEF IInv, LoadInv
  <2> QED BY <1>1, <2>3, <2>4, <2>5 DEF LoadInv
<1>9. ResidentInv'
  <2>1. \A e \in Docs : phase'[e] = "hot" => phase[e] = "hot"
    BY <1>4
  <2>2. \A e \in Docs : \A x \in rows[e] :
          pc[x] \in {"committed", "applyWait"} => pc'[x] = pc[x]
    BY <1>1, <1>4 DEF IInv, TypeOK
  <2> QED BY <1>1, <2>1, <2>2 DEF IInv, ResidentInv
<1>10. CloneInv' /\ ViewInv'
  BY <1>1, <1>4 DEF IInv, CloneInv, ViewInv
<1> QED BY <1>5, <1>6, <1>7, <1>8, <1>9, <1>10 DEF IInv

\* The watermark a hydration sets, the last seq of its rows, covers all of
\* them and is below next_seq, because committed rows are gap-free.
LEMMA LastSeqFacts ==
  ASSUME IInv, NEW d \in Docs
  PROVE  LastSeq(rows[d]) = nextSeq[d] - 1
<1>1. nextSeq[d] \in Nat \ {0} /\ {seq[x] : x \in rows[d]} = 1..(nextSeq[d] - 1)
  BY DEF IInv, TypeOK, SeqGapFree
<1>2. CASE rows[d] = {}
  <2>1. 1..(nextSeq[d] - 1) = {}
    BY <1>1, <1>2
  <2>2. nextSeq[d] = 1
    BY <2>1, <1>1
  <2> QED BY <2>2, <1>2 DEF LastSeq
<1>3. CASE rows[d] # {}
  <2>1. nextSeq[d] - 1 \in {seq[x] : x \in rows[d]}
    <3>1. PICK x \in rows[d] : TRUE
      BY <1>3
    <3>2. seq[x] \in 1..(nextSeq[d] - 1)
      BY <1>1
    <3> QED BY <1>1, <3>2
  <2>2. \A x \in rows[d] : seq[x] \in 1..(nextSeq[d] - 1)
    BY <1>1
  <2>3. /\ LastSeq(rows[d]) \in {seq[x] : x \in rows[d]}
        /\ \A x \in rows[d] : seq[x] <= LastSeq(rows[d])
    BY <1>3, <2>1, <2>2, <1>1 DEF LastSeq
  <2>4. LastSeq(rows[d]) \in 1..(nextSeq[d] - 1)
    BY <2>3, <1>1
  <2>5. nextSeq[d] - 1 <= LastSeq(rows[d])
    BY <2>1, <2>3
  <2> QED BY <2>4, <2>5, <1>1
<1> QED BY <1>2, <1>3

\* Opening a transaction keeps the invariant.
LEMMA BeginTxKeeps ==
  ASSUME IInv, NEW w \in Writers, NEW d \in Docs \cup {NoDoc}, BeginTx(w, d)
  PROVE  IInv'
<1>0. USE ProcsAreDistinct, NoDocIsNoDoc
<1>1. TypeOK'
  BY DEF IInv, TypeOK, TargetInv, BeginTx
<1>2. LockInv' /\ TargetInv'
  BY DEF IInv, TypeOK, LockInv, TargetInv, BeginTx, Holds
<1>3. RowsInv' /\ SeqGapFree'
  <2>1. RowsInv'
    BY DEF IInv, TypeOK, TargetInv, RowsInv, BeginTx
  <2>2. SeqGapFree'
    BY DEF IInv, SeqGapFree, BeginTx
  <2> QED BY <2>1, <2>2
<1>4. SnapInv' /\ StagedInv' /\ ResidencyInv'
  BY DEF IInv, TypeOK, TargetInv, SnapInv, StagedInv, ResidencyInv, LoadInv,
         BeginTx
<1>5. LoadInv'
  BY DEF IInv, TypeOK, TargetInv, LoadInv, ResidencyInv, BeginTx
<1>6. ResidentInv'
  BY DEF IInv, TypeOK, TargetInv, RowsInv, ResidentInv, LoadInv, BeginTx
<1>7. CloneInv' /\ ViewInv'
  BY DEF IInv, TypeOK, TargetInv, SnapInv, ResidencyInv, LoadInv, ResidentInv,
         LockInv, CloneInv, ViewInv, BeginTx
<1> QED BY <1>1, <1>2, <1>3, <1>4, <1>5, <1>6, <1>7 DEF IInv

\* A handler without ctx.transact keeps the invariant.
LEMMA SkipTransactKeeps ==
  ASSUME IInv, NEW w \in Writers, SkipTransact(w) PROVE IInv'
<1>0. USE ProcsAreDistinct, NoDocIsNoDoc
<1>1. TypeOK'
  BY DEF IInv, TypeOK, TargetInv, SkipTransact
<1>2. LockInv' /\ TargetInv'
  BY DEF IInv, TypeOK, LockInv, TargetInv, SkipTransact, Holds
<1>3. RowsInv' /\ SeqGapFree'
  BY DEF IInv, TypeOK, TargetInv, RowsInv, SeqGapFree, SkipTransact
<1>4. SnapInv' /\ StagedInv' /\ ResidencyInv'
  BY DEF IInv, TypeOK, TargetInv, SnapInv, StagedInv, ResidencyInv, LoadInv,
         SkipTransact
<1>5. LoadInv'
  BY DEF IInv, TypeOK, TargetInv, LoadInv, ResidencyInv, SkipTransact
<1>6. ResidentInv'
  BY DEF IInv, TypeOK, TargetInv, RowsInv, ResidentInv, LoadInv, SkipTransact
<1>7. CloneInv' /\ ViewInv'
  BY DEF IInv, TypeOK, TargetInv, SnapInv, ResidencyInv, LoadInv, ResidentInv,
         LockInv, CloneInv, ViewInv, SkipTransact
<1> QED BY <1>1, <1>2, <1>3, <1>4, <1>5, <1>6, <1>7 DEF IInv

\* Cloning the resident document keeps the invariant.
LEMMA SnapshotResidentKeeps ==
  ASSUME IInv, NEW w \in Writers, SnapshotResident(w) PROVE IInv'
<1>0. USE ProcsAreDistinct, NoDocIsNoDoc
<1>1. TypeOK'
  BY DEF IInv, TypeOK, TargetInv, SnapshotResident
<1>2. LockInv' /\ TargetInv'
  BY DEF IInv, TypeOK, LockInv, TargetInv, SnapshotResident, Holds
<1>3. RowsInv' /\ SeqGapFree'
  BY DEF IInv, TypeOK, TargetInv, RowsInv, SeqGapFree, SnapshotResident
<1>4. SnapInv' /\ StagedInv' /\ ResidencyInv'
  BY DEF IInv, TypeOK, TargetInv, SnapInv, StagedInv, ResidencyInv, LoadInv,
         SnapshotResident
<1>5. LoadInv'
  BY DEF IInv, TypeOK, TargetInv, LoadInv, ResidencyInv, SnapshotResident
<1>6. ResidentInv'
  BY DEF IInv, TypeOK, TargetInv, RowsInv, ResidentInv, LoadInv,
         SnapshotResident
<1>7. CloneInv' /\ ViewInv'
  BY DEF IInv, TypeOK, TargetInv, SnapInv, ResidencyInv, LoadInv, ResidentInv,
         LockInv, CloneInv, ViewInv, SnapshotResident
<1> QED BY <1>1, <1>2, <1>3, <1>4, <1>5, <1>6, <1>7 DEF IInv

\* Reading the tail keeps the invariant: what the clone lacks of the snapshot
\* is above the watermark.
LEMMA ReadTailKeeps ==
  ASSUME IInv, NEW w \in Writers, ReadTail(w) PROVE IInv'
<1>0. USE ProcsAreDistinct, NoDocIsNoDoc
<1>1. TypeOK'
  BY DEF IInv, TypeOK, TargetInv, ReadTail
<1>2. LockInv' /\ TargetInv'
  BY DEF IInv, TypeOK, LockInv, TargetInv, ReadTail, Holds
<1>3. RowsInv' /\ SeqGapFree'
  BY DEF IInv, TypeOK, TargetInv, RowsInv, SeqGapFree, ReadTail
<1>4. SnapInv' /\ StagedInv' /\ ResidencyInv'
  BY DEF IInv, TypeOK, TargetInv, SnapInv, StagedInv, ResidencyInv, LoadInv,
         ReadTail
<1>5. LoadInv'
  BY DEF IInv, TypeOK, TargetInv, LoadInv, ResidencyInv, ReadTail
<1>6. ResidentInv'
  BY DEF IInv, TypeOK, TargetInv, RowsInv, ResidentInv, LoadInv, ReadTail
<1>7. CloneInv' /\ ViewInv'
  BY DEF IInv, TypeOK, TargetInv, SnapInv, ResidencyInv, LoadInv, ResidentInv,
         LockInv, CloneInv, ViewInv, ReadTail
<1> QED BY <1>1, <1>2, <1>3, <1>4, <1>5, <1>6, <1>7 DEF IInv

\* A handler that leaves the clone alone keeps the invariant.
LEMMA NoUpdateKeeps ==
  ASSUME IInv, NEW w \in Writers, NoUpdate(w) PROVE IInv'
<1>0. USE ProcsAreDistinct, NoDocIsNoDoc
<1>1. TypeOK'
  BY ReleaseFacts DEF IInv, TypeOK, TargetInv, LockInv, NoUpdate, Holds
<1>2. LockInv' /\ TargetInv'
  BY DEF IInv, TypeOK, LockInv, TargetInv, NoUpdate, Release, Holds
<1>3. RowsInv' /\ SeqGapFree'
  <2>1. RowsInv'
    BY DEF IInv, TypeOK, TargetInv, RowsInv, NoUpdate
  <2>2. SeqGapFree'
    BY DEF IInv, SeqGapFree, NoUpdate
  <2> QED BY <2>1, <2>2
<1>4. SnapInv' /\ StagedInv' /\ ResidencyInv'
  BY ZenonT(30) DEF IInv, TypeOK, TargetInv, SnapInv, StagedInv, ResidencyInv, LoadInv,
         NoUpdate
<1>5. LoadInv'
  BY DEF IInv, TypeOK, TargetInv, LoadInv, ResidencyInv, NoUpdate
<1>6. ResidentInv'
  BY DEF IInv, TypeOK, TargetInv, RowsInv, ResidentInv, LoadInv, NoUpdate
<1>7. CloneInv' /\ ViewInv'
  BY DEF IInv, TypeOK, TargetInv, SnapInv, ResidencyInv, LoadInv, ResidentInv,
         LockInv, CloneInv, ViewInv, NoUpdate, Holds
<1> QED BY <1>1, <1>2, <1>3, <1>4, <1>5, <1>6, <1>7 DEF IInv

\* An apply that throws keeps the invariant: its update joins lagging.
LEMMA ApplyThrowsKeeps ==
  ASSUME IInv, NEW w \in Writers, ApplyThrows(w) PROVE IInv'
<1>0. USE ProcsAreDistinct, NoDocIsNoDoc
<1>1. TypeOK'
  <2>1. target[w] \in Docs /\ Holds(w, target[w]) /\ Release(target[w])
    BY DEF IInv, TargetInv, ApplyThrows
  <2>2. lockQ' \in [Docs -> Seq(Writers \cup Readers)]
    BY <2>1, ReleaseFacts DEF IInv, Holds
  <2> QED BY <2>2 DEF IInv, TypeOK, ApplyThrows
<1>2. LockInv' /\ TargetInv'
  BY DEF IInv, TypeOK, LockInv, TargetInv, ApplyThrows, Release, Holds
<1>3. RowsInv' /\ SeqGapFree'
  BY DEF IInv, TypeOK, TargetInv, RowsInv, SeqGapFree, ApplyThrows
<1>4. SnapInv' /\ StagedInv' /\ ResidencyInv'
  BY DEF IInv, TypeOK, TargetInv, SnapInv, StagedInv, ResidencyInv, LoadInv,
         ApplyThrows
<1>5. LoadInv'
  BY DEF IInv, TypeOK, TargetInv, LoadInv, ResidencyInv, ApplyThrows
<1>6. ResidentInv'
  BY DEF IInv, TypeOK, TargetInv, RowsInv, ResidentInv, LoadInv, ApplyThrows
<1>7. CloneInv' /\ ViewInv'
  BY DEF IInv, TypeOK, TargetInv, SnapInv, ResidencyInv, LoadInv, ResidentInv,
         LockInv, CloneInv, ViewInv, ApplyThrows, Holds
<1> QED BY <1>1, <1>2, <1>3, <1>4, <1>5, <1>6, <1>7 DEF IInv

\* The failure's audit row keeps the invariant.
LEMMA AuditFailureKeeps ==
  ASSUME IInv, NEW w \in Writers, AuditFailure(w) PROVE IInv'
<1>0. USE ProcsAreDistinct, NoDocIsNoDoc
<1>1. TypeOK'
  BY DEF IInv, TypeOK, TargetInv, AuditFailure
<1>2. LockInv' /\ TargetInv'
  BY DEF IInv, TypeOK, LockInv, TargetInv, AuditFailure, Holds
<1>3. RowsInv' /\ SeqGapFree'
  BY DEF IInv, TypeOK, TargetInv, RowsInv, SeqGapFree, AuditFailure
<1>4. SnapInv' /\ StagedInv' /\ ResidencyInv'
  BY DEF IInv, TypeOK, TargetInv, SnapInv, StagedInv, ResidencyInv, LoadInv,
         AuditFailure
<1>5. LoadInv'
  BY DEF IInv, TypeOK, TargetInv, LoadInv, ResidencyInv, AuditFailure
<1>6. ResidentInv'
  BY DEF IInv, TypeOK, TargetInv, RowsInv, ResidentInv, LoadInv, AuditFailure
<1>7. CloneInv' /\ ViewInv'
  BY DEF IInv, TypeOK, TargetInv, SnapInv, ResidencyInv, LoadInv, ResidentInv,
         LockInv, CloneInv, ViewInv, AuditFailure
<1> QED BY <1>1, <1>2, <1>3, <1>4, <1>5, <1>6, <1>7 DEF IInv

\* Entering the lock keeps the invariant.
LEMMA AcquireKeeps ==
  ASSUME IInv, NEW p \in Procs, Acquire(p) PROVE IInv'
<1>0. USE ProcsAreDistinct, NoDocIsNoDoc
<1>1. TypeOK'
  BY DEF IInv, TypeOK, TargetInv, Acquire
<1>2. LockInv' /\ TargetInv'
  BY DEF IInv, TypeOK, LockInv, TargetInv, Acquire, Holds
<1>3. RowsInv' /\ SeqGapFree'
  BY DEF IInv, TypeOK, TargetInv, RowsInv, SeqGapFree, Acquire
<1>4. SnapInv' /\ StagedInv' /\ ResidencyInv'
  BY DEF IInv, TypeOK, TargetInv, SnapInv, StagedInv, ResidencyInv, LoadInv,
         Acquire
<1>5. LoadInv'
  BY DEF IInv, TypeOK, TargetInv, LoadInv, ResidencyInv, Acquire
<1>6. ResidentInv'
  BY DEF IInv, TypeOK, TargetInv, RowsInv, ResidentInv, LoadInv, Acquire
<1>7. CloneInv' /\ ViewInv'
  BY DEF IInv, TypeOK, TargetInv, SnapInv, ResidencyInv, LoadInv, ResidentInv,
         LockInv, CloneInv, ViewInv, Acquire
<1> QED BY <1>1, <1>2, <1>3, <1>4, <1>5, <1>6, <1>7 DEF IInv

\* Starting a hydration keeps the invariant.
LEMMA BeginLoadKeeps ==
  ASSUME IInv, NEW p \in Procs, BeginLoad(p) PROVE IInv'
<1>0. USE ProcsAreDistinct, NoDocIsNoDoc
<1>1. TypeOK'
  BY DEF IInv, TypeOK, TargetInv, BeginLoad
<1>2. LockInv' /\ TargetInv'
  BY DEF IInv, TypeOK, LockInv, TargetInv, BeginLoad, Holds
<1>3. RowsInv' /\ SeqGapFree'
  BY DEF IInv, TypeOK, TargetInv, RowsInv, SeqGapFree, BeginLoad
<1>4. SnapInv' /\ StagedInv' /\ ResidencyInv'
  BY DEF IInv, TypeOK, TargetInv, SnapInv, StagedInv, ResidencyInv, LoadInv,
         BeginLoad
<1>5. LoadInv'
  BY DEF IInv, TypeOK, TargetInv, LoadInv, ResidencyInv, BeginLoad
<1>6. ResidentInv'
  BY DEF IInv, TypeOK, TargetInv, RowsInv, ResidentInv, LoadInv, BeginLoad
<1>7. CloneInv' /\ ViewInv'
  BY DEF IInv, TypeOK, TargetInv, SnapInv, ResidencyInv, LoadInv, ResidentInv,
         LockInv, CloneInv, ViewInv, BeginLoad
<1> QED BY <1>1, <1>2, <1>3, <1>4, <1>5, <1>6, <1>7 DEF IInv

\* A hydration that throws keeps the invariant: of those who joined it at
\* most one is in the lock.
LEMMA LoadThrowsKeeps ==
  ASSUME IInv, NEW p \in Procs, LoadThrows(p) PROVE IInv'
<1>0. USE ProcsAreDistinct, NoDocIsNoDoc
<1>1. TypeOK'
  <2> DEFINE d == target[p]
             joined == {q \in Procs : pc[q] \in Loading /\ target[q] = d}
  <2>1. d \in Docs
    BY DEF IInv, TypeOK, TargetInv, LoadThrows
  <2>2. lockQ' \in [Docs -> Seq(Writers \cup Readers)]
    <3>1. CASE joined \cap (Writers \cup Readers) = {}
      <4>1. lockQ' = lockQ
        BY <3>1 DEF LoadThrows
      <4> QED BY <4>1 DEF IInv, TypeOK
    <3>2. CASE joined \cap (Writers \cup Readers) # {}
      <4>1. PICK q \in Writers \cup Readers : pc[q] \in Critical /\ target[q] = d
        BY <3>2
      <4>2. lockQ[d] # <<>>
        BY <4>1 DEF IInv, LockInv, Holds
      <4>3. Release(d)
        BY <3>2 DEF LoadThrows
      <4> QED BY <2>1, <4>2, <4>3, ReleaseFacts DEF IInv
    <3> QED BY <3>1, <3>2
  <2>3. \A q \in Procs :
          /\ q \in Writers => pc'[q] \in {pc[q], "failing"}
          /\ q \in Readers => pc'[q] \in {pc[q], "auditing"}
          /\ q \in Clients => pc'[q] \in {pc[q], "idle"}
    BY DEF LoadThrows
  <2>4. pc' \in [Procs -> WriterPC \cup ReaderPC \cup ClientPC]
    <3>1. \A q \in Procs : pc[q] \in WriterPC \cup ReaderPC \cup ClientPC
      BY DEF IInv, TypeOK
    <3>2. pc' = [q \in Procs |-> pc'[q]]
      BY DEF LoadThrows
    <3>3. \A q \in Procs : pc'[q] \in WriterPC \cup ReaderPC \cup ClientPC
      BY <2>3, <3>1
    <3> QED BY <3>2, <3>3
  <2>5. /\ \A w \in Writers : pc'[w] \in WriterPC
        /\ \A r \in Readers : pc'[r] \in ReaderPC
        /\ \A c \in Clients : pc'[c] \in ClientPC
    BY <2>3 DEF IInv, TypeOK
  <2>6. /\ phase' \in [Docs -> {"cold", "loading", "fetched", "hot"}]
        /\ buf' \in [Docs -> SUBSET Writers]
    BY DEF IInv, TypeOK, LoadThrows
  <2> QED BY <2>2, <2>4, <2>5, <2>6 DEF IInv, TypeOK, LoadThrows
<1>2. LockInv' /\ TargetInv'
  BY DEF IInv, TypeOK, LockInv, TargetInv, LoadThrows, Release, Holds
<1>3. RowsInv' /\ SeqGapFree'
  BY DEF IInv, TypeOK, TargetInv, RowsInv, SeqGapFree, LoadThrows
<1>4. SnapInv' /\ StagedInv' /\ ResidencyInv'
  BY DEF IInv, TypeOK, TargetInv, SnapInv, StagedInv, ResidencyInv, LoadInv,
         LoadThrows
<1>5. LoadInv'
  BY DEF IInv, TypeOK, TargetInv, LoadInv, ResidencyInv, LoadThrows
<1>6. ResidentInv'
  BY DEF IInv, TypeOK, TargetInv, RowsInv, ResidentInv, LoadInv, LoadThrows
<1>7. CloneInv' /\ ViewInv'
  BY DEF IInv, TypeOK, TargetInv, SnapInv, ResidencyInv, LoadInv, ResidentInv,
         LockInv, CloneInv, ViewInv, LoadThrows, Holds
<1> QED BY <1>1, <1>2, <1>3, <1>4, <1>5, <1>6, <1>7 DEF IInv

\* Opening the direct connection keeps the invariant.
LEMMA OpenedKeeps ==
  ASSUME IInv, NEW p \in Procs, Opened(p) PROVE IInv'
<1>0. USE ProcsAreDistinct, NoDocIsNoDoc
<1>1. TypeOK'
  BY DEF IInv, TypeOK, TargetInv, Opened
<1>2. LockInv' /\ TargetInv'
  BY DEF IInv, TypeOK, LockInv, TargetInv, Opened, Holds
<1>3. RowsInv' /\ SeqGapFree'
  BY DEF IInv, TypeOK, TargetInv, RowsInv, SeqGapFree, Opened
<1>4. SnapInv' /\ StagedInv' /\ ResidencyInv'
  BY DEF IInv, TypeOK, TargetInv, SnapInv, StagedInv, ResidencyInv, LoadInv,
         Opened
<1>5. LoadInv'
  BY DEF IInv, TypeOK, TargetInv, LoadInv, ResidencyInv, Opened
<1>6. ResidentInv'
  BY DEF IInv, TypeOK, TargetInv, RowsInv, ResidentInv, LoadInv, Opened
<1>7. CloneInv' /\ ViewInv'
  BY DEF IInv, TypeOK, TargetInv, SnapInv, ResidencyInv, LoadInv, ResidentInv,
         LockInv, CloneInv, ViewInv, Opened
<1> QED BY <1>1, <1>2, <1>3, <1>4, <1>5, <1>6, <1>7 DEF IInv

\* A read joining the lock queue keeps the invariant.
LEMMA CallReadKeeps ==
  ASSUME IInv, NEW r \in Readers, NEW d \in Docs, CallRead(r, d) PROVE IInv'
<1>0. USE ProcsAreDistinct, NoDocIsNoDoc
<1>1. TypeOK'
  BY SMTT(20), EnqueueFacts DEF IInv, TypeOK, TargetInv, CallRead
<1>2. LockInv' /\ TargetInv'
  BY EnqueueFacts DEF IInv, TypeOK, LockInv, TargetInv, CallRead
<1>3. RowsInv' /\ SeqGapFree'
  BY DEF IInv, TypeOK, TargetInv, RowsInv, SeqGapFree, CallRead
<1>4. SnapInv' /\ StagedInv' /\ ResidencyInv'
  BY DEF IInv, TypeOK, TargetInv, SnapInv, StagedInv, ResidencyInv, LoadInv,
         CallRead
<1>5. LoadInv'
  BY DEF IInv, TypeOK, TargetInv, LoadInv, ResidencyInv, CallRead
<1>6. ResidentInv'
  BY DEF IInv, TypeOK, TargetInv, RowsInv, ResidentInv, LoadInv, CallRead
<1>7. CloneInv' /\ ViewInv'
  BY DEF IInv, TypeOK, TargetInv, SnapInv, ResidencyInv, LoadInv, ResidentInv,
         LockInv, CloneInv, ViewInv, CallRead
<1> QED BY <1>1, <1>2, <1>3, <1>4, <1>5, <1>6, <1>7 DEF IInv

\* Reading the resident document keeps the invariant.
LEMMA ReadResidentKeeps ==
  ASSUME IInv, NEW r \in Readers, ReadResident(r) PROVE IInv'
<1>0. USE ProcsAreDistinct, NoDocIsNoDoc
<1>1. TypeOK'
  BY SMTT(20), ReleaseFacts DEF IInv, TypeOK, TargetInv, LockInv, ReadResident, Holds
<1>2. LockInv' /\ TargetInv'
  BY DEF IInv, TypeOK, LockInv, TargetInv, ReadResident, Release, Holds
<1>3. RowsInv' /\ SeqGapFree'
  BY DEF IInv, TypeOK, TargetInv, RowsInv, SeqGapFree, ReadResident
<1>4. SnapInv' /\ StagedInv' /\ ResidencyInv'
  BY DEF IInv, TypeOK, TargetInv, SnapInv, StagedInv, ResidencyInv, LoadInv,
         ReadResident
<1>5. LoadInv'
  BY DEF IInv, TypeOK, TargetInv, LoadInv, ResidencyInv, ReadResident
<1>6. ResidentInv'
  BY DEF IInv, TypeOK, TargetInv, RowsInv, ResidentInv, LoadInv, ReadResident
<1>7. CloneInv' /\ ViewInv'
  BY DEF IInv, TypeOK, TargetInv, SnapInv, ResidencyInv, LoadInv, ResidentInv,
         LockInv, CloneInv, ViewInv, ReadResident, Holds
<1> QED BY <1>1, <1>2, <1>3, <1>4, <1>5, <1>6, <1>7 DEF IInv

\* The read's audit row keeps the invariant.
LEMMA AuditReadKeeps ==
  ASSUME IInv, NEW r \in Readers, AuditRead(r) PROVE IInv'
<1>0. USE ProcsAreDistinct, NoDocIsNoDoc
<1>1. TypeOK'
  BY DEF IInv, TypeOK, TargetInv, AuditRead
<1>2. LockInv' /\ TargetInv'
  BY DEF IInv, TypeOK, LockInv, TargetInv, AuditRead, Holds
<1>3. RowsInv' /\ SeqGapFree'
  BY DEF IInv, TypeOK, TargetInv, RowsInv, SeqGapFree, AuditRead
<1>4. SnapInv' /\ StagedInv' /\ ResidencyInv'
  BY DEF IInv, TypeOK, TargetInv, SnapInv, StagedInv, ResidencyInv, LoadInv,
         AuditRead
<1>5. LoadInv'
  BY DEF IInv, TypeOK, TargetInv, LoadInv, ResidencyInv, AuditRead
<1>6. ResidentInv'
  BY DEF IInv, TypeOK, TargetInv, RowsInv, ResidentInv, LoadInv, AuditRead
<1>7. CloneInv' /\ ViewInv'
  BY DEF IInv, TypeOK, TargetInv, SnapInv, ResidencyInv, LoadInv, ResidentInv,
         LockInv, CloneInv, ViewInv, AuditRead
<1> QED BY <1>1, <1>2, <1>3, <1>4, <1>5, <1>6, <1>7 DEF IInv

\* A WebSocket authentication keeps the invariant.
LEMMA AuthenticateKeeps ==
  ASSUME IInv, NEW c \in Clients, NEW d \in Docs, Authenticate(c, d)
  PROVE  IInv'
<1>0. USE ProcsAreDistinct, NoDocIsNoDoc
<1>1. TypeOK'
  BY DEF IInv, TypeOK, TargetInv, Authenticate
<1>2. LockInv' /\ TargetInv'
  BY DEF IInv, TypeOK, LockInv, TargetInv, Authenticate, Holds
<1>3. RowsInv' /\ SeqGapFree'
  BY DEF IInv, TypeOK, TargetInv, RowsInv, SeqGapFree, Authenticate
<1>4. SnapInv' /\ StagedInv' /\ ResidencyInv'
  BY DEF IInv, TypeOK, TargetInv, SnapInv, StagedInv, ResidencyInv, LoadInv,
         Authenticate
<1>5. LoadInv'
  BY DEF IInv, TypeOK, TargetInv, LoadInv, ResidencyInv, Authenticate
<1>6. ResidentInv'
  BY DEF IInv, TypeOK, TargetInv, RowsInv, ResidentInv, LoadInv, Authenticate
<1>7. CloneInv' /\ ViewInv'
  BY DEF IInv, TypeOK, TargetInv, SnapInv, ResidencyInv, LoadInv, ResidentInv,
         LockInv, CloneInv, ViewInv, Authenticate
<1> QED BY <1>1, <1>2, <1>3, <1>4, <1>5, <1>6, <1>7 DEF IInv

\* A WebSocket attachment keeps the invariant.
LEMMA AttachKeeps ==
  ASSUME IInv, NEW c \in Clients, Attach(c) PROVE IInv'
<1>0. USE ProcsAreDistinct, NoDocIsNoDoc
<1>1. TypeOK'
  BY DEF IInv, TypeOK, TargetInv, Attach
<1>2. LockInv' /\ TargetInv'
  BY DEF IInv, TypeOK, LockInv, TargetInv, Attach, Holds
<1>3. RowsInv' /\ SeqGapFree'
  BY DEF IInv, TypeOK, TargetInv, RowsInv, SeqGapFree, Attach
<1>4. SnapInv' /\ StagedInv' /\ ResidencyInv'
  BY DEF IInv, TypeOK, TargetInv, SnapInv, StagedInv, ResidencyInv, LoadInv,
         Attach
<1>5. LoadInv'
  BY DEF IInv, TypeOK, TargetInv, LoadInv, ResidencyInv, Attach
<1>6. ResidentInv'
  BY DEF IInv, TypeOK, TargetInv, RowsInv, ResidentInv, LoadInv, Attach
<1>7. CloneInv' /\ ViewInv'
  BY DEF IInv, TypeOK, TargetInv, SnapInv, ResidencyInv, LoadInv, ResidentInv,
         LockInv, CloneInv, ViewInv, Attach
<1> QED BY <1>1, <1>2, <1>3, <1>4, <1>5, <1>6, <1>7 DEF IInv

\* A WebSocket detaching keeps the invariant.
LEMMA DetachKeeps ==
  ASSUME IInv, NEW c \in Clients, Detach(c) PROVE IInv'
<1>0. USE ProcsAreDistinct, NoDocIsNoDoc
<1>1. TypeOK'
  BY DEF IInv, TypeOK, TargetInv, Detach
<1>2. LockInv' /\ TargetInv'
  BY DEF IInv, TypeOK, LockInv, TargetInv, Detach, Holds
<1>3. RowsInv' /\ SeqGapFree'
  BY DEF IInv, TypeOK, TargetInv, RowsInv, SeqGapFree, Detach
<1>4. SnapInv' /\ StagedInv' /\ ResidencyInv'
  BY DEF IInv, TypeOK, TargetInv, SnapInv, StagedInv, ResidencyInv, LoadInv,
         Detach
<1>5. LoadInv'
  BY DEF IInv, TypeOK, TargetInv, LoadInv, ResidencyInv, Detach
<1>6. ResidentInv'
  BY DEF IInv, TypeOK, TargetInv, RowsInv, ResidentInv, LoadInv, Detach
<1>7. CloneInv' /\ ViewInv'
  BY DEF IInv, TypeOK, TargetInv, SnapInv, ResidencyInv, LoadInv, ResidentInv,
         LockInv, CloneInv, ViewInv, Detach
<1> QED BY <1>1, <1>2, <1>3, <1>4, <1>5, <1>6, <1>7 DEF IInv

\* Unloading keeps the invariant: nobody is connected, so nothing is staged.
LEMMA UnloadKeeps ==
  ASSUME IInv, NEW d \in Docs, Unload(d) PROVE IInv'
<1>0. USE ProcsAreDistinct, NoDocIsNoDoc
<1>1. TypeOK'
  BY DEF IInv, TypeOK, TargetInv, Unload
<1>2. LockInv' /\ TargetInv'
  BY DEF IInv, TypeOK, LockInv, TargetInv, Unload, Holds
<1>3. RowsInv' /\ SeqGapFree'
  BY DEF IInv, TypeOK, TargetInv, RowsInv, SeqGapFree, Unload
<1>4. SnapInv' /\ StagedInv' /\ ResidencyInv'
  BY DEF IInv, TypeOK, TargetInv, SnapInv, StagedInv, ResidencyInv, LoadInv,
         Unload
<1>5. LoadInv'
  BY DEF IInv, TypeOK, TargetInv, LoadInv, ResidencyInv, Unload
<1>6. ResidentInv'
  BY DEF IInv, TypeOK, TargetInv, RowsInv, ResidentInv, LoadInv, Unload
<1>7. CloneInv' /\ ViewInv'
  BY DEF IInv, TypeOK, TargetInv, SnapInv, ResidencyInv, LoadInv, ResidentInv,
         LockInv, CloneInv, ViewInv, Unload
<1> QED BY <1>1, <1>2, <1>3, <1>4, <1>5, <1>6, <1>7 DEF IInv

\* A throwing handler keeps the invariant.
LEMMA HandlerThrowsKeeps ==
  ASSUME IInv, NEW w \in Writers, HandlerThrows(w) PROVE IInv'
BY RollBackKeeps DEF HandlerThrows

\* A serialization failure keeps the invariant.
LEMMA WriteConflictKeeps ==
  ASSUME IInv, NEW w \in Writers, WriteConflict(w) PROVE IInv'
BY RollBackKeeps DEF WriteConflict

\* The end of a hydration keeps the invariant: the watermark is born
\* contiguous.
LEMMA FinishLoadKeeps ==
  ASSUME IInv, NEW p \in Procs, FinishLoad(p) PROVE IInv'
<1> DEFINE d == target[p]
<1>0. USE ProcsAreDistinct, NoDocIsNoDoc
<1>1. /\ pc[p] = "fetched"
      /\ pc' = [pc EXCEPT ![p] = "opening"]
      /\ phase' = [phase EXCEPT ![d] = "hot"]
      /\ resident' = [resident EXCEPT ![d] = buf[d]]
      /\ mark' = [mark EXCEPT ![d] = LastSeq(buf[d])]
      /\ ahead' = [ahead EXCEPT ![d] = {}]
      /\ buf' = [buf EXCEPT ![d] = {}]
      /\ UNCHANGED <<rows, nextSeq, seq, target, snap, view, lockQ, singleton,
                     lagging, crashes>>
  BY DEF FinishLoad
<1>2. d \in Docs /\ phase[d] = "fetched" /\ buf[d] = rows[d] /\ ~singleton[d]
  BY <1>1 DEF IInv, TargetInv, LoadInv, ResidencyInv
<1>3. LastSeq(buf[d]) = nextSeq[d] - 1 /\ LastSeq(buf[d]) \in Nat
  BY <1>2, LastSeqFacts DEF IInv, TypeOK
<1>4. TypeOK'
  BY <1>1, <1>2, <1>3 DEF IInv, TypeOK
<1>5. LockInv' /\ TargetInv' /\ RowsInv' /\ SeqGapFree'
  BY <1>1 DEF IInv, TypeOK, LockInv, Holds, TargetInv, RowsInv, SeqGapFree
<1>6. SnapInv' /\ StagedInv' /\ ResidencyInv'
  BY <1>1, <1>2 DEF IInv, TypeOK, SnapInv, StagedInv, ResidencyInv
<1>7. LoadInv'
  BY <1>1, <1>2 DEF IInv, TypeOK, TargetInv, LoadInv
<1>8. ResidentInv'
  BY <1>1, <1>2, <1>3 DEF IInv, TypeOK, ResidentInv
\* no clone is being built: it would need the singleton
<1>9. CloneInv'
  <2>1. \A x \in Writers : pc[x] \in {"snapped", "cloned"} =>
           target[x] \in Docs \ {d}
    BY <1>2 DEF IInv, TargetInv, ResidencyInv
  <2>2. \A e \in Docs \ {d} : mark'[e] = mark[e]
    BY <1>1, <1>2 DEF IInv, TypeOK
  <2>3. \A x \in Writers :
           pc'[x] \in {"snapped", "cloned"} => pc'[x] = pc[x]
    BY <1>1 DEF IInv, TypeOK
  <2> QED BY <1>1, <2>1, <2>2, <2>3 DEF IInv, CloneInv
<1>10. ViewInv'
  BY <1>1 DEF IInv, TypeOK, ViewInv
<1> QED BY <1>4, <1>5, <1>6, <1>7, <1>8, <1>9, <1>10 DEF IInv

\* A restart keeps the invariant: memory is empty, durable rows stay.
LEMMA CrashKeeps ==
  ASSUME IInv, Crash PROVE IInv'
<1>0. USE ProcsAreDistinct, NoDocIsNoDoc
<1>1. /\ \A w \in Writers : seq'[w] = IF pc[w] \in OpenTx THEN 0 ELSE seq[w]
      /\ \A p \in Procs :
           pc'[p] = IF p \in Clients THEN "idle"
                    ELSE IF pc[p] \in Finished \cup {"idle"} THEN pc[p]
                    ELSE "crashed"
      /\ \A d \in Docs : lockQ'[d] = <<>> /\ phase'[d] = "cold" /\ buf'[d] = {}
           /\ resident'[d] = {} /\ mark'[d] = 0 /\ ahead'[d] = {}
           /\ singleton'[d] = FALSE
      /\ UNCHANGED <<rows, nextSeq, target, snap>>
  BY DEF Crash
\* a committed row belongs to no open transaction
<1>2. \A d \in Docs : \A x \in rows[d] :
         x \in Writers /\ pc[x] \notin OpenTx /\ seq'[x] = seq[x]
  <2>1. \A d \in Docs : \A x \in rows[d] :
           x \in Writers /\ seq[x] > 0 /\ pc[x] # "handled"
    BY DEF IInv, TypeOK, RowsInv
  <2>2. \A x \in Writers : seq[x] > 0 /\ pc[x] # "handled" => pc[x] \notin OpenTx
    BY DEF IInv, TargetInv
  <2> QED BY <2>1, <2>2, <1>1
<1>3. TypeOK'
  <2>1. pc' \in [Procs -> WriterPC \cup ReaderPC \cup ClientPC]
    BY DEF IInv, TypeOK, Crash
  <2>2. seq' \in [Writers -> Nat] /\ view' \in [Procs -> SUBSET Writers]
    BY DEF IInv, TypeOK, Crash
  <2>3. lockQ' \in [Docs -> Seq(Writers \cup Readers)]
    <3>1. <<>> \in Seq(Writers \cup Readers)
      OBVIOUS
    <3> QED BY <3>1 DEF Crash
  <2>4. crashes' \in 0..MaxCrashes
    BY BoundAssumption DEF IInv, TypeOK, Crash
  <2> QED BY <1>1, <2>1, <2>2, <2>3, <2>4 DEF IInv, TypeOK, Crash
<1>4. LockInv' /\ TargetInv'
  <2>1. \A p \in Procs : pc'[p] \in Finished \cup {"idle"}
    BY <1>1
  <2>2. LockInv'
    BY <2>1 DEF LockInv
  <2>3. ASSUME NEW w \in Writers, seq'[w] > 0
        PROVE  target[w] \in Docs /\ pc'[w] \in {"done", "failed", "crashed"}
    <3>1. pc[w] \notin OpenTx /\ seq[w] > 0
      BY <2>3, <1>1
    <3>2. /\ target[w] \in Docs
          /\ pc[w] \in {"committed", "applyWait", "done", "failing", "failed", "crashed"}
      BY <3>1 DEF IInv, TargetInv
    <3> QED BY <3>2, <1>1
  <2>4. \A p \in Readers \cup Clients : pc'[p] # "idle" => target[p] \in Docs
    BY <1>1 DEF IInv, TargetInv
  <2> QED BY <1>1, <2>1, <2>2, <2>3, <2>4 DEF TargetInv
<1>5. RowsInv' /\ SeqGapFree'
  <2>1. \A d \in Docs : {seq'[x] : x \in rows[d]} = {seq[x] : x \in rows[d]}
    BY <1>2
  <2>2. SeqGapFree'
    BY <1>1, <1>2, <2>1 DEF IInv, SeqGapFree
  <2>3. ASSUME NEW d \in Docs, NEW w \in Writers
        PROVE  w \in rows[d] <=> seq'[w] > 0 /\ pc'[w] # "handled" /\ target[w] = d
    <3>1. w \in rows[d] <=> seq[w] > 0 /\ pc[w] # "handled" /\ target[w] = d
      BY DEF IInv, RowsInv
    <3>2. pc'[w] # "handled"
      BY <1>1 DEF IInv, TypeOK
    <3>3. CASE pc[w] \in OpenTx
      BY <3>3, <1>1, <1>2
    <3>4. CASE pc[w] \notin OpenTx
      BY <3>1, <3>2, <3>4, <1>1
    <3> QED BY <3>3, <3>4
  <2> QED BY <1>1, <2>2, <2>3 DEF RowsInv
<1>6. SnapInv' /\ StagedInv' /\ ResidencyInv' /\ LoadInv' /\ CloneInv'
  <2>1. \A p \in Procs : pc'[p] \in Finished \cup {"idle"}
    BY <1>1
  <2> QED
    BY <1>1, <2>1 DEF SnapInv, StagedInv, ResidencyInv, LoadInv, CloneInv
<1>7. ResidentInv'
  BY <1>1 DEF IInv, TypeOK, ResidentInv
<1>8. ViewInv'
  BY <1>1 DEF IInv, TypeOK, ViewInv, Crash
<1> QED BY <1>3, <1>4, <1>5, <1>6, <1>7, <1>8 DEF IInv

\* The invariant holds initially.
LEMMA InitEstablishes == Init => IInv
<1> SUFFICES ASSUME Init PROVE IInv
  OBVIOUS
<1>0. USE ProcsAreDistinct, NoDocIsNoDoc, BoundAssumption
<1>1. TypeOK
  <2>1. <<>> \in Seq(Writers \cup Readers)
    OBVIOUS
  <2> QED BY <2>1 DEF Init, TypeOK
<1>2. LockInv /\ TargetInv /\ RowsInv /\ SnapInv /\ StagedInv
  BY DEF Init, LockInv, TargetInv, RowsInv, SnapInv, StagedInv
<1>3. SeqGapFree
  BY DEF Init, SeqGapFree
<1>4. ResidencyInv /\ LoadInv /\ ResidentInv /\ CloneInv /\ ViewInv
  BY DEF Init, ResidencyInv, LoadInv, ResidentInv, CloneInv, ViewInv
<1> QED BY <1>1, <1>2, <1>3, <1>4 DEF IInv

\* A stuttering step keeps the invariant.
LEMMA StutterKeeps == ASSUME IInv, UNCHANGED vars PROVE IInv'
<1>1. TypeOK' /\ LockInv' /\ TargetInv' /\ RowsInv' /\ SeqGapFree'
  BY DEF IInv, vars, TypeOK, LockInv, Holds, TargetInv, RowsInv, SeqGapFree
<1>2. SnapInv' /\ StagedInv' /\ ResidencyInv' /\ LoadInv'
  BY DEF IInv, vars, SnapInv, StagedInv, ResidencyInv, LoadInv
<1>3. ResidentInv' /\ CloneInv' /\ ViewInv'
  BY DEF IInv, vars, ResidentInv, CloneInv, ViewInv
<1> QED BY <1>1, <1>2, <1>3 DEF IInv

\* IInv is an inductive invariant of the write path: the doc lock, the
\* resident document, its watermark and the committed rows stay consistent
\* under every interleaving of writes, reads, attachments, unloads and crashes.
THEOREM Inductive == Spec => []IInv
<1>1. Init => IInv
  BY InitEstablishes
<1>2. IInv /\ [Next]_vars => IInv'
  <2> SUFFICES ASSUME IInv, [Next]_vars PROVE IInv'
    OBVIOUS
  <2>1. ASSUME NEW w \in Writers, WriterStep(w) \/ HandlerThrows(w) PROVE IInv'
    BY <2>1, SkipTransactKeeps, CallTransactKeeps, SnapshotResidentKeeps,
       ReadTailKeeps, WriteRowKeeps, NoUpdateKeeps, WriteConflictKeeps,
       CommitTxKeeps, CommitUnacknowledgedKeeps, CallCommitKeeps, ApplyCommittedKeeps, ApplyThrowsKeeps,
       AuditFailureKeeps, HandlerThrowsKeeps DEF WriterStep
  <2>2. ASSUME NEW w \in Writers, NEW d \in Docs \cup {NoDoc}, BeginTx(w, d)
        PROVE  IInv'
    BY <2>2, BeginTxKeeps
  <2>3. ASSUME NEW p \in Procs, OpenStep(p) \/ LoadThrows(p) PROVE IInv'
    BY <2>3, AcquireKeeps, BeginLoadKeeps, FetchRowsKeeps, FinishLoadKeeps,
       OpenedKeeps, LoadThrowsKeeps DEF OpenStep
  <2>4. ASSUME NEW r \in Readers, ReadResident(r) \/ AuditRead(r) PROVE IInv'
    BY <2>4, ReadResidentKeeps, AuditReadKeeps
  <2>5. ASSUME NEW r \in Readers, NEW d \in Docs, CallRead(r, d) PROVE IInv'
    BY <2>5, CallReadKeeps
  <2>6. ASSUME NEW c \in Clients, Attach(c) \/ Detach(c) PROVE IInv'
    BY <2>6, AttachKeeps, DetachKeeps
  <2>7. ASSUME NEW c \in Clients, NEW d \in Docs, Authenticate(c, d) PROVE IInv'
    BY <2>7, AuthenticateKeeps
  <2>8. ASSUME NEW d \in Docs, Unload(d) PROVE IInv'
    BY <2>8, UnloadKeeps
  <2>9. CASE Crash
    BY <2>9, CrashKeeps
  <2>10. CASE Idle \/ UNCHANGED vars
    BY <2>10, StutterKeeps DEF Idle
  <2> QED
    BY <2>1, <2>2, <2>3, <2>4, <2>5, <2>6, <2>7, <2>8, <2>9, <2>10 DEF Next
<1> QED BY <1>1, <1>2, PTL DEF Spec
-----------------------------------------------------------------------------
(* What follows from the inductive invariant: the safety properties, and     *)
(* that the write path implements the serial log.                            *)

\* A step that leaves the rows and the clones of committed dispatches alone,
\* and lets observers grow within the rows, is a Show of the serial log.
LEMMA ShowStep ==
  ASSUME TypeOK', rows' = rows,
         \A d \in Docs : \A w \in rows[d] : w \in Writers => view'[w] = view[w],
         \A o \in Readers \cup Clients :
           \/ view'[o] = {}
           \/ view'[o] = view[o]
           \/ /\ view[o] \subseteq view'[o]
              /\ \E d \in Docs : view'[o] \subseteq rows[d]
  PROVE  Abstract!Next
<1> DEFINE before == [w \in Writers |->
                        IF \E d \in Docs : w \in rows[d] THEN view[w] ELSE {}]
           shown == [o \in Readers \cup Clients |-> view[o]]
<1>1. before' = before
  OBVIOUS
<1>2. \A o \in Readers \cup Clients : view'[o] \in SUBSET Writers
  BY DEF TypeOK
<1>3. shown' = [o \in Readers \cup Clients |-> view'[o]]
  OBVIOUS
<1>4. shown' \in [Readers \cup Clients -> SUBSET Writers]
  BY <1>2, <1>3
<1>5. \A o \in Readers \cup Clients : shown[o] = view[o] /\ shown'[o] = view'[o]
  BY <1>3
<1> HIDE DEF before, shown
<1>6. /\ shown' \in [Readers \cup Clients -> SUBSET Writers]
      /\ \A o \in Readers \cup Clients :
           \/ shown'[o] = {}
           \/ shown'[o] = shown[o]
           \/ /\ shown[o] \subseteq shown'[o]
              /\ \E d \in Docs : shown'[o] \subseteq rows[d]
      /\ UNCHANGED <<rows, before>>
  BY <1>1, <1>4, <1>5
<1>7. Abstract!Show
  BY <1>6 DEF Abstract!Show, before, shown
<1> QED BY <1>7 DEF Abstract!Next

\* A step that leaves rows, committed clones and observers alone is a stutter
\* of the serial log.
LEMMA QuietStep ==
  ASSUME rows' = rows,
         \A d \in Docs : \A w \in rows[d] : w \in Writers => view'[w] = view[w],
         \A o \in Readers \cup Clients : view'[o] = view[o]
  PROVE  UNCHANGED Abstract!vars
  BY DEF Abstract!vars

\* A SQL commit with a row is the Commit of the serial log, acknowledged or
\* not: its clone was the whole log.
LEMMA CommitStep ==
  ASSUME IInv, NEW w \in Writers, Persist(w)
  PROVE  [Abstract!Next]_(Abstract!vars)
<1> DEFINE before == [x \in Writers |->
                        IF \E e \in Docs : x \in rows[e] THEN view[x] ELSE {}]
<1>1. ASSUME seq[w] > 0
      PROVE  Abstract!Next
  <2>1. PICK d \in Docs : d = target[w]
    BY <1>1 DEF IInv, TargetInv
  <2>2. pc[w] = "handled" /\ view' = view
    BY DEF Persist
  <2>3. \A e \in Docs : w \notin rows[e]
    BY <2>2 DEF IInv, RowsInv
  <2>4. rows' = [rows EXCEPT ![d] = @ \cup {w}]
    BY <1>1, <2>1 DEF Persist
  <2>5. view[w] = rows[d]
    BY <1>1, <2>1, <2>2 DEF IInv, StagedInv
  <2>6. \A x \in Writers :
          (\E e \in Docs : x \in rows'[e])
            <=> (x = w \/ \E e \in Docs : x \in rows[e])
    BY <2>4 DEF IInv, TypeOK
  <2>7. before' = [before EXCEPT ![w] = rows[d]]
    <3>1. \A x \in Writers : before'[x] = [before EXCEPT ![w] = rows[d]][x]
      BY <2>2, <2>5, <2>6
    <3> QED BY <3>1
  <2>8. Abstract!Commit(w, d)
    BY <2>2, <2>3, <2>4, <2>7 DEF Abstract!Commit, Abstract!Committed
  <2> QED BY <2>8 DEF Abstract!Next
<1>2. ASSUME ~(seq[w] > 0)
      PROVE  UNCHANGED Abstract!vars
  BY <1>2 DEF Persist, Abstract!vars
<1> QED BY <1>1, <1>2

\* Building or dropping the clone of an uncommitted dispatch is invisible.
LEMMA CloneStep ==
  ASSUME IInv, NEW w \in Writers, SnapshotResident(w) \/ ReadTail(w) \/ RollBack(w),
         pc[w] \in OpenTx
  PROVE  UNCHANGED Abstract!vars
<1> USE ProcsAreDistinct
<1>1. rows' = rows /\ \A p \in Procs \ {w} : view'[p] = view[p]
  BY DEF SnapshotResident, ReadTail, RollBack, IInv, TypeOK
<1>2. \A d \in Docs : w \notin rows[d]
  BY DEF IInv, RowsInv, TargetInv
<1>3. \A d \in Docs : \A x \in rows[d] : x \in Writers => view'[x] = view[x]
  BY <1>1, <1>2
<1>4. \A o \in Readers \cup Clients : view'[o] = view[o]
  BY <1>1
<1> QED BY <1>1, <1>3, <1>4, QuietStep

\* The post-commit apply shows its update to the attached clients.
LEMMA ApplyStep ==
  ASSUME IInv, TypeOK', NEW w \in Writers, ApplyCommitted(w)
  PROVE  Abstract!Next
<1> USE ProcsAreDistinct
<1> DEFINE d == target[w]
<1>1. d \in Docs /\ w \in rows[d] /\ rows' = rows
  BY DEF ApplyCommitted, IInv, TargetInv, RowsInv
<1>2. \A p \in Procs :
        \/ view'[p] = view[p]
        \/ pc[p] = "attached" /\ target[p] = d /\ view'[p] = view[p] \cup {w}
  BY DEF ApplyCommitted
<1>3. \A x \in Writers : view'[x] = view[x]
  BY <1>2 DEF IInv, TypeOK, WriterPC
<1>4. \A o \in Readers \cup Clients : view'[o] # view[o] =>
        view[o] \subseteq view'[o] /\ view'[o] \subseteq rows[d]
  BY <1>1, <1>2 DEF IInv, ViewInv
<1>5. \A o \in Readers \cup Clients :
        \/ view'[o] = {}
        \/ view'[o] = view[o]
        \/ /\ view[o] \subseteq view'[o]
           /\ \E e \in Docs : view'[o] \subseteq rows[e]
  BY <1>1, <1>4
<1> QED BY <1>1, <1>3, <1>5, ShowStep

\* A read or an attachment is shown the resident document, which holds
\* committed updates only.
LEMMA SnapshotStep ==
  ASSUME IInv, TypeOK', NEW o \in Readers \cup Clients,
         ReadResident(o) \/ Attach(o) \/ Detach(o)
  PROVE  Abstract!Next
<1> USE ProcsAreDistinct
<1>1. rows' = rows /\ \A p \in Procs \ {o} : view'[p] = view[p]
  BY DEF ReadResident, Attach, Detach, IInv, TypeOK
<1>2. \/ view'[o] = {}
      \/ view[o] = {} /\ target[o] \in Docs /\ view'[o] = resident[target[o]]
  <2>1. CASE ReadResident(o)
    BY <2>1 DEF ReadResident, IInv, TypeOK, ViewInv, TargetInv
  <2>2. CASE Attach(o)
    BY <2>2 DEF Attach, IInv, TypeOK, ViewInv, TargetInv
  <2>3. CASE Detach(o)
    BY <2>3 DEF Detach, IInv, TypeOK
  <2> QED BY <2>1, <2>2, <2>3
<1>3. \/ view'[o] = {}
      \/ /\ view[o] \subseteq view'[o]
         /\ \E d \in Docs : view'[o] \subseteq rows[d]
  BY <1>2 DEF IInv, ResidentInv
<1>4. \A x \in Writers : view'[x] = view[x]
  BY <1>1
<1>5. \A q \in Readers \cup Clients :
        \/ view'[q] = {}
        \/ view'[q] = view[q]
        \/ /\ view[q] \subseteq view'[q]
           /\ \E d \in Docs : view'[q] \subseteq rows[d]
  BY <1>1, <1>3
<1> QED BY <1>1, <1>4, <1>5, ShowStep

\* After a restart observers start again from nothing.
LEMMA CrashStep ==
  ASSUME IInv, TypeOK', Crash
  PROVE  Abstract!Next
<1> USE ProcsAreDistinct
<1>1. rows' = rows /\ \A p \in Procs : view'[p] = {} \/ view'[p] = view[p]
  BY DEF Crash
<1>2. \A d \in Docs : \A w \in rows[d] : w \in Writers => view'[w] = view[w]
  BY DEF Crash, IInv, RowsInv, TargetInv
<1> QED BY <1>1, <1>2, ShowStep

\* The write path implements the serial log: every update commits on top of
\* all updates before it, on SQLite and on Postgres (hocuspocus.ts, class
\* docstring of the clone, the watermark and the residency argument).
THEOREM Refinement == Spec => ImplementsSerialLog
<1>1. Init => Abstract!Init
  BY DEF Init, Abstract!Init
<1>2. IInv /\ IInv' /\ [Next]_vars => [Abstract!Next]_(Abstract!vars)
  <2> SUFFICES ASSUME IInv, IInv', [Next]_vars
               PROVE  [Abstract!Next]_(Abstract!vars)
    OBVIOUS
  <2>0. TypeOK'
    BY DEF IInv
  <2>1. CASE rows' = rows /\ view' = view
    BY <2>1 DEF Abstract!vars
  <2>2. ASSUME NEW w \in Writers, WriterStep(w) \/ HandlerThrows(w),
               ~(rows' = rows /\ view' = view)
        PROVE  [Abstract!Next]_(Abstract!vars)
    <3>1. CASE CommitTx(w) \/ CommitUnacknowledged(w)
      BY <3>1, CommitStep DEF CommitTx, CommitUnacknowledged
    <3>2. CASE ApplyCommitted(w)
      BY <3>2, <2>0, ApplyStep
    <3>3. CASE SnapshotResident(w) \/ ReadTail(w)
      <4>1. pc[w] \in OpenTx
        BY <3>3 DEF SnapshotResident, ReadTail
      <4> QED BY <3>3, <4>1, CloneStep
    <3>4. CASE HandlerThrows(w) \/ WriteConflict(w)
      <4>1. pc[w] \in OpenTx /\ RollBack(w)
        BY <3>4 DEF HandlerThrows, WriteConflict
      <4> QED BY <4>1, CloneStep
    <3> QED
      BY <2>2, <3>1, <3>2, <3>3, <3>4
      DEF WriterStep, SkipTransact, CallTransact, WriteRow, NoUpdate,
          CallCommit, ApplyThrows, AuditFailure
  <2>3. ASSUME NEW w \in Writers, NEW d \in Docs \cup {NoDoc}, BeginTx(w, d)
        PROVE  rows' = rows /\ view' = view
    BY <2>3 DEF BeginTx
  <2>4. ASSUME NEW p \in Procs, OpenStep(p) \/ LoadThrows(p)
        PROVE  rows' = rows /\ view' = view
    BY <2>4 DEF OpenStep, Acquire, BeginLoad, FetchRows, FinishLoad, Opened,
                LoadThrows
  <2>5. ASSUME NEW r \in Readers, ReadResident(r) \/ AuditRead(r)
        PROVE  [Abstract!Next]_(Abstract!vars)
    <3>1. CASE ReadResident(r)
      BY <3>1, <2>0, SnapshotStep
    <3>2. CASE AuditRead(r)
      BY <3>2, <2>1 DEF AuditRead
    <3> QED BY <2>5, <3>1, <3>2
  <2>6. ASSUME NEW r \in Readers, NEW d \in Docs, CallRead(r, d)
        PROVE  rows' = rows /\ view' = view
    BY <2>6 DEF CallRead
  <2>7. ASSUME NEW c \in Clients, Attach(c) \/ Detach(c)
        PROVE  [Abstract!Next]_(Abstract!vars)
    BY <2>7, <2>0, SnapshotStep
  <2>8. ASSUME NEW c \in Clients, NEW d \in Docs, Authenticate(c, d)
        PROVE  rows' = rows /\ view' = view
    BY <2>8 DEF Authenticate
  <2>9. ASSUME NEW d \in Docs, Unload(d)
        PROVE  rows' = rows /\ view' = view
    BY <2>9 DEF Unload
  <2>10. CASE Crash
    BY <2>10, <2>0, CrashStep
  <2>11. CASE Idle \/ UNCHANGED vars
    BY <2>11, <2>1 DEF Idle, vars
  <2> QED
    BY <2>1, <2>2, <2>3, <2>4, <2>5, <2>6, <2>7, <2>8, <2>9, <2>10, <2>11
    DEF Next
<1> QED BY <1>1, <1>2, Inductive, PTL DEF Spec, ImplementsSerialLog, Abstract!Spec

\* The variables keep their types.
THEOREM TypeCorrect == Spec => []TypeOK
<1>1. IInv => TypeOK
  BY DEF IInv
<1> QED BY <1>1, Inductive, PTL

\* Resident documents, reads and clients hold committed updates only
\* (broadcast after commit).
THEOREM OnlyCommitted == Spec => []CommittedOnly
<1>1. IInv => CommittedOnly
  <2> SUFFICES ASSUME IInv PROVE CommittedOnly
    OBVIOUS
  <2>1. \A d \in Docs : resident[d] \cup buf[d] \subseteq rows[d]
    BY DEF IInv, ResidentInv, LoadInv
  <2>2. \A o \in Readers \cup Clients :
          view[o] # {} => target[o] \in Docs /\ view[o] \subseteq rows[target[o]]
    BY DEF IInv, ViewInv, TargetInv
  <2> QED BY <2>1, <2>2 DEF CommittedOnly
<1> QED BY <1>1, Inductive, PTL

\* The watermark stays contiguous: no committed row at or below it is missing
\* from the resident document (#appliedSeq).
THEOREM Watermark == Spec => []WatermarkContiguous
<1>1. IInv => WatermarkContiguous
  BY DEF IInv, ResidentInv, WatermarkContiguous
<1> QED BY <1>1, Inductive, PTL

\* A handler's clone lacks no committed row its transaction sees.
THEOREM Clone == Spec => []CloneComplete
<1>1. IInv => CloneComplete
  BY DEF IInv, CloneInv, CloneComplete
<1> QED BY <1>1, Inductive, PTL

\* doc_updates.seq is allocated once and without gaps, whatever rolls back.
THEOREM GapFree == Spec => []SeqGapFree
<1>1. IInv => SeqGapFree
  BY DEF IInv
<1> QED BY <1>1, Inductive, PTL

\* A document with a staged update is resident until it is applied
\* (#liveConnections).
THEOREM StagedStaysResident == Spec => []StagedIsResident
<1>1. IInv => StagedIsResident
  BY DEF IInv, ResidencyInv, TargetInv, StagedIsResident
<1> QED BY <1>1, Inductive, PTL

\* A read shows every update whose dispatch has returned, unless its apply
\* threw (resident freshness, HocuspocusSync.read).
THEOREM OwnWritesAreRead == Spec => ReadYourWrites
<1> DEFINE Fresh(r) ==
      {w \in rows[target[r]] : pc[w] = "done"} \ lagging \subseteq view'[r]
<1>1. ASSUME IInv, [Next]_vars, NEW r \in Readers,
             pc[r] = "opened", pc'[r] = "auditing"
      PROVE  Fresh(r)
  <2>1. pc \in [Procs -> WriterPC \cup ReaderPC \cup ClientPC]
    BY <1>1 DEF IInv, TypeOK
  <2>2. ReadResident(r)
    BY ZenonT(30), <1>1, <2>1, ProcsAreDistinct
    DEF Next, vars, Idle, Crash, WriterStep, OpenStep, HandlerThrows, RollBack,
        SkipTransact, CallTransact, SnapshotResident, ReadTail, WriteRow,
        NoUpdate, WriteConflict, CommitTx, CommitUnacknowledged, Persist, CallCommit, ApplyCommitted,
        ApplyThrows, AuditFailure, BeginTx, Acquire, BeginLoad, FetchRows,
        FinishLoad, Opened, LoadThrows, ReadResident, AuditRead, CallRead,
        Attach, Detach, Authenticate, Unload
  <2>3. view'[r] = resident[target[r]]
    BY <1>1, <2>2 DEF ReadResident, IInv, TypeOK
  <2>4. target[r] \in Docs /\ phase[target[r]] = "hot"
    BY <1>1 DEF IInv, TargetInv, ResidencyInv
  <2>5. \A w \in rows[target[r]] : w \in Writers
    BY <1>1, <2>4 DEF IInv, TypeOK
  <2> QED BY <1>1, <2>3, <2>4, <2>5 DEF IInv, ResidentInv
<1>2. IInv /\ [Next]_vars =>
        [\A r \in Readers : pc[r] = "opened" /\ pc'[r] = "auditing" => Fresh(r)]_vars
  BY <1>1
<1> QED BY <1>2, Inductive, PTL DEF Spec, ReadYourWrites
=============================================================================
