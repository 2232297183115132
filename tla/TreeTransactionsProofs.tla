----------------------- MODULE TreeTransactionsProofs -----------------------
(***************************************************************************)
(* Overlapping transactions keep the tree sound.  There are two halves.    *)
(*                                                                         *)
(* The handlers: one that decides on a snapshot is right about every sound *)
(* tree that answers its queries alike and has the rows it writes (Sound). *)
(* There is one lemma per capability.                                      *)
(*                                                                         *)
(* The transactions: if some open transactions, committed together, would  *)
(* spoil the tree, then one of them overwrites what another of them, or    *)
(* one that has committed meanwhile, has read (CyclesShow).  The last to   *)
(* commit would then be a pivot.  Nothing in this half is about trees.     *)
(***************************************************************************)
EXTENDS TreeTransactions, TLAPS

\* Collections and documents hang below collections, rosters below their space.
ShapeAt(t) ==
  /\ \A k \in Collections : t[k].parent \in Collections \cup {Root}
  /\ \A k \in Docs : t[k].parent \in Collections \cup {Root} /\ t[k].space = NoSpace
  /\ \A k \in Spaces : t[k].parent = Root /\ t[k].space = NoSpace
  /\ \A a \in Spaces, u \in Users :
       t[<<a, u>>].parent \in {a, Root} /\ t[<<a, u>>].space = NoSpace

\* The tables a workspace may have.
Good(t) ==
  /\ t \in [Keys -> Rows]
  /\ ShapeAt(t) /\ BlankAt(t) /\ LiveAt(t) /\ RootedAt(t) /\ InheritedAt(t)

\* The queries q have the same answers over s as over t.
Agree(s, t, q) ==
  \A k \in Keys : Sees(q, k, s[k]) \/ Sees(q, k, t[k]) => s[k] = t[k]

\* The writes w keep every sound tree sound that agrees with the present one on
\* the queries q and on the rows that are overwritten.
Sound(q, w) ==
  \A s \in [Keys -> Rows] :
    Good(s) /\ Agree(rows, s, q) /\ (\A k \in DOMAIN w : s[k] = rows[k])
      => Good(Overwrite(s, w))

Fresh(c) == DOMAIN work[c].writes \cap stale[c] = {}

\* As long as nothing it read has changed, a transaction is sound.
Accurate(c) ==
  Pending(c) /\ ~missed[c] /\ Fresh(c) => Sound(work[c].reads, work[c].writes)

\* Open transactions that could still all commit, rows written twice considered.
Compatible(C) ==
  /\ \A c \in C : Pending(c) /\ Fresh(c)
  /\ \A c, d \in C : c # d => DOMAIN work[c].writes \cap DOMAIN work[d].writes = {}

\* s is what the tables are when all of C have committed.
Merged(s, C) ==
  \A k \in Keys :
    /\ \A c \in C : k \in DOMAIN work[c].writes => s[k] = work[c].writes[k]
    /\ (\A c \in C : k \notin DOMAIN work[c].writes) => s[k] = rows[k]

\* Some of C overwrites what was read by another of C or by one that committed.
Overwritten(C) ==
  \E v \in C : \/ readBy[v]
               \/ \E x \in C \ {v} : Touches(work[v].writes, work[x].reads)

CyclesShow(C) ==
  Compatible(C) =>
    \A s \in [Keys -> Rows] : Merged(s, C) => Good(s) \/ Overwritten(C)

\* The inductive invariant.
TreeInv ==
  /\ TypeOK
  /\ Good(rows)
  /\ \A c \in Calls : Accurate(c)
  /\ \A C \in SUBSET Calls : CyclesShow(C)

-----------------------------------------------------------------------------
(* Transactions *)

LEMMA OverwriteFacts ==
  ASSUME NEW s \in [Keys -> Rows], NEW w, DOMAIN w \subseteq Keys,
         \A k \in DOMAIN w : w[k] \in Rows
  PROVE  /\ Overwrite(s, w) \in [Keys -> Rows]
         /\ \A k \in Keys : k \in DOMAIN w => Overwrite(s, w)[k] = w[k]
         /\ \A k \in Keys : k \notin DOMAIN w => Overwrite(s, w)[k] = s[k]
  BY DEF Overwrite

\* A sound transaction can be added to compatible ones: what is spoilt shows,
\* or one of them overwrites what it has read.
LEMMA Extend ==
  ASSUME TypeOK, NEW C \in SUBSET Calls, Compatible(C), CyclesShow(C),
         NEW q, NEW w, Sound(q, w),
         NEW s \in [Keys -> Rows], Merged(s, C), \A k \in DOMAIN w : s[k] = rows[k]
  PROVE  \/ Good(Overwrite(s, w))
         \/ \E v \in C : Touches(work[v].writes, q)
         \/ Overwritten(C)
<1>1. CASE ~Good(s)
  BY <1>1 DEF CyclesShow
<1>2. CASE Good(s) /\ Agree(rows, s, q)
  BY <1>2 DEF Sound
<1>3. CASE ~Agree(rows, s, q)
  <2>1. PICK k \in Keys : (Sees(q, k, rows[k]) \/ Sees(q, k, s[k])) /\ rows[k] # s[k]
    BY <1>3 DEF Agree
  <2>2. PICK v \in C : k \in DOMAIN work[v].writes /\ s[k] = work[v].writes[k]
    BY <2>1 DEF Merged
  <2>3. Touches(work[v].writes, q)
    BY <2>1, <2>2 DEF Touches
  <2> QED BY <2>3
<1> QED BY <1>1, <1>2, <1>3

\* A handler that is sound begins a sound transaction.
LEMMA PerformStep ==
  ASSUME TreeInv, NEW c \in Calls, NEW q \in Queries, NEW w, DOMAIN w \subseteq Keys,
         \A k \in DOMAIN w : w[k] \in Rows, Sound(q, w), Perform(c, q, w)
  PROVE  TreeInv'
<1> USE DEF TypeOK
<1>1. /\ work' = [work EXCEPT ![c] = [reads |-> q, writes |-> w]]
      /\ rows' = rows /\ missed' = missed /\ readBy' = readBy /\ stale' = stale
      /\ TypeOK /\ ~Pending(c)
  BY DEF Perform, TreeInv
<1>2. /\ work'[c].reads = q /\ work'[c].writes = w
      /\ \A d \in Calls \ {c} : work'[d] = work[d]
  BY <1>1
<1>3. TypeOK'
  BY <1>1, <1>2
<1>4. Good(rows)'
  BY <1>1 DEF TreeInv
<1>5. ASSUME NEW d \in Calls PROVE Accurate(d)'
  <2>1. CASE d = c
    BY <1>1, <1>2, <2>1 DEF Accurate, Sound, Agree
  <2>2. CASE d # c
    BY <1>1, <1>2, <2>2 DEF TreeInv, Accurate, Sound, Agree, Pending, Fresh
  <2> QED BY <2>1, <2>2
<1>6. ASSUME NEW C \in SUBSET Calls PROVE CyclesShow(C)'
  <2>1. CASE c \notin C
    BY <1>1, <1>2, <2>1
       DEF TreeInv, CyclesShow, Compatible, Merged, Overwritten, Touches, Pending, Fresh
  <2>2. CASE c \in C
    <3> DEFINE D == C \ {c}
    <3> SUFFICES ASSUME Compatible(C)', NEW s \in [Keys -> Rows], Merged(s, C)'
                 PROVE  Good(s) \/ Overwritten(C)'
      BY DEF CyclesShow
    <3>1. Compatible(D) /\ D \in SUBSET Calls
      BY <1>1, <1>2 DEF Compatible, Pending, Fresh
    <3>2. CyclesShow(D)
      BY <3>1 DEF TreeInv
    <3>3. \A d \in D : DOMAIN work[d].writes \cap DOMAIN w = {}
      BY <1>2, <2>2 DEF Compatible
    <3> DEFINE r == [k \in Keys |-> IF k \in DOMAIN w THEN rows[k] ELSE s[k]]
    <3>4. r \in [Keys -> Rows] /\ \A k \in DOMAIN w : r[k] = rows[k]
      BY <1>1
    <3>5. Merged(r, D)
      BY <1>1, <1>2, <3>3, <2>2 DEF Merged
    <3>6. s = Overwrite(r, w)
      <4>1. \A k \in Keys : k \in DOMAIN w => s[k] = w[k]
        BY <1>2, <2>2 DEF Merged
      <4> QED BY <4>1 DEF Overwrite
    <3> HIDE DEF r, D
    <3>7. \/ Good(s)
          \/ \E v \in D : Touches(work[v].writes, q)
          \/ Overwritten(D)
      BY <1>1, <3>1, <3>2, <3>4, <3>5, <3>6, Extend
    <3> USE DEF D
    <3>8. ASSUME NEW v \in D, Touches(work[v].writes, q) PROVE Overwritten(C)'
      BY <1>1, <1>2, <2>2, <3>8 DEF Overwritten, Touches
    <3>9. ASSUME Overwritten(D) PROVE Overwritten(C)'
      BY <1>1, <1>2, <3>9 DEF Overwritten, Touches
    <3> QED BY <3>7, <3>8, <3>9
  <2> QED BY <2>1, <2>2
<1> QED BY <1>3, <1>4, <1>5, <1>6 DEF TreeInv

\* A transaction that ends without a trace.
LEMMA AbortStep ==
  ASSUME TreeInv, NEW c \in Calls, Abort(c)
  PROVE  TreeInv'
<1> USE DEF TypeOK
<1>1. /\ rows' = rows /\ TypeOK /\ work'[c] = Idle
      /\ \A d \in Calls \ {c} :
           /\ work'[d] = work[d] /\ missed'[d] = missed[d]
           /\ readBy'[d] = readBy[d] /\ stale'[d] = stale[d]
  BY DEF Abort, TreeInv
<1>2. TypeOK'
  BY <1>1 DEF Abort, Idle, ById, Queries
<1>3. ASSUME NEW d \in Calls PROVE Accurate(d)'
  BY <1>1 DEF TreeInv, Accurate, Sound, Agree, Pending, Fresh
<1>4. ASSUME NEW C \in SUBSET Calls PROVE CyclesShow(C)'
  <2>1. CASE c \notin C
    <3>1. \A d \in C : /\ work'[d] = work[d] /\ missed'[d] = missed[d]
                       /\ readBy'[d] = readBy[d] /\ stale'[d] = stale[d]
      BY <1>1, <2>1
    <3>2. Compatible(C)' => Compatible(C)
      BY <3>1 DEF Compatible, Pending, Fresh
    <3>3. \A s \in [Keys -> Rows] : Merged(s, C)' => Merged(s, C)
      BY <1>1, <3>1 DEF Merged
    <3>4. Overwritten(C) => Overwritten(C)'
      BY <1>1, <3>1 DEF Overwritten, Touches
    <3> QED BY <3>2, <3>3, <3>4 DEF TreeInv, CyclesShow
  <2>2. CASE c \in C
    BY <1>1, <2>2 DEF CyclesShow, Compatible, Pending
  <2> QED BY <2>1, <2>2
<1> QED BY <1>1, <1>2, <1>3, <1>4 DEF TreeInv

\* A commit passes on to the others what it read and wrote.
LEMMA CommitFacts ==
  ASSUME TypeOK, NEW c \in Calls, Commit(c)
  PROVE  /\ rows' = Overwrite(rows, work[c].writes)
         /\ Pending(c) /\ Fresh(c) /\ NoPivot(c)
         /\ work'[c] = Idle /\ \A d \in Calls \ {c} : work'[d] = work[d]
         /\ \A d \in Calls \ {c} : Pending(d) =>
              /\ missed'[d] = (missed[d] \/ Touches(work[c].writes, work[d].reads))
              /\ readBy'[d] = (readBy[d] \/ Touches(work[d].writes, work[c].reads))
              /\ stale'[d] = stale[d] \cup DOMAIN work[c].writes
         /\ TypeOK'
<1> USE DEF TypeOK
<1>1. Pending(c) /\ Fresh(c) /\ NoPivot(c) /\ rows' = Overwrite(rows, work[c].writes)
  BY DEF Commit, WrittenOnce, Fresh
<1>2. work' = [work EXCEPT ![c] = Idle]
  BY DEF Commit
<1>3. \A d \in Calls \ {c} : Pending(d) =>
        /\ missed'[d] = (missed[d] \/ Touches(work[c].writes, work[d].reads))
        /\ readBy'[d] = (readBy[d] \/ Touches(work[d].writes, work[c].reads))
        /\ stale'[d] = stale[d] \cup DOMAIN work[c].writes
  BY DEF Commit
<1>4. missed' \in [Calls -> BOOLEAN] /\ readBy' \in [Calls -> BOOLEAN]
  BY DEF Commit
<1>5. stale' \in [Calls -> SUBSET Keys]
  BY DEF Commit
<1>6. rows' \in [Keys -> Rows]
  BY <1>1, OverwriteFacts
<1>7. /\ DOMAIN work' = Calls
      /\ \A d \in Calls :
           /\ work'[d].reads \in Queries
           /\ DOMAIN work'[d].writes \subseteq Keys
           /\ \A k \in DOMAIN work'[d].writes : work'[d].writes[k] \in Rows
  BY <1>2 DEF Idle, ById, Queries
<1> QED BY <1>1, <1>2, <1>3, <1>4, <1>5, <1>6, <1>7

\* What a transaction leaves behind is sound: it was accurate, or nobody read
\* what it overwrites.
LEMMA CommitIsGood ==
  ASSUME TreeInv, NEW c \in Calls, Commit(c)
  PROVE  Good(rows')
<1> DEFINE w == work[c].writes
<1>1. /\ rows' = Overwrite(rows, w) /\ Pending(c) /\ Fresh(c) /\ NoPivot(c)
      /\ rows \in [Keys -> Rows] /\ rows' \in [Keys -> Rows]
  BY CommitFacts DEF TreeInv, TypeOK
<1>2. CASE ~missed[c]
  <2>1. Sound(work[c].reads, w)
    BY <1>1, <1>2 DEF TreeInv, Accurate
  <2>2. Agree(rows, rows, work[c].reads)
    BY DEF Agree
  <2> QED BY <1>1, <2>1, <2>2 DEF Sound, TreeInv
<1>3. CASE missed[c]
  <2>1. Compatible({c}) /\ {c} \in SUBSET Calls
    BY <1>1 DEF Compatible
  <2>2. Merged(rows', {c})
    BY <1>1 DEF Merged, Overwrite
  <2>3. ~Overwritten({c})
    BY <1>1, <1>3 DEF NoPivot, Overwritten
  <2> QED BY <1>1, <2>1, <2>2, <2>3 DEF TreeInv, CyclesShow
<1> QED BY <1>2, <1>3

\* Who has missed nothing by the commit of c is as accurate as before.
LEMMA CommitKeepsAccurate ==
  ASSUME TreeInv, NEW c \in Calls, Commit(c), NEW d \in Calls
  PROVE  Accurate(d)'
<1> DEFINE w == work[c].writes
           v == work[d].writes
           q == work[d].reads
<1>1. /\ rows' = Overwrite(rows, w) /\ work'[c] = Idle
      /\ d # c => work'[d] = work[d]
      /\ d # c /\ Pending(d) =>
           /\ missed'[d] = (missed[d] \/ Touches(w, q))
           /\ stale'[d] = stale[d] \cup DOMAIN w
      /\ rows \in [Keys -> Rows] /\ DOMAIN v \subseteq Keys
  BY CommitFacts DEF TreeInv, TypeOK
<1> SUFFICES ASSUME Pending(d)', ~missed'[d], Fresh(d)'
             PROVE  Sound(q, v)'
  BY <1>1 DEF Accurate, Pending
<1>2. d # c /\ Pending(d) /\ work'[d] = work[d]
  BY <1>1 DEF Pending
<1>3. ~missed[d] /\ ~Touches(w, q) /\ Fresh(d) /\ DOMAIN v \cap DOMAIN w = {}
  BY <1>1, <1>2 DEF Fresh
<1>4. Sound(q, v)
  BY <1>2, <1>3 DEF TreeInv, Accurate
<1> SUFFICES ASSUME NEW s \in [Keys -> Rows], Good(s), Agree(rows', s, q),
                    \A k \in DOMAIN v : s[k] = rows'[k]
             PROVE  Good(Overwrite(s, v))
  BY <1>2 DEF Sound
<1>5. \A k \in Keys : k \notin DOMAIN w => rows'[k] = rows[k]
  BY <1>1 DEF Overwrite
<1>6. \A k \in DOMAIN v : s[k] = rows[k]
  BY <1>1, <1>3, <1>5
<1>7. \A k \in Keys : k \in DOMAIN w =>
        ~Sees(q, k, rows[k]) /\ ~Sees(q, k, rows'[k])
  BY <1>1, <1>3 DEF Touches, Overwrite
<1>8. Agree(rows, s, q)
  BY <1>5, <1>7 DEF Agree
<1> QED BY <1>4, <1>6, <1>8 DEF Sound

\* Add c to what is still open: it has committed first.
LEMMA CommitKeepsCycles ==
  ASSUME TreeInv, NEW c \in Calls, Commit(c), NEW C \in SUBSET Calls
  PROVE  CyclesShow(C)'
<1> DEFINE w == work[c].writes
           q == work[c].reads
           D == C \cup {c}
<1>1. /\ TypeOK /\ rows' = Overwrite(rows, w) /\ work'[c] = Idle
      /\ Pending(c) /\ Fresh(c) /\ NoPivot(c)
      /\ \A d \in Calls \ {c} : work'[d] = work[d]
      /\ rows \in [Keys -> Rows] /\ DOMAIN w \subseteq Keys
  BY CommitFacts DEF TreeInv, TypeOK
<1> SUFFICES ASSUME Compatible(C)', NEW s \in [Keys -> Rows], Merged(s, C)'
             PROVE  Good(s) \/ Overwritten(C)'
  BY DEF CyclesShow
<1>2. c \notin C
  BY <1>1 DEF Compatible, Pending
<1>3. \A d \in C : work'[d] = work[d] /\ Pending(d)
  BY <1>1, <1>2 DEF Compatible, Pending
<1>4. \A d \in C : /\ stale'[d] = stale[d] \cup DOMAIN w
                   /\ readBy'[d] = (readBy[d] \/ Touches(work[d].writes, q))
  BY <1>2, <1>3, CommitFacts DEF TreeInv
<1>5. \A d \in C : Fresh(d) /\ DOMAIN work[d].writes \cap DOMAIN w = {}
  BY <1>3, <1>4 DEF Compatible, Fresh
<1>6. \A d, e \in C : d # e =>
        DOMAIN work[d].writes \cap DOMAIN work[e].writes = {}
  BY <1>3 DEF Compatible
<1>7. Compatible(C) /\ Compatible(D) /\ D \in SUBSET Calls
  BY <1>1, <1>3, <1>5, <1>6 DEF Compatible
<1>8. \A k \in Keys : /\ k \in DOMAIN w => rows'[k] = w[k]
                      /\ k \notin DOMAIN w => rows'[k] = rows[k]
  BY <1>1 DEF Overwrite
<1>9. Merged(s, D)
  BY <1>3, <1>5, <1>8 DEF Merged
<1>10. \A d \in C : \A x \in C :
         Touches(work[d].writes, work[x].reads)
           => Touches(work[d].writes, work[x].reads)'
  <2> SUFFICES ASSUME NEW d \in C, NEW x \in C, Touches(work[d].writes, work[x].reads)
               PROVE  Touches(work[d].writes, work[x].reads)'
    OBVIOUS
  <2>1. DOMAIN work[d].writes \subseteq Keys
    BY <1>1 DEF TypeOK
  <2>2. \A k \in DOMAIN work[d].writes : rows'[k] = rows[k]
    BY <1>5, <1>8, <2>1
  <2> QED BY <1>3, <2>2 DEF Touches
<1>11. ASSUME Overwritten(C) PROVE Overwritten(C)'
  BY <1>3, <1>4, <1>10, <1>11 DEF Overwritten
<1>12. ASSUME NEW d \in C, Touches(work[d].writes, q) PROVE Overwritten(C)'
  BY <1>4, <1>12 DEF Overwritten
<1>13. ASSUME readBy[c] \/ \E x \in C : Touches(w, work[x].reads)
       PROVE  Good(s) \/ Overwritten(C)'
  <2>1. ~missed[c]
    BY <1>1, <1>2, <1>13 DEF NoPivot
  <2>2. Sound(q, w)
    BY <1>1, <2>1 DEF TreeInv, Accurate
  <2> DEFINE r == [k \in Keys |-> IF k \in DOMAIN w THEN rows[k] ELSE s[k]]
  <2>3. r \in [Keys -> Rows] /\ \A k \in DOMAIN w : r[k] = rows[k]
    BY <1>1
  <2>4. Merged(r, C)
    BY <1>3, <1>5, <1>8 DEF Merged
  <2>5. s = Overwrite(r, w)
    <3>1. \A k \in Keys : k \in DOMAIN w => s[k] = w[k]
      BY <1>3, <1>5, <1>8 DEF Merged
    <3> QED BY <3>1 DEF Overwrite
  <2> HIDE DEF r
  <2>6. CyclesShow(C)
    BY DEF TreeInv
  <2>7. \/ Good(s)
        \/ \E v \in C : Touches(work[v].writes, q)
        \/ Overwritten(C)
    BY <1>1, <1>7, <2>2, <2>3, <2>4, <2>5, <2>6, Extend
  <2> QED BY <2>7, <1>11, <1>12
<1>14. Good(s) \/ Overwritten(D)
  BY <1>7, <1>9 DEF TreeInv, CyclesShow
<1>15. ASSUME Overwritten(D) PROVE Good(s) \/ Overwritten(C)'
  <2>1. PICK v \in D : \/ readBy[v]
                       \/ \E x \in D \ {v} : Touches(work[v].writes, work[x].reads)
    BY <1>15 DEF Overwritten
  <2>2. CASE v = c
    BY <1>13, <2>1, <2>2
  <2>3. CASE v # c
    <3>1. v \in C
      BY <2>3
    <3>2. CASE readBy[v]
      BY <1>4, <3>1, <3>2 DEF Overwritten
    <3>3. CASE ~readBy[v]
      BY <1>11, <1>12, <2>1, <3>1, <3>3 DEF Overwritten
    <3> QED BY <3>2, <3>3
  <2> QED BY <2>2, <2>3
<1> QED BY <1>14, <1>15

LEMMA CommitStep ==
  ASSUME TreeInv, NEW c \in Calls, Commit(c)
  PROVE  TreeInv'
<1>1. TypeOK'
  BY CommitFacts DEF TreeInv
<1> QED BY <1>1, CommitIsGood, CommitKeepsAccurate, CommitKeepsCycles DEF TreeInv

-----------------------------------------------------------------------------
(* Sound trees *)

\* One row is overwritten.
LEMMA SetFacts ==
  ASSUME NEW s \in [Keys -> Rows], NEW k \in Keys, NEW row \in Rows
  PROVE  /\ DOMAIN Set(k, row) = {k} /\ Set(k, row)[k] = row
         /\ Overwrite(s, Set(k, row)) = [s EXCEPT ![k] = row]
         /\ Overwrite(s, Set(k, row)) \in [Keys -> Rows]
<1>1. DOMAIN Set(k, row) = {k} /\ Set(k, row)[k] = row
  BY DEF Set
<1> HIDE DEF Set
<1>2. Overwrite(s, Set(k, row)) = [s EXCEPT ![k] = row]
  BY <1>1 DEF Overwrite
<1> QED BY <1>1, <1>2

\* Where the parts of a tree lie.
LEMMA KindsOfKeys ==
  /\ Spaces \subseteq Keys /\ Collections \subseteq Keys /\ Docs \subseteq Keys
  /\ Rosters \subseteq Keys /\ Root \notin Keys /\ NoSpace \notin Keys
  /\ \A a \in Spaces, u \in Users : <<a, u>> \in Rosters
  /\ \A k \in Rosters : \E a \in Spaces, u \in Users : k = <<a, u>>
  /\ \A k \in Keys : \/ k \in Spaces /\ k \notin Collections /\ k \notin Docs /\ k \notin Rosters
                     \/ k \notin Spaces /\ k \in Collections /\ k \notin Docs /\ k \notin Rosters
                     \/ k \notin Spaces /\ k \notin Collections /\ k \in Docs /\ k \notin Rosters
                     \/ k \notin Spaces /\ k \notin Collections /\ k \notin Docs /\ k \in Rosters
  BY KeysAreDistinct DEF Keys, Rosters

\* What hangs below a row of a sound tree, and in which space.
LEMMA Hangs ==
  ASSUME NEW s, Good(s), NEW x \in Keys
  PROVE  /\ s[x].parent \in Collections \cup Spaces \cup {Root}
         /\ s[x].space \in Spaces \cup {NoSpace}
         /\ s[x].space # NoSpace => x \in Collections
         /\ x \in Collections \cup Docs => s[x].parent \in Collections \cup {Root}
         /\ s[x].parent \in Spaces => x \in Rosters
  BY KindsOfKeys DEF Good, ShapeAt, Rows

\* A row is trashed under which nothing is live, or comes back to life under a
\* live one.
LEMMA StatusStep ==
  ASSUME NEW s \in [Keys -> Rows], Good(s), NEW k \in Keys, Exists(s[k]),
         NEW st \in {"live", "trashed"},
         st = "live" => /\ s[k].parent # Root => IsLive(s[s[k].parent])
                        /\ s[k].space # NoSpace => IsLive(s[s[k].space]),
         st = "trashed" => \A x \in Keys : IsLive(s[x]) =>
                             s[x].parent # k /\ (s[x].space # NoSpace => s[x].space # k)
  PROVE  Good([s EXCEPT ![k] = [s[k] EXCEPT !.status = st]])
<1> DEFINE row == [s[k] EXCEPT !.status = st]
           t == [s EXCEPT ![k] = row]
<1>1. row \in Rows /\ row.status = st /\ row.parent = s[k].parent /\ row.space = s[k].space
  BY DEF Rows
<1> HIDE DEF row
<1>2. /\ t \in [Keys -> Rows] /\ t[k] = row
      /\ \A x \in Keys : t[x].parent = s[x].parent /\ t[x].space = s[x].space
      /\ \A x \in Keys : x # k => t[x] = s[x]
  BY <1>1
<1> HIDE DEF t
<1>3. ShapeAt(t)
  BY <1>2, KindsOfKeys DEF ShapeAt, Good
<1>4. \A x \in Keys : s[x].parent # Root => s[x].parent \in Keys
  BY Hangs, KindsOfKeys
<1>5. BlankAt(t)
  BY <1>1, <1>2, <1>4 DEF BlankAt, Good, Exists
<1>6. LiveAt(t)
  <2> SUFFICES ASSUME NEW x \in Keys, IsLive(t[x])
               PROVE  /\ t[x].parent # Root => IsLive(t[t[x].parent])
                      /\ t[x].space # NoSpace => IsLive(t[t[x].space])
    BY DEF LiveAt
  <2>1. s[x].space # NoSpace => s[x].space \in Keys
    BY Hangs, KindsOfKeys
  <2>2. CASE st = "trashed"
    <3>1. x # k
      BY <1>1, <1>2, <2>2 DEF IsLive
    <3> QED BY <1>2, <1>4, <2>1, <2>2, <3>1 DEF LiveAt, Good
  <2>3. CASE st = "live"
    <3>1. /\ s[x].parent # Root => IsLive(s[s[x].parent])
          /\ s[x].space # NoSpace => IsLive(s[s[x].space])
      BY <1>2, <2>3 DEF LiveAt, Good
    <3>2. \A y \in Keys : IsLive(s[y]) => IsLive(t[y])
      BY <1>1, <1>2, <2>3 DEF IsLive
    <3> QED BY <1>2, <1>4, <2>1, <3>1, <3>2
  <2> QED BY <2>2, <2>3
<1>7. RootedAt(t)
  BY <1>2, KindsOfKeys DEF RootedAt, Good
<1>8. InheritedAt(t)
  BY <1>2, <1>4, KindsOfKeys DEF InheritedAt, Good
<1> QED BY <1>1, <1>2, <1>3, <1>5, <1>6, <1>7, <1>8 DEF Good, t, row

\* A new row, under a live one and in its space.
LEMMA InsertStep ==
  ASSUME NEW s \in [Keys -> Rows], Good(s), NEW k \in Keys, ~Exists(s[k]),
         NEW p \in Collections \cup Spaces \cup {Root}, NEW a \in Spaces \cup {NoSpace},
         ShapeAt([s EXCEPT ![k] = LiveRow(p, a)]),
         p # Root => IsLive(s[p]),
         a # NoSpace => IsLive(s[a]),
         k \in Collections /\ p # Root => a = s[p].space
  PROVE  Good([s EXCEPT ![k] = LiveRow(p, a)])
<1> DEFINE t == [s EXCEPT ![k] = LiveRow(p, a)]
<1>1. /\ LiveRow(p, a) \in Rows /\ IsLive(LiveRow(p, a)) /\ Exists(LiveRow(p, a))
      /\ LiveRow(p, a).parent = p /\ LiveRow(p, a).space = a
  BY DEF Rows, LiveRow, IsLive, Exists
<1>2. /\ t \in [Keys -> Rows] /\ t[k] = LiveRow(p, a)
      /\ \A x \in Keys : x # k => t[x] = s[x]
  BY <1>1
<1> HIDE DEF t
<1>3. \A x \in Keys : /\ s[x].parent # Root => s[x].parent \in Keys
                      /\ s[x].space # NoSpace => s[x].space \in Keys
  BY Hangs, KindsOfKeys
<1>4. \A x \in Keys : s[x].parent # k
  BY KindsOfKeys DEF Good, BlankAt
<1>5. p # k /\ a # k
  BY KindsOfKeys DEF IsLive, Exists
<1>6. (p # Root => p \in Keys) /\ (a # NoSpace => a \in Keys)
  BY KindsOfKeys
<1>7. BlankAt(t)
  BY <1>1, <1>2, <1>3, <1>4, <1>5, <1>6 DEF BlankAt, Good, IsLive, Exists
<1>8. LiveAt(t)
  <2> SUFFICES ASSUME NEW x \in Keys, IsLive(t[x])
               PROVE  /\ t[x].parent # Root => IsLive(t[t[x].parent])
                      /\ t[x].space # NoSpace => IsLive(t[t[x].space])
    BY DEF LiveAt
  <2>1. \A y \in Keys : IsLive(s[y]) => IsLive(t[y])
    BY <1>2 DEF IsLive, Exists
  <2>2. CASE x = k
    BY <1>1, <1>2, <1>6, <2>1, <2>2
  <2>3. CASE x # k
    BY <1>2, <1>3, <2>1, <2>3 DEF LiveAt, Good
  <2> QED BY <2>2, <2>3
<1>9. RootedAt(t)
  <2> SUFFICES ASSUME NEW S \in SUBSET Collections, S # {}
               PROVE  \E x \in S : t[x].parent \notin S
    BY DEF RootedAt
  <2>1. CASE S = {k}
    BY <1>1, <1>2, <1>5, <2>1
  <2>2. CASE S # {k}
    <3>1. PICK x \in S \ {k} : s[x].parent \notin S \ {k}
      BY <2>2 DEF RootedAt, Good
    <3> QED BY <1>2, <1>4, <3>1, KindsOfKeys
  <2> QED BY <2>1, <2>2
<1>10. InheritedAt(t)
  BY <1>1, <1>2, <1>3, <1>4, <1>5, <1>6, KindsOfKeys DEF InheritedAt, Good
<1> QED BY <1>2, <1>7, <1>8, <1>9, <1>10 DEF Good, t

-----------------------------------------------------------------------------
(* Queries *)

LEMMA IdsAreRead ==
  ASSUME NEW ids \in SUBSET Keys
  PROVE  /\ ById(ids) \in Queries
         /\ \A s : Agree(rows, s, ById(ids)) => \A k \in ids : s[k] = rows[k]
  BY DEF ById, Queries, Agree, Sees

\* A handler that writes one row.
LEMMA SetStep ==
  ASSUME TreeInv, NEW c \in Calls, NEW q \in Queries, NEW k \in Keys, NEW row \in Rows,
         Perform(c, q, Set(k, row)),
         \A s \in [Keys -> Rows] :
           Good(s) /\ Agree(rows, s, q) /\ s[k] = rows[k] => Good([s EXCEPT ![k] = row])
  PROVE  TreeInv'
<1>1. DOMAIN Set(k, row) = {k} /\ Set(k, row)[k] = row
  BY SetFacts DEF TreeInv, TypeOK
<1>2. \A s \in [Keys -> Rows] : Overwrite(s, Set(k, row)) = [s EXCEPT ![k] = row]
  BY SetFacts
<1> HIDE DEF Set
<1>3. Sound(q, Set(k, row))
  BY <1>1, <1>2 DEF Sound
<1> QED BY <1>1, <1>3, PerformStep

\* The present tables are sound and have their types.
LEMMA Present ==
  ASSUME TreeInv, NEW k \in Keys
  PROVE  /\ rows \in [Keys -> Rows] /\ rows[k] \in Rows /\ Good(rows)
         /\ \A st \in {"live", "trashed"} : [rows[k] EXCEPT !.status = st] \in Rows
  BY DEF TreeInv, TypeOK, Rows

-----------------------------------------------------------------------------
(* Spaces: the rosters and the collections of an archived space are empty. *)

LEMMA SpaceCreateStep ==
  ASSUME TreeInv, NEW c \in Calls, NEW a \in Spaces, SpaceCreate(c, a)
  PROVE  TreeInv'
<1>1. /\ ~Exists(rows[a]) /\ a \in Keys /\ LiveRow(Root, NoSpace) \in Rows
      /\ ById({}) \in Queries /\ Perform(c, ById({}), Set(a, LiveRow(Root, NoSpace)))
  BY KindsOfKeys, IdsAreRead DEF SpaceCreate, LiveRow, Rows
<1>2. ASSUME NEW s \in [Keys -> Rows], Good(s), s[a] = rows[a]
      PROVE  Good([s EXCEPT ![a] = LiveRow(Root, NoSpace)])
  <2>1. ShapeAt([s EXCEPT ![a] = LiveRow(Root, NoSpace)])
    BY <1>1, <1>2, KindsOfKeys DEF Good, ShapeAt, LiveRow
  <2> QED BY <1>1, <1>2, <2>1, KindsOfKeys, InsertStep
<1> QED BY <1>1, <1>2, SetStep

LEMMA SpaceArchiveStep ==
  ASSUME TreeInv, NEW c \in Calls, NEW a \in Spaces, SpaceArchive(c, a)
  PROVE  TreeInv'
<1> DEFINE q == [ById({a}) EXCEPT !.liveBelow = {a}, !.within = {a}]
           row == [rows[a] EXCEPT !.status = "trashed"]
<1>1. a \in Keys /\ row \in Rows /\ IsLive(rows[a]) /\ Perform(c, q, Set(a, row))
  BY KindsOfKeys, Present DEF SpaceArchive
<1>2. q \in Queries /\ q.liveBelow = {a} /\ q.within = {a}
  BY <1>1 DEF ById, Queries
<1> HIDE DEF q
<1>3. ASSUME NEW s \in [Keys -> Rows], Good(s), Agree(rows, s, q), s[a] = rows[a]
      PROVE  Good([s EXCEPT ![a] = row])
  <2>1. ASSUME NEW x \in Keys, IsLive(s[x]) PROVE s[x].parent # a
    <3> SUFFICES ASSUME s[x].parent = a PROVE FALSE
      OBVIOUS
    <3>1. rows[x] = s[x]
      BY <1>2, <1>3, <2>1 DEF Agree, Sees
    <3>2. PICK b \in Spaces, u \in Users : x = <<b, u>>
      BY <1>3, Hangs, KindsOfKeys
    <3>3. b = a
      BY <1>3, <3>2, KindsOfKeys DEF Good, ShapeAt
    <3> QED BY <2>1, <3>1, <3>2, <3>3 DEF SpaceArchive
  <2>2. ASSUME NEW x \in Keys, IsLive(s[x]), s[x].space # NoSpace PROVE s[x].space # a
    <3> SUFFICES ASSUME s[x].space = a PROVE FALSE
      OBVIOUS
    <3>1. x \in Collections
      BY <1>3, <2>2, Hangs
    <3>2. rows[x] = s[x]
      BY <1>2, <1>3, <2>2, <3>1 DEF Agree, Sees
    <3> QED BY <2>2, <3>1, <3>2 DEF SpaceArchive
  <2> QED BY <1>1, <1>3, <2>1, <2>2, StatusStep DEF IsLive, Exists
<1> QED BY <1>1, <1>2, <1>3, SetStep

LEMMA SpaceRestoreStep ==
  ASSUME TreeInv, NEW c \in Calls, NEW a \in Spaces, SpaceRestore(c, a)
  PROVE  TreeInv'
<1> DEFINE row == [rows[a] EXCEPT !.status = "live"]
<1>1. /\ a \in Keys /\ row \in Rows /\ Exists(rows[a])
      /\ ById({a}) \in Queries /\ Perform(c, ById({a}), Set(a, row))
  BY KindsOfKeys, Present, IdsAreRead DEF SpaceRestore, IsTrashed, Exists
<1>2. ASSUME NEW s \in [Keys -> Rows], Good(s), s[a] = rows[a]
      PROVE  Good([s EXCEPT ![a] = row])
  <2>1. s[a].parent = Root /\ s[a].space = NoSpace
    BY <1>2 DEF Good, ShapeAt
  <2> QED BY <1>1, <1>2, <2>1, StatusStep
<1> QED BY <1>1, <1>2, SetStep

LEMMA SpaceMemberAddStep ==
  ASSUME TreeInv, NEW c \in Calls, NEW a \in Spaces, NEW u \in Users,
         SpaceMemberAdd(c, a, u)
  PROVE  TreeInv'
<1> DEFINE k == <<a, u>>
           q == ById({a, k})
<1>1. /\ a \in Keys /\ k \in Keys /\ k \in Rosters /\ LiveRow(a, NoSpace) \in Rows
      /\ IsLive(rows[a]) /\ ~Exists(rows[k])
      /\ Perform(c, q, Set(k, LiveRow(a, NoSpace)))
  BY KindsOfKeys DEF SpaceMemberAdd, LiveRow, Rows
<1> HIDE DEF k
<1>2. q \in Queries /\ \A s : Agree(rows, s, q) => s[a] = rows[a]
  BY <1>1, IdsAreRead
<1>3. ASSUME NEW s \in [Keys -> Rows], Good(s), Agree(rows, s, q), s[k] = rows[k]
      PROVE  Good([s EXCEPT ![k] = LiveRow(a, NoSpace)])
  <2>1. ShapeAt([s EXCEPT ![k] = LiveRow(a, NoSpace)])
    <3> DEFINE t == [s EXCEPT ![k] = LiveRow(a, NoSpace)]
    <3>1. /\ t[k].parent = a /\ t[k].space = NoSpace
          /\ \A x \in Keys : x # k => t[x] = s[x]
      BY <1>1 DEF LiveRow
    <3> HIDE DEF t
    <3>2. \A b \in Spaces, v \in Users :
            t[<<b, v>>].parent \in {b, Root} /\ t[<<b, v>>].space = NoSpace
      <4> SUFFICES ASSUME NEW b \in Spaces, NEW v \in Users
                   PROVE  t[<<b, v>>].parent \in {b, Root} /\ t[<<b, v>>].space = NoSpace
        OBVIOUS
      <4>1. <<b, v>> \in Keys
        BY KindsOfKeys
      <4>2. <<b, v>> = k => b = a
        BY DEF k
      <4> QED BY <1>3, <3>1, <4>1, <4>2 DEF Good, ShapeAt
    <3> QED BY <1>1, <1>3, <3>1, <3>2, KindsOfKeys DEF Good, ShapeAt, t
  <2>2. k \notin Collections
    BY <1>1, KindsOfKeys
  <2> QED BY <1>1, <1>2, <1>3, <2>1, <2>2, KindsOfKeys, InsertStep
<1> QED BY <1>1, <1>2, <1>3, SetStep

LEMMA SpaceMemberRemoveStep ==
  ASSUME TreeInv, NEW c \in Calls, NEW a \in Spaces, NEW u \in Users,
         SpaceMemberRemove(c, a, u)
  PROVE  TreeInv'
<1> DEFINE k == <<a, u>>
           q == ById({a, k})
<1>1. /\ a \in Keys /\ k \in Keys /\ k \in Rosters /\ NoRow \in Rows
      /\ Perform(c, q, Set(k, NoRow))
  BY KindsOfKeys DEF SpaceMemberRemove, NoRow, Rows
<1> HIDE DEF k
<1>2. q \in Queries
  BY <1>1, IdsAreRead
<1>3. ASSUME NEW s \in [Keys -> Rows], Good(s)
      PROVE  Good([s EXCEPT ![k] = NoRow])
  <2> DEFINE t == [s EXCEPT ![k] = NoRow]
  <2>1. /\ t \in [Keys -> Rows] /\ t[k] = NoRow
        /\ NoRow.status = "none" /\ NoRow.parent = Root /\ NoRow.space = NoSpace
        /\ \A x \in Keys : x # k => t[x] = s[x]
    BY <1>1 DEF NoRow
  <2> HIDE DEF t
  <2>2. \A x \in Keys : /\ s[x].parent # Root => s[x].parent \in Keys \ {k}
                        /\ s[x].space # NoSpace => s[x].space \in Keys \ {k}
    BY <1>1, <1>3, Hangs, KindsOfKeys
  <2>3. ShapeAt(t)
    BY <1>1, <1>3, <2>1, KindsOfKeys DEF Good, ShapeAt
  <2>4. BlankAt(t)
    BY <1>3, <2>1, <2>2 DEF Good, BlankAt, Exists
  <2>5. LiveAt(t)
    BY <1>3, <2>1, <2>2 DEF Good, LiveAt, IsLive
  <2>6. \A x \in Collections : t[x] = s[x]
    BY <1>1, <2>1, KindsOfKeys
  <2>7. RootedAt(t)
    BY <1>3, <2>6 DEF Good, RootedAt
  <2>8. InheritedAt(t)
    BY <1>3, <2>6, KindsOfKeys DEF Good, InheritedAt, ShapeAt
  <2> QED BY <2>1, <2>3, <2>4, <2>5, <2>7, <2>8 DEF Good, t
<1> QED BY <1>1, <1>2, <1>3, SetStep

-----------------------------------------------------------------------------
(* Documents: the collection they are put in is read, and so is its space. *)

\* Nothing hangs below a document.
LEMMA DocsAreLeaves ==
  ASSUME NEW s, Good(s), NEW d \in Docs, NEW x \in Keys
  PROVE  s[x].parent # d /\ (s[x].space # NoSpace => s[x].space # d)
  BY Hangs, KindsOfKeys

\* A place that was found live is live in what is read alike.
LEMMA PlaceIsLive ==
  ASSUME TreeInv, NEW p \in Collections \cup {Root}, Placeable(p),
         NEW ids \in SUBSET Keys, Home(p) \subseteq ids,
         NEW s, Agree(rows, s, ById(ids))
  PROVE  p # Root => IsLive(s[p])
  BY IdsAreRead DEF Placeable, Home

LEMMA HomeIsKeys ==
  ASSUME TreeInv, NEW p \in Collections \cup {Root}
  PROVE  Home(p) \subseteq Keys
<1>1. CASE p = Root
  BY <1>1 DEF Home, SpaceOf, Ref
<1>2. CASE p # Root
  <2>1. rows[p].space \in Spaces \cup {NoSpace}
    BY <1>2, KindsOfKeys, Hangs DEF TreeInv
  <2> QED BY <1>2, <2>1, KindsOfKeys DEF Home, SpaceOf, Ref
<1> QED BY <1>1, <1>2

LEMMA DocCreateStep ==
  ASSUME TreeInv, NEW c \in Calls, NEW d \in Docs, NEW p \in Collections \cup {Root},
         DocCreate(c, d, p)
  PROVE  TreeInv'
<1> DEFINE q == ById(Home(p))
           row == LiveRow(p, NoSpace)
<1>1. /\ d \in Keys /\ ~Exists(rows[d]) /\ Placeable(p) /\ Perform(c, q, Set(d, row))
      /\ row \in Rows /\ row.parent = p /\ row.space = NoSpace
  BY KindsOfKeys DEF DocCreate, LiveRow, Rows
<1>2. Home(p) \in SUBSET Keys /\ q \in Queries
  BY HomeIsKeys, IdsAreRead
<1>3. ASSUME NEW s \in [Keys -> Rows], Good(s), Agree(rows, s, q), s[d] = rows[d]
      PROVE  Good([s EXCEPT ![d] = row])
  <2>1. p # Root => IsLive(s[p])
    BY <1>1, <1>2, <1>3, PlaceIsLive
  <2> HIDE DEF row, q
  <2>2. ShapeAt([s EXCEPT ![d] = row])
    BY <1>1, <1>3, KindsOfKeys DEF Good, ShapeAt
  <2>3. ~Exists(s[d]) /\ d \notin Collections
    BY <1>1, <1>3, KindsOfKeys
  <2> QED BY <1>1, <1>3, <2>1, <2>2, <2>3, KindsOfKeys, InsertStep DEF row
<1> QED BY <1>1, <1>2, <1>3, SetStep

LEMMA DocMoveStep ==
  ASSUME TreeInv, NEW c \in Calls, NEW d \in Docs, NEW p \in Collections \cup {Root},
         DocMove(c, d, p)
  PROVE  TreeInv'
<1> DEFINE q == ById({d} \cup Home(p))
           row == [rows[d] EXCEPT !.parent = p]
<1>1. /\ d \in Keys /\ IsLive(rows[d]) /\ Placeable(p) /\ Perform(c, q, Set(d, row))
      /\ rows[d] \in Rows
  BY KindsOfKeys, Present DEF DocMove
<1>2. /\ row \in Rows /\ row.parent = p /\ row.space = rows[d].space
      /\ row.status = rows[d].status
  BY <1>1 DEF Rows
<1>3. {d} \cup Home(p) \in SUBSET Keys /\ q \in Queries
  BY <1>1, HomeIsKeys, IdsAreRead
<1>4. ASSUME NEW s \in [Keys -> Rows], Good(s), Agree(rows, s, q), s[d] = rows[d]
      PROVE  Good([s EXCEPT ![d] = row])
  <2>1. p # Root => IsLive(s[p])
    BY <1>1, <1>3, <1>4, PlaceIsLive
  <2> HIDE DEF row, q
  <2> DEFINE t == [s EXCEPT ![d] = row]
  <2>2. /\ t \in [Keys -> Rows] /\ t[d].parent = p /\ t[d].space = s[d].space
        /\ t[d].status = s[d].status
        /\ \A x \in Keys : x # d => t[x] = s[x]
    BY <1>1, <1>2, <1>4
  <2> HIDE DEF t
  <2>3. \A x \in Keys : /\ s[x].parent # Root => s[x].parent \in Keys \ {d}
                        /\ s[x].space # NoSpace => s[x].space \in Keys \ {d}
    BY <1>4, Hangs, KindsOfKeys
  <2>4. p # d /\ (p # Root => p \in Keys)
    BY KindsOfKeys
  <2>5. ShapeAt(t)
    BY <1>4, <2>2, KindsOfKeys DEF Good, ShapeAt
  <2>6. BlankAt(t)
    BY <1>1, <1>4, <2>1, <2>2, <2>3, <2>4 DEF Good, BlankAt, Exists, IsLive
  <2>7. LiveAt(t)
    BY <1>4, <2>1, <2>2, <2>3, <2>4 DEF Good, LiveAt, IsLive
  <2>8. \A x \in Collections : t[x] = s[x]
    BY <2>2, KindsOfKeys
  <2>9. RootedAt(t)
    BY <1>4, <2>8 DEF Good, RootedAt
  <2>10. InheritedAt(t)
    BY <1>4, <2>8, KindsOfKeys DEF Good, InheritedAt, ShapeAt
  <2> QED BY <2>2, <2>5, <2>6, <2>7, <2>9, <2>10 DEF Good, t
<1> QED BY <1>1, <1>2, <1>3, <1>4, SetStep

LEMMA DocDeleteStep ==
  ASSUME TreeInv, NEW c \in Calls, NEW d \in Docs, DocDelete(c, d)
  PROVE  TreeInv'
<1> DEFINE row == [rows[d] EXCEPT !.status = "trashed"]
<1>1. /\ d \in Keys /\ row \in Rows /\ Exists(rows[d])
      /\ ById({d}) \in Queries /\ Perform(c, ById({d}), Set(d, row))
  BY KindsOfKeys, Present, IdsAreRead DEF DocDelete, IsLive, Exists
<1>2. ASSUME NEW s \in [Keys -> Rows], Good(s), s[d] = rows[d]
      PROVE  Good([s EXCEPT ![d] = row])
  BY <1>1, <1>2, DocsAreLeaves, StatusStep
<1> QED BY <1>1, <1>2, SetStep

LEMMA DocRestoreStep ==
  ASSUME TreeInv, NEW c \in Calls, NEW d \in Docs, DocRestore(c, d)
  PROVE  TreeInv'
<1> DEFINE p == rows[d].parent
           q == ById({d} \cup Home(p))
           row == [rows[d] EXCEPT !.status = "live"]
<1>1. /\ d \in Keys /\ row \in Rows /\ Exists(rows[d]) /\ Placeable(p)
      /\ Perform(c, q, Set(d, row)) /\ p \in Collections \cup {Root}
  BY KindsOfKeys, Present, Hangs DEF DocRestore, IsTrashed, Exists
<1>2. {d} \cup Home(p) \in SUBSET Keys /\ q \in Queries
  BY <1>1, HomeIsKeys, IdsAreRead
<1>3. ASSUME NEW s \in [Keys -> Rows], Good(s), Agree(rows, s, q), s[d] = rows[d]
      PROVE  Good([s EXCEPT ![d] = row])
  <2>1. s[d].parent # Root => IsLive(s[s[d].parent])
    BY <1>1, <1>2, <1>3, PlaceIsLive
  <2>2. s[d].space = NoSpace
    BY <1>3 DEF Good, ShapeAt
  <2> QED BY <1>1, <1>3, <2>1, <2>2, StatusStep
<1> QED BY <1>1, <1>2, <1>3, SetStep

-----------------------------------------------------------------------------
(* Collections *)

\* A chain has its first row and the parent of every row in it.
LEMMA ChainFacts ==
  ASSUME TreeInv, NEW p \in Collections \cup {Root}
  PROVE  /\ Chain(p) \subseteq Collections
         /\ p # Root => p \in Chain(p)
         /\ \A y \in Chain(p) : rows[y].parent \in Collections => rows[y].parent \in Chain(p)
<1>1. CASE p = Root
  BY <1>1 DEF Chain
<1>2. CASE p # Root
  <2>1. Chain(p) = Up(rows, p)
    BY <1>2 DEF Chain
  <2>2. ASSUME NEW y \in Up(rows, p), rows[y].parent \in Collections
        PROVE  rows[y].parent \in Up(rows, p)
    BY <2>2 DEF Up
  <2> QED BY <1>2, <2>1, <2>2 DEF Up
<1> QED BY <1>1, <1>2

\* A subtree has its first row, all that hangs below a row of it, and no other.
LEMMA DownFacts ==
  ASSUME NEW t, NEW k \in Collections
  PROVE  /\ Down(t, k) \subseteq Collections /\ k \in Down(t, k)
         /\ \A y \in Collections : t[y].parent \in Down(t, k) => y \in Down(t, k)
         /\ \A x \in Down(t, k) \ {k} : t[x].parent \in Down(t, k)
<1>1. Down(t, k) \subseteq Collections /\ k \in Down(t, k)
  BY DEF Down
<1>2. ASSUME NEW y \in Collections, t[y].parent \in Down(t, k)
      PROVE  y \in Down(t, k)
  BY <1>2 DEF Down
<1>3. ASSUME NEW x \in Down(t, k) \ {k}, t[x].parent \notin Down(t, k)
      PROVE  FALSE
  <2> DEFINE S == Down(t, k) \ {x}
  <2>1. S \in SUBSET Collections /\ k \in S
    BY <1>1, <1>3
  <2>2. ASSUME NEW y \in Collections, t[y].parent \in S PROVE y \in S
    BY <1>2, <1>3, <2>2
  <2> HIDE DEF S
  <2>3. x \in S
    BY <1>3, <2>1, <2>2 DEF Down
  <2> QED BY <2>3 DEF S
<1> QED BY <1>1, <1>2, <1>3

\* What a handler found on its way up, it reads by id.
LEMMA WayIsRead ==
  ASSUME TreeInv, NEW p \in Collections \cup {Root}, NEW a \in Spaces \cup {NoSpace},
         LiveChain(p), SpaceLive(a), p # Root => a = SpaceOf(p),
         NEW s, \A k \in Chain(p) \cup Ref(a) : s[k] = rows[k]
  PROVE  /\ p # Root => IsLive(s[p]) /\ s[p].space = a
         /\ a # NoSpace => IsLive(s[a])
  BY ChainFacts DEF LiveChain, SpaceLive, SpaceOf, Ref

LEMMA CollectionCreateStep ==
  ASSUME TreeInv, NEW c \in Calls, NEW k \in Collections,
         NEW p \in Collections \cup {Root}, NEW a \in Spaces \cup {NoSpace},
         CollectionCreate(c, k, p, a)
  PROVE  TreeInv'
<1> DEFINE ids == Chain(p) \cup Ref(a)
           q == ById(ids)
           row == LiveRow(p, a)
<1>1. /\ k \in Keys /\ ~Exists(rows[k]) /\ LiveChain(p) /\ SpaceLive(a)
      /\ p # Root => a = SpaceOf(p)
      /\ Perform(c, q, Set(k, row))
      /\ row \in Rows /\ row.parent = p /\ row.space = a
  BY KindsOfKeys DEF CollectionCreate, LiveRow, Rows
<1>2. ids \in SUBSET Keys
  BY ChainFacts, KindsOfKeys DEF Ref
<1> HIDE DEF row, ids
<1>3. q \in Queries /\ \A s : Agree(rows, s, q) => \A x \in ids : s[x] = rows[x]
  BY <1>2, IdsAreRead
<1>4. ASSUME NEW s \in [Keys -> Rows], Good(s), Agree(rows, s, q), s[k] = rows[k]
      PROVE  Good([s EXCEPT ![k] = row])
  <2>1. /\ p # Root => IsLive(s[p]) /\ s[p].space = a
        /\ a # NoSpace => IsLive(s[a])
    BY <1>1, <1>3, <1>4, WayIsRead DEF ids
  <2>2. ShapeAt([s EXCEPT ![k] = row])
    BY <1>1, <1>4, KindsOfKeys DEF Good, ShapeAt
  <2>3. ~Exists(s[k])
    BY <1>1, <1>4
  <2> QED BY <1>1, <1>4, <2>1, <2>2, <2>3, InsertStep DEF row
<1> QED BY <1>1, <1>3, <1>4, SetStep

LEMMA CollectionDeleteStep ==
  ASSUME TreeInv, NEW c \in Calls, NEW k \in Collections, CollectionDelete(c, k)
  PROVE  TreeInv'
<1> DEFINE q == [ById({k}) EXCEPT !.liveBelow = {k}]
           row == [rows[k] EXCEPT !.status = "trashed"]
<1>1. k \in Keys /\ row \in Rows /\ IsLive(rows[k]) /\ Perform(c, q, Set(k, row))
  BY KindsOfKeys, Present DEF CollectionDelete
<1>2. q \in Queries /\ q.liveBelow = {k}
  BY <1>1 DEF ById, Queries
<1> HIDE DEF q
<1>3. ASSUME NEW s \in [Keys -> Rows], Good(s), Agree(rows, s, q), s[k] = rows[k]
      PROVE  Good([s EXCEPT ![k] = row])
  <2>1. ASSUME NEW x \in Keys, IsLive(s[x])
        PROVE  s[x].parent # k /\ (s[x].space # NoSpace => s[x].space # k)
    <3>1. s[x].space # NoSpace => s[x].space # k
      BY <1>3, Hangs, KindsOfKeys
    <3>2. ASSUME s[x].parent = k PROVE FALSE
      <4>1. rows[x] = s[x]
        BY <1>2, <1>3, <2>1, <3>2 DEF Agree, Sees
      <4>2. x \in Collections \cup Docs
        BY <1>1, <1>3, <3>2, KindsOfKeys DEF Good, ShapeAt
      <4> QED BY <2>1, <3>2, <4>1, <4>2 DEF CollectionDelete
    <3> QED BY <3>1, <3>2
  <2> QED BY <1>1, <1>3, <2>1, StatusStep DEF IsLive, Exists
<1> QED BY <1>1, <1>2, <1>3, SetStep

LEMMA CollectionRestoreStep ==
  ASSUME TreeInv, NEW c \in Calls, NEW k \in Collections, CollectionRestore(c, k)
  PROVE  TreeInv'
<1> DEFINE p == rows[k].parent
           ids == {k} \cup Chain(p) \cup Ref(rows[k].space)
           q == ById(ids)
           row == [rows[k] EXCEPT !.status = "live"]
<1>1. /\ k \in Keys /\ row \in Rows /\ Exists(rows[k]) /\ LiveChain(p)
      /\ SpaceLive(rows[k].space) /\ Perform(c, q, Set(k, row))
      /\ p \in Collections \cup {Root} /\ rows[k].space \in Spaces \cup {NoSpace}
  BY KindsOfKeys, Present, Hangs DEF CollectionRestore, IsTrashed, Exists
<1>2. p # Root => rows[k].space = SpaceOf(p)
  BY DEF TreeInv, Good, InheritedAt, SpaceOf
<1>3. ids \in SUBSET Keys
  BY <1>1, ChainFacts, KindsOfKeys DEF Ref
<1> HIDE DEF row, ids, p
<1>4. q \in Queries /\ \A s : Agree(rows, s, q) => \A x \in ids : s[x] = rows[x]
  BY <1>3, IdsAreRead
<1>5. ASSUME NEW s \in [Keys -> Rows], Good(s), Agree(rows, s, q), s[k] = rows[k]
      PROVE  Good([s EXCEPT ![k] = row])
  <2>1. /\ p # Root => IsLive(s[p])
        /\ rows[k].space # NoSpace => IsLive(s[rows[k].space])
    BY <1>1, <1>2, <1>4, <1>5, WayIsRead DEF ids
  <2> QED BY <1>1, <1>5, <2>1, StatusStep DEF row, p
<1> QED BY <1>1, <1>4, <1>5, SetStep

\* A subtree hangs from its first row; it is whole, or stays in its space; the
\* new parent is live, in the space named, and its ancestors are not below it.
LEMMA MoveIsGood ==
  ASSUME NEW s \in [Keys -> Rows], Good(s),
         NEW k \in Collections, IsLive(s[k]),
         NEW p \in Collections \cup {Root}, NEW a \in Spaces \cup {NoSpace},
         p # Root => IsLive(s[p]) /\ s[p].space = a,
         a # NoSpace => IsLive(s[a]),
         NEW up \in SUBSET Collections, k \notin up, p # Root => p \in up,
         \A y \in up : s[y].parent \in Collections => s[y].parent \in up,
         NEW tree \in SUBSET Collections, k \in tree,
         \A x \in tree \ {k} : s[x].parent \in tree,
         s[k].space = a \/ \A y \in Collections : s[y].parent \in tree => y \in tree,
         tree = {k} \/ s[k].space # a
  PROVE  Good(Overwrite(s, MovedTo(s, k, p, a, tree)))
<1> DEFINE w == MovedTo(s, k, p, a, tree)
           t == Overwrite(s, w)
<1>1. /\ DOMAIN w = tree
      /\ \A x \in tree : /\ w[x] \in Rows /\ w[x].status = s[x].status /\ w[x].space = a
                         /\ w[x].parent = IF x = k THEN p ELSE s[x].parent
  <2>1. DOMAIN w = tree
    BY DEF MovedTo
  <2>2. ASSUME NEW x \in tree
        PROVE  /\ w[x] \in Rows /\ w[x].status = s[x].status /\ w[x].space = a
               /\ w[x].parent = IF x = k THEN p ELSE s[x].parent
    <3>1. s[x] \in Rows
      BY KindsOfKeys
    <3>2. CASE x = k
      BY <3>1, <3>2 DEF MovedTo, Rows
    <3>3. CASE x # k
      BY <3>1, <3>3 DEF MovedTo, Rows
    <3> QED BY <3>2, <3>3
  <2> QED BY <2>1, <2>2
<1> HIDE DEF w
<1>2. tree \subseteq Keys
  BY KindsOfKeys
<1>3. /\ t \in [Keys -> Rows]
      /\ \A x \in Keys : x \notin tree => t[x] = s[x]
      /\ \A x \in tree : t[x] = w[x]
  BY <1>1, <1>2, OverwriteFacts
<1> HIDE DEF t
<1>4. /\ \A x \in Keys : t[x].status = s[x].status
      /\ \A x \in Keys : t[x].parent = IF x = k THEN p ELSE s[x].parent
      /\ \A x \in Keys : t[x].space = IF x \in tree THEN a ELSE s[x].space
  BY <1>1, <1>2, <1>3
<1>5. \A x \in Keys : /\ s[x].parent # Root => s[x].parent \in Keys
                      /\ s[x].space # NoSpace => s[x].space \in Keys
  BY Hangs, KindsOfKeys
<1>6. k \in Keys /\ (p # Root => p \in Keys) /\ (a # NoSpace => a \in Keys)
  BY KindsOfKeys
<1>7. ShapeAt(t)
  BY <1>3, <1>4, KindsOfKeys DEF Good, ShapeAt
<1>8. BlankAt(t)
  <2> SUFFICES ASSUME NEW x \in Keys
               PROVE  /\ ~Exists(t[x]) => t[x] = NoRow
                      /\ t[x].parent # Root => Exists(t[t[x].parent])
    BY DEF BlankAt
  <2>1. ASSUME ~Exists(t[x]) PROVE x \notin tree
    <3> SUFFICES ASSUME x \in tree PROVE FALSE
      OBVIOUS
    <3>1. ~Exists(s[x]) /\ x # k
      BY <1>4, <2>1 DEF Exists, IsLive
    <3>2. s[x].parent = Root
      BY <3>1 DEF Good, BlankAt, NoRow
    <3> QED BY <3>1, <3>2, KindsOfKeys
  <2>2. t[x].parent # Root => Exists(t[t[x].parent])
    BY <1>4, <1>5, <1>6 DEF Good, BlankAt, Exists, IsLive
  <2> QED BY <1>3, <2>1, <2>2 DEF Good, BlankAt
<1>9. LiveAt(t)
  BY <1>4, <1>5, <1>6 DEF Good, LiveAt, IsLive
<1>10. RootedAt(t)
  <2> SUFFICES ASSUME NEW S \in SUBSET Collections, S # {}
               PROVE  \E x \in S : t[x].parent \notin S
    BY DEF RootedAt
  <2>1. CASE k \notin S
    BY <1>4, <2>1, KindsOfKeys DEF Good, RootedAt
  <2>2. CASE k \in S /\ S \cap up = {}
    BY <1>4, <1>6, <2>2, KindsOfKeys
  <2>3. CASE S \cap up # {}
    <3>1. PICK y \in S \cap up : s[y].parent \notin S \cap up
      BY <2>3 DEF Good, RootedAt
    <3>2. t[y].parent = s[y].parent
      BY <1>4, <3>1, KindsOfKeys
    <3> QED BY <3>1, <3>2
  <2> QED BY <2>1, <2>2, <2>3
<1>11. InheritedAt(t)
  <2> SUFFICES ASSUME NEW x \in Collections, t[x].parent # Root
               PROVE  t[x].space = t[t[x].parent].space
    BY DEF InheritedAt
  <2>1. CASE x = k
    BY <1>4, <1>6, <2>1
  <2>2. CASE x # k /\ x \in tree
    BY <1>4, <1>5, <2>2, KindsOfKeys
  <2>3. CASE x \notin tree
    <3>1. t[x].parent = s[x].parent /\ t[x].space = s[x].space /\ s[x].parent \in Keys
      BY <1>4, <1>5, <2>3, KindsOfKeys
    <3>2. s[x].space = s[s[x].parent].space
      BY <3>1 DEF Good, InheritedAt
    <3>3. s[x].parent \in tree => s[k].space = a /\ s[x].parent = k
      BY <2>3
    <3> QED BY <1>4, <3>1, <3>2, <3>3
  <2> QED BY <2>1, <2>2, <2>3
<1> QED BY <1>3, <1>7, <1>8, <1>9, <1>10, <1>11 DEF Good, t, w

\* The ancestors of the new parent are read one by one, so no move on the way
\* can have been missed; the subtree, when it crosses, by the children of every
\* row, so none can have been added.
LEMMA CollectionMoveStep ==
  ASSUME TreeInv, NEW c \in Calls, NEW k \in Collections,
         NEW p \in Collections \cup {Root}, NEW a \in Spaces \cup {NoSpace},
         CollectionMove(c, k, p, a)
  PROVE  TreeInv'
<1> DEFINE crosses == rows[k].space # a
           tree == IF crosses THEN Down(rows, k) ELSE {k}
           ids == {k} \cup Chain(p) \cup Ref(a) \cup Ref(rows[k].space)
           q == [ById(ids) EXCEPT !.below = IF crosses THEN tree ELSE {}]
           w == MovedTo(rows, k, p, a, tree)
<1>1. /\ k \in Keys /\ IsLive(rows[k]) /\ k \notin Chain(p) /\ LiveChain(p)
      /\ SpaceLive(a)
      /\ p # Root => a = SpaceOf(p)
      /\ Perform(c, q, w)
  BY KindsOfKeys DEF CollectionMove, MovedTo
<1>2. tree \subseteq Collections /\ k \in tree /\ tree \subseteq Keys
  BY DownFacts, KindsOfKeys
<1>3. ids \in SUBSET Keys
  <2>1. rows[k].space \in Spaces \cup {NoSpace}
    BY <1>1, Hangs DEF TreeInv
  <2> QED BY <2>1, ChainFacts, KindsOfKeys DEF Ref
<1>4. q \in Queries /\ q.ids = ids /\ q.below = IF crosses THEN tree ELSE {}
  BY <1>2, <1>3 DEF ById, Queries
<1>5. DOMAIN w = tree /\ \A x \in DOMAIN w : w[x] \in Rows
  <2>1. \A x \in tree : rows[x] \in Rows
    BY <1>2, Present
  <2> QED BY <2>1 DEF MovedTo, Rows
<1> HIDE DEF q, w
<1>6. ASSUME NEW s \in [Keys -> Rows], Good(s), Agree(rows, s, q),
             \A x \in DOMAIN w : s[x] = rows[x]
      PROVE  Good(Overwrite(s, w))
  <2>1. \A x \in ids : s[x] = rows[x]
    BY <1>3, <1>4, <1>6 DEF Agree, Sees
  <2>2. \A x \in tree : s[x] = rows[x]
    BY <1>5, <1>6
  <2>3. /\ p # Root => IsLive(s[p]) /\ s[p].space = a
        /\ a # NoSpace => IsLive(s[a])
    BY <1>1, <2>1, WayIsRead
  <2>4. /\ Chain(p) \in SUBSET Collections /\ k \notin Chain(p)
        /\ p # Root => p \in Chain(p)
        /\ \A y \in Chain(p) : s[y].parent \in Collections => s[y].parent \in Chain(p)
    BY <1>1, <2>1, ChainFacts
  <2>5. \A x \in tree \ {k} : s[x].parent \in tree
    BY <2>2, DownFacts
  <2>6. ASSUME crosses, NEW y \in Collections, s[y].parent \in tree
        PROVE  y \in tree
    <3>1. y \in Keys /\ Exists(s[y])
      <4>1. s[y].parent # Root
        BY <1>2, <2>6, KindsOfKeys
      <4> QED BY <1>6, <4>1, KindsOfKeys DEF Good, BlankAt, NoRow
    <3>2. s[y] = rows[y]
      BY <1>4, <1>6, <2>6, <3>1 DEF Agree, Sees
    <3> QED BY <2>6, <3>2, DownFacts
  <2>7. w = MovedTo(s, k, p, a, tree)
    BY <2>2 DEF MovedTo, w
  <2>8. s[k] = rows[k] /\ IsLive(s[k])
    BY <1>1, <1>2, <2>2
  <2>9. tree \in SUBSET Collections /\ k \in tree /\ (tree = {k} \/ s[k].space # a)
    BY <1>2, <2>8
  <2>10. s[k].space = a \/ \A y \in Collections : s[y].parent \in tree => y \in tree
    BY <2>6, <2>8
  <2> HIDE DEF tree
  <2> QED BY <1>6, <2>3, <2>4, <2>5, <2>7, <2>8, <2>9, <2>10, MoveIsGood
<1>7. Sound(q, w)
  BY <1>6 DEF Sound
<1> QED BY <1>1, <1>2, <1>4, <1>5, <1>7, PerformStep

-----------------------------------------------------------------------------
(* The invariant *)

LEMMA InitHolds ==
  ASSUME Init PROVE TreeInv
<1>1. NoRow \in Rows /\ NoRow.parent = Root /\ NoRow.space = NoSpace
      /\ NoRow.status = "none"
  BY DEF NoRow, Rows
<1>2. rows \in [Keys -> Rows] /\ \A k \in Keys : rows[k] = NoRow
  BY <1>1 DEF Init
<1>3. \A c \in Calls : work[c] = Idle /\ ~Pending(c)
  BY DEF Init, Pending
<1>4. TypeOK
  <2>1. /\ Idle.reads \in Queries
        /\ DOMAIN Idle.writes \subseteq Keys
        /\ \A k \in DOMAIN Idle.writes : Idle.writes[k] \in Rows
    BY DEF Idle, ById, Queries
  <2> QED BY <1>2, <1>3, <2>1 DEF Init, TypeOK
<1>5. Good(rows)
  <2>1. ShapeAt(rows) /\ BlankAt(rows)
    BY <1>1, <1>2, KindsOfKeys DEF ShapeAt, BlankAt, Exists
  <2>2. LiveAt(rows) /\ InheritedAt(rows)
    BY <1>1, <1>2, KindsOfKeys DEF LiveAt, InheritedAt, IsLive
  <2>3. RootedAt(rows)
    BY <1>1, <1>2, KindsOfKeys DEF RootedAt
  <2> QED BY <1>2, <2>1, <2>2, <2>3 DEF Good
<1>6. \A c \in Calls : Accurate(c)
  BY <1>3 DEF Accurate
<1>7. ASSUME NEW C \in SUBSET Calls PROVE CyclesShow(C)
  <2>1. CASE C = {}
    <3>1. ASSUME NEW s \in [Keys -> Rows], Merged(s, C) PROVE s = rows
      BY <1>2, <2>1, <3>1 DEF Merged
    <3> QED BY <1>5, <3>1 DEF CyclesShow
  <2>2. CASE C # {}
    BY <1>3, <2>2 DEF CyclesShow, Compatible
  <2> QED BY <2>1, <2>2
<1> QED BY <1>4, <1>5, <1>6, <1>7 DEF TreeInv

LEMMA NextKeeps ==
  ASSUME TreeInv, [Next]_vars
  PROVE  TreeInv'
<1>1. CASE UNCHANGED vars
  <2>1. /\ rows' = rows /\ work' = work /\ missed' = missed /\ readBy' = readBy
        /\ stale' = stale /\ TreeInv
    BY <1>1 DEF vars
  <2>2. TypeOK'
    BY <2>1 DEF TreeInv, TypeOK
  <2>3. Good(rows)'
    BY <2>1 DEF TreeInv
  <2>4. ASSUME NEW c \in Calls PROVE Accurate(c)'
    BY <2>1 DEF TreeInv, Accurate, Sound, Agree, Fresh, Pending
  <2>5. ASSUME NEW C \in SUBSET Calls PROVE CyclesShow(C)'
    <3>1. Compatible(C)' => Compatible(C)
      BY <2>1 DEF Compatible, Fresh, Pending
    <3>2. \A s : Merged(s, C)' => Merged(s, C)
      BY <2>1 DEF Merged
    <3>3. Overwritten(C) => Overwritten(C)'
      BY <2>1 DEF Overwritten, Touches
    <3> QED BY <2>1, <3>1, <3>2, <3>3 DEF TreeInv, CyclesShow
  <2> QED BY <2>2, <2>3, <2>4, <2>5 DEF TreeInv
<1>2. ASSUME NEW c \in Calls, SpaceStep(c) PROVE TreeInv'
  BY <1>2, SpaceCreateStep, SpaceArchiveStep, SpaceRestoreStep, SpaceMemberAddStep,
     SpaceMemberRemoveStep DEF SpaceStep
<1>3. ASSUME NEW c \in Calls, CollectionStep(c) PROVE TreeInv'
  BY <1>3, CollectionCreateStep, CollectionMoveStep, CollectionDeleteStep,
     CollectionRestoreStep DEF CollectionStep
<1>4. ASSUME NEW c \in Calls, DocStep(c) PROVE TreeInv'
  BY <1>4, DocCreateStep, DocMoveStep, DocDeleteStep, DocRestoreStep DEF DocStep
<1>5. ASSUME NEW c \in Calls, Commit(c) \/ Abort(c) PROVE TreeInv'
  BY <1>5, CommitStep, AbortStep
<1> QED BY <1>1, <1>2, <1>3, <1>4, <1>5 DEF Next

\* Every reachable state satisfies the inductive invariant, whatever
\* transactions of the tree's capabilities overlap.
THEOREM Inductive == Spec => []TreeInv
  BY InitHolds, NextKeeps, PTL DEF Spec

\* collection.delete and space.archive refuse by a count, the others by a look
\* at the parent: nothing live is ever left below a trashed row.
THEOREM LiveOnLive == Spec => []LiveStandsOnLive
<1>1. TreeInv => LiveStandsOnLive
  BY DEF TreeInv, Good, LiveStandsOnLive
<1> QED BY <1>1, Inductive, PTL

\* collection.move looks for a cycle in its own snapshot only, and no number of
\* moves that overlap makes one.
THEOREM Rooted == Spec => []CollectionsAreRooted
<1>1. TreeInv => CollectionsAreRooted
  BY DEF TreeInv, Good, CollectionsAreRooted
<1> QED BY <1>1, Inductive, PTL

\* collection.move re-homes the subtree it has enumerated: nothing that is put
\* in it or taken out of it meanwhile is left in the other space.
THEOREM SpacesInherited == Spec => []SubtreesShareTheirSpace
<1>1. TreeInv => SubtreesShareTheirSpace
  BY DEF TreeInv, Good, SubtreesShareTheirSpace
<1> QED BY <1>1, Inductive, PTL
=============================================================================
