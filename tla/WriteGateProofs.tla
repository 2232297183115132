---------------------------- MODULE WriteGateProofs ----------------------------
(***************************************************************************)
(* Proofs about module WriteGate: whatever the number of tabs, edits,      *)
(* connections and buckets, and however the clock moves, no dispatched     *)
(* call lacks what its frame depends on (Integrates), ids ascend in commit *)
(* order (Ascends), and buckets follow their definition (Meters).          *)
(*                                                                         *)
(* The argument for the first: a frame depends only on what is resident,   *)
(* on earlier frames of its connection and on itself (FramesInv), which    *)
(* appending keeps as long as all that a connected tab knows is resident   *)
(* or on its connection (SentInv).  The chain removes frames from the      *)
(* front only when they are resident, and all of them when it refuses one. *)
(* For the last: the bound from below holds as of the last refill, whose   *)
(* clock may since have been set back, the one from above as of now.       *)
(***************************************************************************)
EXTENDS WriteGate, SequenceTheorems, FiniteSetTheorems, TLAPS

AllEdits == Tabs \X Nat
Frames == Seq(SUBSET AllEdits)

TypeInv ==
  /\ known \in [Tabs -> SUBSET AllEdits]
  /\ cur \in [Tabs -> 1..MaxConns]
  /\ conn \in [Conns -> [open : BOOLEAN, frames : Frames,
                         at : {"idle", "resolving", "dispatched"}]]
  /\ resident \in SUBSET AllEdits
  /\ \A c \in Conns : conn[c].at # "idle" => conn[c].frames # <<>>

-----------------------------------------------------------------------------
(* Identifiers *)

Stamp == <<lastTs, counter>>

IdsInv ==
  /\ lastTs \in Nat /\ counter \in 0..CounterMax /\ clock \in Nat
  /\ log \in Seq([id : Nat \X Nat, edits : SUBSET AllEdits])
  /\ \A i \in DOMAIN log : log[i].id = Stamp \/ Precedes(log[i].id, Stamp)
  /\ IdsAscend

\* The counter is carried, never lost.
LEMMA CarryCounter ==
  ASSUME NEW c \in 0..CounterMax
  PROVE  (c + 1) % (CounterMax + 1) = IF c = CounterMax THEN 0 ELSE c + 1
<1>1. CounterMax \in Nat \ {0}
  BY WriteGateAssumption
<1>2. CASE c = CounterMax
  BY <1>1, <1>2, SMT
<1>3. CASE c # CounterMax
  <2>1. c + 1 \in 0..CounterMax
    BY <1>1, <1>3
  <2>2. \A m \in Nat \ {0}, k \in Nat : k < m => k % m = k
    BY SMT
  <2>. QED  BY <1>1, <1>3, <2>1, <2>2
<1>. QED  BY <1>2, <1>3

LEMMA SeedsInRange == Seeds \subseteq 0..CounterMax
<1>1. CounterMax \in Nat \ {0}
  BY WriteGateAssumption
<1>2. \A n \in Nat : n \div 2 \in Nat /\ n \div 2 <= n
  BY SMT
<1>3. (CounterMax + 1) \div 2 \in Nat /\ (CounterMax + 1) \div 2 <= CounterMax + 1
  BY <1>1, <1>2
<1>. QED  BY <1>1, <1>3 DEF Seeds

\* A new id is greater than the last, wherever the clock is.
LEMMA UuidV7Ascends ==
  ASSUME lastTs \in Nat, counter \in 0..CounterMax, clock \in Nat, UuidV7
  PROVE  /\ lastTs' \in Nat /\ counter' \in 0..CounterMax
         /\ Precedes(Stamp, Stamp')
<1>1. CounterMax \in Nat \ {0}
  BY WriteGateAssumption
<1>2. CASE clock > lastTs
  BY <1>1, <1>2, SeedsInRange DEF UuidV7, Stamp, Precedes
<1>3. CASE ~(clock > lastTs)
  <2>1. counter' = IF counter = CounterMax THEN 0 ELSE counter + 1
    BY <1>3, CarryCounter DEF UuidV7
  <2>2. lastTs' = IF counter' = 0 THEN lastTs + 1 ELSE lastTs
    BY <1>3 DEF UuidV7
  <2>. QED  BY <1>1, <2>1, <2>2 DEF Stamp, Precedes
<1>. QED  BY <1>2, <1>3

LEMMA IdsCommit ==
  ASSUME TypeInv, IdsInv, NEW c \in Conns, Commit(c)
  PROVE  IdsInv'
<1>. DEFINE frame == Head(conn[c].frames)
            row == [id |-> Stamp', edits |-> frame \ resident]
            Row == [id : Nat \X Nat, edits : SUBSET AllEdits]
<1>1. lastTs' \in Nat /\ counter' \in 0..CounterMax /\ clock' \in Nat /\ Precedes(Stamp, Stamp')
  BY UuidV7Ascends DEF IdsInv, Commit, clocks
<1>2. CounterMax \in Nat
  BY WriteGateAssumption
<1>3. \A i \in DOMAIN log : log[i].id \in Nat \X Nat
  <2>1. \A i \in DOMAIN log : log[i] \in Row
    <3>. HIDE DEF Row
    <3>. QED  BY ElementOfSeq, LenProperties DEF IdsInv, Row
  <2>. QED  BY <2>1
<1>4. Stamp \in Nat \X Nat /\ Stamp' \in Nat \X Nat
  BY <1>1, <1>2 DEF IdsInv, Stamp
<1>5. \A x, y, z \in Nat \X Nat : Precedes(x, y) /\ Precedes(y, z) => Precedes(x, z)
  BY DEF Precedes
<1>6. \A i \in DOMAIN log : Precedes(log[i].id, Stamp')
  BY <1>1, <1>3, <1>4, <1>5 DEF IdsInv
<1>7. CASE log' = log
  BY <1>1, <1>6, <1>7 DEF IdsInv, IdsAscend
<1>8. CASE log' = Append(log, row)
  <2>5. conn[c].frames \in Frames /\ conn[c].frames # <<>>
    BY DEF TypeInv, Commit
  <2>6. frame \in SUBSET AllEdits
    BY <2>5, HeadTailProperties DEF Frames
  <2>7. row \in Row
    BY <1>4, <2>6
  <2>8. log \in Seq(Row)
    BY DEF IdsInv
  <2>9. /\ log' \in Seq(Row)
        /\ DOMAIN log = 1..Len(log) /\ DOMAIN log' = 1..(Len(log) + 1)
        /\ \A i \in DOMAIN log : log'[i] = log[i]
        /\ log'[Len(log) + 1] = row
    <3>. HIDE DEF row, Row
    <3>. QED  BY <1>8, <2>7, <2>8, AppendProperties
  <2>10. \A i \in DOMAIN log' : i \in DOMAIN log \/ i = Len(log) + 1
    BY <2>8, <2>9
  <2>11. log'[Len(log) + 1].id = Stamp'
    BY <2>9
  <2>12. \A i \in DOMAIN log' : log'[i].id = Stamp' \/ Precedes(log'[i].id, Stamp')
    BY <1>6, <2>9, <2>10, <2>11
  <2>13. IdsAscend'
    <3>. SUFFICES ASSUME NEW i \in DOMAIN log', NEW j \in DOMAIN log', i < j
                  PROVE  Precedes(log'[i].id, log'[j].id)
      BY DEF IdsAscend, Precedes
    <3>1. i \in DOMAIN log
      BY <2>8, <2>9
    <3>2. CASE j \in DOMAIN log
      BY <2>9, <3>1, <3>2 DEF IdsInv, IdsAscend
    <3>3. CASE j = Len(log) + 1
      BY <1>6, <2>9, <2>11, <3>1, <3>3
    <3>. QED  BY <2>10, <3>2, <3>3
  <2>. QED  BY <1>1, <2>9, <2>12, <2>13 DEF IdsInv
<1>. QED  BY <1>7, <1>8 DEF Commit, Stamp

-----------------------------------------------------------------------------
(* Frames *)

\* All that x may depend on when frame i of fs is its turn.
Before(fs, res, i) == res \cup UNION {fs[j] : j \in 1..i}

\* Every frame is made of edits of d, and what these depend on comes before.
Grounded(fs, res, d) ==
  \A i \in 1..Len(fs) : \A e \in fs[i] : e \in DOMAIN d /\ d[e] \subseteq Before(fs, res, i)

LEMMA GroundedMore ==
  ASSUME NEW fs \in Frames, NEW res, NEW d, Grounded(fs, res, d),
         NEW more, NEW longer, res \subseteq more, DOMAIN d \subseteq DOMAIN longer,
         \A e \in DOMAIN d : longer[e] = d[e]
  PROVE  Grounded(fs, more, longer)
BY DEF Grounded, Before

LEMMA GroundedEmpty ==
  ASSUME NEW res, NEW d
  PROVE  <<>> \in Frames /\ Grounded(<<>>, res, d)
BY DEF Grounded, Frames

\* The first frame only needs what is resident.
LEMMA GroundedHead ==
  ASSUME NEW fs \in Frames, NEW res, NEW d, Grounded(fs, res, d), fs # <<>>
  PROVE  \A e \in Head(fs) : e \in DOMAIN d /\ d[e] \subseteq res \cup Head(fs)
<1>1. Len(fs) \in Nat /\ 1 \in 1..Len(fs) /\ Head(fs) = fs[1]
  BY DEF Frames
<1>2. Before(fs, res, 1) = res \cup Head(fs)
  BY <1>1 DEF Before
<1>. QED  BY <1>1, <1>2 DEF Grounded

LEMMA GroundedTail ==
  ASSUME NEW fs \in Frames, NEW res, NEW d, Grounded(fs, res, d), fs # <<>>,
         Head(fs) \subseteq res
  PROVE  /\ Tail(fs) \in Frames
         /\ Grounded(Tail(fs), res, d)
         /\ Before(fs, res, Len(fs)) = Before(Tail(fs), res, Len(Tail(fs)))
<1>1. /\ Tail(fs) \in Frames /\ Len(Tail(fs)) = Len(fs) - 1 /\ Len(fs) \in Nat \ {0}
      /\ \A i \in 1..Len(Tail(fs)) : Tail(fs)[i] = fs[i + 1]
  BY HeadTailProperties, EmptySeq, LenProperties DEF Frames
<1>2. fs[1] \subseteq res
  BY <1>1
<1>3. ASSUME NEW i \in 0..Len(Tail(fs))
      PROVE  Before(Tail(fs), res, i) = Before(fs, res, i + 1)
  <2>1. \A j \in 1..i : Tail(fs)[j] = fs[j + 1] /\ j + 1 \in 1..(i + 1)
    BY <1>1
  <2>2. \A j \in 1..(i + 1) : j = 1 \/ (j - 1 \in 1..i /\ Tail(fs)[j - 1] = fs[j])
    BY <1>1
  <2>3. \A x \in Before(Tail(fs), res, i) : x \in Before(fs, res, i + 1)
    BY <2>1 DEF Before
  <2>4. \A x \in Before(fs, res, i + 1) : x \in Before(Tail(fs), res, i)
    BY <1>2, <2>2 DEF Before
  <2>. QED  BY <2>3, <2>4
<1>4. Grounded(Tail(fs), res, d)
  BY <1>1, <1>3 DEF Grounded
<1>. QED  BY <1>1, <1>3, <1>4

\* What a dropped connection loses is at the end.
LEMMA GroundedPrefix ==
  ASSUME NEW fs \in Frames, NEW res, NEW d, Grounded(fs, res, d), NEW n \in 0..Len(fs)
  PROVE  /\ SubSeq(fs, 1, n) \in Frames /\ Len(SubSeq(fs, 1, n)) = n
         /\ Grounded(SubSeq(fs, 1, n), res, d)
<1>1. Len(fs) \in Nat /\ \A i \in 1..Len(fs) : fs[i] \in SUBSET AllEdits
  BY LenProperties, ElementOfSeq DEF Frames
<1>2. /\ SubSeq(fs, 1, n) \in Frames /\ Len(SubSeq(fs, 1, n)) = n
      /\ \A i \in 1..n : SubSeq(fs, 1, n)[i] = fs[i]
  BY <1>1, SubSeqProperties DEF Frames
<1>3. \A i \in 1..n : Before(SubSeq(fs, 1, n), res, i) = Before(fs, res, i)
  BY <1>1, <1>2 DEF Before
<1>. QED  BY <1>1, <1>2, <1>3 DEF Grounded

\* A new frame may depend on all that is resident or queued.
LEMMA GroundedAppend ==
  ASSUME NEW fs \in Frames, NEW res, NEW d, Grounded(fs, res, d),
         NEW f \in SUBSET AllEdits,
         \A e \in f : e \in DOMAIN d /\ d[e] \subseteq Before(fs, res, Len(fs))
  PROVE  /\ Append(fs, f) \in Frames
         /\ Grounded(Append(fs, f), res, d)
         /\ Before(Append(fs, f), res, Len(Append(fs, f))) = Before(fs, res, Len(fs)) \cup f
<1>. DEFINE gs == Append(fs, f)
<1>1. /\ gs \in Frames /\ Len(fs) \in Nat /\ Len(gs) = Len(fs) + 1
      /\ \A i \in 1..Len(fs) : gs[i] = fs[i]
      /\ gs[Len(fs) + 1] = f
  BY AppendProperties, LenProperties DEF Frames
<1>. HIDE DEF gs
<1>2. \A i \in 0..Len(fs) : Before(gs, res, i) = Before(fs, res, i)
  BY <1>1 DEF Before
<1>3. Before(gs, res, Len(fs) + 1) = Before(gs, res, Len(fs)) \cup f
  <2>1. \A j \in 1..(Len(fs) + 1) : j \in 1..Len(fs) \/ j = Len(fs) + 1
    BY <1>1
  <2>2. Len(fs) + 1 \in 1..(Len(fs) + 1) /\ 1..Len(fs) \subseteq 1..(Len(fs) + 1)
    BY <1>1
  <2>3. \A x : x \in Before(gs, res, Len(fs) + 1) <=> x \in Before(gs, res, Len(fs)) \cup f
    BY <1>1, <2>1, <2>2 DEF Before
  <2>. QED  BY <2>3
<1>4. Before(gs, res, Len(fs) + 1) = Before(fs, res, Len(fs)) \cup f
  BY <1>1, <1>2, <1>3
<1>5. Grounded(gs, res, d)
  <2>. SUFFICES ASSUME NEW i \in 1..Len(gs), NEW e \in gs[i]
                PROVE  e \in DOMAIN d /\ d[e] \subseteq Before(gs, res, i)
    BY DEF Grounded
  <2>1. CASE i \in 1..Len(fs)
    BY <1>1, <1>2, <2>1 DEF Grounded
  <2>2. CASE i = Len(fs) + 1
    BY <1>1, <1>4, <2>2
  <2>. QED  BY <1>1, <2>1, <2>2
<1>. QED  BY <1>1, <1>4, <1>5 DEF gs

-----------------------------------------------------------------------------
(* The invariant *)

Own(t, n) == {t} \X (1..n)

\* What is resident, and what a tab knows, is closed under dependencies, and a
\* tab knows all the edits made in it, numbered without a gap.
DepsInv ==
  /\ DOMAIN deps \subseteq AllEdits
  /\ \A e \in resident : e \in DOMAIN deps /\ deps[e] \subseteq resident
  /\ \A t \in Tabs : \A e \in known[t] : e \in DOMAIN deps /\ deps[e] \subseteq known[t]
  /\ \A e \in DOMAIN deps : e \in known[e[1]]
  /\ \A t \in Tabs : \E n \in Nat : {x \in known[t] : x[1] = t} = Own(t, n)

FramesInv == \A c \in Conns : Grounded(conn[c].frames, resident, deps)

SentTo(c) == Before(conn[c].frames, resident, Len(conn[c].frames))
SentInv == \A t \in Tabs : conn[Newest(t)].open => known[t] \subseteq SentTo(Newest(t))

Inv == TypeInv /\ DepsInv /\ FramesInv /\ SentInv

LEMMA OwnCardinality ==
  ASSUME NEW t, NEW n \in Nat
  PROVE  Cardinality(Own(t, n)) = n
<1>. DEFINE f == [i \in 1..n |-> <<t, i>>]
<1>1. f \in Bijection(1..n, Own(t, n))
  <2>1. f \in [1..n -> Own(t, n)]
    BY DEF Own
  <2>2. \A i, j \in 1..n : f[i] = f[j] => i = j
    OBVIOUS
  <2>3. \A y \in Own(t, n) : \E i \in 1..n : f[i] = y
    BY DEF Own
  <2>. HIDE DEF f
  <2>. QED  BY <2>1, <2>2, <2>3 DEF Bijection, Injection, Surjection, IsInjective
<1>2. ExistsBijection(1..n, Own(t, n))
  BY <1>1 DEF ExistsBijection
<1>3. IsFiniteSet(1..n) /\ Cardinality(1..n) = n
  BY FS_Interval
<1>. QED  BY <1>2, <1>3, FS_Bijection

LEMMA NewestIsConn ==
  ASSUME TypeInv, NEW t \in Tabs
  PROVE  Newest(t) \in Conns /\ Newest(t)[1] = t
BY DEF TypeInv, Newest, Conns

LEMMA InvInit == Init => Inv
<1>. SUFFICES ASSUME Init  PROVE Inv
  OBVIOUS
<1>1. MaxConns \in Nat \ {0}
  BY WriteGateAssumption
<1>2. TypeInv
  BY <1>1 DEF Init, TypeInv, Fresh, Condemned, Frames, Conns
<1>3. DOMAIN deps = {}
  BY DEF Init
<1>4. \A t \in Tabs : known[t] = {} /\ {x \in known[t] : x[1] = t} = Own(t, 0)
  BY DEF Init, Own
<1>5. DepsInv
  BY <1>3, <1>4 DEF Init, DepsInv
<1>6. FramesInv
  BY DEF Init, FramesInv, Grounded, Fresh, Condemned
<1>. QED  BY <1>2, <1>4, <1>5, <1>6 DEF Inv, SentInv

\* An edit is new, and its tab knows all that it depends on.
LEMMA EditIsNew ==
  ASSUME Inv, NEW t \in Tabs, NEW e,
         e = <<t, Cardinality({x \in known[t] : x[1] = t}) + 1>>
  PROVE  /\ e \in AllEdits /\ e \notin DOMAIN deps /\ e[1] = t
         /\ \E n \in Nat : {x \in known[t] \cup {e} : x[1] = t} = Own(t, n)
<1>1. PICK n \in Nat : {x \in known[t] : x[1] = t} = Own(t, n)
  BY DEF Inv, DepsInv
<1>2. e = <<t, n + 1>>
  BY <1>1, OwnCardinality
<1>3. e \notin Own(t, n)
  BY <1>2 DEF Own
<1>4. e \notin DOMAIN deps
  BY <1>1, <1>2, <1>3 DEF Inv, DepsInv
<1>5. Own(t, n + 1) = Own(t, n) \cup {e}
  <2>1. 1..(n + 1) = 1..n \cup {n + 1}
    OBVIOUS
  <2>2. \A x \in Own(t, n + 1) : x \in Own(t, n) \cup {e}
    BY <1>2, <2>1 DEF Own
  <2>3. \A x \in Own(t, n) : x \in Own(t, n + 1)
    BY <2>1 DEF Own
  <2>4. e \in Own(t, n + 1)
    BY <1>2, <2>1 DEF Own
  <2>. QED  BY <2>2, <2>3, <2>4
<1>6. {x \in known[t] \cup {e} : x[1] = t} = Own(t, n + 1)
  BY <1>1, <1>2, <1>5
<1>. QED  BY <1>2, <1>4, <1>6 DEF AllEdits

LEMMA InvEdit ==
  ASSUME Inv, NEW t \in Tabs, Edit(t)
  PROVE  Inv'
<1>. DEFINE e == <<t, Cardinality({x \in known[t] : x[1] = t}) + 1>>
            c == Newest(t)
<1>1. /\ e \in AllEdits /\ e \notin DOMAIN deps /\ e[1] = t
      /\ \E n \in Nat : {x \in known[t] \cup {e} : x[1] = t} = Own(t, n)
  BY EditIsNew
<1>2. /\ known' = [known EXCEPT ![t] = @ \cup {e}]
      /\ deps' = [x \in DOMAIN deps \cup {e} |-> IF x = e THEN known[t] ELSE deps[x]]
      /\ conn' = IF conn[c].open THEN [conn EXCEPT ![c].frames = Append(@, {e})] ELSE conn
      /\ cur' = cur /\ resident' = resident
  BY DEF Edit
<1>. HIDE DEF e
<1>3. c \in Conns /\ Newest(t)' = c /\ \A u \in Tabs : Newest(u) = c => u = t
  BY <1>2, NewestIsConn DEF Inv, Newest
<1>4. /\ DOMAIN deps' = DOMAIN deps \cup {e}
      /\ deps'[e] = known[t]
      /\ \A x \in DOMAIN deps : deps'[x] = deps[x]
  BY <1>1, <1>2
<1>5. \A u \in Tabs : known'[u] = IF u = t THEN known[t] \cup {e} ELSE known[u]
  BY <1>2 DEF Inv, TypeInv
<1>6. \A d \in Conns : conn[d].frames \in Frames /\ Grounded(conn[d].frames, resident, deps')
  BY <1>4, GroundedMore DEF Inv, TypeInv, FramesInv
<1>7. DepsInv'
  <2>1. DOMAIN deps' \subseteq AllEdits
    BY <1>1, <1>4 DEF Inv, DepsInv
  <2>2. \A x \in resident' : x \in DOMAIN deps' /\ deps'[x] \subseteq resident'
    BY <1>2, <1>4 DEF Inv, DepsInv
  <2>3. \A u \in Tabs : \A x \in known'[u] : x \in DOMAIN deps' /\ deps'[x] \subseteq known'[u]
    BY <1>1, <1>4, <1>5 DEF Inv, DepsInv
  <2>4. \A x \in DOMAIN deps' : x \in known'[x[1]]
    <3>1. \A x \in DOMAIN deps : x[1] \in Tabs
      BY DEF Inv, DepsInv, AllEdits
    <3>. QED  BY <1>1, <1>4, <1>5, <3>1 DEF Inv, DepsInv
  <2>5. \A u \in Tabs : \E n \in Nat : {x \in known'[u] : x[1] = u} = Own(u, n)
    BY <1>1, <1>5 DEF Inv, DepsInv
  <2>. QED  BY <2>1, <2>2, <2>3, <2>4, <2>5 DEF DepsInv
<1>8. CASE ~conn[c].open
  <2>1. conn' = conn
    BY <1>2, <1>8
  <2>2. TypeInv'
    BY <1>1, <1>2, <2>1 DEF Inv, TypeInv
  <2>3. FramesInv'
    BY <1>2, <1>6, <2>1 DEF FramesInv
  <2>4. SentInv'
    BY <1>2, <1>3, <1>5, <1>8, <2>1 DEF Inv, SentInv, SentTo, Newest
  <2>. QED  BY <1>7, <2>2, <2>3, <2>4 DEF Inv
<1>9. CASE conn[c].open
  <2>. DEFINE fs == conn[c].frames
  <2>1. /\ conn'[c] = [conn[c] EXCEPT !.frames = Append(fs, {e})]
        /\ \A d \in Conns : d # c => conn'[d] = conn[d]
        /\ DOMAIN conn' = Conns
    BY <1>2, <1>3, <1>9 DEF Inv, TypeInv
  <2>2. known[t] \subseteq Before(fs, resident, Len(fs))
    BY <1>9 DEF Inv, SentInv, SentTo
  <2>3. /\ Append(fs, {e}) \in Frames
        /\ Grounded(Append(fs, {e}), resident, deps')
        /\ Before(Append(fs, {e}), resident, Len(Append(fs, {e})))
             = Before(fs, resident, Len(fs)) \cup {e}
    BY <1>1, <1>3, <1>4, <1>6, <2>2, GroundedAppend
  <2>4. /\ conn'[c].frames = Append(fs, {e})
        /\ conn'[c].open = conn[c].open /\ conn'[c].at = conn[c].at
    BY <1>3, <2>1 DEF Inv, TypeInv
  <2>5. Append(fs, {e}) # <<>>
    <3>1. fs \in Seq(SUBSET AllEdits) /\ {e} \in SUBSET AllEdits
      BY <1>1, <1>3 DEF Inv, TypeInv, Frames
    <3>. HIDE DEF fs
    <3>. QED  BY <3>1, AppendProperties
  <2>6. TypeInv'
    <3>1. conn' \in [Conns -> [open : BOOLEAN, frames : Frames,
                               at : {"idle", "resolving", "dispatched"}]]
      BY <1>2, <1>3, <1>9, <2>3 DEF Inv, TypeInv
    <3>2. \A d \in Conns : conn'[d].at # "idle" => conn'[d].frames # <<>>
      BY <2>1, <2>4, <2>5 DEF Inv, TypeInv
    <3>. QED  BY <1>1, <1>2, <3>1, <3>2 DEF Inv, TypeInv
  <2>7. FramesInv'
    BY <1>2, <1>6, <2>1, <2>3, <2>4 DEF FramesInv
  <2>8. SentInv'
    <3>. SUFFICES ASSUME NEW u \in Tabs, conn'[Newest(u)'].open
                  PROVE  known'[u] \subseteq SentTo(Newest(u))'
      BY DEF SentInv
    <3>1. CASE u = t
      <4>1. SentTo(Newest(u))' = Before(Append(fs, {e}), resident, Len(Append(fs, {e})))
        BY <1>2, <1>3, <2>4, <3>1 DEF SentTo
      <4>. QED  BY <1>5, <2>2, <2>3, <3>1, <4>1
    <3>2. CASE u # t
      <4>1. Newest(u)' = Newest(u) /\ Newest(u) \in Conns /\ Newest(u) # c
        BY <1>2, <1>3, <3>2, NewestIsConn DEF Inv, Newest
      <4>. QED  BY <1>2, <1>5, <2>1, <3>2, <4>1 DEF Inv, SentInv, SentTo
    <3>. QED  BY <3>1, <3>2
  <2>. QED  BY <1>7, <2>6, <2>7, <2>8 DEF Inv
<1>. QED  BY <1>8, <1>9

LEMMA InvReceive ==
  ASSUME Inv, NEW t \in Tabs, Receive(t)
  PROVE  Inv'
<1>1. /\ known' = [known EXCEPT ![t] = @ \cup resident]
      /\ deps' = deps /\ cur' = cur /\ conn' = conn /\ resident' = resident
  BY DEF Receive
<1>2. \A u \in Tabs : known'[u] = IF u = t THEN known[t] \cup resident ELSE known[u]
  BY <1>1 DEF Inv, TypeInv
<1>3. TypeInv'
  BY <1>1 DEF Inv, TypeInv
<1>4. DepsInv'
  <2>1. \A e \in resident : e[1] = t => e \in known[t]
    BY DEF Inv, DepsInv
  <2>2. {x \in known'[t] : x[1] = t} = {x \in known[t] : x[1] = t}
    BY <1>2, <2>1
  <2>3. \A u \in Tabs : \E n \in Nat : {x \in known'[u] : x[1] = u} = Own(u, n)
    BY <1>2, <2>2 DEF Inv, DepsInv
  <2>4. \A u \in Tabs : known[u] \subseteq known'[u]
    BY <1>2
  <2>5. \A e \in DOMAIN deps : e[1] \in Tabs
    BY DEF Inv, DepsInv, AllEdits
  <2>. QED  BY <1>1, <1>2, <2>3, <2>4, <2>5 DEF Inv, DepsInv
<1>5. FramesInv'
  BY <1>1 DEF Inv, FramesInv
<1>6. SentInv'
  BY <1>1, <1>2 DEF Inv, SentInv, SentTo, Before, Newest
<1>. QED  BY <1>3, <1>4, <1>5, <1>6 DEF Inv

LEMMA InvDrop ==
  ASSUME Inv, NEW t \in Tabs, Drop(t)
  PROVE  Inv'
<1>. DEFINE c == Newest(t)
            fs == conn[c].frames
<1>1. PICK n \in (IF conn[c].at = "idle" THEN 0 ELSE 1)..Len(fs) :
        conn' = [conn EXCEPT ![c].open = FALSE, ![c].frames = SubSeq(@, 1, n)]
  BY DEF Drop
<1>2. /\ known' = known /\ deps' = deps /\ cur' = cur /\ resident' = resident
  BY DEF Drop, tabs
<1>3. c \in Conns /\ fs \in Frames
  BY NewestIsConn DEF Inv, TypeInv
<1>4. n \in 0..Len(fs) /\ (conn[c].at # "idle" => n # 0)
  BY <1>1
<1>5. /\ SubSeq(fs, 1, n) \in Frames /\ Len(SubSeq(fs, 1, n)) = n
      /\ Grounded(SubSeq(fs, 1, n), resident, deps)
  BY <1>3, <1>4, GroundedPrefix DEF Inv, FramesInv
<1>6. /\ conn'[c] = [conn[c] EXCEPT !.open = FALSE, !.frames = SubSeq(fs, 1, n)]
      /\ conn'[c].open = FALSE /\ conn'[c].frames = SubSeq(fs, 1, n) /\ conn'[c].at = conn[c].at
      /\ \A d \in Conns : d # c => conn'[d] = conn[d]
      /\ DOMAIN conn' = Conns
  BY <1>1, <1>3 DEF Inv, TypeInv
<1>7. TypeInv'
  <2>1. conn' \in [Conns -> [open : BOOLEAN, frames : Frames,
                             at : {"idle", "resolving", "dispatched"}]]
    BY <1>1, <1>3, <1>5 DEF Inv, TypeInv
  <2>2. conn[c].at # "idle" => SubSeq(fs, 1, n) # <<>>
    BY <1>4, <1>5
  <2>. QED  BY <1>2, <1>6, <2>1, <2>2 DEF Inv, TypeInv
<1>8. DepsInv'
  BY <1>2 DEF Inv, DepsInv
<1>9. FramesInv'
  BY <1>2, <1>5, <1>6 DEF Inv, FramesInv
<1>10. SentInv'
  BY <1>2, <1>6, NewestIsConn DEF Inv, SentInv, SentTo, Newest
<1>. QED  BY <1>7, <1>8, <1>9, <1>10 DEF Inv

LEMMA InvReconnect ==
  ASSUME Inv, NEW t \in Tabs, Reconnect(t)
  PROVE  Inv'
<1>. DEFINE c == <<t, cur[t] + 1>>
            fs == IF known[t] \subseteq resident THEN <<>> ELSE <<known[t] \ resident>>
<1>1. /\ cur[t] < MaxConns
      /\ cur' = [cur EXCEPT ![t] = @ + 1]
      /\ conn' = [conn EXCEPT ![c] = [Fresh EXCEPT !.frames = fs]]
      /\ known' = known /\ deps' = deps /\ resident' = resident
  BY DEF Reconnect, tabs
<1>2. MaxConns \in Nat
  BY WriteGateAssumption
<1>3. c \in Conns /\ cur' \in [Tabs -> 1..MaxConns]
  BY <1>1, <1>2 DEF Inv, TypeInv, Conns
<1>4. Newest(t)' = c /\ \A u \in Tabs : u # t => Newest(u)' = Newest(u) /\ Newest(u) # c
  BY <1>1 DEF Inv, TypeInv, Newest
<1>5. fs \in Frames
  <2>1. known[t] \ resident \in SUBSET AllEdits
    BY DEF Inv, TypeInv
  <2>2. \A x \in SUBSET AllEdits : <<x>> \in Seq(SUBSET AllEdits)
    OBVIOUS
  <2>3. <<known[t] \ resident>> \in Frames
    BY <2>1, <2>2 DEF Frames
  <2>. QED  BY <2>3, GroundedEmpty
<1>6. Grounded(fs, resident, deps) /\ known[t] \subseteq Before(fs, resident, Len(fs))
  <2>1. CASE known[t] \subseteq resident
    BY <2>1, GroundedEmpty DEF Before
  <2>2. CASE ~(known[t] \subseteq resident)
    <3>1. Len(fs) = 1 /\ fs[1] = known[t] \ resident
      BY <2>2
    <3>2. Before(fs, resident, 1) = resident \cup known[t]
      BY <3>1 DEF Before
    <3>. HIDE DEF fs
    <3>. QED  BY <3>1, <3>2 DEF Grounded, Inv, DepsInv
  <2>. QED  BY <2>1, <2>2
<1>. HIDE DEF fs
<1>7. /\ conn'[c] = [open |-> TRUE, frames |-> fs, at |-> "idle"]
      /\ \A d \in Conns : d # c => conn'[d] = conn[d]
  BY <1>1, <1>3 DEF Inv, TypeInv, Fresh
<1>8. TypeInv'
  <2>1. conn' \in [Conns -> [open : BOOLEAN, frames : Frames,
                             at : {"idle", "resolving", "dispatched"}]]
    BY <1>1, <1>3, <1>5 DEF Inv, TypeInv, Fresh
  <2>. QED  BY <1>1, <1>3, <1>7, <2>1 DEF Inv, TypeInv
<1>9. DepsInv'
  BY <1>1 DEF Inv, DepsInv
<1>10. FramesInv'
  BY <1>1, <1>6, <1>7 DEF Inv, FramesInv
<1>11. SentInv'
  <2>. SUFFICES ASSUME NEW u \in Tabs, conn'[Newest(u)'].open
                PROVE  known'[u] \subseteq SentTo(Newest(u))'
    BY DEF SentInv
  <2>1. CASE u = t
    BY <1>1, <1>4, <1>6, <1>7, <2>1 DEF SentTo
  <2>2. CASE u # t
    BY <1>1, <1>4, <1>7, <2>2, NewestIsConn DEF Inv, SentInv, SentTo
  <2>. QED  BY <2>1, <2>2
<1>. QED  BY <1>8, <1>9, <1>10, <1>11 DEF Inv

\* The three moves of the gate, over a document that may have grown to more.
LEMMA InvGate ==
  ASSUME Inv, NEW c \in Conns,
         UNCHANGED <<tabs, cur>>,
         resident' \in SUBSET AllEdits, resident \subseteq resident',
         \A e \in resident' : e \in DOMAIN deps /\ deps[e] \subseteq resident',
         \/ Refuse(c)
         \/ Settle(c) /\ conn[c].frames # <<>> /\ Head(conn[c].frames) \subseteq resident'
         \/ \E at \in {"resolving", "dispatched"} : conn[c].frames # <<>> /\ Goto(c, at)
  PROVE  Inv'
<1>. DEFINE Conn == [open : BOOLEAN, frames : Frames, at : {"idle", "resolving", "dispatched"}]
            fs == conn[c].frames
<1>1. /\ known' = known /\ deps' = deps /\ cur' = cur
      /\ \A d \in Conns : conn[d].frames \in Frames
      /\ \A t \in Tabs : Newest(t)' = Newest(t) /\ Newest(t) \in Conns
  BY NewestIsConn DEF tabs, Inv, TypeInv, Newest
<1>2. DepsInv'
  BY <1>1 DEF Inv, DepsInv
<1>3. \A d \in Conns : Grounded(conn[d].frames, resident', deps)
  BY <1>1, GroundedMore DEF Inv, FramesInv
<1>4. \A d \in Conns : SentTo(d) \subseteq Before(conn[d].frames, resident', Len(conn[d].frames))
  BY DEF SentTo, Before
<1>5. ASSUME conn' \in [Conns -> Conn],
             \A d \in Conns : d # c => conn'[d] = conn[d],
             conn'[c].at # "idle" => conn'[c].frames # <<>>,
             Grounded(conn'[c].frames, resident', deps),
             conn'[c].open =>
               /\ conn[c].open
               /\ Before(conn'[c].frames, resident', Len(conn'[c].frames))
                    = Before(fs, resident', Len(fs))
      PROVE  Inv'
  <2>1. TypeInv'
    BY <1>1, <1>5 DEF Inv, TypeInv
  <2>2. FramesInv'
    BY <1>1, <1>3, <1>5 DEF FramesInv
  <2>3. SentInv'
    <3>. SUFFICES ASSUME NEW t \in Tabs, conn'[Newest(t)].open
                  PROVE  known[t] \subseteq SentTo(Newest(t))'
      BY <1>1 DEF SentInv, SentTo
    <3>1. conn[Newest(t)].open /\ known[t] \subseteq SentTo(Newest(t))
      BY <1>1, <1>5 DEF Inv, SentInv
    <3>2. SentTo(Newest(t))' = Before(conn[Newest(t)].frames, resident', Len(conn[Newest(t)].frames))
      BY <1>1, <1>5 DEF SentTo
    <3>. QED  BY <1>1, <1>4, <3>1, <3>2
  <2>. QED  BY <1>2, <2>1, <2>2, <2>3 DEF Inv
<1>6. CASE Refuse(c)
  <2>1. conn' = [conn EXCEPT ![c] = [open |-> FALSE, frames |-> <<>>, at |-> "idle"]]
    BY <1>6 DEF Refuse, Condemned
  <2>. QED  BY <1>5, <2>1, GroundedEmpty DEF Inv, TypeInv
<1>7. CASE Settle(c) /\ fs # <<>> /\ Head(fs) \subseteq resident'
  <2>1. /\ Tail(fs) \in Frames
        /\ Grounded(Tail(fs), resident', deps)
        /\ Before(fs, resident', Len(fs)) = Before(Tail(fs), resident', Len(Tail(fs)))
    BY <1>1, <1>3, <1>7, GroundedTail
  <2>2. /\ conn' = [conn EXCEPT ![c].at = "idle", ![c].frames = Tail(@)]
    BY <1>7 DEF Settle
  <2>3. /\ conn'[c].open = conn[c].open /\ conn'[c].frames = Tail(fs) /\ conn'[c].at = "idle"
        /\ \A d \in Conns : d # c => conn'[d] = conn[d]
        /\ conn' \in [Conns -> Conn]
    BY <2>1, <2>2 DEF Inv, TypeInv
  <2>. QED  BY <1>5, <2>1, <2>3
<1>8. CASE \E at \in {"resolving", "dispatched"} : fs # <<>> /\ Goto(c, at)
  <2>1. PICK at \in {"resolving", "dispatched"} : fs # <<>> /\ conn' = [conn EXCEPT ![c].at = at]
    BY <1>8 DEF Goto
  <2>2. /\ conn'[c].open = conn[c].open /\ conn'[c].frames = fs /\ conn'[c].at = at
        /\ \A d \in Conns : d # c => conn'[d] = conn[d]
        /\ conn' \in [Conns -> Conn]
    BY <2>1 DEF Inv, TypeInv
  <2>. QED  BY <1>3, <1>5, <2>1, <2>2
<1>. QED  BY <1>6, <1>7, <1>8

LEMMA ResidentClosed ==
  ASSUME Inv
  PROVE  resident \in SUBSET AllEdits /\ \A e \in resident : e \in DOMAIN deps /\ deps[e] \subseteq resident
BY DEF Inv, TypeInv, DepsInv

LEMMA InvGateFrame ==
  ASSUME Inv, NEW c \in Conns, GateFrame(c)
  PROVE  Inv'
<1>1. UNCHANGED <<tabs, cur>> /\ resident' = resident /\ conn[c].frames # <<>>
  BY DEF GateFrame
<1>2. \/ Settle(c) /\ Head(conn[c].frames) \subseteq resident
      \/ Goto(c, "resolving")
  BY DEF GateFrame
<1>. QED  BY <1>1, <1>2, InvGate, ResidentClosed

LEMMA InvConsume ==
  ASSUME Inv, NEW c \in Conns, Consume(c)
  PROVE  Inv'
<1>1. UNCHANGED <<tabs, cur>> /\ resident' = resident /\ conn[c].frames # <<>>
  BY DEF Consume, Inv, TypeInv
<1>2. Goto(c, "dispatched") \/ Refuse(c)
  BY DEF Consume
<1>. QED  BY <1>1, <1>2, InvGate, ResidentClosed

LEMMA InvFails ==
  ASSUME Inv, NEW c \in Conns, Fails(c)
  PROVE  Inv'
<1>1. UNCHANGED <<tabs, cur>> /\ resident' = resident /\ Refuse(c)
  BY DEF Fails
<1>. QED  BY <1>1, InvGate, ResidentClosed

LEMMA InvCommit ==
  ASSUME Inv, NEW c \in Conns, Commit(c)
  PROVE  Inv'
<1>. DEFINE frame == Head(conn[c].frames)
<1>1. /\ UNCHANGED <<tabs, cur>> /\ resident' = resident \cup frame
      /\ conn[c].frames # <<>> /\ conn[c].frames \in Frames
      /\ Settle(c)
  BY DEF Commit, Inv, TypeInv
<1>2. \A e \in frame : e \in DOMAIN deps /\ deps[e] \subseteq resident \cup frame
  BY <1>1, GroundedHead DEF Inv, FramesInv
<1>3. frame \in SUBSET AllEdits
  BY <1>1, HeadTailProperties DEF Frames
<1>4. /\ resident' \in SUBSET AllEdits /\ resident \subseteq resident' /\ frame \subseteq resident'
      /\ \A e \in resident' : e \in DOMAIN deps /\ deps[e] \subseteq resident'
  BY <1>1, <1>2, <1>3, ResidentClosed
<1>. QED  BY <1>1, <1>4, InvGate

LEMMA InvNext == Inv /\ [Next]_vars => Inv'
<1>1. ASSUME Inv, UNCHANGED <<tabs, cur, conn, resident>>
      PROVE  Inv'
  BY <1>1 DEF Inv, TypeInv, DepsInv, FramesInv, SentInv, SentTo, Newest, tabs
<1>2. Tick \/ SetBack \/ UNCHANGED vars => UNCHANGED <<tabs, cur, conn, resident>>
  BY DEF Tick, SetBack, vars, tabs
<1>. QED  BY <1>1, <1>2, InvEdit, InvReceive, InvDrop, InvReconnect,
             InvGateFrame, InvConsume, InvFails, InvCommit DEF Next

LEMMA IdsInit == Init => IdsInv
BY WriteGateAssumption DEF Init, IdsInv, IdsAscend

LEMMA IdsNext == TypeInv /\ IdsInv /\ [Next]_vars => IdsInv'
<1>1. ASSUME IdsInv, UNCHANGED <<log, ids>>, clock' \in Nat
      PROVE  IdsInv'
  BY <1>1 DEF IdsInv, IdsAscend, Stamp, ids
<1>2. ASSUME IdsInv, Tick \/ SetBack
      PROVE  IdsInv'
  <2>1. UNCHANGED <<log, ids>> /\ clock' \in Nat
    BY <1>2 DEF Tick, SetBack, IdsInv
  <2>. QED  BY <1>1, <1>2, <2>1
<1>3. ASSUME IdsInv, NEW t \in Tabs, Edit(t) \/ Receive(t) \/ Drop(t) \/ Reconnect(t)
      PROVE  IdsInv'
  <2>1. UNCHANGED <<log, ids>> /\ clock' = clock
    BY <1>3 DEF Edit, Receive, Drop, Reconnect, clocks
  <2>. QED  BY <1>1, <1>3, <2>1 DEF IdsInv
<1>4. ASSUME IdsInv, NEW c \in Conns, GateFrame(c) \/ Consume(c) \/ Fails(c)
      PROVE  IdsInv'
  <2>1. UNCHANGED <<log, ids>> /\ clock' = clock
    BY <1>4 DEF GateFrame, Consume, Fails, clocks
  <2>. QED  BY <1>1, <1>4, <2>1 DEF IdsInv
<1>5. ASSUME IdsInv, UNCHANGED vars
      PROVE  IdsInv'
  BY <1>1, <1>5 DEF vars, ids, IdsInv
<1>. QED  BY <1>2, <1>3, <1>4, <1>5, IdsCommit DEF Next

-----------------------------------------------------------------------------
(* Buckets *)

Calls == [tab : Tabs, clock : Nat, forward : Nat]

Charges(b) == {i \in DOMAIN admitted : b \in BucketsOf[admitted[i].tab]}
Since(b, i) == Cardinality({j \in Charges(b) : j >= i})
Left(b, i, earned) == Full(b) + earned - Since(b, i) * Period[b]

\* The bounds of the reference, at the last refill from below, now from above.
Lower(b) ==
  \/ bucket[b].tokens >= Full(b)
  \/ \E i \in Charges(b) :
       bucket[b].tokens >= Left(b, i, bucket[b].lastRefill - admitted[i].clock)
Upper(b) ==
  /\ bucket[b].tokens <= Full(b)
  /\ \A i \in Charges(b) :
       bucket[b].tokens + Elapsed(b) <= Left(b, i, forward - admitted[i].forward)

BucketTypes ==
  /\ clock \in Nat /\ forward \in Nat
  /\ admitted \in Seq(Calls)
  /\ bucket \in [Buckets -> [tokens : Nat, lastRefill : Nat]]

BucketInv == BucketTypes /\ \A b \in Buckets : Lower(b) /\ Upper(b)

LEMMA FullIsNat ==
  ASSUME NEW b \in Buckets
  PROVE  /\ Period[b] \in Nat \ {0} /\ Full(b) \in Nat /\ Full(b) >= Period[b]
         /\ \A n \in Nat : n * Period[b] \in Nat /\ (n + 1) * Period[b] = n * Period[b] + Period[b]
         /\ 1 * Period[b] = Period[b]
<1>1. Burst[b] \in Nat \ {0} /\ Period[b] \in Nat \ {0}
  BY WriteGateAssumption
<1>2. \A m, n \in Nat \ {0} : m * n \in Nat /\ m * n >= n /\ 1 * n = n
  BY SMT
<1>3. \A m \in Nat, n \in Nat \ {0} : m * n \in Nat /\ (m + 1) * n = m * n + n
  BY SMT
<1>. QED  BY <1>1, <1>2, <1>3 DEF Full

LEMMA CallsAre ==
  ASSUME BucketTypes
  PROVE  /\ Len(admitted) \in Nat /\ DOMAIN admitted = 1..Len(admitted)
         /\ \A i \in DOMAIN admitted :
              admitted[i].tab \in Tabs /\ admitted[i].clock \in Nat /\ admitted[i].forward \in Nat
<1>1. /\ Len(admitted) \in Nat /\ DOMAIN admitted = 1..Len(admitted)
      /\ \A i \in DOMAIN admitted : admitted[i] \in Calls
  BY LenProperties, ElementOfSeq DEF BucketTypes
<1>. QED  BY <1>1 DEF Calls

LEMMA SinceIsNat ==
  ASSUME BucketTypes, NEW b \in Buckets, NEW i \in Charges(b)
  PROVE  /\ IsFiniteSet({j \in Charges(b) : j >= i})
         /\ Since(b, i) \in Nat
<1>1. IsFiniteSet(DOMAIN admitted)
  BY CallsAre, FS_Interval
<1>2. IsFiniteSet({j \in Charges(b) : j >= i})
  BY <1>1, FS_Subset DEF Charges
<1>. QED  BY <1>2, FS_CardinalityType DEF Since

LEMMA LeftIsInt ==
  ASSUME BucketTypes, NEW b \in Buckets, NEW i \in Charges(b)
  PROVE  /\ Left(b, i, 0) \in Int
         /\ \A n \in Int : Left(b, i, n) = Left(b, i, 0) + n
<1>1. Full(b) \in Nat /\ Since(b, i) * Period[b] \in Nat
  BY FullIsNat, SinceIsNat
<1>. QED  BY <1>1 DEF Left

\* What a bucket holds once refilled.
LEMMA RefilledBounds ==
  ASSUME BucketInv, NEW b \in Buckets
  PROVE  /\ Refilled(b) \in Nat /\ Refilled(b) <= Full(b)
         /\ \/ Refilled(b) >= Full(b)
            \/ \E i \in Charges(b) : Refilled(b) >= Left(b, i, clock - admitted[i].clock)
         /\ \A i \in Charges(b) : Refilled(b) <= Left(b, i, forward - admitted[i].forward)
<1>1. /\ bucket[b].tokens \in Nat /\ bucket[b].lastRefill \in Nat /\ clock \in Nat /\ forward \in Nat
      /\ Full(b) \in Nat
      /\ \A i \in Charges(b) : admitted[i].clock \in Nat /\ admitted[i].forward \in Nat
  BY FullIsNat, CallsAre DEF BucketInv, BucketTypes, Charges
<1>2. Elapsed(b) \in Nat /\ Elapsed(b) >= clock - bucket[b].lastRefill
  BY <1>1 DEF Elapsed
<1>3. /\ Refilled(b) \in Nat /\ Refilled(b) <= Full(b)
      /\ Refilled(b) <= bucket[b].tokens + Elapsed(b)
      /\ Refilled(b) >= Full(b) \/ Refilled(b) = bucket[b].tokens + Elapsed(b)
  BY <1>1, <1>2 DEF Refilled
<1>4. ASSUME NEW i \in Charges(b), Refilled(b) = bucket[b].tokens + Elapsed(b),
             bucket[b].tokens >= Left(b, i, bucket[b].lastRefill - admitted[i].clock)
      PROVE  Refilled(b) >= Left(b, i, clock - admitted[i].clock)
  <2>1. /\ Left(b, i, 0) \in Int
        /\ Left(b, i, bucket[b].lastRefill - admitted[i].clock)
             = Left(b, i, 0) + (bucket[b].lastRefill - admitted[i].clock)
        /\ Left(b, i, clock - admitted[i].clock) = Left(b, i, 0) + (clock - admitted[i].clock)
    BY <1>1, LeftIsInt DEF BucketInv
  <2>. QED  BY <1>1, <1>2, <1>4, <2>1
<1>5. ASSUME NEW i \in Charges(b)
      PROVE  Refilled(b) <= Left(b, i, forward - admitted[i].forward)
  <2>1. Left(b, i, forward - admitted[i].forward) \in Int
    BY <1>1, LeftIsInt DEF BucketInv
  <2>2. bucket[b].tokens + Elapsed(b) <= Left(b, i, forward - admitted[i].forward)
    BY DEF BucketInv, Upper
  <2>. QED  BY <1>1, <1>2, <1>3, <2>1, <2>2
<1>6. \/ bucket[b].tokens >= Full(b)
      \/ \E i \in Charges(b) :
           bucket[b].tokens >= Left(b, i, bucket[b].lastRefill - admitted[i].clock)
  BY DEF BucketInv, Lower
<1>7. bucket[b].tokens >= Full(b) => Refilled(b) >= Full(b)
  BY <1>1, <1>2, <1>3
<1>. QED  BY <1>3, <1>4, <1>5, <1>6, <1>7

\* An admitted call counts in the windows of its buckets, and in no other.
LEMMA SinceCharge ==
  ASSUME BucketTypes, NEW b \in Buckets, NEW call \in Calls,
         admitted' = Append(admitted, call),
         NEW n \in Nat, n = Len(admitted) + 1
  PROVE  /\ \A i \in DOMAIN admitted : admitted'[i] = admitted[i]
         /\ admitted'[n] = call
         /\ b \notin BucketsOf[call.tab] =>
              Charges(b)' = Charges(b) /\ \A i \in Charges(b) : Since(b, i)' = Since(b, i)
         /\ b \in BucketsOf[call.tab] =>
              /\ Charges(b)' = Charges(b) \cup {n}
              /\ \A i \in Charges(b) : Since(b, i)' = Since(b, i) + 1
              /\ Since(b, n)' = 1
<1>1. /\ DOMAIN admitted = 1..(n - 1) /\ DOMAIN admitted' = 1..n
      /\ \A i \in DOMAIN admitted : admitted'[i] = admitted[i]
      /\ admitted'[n] = call
  BY AppendProperties, LenProperties DEF BucketTypes
<1>2. 1..n = 1..(n - 1) \cup {n} /\ n \notin 1..(n - 1)
  BY CallsAre
<1>3. ASSUME b \notin BucketsOf[call.tab]
      PROVE  Charges(b)' = Charges(b)
  BY <1>1, <1>2, <1>3 DEF Charges
<1>4. ASSUME b \in BucketsOf[call.tab]
      PROVE  Charges(b)' = Charges(b) \cup {n} /\ n \notin Charges(b)
  BY <1>1, <1>2, <1>4 DEF Charges
<1>5. ASSUME b \in BucketsOf[call.tab], NEW i \in Charges(b)
      PROVE  Since(b, i)' = Since(b, i) + 1
  <2>. DEFINE later == {j \in Charges(b) : j >= i}
  <2>1. {j \in Charges(b)' : j >= i} = later \cup {n}
    BY <1>1, <1>2, <1>4, <1>5 DEF Charges
  <2>2. n \notin later /\ IsFiniteSet(later)
    BY <1>4, <1>5, SinceIsNat
  <2>3. Cardinality(later \cup {n}) = Cardinality(later) + 1
    BY <2>2, FS_AddElement
  <2>. QED  BY <2>1, <2>3 DEF Since
<1>6. ASSUME b \in BucketsOf[call.tab]
      PROVE  Since(b, n)' = 1
  <2>1. {j \in Charges(b)' : j >= n} = {n}
    BY <1>1, <1>2, <1>4, <1>6 DEF Charges
  <2>. QED  BY <2>1, FS_Singleton DEF Since
<1>7. ASSUME b \notin BucketsOf[call.tab], NEW i \in Charges(b)
      PROVE  Since(b, i)' = Since(b, i)
  BY <1>3, <1>7 DEF Since
<1>. QED  BY <1>1, <1>3, <1>4, <1>5, <1>6, <1>7

LEMMA BucketsRefill ==
  ASSUME BucketInv, NEW mine \in SUBSET Buckets, NEW charged \in SUBSET mine, Charging(mine, charged),
         NEW b \in mine,
         \A x \in charged : Refilled(x) >= Period[x],
         UNCHANGED clocks
  PROVE  /\ bucket'[b].lastRefill = clock /\ Elapsed(b)' = 0
         /\ bucket'[b].tokens = IF b \in charged THEN Refilled(b) - Period[b] ELSE Refilled(b)
         /\ bucket'[b].tokens \in Nat
<1>1. clock \in Nat /\ clock' = clock
  BY DEF BucketInv, BucketTypes, clocks
<1>2. Refilled(b) \in Nat /\ Period[b] \in Nat
  BY RefilledBounds, FullIsNat
<1>3. /\ bucket'[b].lastRefill = clock
      /\ bucket'[b].tokens = Refilled(b) - (IF b \in charged THEN Period[b] ELSE 0)
  BY DEF Charging
<1>. QED  BY <1>1, <1>2, <1>3 DEF Elapsed

LEMMA BucketTypesConsume ==
  ASSUME BucketInv, NEW c \in Conns, Consume(c)
  PROVE  BucketTypes'
<1>. DEFINE mine == BucketsOf[c[1]]
            allowed == \A b \in mine : Refilled(b) >= Period[b]
            charged == IF allowed THEN mine ELSE {}
            call == [tab |-> c[1], clock |-> clock, forward |-> forward]
<1>1. c[1] \in Tabs /\ mine \in SUBSET Buckets /\ charged \in SUBSET mine
  BY WriteGateAssumption DEF Conns
<1>2. /\ Charging(mine, charged) /\ UNCHANGED clocks
      /\ \A b \in charged : Refilled(b) >= Period[b]
      /\ admitted' = admitted \/ admitted' = Append(admitted, call)
  BY DEF Consume
<1>3. \A b \in mine : bucket'[b].tokens \in Nat /\ bucket'[b].lastRefill \in Nat
  <2>. HIDE DEF mine, charged
  <2>1. ASSUME NEW b \in mine
        PROVE  bucket'[b].tokens \in Nat /\ bucket'[b].lastRefill = clock
    BY <1>1, <1>2, BucketsRefill
  <2>. QED  BY <2>1 DEF BucketInv, BucketTypes
<1>4. call \in Calls
  BY <1>1 DEF Calls, BucketInv, BucketTypes
<1>5. admitted' \in Seq(Calls)
  BY <1>2, <1>4, AppendProperties DEF BucketInv, BucketTypes
<1>6. bucket' \in [Buckets -> [tokens : Nat, lastRefill : Nat]]
  <2>1. \A b \in Buckets : bucket'[b] \in [tokens : Nat, lastRefill : Nat]
    BY <1>2, <1>3 DEF BucketInv, BucketTypes, Charging
  <2>2. bucket' = [b \in Buckets |-> bucket'[b]]
    BY <1>2 DEF Charging
  <2>. QED  BY <2>1, <2>2
<1>. QED  BY <1>2, <1>5, <1>6 DEF BucketInv, BucketTypes, clocks

LEMMA BucketsConsume ==
  ASSUME BucketInv, NEW c \in Conns, Consume(c)
  PROVE  BucketInv'
<1>. DEFINE mine == BucketsOf[c[1]]
            allowed == \A b \in mine : Refilled(b) >= Period[b]
            charged == IF allowed THEN mine ELSE {}
            call == [tab |-> c[1], clock |-> clock, forward |-> forward]
<1>1. c[1] \in Tabs /\ mine \in SUBSET Buckets /\ charged \in SUBSET mine
  BY WriteGateAssumption DEF Conns
<1>2. /\ Charging(mine, charged) /\ UNCHANGED clocks
      /\ \A b \in charged : Refilled(b) >= Period[b]
      /\ admitted' = IF allowed THEN Append(admitted, call) ELSE admitted
  BY DEF Consume
<1>3. BucketTypes'
  BY BucketTypesConsume
<1>4. /\ BucketTypes /\ clock \in Nat /\ forward \in Nat /\ clock' = clock /\ forward' = forward
      /\ Len(admitted) \in Nat
  BY <1>2, CallsAre DEF BucketInv, BucketTypes, clocks
<1>5. call \in Calls /\ call.tab = c[1] /\ call.clock = clock /\ call.forward = forward
  BY <1>1, <1>4 DEF Calls
<1>. SUFFICES ASSUME NEW b \in Buckets  PROVE Lower(b)' /\ Upper(b)'
  BY <1>3 DEF BucketInv
<1>6. Full(b)' = Full(b) /\ Full(b) \in Nat /\ Full(b) >= Period[b] /\ Period[b] \in Nat
  BY FullIsNat DEF Full
<1>7. \A i \in Charges(b) : i \in DOMAIN admitted /\ admitted[i].clock \in Nat /\ admitted[i].forward \in Nat
  BY <1>4, CallsAre DEF Charges
<1>. HIDE DEF mine, allowed, charged, call
<1>8. \A i \in Charges(b) : \A n \in Int : Left(b, i, n) = Left(b, i, 0) + n /\ Left(b, i, 0) \in Int
  BY <1>4, LeftIsInt
<1>9. CASE b \notin mine
  <2>1. /\ Charges(b)' = Charges(b)
        /\ \A i \in Charges(b) : admitted'[i] = admitted[i] /\ Since(b, i)' = Since(b, i)
    <3>1. CASE allowed
      BY <1>2, <1>4, <1>5, <1>7, <1>9, <3>1, SinceCharge DEF mine
    <3>2. CASE ~allowed
      BY <1>2, <3>2 DEF Charges, Since
    <3>. QED  BY <3>1, <3>2
  <2>2. bucket'[b] = bucket[b]
    BY <1>2, <1>9 DEF Charging
  <2>3. \A i \in Charges(b) : \A n \in Int : Left(b, i, n)' = Left(b, i, n)
    BY <1>6, <2>1 DEF Left
  <2>4. Elapsed(b)' = Elapsed(b)
    BY <1>4, <2>2 DEF Elapsed
  <2>5. bucket[b].lastRefill \in Nat
    BY <1>4 DEF BucketTypes
  <2>. QED  BY <1>4, <1>6, <1>7, <2>1, <2>2, <2>3, <2>4, <2>5 DEF BucketInv, Lower, Upper, Left
<1>10. CASE b \in mine /\ ~allowed
  <2>1. admitted' = admitted /\ b \notin charged
    BY <1>2, <1>10 DEF charged
  <2>2. bucket'[b].lastRefill = clock /\ Elapsed(b)' = 0 /\ bucket'[b].tokens = Refilled(b)
    BY <1>1, <1>2, <1>10, <2>1, BucketsRefill
  <2>3. /\ Charges(b)' = Charges(b)
        /\ \A i \in Charges(b) : \A n \in Int : Left(b, i, n)' = Left(b, i, n)
    BY <1>6, <2>1 DEF Charges, Left, Since
  <2>4. Refilled(b) \in Nat /\ Refilled(b) + 0 = Refilled(b)
    BY RefilledBounds
  <2>5. Lower(b)'
    <3>1. Lower(b)' <=> \/ Refilled(b) >= Full(b)
                        \/ \E i \in Charges(b) : Refilled(b) >= Left(b, i, clock - admitted[i].clock)
      BY <1>4, <1>6, <1>7, <2>1, <2>2, <2>3 DEF Lower, Left
    <3>. QED  BY <3>1, RefilledBounds
  <2>6. Upper(b)'
    <3>1. Upper(b)' <=> /\ Refilled(b) <= Full(b)
                        /\ \A i \in Charges(b) : Refilled(b) <= Left(b, i, forward - admitted[i].forward)
      BY <1>4, <1>6, <1>7, <2>1, <2>2, <2>3, <2>4 DEF Upper, Left
    <3>. QED  BY <3>1, RefilledBounds
  <2>. QED  BY <2>5, <2>6
<1>11. CASE b \in mine /\ allowed
  <2>1. PICK n \in Nat : n = Len(admitted) + 1
    BY <1>4
  <2>2. b \in charged /\ admitted' = Append(admitted, call) /\ b \in BucketsOf[call.tab]
    BY <1>2, <1>5, <1>11 DEF charged, mine
  <2>3. /\ Charges(b)' = Charges(b) \cup {n} /\ admitted'[n] = call
        /\ \A i \in Charges(b) : admitted'[i] = admitted[i] /\ Since(b, i)' = Since(b, i) + 1
        /\ Since(b, n)' = 1
    BY <1>4, <1>5, <1>7, <2>1, <2>2, SinceCharge
  <2>4. /\ bucket'[b].lastRefill = clock /\ Elapsed(b)' = 0
        /\ bucket'[b].tokens = Refilled(b) - Period[b] /\ bucket'[b].tokens \in Nat
    BY <1>1, <1>2, <1>11, <2>2, BucketsRefill
  <2>5. ASSUME NEW i \in Charges(b), NEW k \in Int
        PROVE  Full(b) + k - Since(b, i)' * Period[b] = Left(b, i, k) - Period[b]
    <3>1. /\ Since(b, i) \in Nat /\ Since(b, i) * Period[b] \in Nat
          /\ (Since(b, i) + 1) * Period[b] = Since(b, i) * Period[b] + Period[b]
      BY <1>4, SinceIsNat, FullIsNat
    <3>2. Since(b, i)' = Since(b, i) + 1
      BY <2>3
    <3>. QED  BY <1>6, <3>1, <3>2 DEF Left
  <2>6. Full(b) + 0 - Since(b, n)' * Period[b] = Full(b) - Period[b]
    BY <1>6, <2>3, FullIsNat
  <2>7. Refilled(b) \in Nat /\ Refilled(b) <= Full(b)
    BY RefilledBounds
  <2>8. Lower(b)'
    <3>1. ASSUME NEW i \in Charges(b), Refilled(b) >= Left(b, i, clock - admitted[i].clock)
          PROVE  Lower(b)'
      <4>1. bucket'[b].tokens >= Full(b) + (clock - admitted[i].clock) - Since(b, i)' * Period[b]
        <5>. DEFINE k == clock - admitted[i].clock
        <5>1. k \in Int
          BY <1>4, <1>7
        <5>. HIDE DEF k
        <5>2. /\ Full(b) + k - Since(b, i)' * Period[b] = Left(b, i, k) - Period[b]
              /\ Left(b, i, k) \in Int
          BY <1>8, <2>5, <5>1
        <5>. QED  BY <1>6, <2>4, <2>7, <3>1, <5>2 DEF k
      <4>. QED  BY <1>4, <1>6, <2>3, <2>4, <4>1 DEF Lower, Left
    <3>2. ASSUME Refilled(b) >= Full(b)
          PROVE  Lower(b)'
      <4>1. bucket'[b].tokens >= Full(b) + 0 - Since(b, n)' * Period[b]
        BY <1>6, <2>4, <2>6, <2>7, <3>2
      <4>2. clock - admitted'[n].clock = 0
        BY <1>4, <1>5, <2>3
      <4>. QED  BY <1>4, <1>6, <2>3, <2>4, <4>1, <4>2 DEF Lower, Left
    <3>. QED  BY <3>1, <3>2, RefilledBounds
  <2>9. Upper(b)'
    <3>1. ASSUME NEW i \in Charges(b)
          PROVE  bucket'[b].tokens <= Full(b) + (forward - admitted[i].forward) - Since(b, i)' * Period[b]
      <4>1. Refilled(b) <= Left(b, i, forward - admitted[i].forward)
        BY RefilledBounds
      <4>. DEFINE k == forward - admitted[i].forward
      <4>2. k \in Int
        BY <1>4, <1>7
      <4>. HIDE DEF k
      <4>3. /\ Full(b) + k - Since(b, i)' * Period[b] = Left(b, i, k) - Period[b]
            /\ Left(b, i, k) \in Int
        BY <1>8, <2>5, <4>2
      <4>. QED  BY <1>6, <2>4, <2>7, <4>1, <4>3 DEF k
    <3>2. /\ bucket'[b].tokens <= Full(b) + 0 - Since(b, n)' * Period[b]
          /\ bucket'[b].tokens <= Full(b)
      BY <1>6, <2>4, <2>6, <2>7
    <3>3. forward - admitted'[n].forward = 0 /\ bucket'[b].tokens + 0 = bucket'[b].tokens
      BY <1>4, <1>5, <2>3, <2>4
    <3>4. ASSUME NEW i \in Charges(b)'
          PROVE  bucket'[b].tokens <= Full(b) + (forward - admitted'[i].forward) - Since(b, i)' * Period[b]
      <4>1. CASE i = n
        BY <3>2, <3>3, <4>1
      <4>2. CASE i \in Charges(b)
        BY <2>3, <3>1, <4>2
      <4>. QED  BY <2>3, <4>1, <4>2
    <3>. QED  BY <1>4, <1>6, <2>4, <3>2, <3>3, <3>4 DEF Upper, Left
  <2>. QED  BY <2>8, <2>9
<1>. QED  BY <1>9, <1>10, <1>11

LEMMA BucketsClock ==
  ASSUME BucketInv, Tick \/ SetBack
  PROVE  BucketInv'
<1>1. /\ admitted' = admitted /\ bucket' = bucket
      /\ clock \in Nat /\ forward \in Nat /\ clock' \in Nat /\ forward' \in Nat
      /\ \/ clock' = clock + 1 /\ forward' = forward + 1
         \/ clock' = clock - 1 /\ forward' = forward
  BY DEF BucketInv, BucketTypes, Tick, SetBack
<1>2. BucketTypes /\ BucketTypes'
  BY <1>1 DEF BucketInv, BucketTypes
<1>. SUFFICES ASSUME NEW b \in Buckets  PROVE Lower(b)' /\ Upper(b)'
  BY <1>2 DEF BucketInv
<1>3. /\ bucket[b].tokens \in Nat /\ bucket[b].lastRefill \in Nat
      /\ Elapsed(b) \in Nat /\ Elapsed(b)' \in Nat
      /\ Elapsed(b)' <= Elapsed(b) + (forward' - forward)
  BY <1>1, <1>2 DEF BucketTypes, Elapsed
<1>4. /\ Full(b)' = Full(b) /\ Charges(b)' = Charges(b)
      /\ \A i \in Charges(b) : \A n \in Int : Left(b, i, n)' = Left(b, i, n)
  BY <1>1 DEF Full, Charges, Left, Since
<1>5. Lower(b)'
  BY <1>1, <1>4 DEF BucketInv, Lower, Left, Since, Full, Charges
<1>6. ASSUME NEW i \in Charges(b)
      PROVE  bucket[b].tokens + Elapsed(b)' <= Left(b, i, forward' - admitted[i].forward)
  <2>1. admitted[i].forward \in Nat
    BY <1>2, CallsAre DEF Charges
  <2>2. /\ Left(b, i, 0) \in Int
        /\ Left(b, i, forward - admitted[i].forward) = Left(b, i, 0) + (forward - admitted[i].forward)
        /\ Left(b, i, forward' - admitted[i].forward) = Left(b, i, 0) + (forward' - admitted[i].forward)
    BY <1>1, <1>2, <2>1, LeftIsInt
  <2>3. bucket[b].tokens + Elapsed(b) <= Left(b, i, forward - admitted[i].forward)
    BY DEF BucketInv, Upper
  <2>. QED  BY <1>1, <1>3, <2>1, <2>2, <2>3
<1>7. Upper(b)'
  BY <1>1, <1>4, <1>6 DEF BucketInv, Upper, Left, Since, Full, Charges
<1>. QED  BY <1>5, <1>7

LEMMA BucketsInit == Init => BucketInv
<1>. SUFFICES ASSUME Init  PROVE BucketInv
  OBVIOUS
<1>1. /\ clock = 0 /\ forward = 0 /\ admitted = <<>>
      /\ bucket = [b \in Buckets |-> [tokens |-> Full(b), lastRefill |-> 0]]
  BY DEF Init, Full
<1>2. BucketTypes
  BY <1>1, FullIsNat DEF BucketTypes
<1>3. \A b \in Buckets : bucket[b].tokens = Full(b) /\ Full(b) \in Nat /\ Charges(b) = {}
  BY <1>1, FullIsNat DEF Charges
<1>. QED  BY <1>2, <1>3 DEF BucketInv, Lower, Upper

LEMMA BucketsNext == BucketInv /\ [Next]_vars => BucketInv'
<1>1. ASSUME BucketInv, UNCHANGED <<bucket, clocks, admitted>>
      PROVE  BucketInv'
  BY <1>1 DEF BucketInv, BucketTypes, Lower, Upper, Left, Since, Charges, Full, Elapsed, clocks
<1>2. ASSUME NEW t \in Tabs, Edit(t) \/ Receive(t) \/ Drop(t) \/ Reconnect(t)
      PROVE  UNCHANGED <<bucket, clocks, admitted>>
  BY <1>2 DEF Edit, Receive, Drop, Reconnect
<1>3. ASSUME NEW c \in Conns, GateFrame(c) \/ Fails(c) \/ Commit(c)
      PROVE  UNCHANGED <<bucket, clocks, admitted>>
  BY <1>3 DEF GateFrame, Fails, Commit
<1>4. UNCHANGED vars => UNCHANGED <<bucket, clocks, admitted>>
  BY DEF vars, clocks
<1>. QED  BY <1>1, <1>2, <1>3, <1>4, BucketsConsume, BucketsClock DEF Next

-----------------------------------------------------------------------------
\* No dispatched call finds the document without what its frame depends on,
\* through any number of refusals, drops and reconnects: the frames of a chain
\* are refused from the first that fails, and a tab sends on a connection all
\* that the server lacked when it connected.
THEOREM Integrates == Spec => []FramesIntegrate
<1>1. Inv => FramesIntegrate
  <2>. SUFFICES ASSUME Inv, NEW c \in Conns, conn[c].at = "dispatched"
                PROVE  Integrable(Head(conn[c].frames))
    BY DEF FramesIntegrate
  <2>1. conn[c].frames \in Frames /\ conn[c].frames # <<>>
    BY DEF Inv, TypeInv
  <2>. QED  BY <2>1, GroundedHead DEF Inv, FramesInv, Integrable
<1>. QED  BY InvInit, InvNext, <1>1, PTL DEF Spec

\* The audit rows sort by id in the order they were committed, whatever the
\* wall clock does, the counter's width and its seeds.
THEOREM Ascends == Spec => []IdsAscend
<1>1. Inv => TypeInv
  BY DEF Inv
<1>2. IdsInv => IdsAscend
  BY DEF IdsInv
<1>. QED  BY InvInit, InvNext, IdsInit, IdsNext, <1>1, <1>2, PTL DEF Spec

\* A token bucket never holds less than the reference grants nor more, whatever
\* the buckets, their bursts and periods, the tabs that share them, the calls
\* refused and the moves of the clock.
THEOREM Meters == Spec => []BucketsFollowReference
<1>1. BucketInv => BucketsFollowReference
  <2>. SUFFICES ASSUME BucketInv  PROVE BucketsFollowReference
    OBVIOUS
  <2>. QED  BY RefilledBounds DEF BucketsFollowReference, Left, Since, Charges
<1>. QED  BY BucketsInit, BucketsNext, <1>1, PTL DEF Spec
=============================================================================
