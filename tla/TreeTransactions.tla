-------------------------- MODULE TreeTransactions --------------------------
(***************************************************************************)
(* The capabilities of Lifecycle that shape the tree, as transactions that *)
(* overlap: on Postgres each runs in a SERIALIZABLE transaction on a       *)
(* connection of its own, reads a snapshot, and decides on it.  (SQLite    *)
(* runs one write transaction at a time, a subset of this.)                *)
(*                                                                         *)
(* What Postgres promises is modelled, and no more: of two transactions    *)
(* that write one row and overlap, one fails; and a transaction fails that *)
(* read what a concurrent one has overwritten, while a concurrent one read *)
(* what it overwrites itself.  A query reads the rows its WHERE clause     *)
(* picks, before or after a write: the phantoms too.  Any transaction may  *)
(* fail at any time.                                                       *)
(*                                                                         *)
(* Slugs, the depth cap, grants and who may call are left out: they add    *)
(* refusals, and reads that only make more transactions fail.              *)
(***************************************************************************)
EXTENDS FiniteSets

CONSTANTS Spaces, Collections, Docs, Users,
          Calls,     \* capability calls whose transactions overlap
          Root,      \* parent of a top-level row
          NoSpace    \* space of a collection that is in none

Rosters == Spaces \X Users   \* keys of space_members
Keys == Spaces \cup Collections \cup Docs \cup Rosters

ASSUME KeysAreDistinct ==
  /\ Spaces \cap Collections = {} /\ Spaces \cap Docs = {} /\ Spaces \cap Rosters = {}
  /\ Collections \cap Docs = {} /\ Collections \cap Rosters = {} /\ Docs \cap Rosters = {}
  /\ Root \notin Keys /\ NoSpace \notin Keys

VARIABLES
  rows,     \* the committed row of every key
  work,     \* the queries and the writes of every open transaction
  missed,   \* has a concurrent transaction overwritten what this one read?
  readBy,   \* has one that committed meanwhile read what this one overwrites?
  stale     \* the keys written by those that committed meanwhile

vars == <<rows, work, missed, readBy, stale>>

\* The parent of a collection is its parent_id, of a document its
\* collection_id, of a roster row its space.
Rows == [status : {"none", "live", "trashed"},
         parent : Collections \cup Spaces \cup {Root}, space : Spaces \cup {NoSpace}]
NoRow == [status |-> "none", parent |-> Root, space |-> NoSpace]
LiveRow(p, s) == [status |-> "live", parent |-> p, space |-> s]

Exists(row)    == row.status # "none"
IsLive(row)    == row.status = "live"
IsTrashed(row) == row.status = "trashed"

\* The queries of a transaction: rows by id, the child collections of some
\* (trashed ones too), the live children of some, the live collections of
\* some spaces.
Queries == [ids : SUBSET Keys, below : SUBSET Collections,
            liveBelow : SUBSET (Collections \cup Spaces), within : SUBSET Spaces]
ById(ids) == [ids |-> ids, below |-> {}, liveBelow |-> {}, within |-> {}]

Idle == [reads |-> ById({}), writes |-> [k \in {} |-> NoRow]]
Pending(c) == work[c] # Idle

Init ==
  /\ rows = [k \in Keys |-> NoRow]
  /\ work = [c \in Calls |-> Idle]
  /\ missed = [c \in Calls |-> FALSE]
  /\ readBy = [c \in Calls |-> FALSE]
  /\ stale = [c \in Calls |-> {}]

-----------------------------------------------------------------------------
(* Transactions *)

\* This version of the row of k is what the queries q are about.
Sees(q, k, row) ==
  \/ k \in q.ids
  \/ k \in Collections /\ Exists(row) /\ row.parent \in q.below
  \/ IsLive(row) /\ row.parent \in q.liveBelow
  \/ k \in Collections /\ IsLive(row) /\ row.space \in q.within

\* The writes w take something out of, or put something into, the answers to q.
Touches(w, q) == \E k \in DOMAIN w : Sees(q, k, rows[k]) \/ Sees(q, k, w[k])

Overwrite(t, w) == [k \in Keys |-> IF k \in DOMAIN w THEN w[k] ELSE t[k]]

\* A handler has run on a snapshot of now.
Perform(c, reads, writes) ==
  /\ ~Pending(c)
  /\ work' = [work EXCEPT ![c] = [reads |-> reads, writes |-> writes]]
  /\ UNCHANGED <<rows, missed, readBy, stale>>

\* Mutant: REPEATABLE READ, which stops only at rows written twice.
NoPivotNot(c) == TRUE

\* No rw-dependency from c to one that committed meets one from another to c.
NoPivot(c) ==
  \/ ~missed[c]
  \/ /\ ~readBy[c]
     /\ \A d \in Calls \ {c} : ~Touches(work[c].writes, work[d].reads)

\* The second to lock a row waits, and fails when the first commits.
WrittenOnce(c) == DOMAIN work[c].writes \cap stale[c] = {}

Commit(c) ==
  LET w == work[c].writes
      Around(d) == d # c /\ Pending(d)
  IN
  /\ Pending(c)
  /\ WrittenOnce(c)
  /\ NoPivot(c)
  /\ rows' = Overwrite(rows, w)
  /\ work' = [work EXCEPT ![c] = Idle]
  /\ missed' = [d \in Calls |-> Around(d) /\ (missed[d] \/ Touches(w, work[d].reads))]
  /\ readBy' = [d \in Calls |->
       Around(d) /\ (readBy[d] \/ Touches(work[d].writes, work[c].reads))]
  /\ stale' = [d \in Calls |-> IF Around(d) THEN stale[d] \cup DOMAIN w ELSE {}]

\* A refusal, a serialization failure, a lost connection, a crash.
Abort(c) ==
  /\ Pending(c)
  /\ work' = [work EXCEPT ![c] = Idle]
  /\ missed' = [missed EXCEPT ![c] = FALSE]
  /\ readBy' = [readBy EXCEPT ![c] = FALSE]
  /\ stale' = [stale EXCEPT ![c] = {}]
  /\ UNCHANGED rows

Set(k, row) == [x \in {k} |-> row]

-----------------------------------------------------------------------------
(* The tree *)

\* p and its ancestors: the least set with p and the parent of each member.
Up(t, p) ==
  {x \in Collections :
     \A S \in SUBSET Collections :
       p \in S /\ (\A y \in S : t[y].parent \in Collections => t[y].parent \in S)
         => x \in S}

\* c and its descendants: the least set with c and the children of each member.
Down(t, c) ==
  {x \in Collections :
     \A S \in SUBSET Collections :
       c \in S /\ (\A y \in Collections : t[y].parent \in S => y \in S) => x \in S}

\* The rows that are looked up on the way from p to the root, and their space.
Chain(p) == IF p = Root THEN {} ELSE Up(rows, p)
SpaceOf(p) == IF p = Root THEN NoSpace ELSE rows[p].space
Ref(s) == {s} \ {NoSpace}

LiveChain(p) == \A x \in Chain(p) : IsLive(rows[x])

\* NULL, or the id of a live space.
SpaceLive(s) == s # NoSpace => IsLive(rows[s])

-----------------------------------------------------------------------------
(* Spaces *)

SpaceCreate(c, s) ==
  /\ ~Exists(rows[s])
  /\ Perform(c, ById({}), Set(s, LiveRow(Root, NoSpace)))

\* No live collection, hence no live document of one, and no member.
SpaceArchive(c, s) ==
  /\ IsLive(rows[s])
  /\ \A k \in Collections : IsLive(rows[k]) => rows[k].space # s
  /\ \A u \in Users : ~IsLive(rows[<<s, u>>])
  /\ Perform(c, [ById({s}) EXCEPT !.liveBelow = {s}, !.within = {s}],
             Set(s, [rows[s] EXCEPT !.status = "trashed"]))

SpaceRestore(c, s) ==
  /\ IsTrashed(rows[s])
  /\ Perform(c, ById({s}), Set(s, [rows[s] EXCEPT !.status = "live"]))

SpaceMemberAdd(c, s, u) ==
  /\ IsLive(rows[s])
  /\ ~Exists(rows[<<s, u>>])
  /\ Perform(c, ById({s, <<s, u>>}), Set(<<s, u>>, LiveRow(s, NoSpace)))

SpaceMemberRemove(c, s, u) ==
  /\ IsLive(rows[s])
  /\ Exists(rows[<<s, u>>])
  /\ Perform(c, ById({s, <<s, u>>}), Set(<<s, u>>, NoRow))

-----------------------------------------------------------------------------
(* Collections *)

\* Under p, whose space it inherits; or at the top, into space s or none.
CollectionCreate(c, k, p, s) ==
  /\ ~Exists(rows[k])
  /\ p # Root => s = SpaceOf(p)
  /\ LiveChain(p)
  /\ SpaceLive(s)
  /\ Perform(c, ById(Chain(p) \cup Ref(s)), Set(k, LiveRow(p, s)))

\* Mutant: the children are counted through a handle outside the transaction.
CollectionDeleteCountsApart(c, k) ==
  /\ IsLive(rows[k])
  /\ \A x \in Collections \cup Docs : IsLive(rows[x]) => rows[x].parent # k
  /\ Perform(c, ById({k}), Set(k, [rows[k] EXCEPT !.status = "trashed"]))

\* Refused while a direct child is live.
CollectionDelete(c, k) ==
  /\ IsLive(rows[k])
  /\ \A x \in Collections \cup Docs : IsLive(rows[x]) => rows[x].parent # k
  /\ Perform(c, [ById({k}) EXCEPT !.liveBelow = {k}],
             Set(k, [rows[k] EXCEPT !.status = "trashed"]))

\* What k, moved below p into space s, and all that follows it become.
MovedTo(t, k, p, s, tree) ==
  [x \in tree |-> IF x = k THEN [t[x] EXCEPT !.parent = p, !.space = s]
                  ELSE [t[x] EXCEPT !.space = s]]

\* Mutant: the subtree is enumerated outside the transaction.
CollectionMoveEnumeratesApart(c, k, p, s) ==
  LET tree == IF rows[k].space # s THEN Down(rows, k) ELSE {k} IN
  /\ IsLive(rows[k])
  /\ p # Root => s = SpaceOf(p)
  /\ k \notin Chain(p)
  /\ LiveChain(p)
  /\ SpaceLive(s)
  /\ Perform(c, ById({k} \cup Chain(p) \cup Ref(s) \cup Ref(rows[k].space)),
             MovedTo(rows, k, p, s, tree))

\* All that is below a collection follows it into another space; the subtree is
\* enumerated for that, and only then.
CollectionMove(c, k, p, s) ==
  LET crosses == rows[k].space # s
      tree == IF crosses THEN Down(rows, k) ELSE {k}
  IN
  /\ IsLive(rows[k])
  /\ p # Root => s = SpaceOf(p)
  /\ k \notin Chain(p)
  /\ LiveChain(p)
  /\ SpaceLive(s)
  /\ Perform(c,
       [ById({k} \cup Chain(p) \cup Ref(s) \cup Ref(rows[k].space)) EXCEPT
          !.below = IF crosses THEN tree ELSE {}],
       MovedTo(rows, k, p, s, tree))

CollectionRestore(c, k) ==
  /\ IsTrashed(rows[k])
  /\ SpaceLive(rows[k].space)
  /\ LiveChain(rows[k].parent)
  /\ Perform(c, ById({k} \cup Chain(rows[k].parent) \cup Ref(rows[k].space)),
             Set(k, [rows[k] EXCEPT !.status = "live"]))

-----------------------------------------------------------------------------
(* Documents *)

\* The collection p, when there is one, is live, and so is its space.
Placeable(p) == p # Root => IsLive(rows[p]) /\ SpaceLive(SpaceOf(p))
Home(p) == ({p} \ {Root}) \cup Ref(SpaceOf(p))

DocCreate(c, d, p) ==
  /\ ~Exists(rows[d])
  /\ Placeable(p)
  /\ Perform(c, ById(Home(p)), Set(d, LiveRow(p, NoSpace)))

DocMove(c, d, p) ==
  /\ IsLive(rows[d])
  /\ Placeable(p)
  /\ Perform(c, ById({d} \cup Home(p)), Set(d, [rows[d] EXCEPT !.parent = p]))

DocDelete(c, d) ==
  /\ IsLive(rows[d])
  /\ Perform(c, ById({d}), Set(d, [rows[d] EXCEPT !.status = "trashed"]))

DocRestore(c, d) ==
  /\ IsTrashed(rows[d])
  /\ Placeable(rows[d].parent)
  /\ Perform(c, ById({d} \cup Home(rows[d].parent)),
             Set(d, [rows[d] EXCEPT !.status = "live"]))

-----------------------------------------------------------------------------
SpaceStep(c) == \E s \in Spaces :
  \/ SpaceCreate(c, s) \/ SpaceArchive(c, s) \/ SpaceRestore(c, s)
  \/ \E u \in Users : SpaceMemberAdd(c, s, u) \/ SpaceMemberRemove(c, s, u)

CollectionStep(c) == \E k \in Collections :
  \/ \E p \in Collections \cup {Root}, s \in Spaces \cup {NoSpace} :
       CollectionCreate(c, k, p, s) \/ CollectionMove(c, k, p, s)
  \/ CollectionDelete(c, k) \/ CollectionRestore(c, k)

DocStep(c) == \E d \in Docs :
  \/ \E p \in Collections \cup {Root} : DocCreate(c, d, p) \/ DocMove(c, d, p)
  \/ DocDelete(c, d) \/ DocRestore(c, d)

Next == \E c \in Calls :
  SpaceStep(c) \/ CollectionStep(c) \/ DocStep(c) \/ Commit(c) \/ Abort(c)

Spec == Init /\ [][Next]_vars

-----------------------------------------------------------------------------
(* Properties *)

TypeOK ==
  /\ rows \in [Keys -> Rows]
  /\ DOMAIN work = Calls
  /\ \A c \in Calls :
       /\ work[c].reads \in Queries
       /\ DOMAIN work[c].writes \subseteq Keys
       /\ \A k \in DOMAIN work[c].writes : work[c].writes[k] \in Rows
  /\ missed \in [Calls -> BOOLEAN]
  /\ readBy \in [Calls -> BOOLEAN]
  /\ stale \in [Calls -> SUBSET Keys]

\* A row that was never created is blank, and nothing hangs below one.
BlankAt(t) == \A k \in Keys :
  /\ ~Exists(t[k]) => t[k] = NoRow
  /\ t[k].parent # Root => Exists(t[t[k].parent])

LiveAt(t) == \A k \in Keys : IsLive(t[k]) =>
  /\ t[k].parent # Root => IsLive(t[t[k].parent])
  /\ t[k].space # NoSpace => IsLive(t[t[k].space])

RootedAt(t) ==
  \A S \in (SUBSET Collections) \ {{}} : \E x \in S : t[x].parent \notin S

InheritedAt(t) == \A k \in Collections :
  t[k].parent # Root => t[k].space = t[t[k].parent].space

\* Nothing live hangs below a collection that is trashed, or is in a space that
\* is archived, a roster no more than a collection: the counts that delete and
\* archive refuse by, and the look at the parent by create, move and restore,
\* are true of two snapshots.
LiveStandsOnLive == LiveAt(rows)

\* Two moves, each acyclic in its own snapshot, do not make a cycle: every set
\* of collections has one whose parent is outside.
CollectionsAreRooted == RootedAt(rows)

\* A subtree that crosses takes with it what is created in it, moved into it
\* or trashed in it meanwhile, or does not cross.
SubtreesShareTheirSpace == InheritedAt(rows)
=============================================================================
