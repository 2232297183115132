------------------------------ MODULE Lifecycle ------------------------------
(***************************************************************************)
(* The tree of spaces, collections and documents of one workspace, and the *)
(* audit replay of it: the create, update, move, delete and restore        *)
(* capabilities of packages/capabilities/src/{space,collection,doc}, and   *)
(* packages/audit/src/reducer.ts fed with the effects they emit.           *)
(*                                                                         *)
(* Every mutation runs in a serializable transaction, so a capability is   *)
(* one step here (TreeTransactions takes that apart).  A capability that   *)
(* refuses rolls back: it is not a step.  Who may call is left open,       *)
(* except where the answer hangs on the tree: no principal has standing in *)
(* a placement whose space is gone.                                        *)
(***************************************************************************)
EXTENDS Integers, FiniteSets

CONSTANTS Spaces, Collections, Docs, Users, Slugs,
          Root,      \* parent of a top-level collection or document
          NoSpace,   \* space of a collection that is in none
          NoSlug,    \* published slug of a document that is not public
          MaxDepth   \* COLLECTION_MAX_DEPTH, 8 in the code

ASSUME NullsAreNoIds ==
  Root \notin Collections /\ NoSpace \notin Spaces /\ NoSlug \notin Slugs
ASSUME MaxDepthAssumption == MaxDepth \in Nat \ {0}

VARIABLES
  spaces,        \* rows by id; status "none" is no row
  collections,
  docs,
  space_members,
  grants,        \* guest edges <<document, user>>
  replayed       \* what the audit reducer makes of the effects so far

tables == <<spaces, collections, docs, space_members, grants>>
vars == <<tables, replayed>>

Status  == {"none", "live", "trashed"}
Parents == Collections \cup {Root}
Anomaly == "anomaly"

\* A public slug is a document's slug, suffixed by the least free number; the
\* first stands for none.
PublicSlugs == Slugs \X (1..Cardinality(Docs))

SpaceRows      == [status : Status, slug : Slugs \cup {NoSlug}]
CollectionRows == [status : Status, parent : Parents,
                   space : Spaces \cup {NoSpace}, slug : Slugs \cup {NoSlug}]
DocRows        == [status : Status, home : Parents, slug : Slugs \cup {NoSlug},
                   published : PublicSlugs \cup {NoSlug}]

NoSpaceRow      == [status |-> "none", slug |-> NoSlug]
NoCollectionRow == [status |-> "none", parent |-> Root, space |-> NoSpace,
                    slug |-> NoSlug]
NoDocRow        == [status |-> "none", home |-> Root, slug |-> NoSlug,
                    published |-> NoSlug]

TypeOK ==
  /\ spaces \in [Spaces -> SpaceRows]
  /\ collections \in [Collections -> CollectionRows]
  /\ docs \in [Docs -> DocRows]
  /\ space_members \subseteq Spaces \X Users
  /\ grants \subseteq Docs \X Users

\* What invariant 3a is about: every table but the clocks and counters.
Projection ==
  [spaces |-> spaces, collections |-> collections, docs |-> docs,
   space_members |-> space_members, grants |-> grants]

Init ==
  /\ spaces = [s \in Spaces |-> NoSpaceRow]
  /\ collections = [c \in Collections |-> NoCollectionRow]
  /\ docs = [d \in Docs |-> NoDocRow]
  /\ space_members = {}
  /\ grants = {}
  /\ replayed = Projection

-----------------------------------------------------------------------------
(* The tree *)

IsLive(row)    == row.status = "live"
IsTrashed(row) == row.status = "trashed"
Exists(row)    == row.status # "none"

\* c and its ancestors: the least set that has c and the parent of each of
\* its members.
Up(rows, c) ==
  {x \in Collections :
     \A S \in SUBSET Collections :
       /\ c \in S
       /\ \A y \in S : rows[y].parent \in Collections => rows[y].parent \in S
       => x \in S}

\* c and its descendants, trashed ones included.
Down(rows, c) == {x \in Collections : c \in Up(rows, x)}

Above(p) == IF p = Root THEN {} ELSE Up(collections, p)

\* The ancestor walk, which answers 404 at the first row that is not live.
LiveChain(p) == \A x \in Above(p) : IsLive(collections[x])

\* c and the descendants that are reached from it through live rows.
LiveBelow(c) ==
  {x \in Down(collections, c) :
     \A y \in Up(collections, x) \ Up(collections, c) : IsLive(collections[y])}

\* The deepest live row below c stays within the cap when c is put under p.
FitsUnder(c, p) ==
  \A x \in LiveBelow(c) :
    Cardinality(Above(p)) + Cardinality(Up(collections, x))
      - Cardinality(Up(collections, c)) < MaxDepth

\* placementOf: the ceiling bucket of what is in p.
Placement(p) ==
  IF p = Root \/ collections[p].space = NoSpace THEN NoSpace
  ELSE IF IsLive(spaces[collections[p].space]) THEN collections[p].space
  ELSE Anomaly

SameBucket(p, q) == p = q /\ p # Anomaly

\* No other live row of the same parent has the slug.
CollectionSlugFree(c, p, slug) ==
  \A k \in Collections \ {c} :
    ~(IsLive(collections[k]) /\ collections[k].parent = p
        /\ collections[k].slug = slug)

DocSlugFree(d, p, slug) ==
  \A k \in Docs \ {d} :
    ~(IsLive(docs[k]) /\ docs[k].home = p /\ docs[k].slug = slug)

SpaceSlugFree(s, slug) ==
  \A k \in Spaces \ {s} : ~(IsLive(spaces[k]) /\ spaces[k].slug = slug)

-----------------------------------------------------------------------------
(* The audit reducer: applyStateEffect over a projection st *)

\* set and patch of one row; a patch of a missing row changes nothing.
SetSpace(st, s, row)      == [st EXCEPT !.spaces[s] = row]
SetCollection(st, c, row) == [st EXCEPT !.collections[c] = row]
SetDoc(st, d, row)        == [st EXCEPT !.docs[d] = row]

PatchSpace(st, s, row) ==
  IF Exists(st.spaces[s]) THEN SetSpace(st, s, row) ELSE st
PatchCollection(st, c, row) ==
  IF Exists(st.collections[c]) THEN SetCollection(st, c, row) ELSE st
PatchDoc(st, d, row) ==
  IF Exists(st.docs[d]) THEN SetDoc(st, d, row) ELSE st

RemoveGrants(st, dropped) == [st EXCEPT !.grants = @ \ dropped]

RebindSubtreeSpace(st, c, s) ==
  [st EXCEPT !.collections =
     [x \in Collections |->
        IF x \in Down(st.collections, c) /\ Exists(st.collections[x])
        THEN [st.collections[x] EXCEPT !.space = s]
        ELSE st.collections[x]]]

\* Mutant: the publish fields are left as they were.
ReplayDocSoftDeleteKeepsPublic(st, d) ==
  PatchDoc(st, d, [st.docs[d] EXCEPT !.status = "trashed"])

\* A trashed document leaves the public site.
ReplayDocSoftDelete(st, d) ==
  PatchDoc(st, d, [st.docs[d] EXCEPT !.status = "trashed", !.published = NoSlug])

\* Parent first, then the binding of the whole subtree, then the grants.
ReplayCollectionMove(st, e) ==
  RemoveGrants(
    RebindSubtreeSpace(
      PatchCollection(st, e.id,
                      [st.collections[e.id] EXCEPT !.parent = e.parent]),
      e.id, e.space),
    e.dropped)

ReplayDocMove(st, e) ==
  RemoveGrants(PatchDoc(st, e.id, [st.docs[e.id] EXCEPT !.home = e.home]),
               e.dropped)

ApplyStateEffect(st, e) ==
  CASE e.kind = "space.create" ->
         SetSpace(st, e.id, [status |-> "live", slug |-> e.slug])
    [] e.kind = "space.update" ->
         PatchSpace(st, e.id, [st.spaces[e.id] EXCEPT !.slug = e.slug])
    [] e.kind = "space.archive" ->
         PatchSpace(st, e.id, [st.spaces[e.id] EXCEPT !.status = "trashed"])
    [] e.kind = "space.restore" ->
         PatchSpace(st, e.id, [st.spaces[e.id] EXCEPT !.status = "live"])
    [] e.kind = "space.member_add" ->
         [st EXCEPT !.space_members = @ \cup {e.id}]
    [] e.kind = "space.member_remove" ->
         [st EXCEPT !.space_members = @ \ {e.id}]
    [] e.kind = "acl.grant" -> [st EXCEPT !.grants = @ \cup {e.id}]
    [] e.kind = "acl.revoke" -> RemoveGrants(st, {e.id})
    [] e.kind = "collection.create" ->
         SetCollection(st, e.id, [status |-> "live", parent |-> e.parent,
                                  space |-> e.space, slug |-> e.slug])
    [] e.kind = "collection.update" ->
         PatchCollection(st, e.id,
                         [st.collections[e.id] EXCEPT !.slug = e.slug])
    [] e.kind = "collection.move" -> ReplayCollectionMove(st, e)
    [] e.kind = "collection.soft_delete" ->
         PatchCollection(st, e.id,
                         [st.collections[e.id] EXCEPT !.status = "trashed"])
    [] e.kind = "collection.restore" ->
         PatchCollection(st, e.id,
                         [st.collections[e.id] EXCEPT !.status = "live"])
    [] e.kind = "doc.create" ->
         SetDoc(st, e.id, [status |-> "live", home |-> e.home,
                           slug |-> e.slug, published |-> NoSlug])
    [] e.kind = "doc.rename" ->
         PatchDoc(st, e.id, [st.docs[e.id] EXCEPT !.slug = e.slug])
    [] e.kind = "doc.move" -> ReplayDocMove(st, e)
    [] e.kind = "doc.publish" ->
         PatchDoc(st, e.id, [st.docs[e.id] EXCEPT !.published = e.published])
    [] e.kind = "doc.unpublish" ->
         PatchDoc(st, e.id, [st.docs[e.id] EXCEPT !.published = NoSlug])
    [] e.kind = "doc.soft_delete" -> ReplayDocSoftDelete(st, e.id)
    [] e.kind = "doc.restore" ->
         PatchDoc(st, e.id, [st.docs[e.id] EXCEPT !.status = "live"])

\* The allow row of the audit log carries the effect e.
Emit(e) == replayed' = ApplyStateEffect(replayed, e)

-----------------------------------------------------------------------------
(* Spaces *)

SpaceCreate(s, slug) ==
  /\ ~Exists(spaces[s])
  /\ SpaceSlugFree(s, slug)
  /\ spaces' = [spaces EXCEPT ![s] = [status |-> "live", slug |-> slug]]
  /\ Emit([kind |-> "space.create", id |-> s, slug |-> slug])
  /\ UNCHANGED <<collections, docs, space_members, grants>>

SpaceUpdate(s, slug) ==
  /\ IsLive(spaces[s])
  /\ SpaceSlugFree(s, slug)
  /\ spaces' = [spaces EXCEPT ![s].slug = slug]
  /\ Emit([kind |-> "space.update", id |-> s, slug |-> slug])
  /\ UNCHANGED <<collections, docs, space_members, grants>>

\* What is live in s: its collections, and the documents of those.
LiveCollectionsOf(s) ==
  {c \in Collections : IsLive(collections[c]) /\ collections[c].space = s}

ArchiveSpace(s) ==
  /\ spaces' = [spaces EXCEPT ![s].status = "trashed"]
  /\ Emit([kind |-> "space.archive", id |-> s])
  /\ UNCHANGED <<collections, docs, space_members, grants>>

\* Refused while anything live or any member is in it.
SpaceArchive(s) ==
  /\ IsLive(spaces[s])
  /\ LiveCollectionsOf(s) = {}
  /\ \A d \in Docs : IsLive(docs[d]) => docs[d].home \notin LiveCollectionsOf(s)
  /\ \A m \in space_members : m[1] # s
  /\ ArchiveSpace(s)

SpaceRestore(s) ==
  /\ IsTrashed(spaces[s])
  /\ SpaceSlugFree(s, spaces[s].slug)
  /\ spaces' = [spaces EXCEPT ![s].status = "live"]
  /\ Emit([kind |-> "space.restore", id |-> s])
  /\ UNCHANGED <<collections, docs, space_members, grants>>

SpaceMemberAdd(s, u) ==
  /\ IsLive(spaces[s])
  /\ <<s, u>> \notin space_members
  /\ space_members' = space_members \cup {<<s, u>>}
  /\ Emit([kind |-> "space.member_add", id |-> <<s, u>>])
  /\ UNCHANGED <<spaces, collections, docs, grants>>

SpaceMemberRemove(s, u) ==
  /\ IsLive(spaces[s])
  /\ <<s, u>> \in space_members
  /\ space_members' = space_members \ {<<s, u>>}
  /\ Emit([kind |-> "space.member_remove", id |-> <<s, u>>])
  /\ UNCHANGED <<spaces, collections, docs, grants>>

-----------------------------------------------------------------------------
(* Collections *)

\* Under p, whose space it inherits; or at the top, into space s or none.
CollectionCreate(c, p, s, slug) ==
  /\ ~Exists(collections[c])
  /\ IF p = Root
     THEN s # NoSpace => IsLive(spaces[s])
     ELSE /\ Cardinality(Above(p)) < MaxDepth
          /\ LiveChain(p)
          /\ s = collections[p].space
          /\ Placement(p) # Anomaly
  /\ CollectionSlugFree(c, p, slug)
  /\ collections' = [collections EXCEPT ![c] =
       [status |-> "live", parent |-> p, space |-> s, slug |-> slug]]
  /\ Emit([kind |-> "collection.create", id |-> c, parent |-> p, space |-> s,
           slug |-> slug])
  /\ UNCHANGED <<spaces, docs, space_members, grants>>

CollectionUpdate(c, slug) ==
  /\ IsLive(collections[c])
  /\ slug # collections[c].slug =>
       CollectionSlugFree(c, collections[c].parent, slug)
  /\ collections' = [collections EXCEPT ![c].slug = slug]
  /\ Emit([kind |-> "collection.update", id |-> c, slug |-> slug])
  /\ UNCHANGED <<spaces, docs, space_members, grants>>

\* Refused while a direct child is live.
CollectionDelete(c) ==
  /\ IsLive(collections[c])
  /\ \A k \in Collections : collections[k].parent = c => ~IsLive(collections[k])
  /\ \A d \in Docs : docs[d].home = c => ~IsLive(docs[d])
  /\ collections' = [collections EXCEPT ![c].status = "trashed"]
  /\ Emit([kind |-> "collection.soft_delete", id |-> c])
  /\ UNCHANGED <<spaces, docs, space_members, grants>>

\* What a move may answer for the grants of what crosses a bucket.
Policies == {"none", "keep_grants", "adopt_baseline"}

\* A crossing states its policy; a move within one bucket must not.
PolicyFits(policy, src, dst) ==
  IF SameBucket(src, dst) THEN policy = "none"
  ELSE policy # "none" /\ dst # Anomaly

\* Mutant: documents in the trash keep their grants.
DroppedOfLive(C, policy) ==
  IF policy = "adopt_baseline"
  THEN {g \in grants : docs[g[1]].home \in C /\ IsLive(docs[g[1]])}
  ELSE {}

\* adopt_baseline sheds the grants of every document in C, trashed or live.
Dropped(C, policy) ==
  IF policy = "adopt_baseline"
  THEN {g \in grants : docs[g[1]].home \in C}
  ELSE {}

\* Mutant: what is in the trash stays behind.
FollowLive(c) == LiveBelow(c)

\* All that is below c, trashed or live, follows it into another space.
Follow(c) == Down(collections, c)

\* Mutant: a collection may move below itself.
DestinationLive(c, p, s) ==
  IF p = Root THEN s # NoSpace => IsLive(spaces[s]) ELSE LiveChain(p)

\* The destination exists, is live and is not below c.
DestinationValid(c, p, s) ==
  IF p = Root THEN s # NoSpace => IsLive(spaces[s])
  ELSE LiveChain(p) /\ c \notin Above(p)

\* To the top (s = NoSpace: of the workspace) or under the collection p.
CollectionMove(c, p, s, policy) ==
  LET src == Placement(c)
      dst == IF p = Root THEN s ELSE Placement(p)
      crosses == ~SameBucket(src, dst)
      space == IF crosses THEN dst ELSE collections[c].space
      dropped == Dropped(Down(collections, c), policy)
  IN
  /\ p # Root => s = NoSpace
  /\ IsLive(collections[c])
  /\ DestinationValid(c, p, s)
  /\ PolicyFits(policy, src, dst)
  /\ FitsUnder(c, p)
  /\ p # collections[c].parent => CollectionSlugFree(c, p, collections[c].slug)
  /\ collections' = [x \in Collections |->
       IF x = c THEN [collections[x] EXCEPT !.parent = p, !.space = space]
       ELSE IF crosses /\ x \in Follow(c)
            THEN [collections[x] EXCEPT !.space = space]
       ELSE collections[x]]
  /\ grants' = grants \ dropped
  /\ Emit([kind |-> "collection.move", id |-> c, parent |-> p, space |-> space,
           dropped |-> dropped])
  /\ UNCHANGED <<spaces, docs, space_members>>

RestoreCollection(c) ==
  /\ collections' = [collections EXCEPT ![c].status = "live"]
  /\ Emit([kind |-> "collection.restore", id |-> c])
  /\ UNCHANGED <<spaces, docs, space_members, grants>>

\* Mutant: the depth cap is left to create and move.
CollectionRestoreAnyDepth(c) ==
  LET row == collections[c] IN
  /\ IsTrashed(row)
  /\ row.space # NoSpace => IsLive(spaces[row.space])
  /\ LiveChain(row.parent)
  /\ CollectionSlugFree(c, row.parent, row.slug)
  /\ RestoreCollection(c)

\* Mutant: the space may have been archived meanwhile.
CollectionRestoreInDeadSpace(c) ==
  LET row == collections[c] IN
  /\ IsTrashed(row)
  /\ LiveChain(row.parent)
  /\ CollectionSlugFree(c, row.parent, row.slug)
  /\ FitsUnder(c, row.parent)
  /\ RestoreCollection(c)

\* Its space and all its ancestors are live, its slug is free and it fits.
CollectionRestore(c) ==
  LET row == collections[c] IN
  /\ IsTrashed(row)
  /\ row.space # NoSpace => IsLive(spaces[row.space])
  /\ LiveChain(row.parent)
  /\ CollectionSlugFree(c, row.parent, row.slug)
  /\ FitsUnder(c, row.parent)
  /\ RestoreCollection(c)

-----------------------------------------------------------------------------
(* Documents *)

DocCreate(d, p, slug) ==
  /\ ~Exists(docs[d])
  /\ p # Root => IsLive(collections[p]) /\ Placement(p) # Anomaly
  /\ DocSlugFree(d, p, slug)
  /\ docs' = [docs EXCEPT ![d] = [status |-> "live", home |-> p, slug |-> slug,
                                  published |-> NoSlug]]
  /\ Emit([kind |-> "doc.create", id |-> d, home |-> p, slug |-> slug])
  /\ UNCHANGED <<spaces, collections, space_members, grants>>

DocRename(d, slug) ==
  /\ IsLive(docs[d])
  /\ DocSlugFree(d, docs[d].home, slug)
  /\ docs' = [docs EXCEPT ![d].slug = slug]
  /\ Emit([kind |-> "doc.rename", id |-> d, slug |-> slug])
  /\ UNCHANGED <<spaces, collections, space_members, grants>>

DocMove(d, p, policy) ==
  LET dropped == {g \in grants : g[1] = d /\ policy = "adopt_baseline"} IN
  /\ IsLive(docs[d])
  /\ p # Root => IsLive(collections[p])
  /\ PolicyFits(policy, Placement(docs[d].home), Placement(p))
  /\ p # docs[d].home => DocSlugFree(d, p, docs[d].slug)
  /\ docs' = [docs EXCEPT ![d].home = p]
  /\ grants' = grants \ dropped
  /\ Emit([kind |-> "doc.move", id |-> d, home |-> p, dropped |-> dropped])
  /\ UNCHANGED <<spaces, collections, space_members>>

\* The public slugs taken on the live site.
Taken == {docs[k].published : k \in {k \in Docs : IsLive(docs[k])}}

\* Mutant: the bare slug is always free.
FirstBare(q, slug) == q = <<slug, 1>>

\* q is the slug itself, or its least free suffix.
FirstFree(q, slug) ==
  /\ q[1] = slug
  /\ q \notin Taken
  /\ \A n \in 1..(q[2] - 1) : <<slug, n>> \in Taken

\* Publishing again keeps the address.
DocPublish(d, q) ==
  /\ IsLive(docs[d])
  /\ IF docs[d].published = NoSlug THEN FirstFree(q, docs[d].slug)
     ELSE q = docs[d].published
  /\ docs' = [docs EXCEPT ![d].published = q]
  /\ Emit([kind |-> "doc.publish", id |-> d, published |-> q])
  /\ UNCHANGED <<spaces, collections, space_members, grants>>

DocUnpublish(d) ==
  /\ IsLive(docs[d])
  /\ docs' = [docs EXCEPT ![d].published = NoSlug]
  /\ Emit([kind |-> "doc.unpublish", id |-> d])
  /\ UNCHANGED <<spaces, collections, space_members, grants>>

DocDelete(d) ==
  /\ IsLive(docs[d])
  /\ docs' = [docs EXCEPT ![d].status = "trashed", ![d].published = NoSlug]
  /\ Emit([kind |-> "doc.soft_delete", id |-> d])
  /\ UNCHANGED <<spaces, collections, space_members, grants>>

\* Mutant: the parent may be in the trash.
DocRestoreAnywhere(d) ==
  /\ IsTrashed(docs[d])
  /\ DocSlugFree(d, docs[d].home, docs[d].slug)
  /\ docs' = [docs EXCEPT ![d].status = "live"]
  /\ Emit([kind |-> "doc.restore", id |-> d])
  /\ UNCHANGED <<spaces, collections, space_members, grants>>

\* Mutant: the slug may have been taken meanwhile.
DocRestoreAnySlug(d) ==
  /\ IsTrashed(docs[d])
  /\ docs[d].home # Root =>
       IsLive(collections[docs[d].home]) /\ Placement(docs[d].home) # Anomaly
  /\ docs' = [docs EXCEPT ![d].status = "live"]
  /\ Emit([kind |-> "doc.restore", id |-> d])
  /\ UNCHANGED <<spaces, collections, space_members, grants>>

\* Its collection and that one's space are live, its slug is free.
DocRestore(d) ==
  /\ IsTrashed(docs[d])
  /\ docs[d].home # Root =>
       IsLive(collections[docs[d].home]) /\ Placement(docs[d].home) # Anomaly
  /\ DocSlugFree(d, docs[d].home, docs[d].slug)
  /\ docs' = [docs EXCEPT ![d].status = "live"]
  /\ Emit([kind |-> "doc.restore", id |-> d])
  /\ UNCHANGED <<spaces, collections, space_members, grants>>

\* doc.add_guest asks nothing of the placement, doc.remove_guest not even
\* that the document is live.
AddGuest(d, u) ==
  /\ IsLive(docs[d])
  /\ grants' = grants \cup {<<d, u>>}
  /\ Emit([kind |-> "acl.grant", id |-> <<d, u>>])
  /\ UNCHANGED <<spaces, collections, docs, space_members>>

RemoveGuest(d, u) ==
  /\ <<d, u>> \in grants
  /\ grants' = grants \ {<<d, u>>}
  /\ Emit([kind |-> "acl.revoke", id |-> <<d, u>>])
  /\ UNCHANGED <<spaces, collections, docs, space_members>>

-----------------------------------------------------------------------------
SpaceStep ==
  \E s \in Spaces :
    \/ \E slug \in Slugs : SpaceCreate(s, slug) \/ SpaceUpdate(s, slug)
    \/ SpaceArchive(s) \/ SpaceRestore(s)
    \/ \E u \in Users : SpaceMemberAdd(s, u) \/ SpaceMemberRemove(s, u)

CollectionStep ==
  \E c \in Collections :
    \/ \E p \in Parents, s \in Spaces \cup {NoSpace}, slug \in Slugs :
         CollectionCreate(c, p, s, slug)
    \/ \E slug \in Slugs : CollectionUpdate(c, slug)
    \/ \E p \in Parents, s \in Spaces \cup {NoSpace}, policy \in Policies :
         CollectionMove(c, p, s, policy)
    \/ CollectionDelete(c) \/ CollectionRestore(c)

DocStep ==
  \E d \in Docs :
    \/ \E p \in Parents, slug \in Slugs : DocCreate(d, p, slug)
    \/ \E slug \in Slugs : DocRename(d, slug)
    \/ \E p \in Parents, policy \in Policies : DocMove(d, p, policy)
    \/ \E q \in PublicSlugs : DocPublish(d, q)
    \/ DocUnpublish(d) \/ DocDelete(d) \/ DocRestore(d)
    \/ \E u \in Users : AddGuest(d, u) \/ RemoveGuest(d, u)

Next == SpaceStep \/ CollectionStep \/ DocStep

Spec == Init /\ [][Next]_vars

-----------------------------------------------------------------------------
\* The space a document is bound to through its collection.
SpaceOf(d) ==
  IF docs[d].home = Root THEN NoSpace ELSE collections[docs[d].home].space

\* Nothing live is under something trashed, or in an archived space: delete
\* and archive refuse while a direct child is live, restore while the parent
\* is not, and no order of moves, deletes and restores gets around them.
NoLiveUnderTrashed ==
  /\ \A c \in Collections : IsLive(collections[c]) =>
       /\ collections[c].parent # Root => IsLive(collections[collections[c].parent])
       /\ collections[c].space # NoSpace => IsLive(spaces[collections[c].space])
  /\ \A d \in Docs : IsLive(docs[d]) /\ docs[d].home # Root =>
       IsLive(collections[docs[d].home])

\* The space of a collection, stored on every row so that the ceiling is one
\* lookup, is its parent's, in the trash too: a restore must not bring a row
\* back into a space its parent has left.
SpaceIsInherited ==
  \A c \in Collections :
    collections[c].parent # Root =>
      collections[c].space = collections[collections[c].parent].space

\* No collection is its own ancestor, in the trash or out of it: the move
\* looks for cycles only along a live chain.
NoCycles ==
  \A c \in Collections :
    collections[c].parent # Root =>
      c \notin Up(collections, collections[c].parent)

\* Live collections nest at most MaxDepth deep, although a move counts only
\* what is live below and the rest is restored afterwards.
DepthWithinCap ==
  \A c \in Collections :
    IsLive(collections[c]) => Cardinality(Up(collections, c)) <= MaxDepth

\* The pre-checks alone keep slugs unique among live siblings as long as calls do
\* not overlap; between overlapping ones the partial unique indexes decide, and
\* one of them fails with an internal error (doc/create.ts:306-309).
SlugsAreUnique ==
  /\ \A s \in Spaces : IsLive(spaces[s]) => SpaceSlugFree(s, spaces[s].slug)
  /\ \A c \in Collections : IsLive(collections[c]) =>
       CollectionSlugFree(c, collections[c].parent, collections[c].slug)
  /\ \A d \in Docs : IsLive(docs[d]) => DocSlugFree(d, docs[d].home, docs[d].slug)

\* A public address leads to one live document.
PublicAddresses ==
  \A d, e \in Docs :
    docs[d].published # NoSlug =>
      /\ IsLive(docs[d])
      /\ docs[d].published = docs[e].published => d = e

\* An archived space has no members, so none of them has a say in restoring
\* it (ceiling.ts: membership cannot survive onto a dead team space).
DeadSpacesAreEmpty ==
  \A m \in space_members : IsLive(spaces[m[1]])

\* Invariant 3a: the audit log alone reconstructs the state.
ReplayIsExact == replayed = Projection

\* The inductive invariant behind these, DepthWithinCap aside: with them, a row
\* that was never created is blank, and nothing hangs below one.
RowInv ==
  /\ \A c \in Collections :
       /\ ~Exists(collections[c]) => collections[c] = NoCollectionRow
       /\ collections[c].parent # Root => Exists(collections[collections[c].parent])
  /\ \A d \in Docs :
       /\ ~Exists(docs[d]) => docs[d] = NoDocRow
       /\ docs[d].home # Root => Exists(collections[docs[d].home])

IInv ==
  /\ TypeOK /\ RowInv /\ NoLiveUnderTrashed /\ SpaceIsInherited /\ NoCycles
  /\ SlugsAreUnique /\ PublicAddresses /\ DeadSpacesAreEmpty /\ ReplayIsExact

GrantsOf(d) == {g \in grants : g[1] = d}

\* The step takes d from one space to another.
Crosses(d) == Exists(docs[d]) /\ SpaceOf(d)' # SpaceOf(d)

\* A change of space is one transition for everything that changes with it:
\* the documents that cross lose all their grants, or all of them keep theirs;
\* and a document that stays loses at most the one grant that is revoked.
AclTransitionsAreWhole ==
  [][ /\ \/ \A d \in Docs : Crosses(d) => GrantsOf(d)' = {}
         \/ \A d \in Docs : Crosses(d) => GrantsOf(d)' = GrantsOf(d)
      /\ \A d \in Docs :
           ~Crosses(d) => Cardinality(GrantsOf(d) \ GrantsOf(d)') <= 1 ]_vars
=============================================================================
