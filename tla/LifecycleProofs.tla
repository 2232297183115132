--------------------------- MODULE LifecycleProofs ---------------------------
(***************************************************************************)
(* The inductive invariant of Lifecycle and the properties that follow     *)
(* from it, for any number of spaces, collections, documents and users.    *)
(***************************************************************************)
EXTENDS Lifecycle, FiniteSetTheorems, TLAPS

-----------------------------------------------------------------------------
(* Ancestors.  rows is any table with a parent column. *)

\* A row is among its own ancestors.
LEMMA UpSelf ==
  ASSUME NEW rows, NEW c \in Collections
  PROVE  c \in Up(rows, c)
BY DEF Up

\* The parent of an ancestor is an ancestor.
LEMMA UpParent ==
  ASSUME NEW rows, NEW c \in Collections, NEW y \in Up(rows, c),
         rows[y].parent \in Collections
  PROVE  rows[y].parent \in Up(rows, c)
BY DEF Up

\* The ancestors are the least set closed under parents.
LEMMA UpLeast ==
  ASSUME NEW rows, NEW c \in Collections, NEW S \in SUBSET Collections, c \in S,
         \A y \in S : rows[y].parent \in Collections => rows[y].parent \in S
  PROVE  Up(rows, c) \subseteq S
BY DEF Up

\* The ancestors of an ancestor are ancestors.
LEMMA UpTransitive ==
  ASSUME NEW rows, NEW c \in Collections, NEW y \in Up(rows, c)
  PROVE  Up(rows, y) \subseteq Up(rows, c)
<1>1. y \in Collections /\ Up(rows, c) \in SUBSET Collections
  BY DEF Up
<1> QED BY <1>1, UpParent, UpLeast

\* The ancestors of a row are itself and those of its parent.
LEMMA UpStep ==
  ASSUME NEW rows, NEW c \in Collections, NEW x \in Collections,
         x # c, c \in Up(rows, x)
  PROVE  /\ rows[x].parent \in Collections
         /\ c \in Up(rows, rows[x].parent)
<1>1. rows[x].parent \in Collections
  <2>1. CASE rows[x].parent \notin Collections
    <3>1. /\ {x} \in SUBSET Collections
          /\ x \in {x}
          /\ \A y \in {x} : rows[y].parent \in Collections => rows[y].parent \in {x}
      BY <2>1
    <3>2. Up(rows, x) \subseteq {x}
      BY <3>1, UpLeast
    <3> QED BY <3>2
  <2> QED BY <2>1
<1>2. c \in Up(rows, rows[x].parent)
  <2> DEFINE S == {x} \cup Up(rows, rows[x].parent)
  <2>1. S \in SUBSET Collections
    BY DEF Up
  <2>2. \A y \in S : rows[y].parent \in Collections => rows[y].parent \in S
    BY <1>1, UpSelf, UpParent
  <2>3. Up(rows, x) \subseteq S
    BY ZenonT(40), <2>1, <2>2, UpLeast
  <2> QED BY <2>3
<1> QED BY <1>1, <1>2

\* Only the parents matter.
LEMMA UpSame ==
  ASSUME NEW rows, NEW new, NEW c \in Collections,
         \A x \in Collections : new[x].parent = rows[x].parent
  PROVE  Up(new, c) = Up(rows, c)
<1>1. \A S \in SUBSET Collections :
        (\A y \in S : rows[y].parent \in Collections => rows[y].parent \in S)
        <=> (\A y \in S : new[y].parent \in Collections => new[y].parent \in S)
  OBVIOUS
<1> QED BY <1>1 DEF Up

\* Giving c another parent does not change what is below c.
LEMMA DownSame ==
  ASSUME NEW rows, NEW new, NEW c \in Collections,
         \A x \in Collections \ {c} : new[x].parent = rows[x].parent
  PROVE  Down(new, c) = Down(rows, c)
<1>1. ASSUME NEW x \in Collections, NEW old, NEW now,
             \A y \in Collections \ {c} : now[y].parent = old[y].parent,
             c \in Up(now, x)
      PROVE  c \in Up(old, x)
  <2>1. SUFFICES ASSUME c \notin Up(old, x) PROVE FALSE
    OBVIOUS
  <2>2. Up(old, x) \in SUBSET Collections
    BY DEF Up
  <2>3. \A y \in Up(old, x) :
          now[y].parent \in Collections => now[y].parent \in Up(old, x)
    BY <1>1, <2>1, <2>2, UpParent
  <2>4. Up(now, x) \subseteq Up(old, x)
    BY <2>2, <2>3, UpSelf, UpLeast
  <2> QED BY <1>1, <2>1, <2>4
<1> QED BY <1>1 DEF Down

\* What NoCycles says of the table in use.
Acyclic(rows) ==
  \A x \in Collections :
    rows[x].parent # Root => x \notin Up(rows, rows[x].parent)

\* A tree stays one when c goes under a p that is not below c.
LEMMA Reparent ==
  ASSUME NEW rows, NEW new, NEW c \in Collections, NEW p \in Parents,
         \A x \in Collections : rows[x].parent \in Parents,
         \A x \in Collections \ {c} : new[x].parent = rows[x].parent,
         new[c].parent = p,
         p # Root => c \notin Up(rows, p),
         Acyclic(rows)
  PROVE  Acyclic(new)
<1> USE DEF Acyclic
<1>1. p # Root => /\ p \in Collections
                  /\ c \notin Up(new, p)
                  /\ Up(new, p) \subseteq Up(rows, p)
  <2>1. SUFFICES ASSUME p # Root
                 PROVE  /\ p \in Collections
                        /\ c \notin Up(new, p)
                        /\ Up(new, p) \subseteq Up(rows, p)
    OBVIOUS
  <2>2. p \in Collections /\ Up(rows, p) \in SUBSET Collections
    BY <2>1 DEF Parents, Up
  <2>3. \A y \in Up(rows, p) :
          new[y].parent \in Collections => new[y].parent \in Up(rows, p)
    BY <2>1, <2>2, UpParent
  <2>4. Up(new, p) \subseteq Up(rows, p)
    BY <2>2, <2>3, UpSelf, UpLeast
  <2> QED BY <2>1, <2>2, <2>4
<1>2. ASSUME NEW x \in Collections, x # c, new[x].parent # Root,
             x \in Up(new, new[x].parent)
      PROVE  FALSE
  <2> DEFINE q == rows[x].parent
  <2>1. q \in Collections /\ new[x].parent = q /\ x \notin Up(rows, q)
    BY <1>2 DEF Parents
  <2>2. Up(rows, q) \in SUBSET Collections
    BY DEF Up
  <2>3. CASE c \notin Up(rows, q) \/ p = Root
    <3>1. \A y \in Up(rows, q) :
            new[y].parent \in Collections => new[y].parent \in Up(rows, q)
      BY <2>1, <2>2, <2>3, UpParent, NullsAreNoIds
    <3>2. Up(new, q) \subseteq Up(rows, q)
      BY <2>1, <2>2, <3>1, UpSelf, UpLeast
    <3> QED BY <1>2, <2>1, <3>2
  <2>4. CASE c \in Up(rows, q) /\ p # Root
    <3> DEFINE S == Up(rows, q) \cup Up(rows, p)
    <3>1. S \in SUBSET Collections
      BY DEF Up
    <3>2. p \in Collections
      BY <1>1, <2>4
    <3>3. \A y \in S : new[y].parent \in Collections => new[y].parent \in S
      <4>1. ASSUME NEW y \in S, new[y].parent \in Collections
            PROVE  new[y].parent \in S
        <5>1. CASE y = c
          BY <3>2, <5>1, UpSelf
        <5>2. CASE y # c
          BY <2>1, <3>1, <3>2, <4>1, <5>2, UpParent
        <5> QED BY <5>1, <5>2
      <4> QED BY <4>1
    <3>4. Up(new, q) \subseteq S
      <4>1. q \in S
        BY <2>1, UpSelf
      <4> HIDE DEF S
      <4> QED BY <2>1, <3>1, <3>3, <4>1, UpLeast
    <3>5. x \in Up(rows, p)
      BY <1>2, <2>1, <3>4
    <3>6. q \in Up(rows, x) /\ Up(rows, q) \subseteq Up(rows, x)
      BY <2>1, UpSelf, UpParent, UpTransitive
    <3>7. Up(rows, x) \subseteq Up(rows, p)
      BY <3>2, <3>5, UpTransitive
    <3> QED BY <2>4, <3>6, <3>7
  <2> QED BY <2>3, <2>4
<1> QED BY <1>1, <1>2

-----------------------------------------------------------------------------
(* Each action preserves the invariant.  What depends on tables an action   *)
(* leaves alone comes first.                                                *)

LEMMA CollectionsAside ==
  ASSUME IInv, UNCHANGED collections
  PROVE  SpaceIsInherited' /\ NoCycles'
BY DEF IInv, SpaceIsInherited, NoCycles

LEMMA DocsAside ==
  ASSUME IInv, UNCHANGED docs
  PROVE  PublicAddresses'
BY DEF IInv, PublicAddresses

LEMMA RowsAside ==
  ASSUME IInv, UNCHANGED <<collections, docs>>
  PROVE  RowInv'
BY DEF IInv, RowInv

LEMMA SpacesAside ==
  ASSUME IInv, UNCHANGED <<spaces, space_members>>
  PROVE  DeadSpacesAreEmpty'
BY DEF IInv, DeadSpacesAreEmpty

\* Documents and collections keep their slugs unique while their rows stay.
LEMMA TreeAside ==
  ASSUME IInv, UNCHANGED <<spaces, collections, docs>>
  PROVE  NoLiveUnderTrashed' /\ SlugsAreUnique'
BY DEF IInv, NoLiveUnderTrashed, SlugsAreUnique, SpaceSlugFree,
       CollectionSlugFree, DocSlugFree

LEMMA SpaceCreatePreserves ==
  ASSUME IInv, NEW s \in Spaces, NEW slug \in Slugs,
         SpaceCreate(s, slug)
  PROVE  IInv'
<1> USE DEF IInv
<1>1. TypeOK'
  BY DEF SpaceCreate, TypeOK, SpaceRows, Status
<1>2. RowInv' /\ SpaceIsInherited' /\ NoCycles' /\ PublicAddresses'
  BY RowsAside, CollectionsAside, DocsAside DEF SpaceCreate
<1>3. NoLiveUnderTrashed'
  BY DEF SpaceCreate, NoLiveUnderTrashed, TypeOK, SpaceRows, IsLive, Exists
<1>4. SlugsAreUnique'
  BY DEF SpaceCreate, SlugsAreUnique, TypeOK, SpaceRows, SpaceSlugFree, CollectionSlugFree,
         DocSlugFree, IsLive
<1>5. DeadSpacesAreEmpty'
  BY DEF SpaceCreate, DeadSpacesAreEmpty, TypeOK, SpaceRows, IsLive, Exists
<1>6. ReplayIsExact'
  BY DEF SpaceCreate, ReplayIsExact, Projection, Emit, ApplyStateEffect, SetSpace
<1> QED BY <1>1, <1>2, <1>3, <1>4, <1>5, <1>6

LEMMA SpaceUpdatePreserves ==
  ASSUME IInv, NEW s \in Spaces, NEW slug \in Slugs,
         SpaceUpdate(s, slug)
  PROVE  IInv'
<1> USE DEF IInv
<1>1. TypeOK'
  BY DEF SpaceUpdate, TypeOK, SpaceRows, Status
<1>2. RowInv' /\ SpaceIsInherited' /\ NoCycles' /\ PublicAddresses'
  BY RowsAside, CollectionsAside, DocsAside DEF SpaceUpdate
<1>3. NoLiveUnderTrashed'
  BY DEF SpaceUpdate, NoLiveUnderTrashed, TypeOK, SpaceRows, IsLive
<1>4. SlugsAreUnique'
  BY DEF SpaceUpdate, SlugsAreUnique, TypeOK, SpaceRows, SpaceSlugFree, CollectionSlugFree,
         DocSlugFree, IsLive
<1>5. DeadSpacesAreEmpty'
  BY DEF SpaceUpdate, DeadSpacesAreEmpty, TypeOK, SpaceRows, IsLive
<1>6. ReplayIsExact'
  BY DEF SpaceUpdate, ReplayIsExact, Projection, Emit, ApplyStateEffect, PatchSpace, SetSpace,
         IsLive, Exists
<1> QED BY <1>1, <1>2, <1>3, <1>4, <1>5, <1>6

LEMMA SpaceArchivePreserves ==
  ASSUME IInv, NEW s \in Spaces,
         SpaceArchive(s)
  PROVE  IInv'
<1> USE DEF IInv
<1>1. TypeOK'
  BY DEF SpaceArchive, TypeOK, SpaceRows, Status, ArchiveSpace
<1>2. RowInv' /\ SpaceIsInherited' /\ NoCycles' /\ PublicAddresses'
  BY RowsAside, CollectionsAside, DocsAside DEF SpaceArchive, ArchiveSpace
<1>3. NoLiveUnderTrashed'
  BY DEF SpaceArchive, NoLiveUnderTrashed, TypeOK, SpaceRows, IsLive, LiveCollectionsOf, ArchiveSpace
<1>4. SlugsAreUnique'
  BY DEF SpaceArchive, SlugsAreUnique, TypeOK, SpaceRows, SpaceSlugFree, CollectionSlugFree,
         DocSlugFree, IsLive, ArchiveSpace
<1>5. DeadSpacesAreEmpty'
  BY DEF SpaceArchive, DeadSpacesAreEmpty, TypeOK, SpaceRows, IsLive, ArchiveSpace
<1>6. ReplayIsExact'
  BY DEF SpaceArchive, ReplayIsExact, Projection, Emit, ApplyStateEffect, PatchSpace, SetSpace,
         IsLive, Exists, ArchiveSpace
<1> QED BY <1>1, <1>2, <1>3, <1>4, <1>5, <1>6

LEMMA SpaceRestorePreserves ==
  ASSUME IInv, NEW s \in Spaces,
         SpaceRestore(s)
  PROVE  IInv'
<1> USE DEF IInv
<1>1. TypeOK'
  BY DEF SpaceRestore, TypeOK, SpaceRows, Status
<1>2. RowInv' /\ SpaceIsInherited' /\ NoCycles' /\ PublicAddresses'
  BY RowsAside, CollectionsAside, DocsAside DEF SpaceRestore
<1>3. NoLiveUnderTrashed'
  BY DEF SpaceRestore, NoLiveUnderTrashed, TypeOK, SpaceRows, IsLive
<1>4. SlugsAreUnique'
  BY DEF SpaceRestore, SlugsAreUnique, TypeOK, SpaceRows, SpaceSlugFree, CollectionSlugFree,
         DocSlugFree, IsLive
<1>5. DeadSpacesAreEmpty'
  BY DEF SpaceRestore, DeadSpacesAreEmpty, TypeOK, SpaceRows, IsLive
<1>6. ReplayIsExact'
  BY DEF SpaceRestore, ReplayIsExact, Projection, Emit, ApplyStateEffect, PatchSpace, SetSpace,
         IsTrashed, Exists
<1> QED BY <1>1, <1>2, <1>3, <1>4, <1>5, <1>6

LEMMA SpaceMemberAddPreserves ==
  ASSUME IInv, NEW s \in Spaces, NEW u \in Users,
         SpaceMemberAdd(s, u)
  PROVE  IInv'
<1> USE DEF IInv
<1>1. TypeOK'
  BY DEF SpaceMemberAdd, TypeOK
<1>2. RowInv' /\ SpaceIsInherited' /\ NoCycles' /\ PublicAddresses'
  BY RowsAside, CollectionsAside, DocsAside DEF SpaceMemberAdd
<1>3. NoLiveUnderTrashed' /\ SlugsAreUnique'
  BY TreeAside DEF SpaceMemberAdd
<1>4. DeadSpacesAreEmpty'
  BY DEF SpaceMemberAdd, DeadSpacesAreEmpty
<1>5. ReplayIsExact'
  BY DEF SpaceMemberAdd, ReplayIsExact, Projection, Emit, ApplyStateEffect
<1> QED BY <1>1, <1>2, <1>3, <1>4, <1>5

LEMMA SpaceMemberRemovePreserves ==
  ASSUME IInv, NEW s \in Spaces, NEW u \in Users,
         SpaceMemberRemove(s, u)
  PROVE  IInv'
<1> USE DEF IInv
<1>1. TypeOK'
  BY DEF SpaceMemberRemove, TypeOK
<1>2. RowInv' /\ SpaceIsInherited' /\ NoCycles' /\ PublicAddresses'
  BY RowsAside, CollectionsAside, DocsAside DEF SpaceMemberRemove
<1>3. NoLiveUnderTrashed' /\ SlugsAreUnique'
  BY TreeAside DEF SpaceMemberRemove
<1>4. DeadSpacesAreEmpty'
  BY DEF SpaceMemberRemove, DeadSpacesAreEmpty
<1>5. ReplayIsExact'
  BY DEF SpaceMemberRemove, ReplayIsExact, Projection, Emit, ApplyStateEffect
<1> QED BY <1>1, <1>2, <1>3, <1>4, <1>5

LEMMA AddGuestPreserves ==
  ASSUME IInv, NEW d \in Docs, NEW u \in Users,
         AddGuest(d, u)
  PROVE  IInv'
<1> USE DEF IInv
<1>1. TypeOK'
  BY DEF AddGuest, TypeOK
<1>2. RowInv' /\ SpaceIsInherited' /\ NoCycles' /\ PublicAddresses'
  BY RowsAside, CollectionsAside, DocsAside DEF AddGuest
<1>3. NoLiveUnderTrashed' /\ SlugsAreUnique' /\ DeadSpacesAreEmpty'
  BY TreeAside, SpacesAside DEF AddGuest
<1>4. ReplayIsExact'
  BY DEF AddGuest, ReplayIsExact, Projection, Emit, ApplyStateEffect
<1> QED BY <1>1, <1>2, <1>3, <1>4

LEMMA RemoveGuestPreserves ==
  ASSUME IInv, NEW d \in Docs, NEW u \in Users,
         RemoveGuest(d, u)
  PROVE  IInv'
<1> USE DEF IInv
<1>1. TypeOK'
  BY DEF RemoveGuest, TypeOK
<1>2. RowInv' /\ SpaceIsInherited' /\ NoCycles' /\ PublicAddresses'
  BY RowsAside, CollectionsAside, DocsAside DEF RemoveGuest
<1>3. NoLiveUnderTrashed' /\ SlugsAreUnique' /\ DeadSpacesAreEmpty'
  BY TreeAside, SpacesAside DEF RemoveGuest
<1>4. ReplayIsExact'
  BY DEF RemoveGuest, ReplayIsExact, Projection, Emit, ApplyStateEffect, RemoveGrants
<1> QED BY <1>1, <1>2, <1>3, <1>4

LEMMA DocCreatePreserves ==
  ASSUME IInv, NEW d \in Docs, NEW p \in Parents, NEW slug \in Slugs,
         DocCreate(d, p, slug)
  PROVE  IInv'
<1> USE DEF IInv
<1>1. TypeOK'
  BY DEF DocCreate, TypeOK, DocRows, Status
<1>2. SpaceIsInherited' /\ NoCycles' /\ DeadSpacesAreEmpty'
  BY CollectionsAside, SpacesAside DEF DocCreate
<1>3. RowInv'
  BY DEF DocCreate, RowInv, TypeOK, DocRows, Exists, IsLive, Parents
<1>4. NoLiveUnderTrashed'
  BY DEF DocCreate, NoLiveUnderTrashed, TypeOK, DocRows, IsLive
<1>5. SlugsAreUnique'
  BY DEF DocCreate, SlugsAreUnique, TypeOK, DocRows, SpaceSlugFree, CollectionSlugFree,
         DocSlugFree, IsLive
<1>6. PublicAddresses'
  BY DEF DocCreate, PublicAddresses, TypeOK, DocRows, IsLive, RowInv, NoDocRow, Exists
<1>7. ReplayIsExact'
  BY DEF DocCreate, ReplayIsExact, Projection, Emit, ApplyStateEffect, SetDoc
<1> QED BY <1>1, <1>2, <1>3, <1>4, <1>5, <1>6, <1>7

LEMMA DocRenamePreserves ==
  ASSUME IInv, NEW d \in Docs, NEW slug \in Slugs,
         DocRename(d, slug)
  PROVE  IInv'
<1> USE DEF IInv
<1>1. TypeOK'
  BY DEF DocRename, TypeOK, DocRows, Status
<1>2. SpaceIsInherited' /\ NoCycles' /\ DeadSpacesAreEmpty'
  BY CollectionsAside, SpacesAside DEF DocRename
<1>3. RowInv'
  BY DEF DocRename, RowInv, TypeOK, DocRows, Exists, IsLive
<1>4. NoLiveUnderTrashed'
  BY DEF DocRename, NoLiveUnderTrashed, TypeOK, DocRows, IsLive
<1>5. SlugsAreUnique'
  BY DEF DocRename, SlugsAreUnique, TypeOK, DocRows, SpaceSlugFree, CollectionSlugFree,
         DocSlugFree, IsLive
<1>6. PublicAddresses'
  BY DEF DocRename, PublicAddresses, TypeOK, DocRows, IsLive
<1>7. ReplayIsExact'
  BY DEF DocRename, ReplayIsExact, Projection, Emit, ApplyStateEffect, PatchDoc, SetDoc,
         IsLive, Exists
<1> QED BY <1>1, <1>2, <1>3, <1>4, <1>5, <1>6, <1>7

LEMMA DocMovePreserves ==
  ASSUME IInv, NEW d \in Docs, NEW p \in Parents, NEW policy \in Policies,
         DocMove(d, p, policy)
  PROVE  IInv'
<1> USE DEF IInv
<1>1. TypeOK'
  BY DEF DocMove, TypeOK, DocRows, Status
<1>2. SpaceIsInherited' /\ NoCycles' /\ DeadSpacesAreEmpty'
  BY CollectionsAside, SpacesAside DEF DocMove
<1>3. RowInv'
  BY DEF DocMove, RowInv, TypeOK, DocRows, Exists, IsLive, Parents
<1>4. NoLiveUnderTrashed'
  BY DEF DocMove, NoLiveUnderTrashed, TypeOK, DocRows, IsLive
<1>5. SlugsAreUnique'
  BY DEF DocMove, SlugsAreUnique, TypeOK, DocRows, SpaceSlugFree, CollectionSlugFree,
         DocSlugFree, IsLive
<1>6. PublicAddresses'
  BY DEF DocMove, PublicAddresses, TypeOK, DocRows, IsLive
<1>7. ReplayIsExact'
  BY DEF DocMove, ReplayIsExact, Projection, Emit, ApplyStateEffect, ReplayDocMove,
         RemoveGrants, PatchDoc, SetDoc, IsLive, Exists
<1> QED BY <1>1, <1>2, <1>3, <1>4, <1>5, <1>6, <1>7

LEMMA DocPublishPreserves ==
  ASSUME IInv, NEW d \in Docs, NEW q \in PublicSlugs,
         DocPublish(d, q)
  PROVE  IInv'
<1> USE DEF IInv
<1>1. TypeOK'
  BY DEF DocPublish, TypeOK, DocRows, Status
<1>2. SpaceIsInherited' /\ NoCycles' /\ DeadSpacesAreEmpty'
  BY CollectionsAside, SpacesAside DEF DocPublish
<1>3. RowInv'
  BY DEF DocPublish, RowInv, TypeOK, DocRows, Exists, IsLive
<1>4. NoLiveUnderTrashed'
  BY DEF DocPublish, NoLiveUnderTrashed, TypeOK, DocRows, IsLive
<1>5. SlugsAreUnique'
  BY DEF DocPublish, SlugsAreUnique, TypeOK, DocRows, SpaceSlugFree, CollectionSlugFree,
         DocSlugFree, IsLive
<1>6. PublicAddresses'
  BY DEF DocPublish, PublicAddresses, TypeOK, DocRows, IsLive, FirstFree, Taken
<1>7. ReplayIsExact'
  BY DEF DocPublish, ReplayIsExact, Projection, Emit, ApplyStateEffect, PatchDoc, SetDoc,
         IsLive, Exists
<1> QED BY <1>1, <1>2, <1>3, <1>4, <1>5, <1>6, <1>7

LEMMA DocUnpublishPreserves ==
  ASSUME IInv, NEW d \in Docs,
         DocUnpublish(d)
  PROVE  IInv'
<1> USE DEF IInv
<1>1. TypeOK'
  BY DEF DocUnpublish, TypeOK, DocRows, Status
<1>2. SpaceIsInherited' /\ NoCycles' /\ DeadSpacesAreEmpty'
  BY CollectionsAside, SpacesAside DEF DocUnpublish
<1>3. RowInv'
  BY DEF DocUnpublish, RowInv, TypeOK, DocRows, Exists, IsLive
<1>4. NoLiveUnderTrashed'
  BY DEF DocUnpublish, NoLiveUnderTrashed, TypeOK, DocRows, IsLive
<1>5. SlugsAreUnique'
  BY DEF DocUnpublish, SlugsAreUnique, TypeOK, DocRows, SpaceSlugFree, CollectionSlugFree,
         DocSlugFree, IsLive
<1>6. PublicAddresses'
  BY DEF DocUnpublish, PublicAddresses, TypeOK, DocRows, IsLive
<1>7. ReplayIsExact'
  BY DEF DocUnpublish, ReplayIsExact, Projection, Emit, ApplyStateEffect, PatchDoc, SetDoc,
         IsLive, Exists
<1> QED BY <1>1, <1>2, <1>3, <1>4, <1>5, <1>6, <1>7

LEMMA DocDeletePreserves ==
  ASSUME IInv, NEW d \in Docs,
         DocDelete(d)
  PROVE  IInv'
<1> USE DEF IInv
<1>1. TypeOK'
  BY DEF DocDelete, TypeOK, DocRows, Status
<1>2. SpaceIsInherited' /\ NoCycles' /\ DeadSpacesAreEmpty'
  BY CollectionsAside, SpacesAside DEF DocDelete
<1>3. RowInv'
  BY DEF DocDelete, RowInv, TypeOK, DocRows, Exists, IsLive
<1>4. NoLiveUnderTrashed'
  BY DEF DocDelete, NoLiveUnderTrashed, TypeOK, DocRows, IsLive
<1>5. SlugsAreUnique'
  BY DEF DocDelete, SlugsAreUnique, TypeOK, DocRows, SpaceSlugFree, CollectionSlugFree,
         DocSlugFree, IsLive
<1>6. PublicAddresses'
  BY DEF DocDelete, PublicAddresses, TypeOK, DocRows, IsLive
<1>7. ReplayIsExact'
  BY DEF DocDelete, ReplayIsExact, Projection, Emit, ApplyStateEffect, ReplayDocSoftDelete,
         PatchDoc, SetDoc, IsLive, Exists
<1> QED BY <1>1, <1>2, <1>3, <1>4, <1>5, <1>6, <1>7

LEMMA DocRestorePreserves ==
  ASSUME IInv, NEW d \in Docs,
         DocRestore(d)
  PROVE  IInv'
<1> USE DEF IInv
<1>1. TypeOK'
  BY DEF DocRestore, TypeOK, DocRows, Status
<1>2. SpaceIsInherited' /\ NoCycles' /\ DeadSpacesAreEmpty'
  BY CollectionsAside, SpacesAside DEF DocRestore
<1>3. RowInv'
  BY DEF DocRestore, RowInv, TypeOK, DocRows, Exists, IsLive, IsTrashed
<1>4. NoLiveUnderTrashed'
  BY DEF DocRestore, NoLiveUnderTrashed, TypeOK, DocRows, IsLive
<1>5. SlugsAreUnique'
  BY DEF DocRestore, SlugsAreUnique, TypeOK, DocRows, SpaceSlugFree, CollectionSlugFree,
         DocSlugFree, IsLive
<1>6. PublicAddresses'
  BY DEF DocRestore, PublicAddresses, TypeOK, DocRows, IsLive, IsTrashed
<1>7. ReplayIsExact'
  BY DEF DocRestore, ReplayIsExact, Projection, Emit, ApplyStateEffect, PatchDoc, SetDoc,
         IsTrashed, Exists
<1> QED BY <1>1, <1>2, <1>3, <1>4, <1>5, <1>6, <1>7

LEMMA CollectionUpdatePreserves ==
  ASSUME IInv, NEW c \in Collections, NEW slug \in Slugs,
         CollectionUpdate(c, slug)
  PROVE  IInv'
<1> USE DEF IInv
<1>1. TypeOK'
  BY DEF CollectionUpdate, TypeOK, CollectionRows, Status
<1>2. DeadSpacesAreEmpty' /\ PublicAddresses'
  BY SpacesAside, DocsAside DEF CollectionUpdate
<1>3. RowInv'
  BY DEF CollectionUpdate, RowInv, TypeOK, CollectionRows, Exists, IsLive
<1>4. NoLiveUnderTrashed'
  BY DEF CollectionUpdate, NoLiveUnderTrashed, TypeOK, CollectionRows, IsLive
<1>5. SpaceIsInherited'
  BY DEF CollectionUpdate, SpaceIsInherited, TypeOK, CollectionRows
<1>6. NoCycles'
  <2>1. \A x \in Collections : collections'[x].parent = collections[x].parent
    BY DEF CollectionUpdate, TypeOK, CollectionRows
  <2> QED BY <2>1, UpSame DEF NoCycles, TypeOK, CollectionRows, Parents
<1>7. SlugsAreUnique'
  BY DEF CollectionUpdate, SlugsAreUnique, TypeOK, CollectionRows, SpaceSlugFree, CollectionSlugFree,
         DocSlugFree, IsLive
<1>8. ReplayIsExact'
  BY DEF CollectionUpdate, ReplayIsExact, Projection, Emit, ApplyStateEffect, PatchCollection, SetCollection,
         IsLive, Exists
<1> QED BY <1>1, <1>2, <1>3, <1>4, <1>5, <1>6, <1>7, <1>8

LEMMA CollectionDeletePreserves ==
  ASSUME IInv, NEW c \in Collections,
         CollectionDelete(c)
  PROVE  IInv'
<1> USE DEF IInv
<1>1. TypeOK'
  BY DEF CollectionDelete, TypeOK, CollectionRows, Status
<1>2. DeadSpacesAreEmpty' /\ PublicAddresses'
  BY SpacesAside, DocsAside DEF CollectionDelete
<1>3. RowInv'
  BY DEF CollectionDelete, RowInv, TypeOK, CollectionRows, Exists, IsLive
<1>4. NoLiveUnderTrashed'
  BY DEF CollectionDelete, NoLiveUnderTrashed, TypeOK, CollectionRows, IsLive
<1>5. SpaceIsInherited'
  BY DEF CollectionDelete, SpaceIsInherited, TypeOK, CollectionRows
<1>6. NoCycles'
  <2>1. \A x \in Collections : collections'[x].parent = collections[x].parent
    BY DEF CollectionDelete, TypeOK, CollectionRows
  <2> QED BY <2>1, UpSame DEF NoCycles, TypeOK, CollectionRows, Parents
<1>7. SlugsAreUnique'
  BY DEF CollectionDelete, SlugsAreUnique, TypeOK, CollectionRows, SpaceSlugFree, CollectionSlugFree,
         DocSlugFree, IsLive
<1>8. ReplayIsExact'
  BY DEF CollectionDelete, ReplayIsExact, Projection, Emit, ApplyStateEffect, PatchCollection, SetCollection,
         IsLive, Exists
<1> QED BY <1>1, <1>2, <1>3, <1>4, <1>5, <1>6, <1>7, <1>8

LEMMA CollectionRestorePreserves ==
  ASSUME IInv, NEW c \in Collections,
         CollectionRestore(c)
  PROVE  IInv'
<1> USE DEF IInv
<1>1. collections[c].parent # Root => IsLive(collections[collections[c].parent])
  BY UpSelf DEF CollectionRestore, LiveChain, Above, TypeOK, CollectionRows, Parents
<1>2. TypeOK'
  BY DEF CollectionRestore, TypeOK, CollectionRows, Status, RestoreCollection
<1>3. DeadSpacesAreEmpty' /\ PublicAddresses'
  BY SpacesAside, DocsAside DEF CollectionRestore, RestoreCollection
<1>4. RowInv'
  BY <1>1 DEF CollectionRestore, RowInv, TypeOK, CollectionRows, Exists, IsLive, IsTrashed, RestoreCollection
<1>5. NoLiveUnderTrashed'
  BY <1>1 DEF CollectionRestore, NoLiveUnderTrashed, TypeOK, CollectionRows, IsLive, IsTrashed, RestoreCollection
<1>6. SpaceIsInherited'
  BY DEF CollectionRestore, SpaceIsInherited, TypeOK, CollectionRows, RestoreCollection
<1>7. NoCycles'
  <2>1. \A x \in Collections : collections'[x].parent = collections[x].parent
    BY DEF CollectionRestore, TypeOK, CollectionRows, RestoreCollection
  <2> QED BY <2>1, UpSame DEF NoCycles, TypeOK, CollectionRows, Parents
<1>8. SlugsAreUnique'
  BY DEF CollectionRestore, SlugsAreUnique, TypeOK, CollectionRows, SpaceSlugFree, CollectionSlugFree,
         DocSlugFree, IsLive, IsTrashed, RestoreCollection
<1>9. ReplayIsExact'
  BY DEF CollectionRestore, ReplayIsExact, Projection, Emit, ApplyStateEffect, PatchCollection, SetCollection,
         IsTrashed, Exists, RestoreCollection
<1> QED BY <1>1, <1>2, <1>3, <1>4, <1>5, <1>6, <1>7, <1>8, <1>9

LEMMA CollectionCreatePreserves ==
  ASSUME IInv, NEW c \in Collections, NEW p \in Parents, NEW s \in Spaces \cup {NoSpace}, NEW slug \in Slugs,
         CollectionCreate(c, p, s, slug)
  PROVE  IInv'
<1> USE DEF IInv
<1>1. p # Root => IsLive(collections[p])
  BY UpSelf DEF CollectionCreate, LiveChain, Above, Parents
<1>2. TypeOK'
  BY DEF CollectionCreate, TypeOK, CollectionRows, Status
<1>3. DeadSpacesAreEmpty' /\ PublicAddresses'
  BY SpacesAside, DocsAside DEF CollectionCreate
<1>4. RowInv'
  BY <1>1 DEF CollectionCreate, RowInv, TypeOK, CollectionRows, Exists, IsLive, Parents, NoCollectionRow
<1>5. NoLiveUnderTrashed'
  BY <1>1 DEF CollectionCreate, NoLiveUnderTrashed, TypeOK, CollectionRows, IsLive, Placement, Anomaly
<1>6. SpaceIsInherited'
  BY DEF CollectionCreate, SpaceIsInherited, TypeOK, CollectionRows, RowInv, Exists
<1>7. NoCycles'
  <2>1. p # Root => c \notin Up(collections, p)
    BY DEF CollectionCreate, LiveChain, Above, IsLive, Exists
  <2>2. /\ \A x \in Collections \ {c} : collections'[x].parent = collections[x].parent
        /\ collections'[c].parent = p
        /\ \A x \in Collections : collections[x].parent \in Parents
    BY DEF CollectionCreate, TypeOK, CollectionRows
  <2>3. Acyclic(collections)
    BY DEF NoCycles, Acyclic
  <2>4. Acyclic(collections')
    BY <2>1, <2>2, <2>3, Reparent
  <2> QED BY <2>4 DEF NoCycles, Acyclic
<1>8. SlugsAreUnique'
  BY DEF CollectionCreate, SlugsAreUnique, TypeOK, CollectionRows, SpaceSlugFree, CollectionSlugFree,
         DocSlugFree, IsLive
<1>9. ReplayIsExact'
  BY DEF CollectionCreate, ReplayIsExact, Projection, Emit, ApplyStateEffect, SetCollection
<1> QED BY <1>1, <1>2, <1>3, <1>4, <1>5, <1>6, <1>7, <1>8, <1>9

\* What is below c has the space of c.
LEMMA SpaceBelow ==
  ASSUME IInv, NEW c \in Collections, NEW x \in Down(collections, c)
  PROVE  collections[x].space = collections[c].space
<1> DEFINE S == {y \in Collections : collections[y].space = collections[x].space}
<1>1. x \in S /\ c \in Up(collections, x)
  BY DEF Down
<1>2. \A y \in S : collections[y].parent \in Collections => collections[y].parent \in S
  BY NullsAreNoIds DEF IInv, SpaceIsInherited
<1>3. Up(collections, x) \subseteq S
  BY <1>1, <1>2, UpLeast
<1> QED BY <1>1, <1>3

\* What is below c exists when c does: nothing hangs below a blank row, and a
\* blank row hangs below nothing.
LEMMA BelowExists ==
  ASSUME IInv, NEW c \in Collections, Exists(collections[c]),
         NEW x \in Down(collections, c)
  PROVE  Exists(collections[x])
<1>1. CASE x = c
  BY <1>1
<1>2. CASE x # c
  <2>1. x \in Collections /\ collections[x].parent \in Collections
    BY <1>2, UpStep DEF Down
  <2> QED BY <2>1, NullsAreNoIds DEF IInv, RowInv, NoCollectionRow
<1> QED BY <1>1, <1>2

LEMMA CollectionMovePreserves ==
  ASSUME IInv, NEW c \in Collections, NEW p \in Parents,
         NEW s \in Spaces \cup {NoSpace}, NEW policy \in Policies,
         CollectionMove(c, p, s, policy)
  PROVE  IInv'
<1> DEFINE dst == IF p = Root THEN s ELSE Placement(p)
           below == Down(collections, c)
           crosses == ~SameBucket(Placement(c), dst)
           space == IF crosses THEN dst ELSE collections[c].space
           dropped == Dropped(below, policy)
\* The step, read off the action.
<1>1. /\ IsLive(collections[c])
      /\ DestinationValid(c, p, s)
      /\ PolicyFits(policy, Placement(c), dst)
      /\ p # collections[c].parent => CollectionSlugFree(c, p, collections[c].slug)
      /\ collections' = [x \in Collections |->
           IF x = c THEN [collections[x] EXCEPT !.parent = p, !.space = space]
           ELSE IF crosses /\ x \in below
                THEN [collections[x] EXCEPT !.space = space]
           ELSE collections[x]]
      /\ grants' = grants \ dropped
      /\ Emit([kind |-> "collection.move", id |-> c, parent |-> p,
               space |-> space, dropped |-> dropped])
      /\ UNCHANGED <<spaces, docs, space_members>>
  BY DEF CollectionMove, Follow
<1>2. c \in below /\ below \subseteq Collections
  BY UpSelf DEF Down
<1>3. p # Root => /\ p \in Collections
                  /\ IsLive(collections[p])
                  /\ p \notin below
                  /\ c \notin Up(collections, p)
  BY <1>1, UpSelf DEF DestinationValid, LiveChain, Above, Parents, Down
<1>4. /\ dst # NoSpace => dst \in Spaces /\ IsLive(spaces[dst])
      /\ p # Root => collections[p].space = dst
      /\ space = dst
  <2>1. p = Root /\ dst # NoSpace => dst \in Spaces /\ IsLive(spaces[dst])
    BY <1>1 DEF DestinationValid
  <2>2. p # Root => /\ collections[p].space \in Spaces \cup {NoSpace}
                    /\ collections[p].space # NoSpace => IsLive(spaces[collections[p].space])
                    /\ Placement(p) = collections[p].space
    BY <1>3 DEF Placement, IInv, NoLiveUnderTrashed, TypeOK, CollectionRows
  <2>3. Placement(c) = collections[c].space
    BY <1>1, NullsAreNoIds DEF Placement, IInv, NoLiveUnderTrashed
  <2> QED BY <2>1, <2>2, <2>3 DEF SameBucket
\* Crossing or not, all that is below c is now in the space of p.
<1>5. \A x \in Collections :
        /\ collections'[x] \in CollectionRows
        /\ collections'[x].status = collections[x].status
        /\ collections'[x].slug = collections[x].slug
        /\ collections'[x].parent = IF x = c THEN p ELSE collections[x].parent
        /\ collections'[x].space = IF x \in below THEN dst ELSE collections[x].space
        /\ x \notin below => collections'[x] = collections[x]
  <2>1. \A x \in Collections : collections[x] \in CollectionRows
    BY DEF IInv, TypeOK
  <2>2. dst \in Spaces \cup {NoSpace}
    BY <1>4
  <2>3. \A x \in below : collections[x].space = collections[c].space
    BY SpaceBelow
  <2> QED BY <1>1, <1>2, <1>4, <2>1, <2>2, <2>3 DEF CollectionRows
<1> HIDE DEF dst, below, crosses, space, dropped
<1>6. /\ \A x \in Collections : collections[x].parent \in Parents
      /\ \A d \in Docs : docs[d].home \in Parents
  BY DEF IInv, TypeOK, CollectionRows, DocRows
<1>7. /\ IsLive(collections[c])
      /\ UNCHANGED <<spaces, docs, space_members>>
  BY <1>1
<1>8. TypeOK'
  BY <1>1, <1>5 DEF IInv, TypeOK
<1>9. DeadSpacesAreEmpty' /\ PublicAddresses'
  BY <1>7, SpacesAside, DocsAside
<1>10. RowInv'
  <2>1. \A x \in Collections : ~Exists(collections[x]) => x \notin below
    BY <1>7, BelowExists DEF Exists, IsLive, below
  <2>2. \A x \in Collections : Exists(collections'[x]) <=> Exists(collections[x])
    BY <1>5 DEF Exists
  <2>3. ASSUME NEW x \in Collections
        PROVE  /\ ~Exists(collections'[x]) => collections'[x] = NoCollectionRow
               /\ collections'[x].parent # Root => Exists(collections'[collections'[x].parent])
    <3>1. CASE x = c
      BY <1>2, <1>3, <1>5, <2>1, <2>2, <3>1 DEF Exists, IsLive
    <3>2. CASE x # c
      BY <1>5, <1>6, <2>1, <2>2, <3>2 DEF IInv, RowInv, Parents
    <3> QED BY <3>1, <3>2
  <2>4. ASSUME NEW d \in Docs
        PROVE  /\ ~Exists(docs'[d]) => docs'[d] = NoDocRow
               /\ docs'[d].home # Root => Exists(collections'[docs'[d].home])
    BY <1>6, <1>7, <2>2 DEF IInv, RowInv, Parents
  <2> QED BY <2>3, <2>4 DEF RowInv
<1>11. NoLiveUnderTrashed'
  <2>1. \A x \in Collections : IsLive(collections'[x]) <=> IsLive(collections[x])
    BY <1>5 DEF IsLive
  <2>2. ASSUME NEW x \in Collections, IsLive(collections'[x])
        PROVE  /\ collections'[x].parent # Root => IsLive(collections'[collections'[x].parent])
               /\ collections'[x].space # NoSpace => IsLive(spaces'[collections'[x].space])
    <3>1. collections'[x].parent # Root => IsLive(collections'[collections'[x].parent])
      <4>1. CASE x = c
        BY <1>3, <1>5, <2>1, <4>1
      <4>2. CASE x # c
        BY <1>5, <1>6, <2>1, <2>2, <4>2 DEF IInv, NoLiveUnderTrashed, Parents
      <4> QED BY <4>1, <4>2
    <3>2. collections'[x].space # NoSpace => IsLive(spaces'[collections'[x].space])
      BY <1>4, <1>5, <1>7, <2>1, <2>2 DEF IInv, NoLiveUnderTrashed
    <3> QED BY <3>1, <3>2
  <2>3. ASSUME NEW d \in Docs, IsLive(docs'[d]), docs'[d].home # Root
        PROVE  IsLive(collections'[docs'[d].home])
    BY <1>6, <1>7, <2>1, <2>3 DEF IInv, NoLiveUnderTrashed, Parents
  <2> QED BY <2>2, <2>3 DEF NoLiveUnderTrashed
<1>12. SpaceIsInherited'
  <2>1. SUFFICES ASSUME NEW x \in Collections, collections'[x].parent # Root
                 PROVE  collections'[x].space = collections'[collections'[x].parent].space
    BY DEF SpaceIsInherited
  <2>2. CASE x = c
    BY <1>2, <1>3, <1>4, <1>5, <2>1, <2>2
  <2>3. CASE x # c
    <3> DEFINE y == collections[x].parent
    <3>1. y \in Collections /\ collections'[x].parent = y
      BY <1>5, <2>1, <2>3 DEF IInv, TypeOK, CollectionRows, Parents
    <3>2. x \in below => y \in below
      BY <2>3, UpStep DEF Down, below
    <3>3. y \in below => x \in below
      BY <3>1, UpSelf, UpParent, UpTransitive DEF Down, below
    <3>4. collections[x].space = collections[y].space
      BY <3>1, NullsAreNoIds DEF IInv, SpaceIsInherited
    <3> QED BY <1>5, <3>1, <3>2, <3>3, <3>4
  <2> QED BY <2>2, <2>3
<1>13. NoCycles'
  <2>1. \A x \in Collections \ {c} : collections'[x].parent = collections[x].parent
    BY <1>5
  <2>2. collections'[c].parent = p
    BY <1>5
  <2>3. p # Root => c \notin Up(collections, p)
    BY <1>3
  <2>4. Acyclic(collections)
    BY DEF IInv, NoCycles, Acyclic
  <2>5. Acyclic(collections')
    BY <1>6, <2>1, <2>2, <2>3, <2>4, Reparent
  <2> QED BY <2>5 DEF NoCycles, Acyclic
<1>14. SlugsAreUnique'
  <2>1. \A x \in Collections :
          /\ IsLive(collections'[x]) <=> IsLive(collections[x])
          /\ collections'[x].slug = collections[x].slug
          /\ collections'[x].parent = IF x = c THEN p ELSE collections[x].parent
    BY <1>5 DEF IsLive
  <2>2. p # collections[c].parent => CollectionSlugFree(c, p, collections[c].slug)
    BY <1>1
  <2>3. ASSUME NEW x \in Collections, IsLive(collections'[x]),
               NEW y \in Collections \ {x}, IsLive(collections'[y]),
               collections'[y].parent = collections'[x].parent
        PROVE  collections'[y].slug # collections'[x].slug
    BY <1>7, <2>1, <2>2, <2>3 DEF IInv, SlugsAreUnique, CollectionSlugFree
  <2>4. \A x \in Collections : IsLive(collections'[x]) =>
          CollectionSlugFree(x, collections[x].parent, collections[x].slug)'
    BY <2>3 DEF CollectionSlugFree
  <2> QED BY <1>7, <2>4 DEF IInv, SlugsAreUnique, SpaceSlugFree, DocSlugFree
<1>15. ReplayIsExact'
  <2> DEFINE e == [kind |-> "collection.move", id |-> c, parent |-> p,
                   space |-> space, dropped |-> dropped]
             moved == [collections EXCEPT ![c] = [collections[c] EXCEPT !.parent = p]]
             rebound == [x \in Collections |->
                           IF x \in Down(moved, c) /\ Exists(moved[x])
                           THEN [moved[x] EXCEPT !.space = space]
                           ELSE moved[x]]
             st0 == [spaces |-> spaces, collections |-> collections, docs |-> docs,
                     space_members |-> space_members, grants |-> grants]
             st1 == [spaces |-> spaces, collections |-> moved, docs |-> docs,
                     space_members |-> space_members, grants |-> grants]
             st2 == [spaces |-> spaces, collections |-> rebound, docs |-> docs,
                     space_members |-> space_members, grants |-> grants]
  <2>1. replayed = st0
    BY DEF IInv, ReplayIsExact, Projection
  <2>2. replayed' = ReplayCollectionMove(st0, e)
    BY <1>1, <2>1 DEF Emit, ApplyStateEffect
  <2>3. PatchCollection(st0, c, [collections[c] EXCEPT !.parent = p]) = st1
    BY <1>7 DEF PatchCollection, SetCollection, Exists, IsLive
  <2>4. RebindSubtreeSpace(st1, c, space) = st2
    <3> HIDE DEF moved
    <3> QED BY DEF RebindSubtreeSpace
  <2>5. replayed' = RemoveGrants(st2, dropped)
    <3>1. ReplayCollectionMove(st0, e) = RemoveGrants(RebindSubtreeSpace(
            PatchCollection(st0, c, [collections[c] EXCEPT !.parent = p]), c, space), dropped)
      BY DEF ReplayCollectionMove
    <3> QED BY <2>2, <2>3, <2>4, <3>1
  <2>6. /\ \A x \in Collections : collections[x] \in CollectionRows
        /\ collections = [x \in Collections |-> collections[x]]
    BY DEF IInv, TypeOK
  <2>7. \A x \in Collections :
          /\ x = c => moved[x] = [collections[x] EXCEPT !.parent = p]
          /\ x # c => moved[x] = collections[x]
    BY <2>6
  <2>8. /\ \A x \in Collections \ {c} : moved[x].parent = collections[x].parent
        /\ \A x \in Collections : Exists(moved[x]) <=> Exists(collections[x])
    BY <2>6, <2>7 DEF CollectionRows, Exists
  <2> HIDE DEF moved
  <2>9. Down(moved, c) = below
    BY <2>8, DownSame DEF below
  <2>10. \A x \in below : x \in Collections /\ Exists(moved[x])
    BY <1>2, <1>7, <2>8, BelowExists DEF Exists, IsLive, below
  <2>11. ASSUME NEW x \in Collections
         PROVE  rebound[x] = IF x \in below THEN [moved[x] EXCEPT !.space = space]
                             ELSE moved[x]
    BY <2>9, <2>10
  <2> HIDE DEF rebound
  <2>12. ASSUME NEW x \in Collections
         PROVE  rebound[x] = collections'[x]
    <3>1. collections'[x] =
            IF x = c THEN [collections[x] EXCEPT !.parent = p, !.space = space]
            ELSE IF crosses /\ x \in below
                 THEN [collections[x] EXCEPT !.space = space]
            ELSE collections[x]
      BY <1>1
    <3>2. collections[x] \in CollectionRows
      BY <2>6
    <3>3. x \in below /\ ~crosses => collections[x].space = space
      BY SpaceBelow DEF below, space
    <3>4. collections[x].space = space =>
            [collections[x] EXCEPT !.space = space] = collections[x]
      BY <3>2 DEF CollectionRows
    <3>5. CASE x = c
      BY <1>2, <2>7, <2>11, <3>1, <3>2, <3>5 DEF CollectionRows
    <3>6. CASE x # c
      BY <2>7, <2>11, <3>1, <3>3, <3>4, <3>6
    <3> QED BY <3>5, <3>6
  <2>13. /\ collections' = [x \in Collections |-> collections'[x]]
         /\ rebound = [x \in Collections |-> rebound[x]]
    BY <1>1 DEF rebound
  <2>14. rebound = collections'
    BY <2>12, <2>13
  <2>15. RemoveGrants(st2, dropped) =
           [spaces |-> spaces, collections |-> collections', docs |-> docs,
            space_members |-> space_members, grants |-> grants']
    <3>1. grants' = grants \ dropped
      BY <1>1
    <3> QED BY <2>14, <3>1 DEF RemoveGrants
  <2> QED BY <1>7, <2>5, <2>15 DEF ReplayIsExact, Projection
<1> QED BY <1>8, <1>9, <1>10, <1>11, <1>12, <1>13, <1>14, <1>15 DEF IInv

-----------------------------------------------------------------------------
\* Every step of the tree keeps the inductive invariant.
LEMMA NextPreserves ==
  ASSUME IInv, [Next]_vars
  PROVE  IInv'
<1>1. CASE SpaceStep
  BY <1>1, SpaceCreatePreserves, SpaceUpdatePreserves, SpaceArchivePreserves,
     SpaceRestorePreserves, SpaceMemberAddPreserves, SpaceMemberRemovePreserves
     DEF SpaceStep
<1>2. CASE CollectionStep
  BY <1>2, CollectionCreatePreserves, CollectionUpdatePreserves,
     CollectionMovePreserves, CollectionDeletePreserves,
     CollectionRestorePreserves DEF CollectionStep
<1>3. CASE DocStep
  BY <1>3, DocCreatePreserves, DocRenamePreserves, DocMovePreserves,
     DocPublishPreserves, DocUnpublishPreserves, DocDeletePreserves,
     DocRestorePreserves, AddGuestPreserves, RemoveGuestPreserves DEF DocStep
<1>4. CASE UNCHANGED vars
  <2>1. UNCHANGED <<spaces, collections, docs, space_members, grants, replayed>>
    BY <1>4 DEF vars, tables
  <2>2. TypeOK' /\ ReplayIsExact'
    BY <2>1 DEF IInv, TypeOK, ReplayIsExact, Projection
  <2> QED BY <2>1, <2>2, CollectionsAside, DocsAside, RowsAside, SpacesAside,
             TreeAside DEF IInv
<1> QED BY <1>1, <1>2, <1>3, <1>4 DEF Next

\* The empty workspace satisfies it.
LEMMA InitHolds ==
  ASSUME Init
  PROVE  IInv
<1>1. TypeOK
  BY DEF Init, TypeOK, SpaceRows, CollectionRows, DocRows, Status, Parents,
         NoSpaceRow, NoCollectionRow, NoDocRow
<1>2. RowInv /\ NoLiveUnderTrashed /\ SlugsAreUnique
  BY DEF Init, RowInv, NoLiveUnderTrashed, SlugsAreUnique, IsLive, Exists,
         NoSpaceRow, NoCollectionRow, NoDocRow
<1>3. SpaceIsInherited /\ NoCycles
  BY DEF Init, SpaceIsInherited, NoCycles, NoCollectionRow
<1>4. PublicAddresses /\ DeadSpacesAreEmpty /\ ReplayIsExact
  BY DEF Init, PublicAddresses, NoDocRow, DeadSpacesAreEmpty, ReplayIsExact
<1> QED BY <1>1, <1>2, <1>3, <1>4 DEF IInv

\* The invariant holds in every reachable state: no order of the capabilities
\* of space, collection, doc and guest breaks any of its parts.
THEOREM Inductive == Spec => []IInv
<1> QED BY InitHolds, NextPreserves, PTL DEF Spec

\* Nothing live is ever under something trashed or in an archived space.
THEOREM LiveChainsHold == Spec => []NoLiveUnderTrashed
<1>1. IInv => NoLiveUnderTrashed
  BY DEF IInv
<1> QED BY Inductive, <1>1, PTL

\* Every collection, trashed or live, has its parent's space: collection.move
\* rebinds what is below it in one step.
THEOREM SpaceFollowsParent == Spec => []SpaceIsInherited
<1>1. IInv => SpaceIsInherited
  BY DEF IInv
<1> QED BY Inductive, <1>1, PTL

\* The collections are a forest, in the trash and out of it.
THEOREM Forest == Spec => []NoCycles
<1>1. IInv => NoCycles
  BY DEF IInv
<1> QED BY Inductive, <1>1, PTL

\* No two live siblings share a slug, whatever was restored or moved.
THEOREM SiblingSlugs == Spec => []SlugsAreUnique
<1>1. IInv => SlugsAreUnique
  BY DEF IInv
<1> QED BY Inductive, <1>1, PTL

\* No two documents share a public address, and none in the trash has one.
THEOREM Addresses == Spec => []PublicAddresses
<1>1. IInv => PublicAddresses
  BY DEF IInv
<1> QED BY Inductive, <1>1, PTL

\* An archived space has no members.
THEOREM DeadSpaces == Spec => []DeadSpacesAreEmpty
<1>1. IInv => DeadSpacesAreEmpty
  BY DEF IInv
<1> QED BY Inductive, <1>1, PTL

\* Folding the audit effects gives the tables back, after every step.
THEOREM Replay == Spec => []ReplayIsExact
<1>1. IInv => ReplayIsExact
  BY DEF IInv
<1> QED BY Inductive, <1>1, PTL

-----------------------------------------------------------------------------
(* Depth.  A move that counts what is live below bounds what is live later,  *)
(* for a live row has no ancestors but live ones.                            *)

\* Two ancestors of one row are on one chain.
LEMMA UpChain ==
  ASSUME NEW rows, NEW x \in Collections, NEW c \in Up(rows, x), NEW y \in Up(rows, x)
  PROVE  y \in Up(rows, c) \/ c \in Up(rows, y)
<1>. DEFINE S == {z \in Up(rows, x) : z \in Up(rows, c) \/ c \in Up(rows, z)}
<1>1. c \in Collections /\ S \in SUBSET Collections /\ x \in S
  BY UpSelf DEF Up
<1>2. ASSUME NEW z \in S, rows[z].parent \in Collections
      PROVE  rows[z].parent \in S
  <2>1. z \in Collections /\ rows[z].parent \in Up(rows, x)
    BY <1>2, UpParent DEF Up
  <2>2. CASE z \in Up(rows, c)
    BY <1>1, <1>2, <2>1, <2>2, UpParent
  <2>3. CASE z # c /\ c \in Up(rows, z)
    BY <1>1, <2>1, <2>3, UpStep
  <2>. QED  BY <1>1, <2>2, <2>3, UpSelf
<1>3. Up(rows, x) \subseteq S
  BY <1>1, <1>2, UpLeast
<1>. QED  BY <1>3

\* The ancestors p brings.
Over(rows, p) == IF p = Root THEN {} ELSE Up(rows, p)

\* What c, put under p, leaves of the ancestors of what is below it.
LEMMA UpMoved ==
  ASSUME NEW rows, NEW new, NEW c \in Collections, NEW p \in Parents,
         \A x \in Collections \ {c} : new[x].parent = rows[x].parent,
         \A x \in Collections : rows[x].parent \in Parents,
         new[c].parent = p,
         p # Root => c \notin Up(rows, p),
         Acyclic(rows),
         NEW x \in Down(rows, c)
  PROVE  Up(new, x) \subseteq (Up(rows, x) \ Up(rows, c)) \cup {c} \cup Over(rows, p)
<1>. DEFINE S == (Up(rows, x) \ Up(rows, c)) \cup {c} \cup Over(rows, p)
<1>1. x \in Collections /\ c \in Up(rows, x) /\ S \in SUBSET Collections
  BY DEF Down, Over, Up
<1>2. x \in S
  <2>1. CASE x = c
    BY <2>1
  <2>2. CASE x # c
    <3>1. rows[x].parent \in Collections /\ c \in Up(rows, rows[x].parent)
      BY <1>1, <2>2, UpStep
    <3>2. x \notin Up(rows, c)
      <4>1. SUFFICES ASSUME x \in Up(rows, c)  PROVE FALSE
        OBVIOUS
      <4>2. x \in Up(rows, rows[x].parent)
        BY <3>1, <4>1, UpTransitive
      <4>. QED  BY <1>1, <3>1, <4>2, NullsAreNoIds DEF Acyclic
    <3>. QED  BY <1>1, <3>2, UpSelf
  <2>. QED  BY <2>1, <2>2
<1>3. ASSUME NEW y \in S, new[y].parent \in Collections
      PROVE  new[y].parent \in S
  <2>1. CASE y = c
    BY <1>3, <2>1, NullsAreNoIds, UpSelf DEF Over
  <2>2. CASE y # c /\ y \in Over(rows, p)
    <3>1. p \in Collections /\ y \in Up(rows, p) /\ y \in Collections
      BY <1>1, <2>2 DEF Over, Parents
    <3>. QED  BY <1>3, <2>2, <3>1, UpParent DEF Over
  <2>3. CASE y # c /\ y \in Up(rows, x) \ Up(rows, c)
    <3>. DEFINE q == rows[y].parent
    <3>1. y \in Collections /\ q \in Collections /\ new[y].parent = q /\ q \in Up(rows, x)
      BY <1>1, <1>3, <2>3, UpParent
    <3>2. c \in Up(rows, q)
      BY <1>1, <2>3, <3>1, UpChain, UpStep
    <3>3. CASE q = c
      BY <3>1, <3>3
    <3>4. CASE q # c
      <4>1. q \notin Up(rows, c)
        <5>1. SUFFICES ASSUME q \in Up(rows, c)  PROVE FALSE
          OBVIOUS
        <5>2. rows[c].parent \in Collections /\ q \in Up(rows, rows[c].parent)
          BY <3>1, <3>4, <5>1, UpStep
        <5>3. c \in Up(rows, rows[c].parent)
          BY <3>2, <5>2, UpTransitive
        <5>. QED  BY <5>2, <5>3, NullsAreNoIds DEF Acyclic
      <4>. QED  BY <3>1, <4>1
    <3>. QED  BY <3>3, <3>4
  <2>. QED  BY <2>1, <2>2, <2>3
<1>. HIDE DEF S
<1>4. Up(new, x) \subseteq S
  BY <1>1, <1>2, <1>3, UpLeast
<1>. QED  BY <1>4 DEF S

\* The others keep their ancestors.
LEMMA UpElsewhere ==
  ASSUME NEW rows, NEW new, NEW c \in Collections,
         \A x \in Collections \ {c} : new[x].parent = rows[x].parent,
         NEW x \in Collections, x \notin Down(rows, c)
  PROVE  Up(new, x) = Up(rows, x)
<1>1. ASSUME NEW old, NEW now, c \notin Up(old, x),
             \A y \in Collections \ {c} : now[y].parent = old[y].parent
      PROVE  Up(now, x) \subseteq Up(old, x)
  <2>1. Up(old, x) \in SUBSET Collections
    BY DEF Up
  <2>2. \A y \in Up(old, x) : now[y].parent \in Collections => now[y].parent \in Up(old, x)
    BY <1>1, <2>1, UpParent
  <2>. QED  BY <2>1, <2>2, UpSelf, UpLeast
<1>2. c \notin Up(rows, x)
  BY DEF Down
<1>3. Up(new, x) \subseteq Up(rows, x)
  BY <1>1, <1>2
<1>4. Up(rows, x) \subseteq Up(new, x)
  BY <1>1, <1>2, <1>3
<1>. QED  BY <1>3, <1>4

ChainsAreFinite == \A x \in Collections : IsFiniteSet(Up(collections, x))

LEMMA MovedDepth ==
  ASSUME NEW rows, NEW new, NEW c \in Collections, NEW p \in Parents,
         \A x \in Collections \ {c} : new[x].parent = rows[x].parent,
         \A x \in Collections : rows[x].parent \in Parents,
         new[c].parent = p,
         p # Root => c \notin Up(rows, p),
         Acyclic(rows),
         \A x \in Collections : IsFiniteSet(Up(rows, x)),
         NEW x \in Down(rows, c)
  PROVE  /\ IsFiniteSet(Up(new, x))
         /\ Cardinality(Up(new, x)) <=
              Cardinality(Over(rows, p)) + Cardinality(Up(rows, x)) - Cardinality(Up(rows, c)) + 1
         /\ \A S \in {Over(rows, p), Up(rows, x), Up(rows, c), Up(new, x)} : Cardinality(S) \in Nat
<1>. DEFINE kept == Up(rows, x) \ Up(rows, c)
            all == (kept \cup {c}) \cup Over(rows, p)
<1>1. x \in Collections /\ c \in Up(rows, x)
  BY DEF Down
<1>2. Up(rows, c) \subseteq Up(rows, x)
  BY <1>1, UpTransitive
<1>3. IsFiniteSet(Up(rows, x)) /\ IsFiniteSet(Up(rows, c)) /\ IsFiniteSet(Over(rows, p))
  BY <1>1, FS_EmptySet DEF Over, Parents
<1>4. Up(rows, x) \cap Up(rows, c) = Up(rows, c)
  BY <1>2
<1>5. IsFiniteSet(kept) /\ Cardinality(kept) = Cardinality(Up(rows, x)) - Cardinality(Up(rows, c))
  BY <1>3, <1>4, FS_Difference
<1>. HIDE DEF kept
<1>6. IsFiniteSet(kept \cup {c}) /\ Cardinality(kept \cup {c}) <= Cardinality(kept) + 1
  <2>1. Cardinality(kept) \in Nat
    BY <1>5, FS_CardinalityType
  <2>2. /\ IsFiniteSet(kept \cup {c})
        /\ Cardinality(kept \cup {c})
             = IF c \in kept THEN Cardinality(kept) ELSE Cardinality(kept) + 1
    BY <1>5, FS_AddElement, Zenon
  <2>. QED  BY <2>1, <2>2
<1>7. /\ IsFiniteSet(all)
      /\ Cardinality(all) = Cardinality(kept \cup {c}) + Cardinality(Over(rows, p))
                              - Cardinality((kept \cup {c}) \cap Over(rows, p))
  BY <1>3, <1>6, FS_Union
<1>8. IsFiniteSet((kept \cup {c}) \cap Over(rows, p))
  BY <1>3, <1>6, FS_Intersection
<1>9. Up(new, x) \subseteq all
  BY UpMoved DEF kept
<1>. HIDE DEF all
<1>10. IsFiniteSet(Up(new, x)) /\ Cardinality(Up(new, x)) <= Cardinality(all)
  BY <1>7, <1>9, FS_Subset
<1>11. /\ Cardinality(Over(rows, p)) \in Nat /\ Cardinality(Up(rows, x)) \in Nat
       /\ Cardinality(Up(rows, c)) \in Nat /\ Cardinality(Up(new, x)) \in Nat
       /\ Cardinality(kept) \in Nat /\ Cardinality(kept \cup {c}) \in Nat
       /\ Cardinality((kept \cup {c}) \cap Over(rows, p)) \in Nat /\ Cardinality(all) \in Nat
  BY <1>3, <1>5, <1>6, <1>7, <1>8, <1>10, FS_CardinalityType
<1>12. Cardinality(all) <= Cardinality(kept) + 1 + Cardinality(Over(rows, p))
  BY <1>6, <1>7, <1>11
<1>. QED  BY <1>5, <1>10, <1>11, <1>12

LEMMA LiveUp ==
  ASSUME IInv, NEW x \in Collections, IsLive(collections[x])
  PROVE  \A y \in Up(collections, x) : IsLive(collections[y])
<1>. DEFINE S == {y \in Collections : IsLive(collections[y])}
<1>1. \A y \in S : collections[y].parent \in Collections => collections[y].parent \in S
  BY NullsAreNoIds DEF IInv, NoLiveUnderTrashed
<1>2. Up(collections, x) \subseteq S
  BY <1>1, UpLeast
<1>. QED  BY <1>2

DepthInv == DepthWithinCap /\ ChainsAreFinite

LEMMA ParentsOf ==
  ASSUME IInv
  PROVE  /\ \A x \in Collections : collections[x].parent \in Parents
         /\ Acyclic(collections)
BY DEF IInv, TypeOK, CollectionRows, NoCycles, Acyclic

\* No row moves and none is made live.
LEMMA DepthAside ==
  ASSUME DepthInv,
         \A x \in Collections : /\ collections'[x].parent = collections[x].parent
                                /\ IsLive(collections'[x]) => IsLive(collections[x])
  PROVE  DepthInv'
<1>1. \A x \in Collections : Up(collections', x) = Up(collections, x)
  BY UpSame
<1>. QED  BY <1>1 DEF DepthInv, DepthWithinCap, ChainsAreFinite

\* Nothing hangs below a row that was never created.
LEMMA BlankHasNothingBelow ==
  ASSUME IInv, NEW c \in Collections, ~Exists(collections[c]),
         NEW x \in Collections, x # c
  PROVE  x \notin Down(collections, c)
<1>. DEFINE S == Up(collections, x) \ {c}
<1>1. S \in SUBSET Collections /\ x \in S
  BY UpSelf DEF Up
<1>2. \A y \in S : collections[y].parent \in Collections => collections[y].parent \in S
  BY <1>1, UpParent, NullsAreNoIds DEF IInv, RowInv
<1>3. Up(collections, x) \subseteq S
  BY <1>1, <1>2, UpLeast
<1>. QED  BY <1>3 DEF Down

LEMMA DepthCreate ==
  ASSUME IInv, DepthInv, NEW c \in Collections, NEW p \in Parents, NEW s \in Spaces \cup {NoSpace},
         NEW slug \in Slugs, CollectionCreate(c, p, s, slug)
  PROVE  DepthInv'
<1>1. /\ \A x \in Collections \ {c} : collections'[x] = collections[x]
      /\ collections'[c].parent = p
      /\ ~Exists(collections[c])
  BY DEF CollectionCreate, IInv, TypeOK
<1>2. p # Root => c \notin Up(collections, p)
  BY <1>1 DEF CollectionCreate, LiveChain, Above, IsLive, Exists
<1>3. Cardinality(Over(collections, p)) < MaxDepth
  <2>1. Cardinality({}) = 0
    BY FS_EmptySet
  <2>. QED  BY <2>1, MaxDepthAssumption DEF CollectionCreate, Over, Above
<1>4. \A x \in Collections : x # c => x \notin Down(collections, c)
  BY <1>1, BlankHasNothingBelow
<1>5. \A x \in Collections : x # c => Up(collections', x) = Up(collections, x)
  BY <1>1, <1>4, UpElsewhere
<1>6. c \in Down(collections, c)
  BY UpSelf DEF Down
<1>7. /\ IsFiniteSet(Up(collections', c))
      /\ Cardinality(Up(collections', c)) <= MaxDepth
  <2>1. /\ IsFiniteSet(Up(collections', c))
        /\ Cardinality(Up(collections', c)) <=
             Cardinality(Over(collections, p)) + Cardinality(Up(collections, c))
               - Cardinality(Up(collections, c)) + 1
        /\ \A S \in {Over(collections, p), Up(collections, c), Up(collections', c)} : Cardinality(S) \in Nat
    BY <1>1, <1>2, <1>6, ParentsOf, MovedDepth DEF DepthInv, ChainsAreFinite
  <2>. QED  BY <1>3, <2>1, MaxDepthAssumption
<1>. QED  BY <1>1, <1>5, <1>7 DEF DepthInv, DepthWithinCap, ChainsAreFinite

\* Below a row that is made live there is nothing live.
LEMMA DepthRestore ==
  ASSUME IInv, DepthInv, NEW c \in Collections, CollectionRestore(c)
  PROVE  DepthInv'
<1>. DEFINE p == collections[c].parent
<1>1. /\ \A x \in Collections : collections'[x].parent = collections[x].parent
      /\ \A x \in Collections : x # c => collections'[x] = collections[x]
      /\ FitsUnder(c, p)
  BY DEF CollectionRestore, RestoreCollection, IInv, TypeOK, CollectionRows
<1>2. \A x \in Collections : Up(collections', x) = Up(collections, x)
  BY <1>1, UpSame
<1>3. c \in Down(collections, c) /\ c \in LiveBelow(c)
  BY UpSelf DEF Down, LiveBelow
<1>4. p \in Parents /\ (p # Root => c \notin Up(collections, p))
  BY ParentsOf DEF Acyclic
<1>5. /\ Cardinality(Up(collections, c)) <=
           Cardinality(Over(collections, p)) + Cardinality(Up(collections, c))
             - Cardinality(Up(collections, c)) + 1
      /\ \A S \in {Over(collections, p), Up(collections, c)} : Cardinality(S) \in Nat
  BY <1>3, <1>4, ParentsOf, MovedDepth DEF DepthInv, ChainsAreFinite
<1>6. Cardinality(Over(collections, p)) + Cardinality(Up(collections, c))
        - Cardinality(Up(collections, c)) < MaxDepth
  BY <1>1, <1>3 DEF FitsUnder, Over, Above
<1>7. Cardinality(Up(collections, c)) <= MaxDepth
  BY <1>5, <1>6, MaxDepthAssumption
<1>. QED  BY <1>1, <1>2, <1>7 DEF DepthInv, DepthWithinCap, ChainsAreFinite

LEMMA DepthMove ==
  ASSUME IInv, DepthInv, NEW c \in Collections, NEW p \in Parents,
         NEW s \in Spaces \cup {NoSpace}, NEW policy \in Policies,
         CollectionMove(c, p, s, policy)
  PROVE  DepthInv'
<1>1. /\ \A x \in Collections \ {c} : collections'[x].parent = collections[x].parent
      /\ \A x \in Collections : IsLive(collections'[x]) => IsLive(collections[x])
      /\ collections'[c].parent = p
      /\ FitsUnder(c, p)
      /\ p # Root => c \notin Up(collections, p)
  BY DEF CollectionMove, DestinationValid, Above, IInv, TypeOK, CollectionRows, IsLive
<1>2. ASSUME NEW x \in Collections, x \notin Down(collections, c)
      PROVE  Up(collections', x) = Up(collections, x)
  BY <1>1, <1>2, UpElsewhere
<1>3. ASSUME NEW x \in Down(collections, c)
      PROVE  /\ IsFiniteSet(Up(collections', x))
             /\ IsLive(collections[x]) => Cardinality(Up(collections', x)) <= MaxDepth
  <2>1. /\ IsFiniteSet(Up(collections', x))
        /\ Cardinality(Up(collections', x)) <=
             Cardinality(Over(collections, p)) + Cardinality(Up(collections, x))
               - Cardinality(Up(collections, c)) + 1
        /\ \A S \in {Over(collections, p), Up(collections, x), Up(collections, c), Up(collections', x)} :
             Cardinality(S) \in Nat
    BY <1>1, ParentsOf, MovedDepth DEF DepthInv, ChainsAreFinite
  <2>2. IsLive(collections[x]) => x \in LiveBelow(c)
    BY LiveUp DEF LiveBelow, Down
  <2>3. IsLive(collections[x]) =>
          Cardinality(Over(collections, p)) + Cardinality(Up(collections, x))
            - Cardinality(Up(collections, c)) < MaxDepth
    BY <1>1, <2>2 DEF FitsUnder, Over, Above
  <2>. QED  BY <2>1, <2>3, MaxDepthAssumption
<1>. QED  BY <1>1, <1>2, <1>3 DEF DepthInv, DepthWithinCap, ChainsAreFinite

LEMMA DepthNext ==
  ASSUME IInv, DepthInv, [Next]_vars
  PROVE  DepthInv'
<1>1. ASSUME UNCHANGED collections
      PROVE  DepthInv'
  BY <1>1, DepthAside
<1>2. CASE SpaceStep \/ DocStep \/ UNCHANGED vars
  <2>1. SpaceStep => UNCHANGED collections
    BY DEF SpaceStep, SpaceCreate, SpaceUpdate, SpaceArchive, ArchiveSpace, SpaceRestore,
         SpaceMemberAdd, SpaceMemberRemove
  <2>2. DocStep => UNCHANGED collections
    BY DEF DocStep, DocCreate, DocRename, DocMove, DocPublish, DocUnpublish,
         DocDelete, DocRestore, AddGuest, RemoveGuest
  <2>3. UNCHANGED vars => UNCHANGED collections
    BY DEF vars, tables
  <2>. QED  BY <1>1, <1>2, <2>1, <2>2, <2>3
<1>3. ASSUME NEW c \in Collections,
             (\E slug \in Slugs : CollectionUpdate(c, slug)) \/ CollectionDelete(c)
      PROVE  DepthInv'
  <2>1. TypeOK
    BY DEF IInv
  <2>2. CASE \E slug \in Slugs : CollectionUpdate(c, slug)
    BY <2>1, <2>2, DepthAside DEF CollectionUpdate, TypeOK, CollectionRows, IsLive
  <2>3. CASE CollectionDelete(c)
    BY <2>1, <2>3, DepthAside DEF CollectionDelete, TypeOK, CollectionRows, IsLive
  <2>. QED  BY <1>3, <2>2, <2>3
<1>4. CASE CollectionStep
  BY <1>3, <1>4, DepthCreate, DepthMove, DepthRestore DEF CollectionStep
<1>. QED  BY <1>2, <1>4 DEF Next

\* Live collections nest at most MaxDepth deep, whatever is moved while part of
\* it is in the trash and restored later.
THEOREM DepthCapped == Spec => []DepthWithinCap
<1>1. Init => IInv /\ DepthInv
  <2>. SUFFICES ASSUME Init  PROVE DepthInv
    BY InitHolds
  <2>1. \A x \in Collections : collections[x].parent = Root /\ ~IsLive(collections[x])
    BY DEF Init, NoCollectionRow, IsLive
  <2>2. ASSUME NEW x \in Collections
        PROVE  IsFiniteSet(Up(collections, x))
    <3>1. {x} \in SUBSET Collections /\ x \in {x}
      OBVIOUS
    <3>2. \A y \in {x} : collections[y].parent \in Collections => collections[y].parent \in {x}
      BY <2>1, NullsAreNoIds
    <3>3. Up(collections, x) \subseteq {x}
      BY <3>1, <3>2, UpLeast
    <3>. QED  BY <3>3, FS_Singleton, FS_Subset
  <2>. QED  BY <2>1, <2>2 DEF DepthInv, DepthWithinCap, ChainsAreFinite
<1>2. IInv /\ DepthInv /\ [Next]_vars => IInv' /\ DepthInv'
  BY NextPreserves, DepthNext
<1>3. DepthInv => DepthWithinCap
  BY DEF DepthInv
<1>. QED  BY <1>1, <1>2, <1>3, PTL DEF Spec

-----------------------------------------------------------------------------
(* Grants.  What one step makes of them. *)

GrantsStep ==
  /\ \/ \A d \in Docs : Crosses(d) => GrantsOf(d)' = {}
     \/ \A d \in Docs : Crosses(d) => GrantsOf(d)' = GrantsOf(d)
  /\ \A d \in Docs :
       ~Crosses(d) => Cardinality(GrantsOf(d) \ GrantsOf(d)') <= 1

\* At most one grant is lost when what is lost is part of a singleton.
LEMMA LosesAtMostOne ==
  ASSUME NEW L, NEW g, L \subseteq {g}
  PROVE  Cardinality(L) <= 1
<1>1. L = {} \/ L = {g}
  OBVIOUS
<1>2. Cardinality({}) = 0
  BY FS_EmptySet
<1>3. Cardinality({g}) = 1
  BY FS_Singleton
<1>4. CASE L = {}
  BY <1>2, <1>4
<1>5. CASE L = {g}
  BY <1>3, <1>5
<1> QED BY <1>1, <1>4, <1>5

LEMMA GrantsAside ==
  ASSUME UNCHANGED grants
  PROVE  GrantsStep
<1>1. \A d \in Docs : GrantsOf(d)' = GrantsOf(d)
  BY DEF GrantsOf
<1>2. \A d \in Docs : GrantsOf(d) \ GrantsOf(d)' = {}
  BY <1>1
<1> QED BY <1>1, <1>2, FS_EmptySet DEF GrantsStep

\* Guests come and go one at a time, and no document moves meanwhile.
LEMMA GuestStep ==
  ASSUME NEW d \in Docs, NEW u \in Users, AddGuest(d, u) \/ RemoveGuest(d, u)
  PROVE  GrantsStep
<1>1. \A k \in Docs : ~Crosses(k)
  BY DEF AddGuest, RemoveGuest, Crosses, SpaceOf
<1>2. ASSUME NEW k \in Docs
      PROVE  GrantsOf(k) \ GrantsOf(k)' \subseteq {<<d, u>>}
  BY DEF AddGuest, RemoveGuest, GrantsOf
<1>3. \A k \in Docs : Cardinality(GrantsOf(k) \ GrantsOf(k)') <= 1
  BY <1>2, LosesAtMostOne
<1> QED BY <1>1, <1>3 DEF GrantsStep

\* A document that moves sheds all its grants or keeps them all, and sheds
\* none within its bucket.
LEMMA DocMoveStep ==
  ASSUME IInv, NEW d \in Docs, NEW p \in Parents, NEW policy \in Policies,
         DocMove(d, p, policy)
  PROVE  GrantsStep
<1>1. /\ UNCHANGED collections
      /\ docs' = [docs EXCEPT ![d].home = p]
      /\ grants' = grants \ {g \in grants : g[1] = d /\ policy = "adopt_baseline"}
      /\ PolicyFits(policy, Placement(docs[d].home), Placement(p))
  BY DEF DocMove
<1>2. \A k \in Docs \ {d} : GrantsOf(k)' = GrantsOf(k) /\ ~Crosses(k)
  <2>1. \A k \in Docs \ {d} : docs'[k] = docs[k]
    BY <1>1 DEF IInv, TypeOK
  <2> QED BY <1>1, <2>1 DEF GrantsOf, Crosses, SpaceOf
<1>3. policy = "adopt_baseline" => GrantsOf(d)' = {}
  BY <1>1 DEF GrantsOf
<1>4. policy # "adopt_baseline" => GrantsOf(d)' = GrantsOf(d)
  BY <1>1 DEF GrantsOf
<1>5. ~Crosses(d) => GrantsOf(d)' = GrantsOf(d)
  <2>1. SUFFICES ASSUME ~Crosses(d), Exists(docs[d]), docs[d].home \in Parents,
                        p # docs[d].home
                 PROVE  policy # "adopt_baseline"
    <3>1. Exists(docs[d]) /\ docs[d].home \in Parents
      BY DEF DocMove, IsLive, Exists, IInv, TypeOK, DocRows
    <3>2. p = docs[d].home => policy # "adopt_baseline"
      BY <1>1 DEF PolicyFits, SameBucket
    <3> QED BY <1>4, <3>1, <3>2
  <2>2. docs'[d].home = p
    BY <1>1 DEF IInv, TypeOK, DocRows
  <2>3. SpaceOf(d) = IF p = Root THEN NoSpace ELSE collections[p].space
    BY <1>1, <2>1, <2>2 DEF Crosses, SpaceOf
  <2>4. Placement(docs[d].home) = Placement(p)
    BY <2>3 DEF SpaceOf, Placement
  <2> QED BY <1>1, <2>4 DEF PolicyFits, SameBucket
<1>6. \A k \in Docs : ~Crosses(k) => GrantsOf(k) \ GrantsOf(k)' = {}
  BY <1>2, <1>5
<1> QED BY <1>2, <1>3, <1>4, <1>6, FS_EmptySet DEF GrantsStep

\* A collection that moves takes the grants of all its documents the same way.
LEMMA CollectionMoveStep ==
  ASSUME IInv, NEW c \in Collections, NEW p \in Parents,
         NEW s \in Spaces \cup {NoSpace}, NEW policy \in Policies,
         CollectionMove(c, p, s, policy)
  PROVE  GrantsStep
<1> DEFINE dst == IF p = Root THEN s ELSE Placement(p)
           below == Down(collections, c)
           crosses == ~SameBucket(Placement(c), dst)
           space == IF crosses THEN dst ELSE collections[c].space
<1>1. /\ PolicyFits(policy, Placement(c), dst)
      /\ IsLive(collections[c])
      /\ collections' = [x \in Collections |->
           IF x = c THEN [collections[x] EXCEPT !.parent = p, !.space = space]
           ELSE IF crosses /\ x \in below
                THEN [collections[x] EXCEPT !.space = space]
           ELSE collections[x]]
      /\ grants' = grants \ Dropped(below, policy)
      /\ UNCHANGED docs
  BY DEF CollectionMove, Follow
<1>2. c \in below /\ c # Root
  BY UpSelf, NullsAreNoIds DEF Down
<1>3. \A x \in Collections \ below : collections'[x] = collections[x]
  BY <1>1, <1>2
<1>4. crosses \/ policy = "none"
  BY <1>1 DEF PolicyFits
\* A document that loses its grants is below c, and c crosses.
<1>5. ASSUME NEW x \in below, ~crosses
      PROVE  /\ x \in Collections
             /\ collections'[x].space = collections[x].space
  <2>1. x \in Collections /\ collections[x] \in CollectionRows
    BY DEF Down, IInv, TypeOK
  <2> QED BY <1>1, <1>5, <2>1 DEF CollectionRows
<1>6. ASSUME NEW x \in below, crosses
      PROVE  /\ x \in Collections
             /\ collections'[x].space = dst
             /\ collections'[x].space # collections[x].space
  <2>1. x \in Collections /\ collections[x] \in CollectionRows
    BY DEF Down, IInv, TypeOK
  <2>2. collections'[x].space = dst
    BY <1>1, <1>6, <2>1 DEF CollectionRows
  <2>3. Placement(c) = collections[c].space
    BY <1>1, <1>2 DEF Placement, IInv, NoLiveUnderTrashed
  <2>4. dst # collections[c].space
    BY <1>1, <1>6, <2>3 DEF SameBucket, PolicyFits
  <2> QED BY <2>1, <2>2, <2>4, SpaceBelow
<1> HIDE DEF dst, crosses, space, below
<1>7. \A d \in Docs : docs[d].home \in Parents
  BY DEF IInv, TypeOK, DocRows
<1>8. ASSUME NEW d \in Docs, Exists(docs[d])
      PROVE  Crosses(d) <=> crosses /\ docs[d].home \in below
  <2>1. CASE docs[d].home = Root
    BY <1>1, <1>2, <2>1, NullsAreNoIds DEF Crosses, SpaceOf, below, Down
  <2>2. CASE docs[d].home # Root
    <3> DEFINE h == docs[d].home
    <3>1. h \in Collections
      BY <1>7, <2>2 DEF Parents
    <3>2. docs' = docs
      BY <1>1
    <3>3. Crosses(d) <=> collections'[h].space # collections[h].space
      BY <1>8, <2>2, <3>2 DEF Crosses, SpaceOf
    <3>4. collections'[h].space # collections[h].space <=> crosses /\ h \in below
      BY <1>3, <1>5, <1>6, <3>1
    <3> QED BY <3>3, <3>4
  <2> QED BY <2>1, <2>2
<1>9. CASE policy = "adopt_baseline"
  <2>1. crosses
    BY <1>4, <1>9
  <2>2. \A d \in Docs : docs[d].home \in below => GrantsOf(d)' = {}
    BY <1>1, <1>9 DEF GrantsOf, Dropped
  <2>3. \A d \in Docs : docs[d].home \notin below => GrantsOf(d)' = GrantsOf(d)
    BY <1>1, <1>9 DEF GrantsOf, Dropped
  <2>4. \A d \in Docs : Exists(docs[d]) \/ docs[d].home \notin below
    <3>1. Root \notin below
      BY NullsAreNoIds DEF below, Down
    <3> QED BY <3>1 DEF IInv, RowInv, NoDocRow
  <2>5. \A d \in Docs : Crosses(d) => GrantsOf(d)' = {}
    BY <1>8, <2>2 DEF Crosses
  <2>6. \A d \in Docs : ~Crosses(d) => GrantsOf(d) \ GrantsOf(d)' = {}
    BY <1>8, <2>1, <2>3, <2>4
  <2> QED BY <2>5, <2>6, FS_EmptySet DEF GrantsStep
<1>10. CASE policy # "adopt_baseline"
  BY <1>1, <1>10, GrantsAside DEF Dropped
<1> QED BY <1>9, <1>10

\* A document that changes space takes part in one transition: all that cross
\* shed their grants or all keep them, and nothing else loses more than the one
\* grant that is revoked.
THEOREM WholeTransitions == Spec => AclTransitionsAreWhole
<1>1. ASSUME IInv, [Next]_vars
      PROVE  [GrantsStep]_vars
  <2>1. CASE SpaceStep
    BY <2>1, GrantsAside DEF SpaceStep, SpaceCreate, SpaceUpdate, SpaceArchive,
       ArchiveSpace, SpaceRestore, SpaceMemberAdd, SpaceMemberRemove
  <2>2. CASE CollectionStep
    <3>1. ASSUME NEW c \in Collections, NEW p \in Parents,
                 NEW s \in Spaces \cup {NoSpace}, NEW policy \in Policies,
                 CollectionMove(c, p, s, policy)
          PROVE  GrantsStep
      BY <1>1, <3>1, CollectionMoveStep
    <3> QED BY <2>2, <3>1, GrantsAside DEF CollectionStep, CollectionCreate,
            CollectionUpdate, CollectionDelete, CollectionRestore, RestoreCollection
  <2>3. CASE DocStep
    <3>1. ASSUME NEW d \in Docs, NEW p \in Parents, NEW policy \in Policies,
                 DocMove(d, p, policy)
          PROVE  GrantsStep
      BY <1>1, <3>1, DocMoveStep
    <3>2. ASSUME NEW d \in Docs, NEW u \in Users, AddGuest(d, u) \/ RemoveGuest(d, u)
          PROVE  GrantsStep
      BY <3>2, GuestStep
    <3> QED BY <2>3, <3>1, <3>2, GrantsAside DEF DocStep, DocCreate, DocRename,
            DocPublish, DocUnpublish, DocDelete, DocRestore
  <2> QED BY <1>1, <2>1, <2>2, <2>3 DEF Next
<1>2. [GrantsStep]_vars => [ /\ \/ \A d \in Docs : Crosses(d) => GrantsOf(d)' = {}
                                \/ \A d \in Docs : Crosses(d) => GrantsOf(d)' = GrantsOf(d)
                             /\ \A d \in Docs : ~Crosses(d) =>
                                  Cardinality(GrantsOf(d) \ GrantsOf(d)') <= 1 ]_vars
  BY DEF GrantsStep
<1> QED BY Inductive, <1>1, <1>2, PTL DEF Spec, AclTransitionsAreWhole

=============================================================================
