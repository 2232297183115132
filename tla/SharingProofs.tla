----------------------------- MODULE SharingProofs -----------------------------
(***************************************************************************)
(* Proofs about module Sharing.  What decides the access of a subject to a *)
(* document is a handful of rows (Untouched names them).  Every capability *)
(* either leaves all of them alone or was asked for by someone who vouches *)
(* for the document (Delegation); the properties follow from that.         *)
(***************************************************************************)
EXTENDS Sharing, TLAPS

\* No row that the ladder reads about x and d changes, x's own role apart.
Untouched(x, d) ==
  /\ doc'[d].by = doc[d].by
  /\ SpaceOf(d)' = SpaceOf(d)
  /\ grants'[d][x] = grants[d][x]
  /\ SpaceOf(d) # Legacy =>
       /\ space'[SpaceOf(d)] = space[SpaceOf(d)]
       /\ grants'[SpaceOf(d)][x] = grants[SpaceOf(d)][x]
       /\ x \in Users => roster'[SpaceOf(d)][x] = roster[SpaceOf(d)][x]

\* The space of a document is a space, and was created.
LEMMA SpaceOfDoc ==
  ASSUME TypeOK, NEW d \in Docs
  PROVE  /\ SpaceOf(d) \in Spaces \cup {Legacy}
         /\ SpaceOf(d) # Legacy => SpaceOf(d) \in Spaces /\ space[SpaceOf(d)].state # "absent"
         /\ doc[d].coll # Root => doc[d].coll \in Collections
                                  /\ SpaceOf(d) = coll[doc[d].coll].space
BY SharingAssumption DEF TypeOK, SpaceOf

\* Who administers the space of a document administers the document.
LEMMA SpaceVouches ==
  ASSUME TypeOK, NEW d \in Docs, NEW p \in Subjects, SpaceOf(d) # Legacy,
         CanAdministerSpace(p, SpaceOf(d)) \/ CanRestoreSpace(p, SpaceOf(d))
  PROVE  Vouches(p, d)
BY DEF Vouches, CanAdministerDoc

LEMMA MembersUntouched ==
  ASSUME TypeOK, NEW d \in Docs, NEW x \in Subjects, NEW p \in Subjects,
         ActsOnMembers(p)
  PROVE  Untouched(x, d)
<1>1. UNCHANGED <<space, roster, coll, doc, grants>>
  BY DEF ActsOnMembers, MemberAdd, MemberRemove, MemberUpdateRole, SetRole
<1>. QED  BY <1>1 DEF Untouched, SpaceOf

\* A step that changes one space only touches the documents in it.
LEMMA SpaceElsewhere ==
  ASSUME TypeOK, NEW d \in Docs, NEW x \in Subjects, NEW s \in Spaces, NEW row,
         SetSpace(s, row), SpaceOf(d) # s
  PROVE  Untouched(x, d)
BY SpaceOfDoc DEF SetSpace, Untouched, SpaceOf, TypeOK

LEMMA RosterElsewhere ==
  ASSUME TypeOK, NEW d \in Docs, NEW x \in Subjects, NEW s \in Spaces, NEW u, NEW r,
         SetRoster(s, u, r), SpaceOf(d) # s
  PROVE  Untouched(x, d)
BY SpaceOfDoc DEF SetRoster, Untouched, SpaceOf, TypeOK

LEMMA SpacesDelegation ==
  ASSUME TypeOK, NEW d \in Docs, NEW x \in Subjects, NEW p \in Subjects,
         ActsOnSpaces(p)
  PROVE  Vouches(p, d) \/ Untouched(x, d)
<1>. PICK s \in Spaces :
       \/ SpaceArchive(p, s) \/ SpaceRestore(p, s)
       \/ \E t \in {"open", "closed"} : SpaceCreate(p, s, t) \/ SpaceUpdate(p, s, t)
       \/ \E u \in Users :
            \/ SpaceMemberRemove(p, s, u)
            \/ \E r \in GrantRoles : SpaceMemberAdd(p, s, u, r) \/ SpaceMemberUpdateRole(p, s, u, r)
  BY DEF ActsOnSpaces
<1>. SUFFICES ASSUME SpaceOf(d) # s \/ ~Vouches(p, d)
              PROVE  Vouches(p, d) \/ Untouched(x, d)
  OBVIOUS
<1>0. s # Legacy
  BY SharingAssumption
<1>1. CASE SpaceArchive(p, s) \/ \E t \in {"open", "closed"} : SpaceUpdate(p, s, t)
  <2>1. CanAdministerSpace(p, s) /\ \E row : SetSpace(s, row)
    BY <1>1 DEF SpaceArchive, SpaceUpdate
  <2>. QED  BY <2>1, <1>0, SpaceVouches, SpaceElsewhere
<1>2. CASE SpaceRestore(p, s)
  <2>1. CanRestoreSpace(p, s) /\ \E row : SetSpace(s, row)
    BY <1>2 DEF SpaceRestore
  <2>. QED  BY <2>1, <1>0, SpaceVouches, SpaceElsewhere
<1>3. CASE \E t \in {"open", "closed"} : SpaceCreate(p, s, t)
  <2>1. space[s].state = "absent" /\ \E row : SetSpace(s, row)
    BY <1>3 DEF SpaceCreate
  <2>. QED  BY <2>1, <1>0, SpaceOfDoc, SpaceElsewhere
<1>4. CASE \E u \in Users :
            \/ SpaceMemberRemove(p, s, u)
            \/ \E r \in GrantRoles : SpaceMemberAdd(p, s, u, r) \/ SpaceMemberUpdateRole(p, s, u, r)
  <2>1. CanAdministerSpace(p, s) /\ \E u, r : SetRoster(s, u, r)
    BY <1>4 DEF SpaceMemberRemove, SpaceMemberAdd, SpaceMemberUpdateRole
  <2>. QED  BY <2>1, <1>0, SpaceVouches, RosterElsewhere
<1>. QED  BY <1>1, <1>2, <1>3, <1>4

LEMMA CollectionsDelegation ==
  ASSUME TypeOK, NEW d \in Docs, NEW x \in Subjects, NEW p \in Subjects,
         doc[d].state # "absent", ActsOnCollections(p)
  PROVE  Vouches(p, d) \/ Untouched(x, d)
<1>. PICK c \in Collections :
       \/ CollectionDelete(p, c) \/ CollectionRestore(p, c)
       \/ \E s \in Spaces \cup {Legacy} :
            \/ CollectionCreate(p, c, s)
            \/ \E policy \in Policies : CollectionMove(p, c, s, policy)
  BY DEF ActsOnCollections
<1>1. ASSUME NEW row, SetColl(c, row), UNCHANGED grants,
             doc[d].coll = c => row.space = coll[c].space
      PROVE  Untouched(x, d)
  BY <1>1, SpaceOfDoc DEF SetColl, Untouched, SpaceOf, TypeOK
<1>2. CASE CollectionDelete(p, c) \/ CollectionRestore(p, c)
  <2>1. \E st \in States : SetColl(c, [coll[c] EXCEPT !.state = st]) /\ UNCHANGED grants
    BY <1>2 DEF CollectionDelete, CollectionRestore, States
  <2>. QED  BY <2>1, <1>1 DEF TypeOK
<1>3. CASE \E s \in Spaces \cup {Legacy} : CollectionCreate(p, c, s)
  <2>1. doc[d].coll # c
    BY <1>3, SharingAssumption DEF CollectionCreate, TypeOK
  <2>. QED  BY <1>3, <2>1, <1>1 DEF CollectionCreate
<1>4. ASSUME NEW s \in Spaces \cup {Legacy}, NEW policy \in Policies, CollectionMove(p, c, s, policy)
      PROVE  Vouches(p, d) \/ Untouched(x, d)
  <2>1. CASE doc[d].coll = c
    BY <1>4, <2>1 DEF CollectionMove, Vouches
  <2>2. CASE doc[d].coll # c
    <3>1. grants'[d] = grants[d] /\ \A t \in Spaces : grants'[t] = grants[t]
      BY <1>4, <2>2, SharingAssumption DEF CollectionMove, Dropping, Resources, TypeOK, Spaces
    <3>2. \E row : SetColl(c, row)
      BY <1>4 DEF CollectionMove
    <3>. QED  BY <2>2, <3>1, <3>2, SpaceOfDoc DEF SetColl, Untouched, SpaceOf, TypeOK
  <2>. QED  BY <2>1, <2>2
<1>. QED  BY <1>2, <1>3, <1>4

LEMMA DocsDelegation ==
  ASSUME TypeOK, NEW d \in Docs, NEW x \in Subjects, NEW p \in Subjects,
         doc[d].state # "absent", ActsOnDocs(p)
  PROVE  Vouches(p, d) \/ Untouched(x, d)
<1>. PICK e \in Docs :
       \/ DocDelete(p, e) \/ DocRestore(p, e)
       \/ \E c \in Collections \cup {Root} :
            \/ DocCreate(p, e, c) \/ DocMoveWithin(p, e, c)
            \/ \E policy \in Policies : DocMoveAcross(p, e, c, policy)
  BY DEF ActsOnDocs
<1>1. ASSUME NEW row, SetDoc(e, row), UNCHANGED grants,
             d = e => row.by = doc[d].by /\ BucketOf(row.coll) = SpaceOf(d)
      PROVE  Untouched(x, d)
  BY <1>1 DEF SetDoc, Untouched, SpaceOf, BucketOf, TypeOK
<1>2. CASE DocDelete(p, e) \/ DocRestore(p, e)
  <2>1. \E st \in States : SetDoc(e, [doc[e] EXCEPT !.state = st]) /\ UNCHANGED grants
    BY <1>2 DEF DocDelete, DocRestore, States
  <2>. QED  BY <2>1, <1>1 DEF TypeOK, SpaceOf, BucketOf
<1>3. CASE \E c \in Collections \cup {Root} : DocCreate(p, e, c)
  BY <1>3, <1>1 DEF DocCreate
<1>4. ASSUME NEW c \in Collections \cup {Root}, DocMoveWithin(p, e, c)
      PROVE  Untouched(x, d)
  <2>1. SetDoc(e, [doc[e] EXCEPT !.coll = c]) /\ UNCHANGED grants /\ BucketOf(c) = SpaceOf(e)
    BY <1>4 DEF DocMoveWithin
  <2>2. [doc[e] EXCEPT !.coll = c].by = doc[e].by /\ [doc[e] EXCEPT !.coll = c].coll = c
    BY DEF TypeOK
  <2>. QED  BY <2>1, <2>2, <1>1
<1>5. ASSUME NEW c \in Collections \cup {Root}, NEW policy \in Policies, DocMoveAcross(p, e, c, policy)
      PROVE  Vouches(p, d) \/ Untouched(x, d)
  <2>1. CASE d = e
    BY <1>5, <2>1 DEF DocMoveAcross, Vouches
  <2>2. CASE d # e
    <3>1. grants'[d] = grants[d] /\ \A t \in Spaces : grants'[t] = grants[t]
      BY <1>5, <2>2, SharingAssumption DEF DocMoveAcross, Dropping, Resources, TypeOK, Spaces
    <3>2. \E row : SetDoc(e, row)
      BY <1>5 DEF DocMoveAcross
    <3>. QED  BY <2>2, <3>1, <3>2, SpaceOfDoc DEF SetDoc, Untouched, SpaceOf, TypeOK
  <2>. QED  BY <2>1, <2>2
<1>. QED  BY <1>2, <1>3, <1>4, <1>5

\* A step that changes one edge touches its own document, or those in its space.
LEMMA EdgeElsewhere ==
  ASSUME TypeOK, NEW d \in Docs, NEW x \in Subjects, NEW r \in Resources, NEW y \in Subjects,
         NEW edge, SetGrant(r, y, edge), r # d, r # SpaceOf(d)
  PROVE  Untouched(x, d)
BY SpaceOfDoc DEF SetGrant, Untouched, SpaceOf, TypeOK, Resources

LEMMA GrantsDelegation ==
  ASSUME TypeOK, NEW d \in Docs, NEW x \in Subjects, NEW p \in Subjects,
         ActsOnGrants(p)
  PROVE  Vouches(p, d) \/ Untouched(x, d)
<1>. PICK y \in Subjects :
       \/ \E r \in Resources : PermissionRevoke(p, r, y)
       \/ \E e \in Docs :
            \/ DocAddGuest(p, e, y) \/ DocRemoveGuest(p, e, y)
            \/ \E r \in GrantRoles : PermissionGrantDoc(p, e, y, r)
       \/ \E s \in Spaces, r \in GrantRoles : PermissionGrantSpace(p, s, y, r)
  BY DEF ActsOnGrants
<1>1. ASSUME NEW e \in Docs, NEW edge, SetGrant(e, y, edge), CanAdministerDoc(p, e)
      PROVE  Vouches(p, d) \/ Untouched(x, d)
  <2>1. e # SpaceOf(d) \/ SpaceOf(d) = Legacy
    BY SpaceOfDoc, SharingAssumption DEF Spaces
  <2>2. CASE e = d
    BY <1>1, <2>2 DEF Vouches
  <2>3. CASE e # d /\ SpaceOf(d) = Legacy
    BY <1>1, <2>3 DEF SetGrant, Untouched, SpaceOf, TypeOK, Resources
  <2>4. CASE e # d /\ e # SpaceOf(d)
    BY <1>1, <2>4, EdgeElsewhere DEF Resources
  <2>. QED  BY <2>1, <2>2, <2>3, <2>4
<1>2. ASSUME NEW s \in Spaces, NEW edge, SetGrant(s, y, edge), CanAdministerSpace(p, s)
      PROVE  Vouches(p, d) \/ Untouched(x, d)
  <2>1. s # d /\ s # Legacy
    BY SharingAssumption DEF Spaces
  <2>. QED  BY <1>2, <2>1, SpaceVouches, EdgeElsewhere DEF Resources
<1>3. ASSUME NEW r \in Resources, PermissionRevoke(p, r, y)
      PROVE  Vouches(p, d) \/ Untouched(x, d)
  <2>1. CASE r \in Docs
    BY <1>3, <2>1, <1>1 DEF PermissionRevoke
  <2>2. CASE r \notin Docs
    BY <1>3, <2>2, <1>2 DEF PermissionRevoke, Resources
  <2>. QED  BY <2>1, <2>2
<1>4. ASSUME NEW e \in Docs,
             \/ DocAddGuest(p, e, y) \/ DocRemoveGuest(p, e, y)
             \/ \E r \in GrantRoles : PermissionGrantDoc(p, e, y, r)
      PROVE  Vouches(p, d) \/ Untouched(x, d)
  BY <1>4, <1>1 DEF DocAddGuest, DocRemoveGuest, PermissionGrantDoc
<1>5. ASSUME NEW s \in Spaces, NEW r \in GrantRoles, PermissionGrantSpace(p, s, y, r)
      PROVE  Vouches(p, d) \/ Untouched(x, d)
  BY <1>5, <1>2 DEF PermissionGrantSpace
<1>. QED  BY <1>3, <1>4, <1>5

\* Nobody touches what decides the access to a document but who vouches for it.
LEMMA Delegation ==
  ASSUME TypeOK, NEW d \in Docs, NEW x \in Subjects, NEW p \in Subjects,
         doc[d].state # "absent", Acts(p)
  PROVE  Vouches(p, d) \/ Untouched(x, d)
BY MembersUntouched, SpacesDelegation, CollectionsDelegation, DocsDelegation, GrantsDelegation
   DEF Acts

-----------------------------------------------------------------------------
\* The ladder reads no other rows than those.
LEMMA LadderReads ==
  ASSUME TypeOK, NEW d \in Docs, NEW x \in Subjects, Untouched(x, d),
         x \in Users => role'[x] = role[x]
  PROVE  /\ CanRead(x, d)' <=> CanRead(x, d)
         /\ CanAdministerDoc(x, d)' <=> CanAdministerDoc(x, d)
<1>1. PICK s \in Spaces \cup {Legacy} : s = SpaceOf(d)
  BY SpaceOfDoc
<1>2. SpaceOf(d)' = s
  BY <1>1 DEF Untouched
<1>3. AdminTier(x)' <=> AdminTier(x)
  BY DEF AdminTier
<1>4. ASSUME s # Legacy
      PROVE  /\ HasBaselineReach(x, s)' <=> HasBaselineReach(x, s)
             /\ CanAdministerSpace(x, s)' <=> CanAdministerSpace(x, s)
  <2>1. space'[s] = space[s] /\ grants'[s][x] = grants[s][x]
        /\ (x \in Users => roster'[s][x] = roster[s][x])
    BY <1>1, <1>4 DEF Untouched
  <2>2. LiveSpace(s)' <=> LiveSpace(s)
    BY <2>1 DEF LiveSpace
  <2>3. BaselineReach(x, s)' <=> BaselineReach(x, s)
    BY <2>1 DEF BaselineReach
  <2>4. SpaceOwnerTierBody(x, s, TRUE)' <=> SpaceOwnerTierBody(x, s, TRUE)
    BY <2>1, <1>3 DEF SpaceOwnerTierBody
  <2>. QED  BY <2>2, <2>3, <2>4 DEF HasBaselineReach, CanAdministerSpace
<1>5. CanRead(x, d)' <=> CanRead(x, d)
  BY <1>1, <1>2, <1>4 DEF CanRead, Untouched
<1>6. CanAdministerDoc(x, d)' <=> CanAdministerDoc(x, d)
  BY <1>1, <1>2, <1>3, <1>4 DEF CanAdministerDoc, Untouched
<1>. QED  BY <1>5, <1>6

\* The same for the reach of a grantee.
LEMMA CrossingReads ==
  ASSUME TypeOK, NEW d \in Docs, NEW u \in Users, Untouched(u, d)
  PROVE  Crossing(d, u)' <=> Crossing(d, u)
<1>1. PICK s \in Spaces \cup {Legacy} : s = SpaceOf(d)
  BY SpaceOfDoc
<1>2. SpaceOf(d)' = s
  BY <1>1 DEF Untouched
<1>3. s # Legacy => (BaselineReach(u, s)' <=> BaselineReach(u, s))
  BY <1>1 DEF Untouched, BaselineReach, Subjects
<1>. QED  BY <1>1, <1>2, <1>3 DEF Crossing, Untouched

\* Nobody else's step means that every row that matters may have changed.
LEMMA NotVouchedFor ==
  ASSUME TypeOK, NEW d \in Docs, NEW x \in Subjects, doc[d].state # "absent"
  PROVE  VouchedFor(d) \/ Untouched(x, d)
BY Delegation DEF VouchedFor

\* An unmarked edge that comes into being is within its subject's reach: only
\* permission.grant writes one, and only to a subject it found to have standing.
LEMMA NewEdgesAreWithin ==
  ASSUME TypeOK, NEW d \in Docs, NEW u \in Users, Next,
         grants[d][u] \notin GrantRoles, grants'[d][u] \in GrantRoles
  PROVE  ~Crossing(d, u)'
<1>. PICK p \in Subjects : Acts(p)
  BY DEF Next
<1>1. d \in Resources /\ u \in Subjects /\ "none" \notin GrantRoles /\ "guest" \notin GrantRoles
  BY DEF Resources, Subjects, GrantRoles
<1>2. ~ActsOnMembers(p) /\ ~ActsOnSpaces(p)
  BY DEF ActsOnMembers, MemberAdd, MemberRemove, MemberUpdateRole, SetRole,
         ActsOnSpaces, SpaceArchive, SpaceRestore, SpaceCreate, SpaceUpdate, SetSpace,
         SpaceMemberRemove, SpaceMemberAdd, SpaceMemberUpdateRole, SetRoster
<1>3. ASSUME NEW ds, NEW policy, grants' = Dropping(ds, policy)
      PROVE  FALSE
  BY <1>1, <1>3 DEF Dropping
<1>4. ~ActsOnCollections(p)
  BY <1>3 DEF ActsOnCollections, CollectionDelete, CollectionRestore, CollectionCreate, CollectionMove
<1>5. ~ActsOnDocs(p)
  BY <1>3 DEF ActsOnDocs, DocDelete, DocRestore, DocCreate, DocMoveWithin, DocMoveAcross
<1>6. ASSUME NEW r \in Resources, NEW y \in Subjects, NEW edge, SetGrant(r, y, edge)
      PROVE  r = d /\ y = u /\ edge \in GrantRoles
  BY <1>1, <1>6 DEF SetGrant, TypeOK
<1>7. PICK r \in GrantRoles : PermissionGrantDoc(p, d, u, r)
  <2>1. ActsOnGrants(p)
    BY <1>2, <1>4, <1>5 DEF Acts
  <2>2. ASSUME NEW y \in Subjects, NEW r \in Resources, PermissionRevoke(p, r, y)
        PROVE  FALSE
    BY <2>2, <1>1, <1>6 DEF PermissionRevoke
  <2>3. ASSUME NEW y \in Subjects, NEW e \in Docs, DocAddGuest(p, e, y) \/ DocRemoveGuest(p, e, y)
        PROVE  FALSE
    BY <2>3, <1>1, <1>6 DEF DocAddGuest, DocRemoveGuest, Resources
  <2>4. ASSUME NEW y \in Subjects, NEW s \in Spaces, NEW r \in GrantRoles, PermissionGrantSpace(p, s, y, r)
        PROVE  FALSE
    BY <2>4, <1>1, <1>6, SharingAssumption DEF PermissionGrantSpace, Resources, Spaces
  <2>5. ASSUME NEW y \in Subjects, NEW e \in Docs, NEW r \in GrantRoles, PermissionGrantDoc(p, e, y, r)
        PROVE  e = d /\ y = u
    BY <2>5, <1>6 DEF PermissionGrantDoc, Resources
  <2>. QED  BY <2>1, <2>2, <2>3, <2>4, <2>5 DEF ActsOnGrants
<1>8. PICK s \in Spaces \cup {Legacy} : s = SpaceOf(d)
  BY SpaceOfDoc
<1>9. SetGrant(d, u, r) /\ CanPlaceIn(u, s)
  BY <1>7, <1>8 DEF PermissionGrantDoc
<1>10. SpaceOf(d)' = s
  BY <1>8, <1>9 DEF SetGrant, SpaceOf
<1>11. s # Legacy => s # d /\ BaselineReach(u, s)
  BY <1>9, SharingAssumption DEF CanPlaceIn, HasBaselineReach, Spaces
<1>12. s # Legacy => BaselineReach(u, s)'
  BY <1>9, <1>11, <1>1 DEF BaselineReach, SetGrant, TypeOK, Resources
<1>. QED  BY <1>10, <1>12 DEF Crossing

-----------------------------------------------------------------------------
\* Rows keep their types and their relations to each other.
LEMMA TypesInit == Init => TypeOK
BY SharingAssumption DEF Init, TypeOK, States, Lanes, GrantRoles, Resources, Spaces, LiveSpace, LiveCollection

LEMMA TypesMembers ==
  ASSUME TypeOK, NEW p \in Subjects, ActsOnMembers(p)
  PROVE  TypeOK'
<1>1. PICK u \in Users, r \in Roles \cup {"none"} : SetRole(u, r)
  BY DEF ActsOnMembers, MemberAdd, MemberRemove, MemberUpdateRole
<1>2. role' \in [Users -> Roles \cup {"none"}]
  BY <1>1 DEF SetRole, TypeOK
<1>. QED  BY <1>1, <1>2 DEF SetRole, TypeOK, LiveSpace, LiveCollection

LEMMA TypesSpaces ==
  ASSUME TypeOK, NEW p \in Subjects, ActsOnSpaces(p)
  PROVE  TypeOK'
<1>. PICK s \in Spaces :
       \/ SpaceArchive(p, s) \/ SpaceRestore(p, s)
       \/ \E t \in {"open", "closed"} : SpaceCreate(p, s, t) \/ SpaceUpdate(p, s, t)
       \/ \E u \in Users :
            \/ SpaceMemberRemove(p, s, u)
            \/ \E r \in GrantRoles : SpaceMemberAdd(p, s, u, r) \/ SpaceMemberUpdateRole(p, s, u, r)
  BY DEF ActsOnSpaces
<1>1. ASSUME NEW row \in [state : States, type : {"open", "closed"}], SetSpace(s, row),
             row.state # "absent",
             s \in Personal => row.type = "closed",
             row.state # "live" =>
               /\ \A c \in Collections : coll[c].space = s => coll[c].state # "live"
               /\ \A u \in Users : roster[s][u] = "none"
      PROVE  TypeOK'
  <2>1. space' = [space EXCEPT ![s] = row] /\ UNCHANGED <<role, roster, coll, doc, grants>>
    BY <1>1 DEF SetSpace
  <2>2. space' \in [Spaces -> [state : States, type : {"open", "closed"}]]
    BY <2>1, <1>1 DEF TypeOK
  <2>3. \A t \in Spaces : space'[t] = IF t = s THEN row ELSE space[t]
    BY <2>1 DEF TypeOK
  <2>4. \A t \in Personal : space'[t].type = "closed"
    BY <2>3, <1>1 DEF TypeOK, Spaces
  <2>5. \A t \in Spaces : LiveSpace(t)' <=> IF t = s THEN row.state = "live" ELSE LiveSpace(t)
    BY <2>3 DEF LiveSpace
  <2>6. \A t \in Spaces, u \in Users : roster'[t][u] # "none" => t \in Teams /\ LiveSpace(t)'
    BY <2>1, <2>5, <1>1 DEF TypeOK
  <2>7. ASSUME NEW c \in Collections, coll[c].space # Legacy
        PROVE  /\ space'[coll[c].space].state # "absent"
               /\ coll[c].state = "live" => coll[c].space \in Spaces /\ space'[coll[c].space].state = "live"
    <3>1. PICK t \in Spaces : t = coll[c].space
      BY <2>7 DEF TypeOK
    <3>2. space'[t].state # "absent"
      BY <3>1, <2>7, <2>3, <1>1 DEF TypeOK
    <3>3. coll[c].state = "live" => space'[t].state = "live"
      BY <3>1, <2>7, <2>3, <1>1 DEF TypeOK, LiveSpace
    <3>. QED  BY <3>1, <3>2, <3>3
  <2>8. \A c \in Collections :
         /\ coll'[c].space # Legacy => space'[coll'[c].space].state # "absent"
         /\ coll'[c].state = "live" /\ coll'[c].space # Legacy =>
              coll'[c].space \in Spaces /\ space'[coll'[c].space].state = "live"
    BY <2>1, <2>7
  <2>9. \A t \in Spaces, u \in Users : roster'[t][u] # "none" => t \in Teams /\ space'[t].state = "live"
    BY <2>6 DEF LiveSpace
  <2>. QED  BY <2>1, <2>2, <2>4, <2>8, <2>9 DEF TypeOK, LiveCollection, LiveSpace
<1>2. CASE SpaceArchive(p, s)
  <2>. DEFINE row == [space[s] EXCEPT !.state = "dead"]
  <2>1. row \in [state : States, type : {"open", "closed"}] /\ row.state = "dead" /\ row.type = space[s].type
    BY DEF TypeOK, States
  <2>2. s \in Personal => row.type = "closed"
    BY <2>1 DEF TypeOK
  <2>. QED  BY <1>2, <2>1, <2>2, <1>1 DEF SpaceArchive
<1>3. CASE SpaceRestore(p, s)
  <2>. DEFINE row == [space[s] EXCEPT !.state = "live"]
  <2>1. row \in [state : States, type : {"open", "closed"}] /\ row.state = "live" /\ row.type = space[s].type
    BY DEF TypeOK, States
  <2>2. s \in Personal => row.type = "closed"
    BY <2>1 DEF TypeOK
  <2>. QED  BY <1>3, <2>1, <2>2, <1>1 DEF SpaceRestore
<1>4. ASSUME NEW t \in {"open", "closed"}, SpaceCreate(p, s, t) \/ SpaceUpdate(p, s, t)
      PROVE  TypeOK'
  <2>1. s \notin Personal
    BY <1>4, SharingAssumption DEF SpaceCreate, SpaceUpdate
  <2>2. [state |-> "live", type |-> t] \in [state : States, type : {"open", "closed"}]
    BY DEF States
  <2>3. CASE SpaceCreate(p, s, t)
    BY <2>3, <2>1, <2>2, <1>1 DEF SpaceCreate
  <2>4. CASE SpaceUpdate(p, s, t)
    <3>. DEFINE row == [space[s] EXCEPT !.type = t]
    <3>1. row \in [state : States, type : {"open", "closed"}] /\ row.state = space[s].state
      BY DEF TypeOK
    <3>2. space[s].state = "live"
      BY <2>4 DEF SpaceUpdate, CanAdministerSpace, LiveSpace
    <3>. QED  BY <2>4, <2>1, <3>1, <3>2, <1>1 DEF SpaceUpdate
  <2>. QED  BY <1>4, <2>3, <2>4
<1>5. ASSUME NEW u \in Users, NEW r \in GrantRoles \cup {"none"}, SetRoster(s, u, r),
             r # "none" => s \in Teams /\ LiveSpace(s)
      PROVE  TypeOK'
  <2>1. roster' = [roster EXCEPT ![s][u] = r] /\ UNCHANGED <<role, space, coll, doc, grants>>
    BY <1>5 DEF SetRoster
  <2>2. roster' \in [Spaces -> [Users -> GrantRoles \cup {"none"}]]
    BY <2>1 DEF TypeOK
  <2>3. \A t \in Spaces, v \in Users : roster'[t][v] # "none" => t \in Teams /\ LiveSpace(t)
    BY <2>1, <1>5 DEF TypeOK
  <2>. QED  BY <2>1, <2>2, <2>3 DEF TypeOK, LiveSpace, LiveCollection
<1>6. ASSUME NEW u \in Users,
             \/ SpaceMemberRemove(p, s, u)
             \/ \E r \in GrantRoles : SpaceMemberAdd(p, s, u, r) \/ SpaceMemberUpdateRole(p, s, u, r)
      PROVE  TypeOK'
  BY <1>6, <1>5 DEF SpaceMemberRemove, SpaceMemberAdd, SpaceMemberUpdateRole, CanAdministerSpace
<1>. QED  BY <1>2, <1>3, <1>4, <1>6

LEMMA TypesDropping ==
  ASSUME TypeOK, NEW ds \in SUBSET Docs, NEW policy, grants' = Dropping(ds, policy)
  PROVE  /\ grants' \in [Resources -> [Subjects -> Lanes]]
         /\ \A r \in Resources : grants'[r] = grants[r] \/ \A x \in Subjects : grants'[r][x] = "none"
<1>1. "none" \in Lanes
  BY DEF Lanes
<1>. QED  BY <1>1 DEF TypeOK, Dropping

\* Grants that stay or go as a whole leave no guest on a space, nor an edge on
\* a document that is absent.
LEMMA DroppingKeeps ==
  ASSUME TypeOK,
         \A r \in Resources : grants'[r] = grants[r] \/ \A x \in Subjects : grants'[r][x] = "none"
  PROVE  /\ \A s \in Spaces, x \in Subjects : grants'[s][x] # "guest"
         /\ \A d \in Docs : doc[d].state = "absent" => \A x \in Subjects : grants'[d][x] = "none"
<1>1. ASSUME NEW s \in Spaces, NEW x \in Subjects
      PROVE  grants'[s][x] # "guest"
  <2>1. s \in Resources /\ grants[s][x] # "guest"
    BY DEF Resources, TypeOK
  <2>. QED  BY <2>1
<1>2. ASSUME NEW d \in Docs, NEW x \in Subjects, doc[d].state = "absent"
      PROVE  grants'[d][x] = "none"
  <2>1. d \in Resources /\ grants[d][x] = "none"
    BY <1>2 DEF Resources, TypeOK
  <2>. QED  BY <2>1
<1>. QED  BY <1>1, <1>2

LEMMA TypesCollections ==
  ASSUME TypeOK, NEW p \in Subjects, ActsOnCollections(p)
  PROVE  TypeOK'
<1>. PICK c \in Collections :
       \/ CollectionDelete(p, c) \/ CollectionRestore(p, c)
       \/ \E s \in Spaces \cup {Legacy} :
            \/ CollectionCreate(p, c, s)
            \/ \E policy \in Policies : CollectionMove(p, c, s, policy)
  BY DEF ActsOnCollections
<1>1. ASSUME NEW row \in [state : States, space : Spaces \cup {Legacy}], SetColl(c, row),
             grants' \in [Resources -> [Subjects -> Lanes]],
             \A r \in Resources : grants'[r] = grants[r] \/ \A x \in Subjects : grants'[r][x] = "none",
             row.state # "absent",
             row.space # Legacy => space[row.space].state # "absent",
             row.state = "live" /\ row.space # Legacy => LiveSpace(row.space),
             row.state = "live" \/ \A d \in Docs : doc[d].coll = c => doc[d].state # "live"
      PROVE  TypeOK'
  <2>1. coll' = [coll EXCEPT ![c] = row] /\ UNCHANGED <<role, space, roster, doc>>
    BY <1>1 DEF SetColl
  <2>2. coll' \in [Collections -> [state : States, space : Spaces \cup {Legacy}]]
    BY <2>1 DEF TypeOK
  <2>3. \A b \in Collections : coll'[b] = IF b = c THEN row ELSE coll[b]
    BY <2>1 DEF TypeOK
  <2>4. \A s \in Spaces : LiveSpace(s)' <=> LiveSpace(s)
    BY <2>1 DEF LiveSpace
  <2>5. \A b \in Collections :
         /\ coll'[b].space # Legacy => space'[coll'[b].space].state # "absent"
         /\ coll'[b].state = "live" /\ coll'[b].space # Legacy => LiveSpace(coll'[b].space)
    BY <1>1, <2>1, <2>3 DEF TypeOK
  <2>6. ASSUME NEW d \in Docs
        PROVE  /\ doc[d].state = "live" => (doc[d].coll \in Collections => coll'[doc[d].coll].state = "live")
               /\ doc[d].coll # Root => coll'[doc[d].coll].state # "absent"
    <3>1. CASE doc[d].coll = c
      <4>1. coll'[doc[d].coll] = row
        BY <3>1, <2>3
      <4>. QED  BY <3>1, <4>1, <2>1, <1>1 DEF LiveCollection
    <3>2. CASE doc[d].coll # c
      <4>1. doc[d].coll \in Collections => coll'[doc[d].coll] = coll[doc[d].coll]
        BY <3>2, <2>3
      <4>2. doc[d].coll \in Collections \cup {Root}
        BY DEF TypeOK
      <4>3. /\ doc[d].state = "live" => LiveCollection(doc[d].coll)
            /\ doc[d].coll # Root => coll[doc[d].coll].state # "absent"
        BY DEF TypeOK
      <4>. QED  BY <4>1, <4>2, <4>3, <2>1 DEF LiveCollection
    <3>. QED  BY <3>1, <3>2
  <2>7. /\ \A s \in Spaces, x \in Subjects : grants'[s][x] # "guest"
        /\ \A d \in Docs : doc[d].state = "absent" => \A x \in Subjects : grants'[d][x] = "none"
    BY <1>1, DroppingKeeps
  <2>8. \A d \in Docs :
         /\ doc'[d].state = "live" => (doc'[d].coll \in Collections => coll'[doc'[d].coll].state = "live")
         /\ doc'[d].coll # Root => coll'[doc'[d].coll].state # "absent"
         /\ doc'[d].state = "absent" => doc'[d].coll = Root /\ \A x \in Subjects : grants'[d][x] = "none"
    BY <2>1, <2>6, <2>7 DEF TypeOK, LiveCollection
  <2>. QED  BY <2>1, <2>2, <2>5, <2>7, <2>8, <1>1 DEF TypeOK, LiveSpace, LiveCollection
<1>2. ASSUME UNCHANGED grants
      PROVE  /\ grants' \in [Resources -> [Subjects -> Lanes]]
             /\ \A r \in Resources : grants'[r] = grants[r] \/ \A x \in Subjects : grants'[r][x] = "none"
  BY <1>2 DEF TypeOK
<1>3. CASE CollectionDelete(p, c)
  <2>. DEFINE row == [coll[c] EXCEPT !.state = "dead"]
  <2>1. row \in [state : States, space : Spaces \cup {Legacy}] /\ row.state = "dead" /\ row.space = coll[c].space
    BY DEF TypeOK, States
  <2>. QED  BY <1>3, <2>1, <1>1, <1>2 DEF CollectionDelete, TypeOK
<1>4. CASE CollectionRestore(p, c)
  <2>. DEFINE row == [coll[c] EXCEPT !.state = "live"]
  <2>1. row \in [state : States, space : Spaces \cup {Legacy}] /\ row.state = "live" /\ row.space = coll[c].space
    BY DEF TypeOK, States
  <2>. QED  BY <1>4, <2>1, <1>1, <1>2 DEF CollectionRestore, TypeOK
<1>5. ASSUME NEW s \in Spaces \cup {Legacy}, CanPlaceIn(p, s)
      PROVE  /\ [state |-> "live", space |-> s] \in [state : States, space : Spaces \cup {Legacy}]
             /\ s # Legacy => LiveSpace(s) /\ space[s].state # "absent"
  BY <1>5 DEF CanPlaceIn, HasBaselineReach, LiveSpace, States
<1>6. ASSUME NEW s \in Spaces \cup {Legacy}, CollectionCreate(p, c, s)
      PROVE  TypeOK'
  BY <1>6, <1>5, <1>1, <1>2 DEF CollectionCreate
<1>7. ASSUME NEW s \in Spaces \cup {Legacy}, NEW policy \in Policies, CollectionMove(p, c, s, policy)
      PROVE  TypeOK'
  <2>1. \E ds \in SUBSET Docs : grants' = Dropping(ds, policy)
    BY <1>7 DEF CollectionMove
  <2>. QED  BY <1>7, <2>1, TypesDropping, <1>5, <1>1 DEF CollectionMove
<1>. QED  BY <1>3, <1>4, <1>6, <1>7

LEMMA TypesDocs ==
  ASSUME TypeOK, NEW p \in Subjects, ActsOnDocs(p)
  PROVE  TypeOK'
<1>. PICK e \in Docs :
       \/ DocDelete(p, e) \/ DocRestore(p, e)
       \/ \E c \in Collections \cup {Root} :
            \/ DocCreate(p, e, c) \/ DocMoveWithin(p, e, c)
            \/ \E policy \in Policies : DocMoveAcross(p, e, c, policy)
  BY DEF ActsOnDocs
<1>. DEFINE Rows == [state : States, by : Users \cup {NoOne}, coll : Collections \cup {Root}]
<1>1. ASSUME NEW row \in Rows, SetDoc(e, row),
             grants' \in [Resources -> [Subjects -> Lanes]],
             \A r \in Resources : grants'[r] = grants[r] \/ \A x \in Subjects : grants'[r][x] = "none",
             row.state # "absent",
             row.state = "live" => LiveCollection(row.coll),
             row.coll # Root => coll[row.coll].state # "absent"
      PROVE  TypeOK'
  <2>1. doc' = [doc EXCEPT ![e] = row] /\ UNCHANGED <<role, space, roster, coll>>
    BY <1>1 DEF SetDoc
  <2>2. doc' \in [Docs -> Rows]
    BY <2>1 DEF TypeOK
  <2>3. \A d \in Docs : doc'[d] = IF d = e THEN row ELSE doc[d]
    BY <2>1 DEF TypeOK
  <2>4. ASSUME NEW d \in Docs
        PROVE  /\ doc'[d].state = "live" => LiveCollection(doc'[d].coll)
               /\ doc'[d].coll # Root => coll[doc'[d].coll].state # "absent"
    <3>1. CASE d = e
      BY <3>1, <2>3, <1>1
    <3>2. CASE d # e
      BY <3>2, <2>3 DEF TypeOK
    <3>. QED  BY <3>1, <3>2
  <2>5. /\ \A s \in Spaces, x \in Subjects : grants'[s][x] # "guest"
        /\ \A d \in Docs : doc[d].state = "absent" => \A x \in Subjects : grants'[d][x] = "none"
    BY <1>1, DroppingKeeps
  <2>6. \A d \in Docs : doc'[d].state = "absent" =>
          doc'[d].coll = Root /\ \A x \in Subjects : grants'[d][x] = "none"
    <3>. SUFFICES ASSUME NEW d \in Docs, doc'[d].state = "absent"
                  PROVE  doc'[d].coll = Root /\ \A x \in Subjects : grants'[d][x] = "none"
      OBVIOUS
    <3>1. d # e /\ doc'[d] = doc[d]
      BY <2>3, <1>1
    <3>. QED  BY <3>1, <2>5 DEF TypeOK
  <2>7. \A d \in Docs :
         /\ doc'[d].state = "live" => (doc'[d].coll \in Collections => coll'[doc'[d].coll].state = "live")
         /\ doc'[d].coll # Root => coll'[doc'[d].coll].state # "absent"
    BY <2>1, <2>4 DEF LiveCollection
  <2>. QED  BY <2>1, <2>2, <2>5, <2>6, <2>7, <1>1 DEF TypeOK, LiveSpace, LiveCollection
<1>. doc[e] \in Rows /\ {"live", "dead"} \subseteq States
  BY DEF TypeOK, States
<1>2. ASSUME UNCHANGED grants
      PROVE  /\ grants' \in [Resources -> [Subjects -> Lanes]]
             /\ \A r \in Resources : grants'[r] = grants[r] \/ \A x \in Subjects : grants'[r][x] = "none"
  BY <1>2 DEF TypeOK
<1>3. ASSUME NEW c \in Collections \cup {Root}, LiveCollection(c)
      PROVE  c # Root => coll[c].state # "absent"
  BY <1>3 DEF LiveCollection
<1>4. CASE DocDelete(p, e)
  <2>. DEFINE row == [doc[e] EXCEPT !.state = "dead"]
  <2>1. row \in Rows /\ row.state = "dead" /\ row.coll = doc[e].coll
    OBVIOUS
  <2>. QED  BY <1>4, <2>1, <1>1, <1>2 DEF DocDelete, TypeOK
<1>5. CASE DocRestore(p, e)
  <2>. DEFINE row == [doc[e] EXCEPT !.state = "live"]
  <2>1. row \in Rows /\ row.state = "live" /\ row.coll = doc[e].coll
    OBVIOUS
  <2>. QED  BY <1>5, <2>1, <1>1, <1>2 DEF DocRestore, TypeOK
<1>6. ASSUME NEW c \in Collections \cup {Root}, DocCreate(p, e, c)
      PROVE  TypeOK'
  <2>. DEFINE row == [state |-> "live", by |-> IF p \in Agents THEN OwnerOf[p] ELSE p, coll |-> c]
  <2>1. row \in Rows
    BY SharingAssumption DEF States, Subjects
  <2>. QED  BY <1>6, <2>1, <1>1, <1>2, <1>3 DEF DocCreate
<1>7. ASSUME NEW c \in Collections \cup {Root}
      PROVE  LET row == [doc[e] EXCEPT !.coll = c]
             IN  row \in Rows /\ row.state = doc[e].state /\ row.coll = c
  OBVIOUS
<1>8. ASSUME NEW c \in Collections \cup {Root}, DocMoveWithin(p, e, c)
      PROVE  TypeOK'
  BY <1>8, <1>7, <1>1, <1>2, <1>3 DEF DocMoveWithin
<1>9. ASSUME NEW c \in Collections \cup {Root}, NEW policy \in Policies, DocMoveAcross(p, e, c, policy)
      PROVE  TypeOK'
  <2>1. grants' = Dropping({e}, policy)
    BY <1>9 DEF DocMoveAcross
  <2>. QED  BY <1>9, <2>1, TypesDropping, <1>7, <1>1, <1>3 DEF DocMoveAcross
<1>. QED  BY <1>4, <1>5, <1>6, <1>8, <1>9

LEMMA TypesGrants ==
  ASSUME TypeOK, NEW p \in Subjects, ActsOnGrants(p)
  PROVE  TypeOK'
<1>. PICK y \in Subjects :
       \/ \E r \in Resources : PermissionRevoke(p, r, y)
       \/ \E e \in Docs :
            \/ DocAddGuest(p, e, y) \/ DocRemoveGuest(p, e, y)
            \/ \E r \in GrantRoles : PermissionGrantDoc(p, e, y, r)
       \/ \E s \in Spaces, r \in GrantRoles : PermissionGrantSpace(p, s, y, r)
  BY DEF ActsOnGrants
<1>1. ASSUME NEW r \in Resources, NEW edge \in Lanes, SetGrant(r, y, edge),
             edge # "guest" \/ r \in Docs,
             edge = "none" \/ r \in Spaces \/ doc[r].state # "absent"
      PROVE  TypeOK'
  <2>1. grants' = [grants EXCEPT ![r][y] = edge] /\ UNCHANGED <<role, space, roster, coll, doc>>
    BY <1>1 DEF SetGrant
  <2>2. grants' \in [Resources -> [Subjects -> Lanes]]
    BY <2>1 DEF TypeOK
  <2>3. \A s \in Spaces, x \in Subjects : grants'[s][x] # "guest"
    BY <2>1, <1>1, SharingAssumption DEF TypeOK, Resources, Spaces
  <2>4. \A d \in Docs : doc[d].state = "absent" => \A x \in Subjects : grants'[d][x] = "none"
    BY <2>1, <1>1, SharingAssumption DEF TypeOK, Resources, Spaces
  <2>. QED  BY <2>1, <2>2, <2>3, <2>4 DEF TypeOK, LiveSpace, LiveCollection
<1>2. GrantRoles \subseteq Lanes /\ "guest" \notin GrantRoles /\ "guest" \in Lanes /\ "none" \in Lanes
  BY DEF Lanes, GrantRoles
<1>3. ASSUME NEW r \in Resources, PermissionRevoke(p, r, y)
      PROVE  TypeOK'
  BY <1>3, <1>1, <1>2 DEF PermissionRevoke
<1>4. ASSUME NEW e \in Docs,
             \/ DocAddGuest(p, e, y) \/ DocRemoveGuest(p, e, y)
             \/ \E r \in GrantRoles : PermissionGrantDoc(p, e, y, r)
      PROVE  TypeOK'
  BY <1>4, <1>1, <1>2 DEF DocAddGuest, DocRemoveGuest, PermissionGrantDoc, Resources
<1>5. ASSUME NEW s \in Spaces, NEW r \in GrantRoles, PermissionGrantSpace(p, s, y, r)
      PROVE  TypeOK'
  BY <1>5, <1>1, <1>2 DEF PermissionGrantSpace, Resources
<1>. QED  BY <1>3, <1>4, <1>5

-----------------------------------------------------------------------------
\* Rows keep their types in every reachable state: what the handlers store
\* about spaces, collections, documents and edges stays mutually consistent.
THEOREM SharingTypes == Spec => []TypeOK
<1>1. TypeOK /\ [Next]_vars => TypeOK'
  <2>1. ASSUME TypeOK, Next  PROVE TypeOK'
    BY <2>1, TypesMembers, TypesSpaces, TypesCollections, TypesDocs, TypesGrants DEF Next, Acts
  <2>2. ASSUME TypeOK, UNCHANGED vars  PROVE TypeOK'
    BY <2>2 DEF vars, TypeOK, LiveSpace, LiveCollection
  <2>. QED  BY <2>1, <2>2
<1>. QED  BY TypesInit, <1>1, PTL DEF Spec

\* Access to a document changes by the act of someone who vouches for it only,
\* whatever the workspaces, spaces, documents and grants.
THEOREM Delegated == Spec => AccessIsDelegated
<1>. DEFINE A == \A d \in Docs : doc[d].state # "absent" /\ AccessChanges(d) => VouchedFor(d)
<1>1. TypeOK => A
  <2>. SUFFICES ASSUME TypeOK, NEW d \in Docs, doc[d].state # "absent", ~VouchedFor(d),
                       NEW x \in Subjects, x \in Users => role'[x] = role[x]
                PROVE  /\ CanRead(x, d)' <=> CanRead(x, d)
                       /\ CanAdministerDoc(x, d)' <=> CanAdministerDoc(x, d)
    BY DEF AccessChanges
  <2>. QED  BY NotVouchedFor, LadderReads
<1>. QED  BY SharingTypes, <1>1, PTL DEF AccessIsDelegated

\* No unmarked edge comes to cross the boundary of a space but by the act of
\* someone who vouches for the document, and none is made across it.
THEOREM CrossingsVouched == Spec => CrossingsAreVouchedFor
<1>. DEFINE A == \A d \in Docs, u \in Users :
       Crossing(d, u)' /\ ~Crossing(d, u) => grants[d][u] \in GrantRoles /\ VouchedFor(d)
<1>1. TypeOK /\ [Next]_vars => (A \/ UNCHANGED vars)
  <2>. SUFFICES ASSUME TypeOK, Next, NEW d \in Docs, NEW u \in Users,
                       Crossing(d, u)', ~Crossing(d, u)
                PROVE  grants[d][u] \in GrantRoles /\ VouchedFor(d)
    OBVIOUS
  <2>1. grants[d][u] \in GrantRoles
    BY NewEdgesAreWithin DEF Crossing
  <2>2. doc[d].state # "absent" /\ u \in Subjects
    BY <2>1 DEF TypeOK, GrantRoles, Subjects
  <2>. QED  BY <2>1, <2>2, NotVouchedFor, CrossingReads
<1>. QED  BY SharingTypes, <1>1, PTL DEF Spec, CrossingsAreVouchedFor
=============================================================================
