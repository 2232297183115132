-------------------------------- MODULE Sharing --------------------------------
(***************************************************************************)
(* Who may read and who may administer a document: the ladder that every   *)
(* handler evaluates (acl/ceiling.ts) over the rows of workspace members,  *)
(* spaces, rosters, collections, documents and grants, and every           *)
(* capability that changes one of these rows.                              *)
(*                                                                         *)
(* Each capability is one step: its rows are read and written in one       *)
(* serializable transaction (Identity has the overlapping ones).  Of the   *)
(* tree of collections, whose rows all carry the space of their root       *)
(* (Lifecycle proves that), only that space matters here: a collection     *)
(* stands for a whole subtree, its trashed part included.                  *)
(***************************************************************************)
EXTENDS Naturals, FiniteSets

CONSTANTS
  Users, Agents,
  OwnerOf,               \* the human an agent's documents are attributed to
  Teams, Personal,       \* keys of spaces of either kind
  PersonalOwner,         \* owner_user_id of a personal space
  Collections, Docs,
  Roles,                 \* workspace roles
  Founder,               \* the user the workspace was created by
  Root, Legacy,          \* no collection, no space
  NoOne,
  MaxRows,               \* bound: subjects with a row on documents, and on spaces
  Holders                \* bound: who may get a row on a space

Subjects == Users \cup Agents
Spaces == Teams \cup Personal
Resources == Docs \cup Spaces
GrantRoles == {"owner", "view"}     \* edit and comment confer what view does here
Lanes == {"none", "guest"} \cup GrantRoles   \* no edge, is_guest = 1, is_guest = 0

ASSUME SharingAssumption ==
  /\ Users \cap Agents = {} /\ Teams \cap Personal = {} /\ Docs \cap Spaces = {}
  /\ OwnerOf \in [Agents -> Users]
  /\ PersonalOwner \in [Personal -> Users]
  /\ Founder \in Users /\ NoOne \notin Subjects
  /\ Root \notin Collections /\ Legacy \notin Spaces
  /\ {"owner"} \subseteq Roles /\ Roles \subseteq {"owner", "admin", "member", "guest"}
  /\ MaxRows \in Nat /\ Holders \subseteq Subjects

VARIABLES
  role,     \* of every user: a workspace role, "none" without a live membership
  space,    \* of every space: absent, live or dead, and its type
  roster,   \* space_members: a role, or "none"
  coll,     \* of every collection: absent, live or dead, and its space
  doc,      \* of every document: absent, live or dead, its creator and collection
  grants    \* of every resource and subject: the edge between them

vars == <<role, space, roster, coll, doc, grants>>

States == {"absent", "live", "dead"}

Init ==
  /\ role = [u \in Users |-> IF u = Founder THEN "owner" ELSE "none"]
  /\ space = [s \in Spaces |->
                [state |-> IF s \in Personal THEN "live" ELSE "absent", type |-> "closed"]]
  /\ roster = [s \in Spaces |-> [u \in Users |-> "none"]]
  /\ coll = [c \in Collections |-> [state |-> "absent", space |-> Legacy]]
  /\ doc = [d \in Docs |-> [state |-> "absent", by |-> NoOne, coll |-> Root]]
  /\ grants = [r \in Resources |-> [x \in Subjects |-> "none"]]

-----------------------------------------------------------------------------
(* The ladder *)

SpaceOf(d) == IF doc[d].coll = Root THEN Legacy ELSE coll[doc[d].coll].space
LiveSpace(s) == s \in Spaces /\ space[s].state = "live"

\* What makes one a baseline member of a space; agents only by a grant.
BaselineReach(x, s) ==
  \/ grants[s][x] # "none"
  \/ /\ x \in Users
     /\ \/ roster[s][x] # "none"
        \/ space[s].type = "open"
        \/ s \in Personal /\ PersonalOwner[s] = x

HasBaselineReach(x, s) == LiveSpace(s) /\ BaselineReach(x, s)

AdminTier(x) == x \in Users /\ role[x] \in {"owner", "admin"}

\* Personal spaces: their owner alone.  Team spaces: an owner on the roster, a
\* non-guest owner grant, the workspace's owners and admins.
SpaceOwnerTierBody(x, s, membershipRung) ==
  IF s \in Personal THEN PersonalOwner[s] = x
  ELSE \/ membershipRung /\ x \in Users /\ roster[s][x] = "owner"
       \/ grants[s][x] = "owner"
       \/ AdminTier(x)

CanAdministerSpace(x, s) == LiveSpace(s) /\ SpaceOwnerTierBody(x, s, TRUE)
CanRestoreSpace(x, s) == SpaceOwnerTierBody(x, s, FALSE)

CanAdministerDoc(x, d) ==
  \/ doc[d].by = x
  \/ grants[d][x] = "owner"
  \/ IF SpaceOf(d) = Legacy THEN AdminTier(x) ELSE CanAdministerSpace(x, SpaceOf(d))

CanRead(x, d) ==
  \/ doc[d].by = x
  \/ grants[d][x] # "none"
  \/ SpaceOf(d) = Legacy
  \/ HasBaselineReach(x, SpaceOf(d))

CanPlaceIn(x, s) == s = Legacy \/ HasBaselineReach(x, s)

-----------------------------------------------------------------------------
(* Scopes: what the gate asks of the caller before any row is looked at.  An *)
(* agent's token may carry any scope.                                        *)

Manages(p) == p \in Users => role[p] \in {"owner", "admin", "member"}
Administers(p) == p \in Users => AdminTier(p)

Owners == {u \in Users : role[u] = "owner"}

DocRows == {e \in Docs \X Subjects : grants[e[1]][e[2]] # "none"}
SpaceRows ==
  {e \in Spaces \X Subjects :
     grants[e[1]][e[2]] # "none" \/ (e[2] \in Users /\ roster[e[1]][e[2]] # "none")}
Room(r, x) ==
  IF r \in Docs THEN Cardinality(DocRows) < MaxRows
  ELSE x \in Holders /\ Cardinality(SpaceRows) < MaxRows

-----------------------------------------------------------------------------
(* Workspace members *)

SetRole(u, r) ==
  /\ role' = [role EXCEPT ![u] = r]
  /\ UNCHANGED <<space, roster, coll, doc, grants>>

MemberAdd(p, u, r) ==
  /\ Administers(p)
  /\ role[u] = "none"
  /\ SetRole(u, r)

MemberUpdateRole(p, u, r) ==
  /\ Administers(p)
  /\ role[u] # "none" /\ role[u] # r
  /\ Owners # {u}
  /\ SetRole(u, r)

\* The rows that name the user elsewhere stay, and count again once it is back.
MemberRemove(p, u) ==
  /\ Administers(p)
  /\ role[u] # "none"
  /\ Owners # {u}
  /\ SetRole(u, "none")

-----------------------------------------------------------------------------
(* Spaces *)

SetSpace(s, row) ==
  /\ space' = [space EXCEPT ![s] = row]
  /\ UNCHANGED <<role, roster, coll, doc, grants>>

SpaceCreate(p, s, type) ==
  /\ Administers(p)
  /\ s \in Teams /\ space[s].state = "absent"
  /\ SetSpace(s, [state |-> "live", type |-> type])

\* A personal space stays what it is.
SpaceUpdate(p, s, type) ==
  /\ Manages(p)
  /\ CanAdministerSpace(p, s)
  /\ s \in Teams
  /\ SetSpace(s, [space[s] EXCEPT !.type = type])

\* Refused while anything live, or anybody on the roster, is left in it.
SpaceArchive(p, s) ==
  /\ Manages(p)
  /\ CanAdministerSpace(p, s)
  /\ \A c \in Collections : coll[c].space = s => coll[c].state # "live"
  /\ \A u \in Users : roster[s][u] = "none"
  /\ SetSpace(s, [space[s] EXCEPT !.state = "dead"])

SpaceRestore(p, s) ==
  /\ Manages(p)
  /\ space[s].state = "dead"
  /\ CanRestoreSpace(p, s)
  /\ SetSpace(s, [space[s] EXCEPT !.state = "live"])

SetRoster(s, u, r) ==
  /\ roster' = [roster EXCEPT ![s][u] = r]
  /\ UNCHANGED <<role, space, coll, doc, grants>>

SpaceMemberAdd(p, s, u, r) ==
  /\ Manages(p)
  /\ CanAdministerSpace(p, s)
  /\ s \in Teams
  /\ role[u] # "none"
  /\ roster[s][u] = "none" /\ Room(s, u)
  /\ SetRoster(s, u, r)

SpaceMemberUpdateRole(p, s, u, r) ==
  /\ Manages(p)
  /\ CanAdministerSpace(p, s)
  /\ s \in Teams
  /\ roster[s][u] \notin {"none", r}
  /\ SetRoster(s, u, r)

\* The member's grants on documents stay.
SpaceMemberRemove(p, s, u) ==
  /\ Manages(p)
  /\ CanAdministerSpace(p, s)
  /\ roster[s][u] # "none"
  /\ SetRoster(s, u, "none")

-----------------------------------------------------------------------------
(* Collections and documents *)

\* adopt_baseline drops every grant on the documents, keep_grants none.
Dropping(ds, policy) ==
  IF policy = "adopt_baseline"
  THEN [r \in Resources |-> IF r \in ds THEN [x \in Subjects |-> "none"] ELSE grants[r]]
  ELSE grants

SetColl(c, row) ==
  /\ coll' = [coll EXCEPT ![c] = row]
  /\ UNCHANGED <<role, space, roster, doc>>

CollectionCreate(p, c, s) ==
  /\ Manages(p)
  /\ coll[c].state = "absent"
  /\ CanPlaceIn(p, s)
  /\ SetColl(c, [state |-> "live", space |-> s])
  /\ UNCHANGED grants

\* Mutant: documents in the trash are not asked about.
CollectionMoveOverTrash(p, c, s, policy) ==
  LET subtreeDocs == {d \in Docs : doc[d].state = "live" /\ doc[d].coll = c} IN
  /\ Manages(p)
  /\ coll[c].state = "live"
  /\ coll[c].space # s
  /\ \A d \in subtreeDocs : CanAdministerDoc(p, d)
  /\ CanPlaceIn(p, s)
  /\ SetColl(c, [state |-> "live", space |-> s])
  /\ grants' = Dropping(subtreeDocs, policy)

\* To another space: every document of the subtree, live or in the trash, must
\* be the caller's to administer.  (Within a space only the tree changes.)
CollectionMove(p, c, s, policy) ==
  LET subtreeDocs == {d \in Docs : doc[d].state # "absent" /\ doc[d].coll = c} IN
  /\ Manages(p)
  /\ coll[c].state = "live"
  /\ coll[c].space # s
  /\ \A d \in subtreeDocs : CanAdministerDoc(p, d)
  /\ CanPlaceIn(p, s)
  /\ SetColl(c, [state |-> "live", space |-> s])
  /\ grants' = Dropping(subtreeDocs, policy)

CollectionDelete(p, c) ==
  /\ Administers(p)
  /\ coll[c].state = "live"
  /\ \A d \in Docs : doc[d].coll = c => doc[d].state # "live"
  /\ SetColl(c, [coll[c] EXCEPT !.state = "dead"])
  /\ UNCHANGED grants

\* Mutant: the space may be archived.
CollectionRestoreAnywhere(p, c) ==
  /\ Administers(p)
  /\ coll[c].state = "dead"
  /\ SetColl(c, [coll[c] EXCEPT !.state = "live"])
  /\ UNCHANGED grants

CollectionRestore(p, c) ==
  /\ Administers(p)
  /\ coll[c].state = "dead"
  /\ coll[c].space # Legacy => LiveSpace(coll[c].space)
  /\ SetColl(c, [coll[c] EXCEPT !.state = "live"])
  /\ UNCHANGED grants

SetDoc(d, row) ==
  /\ doc' = [doc EXCEPT ![d] = row]
  /\ UNCHANGED <<role, space, roster, coll>>

BucketOf(c) == IF c = Root THEN Legacy ELSE coll[c].space
LiveCollection(c) == c \in Collections => coll[c].state = "live"

\* What an agent creates is its owner's.
DocCreate(p, d, c) ==
  /\ Manages(p)
  /\ doc[d].state = "absent"
  /\ LiveCollection(c) /\ CanPlaceIn(p, BucketOf(c))
  /\ SetDoc(d, [state |-> "live", by |-> IF p \in Agents THEN OwnerOf[p] ELSE p, coll |-> c])
  /\ UNCHANGED grants

DocMoveWithin(p, d, c) ==
  /\ Manages(p)
  /\ doc[d].state = "live" /\ CanRead(p, d)
  /\ LiveCollection(c) /\ BucketOf(c) = SpaceOf(d)
  /\ SetDoc(d, [doc[d] EXCEPT !.coll = c])
  /\ UNCHANGED grants

DocMoveAcross(p, d, c, policy) ==
  /\ Manages(p)
  /\ doc[d].state = "live" /\ CanRead(p, d)
  /\ LiveCollection(c) /\ BucketOf(c) # SpaceOf(d)
  /\ CanAdministerDoc(p, d)
  /\ CanPlaceIn(p, BucketOf(c))
  /\ SetDoc(d, [doc[d] EXCEPT !.coll = c])
  /\ grants' = Dropping({d}, policy)

DocDelete(p, d) ==
  /\ Administers(p)
  /\ doc[d].state = "live" /\ CanRead(p, d)
  /\ SetDoc(d, [doc[d] EXCEPT !.state = "dead"])
  /\ UNCHANGED grants

DocRestore(p, d) ==
  /\ Administers(p)
  /\ doc[d].state = "dead" /\ CanRead(p, d)
  /\ LiveCollection(doc[d].coll)
  /\ SetDoc(d, [doc[d] EXCEPT !.state = "live"])
  /\ UNCHANGED grants

-----------------------------------------------------------------------------
(* Grants *)

SetGrant(r, x, edge) ==
  /\ grants[r][x] = "none" => edge = "none" \/ Room(r, x)
  /\ grants' = [grants EXCEPT ![r][x] = edge]
  /\ UNCHANGED <<role, space, roster, coll, doc>>

\* Mutant: a member of the workspace needs no standing in the document's space.
PermissionGrantDocAnyone(p, d, x, r) ==
  /\ Manages(p)
  /\ doc[d].state = "live" /\ CanAdministerDoc(p, d)
  /\ SpaceOf(d) # Legacy => LiveSpace(SpaceOf(d))
  /\ x \in Users => role[x] # "none"
  /\ grants[d][x] # "guest"
  /\ SetGrant(d, x, r)

\* A user must be a member who reaches the document's space; whoever does not
\* is a guest, and a guest edge stays one.
PermissionGrantDoc(p, d, x, r) ==
  /\ Manages(p)
  /\ doc[d].state = "live" /\ CanAdministerDoc(p, d)
  /\ SpaceOf(d) # Legacy => LiveSpace(SpaceOf(d))
  /\ x \in Users => role[x] # "none" /\ CanPlaceIn(x, SpaceOf(d))
  /\ grants[d][x] # "guest"
  /\ SetGrant(d, x, r)

PermissionGrantSpace(p, s, x, r) ==
  /\ Manages(p)
  /\ CanAdministerSpace(p, s)
  /\ x \in Users => role[x] # "none"
  /\ SetGrant(s, x, r)

\* Access to a document in the trash can be taken away, to a dead space not.
PermissionRevoke(p, r, x) ==
  /\ Manages(p)
  /\ grants[r][x] \in GrantRoles
  /\ IF r \in Docs THEN CanAdministerDoc(p, r) ELSE CanAdministerSpace(p, r)
  /\ SetGrant(r, x, "none")

\* The one way across the boundary of a space, for anybody.
DocAddGuest(p, d, x) ==
  /\ Manages(p)
  /\ doc[d].state = "live" /\ CanAdministerDoc(p, d)
  /\ grants[d][x] \notin GrantRoles
  /\ SetGrant(d, x, "guest")

DocRemoveGuest(p, d, x) ==
  /\ Manages(p)
  /\ doc[d].state # "absent" /\ CanAdministerDoc(p, d)
  /\ grants[d][x] = "guest"
  /\ SetGrant(d, x, "none")

-----------------------------------------------------------------------------
ActsOnMembers(p) ==
  \E u \in Users : MemberRemove(p, u) \/ \E r \in Roles : MemberAdd(p, u, r) \/ MemberUpdateRole(p, u, r)

ActsOnSpaces(p) ==
  \E s \in Spaces :
    \/ SpaceArchive(p, s) \/ SpaceRestore(p, s)
    \/ \E t \in {"open", "closed"} : SpaceCreate(p, s, t) \/ SpaceUpdate(p, s, t)
    \/ \E u \in Users :
         \/ SpaceMemberRemove(p, s, u)
         \/ \E r \in GrantRoles : SpaceMemberAdd(p, s, u, r) \/ SpaceMemberUpdateRole(p, s, u, r)

Policies == {"adopt_baseline", "keep_grants"}

ActsOnCollections(p) ==
  \E c \in Collections :
    \/ CollectionDelete(p, c) \/ CollectionRestore(p, c)
    \/ \E s \in Spaces \cup {Legacy} :
         \/ CollectionCreate(p, c, s)
         \/ \E policy \in Policies : CollectionMove(p, c, s, policy)

ActsOnDocs(p) ==
  \E d \in Docs :
    \/ DocDelete(p, d) \/ DocRestore(p, d)
    \/ \E c \in Collections \cup {Root} :
         \/ DocCreate(p, d, c) \/ DocMoveWithin(p, d, c)
         \/ \E policy \in Policies : DocMoveAcross(p, d, c, policy)

ActsOnGrants(p) ==
  \E x \in Subjects :
    \/ \E r \in Resources : PermissionRevoke(p, r, x)
    \/ \E d \in Docs :
         \/ DocAddGuest(p, d, x) \/ DocRemoveGuest(p, d, x)
         \/ \E r \in GrantRoles : PermissionGrantDoc(p, d, x, r)
    \/ \E s \in Spaces, r \in GrantRoles : PermissionGrantSpace(p, s, x, r)

Acts(p) ==
  \/ ActsOnMembers(p) \/ ActsOnSpaces(p) \/ ActsOnCollections(p)
  \/ ActsOnDocs(p) \/ ActsOnGrants(p)

Next == \E p \in Subjects : Acts(p)

Spec == Init /\ [][Next]_vars

-----------------------------------------------------------------------------
(* Properties *)

\* Rows have their types; what is absent has no rows of its own, nothing live
\* is in a collection or a space that is not, and only live team spaces have a
\* roster ("a trashed roster is empty by construction", space/member_remove.ts).
TypeOK ==
  /\ role \in [Users -> Roles \cup {"none"}]
  /\ space \in [Spaces -> [state : States, type : {"open", "closed"}]]
  /\ roster \in [Spaces -> [Users -> GrantRoles \cup {"none"}]]
  /\ coll \in [Collections -> [state : States, space : Spaces \cup {Legacy}]]
  /\ doc \in [Docs -> [state : States, by : Users \cup {NoOne}, coll : Collections \cup {Root}]]
  /\ grants \in [Resources -> [Subjects -> Lanes]]
  /\ \A s \in Personal : space[s].type = "closed"
  /\ \A s \in Spaces, u \in Users : roster[s][u] # "none" => s \in Teams /\ LiveSpace(s)
  /\ \A s \in Spaces, x \in Subjects : grants[s][x] # "guest"
  /\ \A c \in Collections :
       /\ coll[c].space # Legacy => space[coll[c].space].state # "absent"
       /\ coll[c].state = "live" /\ coll[c].space # Legacy => LiveSpace(coll[c].space)
  /\ \A d \in Docs :
       /\ doc[d].state = "live" => LiveCollection(doc[d].coll)
       /\ doc[d].coll # Root => coll[doc[d].coll].state # "absent"
       /\ doc[d].state = "absent" => doc[d].coll = Root /\ \A x \in Subjects : grants[d][x] = "none"

\* Those who may speak for a document: who administers it, and, while its space
\* is archived, who could bring that space back.
Vouches(p, d) ==
  CanAdministerDoc(p, d) \/ (SpaceOf(d) # Legacy /\ CanRestoreSpace(p, SpaceOf(d)))

\* The step is nobody else's.
VouchedFor(d) == \A p \in Subjects : Vouches(p, d) \/ ~Acts(p)

\* Somebody, whose own role in the workspace stays the same, gains or loses.
AccessChanges(d) ==
  \E x \in Subjects :
    /\ x \in Users => role'[x] = role[x]
    /\ \/ ~(CanRead(x, d)' <=> CanRead(x, d))
       \/ ~(CanAdministerDoc(x, d)' <=> CanAdministerDoc(x, d))

\* Nobody gains or loses the reading or the administration of a document but by
\* the act of someone who vouches for it, whatever was moved, opened, archived,
\* restored, shared or revoked before: not a mover of the collection around it,
\* not a workspace admin where a personal space is concerned, not a guest.
\* (A user whose own workspace role changes is another matter.)
AccessIsDelegated ==
  [][\A d \in Docs : doc[d].state # "absent" /\ AccessChanges(d) => VouchedFor(d)]_vars

Crossing(d, u) ==
  /\ grants[d][u] \in GrantRoles
  /\ SpaceOf(d) # Legacy /\ ~BaselineReach(u, SpaceOf(d))

\* "Non-guest = within-standing refinement; crossings must be guest-marked"
\* (docs/adr/0040-tenancy-ia-model.md): an unmarked edge never comes into being
\* on the far side of a space's boundary; one that is already there comes to
\* cross it only by the act of someone who vouches for the document.
CrossingsAreVouchedFor ==
  [][\A d \in Docs, u \in Users :
       Crossing(d, u)' /\ ~Crossing(d, u) =>
         grants[d][u] \in GrantRoles /\ VouchedFor(d)]_vars
=============================================================================
