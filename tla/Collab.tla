-------------------------------- MODULE Collab --------------------------------
(***************************************************************************)
(* Live collaboration feeds and their revocation.  A client upgrades to a  *)
(* WebSocket under one credential (a session cookie or an agent token),    *)
(* asks to attach to a document, and is then sent everything that happens  *)
(* to it.  Standing is checked once, on the way in, by a series of separate*)
(* reads (collabAuthorize); afterwards the feed ends only when something   *)
(* closes it.  That something is the revocation tap: it runs after each    *)
(* commit that may narrow who reads, works out from reads of its own whose *)
(* feeds to close, and closes their sockets through the socket registry.   *)
(*                                                                         *)
(* One document and its placement are followed.  Commits are those of the  *)
(* capabilities the tap knows, and those that widen standing; who may call *)
(* them is the subject of module Sharing.                                  *)
(***************************************************************************)
EXTENDS Naturals

CONSTANTS
    Users, Agents,      \* principals of the workspace
    Sessions, Tokens,   \* credentials of users and of agents
    Holder,             \* whose credential it is
    OwnerOf,            \* the human who owns an agent
    Creator,            \* who created the document, whether still a user or not
    Spaces, Root,       \* buckets a document can lie in; Root is the workspace root
    Starts,             \* placements and standings a behaviour may begin with
    Sockets,
    MaxCommits          \* bound: commits in a behaviour

Subjects == Users \cup Agents
Creds    == Sessions \cup Tokens
Buckets  == Spaces \cup {Root}

ASSUME SubjectsAssumption ==
    /\ Users \cap Agents = {}
    /\ Sessions \cap Tokens = {}
    /\ Subjects \cap Creds = {}
    /\ Root \notin Spaces
    /\ Holder \in [Creds -> Subjects]
    /\ \A s \in Sessions : Holder[s] \in Users
    /\ \A t \in Tokens : Holder[t] \in Agents
    /\ OwnerOf \in [Agents -> Users]

Standing == [place : Buckets, open : SUBSET Spaces,
             roster : [Spaces -> SUBSET Users], spaceGrants : [Spaces -> SUBSET Subjects]]

ASSUME StartsAssumption == Starts \subseteq Standing /\ MaxCommits \in Nat

NoCred == "no credential"

VARIABLES
    creds,       \* live sessions and unrevoked tokens
    members,     \* users with a live membership
    agents,      \* agents that are not revoked
    place,       \* the bucket the document lies in
    trashed,     \* whether the document is deleted
    open,        \* the open spaces; the others are closed or private
    roster,      \* space_members
    spaceGrants, \* subjects with a grant on the space
    docGrants,   \* subjects with a grant on the document
    commits,     \* number of commits so far
    taps,        \* the revocation tap of each commit, while it runs
    cred,        \* the credential a socket was upgraded with
    sock,        \* none, resolved (not yet registered) or open
    feed,        \* how far a socket's attachment to the document is
    seen,        \* the bucket the authorization found in the document row
    ok,          \* whether a rung of the read ladder has held so far
    marks        \* what happened since that row was read (history only)

db   == <<creds, members, agents, place, trashed, open, roster, spaceGrants, docGrants>>
wire == <<cred, sock, feed, seen, ok>>
vars == <<creds, members, agents, place, trashed, open, roster, spaceGrants, docGrants,
          commits, taps, cred, sock, feed, seen, ok, marks>>

-----------------------------------------------------------------------------
(* Identity: createComposedPrincipalResolver.                              *)

LiveUser(u)  == u \in members
LiveAgent(a) == a \in agents /\ OwnerOf[a] \in members

LiveHolder(c) == IF c \in Sessions THEN LiveUser(Holder[c]) ELSE LiveAgent(Holder[c])

Live(c) == c \in creds /\ LiveHolder(c)

-----------------------------------------------------------------------------
(* The read ladder of acl/ceiling.ts, one operator per query it rests on.  *)

SpaceRung(x, b)  == \/ b = Root
                    \/ x \in Users /\ b \in open
RosterRung(x, b) == x \in Users /\ b \in Spaces /\ x \in roster[b]
GrantRung(x, b)  == \/ x \in docGrants
                    \/ b \in Spaces /\ x \in spaceGrants[b]

CanRead(x) ==
    \/ x = Creator
    \/ SpaceRung(x, place)
    \/ RosterRung(x, place)
    \/ GrantRung(x, place)

-----------------------------------------------------------------------------
(* A tap holds the reads it has still to make ("op") and whom it will      *)
(* close.                                                                  *)

TapOps  == {"none", "owned", "after", "bucket", "everyone", "roster", "edges",
            "retained", "baseline", "room", "close"}
Targets == Subjects \cup Creds
Tap     == [op : TapOps, from : Buckets, to : Buckets, who : SUBSET Targets]

NewTap(op, from, to, who) == [op |-> op, from |-> from, to |-> to, who |-> who]
CloseTap(who)             == NewTap("close", Root, Root, who)
NoTap                     == NewTap("none", Root, Root, {})

InFlight == {"principal", "row", "spaces", "members", "authorized"}

TypeOK ==
    /\ creds \subseteq Creds
    /\ members \subseteq Users
    /\ agents \subseteq Agents
    /\ place \in Buckets
    /\ trashed \in BOOLEAN
    /\ open \subseteq Spaces
    /\ roster \in [Spaces -> SUBSET Users]
    /\ spaceGrants \in [Spaces -> SUBSET Subjects]
    /\ docGrants \subseteq Subjects
    /\ commits \in 0..MaxCommits
    /\ taps \in [1..MaxCommits -> Tap]
    /\ cred \in [Sockets -> Creds \cup {NoCred}]
    /\ sock \in [Sockets -> {"none", "resolved", "open"}]
    /\ feed \in [Sockets -> InFlight \cup {"none", "attached"}]
    /\ seen \in [Sockets -> Buckets]
    /\ ok \in [Sockets -> BOOLEAN]
    /\ marks \in [Sockets -> SUBSET {"widened", "moved", "deleted", "unclosed"}]

Init ==
    /\ creds = Creds
    /\ members = Users
    /\ agents = Agents
    /\ \E start \in Starts :
         /\ place = start.place
         /\ open = start.open
         /\ roster = start.roster
         /\ spaceGrants = start.spaceGrants
    /\ trashed = FALSE
    /\ docGrants = {}
    /\ commits = 0
    /\ taps = [n \in 1..MaxCommits |-> NoTap]
    /\ cred = [k \in Sockets |-> NoCred]
    /\ sock = [k \in Sockets |-> "none"]
    /\ feed = [k \in Sockets |-> "none"]
    /\ seen = [k \in Sockets |-> Root]
    /\ ok = [k \in Sockets |-> FALSE]
    /\ marks = [k \in Sockets |-> {}]

-----------------------------------------------------------------------------
(* Sockets and the authorization of an attachment.                         *)

Drop(k) ==
    /\ feed' = [feed EXCEPT ![k] = "none"]
    /\ ok'   = [ok EXCEPT ![k] = FALSE]
    /\ seen' = [seen EXCEPT ![k] = Root]
    /\ marks' = [marks EXCEPT ![k] = {}]

\* The principal is resolved before the socket is upgraded and registered:
\* what is committed in between finds no socket to close.
ResolveUpgrade(k) ==
    /\ sock[k] = "none"
    /\ \E c \in Creds :
         /\ Live(c)
         /\ cred' = [cred EXCEPT ![k] = c]
    /\ sock' = [sock EXCEPT ![k] = "resolved"]
    /\ UNCHANGED <<db, commits, taps, feed, seen, ok, marks>>

Register(k) ==
    /\ sock[k] = "resolved"
    /\ sock' = [sock EXCEPT ![k] = "open"]
    /\ UNCHANGED <<db, commits, taps, cred, feed, seen, ok, marks>>

\* The client goes away, in whatever state; its entry leaves the registry.
Disconnect(k) ==
    /\ sock[k] # "none"
    /\ sock' = [sock EXCEPT ![k] = "none"]
    /\ cred' = [cred EXCEPT ![k] = NoCred]
    /\ Drop(k)
    /\ UNCHANGED <<db, commits, taps>>

ReadPrincipal(k) ==
    /\ sock[k] = "open"
    /\ feed[k] = "none"
    /\ Live(cred[k])
    /\ feed' = [feed EXCEPT ![k] = "principal"]
    /\ UNCHANGED <<db, commits, taps, cred, sock, seen, ok, marks>>

ReadRow(k) ==
    /\ feed[k] = "principal"
    /\ IF trashed
       THEN Drop(k)
       ELSE /\ feed' = [feed EXCEPT ![k] = "row"]
            /\ seen' = [seen EXCEPT ![k] = place]
            /\ ok' = [ok EXCEPT ![k] = Holder[cred[k]] = Creator]
            /\ marks' = [marks EXCEPT ![k] = @ \cap {"unclosed"}]
    /\ UNCHANGED <<db, commits, taps, cred, sock>>

ReadSpaces(k) ==
    /\ feed[k] = "row"
    /\ feed' = [feed EXCEPT ![k] = "spaces"]
    /\ ok' = [ok EXCEPT ![k] = @ \/ SpaceRung(Holder[cred[k]], seen[k])]
    /\ UNCHANGED <<db, commits, taps, cred, sock, seen, marks>>

ReadRoster(k) ==
    /\ feed[k] = "spaces"
    /\ feed' = [feed EXCEPT ![k] = "members"]
    /\ ok' = [ok EXCEPT ![k] = @ \/ RosterRung(Holder[cred[k]], seen[k])]
    /\ UNCHANGED <<db, commits, taps, cred, sock, seen, marks>>

\* The last read decides: assertCanRead lets the attachment go on or refuses.
ReadGrants(k) ==
    /\ feed[k] = "members"
    /\ IF ok[k] \/ GrantRung(Holder[cred[k]], seen[k])
       THEN /\ feed' = [feed EXCEPT ![k] = "authorized"]
            /\ ok' = [ok EXCEPT ![k] = TRUE]
            /\ UNCHANGED <<seen, marks>>
       ELSE Drop(k)
    /\ UNCHANGED <<db, commits, taps, cred, sock>>

\* The document is loaded and the connection joins its room.
Attach(k) ==
    /\ feed[k] = "authorized"
    /\ feed' = [feed EXCEPT ![k] = "attached"]
    /\ UNCHANGED <<db, commits, taps, cred, sock, seen, ok, marks>>

-----------------------------------------------------------------------------
(* Commits.  Each narrowing one leaves a tap to run; standing may be       *)
(* widened by others, which leave none.                                    *)

Commit(tap) ==
    /\ commits < MaxCommits
    /\ commits' = commits + 1
    /\ taps' = [taps EXCEPT ![commits + 1] = tap]

\* A tap that has not decided yet whom to close.
Reading(tap) == tap.op \notin {"none", "close", "room"}

MarkWidened ==
    marks' = [k \in Sockets |->
                IF \/ feed[k] \in InFlight
                   \/ feed[k] = "attached" /\ \E n \in 1..MaxCommits : Reading(taps[n])
                THEN marks[k] \cup {"widened"} ELSE marks[k]]

\* The /auth/* mount: better-auth destroys sessions, and then sockets are
\* closed -- if the path closes any, a principal was resolved from the request
\* beforehand, and the response is ok ("closing").
SessionsOf(u) == {s \in creds \cap Sessions : Holder[s] = u}

EndSessions(gone, closing, who) ==
    /\ creds' = creds \ gone
    /\ Commit(IF closing THEN CloseTap(who) ELSE NoTap)
    /\ marks' = [k \in Sockets |->
                   IF ~closing /\ cred[k] \in gone /\ feed[k] # "none"
                   THEN marks[k] \cup {"unclosed"} ELSE marks[k]]
    /\ UNCHANGED <<members, agents, place, trashed, open, roster, spaceGrants, docGrants, wire>>

\* POST /auth/sign-out.
SignOut(s, closing) ==
    /\ s \in creds \cap Sessions
    /\ EndSessions({s}, closing, {s})

\* POST /auth/revoke-sessions: all sessions of the caller.
RevokeSessions(u, closing) ==
    /\ SessionsOf(u) # {}
    /\ EndSessions(SessionsOf(u), closing, {u})

\* POST /auth/revoke-other-sessions: the caller's session stays, and its
\* sockets are closed with the others.
RevokeOtherSessions(s, closing) ==
    /\ s \in creds \cap Sessions
    /\ EndSessions(SessionsOf(Holder[s]) \ {s}, closing, {Holder[s]})

\* POST /auth/revoke-session: one session by its token; no socket is closed.
RevokeSession(s) ==
    /\ s \in creds \cap Sessions
    /\ EndSessions({s}, FALSE, {})

TokenRevoke(t) ==
    /\ t \in creds \cap Tokens
    /\ creds' = creds \ {t}
    /\ Commit(CloseTap({t}))
    /\ UNCHANGED <<members, agents, place, trashed, open, roster, spaceGrants, docGrants,
                   wire, marks>>

AgentRevoke(a) ==
    /\ a \in agents
    /\ agents' = agents \ {a}
    /\ Commit(CloseTap({a}))
    /\ UNCHANGED <<creds, members, place, trashed, open, roster, spaceGrants, docGrants,
                   wire, marks>>

WorkspaceMemberRemove(u) ==
    /\ u \in members
    /\ members' = members \ {u}
    /\ Commit(NewTap("owned", Root, Root, {u}))
    /\ UNCHANGED <<creds, agents, place, trashed, open, roster, spaceGrants, docGrants,
                   wire, marks>>

WorkspaceMemberAdd(u) ==
    /\ u \in Users \ members
    /\ members' = members \cup {u}
    /\ Commit(NoTap)
    /\ MarkWidened
    /\ UNCHANGED <<creds, agents, place, trashed, open, roster, spaceGrants, docGrants, wire>>

\* workspace.member_update_role and space.member_update_role close the
\* member's feeds although no role changes who reads.
MemberUpdateRole(u) ==
    /\ u \in members
    /\ Commit(CloseTap({u}))
    /\ UNCHANGED <<db, wire, marks>>

SpaceMemberRemove(b, u) ==
    /\ u \in roster[b]
    /\ roster' = [roster EXCEPT ![b] = @ \ {u}]
    /\ Commit(CloseTap({u}))
    /\ UNCHANGED <<creds, members, agents, place, trashed, open, spaceGrants, docGrants,
                   wire, marks>>

SpaceMemberAdd(b, u) ==
    /\ u \in members \ roster[b]
    /\ roster' = [roster EXCEPT ![b] = @ \cup {u}]
    /\ Commit(NoTap)
    /\ MarkWidened
    /\ UNCHANGED <<creds, members, agents, place, trashed, open, spaceGrants, docGrants, wire>>

\* Mutant: only the revocation of a grant on a document closes feeds.
SpaceGrantRevokeQuietly(b, x) ==
    /\ x \in spaceGrants[b]
    /\ spaceGrants' = [spaceGrants EXCEPT ![b] = @ \ {x}]
    /\ Commit(NoTap)
    /\ UNCHANGED <<creds, members, agents, place, trashed, open, roster, docGrants,
                   wire, marks>>

SpaceGrantRevoke(b, x) ==
    /\ x \in spaceGrants[b]
    /\ spaceGrants' = [spaceGrants EXCEPT ![b] = @ \ {x}]
    /\ Commit(CloseTap({x}))
    /\ UNCHANGED <<creds, members, agents, place, trashed, open, roster, docGrants,
                   wire, marks>>

SpaceGrant(b, x) ==
    /\ x \in (members \cup agents) \ spaceGrants[b]
    /\ spaceGrants' = [spaceGrants EXCEPT ![b] = @ \cup {x}]
    /\ Commit(NoTap)
    /\ MarkWidened
    /\ UNCHANGED <<creds, members, agents, place, trashed, open, roster, docGrants, wire>>

\* permission.revoke and doc.remove_guest, of an edge on the document.
DocGrantRevoke(x) ==
    /\ x \in docGrants
    /\ docGrants' = docGrants \ {x}
    /\ Commit(CloseTap({x}))
    /\ UNCHANGED <<creds, members, agents, place, trashed, open, roster, spaceGrants,
                   wire, marks>>

DocGrant(x) ==
    /\ x \in (members \cup agents) \ docGrants
    /\ ~trashed
    /\ docGrants' = docGrants \cup {x}
    /\ Commit(NoTap)
    /\ MarkWidened
    /\ UNCHANGED <<creds, members, agents, place, trashed, open, roster, spaceGrants, wire>>

\* space.update to closed or private (again, perhaps), and to open.
SpaceNarrow(b) ==
    /\ open' = open \ {b}
    /\ Commit(NewTap("retained", b, Root, {}))
    /\ UNCHANGED <<creds, members, agents, place, trashed, roster, spaceGrants, docGrants,
                   wire, marks>>

SpaceOpen(b) ==
    /\ b \notin open
    /\ open' = open \cup {b}
    /\ Commit(NoTap)
    /\ MarkWidened
    /\ UNCHANGED <<creds, members, agents, place, trashed, roster, spaceGrants, docGrants, wire>>

\* A move that crosses buckets.  doc.move changes the document's row; a
\* collection.move changes its collection's row instead, so an authorization
\* that has the document row and not the collections yet finds the new bucket.
Cross(to, adopt, whole) ==
    /\ ~trashed
    /\ to # place
    /\ place' = to
    /\ docGrants' = IF adopt THEN {} ELSE docGrants
    /\ Commit(NewTap("after", place, to, IF adopt THEN docGrants ELSE {}))
    /\ seen' = IF whole THEN [k \in Sockets |-> IF feed[k] = "row" THEN to ELSE seen[k]]
                        ELSE seen
    /\ marks' = [k \in Sockets |->
                   IF feed[k] \in InFlight \cup {"attached"} THEN marks[k] \cup {"moved"}
                                                             ELSE marks[k]]
    /\ UNCHANGED <<creds, members, agents, trashed, open, roster, spaceGrants,
                   cred, sock, feed, ok>>

DocMove(to, adopt)        == Cross(to, adopt, FALSE)
CollectionMove(to, adopt) == Cross(to, adopt, TRUE)

\* Mutant: the room of a deleted document is not closed.
DocDeleteQuietly ==
    /\ ~trashed
    /\ trashed' = TRUE
    /\ Commit(NoTap)
    /\ marks' = [k \in Sockets |-> IF feed[k] \in InFlight THEN marks[k] \cup {"deleted"}
                                                          ELSE marks[k]]
    /\ UNCHANGED <<creds, members, agents, place, open, roster, spaceGrants, docGrants, wire>>

DocDelete ==
    /\ ~trashed
    /\ trashed' = TRUE
    /\ Commit(NewTap("room", Root, Root, {}))
    /\ marks' = [k \in Sockets |-> IF feed[k] \in InFlight THEN marks[k] \cup {"deleted"}
                                                          ELSE marks[k]]
    /\ UNCHANGED <<creds, members, agents, place, open, roster, spaceGrants, docGrants, wire>>

DocRestore ==
    /\ trashed
    /\ trashed' = FALSE
    /\ Commit(NoTap)
    /\ UNCHANGED <<creds, members, agents, place, open, roster, spaceGrants, docGrants,
                   wire, marks>>

-----------------------------------------------------------------------------
(* The tap of commit n, one read at a time over the state as it is then,   *)
(* and at last the closes, which are synchronous.                          *)

At(n, op) == taps[n].op = op

TapTurns(n, tap) ==
    /\ taps' = [taps EXCEPT ![n] = tap]
    /\ UNCHANGED <<db, commits, wire, marks>>

TapReads(n, op, who) == TapTurns(n, NewTap(op, taps[n].from, Root, who))

TapDecides(n, who) == TapTurns(n, CloseTap(who))

\* Mutant: the agents of a removed member are forgotten.
TapReadsOwnedNot(n) ==
    /\ At(n, "owned")
    /\ TapDecides(n, taps[n].who)

TapReadsOwned(n) ==
    /\ At(n, "owned")
    /\ TapDecides(n, taps[n].who \cup {a \in agents : OwnerOf[a] \in taps[n].who})

\* moveCrossingSubjects: readers of the bucket left behind are closed only
\* when the bucket moved to is found restrictive.
TapReadsAfter(n) ==
    /\ At(n, "after")
    /\ IF taps[n].to = Root \/ taps[n].to \in open
       THEN TapDecides(n, taps[n].who)
       ELSE TapReads(n, "bucket", taps[n].who)

\* bucketReaders.
TapReadsBucket(n) ==
    /\ At(n, "bucket")
    /\ TapReads(n, IF taps[n].from = Root \/ taps[n].from \in open
                   THEN "everyone" ELSE "roster", taps[n].who)

TapReadsEveryone(n) ==
    /\ At(n, "everyone")
    /\ TapDecides(n, taps[n].who \cup members)

TapReadsRoster(n) ==
    /\ At(n, "roster")
    /\ TapReads(n, "edges", taps[n].who \cup roster[taps[n].from])

TapReadsEdges(n) ==
    /\ At(n, "edges")
    /\ TapDecides(n, taps[n].who \cup (spaceGrants[taps[n].from] \cap Users))

\* spaceTypeNarrowingSubjects: "who" holds the retained roster in between.
TapReadsRetained(n) ==
    /\ At(n, "retained")
    /\ TapReads(n, "baseline", roster[taps[n].from])

TapReadsBaseline(n) ==
    /\ At(n, "baseline")
    /\ TapDecides(n, members \ taps[n].who)

\* Registry closes: a socket is found under its credential or its holder.
Closes(tap, k) ==
    /\ sock[k] = "open"
    /\ cred[k] \in tap.who \/ Holder[cred[k]] \in tap.who

TapCloses(n) ==
    /\ At(n, "close")
    /\ LET Gone(k) == Closes(taps[n], k)
       IN  /\ sock' = [k \in Sockets |-> IF Gone(k) THEN "none" ELSE sock[k]]
           /\ cred' = [k \in Sockets |-> IF Gone(k) THEN NoCred ELSE cred[k]]
           /\ feed' = [k \in Sockets |-> IF Gone(k) THEN "none" ELSE feed[k]]
           /\ ok'   = [k \in Sockets |-> IF Gone(k) THEN FALSE ELSE ok[k]]
           /\ seen' = [k \in Sockets |-> IF Gone(k) THEN Root ELSE seen[k]]
           /\ marks' = [k \in Sockets |-> IF Gone(k) THEN {} ELSE marks[k]]
    /\ taps' = [taps EXCEPT ![n] = NoTap]
    /\ UNCHANGED <<db, commits>>

\* closeDocumentConnections: the room's connections close, the sockets live
\* on.  An attachment that is authorized but not in the room yet is missed.
TapClosesRoom(n) ==
    /\ At(n, "room")
    /\ LET Gone(k) == feed[k] = "attached"
       IN  /\ feed' = [k \in Sockets |-> IF Gone(k) THEN "none" ELSE feed[k]]
           /\ ok'   = [k \in Sockets |-> IF Gone(k) THEN FALSE ELSE ok[k]]
           /\ seen' = [k \in Sockets |-> IF Gone(k) THEN Root ELSE seen[k]]
           /\ marks' = [k \in Sockets |-> IF Gone(k) THEN {} ELSE marks[k]]
    /\ taps' = [taps EXCEPT ![n] = NoTap]
    /\ UNCHANGED <<db, commits, cred, sock>>

-----------------------------------------------------------------------------

ClientStep(k) ==
    \/ ResolveUpgrade(k) \/ Register(k) \/ Disconnect(k)
    \/ ReadPrincipal(k) \/ ReadRow(k) \/ ReadSpaces(k) \/ ReadRoster(k) \/ ReadGrants(k)
    \/ Attach(k)

Narrowing ==
    \/ \E s \in Sessions : RevokeSession(s)
    \/ \E s \in Sessions, closing \in BOOLEAN :
         SignOut(s, closing) \/ RevokeOtherSessions(s, closing)
    \/ \E u \in Users, closing \in BOOLEAN : RevokeSessions(u, closing)
    \/ \E t \in Tokens : TokenRevoke(t)
    \/ \E a \in Agents : AgentRevoke(a)
    \/ \E u \in Users : WorkspaceMemberRemove(u) \/ MemberUpdateRole(u)
    \/ \E b \in Spaces, u \in Users : SpaceMemberRemove(b, u)
    \/ \E b \in Spaces, x \in Subjects : SpaceGrantRevoke(b, x)
    \/ \E x \in Subjects : DocGrantRevoke(x)
    \/ \E b \in Spaces : SpaceNarrow(b)
    \/ \E to \in Buckets, adopt \in BOOLEAN : DocMove(to, adopt) \/ CollectionMove(to, adopt)
    \/ DocDelete

Widening ==
    \/ \E u \in Users : WorkspaceMemberAdd(u)
    \/ \E b \in Spaces, u \in Users : SpaceMemberAdd(b, u)
    \/ \E b \in Spaces, x \in Subjects : SpaceGrant(b, x)
    \/ \E x \in Subjects : DocGrant(x)
    \/ \E b \in Spaces : SpaceOpen(b)
    \/ DocRestore

TapStep(n) ==
    \/ TapReadsOwned(n) \/ TapReadsAfter(n) \/ TapReadsBucket(n) \/ TapReadsEveryone(n)
    \/ TapReadsRoster(n) \/ TapReadsEdges(n) \/ TapReadsRetained(n) \/ TapReadsBaseline(n)
    \/ TapCloses(n) \/ TapClosesRoom(n)

Next ==
    \/ \E k \in Sockets : ClientStep(k)
    \/ Narrowing
    \/ Widening
    \/ \E n \in 1..MaxCommits : TapStep(n)

Spec == Init /\ [][Next]_vars

-----------------------------------------------------------------------------
(* What the closes are for.                                                *)

Quiet == \A n \in 1..MaxCommits : At(n, "none")

\* Once every tap has run, no feed is held under a credential that was signed
\* out or revoked, nor for a revoked agent, a removed member or an agent of one
\* -- whatever was being resolved, registered or authorized when the commit
\* came.  The first part leaves out a session whose end closes no socket: by
\* POST /auth/revoke-session (app.ts, "the named residual"), or by a request
\* from which no principal was resolved.  The second part holds of its feeds too.
DeadCredentialsHoldNoFeed ==
    Quiet => \A k \in Sockets :
               feed[k] = "attached" =>
                 /\ cred[k] \in creds \/ "unclosed" \in marks[k]
                 /\ LiveHolder(cred[k])

\* Once every tap has run, who holds a feed may read the document -- except a
\* feed during whose authorization, or beside a tap still reading, standing was
\* widened, and the feed of an agent whose document was moved.
FeedsFollowStanding ==
    Quiet => \A k \in Sockets :
               feed[k] = "attached" =>
                 \/ CanRead(Holder[cred[k]])
                 \/ "widened" \in marks[k]
                 \/ Holder[cred[k]] \in Agents /\ "moved" \in marks[k]

\* Once every tap has run, the room of a deleted document is empty, but for an
\* attachment that was on its way in when the document was deleted.
DeletedRoomsAreEmpty ==
    Quiet /\ trashed => \A k \in Sockets :
                          feed[k] = "attached" => "deleted" \in marks[k]

\* An agent reads through a grant, and the revocation of that grant closes its
\* feed; no move can leave it behind.
AgentFeedsFollowStanding ==
    Quiet => \A k \in Sockets :
               feed[k] = "attached" /\ Holder[cred[k]] \in Agents =>
                 CanRead(Holder[cred[k]]) \/ "widened" \in marks[k]
=============================================================================
