----------------------------- MODULE CollabProofs -----------------------------
(***************************************************************************)
(* Proofs about module Collab.  The closes are asynchronous, so whoever    *)
(* loses standing is, for a while, only about to be closed: each part of   *)
(* the invariant says which tap in flight will close a feed that nothing   *)
(* in the tables entitles any more.                                        *)
(***************************************************************************)
EXTENDS Collab, TLAPS

Slots    == 1..MaxCommits
HasRow   == {"row", "spaces", "members", "authorized", "attached"}
OfRoster == {"roster", "edges", "retained", "baseline"}

\* Slots of commits to come are empty, and only a space has a roster to read.
TapInv ==
    \A n \in Slots :
      /\ n > commits => taps[n].op = "none"
      /\ taps[n].op \in OfRoster => taps[n].from \in Spaces

SockInv ==
    \A k \in Sockets :
      /\ sock[k] # "none" => cred[k] \in Creds
      /\ feed[k] # "none" => sock[k] = "open"

\* Taps that will close the feeds of x, or of the member x and its agents.
Shuts(tap, x)  == (tap.op = "close") /\ (x \in tap.who)
Parts(tap, x)  == (tap.op = "owned") /\ (x \in tap.who)
Closing(x)     == \E n \in Slots : Shuts(taps[n], x)
Removing(x)    == \E n \in Slots : Parts(taps[n], x)

\* A feed's credential resolves, or a tap is on its way to the feed, or the
\* session ended on a path that closes nothing; whose feed it is stays a
\* principal, or a tap is on its way whatever became of the credential.
SessionHolds(u) == u \in members \/ Closing(u) \/ Removing(u)
TokenHolds(a)   == /\ a \in agents \/ Closing(a)
                   /\ \/ OwnerOf[a] \in members
                      \/ Closing(a)
                      \/ a \in agents /\ Removing(OwnerOf[a])
CredInv ==
    \A k \in Sockets : feed[k] # "none" =>
      /\ \/ cred[k] \in creds \/ "unclosed" \in marks[k]
         \/ Closing(cred[k]) \/ Closing(Holder[cred[k]])
      /\ cred[k] \in Sessions => SessionHolds(Holder[cred[k]])
      /\ cred[k] \in Tokens => TokenHolds(Holder[cred[k]])

RoomInv ==
    \A k \in Sockets : trashed /\ feed[k] \in HasRow =>
      \/ "deleted" \in marks[k]
      \/ feed[k] = "attached" /\ \E n \in Slots : taps[n].op = "room"

\* The rungs of the ladder that hang on a bucket.
Stands(x, b) ==
    \/ SpaceRung(x, b)
    \/ RosterRung(x, b)
    \/ b \in Spaces /\ x \in spaceGrants[b]

Entitled(x) == (x = Creator) \/ (x \in docGrants) \/ Stands(x, place)

\* Whom a tap will close: those it holds already, and the users it will read.
Moving == {"after", "bucket", "everyone", "roster", "edges"}
Holds(tap, x) == (tap.op \in {"close", "owned"} \cup Moving) /\ (x \in tap.who)
WillRead(tap, x) ==
    \/ tap.op = "after" /\ tap.to \in Spaces \ open /\ Stands(x, tap.from)
    \/ tap.op = "bucket" /\ Stands(x, tap.from)
    \/ tap.op = "everyone"
    \/ tap.op = "roster" /\ (x \in roster[tap.from] \/ x \in spaceGrants[tap.from])
    \/ tap.op = "edges" /\ x \in spaceGrants[tap.from]
    \/ tap.op = "retained" /\ x \notin roster[tap.from]
    \/ tap.op = "baseline" /\ x \notin tap.who
Ends(tap, x) == Holds(tap, x) \/ (x \in Users /\ WillRead(tap, x))

Exempt(k) == \/ "widened" \in marks[k]
             \/ Holder[cred[k]] \in Agents /\ "moved" \in marks[k]

\* Whoever has been found to stand, or would be by the reads to come, is
\* entitled or about to be closed.
Passes(k) == \/ ok[k]
             \/ Holder[cred[k]] \in docGrants
             \/ Stands(Holder[cred[k]], seen[k])
Settled(x) == Entitled(x) \/ \E n \in Slots : Ends(taps[n], x)

StandInv ==
    \A k \in Sockets : feed[k] \in HasRow =>
      /\ feed[k] \in {"authorized", "attached"} => ok[k]
      /\ ~Exempt(k) /\ Passes(k) => Settled(Holder[cred[k]])

IInv == TypeOK /\ TapInv /\ SockInv /\ CredInv /\ RoomInv /\ StandInv

-----------------------------------------------------------------------------
(* Facts every step rests on.                                              *)

\* Who holds a credential is of its kind.
LEMMA Holders ==
  ASSUME NEW c \in Creds
  PROVE  /\ Holder[c] \in Subjects
         /\ c \in Sessions => Holder[c] \in Users /\ Holder[c] \notin Agents
         /\ c \in Tokens => /\ Holder[c] \in Agents /\ Holder[c] \notin Users
                           /\ OwnerOf[Holder[c]] \in Users
         /\ c \in Sessions \/ c \in Tokens
         /\ c \notin Subjects
BY SubjectsAssumption DEF Subjects, Creds

\* Taps in flight are left alone.
Kept == \A n \in Slots : taps[n].op # "none" => taps'[n] = taps[n]

\* A commit puts its tap in the next slot, which is empty.
LEMMA CommitFacts ==
  ASSUME IInv, NEW tap \in Tap, Commit(tap), tap.op \in OfRoster => tap.from \in Spaces
  PROVE  /\ Kept
         /\ commits + 1 \in Slots
         /\ taps'[commits + 1] = tap
         /\ commits' \in 0..MaxCommits
         /\ taps' \in [1..MaxCommits -> Tap]
         /\ TapInv'
<1>1. commits \in Nat /\ MaxCommits \in Nat /\ commits + 1 \in Slots
  BY StartsAssumption DEF IInv, TypeOK, Commit, Slots
<1>2. taps' = [taps EXCEPT ![commits + 1] = tap] /\ commits' = commits + 1
  BY DEF Commit
<1>3. taps[commits + 1].op = "none"
  BY <1>1 DEF IInv, TapInv
<1>4. Kept
  BY <1>1, <1>2, <1>3 DEF Kept, IInv, TypeOK, Slots
<1>5. taps' \in [1..MaxCommits -> Tap] /\ taps'[commits + 1] = tap
  BY <1>1, <1>2 DEF IInv, TypeOK, Slots
<1>6. TapInv'
  BY <1>1, <1>2, <1>5 DEF IInv, TypeOK, TapInv, Slots
<1> QED BY <1>1, <1>2, <1>4, <1>5, <1>6, StartsAssumption DEF Slots

LEMMA NewTaps ==
  ASSUME NEW op \in TapOps, NEW from \in Buckets, NEW to \in Buckets, NEW who \in SUBSET Targets
  PROVE  NewTap(op, from, to, who) \in Tap /\ CloseTap(who) \in Tap /\ NoTap \in Tap
BY DEF NewTap, CloseTap, NoTap, Tap, TapOps, Buckets

\* Parts of the invariant that a step leaves alone.
LEMMA SocketsAside ==
  ASSUME IInv, UNCHANGED <<cred, sock, feed>>
  PROVE  SockInv'
BY DEF IInv, SockInv

LEMMA CredentialsAside ==
  ASSUME IInv, Kept, UNCHANGED <<cred, feed>>,
         creds \subseteq creds', members \subseteq members', agents \subseteq agents',
         \A k \in Sockets : marks[k] \subseteq marks'[k]
  PROVE  CredInv'
BY DEF IInv, CredInv, Kept, SessionHolds, TokenHolds, Closing, Removing, Shuts, Parts

LEMMA RoomsAside ==
  ASSUME IInv, Kept, UNCHANGED <<trashed, feed>>,
         \A k \in Sockets : marks[k] \subseteq marks'[k]
  PROVE  RoomInv'
BY DEF IInv, RoomInv, Kept

LEMMA StandingAside ==
  ASSUME IInv, Kept, UNCHANGED <<place, open, roster, spaceGrants, docGrants, wire>>,
         \A k \in Sockets : marks[k] \subseteq marks'[k]
  PROVE  StandInv'
BY DEF IInv, StandInv, Kept, wire, Exempt, Passes, Settled, Entitled, Stands, SpaceRung,
       RosterRung, Ends, Holds, WillRead, Moving

\* What widens standing exempts whoever it could take past a tap.
LEMMA StandingWidens ==
  ASSUME IInv, Kept, MarkWidened, UNCHANGED <<place, wire>>,
         open \subseteq open', docGrants \subseteq docGrants',
         \A b \in Spaces : roster[b] \subseteq roster'[b],
         \A b \in Spaces : spaceGrants[b] \subseteq spaceGrants'[b]
  PROVE  StandInv'
<1> SUFFICES ASSUME NEW k \in Sockets, feed'[k] \in HasRow
             PROVE  /\ feed'[k] \in {"authorized", "attached"} => ok'[k]
                    /\ ~Exempt(k)' /\ Passes(k)' => Settled(Holder[cred[k]])'
  BY DEF StandInv, wire
<1> USE DEF IInv
<1>1. feed'[k] = feed[k] /\ ok'[k] = ok[k] /\ cred'[k] = cred[k] /\ seen'[k] = seen[k]
  BY DEF wire
<1>2. feed'[k] \in {"authorized", "attached"} => ok'[k]
  BY <1>1 DEF StandInv
<1>3. ASSUME ~Exempt(k)', Passes(k)'
      PROVE  Settled(Holder[cred[k]])'
  <2>1. /\ feed[k] = "attached"
        /\ \A n \in Slots : ~Reading(taps[n])
        /\ marks'[k] = marks[k]
    BY <1>1, <1>3 DEF MarkWidened, Exempt, HasRow, InFlight, Slots, TypeOK
  <2>2. ~Exempt(k) /\ Passes(k)
    BY <1>1, <1>3, <2>1 DEF Exempt, Passes, StandInv, HasRow
  <2>3. Settled(Holder[cred[k]])
    BY <1>1, <2>2 DEF StandInv
  <2>4. CASE Entitled(Holder[cred[k]])
    BY <1>1, <2>4 DEF Settled, Entitled, Stands, SpaceRung, RosterRung
  <2>5. CASE \E n \in Slots : Ends(taps[n], Holder[cred[k]])
    <3>1. PICK n \in Slots : Ends(taps[n], Holder[cred[k]])
      BY <2>5
    <3>2. taps[n].op = "close" /\ Holder[cred[k]] \in taps[n].who
      BY <2>1, <3>1 DEF Ends, Holds, WillRead, Moving, Reading
    <3>3. taps'[n] = taps[n]
      BY <3>2 DEF Kept
    <3> QED BY <1>1, <3>2, <3>3 DEF Settled, Ends, Holds
  <2> QED BY <2>3, <2>4, <2>5 DEF Settled
<1> QED BY <1>2, <1>3

LEMMA NoTapFits == NoTap \in Tap /\ (NoTap.op \in OfRoster => NoTap.from \in Spaces)
BY DEF NoTap, NewTap, Tap, TapOps, Buckets, OfRoster

-----------------------------------------------------------------------------
(* The steps of a client, and one action of each other kind after another.  *)

\* While a client steps, the tables and the taps stay.
LEMMA TablesAside ==
  ASSUME IInv, UNCHANGED <<db, commits, taps>>
  PROVE  Kept /\ TapInv'
BY DEF Kept, IInv, TapInv

LEMMA ResolveUpgradePreserves ==
  ASSUME IInv, NEW k \in Sockets, ResolveUpgrade(k)
  PROVE  IInv'
<1> USE DEF IInv
<1>1. TypeOK'
  BY DEF ResolveUpgrade, TypeOK, db, InFlight
<1>2. TapInv'
  BY TablesAside DEF ResolveUpgrade
<1>3. SockInv'
  BY DEF ResolveUpgrade, SockInv, TypeOK
<1>4. CredInv'
  BY Holders DEF ResolveUpgrade, CredInv, SessionHolds, TokenHolds, Closing, Removing, Shuts, Parts, TypeOK, SockInv, db
<1>5. RoomInv'
  BY DEF ResolveUpgrade, RoomInv, HasRow, TypeOK, db
<1>6. StandInv'
  BY DEF ResolveUpgrade, StandInv, HasRow, TypeOK, db, Exempt, Passes, Settled, Entitled, Stands, SpaceRung,
         RosterRung, Ends, Holds, WillRead, Moving, SockInv
<1> QED BY <1>1, <1>2, <1>3, <1>4, <1>5, <1>6

LEMMA RegisterPreserves ==
  ASSUME IInv, NEW k \in Sockets, Register(k)
  PROVE  IInv'
<1> USE DEF IInv
<1>1. TypeOK'
  BY DEF Register, TypeOK, db, InFlight
<1>2. TapInv'
  BY TablesAside DEF Register
<1>3. SockInv'
  BY DEF Register, SockInv, TypeOK
<1>4. CredInv'
  BY Holders DEF Register, CredInv, SessionHolds, TokenHolds, Closing, Removing, Shuts, Parts, TypeOK, SockInv, db
<1>5. RoomInv'
  BY DEF Register, RoomInv, HasRow, TypeOK, db
<1>6. StandInv'
  BY DEF Register, StandInv, HasRow, TypeOK, db, Exempt, Passes, Settled, Entitled, Stands, SpaceRung,
         RosterRung, Ends, Holds, WillRead, Moving
<1> QED BY <1>1, <1>2, <1>3, <1>4, <1>5, <1>6

LEMMA DisconnectPreserves ==
  ASSUME IInv, NEW k \in Sockets, Disconnect(k)
  PROVE  IInv'
<1> USE DEF IInv
<1>1. TypeOK'
  BY DEF Disconnect, TypeOK, db, InFlight, Drop, Buckets
<1>2. TapInv'
  BY TablesAside DEF Disconnect
<1>3. SockInv'
  BY DEF Disconnect, SockInv, TypeOK, Drop
<1>4. CredInv'
  BY Holders DEF Disconnect, CredInv, SessionHolds, TokenHolds, Closing, Removing, Shuts, Parts, TypeOK, SockInv, db, Drop
<1>5. RoomInv'
  BY DEF Disconnect, RoomInv, HasRow, TypeOK, db, Drop
<1>6. StandInv'
  BY DEF Disconnect, StandInv, HasRow, TypeOK, db, Exempt, Passes, Settled, Entitled, Stands, SpaceRung,
         RosterRung, Ends, Holds, WillRead, Moving, Drop
<1> QED BY <1>1, <1>2, <1>3, <1>4, <1>5, <1>6

LEMMA ReadPrincipalPreserves ==
  ASSUME IInv, NEW k \in Sockets, ReadPrincipal(k)
  PROVE  IInv'
<1> USE DEF IInv
<1>1. TypeOK'
  BY DEF ReadPrincipal, TypeOK, db, InFlight
<1>2. TapInv'
  BY TablesAside DEF ReadPrincipal
<1>3. SockInv'
  BY DEF ReadPrincipal, SockInv, TypeOK
<1>4. CredInv'
  BY Holders DEF ReadPrincipal, CredInv, SessionHolds, TokenHolds, Closing, Removing, Shuts, Parts, TypeOK, SockInv, db, Live, LiveHolder, LiveUser, LiveAgent
<1>5. RoomInv'
  BY DEF ReadPrincipal, RoomInv, HasRow, TypeOK, db
<1>6. StandInv'
  BY DEF ReadPrincipal, StandInv, HasRow, TypeOK, db, Exempt, Passes, Settled, Entitled, Stands, SpaceRung,
         RosterRung, Ends, Holds, WillRead, Moving
<1> QED BY <1>1, <1>2, <1>3, <1>4, <1>5, <1>6

LEMMA ReadRowPreserves ==
  ASSUME IInv, NEW k \in Sockets, ReadRow(k)
  PROVE  IInv'
<1> USE DEF IInv
<1>1. TypeOK'
  <2>1. CASE trashed
    BY <2>1 DEF ReadRow, Drop, TypeOK, db, InFlight, Buckets
  <2>2. CASE ~trashed
    <3>1. ok' \in [Sockets -> BOOLEAN]
      BY <2>2 DEF ReadRow, TypeOK
    <3>2. seen' \in [Sockets -> Buckets] /\ marks' \in [Sockets -> SUBSET {"widened", "moved", "deleted", "unclosed"}]
      BY <2>2 DEF ReadRow, TypeOK
    <3>3. feed' \in [Sockets -> InFlight \cup {"none", "attached"}]
      BY <2>2 DEF ReadRow, TypeOK, InFlight
    <3> QED BY <3>1, <3>2, <3>3 DEF ReadRow, TypeOK, db
  <2> QED BY <2>1, <2>2
<1>2. TapInv'
  BY TablesAside DEF ReadRow
<1>3. SockInv'
  BY DEF ReadRow, SockInv, TypeOK, Drop
<1>4. CredInv'
  BY Holders DEF ReadRow, CredInv, SessionHolds, TokenHolds, Closing, Removing, Shuts, Parts, TypeOK, SockInv, db, Drop
<1>5. RoomInv'
  BY DEF ReadRow, RoomInv, HasRow, TypeOK, db, Drop
<1>6. StandInv'
  BY DEF ReadRow, StandInv, HasRow, TypeOK, db, Exempt, Passes, Settled, Entitled, Stands, SpaceRung,
         RosterRung, Ends, Holds, WillRead, Moving, Drop, Buckets
<1> QED BY <1>1, <1>2, <1>3, <1>4, <1>5, <1>6

LEMMA ReadSpacesPreserves ==
  ASSUME IInv, NEW k \in Sockets, ReadSpaces(k)
  PROVE  IInv'
<1> USE DEF IInv
<1>1. TypeOK'
  BY DEF ReadSpaces, TypeOK, db, InFlight
<1>2. TapInv'
  BY TablesAside DEF ReadSpaces
<1>3. SockInv'
  BY DEF ReadSpaces, SockInv, TypeOK
<1>4. CredInv'
  BY Holders DEF ReadSpaces, CredInv, SessionHolds, TokenHolds, Closing, Removing, Shuts, Parts, TypeOK, SockInv, db
<1>5. RoomInv'
  BY DEF ReadSpaces, RoomInv, HasRow, TypeOK, db
<1>6. StandInv'
  BY DEF ReadSpaces, StandInv, HasRow, TypeOK, db, Exempt, Passes, Settled, Entitled, Stands, SpaceRung,
         RosterRung, Ends, Holds, WillRead, Moving
<1> QED BY <1>1, <1>2, <1>3, <1>4, <1>5, <1>6

LEMMA ReadRosterPreserves ==
  ASSUME IInv, NEW k \in Sockets, ReadRoster(k)
  PROVE  IInv'
<1> USE DEF IInv
<1>1. TypeOK'
  BY DEF ReadRoster, TypeOK, db, InFlight
<1>2. TapInv'
  BY TablesAside DEF ReadRoster
<1>3. SockInv'
  BY DEF ReadRoster, SockInv, TypeOK
<1>4. CredInv'
  BY Holders DEF ReadRoster, CredInv, SessionHolds, TokenHolds, Closing, Removing, Shuts, Parts, TypeOK, SockInv, db
<1>5. RoomInv'
  BY DEF ReadRoster, RoomInv, HasRow, TypeOK, db
<1>6. StandInv'
  BY DEF ReadRoster, StandInv, HasRow, TypeOK, db, Exempt, Passes, Settled, Entitled, Stands, SpaceRung,
         RosterRung, Ends, Holds, WillRead, Moving
<1> QED BY <1>1, <1>2, <1>3, <1>4, <1>5, <1>6

LEMMA ReadGrantsPreserves ==
  ASSUME IInv, NEW k \in Sockets, ReadGrants(k)
  PROVE  IInv'
<1> USE DEF IInv
<1>1. TypeOK'
  BY DEF ReadGrants, TypeOK, db, InFlight, Drop, Buckets
<1>2. TapInv'
  BY TablesAside DEF ReadGrants
<1>3. SockInv'
  BY DEF ReadGrants, SockInv, TypeOK, Drop
<1>4. CredInv'
  BY Holders DEF ReadGrants, CredInv, SessionHolds, TokenHolds, Closing, Removing, Shuts, Parts, TypeOK, SockInv, db, Drop
<1>5. RoomInv'
  BY DEF ReadGrants, RoomInv, HasRow, TypeOK, db, Drop
<1>6. StandInv'
  BY DEF ReadGrants, StandInv, HasRow, TypeOK, db, Exempt, Passes, Settled, Entitled, Stands, SpaceRung,
         RosterRung, Ends, Holds, WillRead, Moving, Drop, GrantRung
<1> QED BY <1>1, <1>2, <1>3, <1>4, <1>5, <1>6

LEMMA AttachPreserves ==
  ASSUME IInv, NEW k \in Sockets, Attach(k)
  PROVE  IInv'
<1> USE DEF IInv
<1>1. TypeOK'
  BY DEF Attach, TypeOK, db, InFlight
<1>2. TapInv'
  BY TablesAside DEF Attach
<1>3. SockInv'
  BY DEF Attach, SockInv, TypeOK
<1>4. CredInv'
  BY Holders DEF Attach, CredInv, SessionHolds, TokenHolds, Closing, Removing, Shuts, Parts, TypeOK, SockInv, db
<1>5. RoomInv'
  BY DEF Attach, RoomInv, HasRow, TypeOK, db
<1>6. StandInv'
  BY DEF Attach, StandInv, HasRow, TypeOK, db, Exempt, Passes, Settled, Entitled, Stands, SpaceRung,
         RosterRung, Ends, Holds, WillRead, Moving
<1> QED BY <1>1, <1>2, <1>3, <1>4, <1>5, <1>6

\* The end of sessions: whoever was fed under one of them is about to be closed,
\* under the session or as its holder, or is marked.
LEMMA EndSessionsPreserves ==
  ASSUME IInv, NEW gone \in SUBSET Sessions, NEW closing \in BOOLEAN,
         NEW who \in SUBSET Targets, EndSessions(gone, closing, who),
         \A s \in gone : closing => s \in who \/ Holder[s] \in who
  PROVE  IInv'
<1> USE DEF IInv
<1> DEFINE tap == IF closing THEN CloseTap(who) ELSE NoTap
<1>1. tap \in Tap /\ tap.op \notin OfRoster
  BY NewTaps DEF TapOps, Buckets, NewTap, CloseTap, NoTap, OfRoster
<1>2. /\ Kept /\ TapInv' /\ commits + 1 \in Slots
      /\ commits' \in 0..MaxCommits /\ taps' \in [1..MaxCommits -> Tap]
      /\ taps'[commits + 1] = tap
  <2> HIDE DEF tap
  <2>1. Commit(tap)
    BY DEF EndSessions, tap
  <2> QED BY <1>1, <2>1, CommitFacts
<1>3. /\ creds' = creds \ gone
      /\ UNCHANGED <<members, agents, place, trashed, open, roster, spaceGrants, docGrants, wire>>
      /\ UNCHANGED <<cred, feed>>
  BY DEF EndSessions, wire
<1>4. \A k \in Sockets :
        /\ marks[k] \subseteq marks'[k]
        /\ ~closing /\ cred[k] \in gone /\ feed[k] # "none" => "unclosed" \in marks'[k]
  BY DEF EndSessions
<1>5. TypeOK'
  <2>1. marks' \in [Sockets -> SUBSET {"widened", "moved", "deleted", "unclosed"}]
    BY DEF EndSessions, TypeOK
  <2> QED BY <1>2, <1>3, <2>1 DEF TypeOK, wire
<1>6. SockInv'
  BY <1>3, SocketsAside DEF wire
<1>7. CredInv'
  <2>1. \A y : (Closing(y) => Closing(y)') /\ (Removing(y) => Removing(y)')
    BY <1>2 DEF Closing, Removing, Shuts, Parts, Kept
  <2>2. \A y \in who : closing => Closing(y)'
    BY <1>2 DEF Closing, Shuts, CloseTap, NewTap
  <2> SUFFICES ASSUME NEW k \in Sockets, feed[k] # "none"
               PROVE  /\ \/ cred[k] \in creds' \/ "unclosed" \in marks'[k]
                         \/ Closing(cred[k])' \/ Closing(Holder[cred[k]])'
                      /\ cred[k] \in Sessions => SessionHolds(Holder[cred[k]])'
                      /\ cred[k] \in Tokens => TokenHolds(Holder[cred[k]])'
    BY <1>3 DEF CredInv
  <2>3. /\ cred[k] \in Sessions => SessionHolds(Holder[cred[k]])'
        /\ cred[k] \in Tokens => TokenHolds(Holder[cred[k]])'
    BY <1>3, <2>1 DEF CredInv, SessionHolds, TokenHolds
  <2>4. CASE cred[k] \in gone
    BY <1>3, <1>4, <2>2, <2>3, <2>4
  <2>5. CASE cred[k] \notin gone
    BY <1>3, <1>4, <2>1, <2>3, <2>5 DEF CredInv
  <2> QED BY <2>4, <2>5
<1>8. RoomInv'
  BY <1>2, <1>3, <1>4, RoomsAside
<1>9. StandInv'
  BY <1>2, <1>3, <1>4, StandingAside
<1> QED BY <1>2, <1>5, <1>6, <1>7, <1>8, <1>9

LEMMA SessionFacts ==
  ASSUME NEW u \in Users
  PROVE  /\ u \in Targets /\ SessionsOf(u) \subseteq Sessions
         /\ \A s \in SessionsOf(u) : Holder[s] = u
BY DEF Targets, Subjects, SessionsOf

LEMMA RevokeSessionsPreserves ==
  ASSUME IInv, NEW u \in Users, NEW closing \in BOOLEAN, RevokeSessions(u, closing)
  PROVE  IInv'
BY SessionFacts, EndSessionsPreserves DEF RevokeSessions

LEMMA SessionRevocationPreserves ==
  ASSUME IInv, NEW s \in Sessions, NEW closing \in BOOLEAN,
         SignOut(s, closing) \/ RevokeOtherSessions(s, closing) \/ RevokeSession(s)
  PROVE  IInv'
<1>1. s \in Targets /\ Holder[s] \in Users
  BY Holders DEF Targets, Creds
<1>2. CASE SignOut(s, closing)
  BY <1>1, <1>2, EndSessionsPreserves DEF SignOut
<1>3. CASE RevokeOtherSessions(s, closing)
  BY <1>1, <1>3, SessionFacts, EndSessionsPreserves DEF RevokeOtherSessions
<1>4. CASE RevokeSession(s)
  <2>1. EndSessions({s}, FALSE, {})
    BY <1>4 DEF RevokeSession
  <2>2. {s} \in SUBSET Sessions /\ FALSE \in BOOLEAN /\ {} \in SUBSET Targets
    OBVIOUS
  <2> QED BY <2>1, <2>2, EndSessionsPreserves
<1> QED BY <1>2, <1>3, <1>4

LEMMA TokenRevokePreserves ==
  ASSUME IInv, NEW t \in Tokens, TokenRevoke(t)
  PROVE  IInv'
<1> USE DEF IInv
<1>1. CloseTap({t}) \in Tap /\ (CloseTap({t}).op \in OfRoster => CloseTap({t}).from \in Spaces)
  BY NewTaps DEF TokenRevoke, TypeOK, TapOps, Buckets, Targets, Subjects, Creds, NewTap, CloseTap, NoTap, OfRoster
<1>2. /\ Kept /\ TapInv' /\ commits + 1 \in Slots
        /\ commits' \in 0..MaxCommits /\ taps' \in [1..MaxCommits -> Tap]
        /\ taps'[commits + 1] = CloseTap({t})
  BY <1>1, CommitFacts DEF TokenRevoke
<1>3. TypeOK'
  BY <1>2 DEF TokenRevoke, TypeOK, wire, Subjects, Buckets
<1>4. SockInv'
  BY SocketsAside DEF TokenRevoke, wire
<1>5. CredInv'
  <2>1. \A y : (Closing(y) => Closing(y)') /\ (Removing(y) => Removing(y)')
    BY <1>2 DEF Closing, Removing, Shuts, Parts, Kept
  <2>2. Closing(t)'
    BY <1>2 DEF Closing, Shuts, CloseTap, NewTap
  <2>3. creds' = creds \ {t} /\ UNCHANGED <<members, agents, cred, feed, marks>>
    BY DEF TokenRevoke, wire
  <2> QED BY <2>1, <2>2, <2>3 DEF CredInv, SessionHolds, TokenHolds
<1>6. RoomInv'
  BY <1>2, RoomsAside DEF TokenRevoke, wire, db
<1>7. StandInv'
  BY <1>2, StandingAside DEF TokenRevoke, wire, db
<1> QED BY <1>1, <1>2, <1>3, <1>4, <1>5, <1>6, <1>7

LEMMA AgentRevokePreserves ==
  ASSUME IInv, NEW a \in Agents, AgentRevoke(a)
  PROVE  IInv'
<1> USE DEF IInv
<1>1. CloseTap({a}) \in Tap /\ (CloseTap({a}).op \in OfRoster => CloseTap({a}).from \in Spaces)
  BY NewTaps DEF AgentRevoke, TypeOK, TapOps, Buckets, Targets, Subjects, Creds, NewTap, CloseTap, NoTap, OfRoster
<1>2. /\ Kept /\ TapInv' /\ commits + 1 \in Slots
        /\ commits' \in 0..MaxCommits /\ taps' \in [1..MaxCommits -> Tap]
        /\ taps'[commits + 1] = CloseTap({a})
  BY <1>1, CommitFacts DEF AgentRevoke
<1>3. TypeOK'
  BY <1>2 DEF AgentRevoke, TypeOK, wire, Subjects, Buckets
<1>4. SockInv'
  BY SocketsAside DEF AgentRevoke, wire
<1>5. CredInv'
  BY <1>2, Holders DEF AgentRevoke, CredInv, SessionHolds, TokenHolds, Closing, Removing, Shuts, Parts, Kept, CloseTap, NewTap, wire, SockInv, TypeOK
<1>6. RoomInv'
  BY <1>2, RoomsAside DEF AgentRevoke, wire, db
<1>7. StandInv'
  BY <1>2, StandingAside DEF AgentRevoke, wire, db
<1> QED BY <1>1, <1>2, <1>3, <1>4, <1>5, <1>6, <1>7

LEMMA WorkspaceMemberRemovePreserves ==
  ASSUME IInv, NEW u \in Users, WorkspaceMemberRemove(u)
  PROVE  IInv'
<1> USE DEF IInv
<1>1. NewTap("owned", Root, Root, {u}) \in Tap /\ (NewTap("owned", Root, Root, {u}).op \in OfRoster => NewTap("owned", Root, Root, {u}).from \in Spaces)
  BY NewTaps DEF WorkspaceMemberRemove, TypeOK, TapOps, Buckets, Targets, Subjects, Creds, NewTap, CloseTap, NoTap, OfRoster
<1>2. /\ Kept /\ TapInv' /\ commits + 1 \in Slots
        /\ commits' \in 0..MaxCommits /\ taps' \in [1..MaxCommits -> Tap]
        /\ taps'[commits + 1] = NewTap("owned", Root, Root, {u})
  BY <1>1, CommitFacts DEF WorkspaceMemberRemove
<1>3. TypeOK'
  BY <1>2 DEF WorkspaceMemberRemove, TypeOK, wire, Subjects, Buckets
<1>4. SockInv'
  BY SocketsAside DEF WorkspaceMemberRemove, wire
<1>5. CredInv'
  BY SMTT(20), <1>2, Holders DEF WorkspaceMemberRemove, CredInv, SessionHolds, TokenHolds, Closing, Removing, Shuts, Parts, Kept, CloseTap, NewTap, wire, SockInv, TypeOK
<1>6. RoomInv'
  BY <1>2, RoomsAside DEF WorkspaceMemberRemove, wire, db
<1>7. StandInv'
  BY <1>2, StandingAside DEF WorkspaceMemberRemove, wire, db
<1> QED BY <1>1, <1>2, <1>3, <1>4, <1>5, <1>6, <1>7

LEMMA MemberUpdateRolePreserves ==
  ASSUME IInv, NEW u \in Users, MemberUpdateRole(u)
  PROVE  IInv'
<1> USE DEF IInv
<1>1. CloseTap({u}) \in Tap /\ (CloseTap({u}).op \in OfRoster => CloseTap({u}).from \in Spaces)
  BY NewTaps DEF MemberUpdateRole, TypeOK, TapOps, Buckets, Targets, Subjects, Creds, NewTap, CloseTap, NoTap, OfRoster
<1>2. /\ Kept /\ TapInv' /\ commits + 1 \in Slots
        /\ commits' \in 0..MaxCommits /\ taps' \in [1..MaxCommits -> Tap]
        /\ taps'[commits + 1] = CloseTap({u})
  BY <1>1, CommitFacts DEF MemberUpdateRole
<1>3. TypeOK'
  BY <1>2 DEF MemberUpdateRole, TypeOK, wire, Subjects, Buckets, db
<1>4. SockInv'
  BY SocketsAside DEF MemberUpdateRole, wire
<1>5. CredInv'
  BY <1>2, CredentialsAside DEF MemberUpdateRole, wire, db
<1>6. RoomInv'
  BY <1>2, RoomsAside DEF MemberUpdateRole, wire, db
<1>7. StandInv'
  BY <1>2, StandingAside DEF MemberUpdateRole, wire, db
<1> QED BY <1>1, <1>2, <1>3, <1>4, <1>5, <1>6, <1>7

LEMMA SpaceMemberRemovePreserves ==
  ASSUME IInv, NEW b \in Spaces, NEW u \in Users, SpaceMemberRemove(b, u)
  PROVE  IInv'
<1> USE DEF IInv
<1>1. CloseTap({u}) \in Tap /\ (CloseTap({u}).op \in OfRoster => CloseTap({u}).from \in Spaces)
  BY NewTaps DEF SpaceMemberRemove, TypeOK, TapOps, Buckets, Targets, Subjects, Creds, NewTap, CloseTap, NoTap, OfRoster
<1>2. /\ Kept /\ TapInv' /\ commits + 1 \in Slots
        /\ commits' \in 0..MaxCommits /\ taps' \in [1..MaxCommits -> Tap]
        /\ taps'[commits + 1] = CloseTap({u})
  BY <1>1, CommitFacts DEF SpaceMemberRemove
<1>3. TypeOK'
  BY <1>2 DEF SpaceMemberRemove, TypeOK, wire, Subjects, Buckets
<1>4. SockInv'
  BY SocketsAside DEF SpaceMemberRemove, wire
<1>5. CredInv'
  BY <1>2, CredentialsAside DEF SpaceMemberRemove, wire
<1>6. RoomInv'
  BY <1>2, RoomsAside DEF SpaceMemberRemove, wire, db
<1>7. StandInv'
  BY SMTT(20), <1>2 DEF SpaceMemberRemove, StandInv, HasRow, TypeOK, Kept, CloseTap, NewTap, wire, Exempt, Passes, Settled, Entitled, Stands, SpaceRung,
         RosterRung, Ends, Holds, WillRead, Moving
<1> QED BY <1>1, <1>2, <1>3, <1>4, <1>5, <1>6, <1>7

LEMMA SpaceGrantRevokePreserves ==
  ASSUME IInv, NEW b \in Spaces, NEW x \in Subjects, SpaceGrantRevoke(b, x)
  PROVE  IInv'
<1> USE DEF IInv
<1>1. CloseTap({x}) \in Tap /\ (CloseTap({x}).op \in OfRoster => CloseTap({x}).from \in Spaces)
  BY NewTaps DEF SpaceGrantRevoke, TypeOK, TapOps, Buckets, Targets, Subjects, Creds, NewTap, CloseTap, NoTap, OfRoster
<1>2. /\ Kept /\ TapInv' /\ commits + 1 \in Slots
        /\ commits' \in 0..MaxCommits /\ taps' \in [1..MaxCommits -> Tap]
        /\ taps'[commits + 1] = CloseTap({x})
  BY <1>1, CommitFacts DEF SpaceGrantRevoke
<1>3. TypeOK'
  BY <1>2 DEF SpaceGrantRevoke, TypeOK, wire, Subjects, Buckets
<1>4. SockInv'
  BY SocketsAside DEF SpaceGrantRevoke, wire
<1>5. CredInv'
  BY <1>2, CredentialsAside DEF SpaceGrantRevoke, wire
<1>6. RoomInv'
  BY <1>2, RoomsAside DEF SpaceGrantRevoke, wire, db
<1>7. StandInv'
  BY <1>2 DEF SpaceGrantRevoke, StandInv, HasRow, TypeOK, Kept, CloseTap, NewTap, wire, Exempt, Passes, Settled, Entitled, Stands, SpaceRung,
         RosterRung, Ends, Holds, WillRead, Moving
<1> QED BY <1>1, <1>2, <1>3, <1>4, <1>5, <1>6, <1>7

LEMMA DocGrantRevokePreserves ==
  ASSUME IInv, NEW x \in Subjects, DocGrantRevoke(x)
  PROVE  IInv'
<1> USE DEF IInv
<1>1. CloseTap({x}) \in Tap /\ (CloseTap({x}).op \in OfRoster => CloseTap({x}).from \in Spaces)
  BY NewTaps DEF DocGrantRevoke, TypeOK, TapOps, Buckets, Targets, Subjects, Creds, NewTap, CloseTap, NoTap, OfRoster
<1>2. /\ Kept /\ TapInv' /\ commits + 1 \in Slots
        /\ commits' \in 0..MaxCommits /\ taps' \in [1..MaxCommits -> Tap]
        /\ taps'[commits + 1] = CloseTap({x})
  BY <1>1, CommitFacts DEF DocGrantRevoke
<1>3. TypeOK'
  BY <1>2 DEF DocGrantRevoke, TypeOK, wire, Subjects, Buckets
<1>4. SockInv'
  BY SocketsAside DEF DocGrantRevoke, wire
<1>5. CredInv'
  BY <1>2, CredentialsAside DEF DocGrantRevoke, wire
<1>6. RoomInv'
  BY <1>2, RoomsAside DEF DocGrantRevoke, wire, db
<1>7. StandInv'
  BY SMTT(20), <1>2 DEF DocGrantRevoke, StandInv, HasRow, TypeOK, Kept, CloseTap, NewTap, wire, Exempt, Passes, Settled, Entitled, Stands, SpaceRung,
         RosterRung, Ends, Holds, WillRead, Moving
<1> QED BY <1>1, <1>2, <1>3, <1>4, <1>5, <1>6, <1>7

LEMMA SpaceNarrowPreserves ==
  ASSUME IInv, NEW b \in Spaces, SpaceNarrow(b)
  PROVE  IInv'
<1> USE DEF IInv
<1>1. NewTap("retained", b, Root, {}) \in Tap /\ (NewTap("retained", b, Root, {}).op \in OfRoster => NewTap("retained", b, Root, {}).from \in Spaces)
  BY NewTaps DEF SpaceNarrow, TypeOK, TapOps, Buckets, Targets, Subjects, Creds, NewTap, CloseTap, NoTap, OfRoster
<1>2. /\ Kept /\ TapInv' /\ commits + 1 \in Slots
        /\ commits' \in 0..MaxCommits /\ taps' \in [1..MaxCommits -> Tap]
        /\ taps'[commits + 1] = NewTap("retained", b, Root, {})
  BY <1>1, CommitFacts DEF SpaceNarrow
<1>3. TypeOK'
  BY <1>2 DEF SpaceNarrow, TypeOK, wire, Subjects, Buckets
<1>4. SockInv'
  BY SocketsAside DEF SpaceNarrow, wire
<1>5. CredInv'
  BY <1>2, CredentialsAside DEF SpaceNarrow, wire
<1>6. RoomInv'
  BY <1>2, RoomsAside DEF SpaceNarrow, wire, db
<1>7. StandInv'
  BY <1>2 DEF SpaceNarrow, StandInv, HasRow, TypeOK, Kept, CloseTap, NewTap, wire, Exempt, Passes, Settled, Entitled, Stands, SpaceRung,
         RosterRung, Ends, Holds, WillRead, Moving
<1> QED BY <1>1, <1>2, <1>3, <1>4, <1>5, <1>6, <1>7

LEMMA DocDeletePreserves ==
  ASSUME IInv, DocDelete
  PROVE  IInv'
<1> USE DEF IInv
<1>1. NewTap("room", Root, Root, {}) \in Tap /\ (NewTap("room", Root, Root, {}).op \in OfRoster => NewTap("room", Root, Root, {}).from \in Spaces)
  BY NewTaps DEF DocDelete, TypeOK, TapOps, Buckets, Targets, Subjects, Creds, NewTap, CloseTap, NoTap, OfRoster
<1>2. /\ Kept /\ TapInv' /\ commits + 1 \in Slots
        /\ commits' \in 0..MaxCommits /\ taps' \in [1..MaxCommits -> Tap]
        /\ taps'[commits + 1] = NewTap("room", Root, Root, {})
  BY <1>1, CommitFacts DEF DocDelete
<1>3. TypeOK'
  BY <1>2 DEF DocDelete, TypeOK, wire, Subjects, Buckets
<1>4. SockInv'
  BY SocketsAside DEF DocDelete, wire
<1>5. CredInv'
  BY <1>2, CredentialsAside DEF DocDelete, wire
<1>6. RoomInv'
  BY <1>2 DEF DocDelete, RoomInv, NewTap, HasRow, InFlight, TypeOK, wire
<1>7. StandInv'
  BY <1>2, StandingAside DEF DocDelete
<1> QED BY <1>1, <1>2, <1>3, <1>4, <1>5, <1>6, <1>7

LEMMA DocRestorePreserves ==
  ASSUME IInv, DocRestore
  PROVE  IInv'
<1> USE DEF IInv
<1>1. NoTap \in Tap /\ (NoTap.op \in OfRoster => NoTap.from \in Spaces)
  BY NoTapFits
<1>2. /\ Kept /\ TapInv' /\ commits + 1 \in Slots
        /\ commits' \in 0..MaxCommits /\ taps' \in [1..MaxCommits -> Tap]
        /\ taps'[commits + 1] = NoTap
  BY <1>1, CommitFacts DEF DocRestore
<1>3. TypeOK'
  BY <1>2 DEF DocRestore, TypeOK, wire, Subjects, Buckets
<1>4. SockInv'
  BY SocketsAside DEF DocRestore, wire
<1>5. CredInv'
  BY <1>2, CredentialsAside DEF DocRestore, wire
<1>6. RoomInv'
  BY DEF DocRestore, RoomInv
<1>7. StandInv'
  BY <1>2, StandingAside DEF DocRestore, wire, db
<1> QED BY <1>1, <1>2, <1>3, <1>4, <1>5, <1>6, <1>7

LEMMA WorkspaceMemberAddPreserves ==
  ASSUME IInv, NEW u \in Users, WorkspaceMemberAdd(u)
  PROVE  IInv'
<1> USE DEF IInv
<1>1. NoTap \in Tap /\ (NoTap.op \in OfRoster => NoTap.from \in Spaces)
  BY NoTapFits
<1>2. /\ Kept /\ TapInv' /\ commits + 1 \in Slots
        /\ commits' \in 0..MaxCommits /\ taps' \in [1..MaxCommits -> Tap]
        /\ taps'[commits + 1] = NoTap
  BY <1>1, CommitFacts DEF WorkspaceMemberAdd
<1>3. TypeOK'
  BY <1>2 DEF WorkspaceMemberAdd, TypeOK, wire, Subjects, Buckets, MarkWidened
<1>4. SockInv'
  BY SocketsAside DEF WorkspaceMemberAdd, wire
<1>5. CredInv'
  BY <1>2, CredentialsAside DEF WorkspaceMemberAdd, MarkWidened, wire
<1>6. RoomInv'
  BY <1>2, RoomsAside DEF WorkspaceMemberAdd, wire, db, MarkWidened, TypeOK
<1>7. StandInv'
  BY <1>2, StandingWidens DEF WorkspaceMemberAdd, TypeOK
<1> QED BY <1>1, <1>2, <1>3, <1>4, <1>5, <1>6, <1>7

LEMMA SpaceMemberAddPreserves ==
  ASSUME IInv, NEW b \in Spaces, NEW u \in Users, SpaceMemberAdd(b, u)
  PROVE  IInv'
<1> USE DEF IInv
<1>1. NoTap \in Tap /\ (NoTap.op \in OfRoster => NoTap.from \in Spaces)
  BY NoTapFits
<1>2. /\ Kept /\ TapInv' /\ commits + 1 \in Slots
        /\ commits' \in 0..MaxCommits /\ taps' \in [1..MaxCommits -> Tap]
        /\ taps'[commits + 1] = NoTap
  BY <1>1, CommitFacts DEF SpaceMemberAdd
<1>3. TypeOK'
  BY <1>2 DEF SpaceMemberAdd, TypeOK, wire, Subjects, Buckets, MarkWidened
<1>4. SockInv'
  BY SocketsAside DEF SpaceMemberAdd, wire
<1>5. CredInv'
  BY <1>2, CredentialsAside DEF SpaceMemberAdd, MarkWidened, wire
<1>6. RoomInv'
  BY <1>2, RoomsAside DEF SpaceMemberAdd, wire, db, MarkWidened, TypeOK
<1>7. StandInv'
  BY <1>2, StandingWidens DEF SpaceMemberAdd, TypeOK
<1> QED BY <1>1, <1>2, <1>3, <1>4, <1>5, <1>6, <1>7

LEMMA SpaceGrantPreserves ==
  ASSUME IInv, NEW b \in Spaces, NEW x \in Subjects, SpaceGrant(b, x)
  PROVE  IInv'
<1> USE DEF IInv
<1>1. NoTap \in Tap /\ (NoTap.op \in OfRoster => NoTap.from \in Spaces)
  BY NoTapFits
<1>2. /\ Kept /\ TapInv' /\ commits + 1 \in Slots
        /\ commits' \in 0..MaxCommits /\ taps' \in [1..MaxCommits -> Tap]
        /\ taps'[commits + 1] = NoTap
  BY <1>1, CommitFacts DEF SpaceGrant
<1>3. TypeOK'
  BY <1>2 DEF SpaceGrant, TypeOK, wire, Subjects, Buckets, MarkWidened
<1>4. SockInv'
  BY SocketsAside DEF SpaceGrant, wire
<1>5. CredInv'
  BY <1>2, CredentialsAside DEF SpaceGrant, MarkWidened, wire
<1>6. RoomInv'
  BY <1>2, RoomsAside DEF SpaceGrant, wire, db, MarkWidened, TypeOK
<1>7. StandInv'
  BY <1>2, StandingWidens DEF SpaceGrant, TypeOK
<1> QED BY <1>1, <1>2, <1>3, <1>4, <1>5, <1>6, <1>7

LEMMA DocGrantPreserves ==
  ASSUME IInv, NEW x \in Subjects, DocGrant(x)
  PROVE  IInv'
<1> USE DEF IInv
<1>1. NoTap \in Tap /\ (NoTap.op \in OfRoster => NoTap.from \in Spaces)
  BY NoTapFits
<1>2. /\ Kept /\ TapInv' /\ commits + 1 \in Slots
        /\ commits' \in 0..MaxCommits /\ taps' \in [1..MaxCommits -> Tap]
        /\ taps'[commits + 1] = NoTap
  BY <1>1, CommitFacts DEF DocGrant
<1>3. TypeOK'
  BY <1>2 DEF DocGrant, TypeOK, wire, Subjects, Buckets, MarkWidened
<1>4. SockInv'
  BY SocketsAside DEF DocGrant, wire
<1>5. CredInv'
  BY <1>2, CredentialsAside DEF DocGrant, MarkWidened, wire
<1>6. RoomInv'
  BY <1>2, RoomsAside DEF DocGrant, wire, db, MarkWidened, TypeOK
<1>7. StandInv'
  BY <1>2, StandingWidens DEF DocGrant, TypeOK
<1> QED BY <1>1, <1>2, <1>3, <1>4, <1>5, <1>6, <1>7

LEMMA SpaceOpenPreserves ==
  ASSUME IInv, NEW b \in Spaces, SpaceOpen(b)
  PROVE  IInv'
<1> USE DEF IInv
<1>1. NoTap \in Tap /\ (NoTap.op \in OfRoster => NoTap.from \in Spaces)
  BY NoTapFits
<1>2. /\ Kept /\ TapInv' /\ commits + 1 \in Slots
        /\ commits' \in 0..MaxCommits /\ taps' \in [1..MaxCommits -> Tap]
        /\ taps'[commits + 1] = NoTap
  BY <1>1, CommitFacts DEF SpaceOpen
<1>3. TypeOK'
  BY <1>2 DEF SpaceOpen, TypeOK, wire, Subjects, Buckets, MarkWidened
<1>4. SockInv'
  BY SocketsAside DEF SpaceOpen, wire
<1>5. CredInv'
  BY <1>2, CredentialsAside DEF SpaceOpen, MarkWidened, wire
<1>6. RoomInv'
  BY <1>2, RoomsAside DEF SpaceOpen, wire, db, MarkWidened, TypeOK
<1>7. StandInv'
  BY <1>2, StandingWidens DEF SpaceOpen, TypeOK
<1> QED BY <1>1, <1>2, <1>3, <1>4, <1>5, <1>6, <1>7

\* What a move leaves of a standing: whoever is entitled before it is entitled
\* after it, or held or still to be read by its tap.
LEMMA CrossKeepsSettled ==
  ASSUME IInv, NEW to \in Buckets, NEW adopt \in BOOLEAN, NEW whole \in BOOLEAN,
         Cross(to, adopt, whole), Kept, commits + 1 \in Slots,
         taps'[commits + 1] = NewTap("after", place, to, IF adopt THEN docGrants ELSE {}),
         NEW x \in Subjects, Settled(x), x \in Users \/ Stands(x, to) \/ Closing(x)
  PROVE  Entitled(x)' \/ \E n \in Slots : Ends(taps[n], x)'
<1> USE DEF IInv
<1>1. CASE x = Creator
  BY <1>1 DEF Entitled
<1>2. CASE x \in docGrants
  <2>1. CASE adopt
    BY <1>2, <2>1 DEF Ends, Holds, Moving, NewTap
  <2>2. CASE ~adopt
    BY <1>2, <2>2 DEF Cross, Entitled
  <2> QED BY <2>1, <2>2
<1>3. CASE Stands(x, place)
  <2>1. CASE to \in Spaces \ open
    <3>1. CASE x \in Users
      BY <1>3, <2>1, <3>1 DEF Cross, Ends, WillRead, NewTap, Stands, SpaceRung, RosterRung
    <3>2. CASE Stands(x, to)
      BY <3>2 DEF Cross, Entitled, Stands, SpaceRung, RosterRung
    <3>3. CASE Closing(x)
      BY <3>3 DEF Closing, Shuts, Kept, Ends, Holds
    <3> QED BY <3>1, <3>2, <3>3
  <2>2. CASE to \notin Spaces \ open
    <3>1. CASE x \in Users \/ to = Root
      BY <2>2, <3>1 DEF Cross, Entitled, Stands, SpaceRung, Buckets
    <3>2. CASE Stands(x, to)
      BY <3>2 DEF Cross, Entitled, Stands, SpaceRung, RosterRung
    <3>3. CASE Closing(x)
      BY <3>3 DEF Closing, Shuts, Kept, Ends, Holds
    <3> QED BY <3>1, <3>2, <3>3
  <2> QED BY <2>1, <2>2
<1>4. CASE \E n \in Slots : Ends(taps[n], x)
  BY <1>4 DEF Cross, Kept, Ends, Holds, WillRead, Moving, Stands, SpaceRung, RosterRung
<1> QED BY <1>1, <1>2, <1>3, <1>4 DEF Settled, Entitled

LEMMA CrossPreserves ==
  ASSUME IInv, NEW to \in Buckets, NEW adopt \in BOOLEAN, NEW whole \in BOOLEAN,
         Cross(to, adopt, whole)
  PROVE  IInv'
<1> DEFINE tap == NewTap("after", place, to, IF adopt THEN docGrants ELSE {})
<1> USE DEF IInv
<1>1. tap \in Tap /\ tap.op \notin OfRoster
  BY NewTaps DEF TypeOK, TapOps, Buckets, Targets, NewTap, Tap, OfRoster
<1>2. /\ Kept /\ TapInv' /\ commits + 1 \in Slots
      /\ commits' \in 0..MaxCommits /\ taps' \in [1..MaxCommits -> Tap]
      /\ taps'[commits + 1] = tap
  <2> HIDE DEF tap
  <2>1. Commit(tap)
    BY DEF Cross, tap
  <2> QED BY <1>1, <2>1, CommitFacts
<1>3. TypeOK'
  <2>1. docGrants' \subseteq Subjects /\ place' \in Buckets
    BY DEF Cross, TypeOK
  <2>2. seen' \in [Sockets -> Buckets]
    BY DEF Cross, TypeOK
  <2>3. marks' \in [Sockets -> SUBSET {"widened", "moved", "deleted", "unclosed"}]
    BY DEF Cross, TypeOK
  <2> QED BY <1>2, <2>1, <2>2, <2>3 DEF Cross, TypeOK
<1>4. SockInv'
  BY SocketsAside DEF Cross
<1>5. CredInv'
  BY <1>2, CredentialsAside DEF Cross
<1>6. RoomInv'
  BY DEF Cross, RoomInv
<1>7. StandInv'
  <2> SUFFICES ASSUME NEW k \in Sockets, feed[k] \in HasRow
               PROVE  /\ feed[k] \in {"authorized", "attached"} => ok[k]
                      /\ ~Exempt(k)' /\ Passes(k)' => Settled(Holder[cred[k]])'
    BY DEF StandInv, Cross
  <2>1. feed[k] \in {"authorized", "attached"} => ok[k]
    BY DEF StandInv
  <2>2. ASSUME ~Exempt(k)', Passes(k)'
        PROVE  Settled(Holder[cred[k]])'
    <3>1. cred[k] \in Creds /\ cred'[k] = cred[k] /\ ok'[k] = ok[k]
      BY DEF SockInv, HasRow, Cross
    <3>2. Holder[cred[k]] \in Users /\ Holder[cred[k]] \in Subjects
      BY <2>2, <3>1, Holders DEF Exempt, Cross, HasRow, InFlight, TypeOK, Subjects
    <3>3. ~Exempt(k)
      BY <2>2, <3>1, <3>2 DEF Exempt, Cross, TypeOK
    <3>4. CASE seen'[k] = seen[k]
      <4>1. Passes(k)
        BY <2>2, <3>1, <3>4 DEF Passes, Cross, Stands, SpaceRung, RosterRung
      <4>2. Settled(Holder[cred[k]])
        BY <3>3, <4>1 DEF StandInv
      <4> QED BY <1>2, <3>1, <3>2, <4>2, CrossKeepsSettled DEF Settled
    <3>5. CASE seen'[k] # seen[k]
      <4>1. seen'[k] = place' /\ place' = to
        BY <3>5 DEF Cross, TypeOK
      <4>2. CASE ok[k] \/ Holder[cred[k]] \in docGrants'
        <5>1. Passes(k)
          BY <4>2 DEF Passes, Cross
        <5>2. Settled(Holder[cred[k]])
          BY <3>3, <5>1 DEF StandInv
        <5> QED BY <1>2, <3>1, <3>2, <5>2, CrossKeepsSettled DEF Settled
      <4>3. CASE Stands(Holder[cred[k]], seen[k])'
        BY <3>1, <4>1, <4>3 DEF Settled, Entitled
      <4> QED BY <2>2, <3>1, <4>2, <4>3 DEF Passes
    <3> QED BY <3>4, <3>5
  <2> QED BY <2>1, <2>2
<1> QED BY <1>2, <1>3, <1>4, <1>5, <1>6, <1>7

-----------------------------------------------------------------------------
(* The steps of a tap: what it will do to a feed, it does not forget.       *)

\* A tap that stays as it is ends for the same subjects, while no rung changes.
LEMMA KeptTapStillEnds ==
  ASSUME NEW m \in Slots, NEW x, taps'[m] = taps[m], Ends(taps[m], x),
         UNCHANGED <<open, roster, spaceGrants>>
  PROVE  Ends(taps[m], x)'
<1>1. ASSUME NEW b PROVE Stands(x, b)' = Stands(x, b)
  BY DEF Stands, SpaceRung, RosterRung
<1>2. CASE Holds(taps[m], x)
  BY <1>2 DEF Ends, Holds
<1>3. CASE x \in Users /\ WillRead(taps[m], x)
  BY <1>1, <1>3 DEF Ends, WillRead
<1> QED BY <1>2, <1>3 DEF Ends

\* A tap that turns keeps its hold on the feeds of the members it is to part.
LEMMA TurnPreserves ==
  ASSUME IInv, NEW n \in Slots, NEW tap \in Tap, TapTurns(n, tap),
         taps[n].op \notin {"none", "close", "room"},
         tap.op \in OfRoster => tap.from \in Spaces,
         taps[n].op = "owned" =>
           /\ tap.op = "close" /\ taps[n].who \subseteq tap.who
           /\ \A a \in agents : OwnerOf[a] \in taps[n].who => a \in tap.who,
         \A k \in Sockets : feed[k] # "none" /\ Ends(taps[n], Holder[cred[k]]) =>
           Settled(Holder[cred[k]])'
  PROVE  IInv'
<1> USE DEF IInv
<1>1. /\ taps' = [taps EXCEPT ![n] = tap]
      /\ UNCHANGED <<creds, members, agents, place, trashed, open, roster, spaceGrants,
                     docGrants, commits, cred, sock, feed, seen, ok, marks>>
  BY DEF TapTurns, db, wire
<1>2. /\ taps' \in [1..MaxCommits -> Tap]
      /\ taps'[n] = tap
      /\ \A m \in Slots : m # n => taps'[m] = taps[m]
  BY <1>1 DEF TypeOK, Slots
<1>3. TypeOK'
  BY <1>1, <1>2 DEF TypeOK
<1>4. TapInv'
  BY <1>1, <1>2 DEF TapInv
<1>5. SockInv'
  BY <1>1, SocketsAside
<1>6. CredInv'
  <2>1. ASSUME NEW x, Closing(x)
        PROVE  Closing(x)'
    BY <1>2, <2>1 DEF Closing, Shuts
  <2>2. ASSUME NEW x, Removing(x)
        PROVE  Removing(x)' \/ (Closing(x)' /\ \A a \in agents : OwnerOf[a] = x => Closing(a)')
    <3>1. PICK m \in Slots : Parts(taps[m], x)
      BY <2>2 DEF Removing
    <3>2. CASE m # n
      BY <1>2, <3>1, <3>2 DEF Removing, Parts
    <3>3. CASE m = n
      BY <1>2, <3>1, <3>3 DEF Closing, Parts, Shuts
    <3> QED BY <3>2, <3>3
  <2> QED BY <1>1, <2>1, <2>2 DEF CredInv, SessionHolds, TokenHolds
<1>7. RoomInv'
  BY <1>1, <1>2 DEF RoomInv
<1>8. StandInv'
  <2> SUFFICES ASSUME NEW k \in Sockets, feed[k] \in HasRow, ~Exempt(k), Passes(k)
               PROVE  Settled(Holder[cred[k]])'
    BY <1>1 DEF StandInv, Exempt, Passes, Stands, SpaceRung, RosterRung
  <2>1. Settled(Holder[cred[k]])
    BY DEF StandInv
  <2>2. CASE Entitled(Holder[cred[k]])
    BY <1>1, <2>2 DEF Settled, Entitled, Stands, SpaceRung, RosterRung
  <2>3. ASSUME NEW m \in Slots, m # n, Ends(taps[m], Holder[cred[k]])
        PROVE  Settled(Holder[cred[k]])'
    <3>1. Ends(taps[m], Holder[cred[k]])'
      BY <1>1, <1>2, <2>3, KeptTapStillEnds
    <3> QED BY <3>1 DEF Settled
  <2>4. CASE Ends(taps[n], Holder[cred[k]])
    BY <2>4 DEF HasRow
  <2> QED BY <2>1, <2>2, <2>3, <2>4 DEF Settled
<1> QED BY <1>3, <1>4, <1>5, <1>6, <1>7, <1>8

\* What a tap reads with, and reads.
LEMMA TapFields ==
  ASSUME IInv, NEW n \in Slots
  PROVE  /\ taps[n].op \in TapOps /\ taps[n].from \in Buckets /\ taps[n].who \subseteq Targets
         /\ members \subseteq Targets /\ Users \subseteq Targets /\ Root \in Buckets
         /\ taps[n].op \in OfRoster => roster[taps[n].from] \subseteq Targets
BY DEF IInv, TypeOK, TapInv, Slots, Tap, Targets, Subjects, Buckets

\* Whose feed it is, and that a member's feed is a live member's or about to end.
LEMMA FeedHolders ==
  ASSUME IInv, NEW k \in Sockets, feed[k] # "none"
  PROVE  /\ cred[k] \in Creds
         /\ Holder[cred[k]] \in Subjects
         /\ Holder[cred[k]] \in Users => SessionHolds(Holder[cred[k]])
<1>1. cred[k] \in Creds
  BY DEF IInv, SockInv
<1> QED BY <1>1, Holders DEF IInv, CredInv

\* A user whose membership a tap found missing is being closed by another.
LEMMA GoneAreClosed ==
  ASSUME IInv, NEW x \in Users, SessionHolds(x), x \notin members,
         NEW n \in Slots, taps[n].op \notin {"close", "owned"},
         \A m \in Slots : m # n => taps'[m] = taps[m]
  PROVE  Settled(x)'
<1>1. PICK m \in Slots : taps[m].op \in {"close", "owned"} /\ x \in taps[m].who
  BY DEF SessionHolds, Closing, Removing, Shuts, Parts
<1>2. taps'[m] = taps[m]
  BY <1>1
<1> QED BY <1>1, <1>2 DEF Settled, Ends, Holds

LEMMA TapReadsOwnedPreserves ==
  ASSUME IInv, NEW n \in Slots, TapReadsOwned(n)
  PROVE  IInv'
<1> USE DEF IInv
<1> DEFINE tap == CloseTap(taps[n].who \cup {a \in agents : OwnerOf[a] \in taps[n].who})
<1>1. /\ tap \in Tap /\ tap.op = "close" /\ taps[n].who \subseteq tap.who
      /\ \A a \in agents : OwnerOf[a] \in taps[n].who => a \in tap.who
  BY DEF TypeOK, CloseTap, NewTap, Tap, TapOps, Buckets, Targets, Subjects, Slots
<1>2. TapTurns(n, tap) /\ taps[n].op = "owned"
  BY DEF TapReadsOwned, TapDecides, At
<1> HIDE DEF tap
<1>3. /\ taps'[n] = tap
      /\ UNCHANGED cred
  BY <1>1, <1>2 DEF TapTurns, TypeOK, wire, Slots
<1>4. ASSUME NEW k \in Sockets, feed[k] # "none", Ends(taps[n], Holder[cred[k]])
      PROVE  Settled(Holder[cred[k]])'
  BY <1>1, <1>2, <1>3, <1>4 DEF Settled, Ends, Holds, WillRead
<1> QED BY <1>1, <1>2, <1>4, TurnPreserves DEF OfRoster

LEMMA TapReadsAfterPreserves ==
  ASSUME IInv, NEW n \in Slots, TapReadsAfter(n)
  PROVE  IInv'
<1> USE DEF IInv
<1>1. PICK tap \in Tap : TapTurns(n, tap) /\ IF taps[n].to = Root \/ taps[n].to \in open
                    THEN tap = CloseTap(taps[n].who)
                    ELSE tap = NewTap("bucket", taps[n].from, Root, taps[n].who)
  BY TapFields, NewTaps DEF TapReadsAfter, TapDecides, TapReads, TapOps, At, OfRoster
<1>2. /\ taps'[n] = tap
      /\ \A m \in Slots : m # n => taps'[m] = taps[m]
      /\ UNCHANGED <<place, open, roster, spaceGrants, docGrants, cred>>
  BY <1>1 DEF TapTurns, TypeOK, db, wire, Slots
<1>3. taps[n].op = "after"
  BY DEF TapReadsAfter, At
<1>4. tap.op \in OfRoster => tap.from \in Spaces
  BY <1>1 DEF OfRoster, CloseTap, NewTap
<1>5. ASSUME NEW k \in Sockets, feed[k] # "none", Ends(taps[n], Holder[cred[k]])
      PROVE  Settled(Holder[cred[k]])'
  <2> DEFINE x == Holder[cred[k]]
  <2>1. x \in taps[n].who => Settled(x)'
    BY <1>1, <1>2 DEF Settled, Ends, Holds, Moving, CloseTap, NewTap
  <2>2. x \notin taps[n].who => x \in Users /\ taps[n].to \in Spaces \ open /\ Stands(x, taps[n].from)
    BY <1>3, <1>5 DEF Ends, Holds, WillRead, Moving
  <2>3. x \notin taps[n].who => WillRead(tap, x)'
    BY <1>1, <1>2, <2>2, SubjectsAssumption DEF WillRead, NewTap, Stands, SpaceRung, RosterRung
  <2> QED BY <1>2, <2>1, <2>2, <2>3 DEF Settled, Ends, WillRead
<1> QED BY <1>1, <1>3, <1>4, <1>5, TurnPreserves

LEMMA TapReadsBucketPreserves ==
  ASSUME IInv, NEW n \in Slots, TapReadsBucket(n)
  PROVE  IInv'
<1> USE DEF IInv
<1>1. PICK tap \in Tap : TapTurns(n, tap) /\ tap = NewTap(IF taps[n].from = Root \/ taps[n].from \in open
                                 THEN "everyone" ELSE "roster", taps[n].from, Root, taps[n].who)
  BY TapFields, NewTaps DEF TapReadsBucket, TapDecides, TapReads, TapOps, At, OfRoster
<1>2. /\ taps'[n] = tap
      /\ \A m \in Slots : m # n => taps'[m] = taps[m]
      /\ UNCHANGED <<place, open, roster, spaceGrants, docGrants, cred>>
  BY <1>1 DEF TapTurns, TypeOK, db, wire, Slots
<1>3. taps[n].op = "bucket"
  BY DEF TapReadsBucket, At
<1>4. tap.op \in OfRoster => tap.from \in Spaces
  BY <1>1 DEF TypeOK, Slots, Tap, OfRoster, Buckets, NewTap
<1>5. ASSUME NEW k \in Sockets, feed[k] # "none", Ends(taps[n], Holder[cred[k]])
      PROVE  Settled(Holder[cred[k]])'
  BY <1>1, <1>2, <1>3, <1>5, FeedHolders DEF Settled, Ends, Holds, WillRead, Moving, OfRoster, TapInv, Stands, SpaceRung, RosterRung, Buckets, NewTap
<1> QED BY <1>1, <1>3, <1>4, <1>5, TurnPreserves

LEMMA TapReadsEveryonePreserves ==
  ASSUME IInv, NEW n \in Slots, TapReadsEveryone(n)
  PROVE  IInv'
<1> USE DEF IInv
<1>1. PICK tap \in Tap : TapTurns(n, tap) /\ tap = CloseTap(taps[n].who \cup members)
  BY TapFields, NewTaps DEF TapReadsEveryone, TapDecides, TapReads, TapOps, At, OfRoster
<1>2. /\ taps'[n] = tap
      /\ \A m \in Slots : m # n => taps'[m] = taps[m]
      /\ UNCHANGED <<place, open, roster, spaceGrants, docGrants, cred>>
  BY <1>1 DEF TapTurns, TypeOK, db, wire, Slots
<1>3. taps[n].op = "everyone"
  BY DEF TapReadsEveryone, At
<1>4. tap.op \in OfRoster => tap.from \in Spaces
  BY <1>1 DEF OfRoster, CloseTap, NewTap
<1>5. ASSUME NEW k \in Sockets, feed[k] # "none", Ends(taps[n], Holder[cred[k]])
      PROVE  Settled(Holder[cred[k]])'
  <2>1. CASE Holder[cred[k]] \in tap.who
    BY <1>1, <1>2, <2>1 DEF Settled, Ends, Holds, CloseTap, NewTap
  <2>2. CASE Holder[cred[k]] \notin tap.who
    BY <1>1, <1>2, <1>3, <1>5, <2>2, FeedHolders, GoneAreClosed DEF Ends, Holds, CloseTap, NewTap
  <2> QED BY <2>1, <2>2
<1> QED BY <1>1, <1>3, <1>4, <1>5, TurnPreserves

LEMMA TapReadsRosterPreserves ==
  ASSUME IInv, NEW n \in Slots, TapReadsRoster(n)
  PROVE  IInv'
<1> USE DEF IInv
<1>1. PICK tap \in Tap : TapTurns(n, tap) /\ tap = NewTap("edges", taps[n].from, Root, taps[n].who \cup roster[taps[n].from])
  BY TapFields, NewTaps DEF TapReadsRoster, TapDecides, TapReads, TapOps, At, OfRoster
<1>2. /\ taps'[n] = tap
      /\ \A m \in Slots : m # n => taps'[m] = taps[m]
      /\ UNCHANGED <<place, open, roster, spaceGrants, docGrants, cred>>
  BY <1>1 DEF TapTurns, TypeOK, db, wire, Slots
<1>3. taps[n].op = "roster"
  BY DEF TapReadsRoster, At
<1>4. tap.op \in OfRoster => tap.from \in Spaces
  BY <1>1, <1>3 DEF TapInv, OfRoster, NewTap
<1>5. ASSUME NEW k \in Sockets, feed[k] # "none", Ends(taps[n], Holder[cred[k]])
      PROVE  Settled(Holder[cred[k]])'
  BY <1>1, <1>2, <1>3, <1>5, FeedHolders DEF Settled, Ends, Holds, WillRead, Moving, OfRoster, TapInv, Stands, SpaceRung, RosterRung, Buckets, NewTap
<1> QED BY <1>1, <1>3, <1>4, <1>5, TurnPreserves

LEMMA TapReadsEdgesPreserves ==
  ASSUME IInv, NEW n \in Slots, TapReadsEdges(n)
  PROVE  IInv'
<1> USE DEF IInv
<1>1. PICK tap \in Tap : TapTurns(n, tap) /\ tap = CloseTap(taps[n].who \cup (spaceGrants[taps[n].from] \cap Users))
  BY TapFields, NewTaps DEF TapReadsEdges, TapDecides, TapReads, TapOps, At, OfRoster
<1>2. /\ taps'[n] = tap
      /\ \A m \in Slots : m # n => taps'[m] = taps[m]
      /\ UNCHANGED <<place, open, roster, spaceGrants, docGrants, cred>>
  BY <1>1 DEF TapTurns, TypeOK, db, wire, Slots
<1>3. taps[n].op = "edges"
  BY DEF TapReadsEdges, At
<1>4. tap.op \in OfRoster => tap.from \in Spaces
  BY <1>1 DEF OfRoster, CloseTap, NewTap
<1>5. ASSUME NEW k \in Sockets, feed[k] # "none", Ends(taps[n], Holder[cred[k]])
      PROVE  Settled(Holder[cred[k]])'
  BY <1>1, <1>2, <1>3, <1>5, FeedHolders DEF Settled, Ends, Holds, WillRead, Moving, OfRoster, TapInv, Stands, SpaceRung, RosterRung, Buckets, CloseTap, NewTap
<1> QED BY <1>1, <1>3, <1>4, <1>5, TurnPreserves

LEMMA TapReadsRetainedPreserves ==
  ASSUME IInv, NEW n \in Slots, TapReadsRetained(n)
  PROVE  IInv'
<1> USE DEF IInv
<1>1. PICK tap \in Tap : TapTurns(n, tap) /\ tap = NewTap("baseline", taps[n].from, Root, roster[taps[n].from])
  BY TapFields, NewTaps DEF TapReadsRetained, TapDecides, TapReads, TapOps, At, OfRoster
<1>2. /\ taps'[n] = tap
      /\ \A m \in Slots : m # n => taps'[m] = taps[m]
      /\ UNCHANGED <<place, open, roster, spaceGrants, docGrants, cred>>
  BY <1>1 DEF TapTurns, TypeOK, db, wire, Slots
<1>3. taps[n].op = "retained"
  BY DEF TapReadsRetained, At
<1>4. tap.op \in OfRoster => tap.from \in Spaces
  BY <1>1, <1>3 DEF TapInv, OfRoster, NewTap
<1>5. ASSUME NEW k \in Sockets, feed[k] # "none", Ends(taps[n], Holder[cred[k]])
      PROVE  Settled(Holder[cred[k]])'
  BY <1>1, <1>2, <1>3, <1>5, FeedHolders DEF Settled, Ends, Holds, WillRead, Moving, OfRoster, TapInv, Stands, SpaceRung, RosterRung, Buckets, NewTap
<1> QED BY <1>1, <1>3, <1>4, <1>5, TurnPreserves

LEMMA TapReadsBaselinePreserves ==
  ASSUME IInv, NEW n \in Slots, TapReadsBaseline(n)
  PROVE  IInv'
<1> USE DEF IInv
<1>1. PICK tap \in Tap : TapTurns(n, tap) /\ tap = CloseTap(members \ taps[n].who)
  BY TapFields, NewTaps DEF TapReadsBaseline, TapDecides, TapReads, TapOps, At, OfRoster
<1>2. /\ taps'[n] = tap
      /\ \A m \in Slots : m # n => taps'[m] = taps[m]
      /\ UNCHANGED <<place, open, roster, spaceGrants, docGrants, cred>>
  BY <1>1 DEF TapTurns, TypeOK, db, wire, Slots
<1>3. taps[n].op = "baseline"
  BY DEF TapReadsBaseline, At
<1>4. tap.op \in OfRoster => tap.from \in Spaces
  BY <1>1 DEF OfRoster, CloseTap, NewTap
<1>5. ASSUME NEW k \in Sockets, feed[k] # "none", Ends(taps[n], Holder[cred[k]])
      PROVE  Settled(Holder[cred[k]])'
  <2>1. CASE Holder[cred[k]] \in members
    BY <1>1, <1>2, <1>3, <1>5, <2>1 DEF Settled, Ends, Holds, WillRead, Moving, CloseTap, NewTap
  <2>2. CASE Holder[cred[k]] \notin members
    BY <1>2, <1>3, <1>5, <2>2, FeedHolders, GoneAreClosed DEF Ends, Holds, WillRead, Moving
  <2> QED BY <2>1, <2>2
<1> QED BY <1>1, <1>3, <1>4, <1>5, TurnPreserves

\* A socket that is left is none the tap was to close.
LEMMA TapClosesPreserves ==
  ASSUME IInv, NEW n \in Slots, TapCloses(n)
  PROVE  IInv'
<1> USE DEF IInv
<1> DEFINE Gone(k) == Closes(taps[n], k)
<1>1. /\ taps[n].op = "close"
      /\ taps' = [taps EXCEPT ![n] = NoTap]
      /\ UNCHANGED <<creds, members, agents, place, trashed, open, roster, spaceGrants,
                     docGrants, commits>>
  BY DEF TapCloses, At, db
<1>2. /\ taps' \in [1..MaxCommits -> Tap]
      /\ taps'[n].op = "none"
      /\ \A m \in Slots : m # n => taps'[m] = taps[m]
  BY <1>1, NoTapFits DEF TypeOK, Slots, NoTap, NewTap
<1>3. ASSUME NEW k \in Sockets, Gone(k)
      PROVE  feed'[k] = "none" /\ (sock'[k] = "none" \/ (sock'[k] = sock[k] /\ cred'[k] = cred[k]))
  BY <1>3 DEF TapCloses, TypeOK
<1>4. ASSUME NEW k \in Sockets, ~Gone(k)
      PROVE  /\ sock'[k] = sock[k] /\ cred'[k] = cred[k] /\ feed'[k] = feed[k]
             /\ ok'[k] = ok[k] /\ seen'[k] = seen[k] /\ marks'[k] = marks[k]
  BY <1>4 DEF TapCloses, TypeOK
<1>5. TypeOK'
  BY <1>1, <1>2 DEF TapCloses, TypeOK, Buckets
<1>6. TapInv'
  BY <1>1, <1>2 DEF TapInv, OfRoster
<1>7. SockInv'
  BY <1>3, <1>4 DEF SockInv
<1> HIDE DEF Gone
<1>8. ASSUME NEW k \in Sockets, feed'[k] # "none"
      PROVE  /\ ~Gone(k) /\ feed'[k] = feed[k] /\ cred'[k] = cred[k]
             /\ ok'[k] = ok[k] /\ seen'[k] = seen[k] /\ marks'[k] = marks[k]
  BY <1>3, <1>4, <1>8
<1>9. ASSUME NEW k \in Sockets, feed'[k] # "none"
      PROVE  cred[k] \notin taps[n].who /\ Holder[cred[k]] \notin taps[n].who
  BY <1>8, <1>9 DEF Gone, Closes, SockInv
<1>10. CredInv'
  <2> SUFFICES ASSUME NEW k \in Sockets, feed'[k] # "none"
               PROVE  /\ \/ cred[k] \in creds \/ "unclosed" \in marks[k]
                         \/ Closing(cred[k])' \/ Closing(Holder[cred[k]])'
                      /\ cred[k] \in Sessions => SessionHolds(Holder[cred[k]])'
                      /\ cred[k] \in Tokens => TokenHolds(Holder[cred[k]])'
    BY <1>1, <1>8 DEF CredInv
  <2>1. ASSUME NEW x, Closing(x), x \notin taps[n].who
        PROVE  Closing(x)'
    BY <1>2, <2>1 DEF Closing, Shuts
  <2>2. ASSUME NEW x, Removing(x)
        PROVE  Removing(x)'
    BY <1>1, <1>2, <2>2 DEF Removing, Parts
  <2> QED BY <1>1, <1>8, <1>9, <2>1, <2>2 DEF CredInv, SessionHolds, TokenHolds
<1>11. RoomInv'
  BY <1>1, <1>2, <1>8 DEF RoomInv, HasRow
<1>12. StandInv'
  <2> SUFFICES ASSUME NEW k \in Sockets, feed'[k] \in HasRow
               PROVE  /\ feed'[k] \in {"authorized", "attached"} => ok'[k]
                      /\ ~Exempt(k)' /\ Passes(k)' => Settled(Holder[cred[k]])'
    BY <1>8 DEF StandInv, HasRow
  <2>1. /\ feed[k] \in HasRow /\ Exempt(k)' = Exempt(k)
        /\ Passes(k)' = Passes(k)
    BY <1>1, <1>8 DEF HasRow, Exempt, Passes, Stands, SpaceRung, RosterRung
  <2>2. ASSUME Settled(Holder[cred[k]])
        PROVE  Settled(Holder[cred[k]])'
    <3>1. CASE Entitled(Holder[cred[k]])
      BY <1>1, <1>8, <3>1 DEF HasRow, Settled, Entitled, Stands, SpaceRung, RosterRung
    <3>2. CASE \E m \in Slots : Ends(taps[m], Holder[cred[k]])
      <4>1. PICK m \in Slots : Ends(taps[m], Holder[cred[k]])
        BY <3>2
      <4>2. m # n
        BY <1>1, <1>9, <4>1 DEF HasRow, Ends, Holds, WillRead
      <4>3. cred'[k] = cred[k]
        BY <1>8 DEF HasRow
      <4>4. Ends(taps[m], Holder[cred[k]])'
        BY <1>1, <1>2, <4>1, <4>2, <4>3, KeptTapStillEnds
      <4> QED BY <4>4 DEF Settled
    <3> QED BY <2>2, <3>1, <3>2 DEF Settled
  <2> QED BY <1>8, <2>1, <2>2 DEF StandInv, HasRow
<1> QED BY <1>5, <1>6, <1>7, <1>10, <1>11, <1>12

\* Only the room's own tap reads nothing and holds nobody.
LEMMA TapClosesRoomPreserves ==
  ASSUME IInv, NEW n \in Slots, TapClosesRoom(n)
  PROVE  IInv'
<1> USE DEF IInv
<1> DEFINE Gone(k) == feed[k] = "attached"
<1>1. /\ taps[n].op = "room"
      /\ taps' = [taps EXCEPT ![n] = NoTap]
      /\ UNCHANGED <<creds, members, agents, place, trashed, open, roster, spaceGrants,
                     docGrants, commits>>
  BY DEF TapClosesRoom, At, db
<1>2. /\ taps' \in [1..MaxCommits -> Tap]
      /\ taps'[n].op = "none"
      /\ \A m \in Slots : m # n => taps'[m] = taps[m]
  BY <1>1, NoTapFits DEF TypeOK, Slots, NoTap, NewTap
<1>3. ASSUME NEW k \in Sockets, Gone(k)
      PROVE  feed'[k] = "none" /\ (sock'[k] = "none" \/ (sock'[k] = sock[k] /\ cred'[k] = cred[k]))
  BY <1>3 DEF TapClosesRoom, TypeOK
<1>4. ASSUME NEW k \in Sockets, ~Gone(k)
      PROVE  /\ sock'[k] = sock[k] /\ cred'[k] = cred[k] /\ feed'[k] = feed[k]
             /\ ok'[k] = ok[k] /\ seen'[k] = seen[k] /\ marks'[k] = marks[k]
  BY <1>4 DEF TapClosesRoom, TypeOK
<1>5. TypeOK'
  BY <1>1, <1>2 DEF TapClosesRoom, TypeOK, Buckets
<1>6. TapInv'
  BY <1>1, <1>2 DEF TapInv, OfRoster
<1>7. SockInv'
  BY <1>3, <1>4 DEF SockInv
<1> HIDE DEF Gone
<1>8. ASSUME NEW k \in Sockets, feed'[k] # "none"
      PROVE  /\ ~Gone(k) /\ feed'[k] = feed[k] /\ cred'[k] = cred[k]
             /\ ok'[k] = ok[k] /\ seen'[k] = seen[k] /\ marks'[k] = marks[k]
  BY <1>3, <1>4, <1>8
<1>9. CredInv'
  <2>1. ASSUME NEW x
        PROVE  (Closing(x) => Closing(x)') /\ (Removing(x) => Removing(x)')
    BY <1>1, <1>2 DEF Closing, Removing, Shuts, Parts
  <2> QED BY <1>1, <1>8, <2>1 DEF CredInv, SessionHolds, TokenHolds
<1>10. RoomInv'
  BY <1>1, <1>2, <1>8 DEF RoomInv, HasRow, Gone
<1>11. StandInv'
  <2> SUFFICES ASSUME NEW k \in Sockets, feed'[k] \in HasRow
               PROVE  /\ feed'[k] \in {"authorized", "attached"} => ok'[k]
                      /\ ~Exempt(k)' /\ Passes(k)' => Settled(Holder[cred[k]])'
    BY <1>8 DEF StandInv, HasRow
  <2>1. /\ feed[k] \in HasRow /\ Exempt(k)' = Exempt(k)
        /\ Passes(k)' = Passes(k)
    BY <1>1, <1>8 DEF HasRow, Exempt, Passes, Stands, SpaceRung, RosterRung
  <2>2. ASSUME Settled(Holder[cred[k]])
        PROVE  Settled(Holder[cred[k]])'
    <3>1. CASE Entitled(Holder[cred[k]])
      BY <1>1, <1>8, <3>1 DEF HasRow, Settled, Entitled, Stands, SpaceRung, RosterRung
    <3>2. CASE \E m \in Slots : Ends(taps[m], Holder[cred[k]])
      <4>1. PICK m \in Slots : Ends(taps[m], Holder[cred[k]])
        BY <3>2
      <4>2. m # n
        BY <1>1, <4>1 DEF Ends, Holds, WillRead, Moving
      <4>3. cred'[k] = cred[k]
        BY <1>8 DEF HasRow
      <4>4. Ends(taps[m], Holder[cred[k]])'
        BY <1>1, <1>2, <4>1, <4>2, <4>3, KeptTapStillEnds
      <4> QED BY <4>4 DEF Settled
    <3> QED BY <2>2, <3>1, <3>2 DEF Settled
  <2> QED BY <1>8, <2>1, <2>2 DEF StandInv, HasRow
<1> QED BY <1>5, <1>6, <1>7, <1>9, <1>10, <1>11

-----------------------------------------------------------------------------
(* The invariant and what it gives.                                        *)

LEMMA InitIInv == Init => IInv
<1> SUFFICES ASSUME Init PROVE IInv
  OBVIOUS
<1>1. /\ place \in Buckets /\ open \subseteq Spaces
      /\ roster \in [Spaces -> SUBSET Users] /\ spaceGrants \in [Spaces -> SUBSET Subjects]
  BY StartsAssumption DEF Init, Standing
<1>2. NoTap \in Tap /\ NoTap.op = "none"
  BY NoTapFits DEF NoTap, NewTap
<1>3. TypeOK
  <2>1. /\ creds \subseteq Creds /\ members \subseteq Users /\ agents \subseteq Agents
        /\ trashed \in BOOLEAN /\ docGrants \subseteq Subjects
    BY DEF Init
  <2>2. commits \in 0..MaxCommits /\ taps \in [1..MaxCommits -> Tap]
    BY <1>2, StartsAssumption DEF Init
  <2>3. /\ cred \in [Sockets -> Creds \cup {NoCred}]
        /\ sock \in [Sockets -> {"none", "resolved", "open"}]
        /\ feed \in [Sockets -> InFlight \cup {"none", "attached"}]
        /\ seen \in [Sockets -> Buckets] /\ ok \in [Sockets -> BOOLEAN]
        /\ marks \in [Sockets -> SUBSET {"widened", "moved", "deleted", "unclosed"}]
    BY DEF Init, Buckets
  <2> QED BY <1>1, <2>1, <2>2, <2>3 DEF TypeOK
<1>4. TapInv
  BY <1>2 DEF Init, TapInv, OfRoster, Slots
<1>5. SockInv /\ CredInv /\ RoomInv /\ StandInv
  BY DEF Init, SockInv, CredInv, RoomInv, StandInv, HasRow
<1> QED BY <1>3, <1>4, <1>5 DEF IInv

LEMMA ClientPreserves ==
  ASSUME IInv, NEW k \in Sockets, ClientStep(k)
  PROVE  IInv'
BY ResolveUpgradePreserves, RegisterPreserves, DisconnectPreserves, ReadPrincipalPreserves,
   ReadRowPreserves, ReadSpacesPreserves, ReadRosterPreserves, ReadGrantsPreserves,
   AttachPreserves DEF ClientStep

LEMMA NarrowingPreserves ==
  ASSUME IInv, Narrowing
  PROVE  IInv'
BY SessionRevocationPreserves, RevokeSessionsPreserves, TokenRevokePreserves,
   AgentRevokePreserves, WorkspaceMemberRemovePreserves,
   MemberUpdateRolePreserves, SpaceMemberRemovePreserves, SpaceGrantRevokePreserves,
   DocGrantRevokePreserves, SpaceNarrowPreserves, CrossPreserves, DocDeletePreserves
   DEF Narrowing, DocMove, CollectionMove

LEMMA WideningPreserves ==
  ASSUME IInv, Widening
  PROVE  IInv'
BY WorkspaceMemberAddPreserves, SpaceMemberAddPreserves, SpaceGrantPreserves, DocGrantPreserves,
   SpaceOpenPreserves, DocRestorePreserves DEF Widening

LEMMA TapPreserves ==
  ASSUME IInv, NEW n \in Slots, TapStep(n)
  PROVE  IInv'
BY TapReadsOwnedPreserves, TapReadsAfterPreserves, TapReadsBucketPreserves,
   TapReadsEveryonePreserves, TapReadsRosterPreserves, TapReadsEdgesPreserves,
   TapReadsRetainedPreserves, TapReadsBaselinePreserves, TapClosesPreserves,
   TapClosesRoomPreserves DEF TapStep

LEMMA StutterPreserves ==
  ASSUME IInv, UNCHANGED vars
  PROVE  IInv'
<1> USE DEF IInv, vars
<1>1. TypeOK' /\ TapInv' /\ SockInv'
  BY DEF TypeOK, TapInv, SockInv
<1>2. CredInv' /\ RoomInv' /\ StandInv'
  BY CredentialsAside, RoomsAside, StandingAside DEF Kept, wire
<1> QED BY <1>1, <1>2

LEMMA Inductive == Spec => []IInv
<1>1. IInv /\ [Next]_vars => IInv'
  BY ClientPreserves, NarrowingPreserves, WideningPreserves, TapPreserves, StutterPreserves
     DEF Next, Slots
<1> QED BY <1>1, InitIInv, PTL DEF Spec

\* Every variable keeps its type.
THEOREM CollabTypes == Spec => []TypeOK
BY Inductive, PTL DEF IInv

\* Once the taps have run no feed is held under a dead credential, but for a
\* session whose end closed nothing, and none for a dead principal, for any
\* number of users, agents, sockets and commits: the chain from a commit of
\* identity to closeBySession, closeByToken, closeByUser and closeByAgent is
\* unbroken.
THEOREM DeadCredentialsTheorem == Spec => []DeadCredentialsHoldNoFeed
<1>1. IInv => DeadCredentialsHoldNoFeed
  <2> SUFFICES ASSUME IInv, Quiet, NEW k \in Sockets, feed[k] = "attached"
               PROVE  /\ cred[k] \in creds \/ "unclosed" \in marks[k]
                      /\ LiveHolder(cred[k])
    BY DEF DeadCredentialsHoldNoFeed
  <2>1. \A x : ~Closing(x) /\ ~Removing(x)
    BY DEF Quiet, At, Closing, Removing, Shuts, Parts, Slots
  <2>2. cred[k] \in Creds
    BY DEF IInv, SockInv
  <2> QED BY <2>1, <2>2, Holders
          DEF IInv, CredInv, SessionHolds, TokenHolds, LiveHolder, LiveUser, LiveAgent
<1> QED BY <1>1, Inductive, PTL

\* Once the taps have run a deleted document's room holds only attachments
\* that were on their way in at the delete.
THEOREM DeletedRoomsTheorem == Spec => []DeletedRoomsAreEmpty
<1>1. IInv => DeletedRoomsAreEmpty
  BY DEF IInv, RoomInv, HasRow, DeletedRoomsAreEmpty, Quiet, At, Slots
<1> QED BY <1>1, Inductive, PTL

\* Once the taps have run whoever holds a feed may read the document, but for
\* the feeds the property names.
THEOREM FeedsFollowStandingTheorem == Spec => []FeedsFollowStanding
<1>1. IInv => FeedsFollowStanding
  <2> SUFFICES ASSUME IInv, Quiet, NEW k \in Sockets, feed[k] = "attached", ~Exempt(k)
               PROVE  CanRead(Holder[cred[k]])
    BY DEF FeedsFollowStanding, Exempt
  <2>1. ok[k] /\ Settled(Holder[cred[k]])
    BY DEF IInv, StandInv, HasRow, Passes
  <2>2. \A n \in Slots : ~Ends(taps[n], Holder[cred[k]])
    BY DEF Quiet, At, Slots, Ends, Holds, WillRead, Moving
  <2> QED BY <2>1, <2>2 DEF Settled, Entitled, Stands, CanRead, GrantRung
<1> QED BY <1>1, Inductive, PTL
=============================================================================
