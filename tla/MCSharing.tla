------------------------------- MODULE MCSharing -------------------------------
(* Two users and an agent of the first, a team space and the second user's     *)
(* personal space, one collection and one document.                            *)
EXTENDS Sharing, TLC
CONSTANTS u1, u2, a1, team, own, c1, d1

MCOwnerOf == a1 :> u1
MCPersonalOwner == own :> u2
=============================================================================
