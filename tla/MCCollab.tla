------------------------------ MODULE MCCollab ------------------------------
(* One socket, upgraded now by a user, under either of two sessions, and    *)
(* now by that user's agent.                                               *)
EXTENDS Collab, TLC

CONSTANTS u1, u0, a1, s1, s2, t1, b1, b2

MCHolder  == (s1 :> u1) @@ (s2 :> u1) @@ (t1 :> a1)
MCOwnerOf == (a1 :> u1)

\* The document in a space the user is on the roster of and the agent has
\* a grant on; and in an open space. The root is one move away.
MCStarts ==
    {[place |-> b1, open |-> {}, roster |-> (b1 :> {u1}) @@ (b2 :> {}),
      spaceGrants |-> (b1 :> {a1}) @@ (b2 :> {})],
     [place |-> b1, open |-> {b1}, roster |-> [b \in Spaces |-> {}],
      spaceGrants |-> [b \in Spaces |-> {}]]}

\* Both sessions are the user's, so they are interchangeable.
Interchangeable == Permutations(Sessions)
=============================================================================
