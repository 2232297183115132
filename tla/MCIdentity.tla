---- MODULE MCIdentity ----
(* Bounds for TLC: see the README.  Every name stands for itself. *)
EXTENDS Identity, TLC
CONSTANTS u1, u2, u3, a1, a2, t1, t2, n1, n2, c1, c2
MCUsers == {u1, u2, u3}
MCAgents == {a1, a2}
MCTokens == {t1, t2}
MCNames == {n1, n2}
MCCalls == {c1, c2}
MCRoles == {"owner", "member"}
MCMintable == {{"agent:create"}, {"agent:create", "agent:revoke"}}
Interchangeable == Permutations({u2, u3}) \cup Permutations(MCAgents)
  \cup Permutations(MCTokens) \cup Permutations(MCNames) \cup Permutations(MCCalls)
====
