------------------------- MODULE MCTreeTransactions -------------------------
(* Small instances of TreeTransactions for TLC. *)
EXTENDS TreeTransactions, TLC

\* Ids of one kind are interchangeable, and so are calls.
Symmetry ==
  Permutations(Spaces) \cup Permutations(Collections) \cup Permutations(Docs)
    \cup Permutations(Users) \cup Permutations(Calls)
=============================================================================
