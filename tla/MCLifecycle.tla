----------------------------- MODULE MCLifecycle -----------------------------
(* Small instances of Lifecycle for TLC. *)
EXTENDS Lifecycle, TLC

\* Ids and slugs are interchangeable.
Symmetry ==
  Permutations(Spaces) \cup Permutations(Collections) \cup Permutations(Docs)
    \cup Permutations(Users) \cup Permutations(Slugs)

Existing(rows) == Cardinality({x \in DOMAIN rows : Exists(rows[x])})

\* Bound: documents are tried in trees of one space, and of four rows in all;
\* trees of two spaces and three collections hold none.
SmallTrees ==
  \/ Existing(docs) = 0
  \/ /\ Existing(spaces) <= 1
     /\ Existing(spaces) + Existing(collections) + Existing(docs) <= 4
=============================================================================
