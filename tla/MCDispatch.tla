----------------------------- MODULE MCDispatch -----------------------------
(* Small instances of Dispatch for TLC. *)
EXTENDS Dispatch, TLC

\* Calls are interchangeable, and so are objects; for safety only.
Symmetry == Permutations(Calls) \cup Permutations(Objects)
=============================================================================
