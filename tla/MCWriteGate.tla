------------------------------ MODULE MCWriteGate ------------------------------
(* Two tabs of two users, each with a bucket of its own, named by its tab, and *)
(* one that they share.                                                        *)
EXTENDS WriteGate, TLC
CONSTANTS t1, t2, shared

MCBucketsOf == t1 :> {t1, shared} @@ t2 :> {t2, shared}
MCBurst == t1 :> 1 @@ t2 :> 1 @@ shared :> 2
MCPeriod == t1 :> 1 @@ t2 :> 1 @@ shared :> 2
Interchangeable == Permutations({t1, t2})
=============================================================================
