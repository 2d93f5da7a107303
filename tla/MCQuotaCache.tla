---------------------------- MODULE MCQuotaCache ----------------------------
(* Instances of QuotaCache for TLC: one wallet u and one token t. *)
EXTENDS QuotaCache, TLC

CONSTANTS u, t, p1, p2

\* The two stripes in either order, and the collision of both resources.
AnyStripes == {u :> 1 @@ t :> 2, u :> 2 @@ t :> 1, u :> 1 @@ t :> 1}

ProcSymmetry == Permutations(Procs)
=============================================================================
