-------------------------- MODULE MCFairAdmission --------------------------
(* Tenant A has jobs of two conversations, two of them of one, and one job  *)
(* with a second attempt; tenant B has one.                                 *)
EXTENDS FairAdmission, TLC

CONSTANTS a1, a2, a3, b1, A, B, c1, c2, c3

MCTenantOf == [j \in Jobs |-> IF j = b1 THEN B ELSE A]

MCConvOf == a1 :> c1 @@ a2 :> c1 @@ a3 :> c2 @@ b1 :> c3

MCMaxAttempts == [j \in Jobs |-> IF j = a1 THEN 2 ELSE 1]

MCSymmetry == Permutations(Processes)
=============================================================================
