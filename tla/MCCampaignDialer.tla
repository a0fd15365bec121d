-------------------------- MODULE MCCampaignDialer --------------------------
(* Small instances of CampaignDialer: two campaigns, one of which redials,  *)
(* share the tenant's ceiling, and two replicas work on them.               *)
EXTENDS CampaignDialer, TLC

CONSTANTS c1, c2, k1, k2, r1, r2

OneEach == k1 :> c1 @@ k2 :> c2
InOrder == k1 :> 1 @@ k2 :> 2
OneAtATime == [c \in Campaigns |-> 1]
Attempts == c1 :> 2 @@ c2 :> 1
Replicas == Permutations({r1, r2})
=============================================================================
