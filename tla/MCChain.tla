------------------------------ MODULE MCChain ------------------------------
(* The instance of ChainClient alone that is model-checked: one endpoint   *)
(* or two, with and without bundles.                                       *)
EXTENDS ChainClient, TLC

CONSTANTS main, p1, u0, u1

MCPool == {p1}
MCSteady == {u1}
MCLondon == {u1}
MCFee == 0 :> 5 @@ 1 :> 4 @@ 2 :> 3

Init == \E chain \in {<<u0>>, <<u0, u1>>}, withBundles \in BOOLEAN : ChainInit(chain, withBundles)

Spec == Init /\ [][ChainNext]_chainVars /\ ChainFairness
=============================================================================
