------------------------------ MODULE MCBundle ------------------------------
(* Instances of BundleSubmitter for TLC.                                   *)
EXTENDS BundleSubmitter, TLC

CONSTANTS s1, s2, s3, a, b, c

\* Two solutions of epoch 0 and one of epoch 1, batches of two.
MCSols == {s1, s2, s3}
MCEpochOf == (s1 :> 0) @@ (s2 :> 0) @@ (s3 :> 1)
MCPowOf == (s1 :> a) @@ (s2 :> b) @@ (s3 :> c)

\* Two solutions of epoch 0.
PairSols == {s1, s2}
PairEpochOf == [s \in PairSols |-> 0]
PairPowOf == (s1 :> a) @@ (s2 :> b)
=============================================================================
