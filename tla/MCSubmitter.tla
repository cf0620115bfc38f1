---------------------------- MODULE MCSubmitter ----------------------------
(* Instances of Submitter for TLC, with three solutions each.              *)
EXTENDS Submitter, TLC

CONSTANTS s1, s2, s3, a, b, c

MCSols == {s1, s2, s3}

\* The PoW nonce a found twice, and a solution late enough to prune its epoch.
RollEpochOf == (s1 :> 1) @@ (s2 :> 1) @@ (s3 :> 3)
RollPowOf == (s1 :> a) @@ (s2 :> a) @@ (s3 :> c)

\* Three solutions of one epoch, which compete for the epoch's cap.
CapEpochOf == [s \in MCSols |-> 1]
CapPowOf == (s1 :> a) @@ (s2 :> b) @@ (s3 :> c)

\* Two solutions, for the temporal properties.
PairSols == {s1, s2}
PairEpochOf == [s \in PairSols |-> 1]
PairPowOf == (s1 :> a) @@ (s2 :> b)
=============================================================================
