------------------------------ MODULE MCMiner ------------------------------
(* Instances of Miner for TLC.                                             *)
EXTENDS Miner, TLC

CONSTANTS w1, w2, x, y

MCWorkers == {w1, w2}
MCSymmetry == Permutations(MCWorkers)

\* x is a proof in epoch 0 at either difficulty and in epoch 1 only at the easier one;
\* y is one in epoch 1 only.
MCPows == {x, y}
MCWork == (0 :> (x :> 0 @@ y :> 9)) @@ (1 :> (x :> 1 @@ y :> 0))
OnePow == {x}
OneWork == (0 :> (x :> 0)) @@ (1 :> (x :> 1))
=============================================================================
