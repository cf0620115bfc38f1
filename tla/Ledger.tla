------------------------------- MODULE Ledger -------------------------------
(***************************************************************************)
(* What Hash.sol promises a holder of HASH: tokens come from the genesis   *)
(* sale, from the liquidity that doubles it when mining opens, and from    *)
(* mining, which pays for each proof once, epoch after epoch, what the     *)
(* halving schedule sets for the n-th mint.  Blocks, difficulty, caps and  *)
(* ETH are left out: HashContract implements this specification.           *)
(***************************************************************************)
EXTENDS Integers, FiniteSets

CONSTANTS
    Proofs,                 \* tuples <<miner, nonce, epoch>>
    GenesisCap, MiningSupply, BaseReward, EraMints

VARIABLES
    sold, open,             \* the genesis sale, and whether it is over
    paid,                   \* the proofs mining has paid for
    unmined,                \* what mining has left to pay
    spare,                  \* HASH nobody can move: gifts to the token's own address
    circulating

vars == <<sold, open, paid, unmined, spare, circulating>>

Init ==
    /\ sold = 0 /\ open = FALSE
    /\ paid = {}
    /\ unmined = 0 /\ spare = 0 /\ circulating = 0

Sell(amount) ==
    /\ ~open
    /\ sold' = sold + amount
    /\ circulating' = circulating + amount
    /\ UNCHANGED <<open, paid, unmined, spare>>

Open ==
    /\ ~open
    /\ sold > 0
    /\ open' = TRUE
    /\ unmined' = MiningSupply
    /\ circulating' = circulating + sold
    /\ UNCHANGED <<sold, paid, spare>>

NthReward(n) ==
    LET era == n \div EraMints
    IN  IF era < 64 THEN BaseReward \div 2^era ELSE 0

\* The reward of the next mint; the last one is cut to what is left.
NextReward ==
    LET reward == NthReward(Cardinality(paid) + 1)
    IN  IF reward > unmined THEN unmined ELSE reward

Pay(proof) ==
    /\ open
    /\ proof \notin paid
    /\ \A earlier \in paid : earlier[3] <= proof[3]
    /\ NextReward > 0
    /\ paid' = paid \union {proof}
    /\ unmined' = unmined - NextReward
    /\ circulating' = circulating + NextReward
    /\ UNCHANGED <<sold, open, spare>>

Give ==
    /\ circulating > 0
    /\ spare' = spare + 1
    /\ circulating' = circulating - 1
    /\ UNCHANGED <<sold, open, paid, unmined>>

Next ==
    \/ \E amount \in 1..(GenesisCap - sold) : Sell(amount)
    \/ Open
    \/ \E proof \in Proofs : Pay(proof)
    \/ Give

Spec == Init /\ [][Next]_vars
=============================================================================
