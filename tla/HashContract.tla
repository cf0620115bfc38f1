---------------------------- MODULE HashContract ----------------------------
(***************************************************************************)
(* The contract the miner works for (src/reference/Hash.sol): the genesis  *)
(* sale, seeding the pool, mine() with its per-block cap, proofs, halvings *)
(* and retargets, and the swap fees.  One action is one transaction that   *)
(* succeeds; a transaction that reverts changes nothing.  Amounts of HASH  *)
(* and ETH are counted in small units, and 256-bit words end at MaxWord.   *)
(***************************************************************************)
EXTENDS Integers, FiniteSets

CONSTANTS
    Miners, Nonces,
    Digest,                 \* Digest[m][e][x]: keccak of m's challenge in epoch e, and x
    GenesisCap, GenesisUnit, GenesisPrice, MaxUnitsPerTx,
    MiningSupply, BaseReward, EraMints,
    EpochBlocks, AdjustmentInterval, TargetBlocksPerMint, MaxMintsPerBlock,
    SeedDelay,              \* PARTIAL_SEED_DELAY, in blocks
    MaxWord,                \* type(uint256).max
    StartDifficulty,        \* type(uint256).max >> 32
    MaxHeight, MaxEth, MaxGift  \* bounds: the chain's height, the contract's ETH when it gets
                                \* more, the HASH it is given

ASSUME ContractAssumption ==
    /\ GenesisCap \in Nat /\ GenesisUnit \in Nat \ {0} /\ GenesisPrice \in Nat
    /\ MaxUnitsPerTx \in Nat
    /\ MiningSupply \in Nat /\ BaseReward \in Nat /\ EraMints \in Nat \ {0}
    /\ EpochBlocks \in Nat \ {0} /\ AdjustmentInterval \in Nat \ {0}
    /\ TargetBlocksPerMint \in Nat \ {0} /\ MaxMintsPerBlock \in Nat
    /\ SeedDelay \in Nat /\ MaxHeight \in Nat /\ MaxEth \in Nat /\ MaxGift \in Nat
    /\ MaxWord \in Nat /\ StartDifficulty \in 1..MaxWord

VARIABLES
    height,                 \* block.number, from the deployment on
    genesisMinted, genesisEthRaised, genesisComplete,
    totalMints, totalMiningMinted,
    currentDifficulty, lastAdjustmentMint, lastAdjustmentBlock,
    mintsInBlock,
    usedProofs,             \* the set of <<miner, nonce, epoch>> whose key is used
    held,                   \* HASH the contract itself holds
    outside,                \* HASH everybody else holds, the pool included
    eth                     \* the contract's ETH balance

genesisVars == <<genesisMinted, genesisEthRaised, genesisComplete>>
miningVars == <<totalMints, totalMiningMinted, currentDifficulty, lastAdjustmentMint,
                lastAdjustmentBlock, mintsInBlock, usedProofs>>
vars == <<height, genesisVars, miningVars, held, outside, eth>>

Blocks == 0..MaxHeight

epoch == height \div EpochBlocks

TypeOK ==
    /\ height \in Blocks
    /\ genesisMinted \in Nat /\ genesisEthRaised \in Nat /\ genesisComplete \in BOOLEAN
    /\ totalMints \in Nat /\ totalMiningMinted \in Nat
    /\ currentDifficulty \in 0..MaxWord
    /\ lastAdjustmentMint \in Nat /\ lastAdjustmentBlock \in Nat
    /\ mintsInBlock \in [Blocks -> Nat]
    /\ usedProofs \subseteq Miners \X Nonces \X Nat
    /\ held \in Nat /\ outside \in Nat /\ eth \in Nat

Init ==
    /\ height = 0
    /\ genesisMinted = 0 /\ genesisEthRaised = 0 /\ genesisComplete = FALSE
    /\ totalMints = 0 /\ totalMiningMinted = 0
    /\ currentDifficulty = 0
    /\ lastAdjustmentMint = 0 /\ lastAdjustmentBlock = 0
    /\ mintsInBlock = [b \in Blocks |-> 0]
    /\ usedProofs = {}
    /\ held = 0 /\ outside = 0 /\ eth = 0

NextBlock ==
    /\ height < MaxHeight
    /\ height' = height + 1
    /\ UNCHANGED <<genesisVars, miningVars, held, outside, eth>>

-----------------------------------------------------------------------------
(* Genesis.                                                                *)

WithinCap(units) == genesisMinted + units * GenesisUnit <= GenesisCap

\* The buyer pays at least the cost and gets the excess back.
MintGenesis(units) ==
    /\ ~genesisComplete
    /\ units \in 1..MaxUnitsPerTx
    /\ WithinCap(units)
    /\ genesisMinted' = genesisMinted + units * GenesisUnit
    /\ genesisEthRaised' = genesisEthRaised + units * GenesisPrice
    /\ eth' = eth + units * GenesisPrice
    /\ outside' = outside + units * GenesisUnit
    /\ UNCHANGED <<height, genesisComplete, miningVars, held>>

\* Mutant: ETH the contract has not got is sent.
CanSeedOnCredit == ~genesisComplete /\ genesisMinted > 0 /\ genesisEthRaised > 0

CanSeed ==
    /\ ~genesisComplete
    /\ genesisMinted > 0 /\ genesisEthRaised > 0
    /\ eth >= genesisEthRaised

\* Mutant: the liquidity is taken out of the mining supply.
SupplyOnly == MiningSupply

MintedBySeed == genesisMinted + MiningSupply

\* _seedBody(): mints the liquidity and the mining supply, and sends the liquidity with
\* the ETH raised to the position manager.
SeedBody ==
    /\ CanSeed
    /\ genesisComplete' = TRUE
    /\ held' = held + MintedBySeed - genesisMinted
    /\ outside' = outside + genesisMinted
    /\ eth' = eth - genesisEthRaised
    /\ currentDifficulty' = StartDifficulty
    /\ lastAdjustmentBlock' = height
    /\ lastAdjustmentMint' = 0
    /\ UNCHANGED <<height, genesisMinted, genesisEthRaised, totalMints, totalMiningMinted,
                   mintsInBlock, usedProofs>>

SeedPool == genesisMinted >= GenesisCap /\ SeedBody

PartialSeed == height >= SeedDelay /\ SeedBody

-----------------------------------------------------------------------------
(* mine().                                                                 *)

\* _adjustDifficulty() computes old * taken / target without overflow of the product, and
\* then old * 4 in checked arithmetic.
Proportional(old, taken) ==
    IF taken = 0 THEN old \div 4
                 ELSE (old * taken) \div (AdjustmentInterval * TargetBlocksPerMint)

AdjustReverts(old, taken) == Proportional(old, taken) > MaxWord \/ old * 4 > MaxWord

\* Mutant: the difficulty may be rounded down to zero.
AdjustedToZero(old, taken) ==
    LET next == Proportional(old, taken)
        raised == IF next < old \div 4 THEN old \div 4 ELSE next
    IN  IF raised > old * 4 THEN old * 4 ELSE raised

Adjusted(old, taken) ==
    LET next == Proportional(old, taken)
        raised == IF next < old \div 4 THEN old \div 4 ELSE next
        capped == IF raised > old * 4 THEN old * 4 ELSE raised
    IN  IF capped = 0 THEN 1 ELSE capped

\* Mutant: the mint that is being made is not counted.
AdjustOneLate == totalMints - lastAdjustmentMint >= AdjustmentInterval

AdjustDue == totalMints + 1 - lastAdjustmentMint >= AdjustmentInterval

RetargetReverts ==
    AdjustDue /\ AdjustReverts(currentDifficulty, height - lastAdjustmentBlock)

\* Mutant: the mint that is being made is not counted.
EraOfLastMint(mints) ==
    LET era == (mints - 1) \div EraMints
    IN  IF era < 64 THEN BaseReward \div 2^era ELSE 0

\* Halved every EraMints mints; the mint that is being made is counted first.
EraReward(mints) ==
    LET era == mints \div EraMints
    IN  IF era < 64 THEN BaseReward \div 2^era ELSE 0

Left == MiningSupply - totalMiningMinted

\* Mutant: the last reward is not cut to what is left.
FullReward == EraReward(totalMints + 1)

Reward == IF EraReward(totalMints + 1) > Left THEN Left ELSE EraReward(totalMints + 1)

IsProof(m, x) == Digest[m][epoch][x] < currentDifficulty

\* Mutant: a proof may be used again.
AnyProof(m, x) == TRUE

Unused(m, x) == <<m, x, epoch>> \notin usedProofs

BlockOpen == mintsInBlock[height] < MaxMintsPerBlock

\* Nothing in mine() reverts: not its own checks, not the retarget, and not the transfer of
\* the reward, which needs the balance.
Accepted(m, x) ==
    /\ genesisComplete
    /\ totalMiningMinted < MiningSupply
    /\ BlockOpen
    /\ IsProof(m, x)
    /\ Unused(m, x)
    /\ ~RetargetReverts
    /\ Reward \in 1..held

Mine(m, x) ==
    /\ Accepted(m, x)
    /\ totalMiningMinted' = totalMiningMinted + Reward
    /\ held' = held - Reward
    /\ outside' = outside + Reward
    /\ usedProofs' = usedProofs \union {<<m, x, epoch>>}
    /\ mintsInBlock' = [mintsInBlock EXCEPT ![height] = @ + 1]
    /\ totalMints' = totalMints + 1
    /\ IF AdjustDue
          THEN /\ currentDifficulty' = Adjusted(currentDifficulty, height - lastAdjustmentBlock)
               /\ lastAdjustmentMint' = totalMints + 1
               /\ lastAdjustmentBlock' = height
          ELSE UNCHANGED <<currentDifficulty, lastAdjustmentMint, lastAdjustmentBlock>>
    /\ UNCHANGED <<height, genesisVars, eth>>

-----------------------------------------------------------------------------
(* Fees and gifts.                                                         *)

\* beforeSwap() or afterSwap() takes a fee in ETH from a swap in the seeded pool.
TakeFee ==
    /\ genesisComplete
    /\ eth < MaxEth
    /\ eth' = eth + 1
    /\ UNCHANGED <<height, genesisVars, miningVars, held, outside>>

\* receive(): anybody may send ETH, before the pool is seeded too.
Receive ==
    /\ eth < MaxEth
    /\ eth' = eth + 1
    /\ UNCHANGED <<height, genesisVars, miningVars, held, outside>>

\* A holder transfers HASH to the token's own address, as ERC20 allows.
Gift ==
    /\ outside > 0
    /\ held < (IF genesisComplete THEN Left ELSE 0) + MaxGift
    /\ held' = held + 1
    /\ outside' = outside - 1
    /\ UNCHANGED <<height, genesisVars, miningVars, eth>>

\* claimFees() sends the controller whatever ETH there is, before the pool is seeded too.
ClaimFees ==
    /\ eth > 0
    /\ eth' = 0
    /\ UNCHANGED <<height, genesisVars, miningVars, held, outside>>

Next ==
    \/ NextBlock
    \/ \E units \in 1..MaxUnitsPerTx : MintGenesis(units)
    \/ SeedPool \/ PartialSeed
    \/ \E m \in Miners, x \in Nonces : Mine(m, x)
    \/ TakeFee \/ Receive \/ Gift \/ ClaimFees

Spec == Init /\ [][Next]_vars

-----------------------------------------------------------------------------
(* Properties.                                                             *)

\* There are never more tokens than genesis sale, liquidity and mining supply allow, on either
\* way of seeding, and from seeding on the contract holds all that is left to be mined,
\* whatever was given to it and claimed from it (Hash.sol:48-51, 152, 187, 371-376).
SupplyIsCapped ==
    /\ genesisMinted <= GenesisCap
    /\ held + outside <= 2 * GenesisCap + MiningSupply
    /\ genesisComplete => totalMiningMinted <= MiningSupply /\ held >= Left

\* Every mint consumes a proof of its own, so that a nonce is paid once per miner and epoch,
\* and a block has no more mints than its cap (Hash.sol:352, 357-362).
MintsAreLimited ==
    /\ Cardinality(usedProofs) = totalMints
    /\ \A b \in Blocks : mintsInBlock[b] <= MaxMintsPerBlock

\* A retarget is never missed or made early: fewer than ADJUSTMENT_INTERVAL mints follow the
\* last one, and every one falls on a multiple of the interval (Hash.sol:364-366, 411).
RetargetsOnTime ==
    /\ lastAdjustmentMint <= totalMints
    /\ totalMints - lastAdjustmentMint < AdjustmentInterval
    /\ lastAdjustmentMint % AdjustmentInterval = 0

\* A retarget moves the difficulty by a factor of four at most and never to zero, which no
\* digest is below (Hash.sol:397-410).
DifficultyMovesSlowly ==
    [][genesisComplete => /\ currentDifficulty' <= 4 * currentDifficulty
                          /\ currentDifficulty' >= currentDifficulty \div 4
                          /\ currentDifficulty' > 0]_vars

\* A fresh proof in a block below its cap is paid while the supply lasts, unless the retarget
\* that is due overflows, a revert that the list in SPEC.md:88 does not have, or the reward has
\* been halved away.  Neither the cut to what is left nor the transfer stops it.
ProofIsAccepted ==
    \A m \in Miners, x \in Nonces :
        /\ genesisComplete
        /\ totalMiningMinted < MiningSupply
        /\ mintsInBlock[height] < MaxMintsPerBlock
        /\ Digest[m][epoch][x] < currentDifficulty
        /\ <<m, x, epoch>> \notin usedProofs
        /\ EraReward(totalMints + 1) \in Nat \ {0}
        => RetargetReverts \/ Accepted(m, x)

\* What the contract holds that mining will pay out; the rest of held is gifts.
Reserved == IF genesisComplete THEN Left ELSE 0

Tokens == INSTANCE Ledger WITH
    Proofs <- Miners \X Nonces \X (0..(MaxHeight \div EpochBlocks)),
    sold <- genesisMinted, open <- genesisComplete, paid <- usedProofs,
    unmined <- Reserved, spare <- held - Reserved, circulating <- outside

\* The contract keeps the ledger's promise: the n-th mint pays what the schedule sets for it,
\* a proof is paid once, the proofs of an epoch before those of the next, and no token comes
\* or goes on any other path (Hash.sol:146-210, 349-382).
KeepsLedger == Tokens!Spec
=============================================================================
