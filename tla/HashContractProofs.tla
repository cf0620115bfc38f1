------------------------ MODULE HashContractProofs ------------------------
(* Theorems about HashContract for all values of its constants: supply,    *)
(* proofs, block cap and difficulty.                                       *)
EXTENDS HashContract, FiniteSetTheorems, TLAPS

\* What the balances add up to, before and after seeding: the strengthening of
\* SupplyIsCapped.
Balanced ==
    /\ genesisMinted <= GenesisCap
    /\ ~genesisComplete => /\ held + outside = genesisMinted
                           /\ totalMiningMinted = 0
    /\ genesisComplete => /\ totalMiningMinted <= MiningSupply
                          /\ held >= MiningSupply - totalMiningMinted
                          /\ held + outside = 2 * genesisMinted + MiningSupply

-----------------------------------------------------------------------------
(* What mine() computes.                                                   *)

\* The reward is cut to what is left of the mining supply.
LEMMA RewardIsLeft ==
    ASSUME totalMiningMinted \in Nat, held \in Nat, Reward \in 1..held
    PROVE  Reward \in 1..Left
<1>1. Left \in Int
  BY ContractAssumption DEF Left
<1>2. CASE EraReward(totalMints + 1) > Left
  BY <1>1, <1>2 DEF Reward
<1>3. CASE ~(EraReward(totalMints + 1) > Left)
  BY <1>1, <1>3 DEF Reward
<1>. QED  BY <1>2, <1>3

\* A span of blocks is a natural number, so the proportional difficulty is an integer.
LEMMA ProportionalType ==
    ASSUME NEW old \in Nat, NEW taken \in Int
    PROVE  Proportional(old, taken) \in Int
<1>1. old * taken \in Int /\ AdjustmentInterval * TargetBlocksPerMint \in Nat \ {0}
  BY ContractAssumption
<1>. QED  BY <1>1 DEF Proportional

\* A retarget that does not revert sets a word.
LEMMA AdjustedType ==
    ASSUME NEW old \in Nat, NEW taken \in Int, ~AdjustReverts(old, taken)
    PROVE  Adjusted(old, taken) \in 0..MaxWord
<1>1. Proportional(old, taken) \in Int
  BY ProportionalType
<1>. QED  BY <1>1, ContractAssumption DEF AdjustReverts, Adjusted

-----------------------------------------------------------------------------
(* Type correctness.                                                       *)

LEMMA TypeOKInit == Init => TypeOK
<1>. SUFFICES ASSUME Init PROVE TypeOK
  OBVIOUS
<1>1. height \in Blocks /\ currentDifficulty \in 0..MaxWord
  BY ContractAssumption DEF Init, Blocks
<1>2. mintsInBlock \in [Blocks -> Nat]
  BY DEF Init
<1>. QED  BY <1>1, <1>2 DEF Init, TypeOK

\* The epoch of a block is a natural number.
LEMMA EpochType == height \in Nat => epoch \in Nat
BY ContractAssumption DEF epoch

LEMMA TypeOKNext == TypeOK /\ Balanced /\ [Next]_vars => TypeOK'
<1>. SUFFICES ASSUME TypeOK, Balanced, [Next]_vars PROVE TypeOK'
  OBVIOUS
<1>. USE ContractAssumption DEF TypeOK, genesisVars, miningVars
<1>1. CASE NextBlock
  BY <1>1 DEF NextBlock, Blocks
<1>2. ASSUME NEW units \in 1..MaxUnitsPerTx, MintGenesis(units) PROVE TypeOK'
  <2>1. units * GenesisUnit \in Nat /\ units * GenesisPrice \in Nat
    OBVIOUS
  <2>. QED  BY <1>2, <2>1 DEF MintGenesis
<1>3. CASE SeedPool \/ PartialSeed
  <2>1. SeedBody
    BY <1>3 DEF SeedPool, PartialSeed
  <2>2. eth' \in Nat /\ held' \in Nat /\ outside' \in Nat
    BY <2>1 DEF SeedBody, MintedBySeed, CanSeed
  <2>3. currentDifficulty' \in 0..MaxWord /\ lastAdjustmentBlock' \in Nat
    BY <2>1 DEF SeedBody, Blocks
  <2>. QED  BY <2>1, <2>2, <2>3 DEF SeedBody, MintedBySeed
<1>4. ASSUME NEW m \in Miners, NEW x \in Nonces, Mine(m, x) PROVE TypeOK'
  <2>1. Reward \in 1..held
    BY <1>4 DEF Mine, Accepted
  <2>2. totalMiningMinted' \in Nat /\ held' \in Nat /\ outside' \in Nat
    BY <1>4, <2>1 DEF Mine
  <2>3. usedProofs' \subseteq Miners \X Nonces \X Nat
    <3>1. epoch \in Nat
      BY EpochType DEF Blocks
    <3>2. usedProofs' = usedProofs \union {<<m, x, epoch>>}
      BY <1>4 DEF Mine
    <3>. HIDE ContractAssumption
    <3>. QED  BY <3>1, <3>2
  <2>4. currentDifficulty' \in 0..MaxWord /\ lastAdjustmentMint' \in Nat
        /\ lastAdjustmentBlock' \in Nat
    <3>1. CASE AdjustDue
      <4>. DEFINE taken == height - lastAdjustmentBlock
      <4>1. ~AdjustReverts(currentDifficulty, taken)
        BY <1>4, <3>1 DEF Mine, Accepted, RetargetReverts
      <4>2. Adjusted(currentDifficulty, taken) \in 0..MaxWord
        BY <4>1, AdjustedType DEF Blocks
      <4>. QED  BY <1>4, <3>1, <4>2 DEF Mine, Blocks
    <3>2. CASE ~AdjustDue
      BY <1>4, <3>2 DEF Mine
    <3>. QED  BY <3>1, <3>2
  <2>5. mintsInBlock' \in [Blocks -> Nat] /\ totalMints' \in Nat
    BY <1>4 DEF Mine
  <2>. QED  BY <1>4, <2>2, <2>3, <2>4, <2>5 DEF Mine
<1>5. CASE TakeFee \/ Receive
  BY <1>5 DEF TakeFee, Receive
<1>6. CASE ClaimFees
  BY <1>6 DEF ClaimFees
<1>7. CASE Gift
  BY <1>7 DEF Gift
<1>8. CASE UNCHANGED vars
  BY <1>8 DEF vars
<1>. QED  BY <1>1, <1>2, <1>3, <1>4, <1>5, <1>6, <1>7, <1>8 DEF Next

-----------------------------------------------------------------------------
(* Supply.                                                                 *)

LEMMA BalancedInit == Init => Balanced
BY ContractAssumption DEF Init, Balanced

LEMMA BalancedNext == TypeOK /\ Balanced /\ [Next]_vars => Balanced'
<1>. SUFFICES ASSUME TypeOK, Balanced, [Next]_vars PROVE Balanced'
  OBVIOUS
<1>. USE ContractAssumption DEF TypeOK, Balanced, genesisVars, miningVars
<1>1. ASSUME NEW units \in 1..MaxUnitsPerTx, MintGenesis(units) PROVE Balanced'
  <2>1. units * GenesisUnit \in Nat
    OBVIOUS
  <2>. QED  BY <1>1, <2>1 DEF MintGenesis, WithinCap
<1>2. CASE SeedPool \/ PartialSeed
  BY <1>2 DEF SeedPool, PartialSeed, SeedBody, MintedBySeed, CanSeed
<1>3. ASSUME NEW m \in Miners, NEW x \in Nonces, Mine(m, x) PROVE Balanced'
  <2>1. Reward \in 1..held /\ Reward \in 1..Left
    BY <1>3, RewardIsLeft DEF Mine, Accepted
  <2>. QED  BY <1>3, <2>1 DEF Mine, Accepted, Left
<1>4. CASE NextBlock \/ TakeFee \/ Receive \/ Gift \/ ClaimFees
  BY <1>4 DEF NextBlock, TakeFee, Receive, Gift, ClaimFees
<1>5. CASE UNCHANGED vars
  BY <1>5 DEF vars
<1>. QED  BY <1>1, <1>2, <1>3, <1>4, <1>5 DEF Next

LEMMA BalancedImplies == TypeOK /\ Balanced => SupplyIsCapped
BY ContractAssumption DEF TypeOK, Balanced, SupplyIsCapped, Left

\* Every contract variable keeps its type, uint256 balances included: none goes below zero.
THEOREM ContractTypeCorrect == Spec => []TypeOK
<1>. USE TypeOKInit, TypeOKNext, BalancedInit, BalancedNext
<1>. QED  BY PTL DEF Spec

\* Whatever the supply, the rewards and the caps are, tokens never exceed what the three
\* allocations allow, and every reward is covered by what the contract holds, whatever was
\* given to it and however its ETH was claimed.
THEOREM SupplyCorrect == Spec => []SupplyIsCapped
<1>. USE TypeOKInit, TypeOKNext, BalancedInit, BalancedNext, BalancedImplies
<1>. QED  BY PTL DEF Spec

-----------------------------------------------------------------------------
(* Proofs and the block cap.                                               *)

\* Counting one more proof takes a finite set of them.
CountsInv == IsFiniteSet(usedProofs) /\ MintsAreLimited

LEMMA CountsInit == Init => CountsInv
BY ContractAssumption, FS_EmptySet DEF Init, CountsInv, MintsAreLimited

LEMMA CountsNext ==
    TypeOK /\ CountsInv /\ [Next]_vars => CountsInv'
<1>. SUFFICES ASSUME TypeOK, CountsInv, [Next]_vars
              PROVE  CountsInv'
  OBVIOUS
<1>. USE DEF TypeOK, CountsInv, MintsAreLimited, genesisVars, miningVars
<1>1. ASSUME NEW m \in Miners, NEW x \in Nonces, Mine(m, x)
      PROVE  CountsInv'
  <2>1. /\ IsFiniteSet(usedProofs')
        /\ Cardinality(usedProofs') = Cardinality(usedProofs) + 1
    BY <1>1, FS_AddElement DEF Mine, Accepted, Unused
  <2>2. \A b \in Blocks : mintsInBlock'[b] <= MaxMintsPerBlock
    BY <1>1, ContractAssumption DEF Mine, Accepted, BlockOpen
  <2>. QED  BY <1>1, <2>1, <2>2 DEF Mine
<1>2. CASE SeedPool \/ PartialSeed
  BY <1>2 DEF SeedPool, PartialSeed, SeedBody, MintedBySeed
<1>3. \/ NextBlock \/ TakeFee \/ Receive \/ Gift \/ ClaimFees
      \/ \E units \in 1..MaxUnitsPerTx : MintGenesis(units)
      => CountsInv'
  BY DEF NextBlock, TakeFee, Receive, Gift, ClaimFees, MintGenesis
<1>4. CASE UNCHANGED vars
  BY <1>4 DEF vars
<1>. QED  BY <1>1, <1>2, <1>3, <1>4 DEF Next

\* As many proofs are used up as mints were paid, so no nonce is paid twice in its epoch, and
\* no block is mined in more often than the cap allows.
THEOREM MintsAreLimitedCorrect == Spec => []MintsAreLimited
<1>1. CountsInv => MintsAreLimited
  BY DEF CountsInv
<1>. USE TypeOKInit, TypeOKNext, BalancedInit, BalancedNext, CountsInit, CountsNext
<1>. QED  BY <1>1, PTL DEF Spec

-----------------------------------------------------------------------------
(* Retargets.                                                              *)

\* Quotient and remainder.
LEMMA Division ==
    ASSUME NEW a \in Nat, NEW k \in Nat \ {0}
    PROVE  /\ a = (a \div k) * k + (a % k)
           /\ a \div k \in Nat
           /\ a % k \in 0..(k - 1)
OBVIOUS

\* They are determined by that.
LEMMA DivisionUnique ==
    ASSUME NEW k \in Nat \ {0}, NEW p \in Nat, NEW q \in Nat,
           NEW r \in 0..(k - 1), NEW s \in 0..(k - 1),
           p * k + r = q * k + s
    PROVE  p = q /\ r = s
<1>1. ASSUME p < q PROVE FALSE
  <2>1. (q - p) * k >= k
    BY <1>1
  <2>. QED  BY <2>1
<1>2. ASSUME q < p PROVE FALSE
  <2>1. (p - q) * k >= k
    BY <1>2
  <2>. QED  BY <2>1
<1>. QED  BY <1>1, <1>2

\* The next multiple is one period later.
LEMMA NextMultiple ==
    ASSUME NEW a \in Nat, NEW k \in Nat \ {0}, a % k = 0
    PROVE  (a + k) % k = 0
<1>. DEFINE p == (a \div k) + 1
            q == (a + k) \div k
            r == (a + k) % k
<1>1. a = (a \div k) * k /\ p \in Nat
  BY Division
<1>2. a + k = p * k + 0
  BY <1>1, Division
<1>3. a + k = q * k + r /\ q \in Nat /\ r \in 0..(k - 1)
  <2>1. a + k \in Nat
    OBVIOUS
  <2>. QED  BY <2>1, Division
<1>4. p * k + 0 = q * k + r
  BY <1>2, <1>3
<1>. HIDE DEF p, q, r
<1>5. p \in Nat /\ q \in Nat /\ 0 \in 0..(k - 1) /\ r \in 0..(k - 1)
  BY <1>1, <1>3
<1>6. 0 = r
  BY <1>4, <1>5, DivisionUnique
<1>. QED  BY <1>6 DEF r

\* The strengthening: nothing was minted or adjusted before the pool was seeded.
RetargetInv ==
    /\ RetargetsOnTime
    /\ ~genesisComplete => totalMints = 0 /\ lastAdjustmentMint = 0

LEMMA RetargetInit == Init => RetargetInv
<1>1. 0 % AdjustmentInterval = 0
  BY ContractAssumption
<1>. QED  BY <1>1, ContractAssumption DEF Init, RetargetInv, RetargetsOnTime

LEMMA RetargetNext == TypeOK /\ RetargetInv /\ [Next]_vars => RetargetInv'
<1>. SUFFICES ASSUME TypeOK, RetargetInv, [Next]_vars PROVE RetargetInv'
  OBVIOUS
<1>a. AdjustDue => (totalMints + 1) % AdjustmentInterval = 0
  <2>1. /\ totalMints \in Nat /\ lastAdjustmentMint \in Nat /\ AdjustmentInterval \in Nat \ {0}
        /\ totalMints - lastAdjustmentMint < AdjustmentInterval
        /\ lastAdjustmentMint % AdjustmentInterval = 0
    BY ContractAssumption DEF TypeOK, RetargetInv, RetargetsOnTime
  <2>2. AdjustDue => totalMints + 1 = lastAdjustmentMint + AdjustmentInterval
    BY <2>1 DEF AdjustDue
  <2>3. (lastAdjustmentMint + AdjustmentInterval) % AdjustmentInterval = 0
    BY <2>1, NextMultiple
  <2>. QED  BY <2>2, <2>3
<1>. USE ContractAssumption DEF TypeOK, RetargetInv, RetargetsOnTime, genesisVars, miningVars
<1>1. ASSUME NEW m \in Miners, NEW x \in Nonces, Mine(m, x) PROVE RetargetInv'
  <2>1. genesisComplete' /\ totalMints' = totalMints + 1
    BY <1>1 DEF Mine, Accepted
  <2>2. CASE AdjustDue
    <3>1. lastAdjustmentMint' = totalMints + 1
      BY <1>1, <2>2 DEF Mine
    <3>. QED  BY <1>a, <2>1, <2>2, <3>1
  <2>3. CASE ~AdjustDue
    <3>1. lastAdjustmentMint' = lastAdjustmentMint
      BY <1>1, <2>3 DEF Mine
    <3>. QED  BY <2>1, <2>3, <3>1 DEF AdjustDue
  <2>. QED  BY <2>2, <2>3
<1>2. CASE SeedPool \/ PartialSeed
  BY <1>2 DEF SeedPool, PartialSeed, SeedBody, CanSeed
<1>3. \/ NextBlock \/ TakeFee \/ Receive \/ Gift \/ ClaimFees
      \/ \E units \in 1..MaxUnitsPerTx : MintGenesis(units)
      => RetargetInv'
  BY DEF NextBlock, TakeFee, Receive, Gift, ClaimFees, MintGenesis
<1>4. CASE UNCHANGED vars
  BY <1>4 DEF vars
<1>. QED  BY <1>1, <1>2, <1>3, <1>4 DEF Next

\* For any interval, a retarget comes with every interval-th mint, neither missed nor early:
\* the mint that is being made is counted before the test (Hash.sol:364-366, 411).
THEOREM RetargetsOnTimeCorrect == Spec => []RetargetsOnTime
<1>1. RetargetInv => RetargetsOnTime
  BY DEF RetargetInv
<1>. USE TypeOKInit, TypeOKNext, BalancedInit, BalancedNext, RetargetInit, RetargetNext
<1>. QED  BY <1>1, PTL DEF Spec

\* The strengthening: once there is a difficulty it is not zero.
DifficultyPositive == genesisComplete => currentDifficulty > 0

\* What _adjustDifficulty() computes from a difficulty that is not zero.
LEMMA AdjustedBounds ==
    ASSUME NEW old \in Nat \ {0}, NEW taken, Proportional(old, taken) \in Int
    PROVE  /\ Adjusted(old, taken) <= 4 * old
           /\ Adjusted(old, taken) >= old \div 4
           /\ Adjusted(old, taken) > 0
BY DEF Adjusted

\* What a step does to the difficulty that is in force.
LEMMA DifficultyStep ==
    ASSUME TypeOK, DifficultyPositive, [Next]_vars
    PROVE  /\ DifficultyPositive'
           /\ genesisComplete => /\ currentDifficulty' <= 4 * currentDifficulty
                                 /\ currentDifficulty' >= currentDifficulty \div 4
                                 /\ currentDifficulty' > 0
<1>. USE ContractAssumption DEF TypeOK, DifficultyPositive, genesisVars, miningVars
<1>. DEFINE Goal == /\ DifficultyPositive'
                    /\ genesisComplete => /\ currentDifficulty' <= 4 * currentDifficulty
                                          /\ currentDifficulty' >= currentDifficulty \div 4
                                          /\ currentDifficulty' > 0
<1>1. ASSUME NEW m \in Miners, NEW x \in Nonces, Mine(m, x) PROVE Goal
  <2>. DEFINE taken == height - lastAdjustmentBlock
  <2>1. CASE AdjustDue
    <3>1. currentDifficulty' = Adjusted(currentDifficulty, taken)
      BY <1>1, <2>1 DEF Mine
    <3>2. currentDifficulty \in Nat \ {0} /\ taken \in Int
      BY <1>1 DEF Mine, Accepted, Blocks
    <3>3. Proportional(currentDifficulty, taken) \in Int
      BY <3>2, ProportionalType
    <3>. HIDE DEF taken
    <3>. QED  BY <3>1, <3>2, <3>3, AdjustedBounds
  <2>2. CASE ~AdjustDue
    BY <1>1, <2>2 DEF Mine, Accepted
  <2>. QED  BY <2>1, <2>2
<1>2. CASE SeedPool \/ PartialSeed
  BY <1>2 DEF SeedPool, PartialSeed, SeedBody, CanSeed
<1>3. ASSUME \/ NextBlock \/ TakeFee \/ Receive \/ Gift \/ ClaimFees
             \/ \E units \in 1..MaxUnitsPerTx : MintGenesis(units)
      PROVE  Goal
  BY <1>3 DEF NextBlock, TakeFee, Receive, Gift, ClaimFees, MintGenesis
<1>4. CASE UNCHANGED vars
  BY <1>4 DEF vars
<1>. QED  BY <1>1, <1>2, <1>3, <1>4 DEF Next

LEMMA DifficultyInit == Init => DifficultyPositive
BY DEF Init, DifficultyPositive

\* From seeding on no transaction moves the difficulty by more than a factor of four, or to
\* zero, for any word size and whatever the blocks between two retargets (Hash.sol:397-410).
THEOREM DifficultyMovesSlowlyCorrect == Spec => DifficultyMovesSlowly
<1>1. TypeOK /\ DifficultyPositive /\ [Next]_vars
      => [genesisComplete => /\ currentDifficulty' <= 4 * currentDifficulty
                            /\ currentDifficulty' >= currentDifficulty \div 4
                            /\ currentDifficulty' > 0]_vars
  BY DifficultyStep
<1>2. TypeOK /\ DifficultyPositive /\ [Next]_vars => DifficultyPositive'
  BY DifficultyStep
<1>. USE TypeOKInit, TypeOKNext, BalancedInit, BalancedNext, DifficultyInit
<1>. QED  BY <1>1, <1>2, PTL DEF Spec, DifficultyMovesSlowly

-----------------------------------------------------------------------------
(* mine() pays every fresh proof.                                          *)

\* With the supply not exhausted and the era's reward not halved away, there is a reward, and
\* the contract holds it.
LEMMA RewardIsHeld ==
    ASSUME TypeOK, Balanced, genesisComplete, totalMiningMinted < MiningSupply,
           EraReward(totalMints + 1) \in Nat \ {0}
    PROVE  Reward \in 1..held
<1>1. Left \in Nat \ {0} /\ Left <= held
  BY ContractAssumption DEF TypeOK, Balanced, Left
<1>. QED  BY <1>1 DEF TypeOK, Reward

\* For every supply, schedule and difficulty, a fresh proof in an open block is paid unless
\* the retarget overflows or the reward has been halved away (Hash.sol:349-382).
THEOREM ProofIsAcceptedCorrect == Spec => []ProofIsAccepted
<1>1. TypeOK /\ Balanced => ProofIsAccepted
  BY RewardIsHeld DEF ProofIsAccepted, Accepted, BlockOpen, IsProof, Unused
<1>. USE TypeOKInit, TypeOKNext, BalancedInit, BalancedNext
<1>. QED  BY <1>1, PTL DEF Spec

-----------------------------------------------------------------------------
(* The ledger.                                                             *)

\* Epochs do not go back.
LEMMA DivisionMonotone ==
    ASSUME NEW a \in Nat, NEW b \in Nat, NEW k \in Nat \ {0}, a <= b
    PROVE  a \div k <= b \div k
<1>. DEFINE p == a \div k
            q == b \div k
<1>1. /\ p \in Nat /\ q \in Nat
      /\ a >= p * k /\ b < q * k + k
  BY Division
<1>. HIDE DEF p, q
<1>2. ASSUME p > q PROVE FALSE
  <2>1. (p - q) * k >= k
    BY <1>1, <1>2
  <2>2. (p - q) * k = p * k - q * k
    BY <1>1
  <2>. QED  BY <1>1, <2>1, <2>2
<1>3. p <= q
  BY <1>1, <1>2
<1>. QED  BY <1>3 DEF p, q

\* Nothing was paid for a proof of an epoch that is still to come.
EpochInv == \A proof \in usedProofs : proof[3] <= epoch

LEMMA EpochInit == Init => EpochInv
BY DEF Init, EpochInv

LEMMA EpochNext == TypeOK /\ EpochInv /\ [Next]_vars => EpochInv'
<1>. SUFFICES ASSUME TypeOK, EpochInv, [Next]_vars PROVE EpochInv'
  OBVIOUS
<1>. USE DEF EpochInv, genesisVars, miningVars
<1>1. height \in Nat /\ epoch \in Nat /\ usedProofs \subseteq Miners \X Nonces \X Nat
  BY EpochType DEF TypeOK, Blocks
<1>2. CASE NextBlock
  <2>1. epoch <= epoch' /\ epoch' \in Nat /\ usedProofs' = usedProofs
    BY <1>1, <1>2, DivisionMonotone, ContractAssumption DEF NextBlock, epoch
  <2>. QED  BY <1>1, <2>1
<1>3. ASSUME NEW m \in Miners, NEW x \in Nonces, Mine(m, x) PROVE EpochInv'
  <2>1. usedProofs' = usedProofs \union {<<m, x, epoch>>} /\ epoch' = epoch
    BY <1>3 DEF Mine, epoch
  <2>. QED  BY <1>1, <2>1
<1>4. ASSUME \/ SeedPool \/ PartialSeed \/ TakeFee \/ Receive \/ Gift \/ ClaimFees
             \/ \E units \in 1..MaxUnitsPerTx : MintGenesis(units)
             \/ UNCHANGED vars
      PROVE  EpochInv'
  <2>1. usedProofs' = usedProofs /\ height' = height
    BY <1>4 DEF SeedPool, PartialSeed, SeedBody, TakeFee, Receive, Gift, ClaimFees,
                MintGenesis, vars
  <2>. QED  BY <2>1 DEF epoch
<1>. QED  BY <1>2, <1>3, <1>4 DEF Next

LEMMA LedgerInit == Init => Tokens!Init
BY DEF Init, Tokens!Init, Reserved

\* The reward of mine() is the one the ledger's schedule sets for as many proofs as were paid.
LEMMA RewardIsNext ==
    ASSUME MintsAreLimited, genesisComplete
    PROVE  Tokens!NextReward = Reward
<1>1. Tokens!Cardinality(usedProofs) = Cardinality(usedProofs)
  BY DEF Cardinality, Tokens!Cardinality
<1>. QED  BY <1>1 DEF MintsAreLimited, Tokens!NextReward, Tokens!NthReward, Reward, EraReward,
                      Reserved

LEMMA MineIsPay ==
    ASSUME TypeOK, MintsAreLimited, EpochInv,
           NEW m \in Miners, NEW x \in Nonces, Mine(m, x)
    PROVE  Tokens!Pay(<<m, x, epoch>>)
<1>. DEFINE proof == <<m, x, epoch>>
<1>1. /\ genesisComplete /\ genesisComplete' = genesisComplete
      /\ genesisMinted' = genesisMinted
      /\ Reward \in 1..held
      /\ proof \notin usedProofs
      /\ usedProofs' = usedProofs \union {proof}
      /\ totalMiningMinted' = totalMiningMinted + Reward
      /\ held' = held - Reward /\ outside' = outside + Reward
  BY DEF Mine, Accepted, Unused, genesisVars
<1>2. Tokens!NextReward = Reward
  BY <1>1, RewardIsNext
<1>3. Reserved' = Reserved - Reward /\ held' - Reserved' = held - Reserved
  BY <1>1, ContractAssumption DEF TypeOK, Reserved, Left
<1>4. \A earlier \in usedProofs : earlier[3] <= proof[3]
  BY DEF EpochInv
<1>. HIDE DEF proof
<1>5. Tokens!NextReward > 0
  BY <1>1, <1>2 DEF TypeOK
<1>. QED  BY <1>1, <1>2, <1>3, <1>4, <1>5 DEF Tokens!Pay, proof

LEMMA LedgerNext ==
    TypeOK /\ Balanced /\ MintsAreLimited /\ EpochInv /\ [Next]_vars
    => [Tokens!Next]_(Tokens!vars)
<1>. SUFFICES ASSUME TypeOK, Balanced, MintsAreLimited, EpochInv, [Next]_vars
              PROVE  Tokens!Next \/ UNCHANGED Tokens!vars
  OBVIOUS
<1>. USE DEF genesisVars, miningVars
<1>1. ASSUME NEW units \in 1..MaxUnitsPerTx, MintGenesis(units) PROVE Tokens!Next
  <2>. DEFINE amount == units * GenesisUnit
  <2>1. amount \in Nat \ {0}
    BY ContractAssumption
  <2>2. genesisMinted + amount <= GenesisCap
    BY <1>1 DEF MintGenesis, WithinCap
  <2>. HIDE DEF amount
  <2>3. amount \in 1..(GenesisCap - genesisMinted)
    BY <2>1, <2>2, ContractAssumption DEF TypeOK
  <2>4. Tokens!Sell(amount)
    BY <1>1 DEF MintGenesis, Tokens!Sell, Reserved, Left, amount
  <2>. QED  BY <2>3, <2>4 DEF Tokens!Next
<1>2. CASE SeedPool \/ PartialSeed
  <2>1. SeedBody /\ CanSeed
    BY <1>2 DEF SeedPool, PartialSeed, SeedBody
  <2>2. Reserved = 0 /\ Reserved' = MiningSupply
    BY <2>1, ContractAssumption DEF SeedBody, CanSeed, TypeOK, Balanced, Reserved, Left
  <2>3. held' = held + MiningSupply
    BY <2>1, ContractAssumption DEF SeedBody, MintedBySeed, TypeOK
  <2>4. held' - Reserved' = held - Reserved
    BY <2>2, <2>3, ContractAssumption DEF TypeOK
  <2>5. Tokens!Open
    BY <2>1, <2>2, <2>4 DEF SeedBody, CanSeed, Tokens!Open
  <2>. QED  BY <2>5 DEF Tokens!Next
<1>3. ASSUME NEW m \in Miners, NEW x \in Nonces, Mine(m, x) PROVE Tokens!Next
  <2>1. Tokens!Pay(<<m, x, epoch>>)
    BY <1>3, MineIsPay
  <2>2. epoch \in 0..(MaxHeight \div EpochBlocks)
    <3>1. height \in Nat /\ height <= MaxHeight
      BY ContractAssumption DEF TypeOK, Blocks
    <3>2. MaxHeight \div EpochBlocks \in Nat /\ epoch \in Nat
      BY <3>1, EpochType, ContractAssumption
    <3>. QED  BY <3>1, <3>2, DivisionMonotone, ContractAssumption DEF epoch
  <2>. QED  BY <2>1, <2>2 DEF Tokens!Next
<1>4. CASE Gift
  <2>1. held' - Reserved' = (held - Reserved) + 1 /\ Reserved' = Reserved
    BY <1>4, ContractAssumption DEF Gift, TypeOK, Reserved, Left
  <2>2. Tokens!Give
    BY <1>4, <2>1 DEF Gift, Tokens!Give
  <2>. QED  BY <2>2 DEF Tokens!Next
<1>5. CASE NextBlock \/ TakeFee \/ Receive \/ ClaimFees \/ UNCHANGED vars
  BY <1>5 DEF NextBlock, TakeFee, Receive, ClaimFees, vars, Tokens!vars, Reserved, Left
<1>. QED  BY <1>1, <1>2, <1>3, <1>4, <1>5 DEF Next

\* For every supply, schedule and cap, whatever is sold, seeded, given and claimed: the contract
\* implements the ledger, so the n-th mint pays what the schedule sets for it and a token
\* comes or goes on no other path (Hash.sol:146-210, 349-382).
THEOREM KeepsLedgerCorrect == Spec => KeepsLedger
<1>1. CountsInv => MintsAreLimited
  BY DEF CountsInv
<1>. USE TypeOKInit, TypeOKNext, BalancedInit, BalancedNext, CountsInit, CountsNext,
         EpochInit, EpochNext, LedgerInit, LedgerNext
<1>. QED  BY <1>1, PTL DEF Spec, KeepsLedger, Tokens!Spec

=============================================================================
