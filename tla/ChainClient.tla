---------------------------- MODULE ChainClient ----------------------------
(***************************************************************************)
(* ChainClient (src/hashminer/chain.py) and the threads that use it: the   *)
(* main thread, which waits for the contract to open, reads the first      *)
(* mining state and then follows the blocks (src/hashminer/miner.py), and  *)
(* the pool threads, which price a submission (submit.py).  The threads    *)
(* share the endpoint index, the connection, the contract object and the   *)
(* base-fee cache; only the cache has a lock.                              *)
(*                                                                         *)
(* A URL stands for the Web3 object connected to it and for the contract   *)
(* object made from that.  A request is answered or it raises; _do() then  *)
(* rotates, which is six steps that other threads may come between.        *)
(***************************************************************************)
EXTENDS Integers, FiniteSets, Sequences

CONSTANTS
    Main,           \* the main thread
    Pool,           \* pool threads, each with one submission to price
    Steady,         \* URLs that answer every request; the others may fail any
    London,         \* URLs whose blocks have a baseFeePerGas
    BaseFee,        \* the base fee of each block
    OpenAt,         \* the block in which the genesis completes
    Priority,       \* GasConfig.priority_gwei
    Multiplier,     \* GasConfig.base_fee_multiplier
    MaxFeeCap,      \* GasConfig.max_fee_gwei
    SkipAbove,      \* ProfitabilityConfig.skip_if_basefee_above_gwei
    MaxHeight       \* bound: the chain's height; blocks after it change nothing

ASSUME ChainAssumption ==
    /\ Main \notin Pool
    /\ MaxHeight \in Nat /\ OpenAt \in 0..MaxHeight
    /\ BaseFee \in [0..MaxHeight -> Nat]
    /\ Priority \in Nat /\ Multiplier \in Nat /\ MaxFeeCap \in Nat /\ SkipAbove \in Nat

VARIABLES
    urls,           \* ChainClient._urls
    i,              \* ChainClient._i
    w3,             \* ChainClient._w3, as its URL
    contract,       \* ChainClient.contract, as its URL
    cached,         \* ChainClient._cached_base_fee, as the fee
    bundles,        \* the miner has a BundleSubmitter
    height,         \* the chain's latest block
    loop,           \* what the main thread is doing
    last,           \* follow_blocks: the block number it yielded last
    state,          \* block and base fee of the MiningState the main thread has
    localOk,        \* ChainClient._challenge_local_ok
    pc,             \* each thread: where its call of _do() stands
    n,              \* how many attempts of it have failed
    local,          \* what it has read of the index, the URL or the connection
    asked,          \* history: the URLs the call has asked
    clean,          \* history: it began on a client at rest, and no other thread has rotated
    price           \* what each thread signs a transaction for, or why it does not

clientVars == <<urls, i, w3, contract, bundles>>
loopVars == <<loop, last, state, cached, localOk>>
callVars == <<pc, n, local, asked, clean>>
chainVars == <<clientVars, loopVars, callVars, height, price>>

Threads == Pool \union {Main}

NoFee == -1

\* The fates of a submission that got no price.
Unpriced == -1
Skipped == -2
Raised == -3

Endpoints == {urls[k] : k \in 1..Len(urls)}

Rotating == {"read-index", "write-index", "read-url", "connect", "read-w3", "write-contract"}

\* The farm and the drain thread run, and so may pool threads.
Started == last # NoFee \/ loop \in {"poll", "final", "closed"}

ChainTypeOK ==
    /\ i \in 0..(Len(urls) - 1)
    /\ w3 \in Endpoints /\ contract \in Endpoints
    /\ cached \in Nat \union {NoFee}
    /\ bundles \in BOOLEAN
    /\ height \in 0..MaxHeight
    /\ loop \in {"chain-id", "genesis", "first", "number", "challenge", "poll", "state",
                 "flush", "final", "closed", "died"}
    /\ localOk \in {"unknown", "yes", "no"}
    /\ last \in 0..MaxHeight \union {NoFee}
    /\ state \in [block : 0..MaxHeight, fee : Nat \union {NoFee}]
    /\ pc \in [Threads -> {"none", "again", "raised"} \union Rotating]
    /\ n \in [Threads -> 0..Len(urls)]
    /\ local \in [Threads -> Endpoints \union 0..Len(urls) \union {NoFee}]
    /\ asked \in [Threads -> SUBSET Endpoints]
    /\ clean \in [Threads -> BOOLEAN]
    /\ price \in [Threads -> Nat \union {Unpriced, Skipped, Raised}]

\* ChainClient.__init__ with the URLs of Config.rpc_chain().
ChainInit(chain, withBundles) ==
    /\ urls = chain
    /\ bundles = withBundles
    /\ i = 0
    /\ w3 = chain[1]
    /\ contract = chain[1]
    /\ cached = NoFee
    /\ height = 0
    /\ loop = "chain-id"
    /\ last = NoFee
    /\ state = [block |-> 0, fee |-> NoFee]
    /\ localOk = "unknown"
    /\ pc = [t \in Threads |-> "none"]
    /\ n = [t \in Threads |-> 0]
    /\ local = [t \in Threads |-> NoFee]
    /\ asked = [t \in Threads |-> {}]
    /\ clean = [t \in Threads |-> FALSE]
    /\ price = [t \in Threads |-> Unpriced]

\* The miner makes the client, in a program that has begun without one.
ClientMade(chain, withBundles) ==
    /\ urls' = chain
    /\ bundles' = withBundles
    /\ w3' = chain[1]
    /\ contract' = chain[1]
    /\ UNCHANGED <<i, loopVars, callVars, height, price>>

\* A block.
NewBlock ==
    /\ height < MaxHeight
    /\ height' = height + 1
    /\ UNCHANGED <<clientVars, loopVars, callVars, price>>

-----------------------------------------------------------------------------
(* Prices.                                                                 *)

\* Mutant: the cap is compared with the base fee.
OverCapBase(base) == base > SkipAbove \/ base > MaxFeeCap

MaxFee(base) == base * Multiplier + Priority

OverCap(base) == base > SkipAbove \/ MaxFee(base) > MaxFeeCap

\* _fees(): without a base fee the priority fee stands in for it.
Priced(fee) ==
    LET base == IF fee = NoFee THEN Priority ELSE fee
    IN  IF OverCap(base) THEN Skipped ELSE MaxFee(base)

\* BundleSubmitter._gas(): the same sum, and no cap.
BundlePriced(fee) ==
    MaxFee(IF fee # NoFee THEN fee ELSE IF Priority > 1 THEN Priority ELSE 1)

-----------------------------------------------------------------------------
(* What a request is for, and what follows from its answer.                *)

\* A thread with no call in progress makes one: the main thread always until it has ended,
\* a pool thread for the base fee if the cache is empty.
WantsCall(t) ==
    IF t = Main THEN loop \notin {"flush", "closed", "died"}
                ELSE Started /\ ~bundles /\ price[t] = Unpriced /\ cached = NoFee

\* The URLs a request goes to: calls of the contract, reads of the connection, or both.
Asks(t) ==
    IF t # Main \/ loop \in {"chain-id", "number", "poll"} THEN {w3}
    ELSE IF loop \in {"genesis", "challenge"} THEN {contract}
    ELSE {contract, w3}

FeeAt(u) == IF u \in London THEN BaseFee[height] ELSE NoFee

\* mining_state() caches the base fee, if the block has one.
StateRead ==
    /\ state' = [block |-> height, fee |-> FeeAt(w3)]
    /\ cached' = IF FeeAt(w3) = NoFee THEN cached ELSE FeeAt(w3)

\* Once the challenge is known the job is set, and the first time the farm is started.
AfterChallenge == IF bundles /\ last # NoFee THEN "flush" ELSE "poll"

\* run(), _wait_for_open(), follow_blocks() and _block_loop() go on with an answer.  What the
\* cross-check of challenge_for() finds, and when, is Miner's; here it is any outcome.
MainReturns ==
    \/ loop = "chain-id" /\ loop' = "genesis" /\ UNCHANGED <<last, state, cached, localOk>>
    \/ /\ loop = "genesis"
       /\ loop' = IF height >= OpenAt THEN "first" ELSE "genesis"
       /\ UNCHANGED <<last, state, cached, localOk>>
    \/ loop = "first" /\ loop' \in {"number", "closed"} /\ StateRead /\ UNCHANGED <<last, localOk>>
    \/ loop = "number" /\ loop' = "challenge" /\ UNCHANGED <<last, state, cached, localOk>>
    \/ /\ loop = "challenge"
       /\ IF localOk = "unknown"
             THEN \/ localOk' = "yes" /\ loop' = AfterChallenge
                  \/ localOk' = "no" /\ loop' \in {"challenge", AfterChallenge}
             ELSE loop' = AfterChallenge /\ UNCHANGED localOk
       /\ UNCHANGED <<last, state, cached>>
    \/ /\ loop = "poll"
       /\ last' = height
       /\ loop' = IF height # last \/ height = MaxHeight THEN "state" ELSE "poll"
       /\ UNCHANGED <<state, cached, localOk>>
    \/ /\ loop = "state"
       /\ loop' = IF localOk = "no" THEN "challenge" ELSE AfterChallenge
       /\ StateRead
       /\ UNCHANGED <<last, localOk>>
    \/ loop = "final" /\ loop' = "closed" /\ StateRead /\ UNCHANGED <<last, localOk>>

\* They go on without one too, but for the first mining state and for a challenge, which
\* nothing catches; in the loop shutdown() still runs.
MainHandles ==
    /\ loop' = CASE loop = "chain-id" -> "genesis"
                 [] loop \in {"first", "number"} -> "died"
                 [] loop = "challenge" -> IF last = NoFee THEN "died" ELSE "final"
                 [] loop = "state" -> "poll"
                 [] loop = "final" -> "closed"
                 [] OTHER -> loop
    /\ UNCHANGED <<last, state, cached, localOk>>

-----------------------------------------------------------------------------
(* _do() and _rotate().                                                    *)

AtRest == w3 = urls[i + 1] /\ contract = w3

Begins(t) == pc[t] = "none" /\ WantsCall(t)

CanAsk(t) == Begins(t) \/ pc[t] = "again"

\* The histories of a call, which begin with its first attempt.
Histories(t) ==
    /\ asked' = [asked EXCEPT ![t] = Asks(t) \union (IF Begins(t) THEN {} ELSE @)]
    /\ clean' = [clean EXCEPT ![t] =
                    IF Begins(t) THEN AtRest /\ \A x \in Threads \ {t} : pc[x] \notin Rotating
                                 ELSE @]

\* The locals and histories of a call that is over.
Forget(t) ==
    /\ pc' = [pc EXCEPT ![t] = "none"]
    /\ n' = [n EXCEPT ![t] = 0]
    /\ local' = [local EXCEPT ![t] = NoFee]
    /\ asked' = [asked EXCEPT ![t] = {}]
    /\ clean' = [clean EXCEPT ![t] = FALSE]

Answered(t) ==
    /\ CanAsk(t)
    /\ Forget(t)
    /\ IF t = Main THEN MainReturns /\ UNCHANGED price
                   ELSE price' = [price EXCEPT ![t] = Priced(FeeAt(w3))] /\ UNCHANGED loopVars
    /\ UNCHANGED <<clientVars, height>>

\* Mutant: one attempt is saved.
AttemptsOneShort == Len(urls) - 1

Attempts == Len(urls)

\* An attempt raises: rotate and try again, or give up.
Failed(t) ==
    /\ CanAsk(t)
    /\ Asks(t) \ Steady # {}
    /\ Histories(t)
    /\ n' = [n EXCEPT ![t] = @ + 1]
    /\ pc' = [pc EXCEPT ![t] = IF n[t] + 1 < Attempts THEN "read-index" ELSE "raised"]
    /\ UNCHANGED <<clientVars, loopVars, local, height, price>>

Handle(t) ==
    /\ pc[t] = "raised"
    /\ Forget(t)
    /\ IF t = Main THEN MainHandles /\ UNCHANGED price
                   ELSE price' = [price EXCEPT ![t] = Raised] /\ UNCHANGED loopVars
    /\ UNCHANGED <<clientVars, height>>

\* A step of a rotation, after which no other call can count on the endpoint it is at.
RotateStep(t, from, to) ==
    /\ pc[t] = from
    /\ pc' = [pc EXCEPT ![t] = to]
    /\ clean' = [x \in Threads |-> clean[x] /\ x = t]
    /\ UNCHANGED <<urls, bundles, loopVars, n, asked, height, price>>

Read(t, value) == local' = [local EXCEPT ![t] = value]

Used(t) == local' = [local EXCEPT ![t] = NoFee]

ReadIndex(t) ==
    RotateStep(t, "read-index", "write-index") /\ Read(t, i) /\ UNCHANGED <<i, w3, contract>>

WriteIndex(t) ==
    /\ RotateStep(t, "write-index", "read-url")
    /\ i' = (local[t] + 1) % Len(urls)
    /\ Used(t)
    /\ UNCHANGED <<w3, contract>>

ReadUrl(t) ==
    RotateStep(t, "read-url", "connect") /\ Read(t, urls[i + 1]) /\ UNCHANGED <<i, w3, contract>>

\* Mutant: the client stays connected to the endpoint that failed.
ConnectAgain(t) ==
    RotateStep(t, "connect", "read-w3") /\ Used(t) /\ UNCHANGED <<i, w3, contract>>

Connect(t) ==
    /\ RotateStep(t, "connect", "read-w3")
    /\ w3' = local[t]
    /\ Used(t)
    /\ UNCHANGED <<i, contract>>

ReadW3(t) ==
    RotateStep(t, "read-w3", "write-contract") /\ Read(t, w3) /\ UNCHANGED <<i, w3, contract>>

WriteContract(t) ==
    /\ RotateStep(t, "write-contract", "again")
    /\ contract' = local[t]
    /\ Used(t)
    /\ UNCHANGED <<i, w3>>

Call(t) ==
    \/ Answered(t) \/ Failed(t) \/ Handle(t)
    \/ ReadIndex(t) \/ WriteIndex(t) \/ ReadUrl(t) \/ Connect(t) \/ ReadW3(t) \/ WriteContract(t)

-----------------------------------------------------------------------------
(* What needs no request.                                                  *)

\* _fees() with a base fee in the cache.
PriceFromCache(t) ==
    /\ Started /\ ~bundles
    /\ price[t] = Unpriced /\ pc[t] = "none"
    /\ cached # NoFee
    /\ price' = [price EXCEPT ![t] = Priced(cached)]
    /\ UNCHANGED <<clientVars, loopVars, callVars, height>>

\* _maybe_flush_bundle() with the state just read: a batch is signed, or there is none.
FlushBundle ==
    /\ loop = "flush"
    /\ loop' = "poll"
    /\ price' \in {price, [price EXCEPT ![Main] = BundlePriced(state.fee)]}
    /\ UNCHANGED <<clientVars, last, state, cached, localOk, callVars, height>>

\* The supply is exhausted or Ctrl-C ends the loop; shutdown() reads the state once more.
Shutdown ==
    /\ Started /\ loop \notin {"final", "closed"}
    /\ loop' = "final"
    /\ pc' = [pc EXCEPT ![Main] = "none"]
    /\ n' = [n EXCEPT ![Main] = 0]
    /\ local' = [local EXCEPT ![Main] = NoFee]
    /\ asked' = [asked EXCEPT ![Main] = {}]
    /\ clean' = [clean EXCEPT ![Main] = FALSE]
    /\ UNCHANGED <<clientVars, last, state, cached, localOk, height, price>>

MainStep == Call(Main) \/ FlushBundle

PoolStep(t) == Call(t) \/ PriceFromCache(t)

ChainNext ==
    \/ NewBlock
    \/ MainStep
    \/ Shutdown
    \/ \E t \in Pool : PoolStep(t)

-----------------------------------------------------------------------------
(* Fairness.  Every request ends by an answer or by its timeout, and every *)
(* thread goes on after it.  Blocks keep coming.  Nothing has to end the   *)
(* loop.                                                                   *)

ChainFairness ==
    /\ WF_chainVars(NewBlock)
    /\ WF_chainVars(MainStep)
    /\ \A t \in Pool : WF_chainVars(PoolStep(t))

-----------------------------------------------------------------------------
(* Properties.                                                             *)

\* "we only give up after a full pass fails" (chain.py:4-6), as far as it is true: a call that
\* began with index, connection and contract agreeing, and beside which no other thread
\* rotated, has asked every endpoint when it raises.
FullPass ==
    \A t \in Threads : pc[t] = "raised" /\ clean[t] => asked[t] = Endpoints

\* A submission is priced within both caps, from the base fee of a block the chain has had,
\* however old the cached one is (submit.py:96-110, chain.py:94-104).
PriceIsCapped ==
    \A t \in Pool : price[t] \in Nat =>
        /\ price[t] <= MaxFeeCap
        /\ \E base \in {BaseFee[b] : b \in 0..height} \union {Priority} :
              base <= SkipAbove /\ price[t] = base * Multiplier + Priority

SomeSteady == Endpoints \intersect Steady # {}

\* One endpoint that answers is enough: the miner ends up with the state of the latest block,
\* whatever the rotations of several threads did to the client, or the loop was ended
\* (chain.py:62-81, 166-180, miner.py:159-176).
ChainIsFollowed ==
    <>[](SomeSteady => loop \in {"final", "closed"} \/ state.block = MaxHeight)

\* One endpoint that answers is also enough for the miner to start when the contract opens:
\* the first mining state, whose failure nothing catches, is then read, since no other thread
\* is there yet to rotate (miner.py:109-124, 135-157).
MiningStarts == SomeSteady /\ height >= OpenAt ~> Started

\* config.py:38: "hard cap on maxFeePerGas; skip a submission if the needed maxFee
\* (baseFee*base_fee_mult + priority) exceeds it".
HardCap == \A t \in Threads : price[t] \in Nat => price[t] <= MaxFeeCap
=============================================================================
