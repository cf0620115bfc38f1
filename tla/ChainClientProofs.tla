------------------------- MODULE ChainClientProofs -------------------------
(* Theorems about ChainClient for every list of endpoints, any number of   *)
(* pool threads, every base fee and every setting of the prices.           *)
EXTENDS ChainClient, TLAPS

-----------------------------------------------------------------------------
(* Prices.                                                                 *)

Fees == {BaseFee[b] : b \in 0..height}

\* What is cached was the base fee of a block.
CacheInv ==
    /\ height \in 0..MaxHeight
    /\ cached \in Fees \union {NoFee}
    /\ state.fee \in Fees \union {NoFee}
    /\ price \in [Threads -> Int]

\* A price within both caps, made from one of these base fees.
Capped(x, fees) ==
    x \in Nat => /\ x <= MaxFeeCap
                 /\ \E base \in fees \union {Priority} :
                       base <= SkipAbove /\ x = base * Multiplier + Priority

PriceInv == CacheInv /\ \A t \in Pool : Capped(price[t], Fees)

LEMMA FeesType == CacheInv => \A fee \in Fees : fee \in Nat /\ fee # NoFee
<1>. SUFFICES ASSUME CacheInv, NEW b \in 0..height PROVE BaseFee[b] \in Nat
  BY DEF Fees, NoFee
<1>. QED  BY ChainAssumption DEF CacheInv

LEMMA FeeReadType == CacheInv => \A u : FeeAt(u) \in Fees \union {NoFee}
BY DEF CacheInv, FeeAt, Fees

\* What _fees() makes of a base fee is within the caps, or no price.
LEMMA PricedIsCapped ==
    ASSUME CacheInv, NEW fee \in Fees \union {NoFee}
    PROVE  Priced(fee) \in Int /\ Capped(Priced(fee), Fees)
<1>. DEFINE base == IF fee = NoFee THEN Priority ELSE fee
<1>1. base \in Fees \union {Priority} /\ base \in Nat
  BY FeesType, ChainAssumption
<1>2. MaxFee(base) \in Nat
  <2>1. base * Multiplier \in Nat
    BY <1>1, ChainAssumption
  <2>. QED  BY <2>1, ChainAssumption DEF MaxFee
<1>3. CASE OverCap(base)
  BY <1>3 DEF Priced, Skipped, Capped
<1>4. CASE ~OverCap(base)
  <2>1. Priced(fee) = MaxFee(base)
    BY <1>4 DEF Priced
  <2>2. base <= SkipAbove /\ MaxFee(base) <= MaxFeeCap
    BY <1>1, <1>2, <1>4, ChainAssumption DEF OverCap
  <2>3. MaxFee(base) = base * Multiplier + Priority
    BY DEF MaxFee
  <2>. QED  BY <1>1, <1>2, <2>1, <2>2, <2>3 DEF Capped
<1>. QED  BY <1>3, <1>4

\* The price of bundles is a number, whatever it is.
LEMMA BundlePricedType ==
    ASSUME NEW fee \in Nat \union {NoFee}
    PROVE  BundlePriced(fee) \in Int
<1>. DEFINE base == IF fee # NoFee THEN fee ELSE IF Priority > 1 THEN Priority ELSE 1
<1>1. base \in Nat
  BY ChainAssumption
<1>2. base * Multiplier \in Nat
  BY <1>1, ChainAssumption
<1>. QED  BY <1>2, ChainAssumption DEF BundlePriced, MaxFee

\* A block adds a base fee.
LEMMA FeesGrow ==
    ASSUME CacheInv, height' = height + 1 \/ height' = height
    PROVE  Fees \subseteq Fees'
BY ChainAssumption DEF CacheInv, Fees

\* Prices stay what they are made of.
LEMMA PriceFrame ==
    ASSUME PriceInv, Fees \subseteq Fees', UNCHANGED price
    PROVE  /\ price' \in [Threads -> Int]
           /\ \A t \in Pool : Capped(price'[t], Fees')
BY DEF PriceInv, CacheInv, Capped

\* A pool thread has its price.
LEMMA PriceSet ==
    ASSUME PriceInv, NEW t \in Pool, NEW x \in Int, Capped(x, Fees),
           price' = [price EXCEPT ![t] = x], UNCHANGED <<height, cached, state>>
    PROVE  PriceInv'
<1>1. Fees' = Fees
  BY DEF Fees
<1>2. price' \in [Threads -> Int]
  BY DEF PriceInv, CacheInv
<1>3. ASSUME NEW s \in Pool PROVE Capped(price'[s], Fees)
  <2>1. price'[s] = IF s = t THEN x ELSE price[s]
    BY DEF PriceInv, CacheInv, Threads
  <2>. QED  BY <2>1 DEF PriceInv
<1>. QED  BY <1>1, <1>2, <1>3 DEF PriceInv, CacheInv

LEMMA PriceUnchanged ==
    ASSUME PriceInv, UNCHANGED <<height, cached, state, price>>
    PROVE  PriceInv'
BY DEF PriceInv, CacheInv, Fees

\* The main thread reads a mining state, or does something else.
LEMMA MainReturnsPrice ==
    ASSUME PriceInv, MainReturns, UNCHANGED <<height, price>>
    PROVE  PriceInv'
<1>1. CASE StateRead
  <2>1. Fees' = Fees
    BY DEF Fees
  <2>2. state'.fee \in Fees \union {NoFee} /\ cached' \in Fees \union {NoFee}
    BY <1>1, FeeReadType DEF StateRead, PriceInv, CacheInv
  <2>. QED  BY <2>1, <2>2 DEF PriceInv, CacheInv
<1>2. CASE UNCHANGED <<cached, state>>
  BY <1>2, PriceUnchanged
<1>. QED  BY <1>1, <1>2 DEF MainReturns

LEMMA CallPrice ==
    ASSUME PriceInv, NEW t \in Threads, Call(t)
    PROVE  PriceInv'
<1>1. CASE Answered(t)
  <2>1. CASE t = Main
    BY <1>1, <2>1, MainReturnsPrice DEF Answered
  <2>2. CASE t # Main
    <3>1. t \in Pool
      BY <2>2 DEF Threads
    <3>2. Priced(FeeAt(w3)) \in Int /\ Capped(Priced(FeeAt(w3)), Fees)
      BY FeeReadType, PricedIsCapped DEF PriceInv
    <3>. QED  BY <1>1, <2>2, <3>1, <3>2, PriceSet DEF Answered, loopVars
  <2>. QED  BY <2>1, <2>2
<1>2. CASE Handle(t)
  <2>1. CASE t = Main
    BY <1>2, <2>1, PriceUnchanged DEF Handle, MainHandles
  <2>2. CASE t # Main
    <3>1. t \in Pool
      BY <2>2 DEF Threads
    <3>2. Raised \in Int /\ Capped(Raised, Fees)
      BY DEF Raised, Capped
    <3>. QED  BY <1>2, <2>2, <3>1, <3>2, PriceSet DEF Handle, loopVars
  <2>. QED  BY <2>1, <2>2
<1>3. CASE Failed(t)
  BY <1>3, PriceUnchanged DEF Failed, loopVars
<1>4. CASE \/ ReadIndex(t) \/ WriteIndex(t) \/ ReadUrl(t)
           \/ Connect(t) \/ ReadW3(t) \/ WriteContract(t)
  BY <1>4, PriceUnchanged
     DEF ReadIndex, WriteIndex, ReadUrl, Connect, ReadW3, WriteContract, RotateStep, loopVars
<1>. QED  BY <1>1, <1>2, <1>3, <1>4 DEF Call

\* The batch is priced for the main thread, which is no pool thread.
LEMMA FlushPrice == PriceInv /\ FlushBundle => PriceInv'
<1>. SUFFICES ASSUME PriceInv, FlushBundle PROVE PriceInv'
  OBVIOUS
<1>1. BundlePriced(state.fee) \in Int
  BY FeesType, BundlePricedType DEF PriceInv, CacheInv
<1>2. Fees' = Fees /\ UNCHANGED <<height, cached, state>>
  BY DEF FlushBundle, Fees
<1>3. price' \in [Threads -> Int]
  BY <1>1 DEF FlushBundle, PriceInv, CacheInv
<1>4. \A t \in Pool : price'[t] = price[t]
  BY ChainAssumption DEF FlushBundle, PriceInv, CacheInv, Threads
<1>. QED  BY <1>2, <1>3, <1>4 DEF PriceInv, CacheInv

LEMMA PriceInit ==
    ASSUME NEW chain, NEW withBundles, ChainInit(chain, withBundles)
    PROVE  PriceInv
BY ChainAssumption DEF ChainInit, PriceInv, CacheInv, Capped, Unpriced, NoFee, Threads

LEMMA PriceNext == PriceInv /\ [ChainNext]_chainVars => PriceInv'
<1>. SUFFICES ASSUME PriceInv, [ChainNext]_chainVars PROVE PriceInv'
  OBVIOUS
<1>1. CASE NewBlock
  <2>1. Fees \subseteq Fees' /\ UNCHANGED <<cached, state, price>>
    BY <1>1, FeesGrow DEF NewBlock, PriceInv, loopVars
  <2>2. height' \in 0..MaxHeight
    BY <1>1, ChainAssumption DEF NewBlock, PriceInv, CacheInv
  <2>. QED  BY <2>1, <2>2, PriceFrame DEF PriceInv, CacheInv
<1>2. ASSUME NEW t \in Threads, Call(t) PROVE PriceInv'
  BY <1>2, CallPrice
<1>3. CASE FlushBundle
  BY <1>3, FlushPrice
<1>4. CASE Shutdown
  BY <1>4, PriceUnchanged DEF Shutdown
<1>5. ASSUME NEW t \in Pool, PriceFromCache(t) PROVE PriceInv'
  <2>1. Priced(cached) \in Int /\ Capped(Priced(cached), Fees)
    BY PricedIsCapped DEF PriceInv, CacheInv
  <2>. QED  BY <1>5, <2>1, PriceSet DEF PriceFromCache, loopVars
<1>6. CASE UNCHANGED chainVars
  BY <1>6, PriceUnchanged DEF chainVars, loopVars
<1>. QED  BY <1>1, <1>2, <1>3, <1>4, <1>5, <1>6 DEF ChainNext, MainStep, PoolStep, Threads

\* What the cache and the caps are about: no transaction is signed for more than the caps
\* allow, nor for a base fee the chain has not had (submit.py:96-110, chain.py:94-104).
THEOREM PriceIsCappedCorrect ==
    ASSUME NEW chain, NEW withBundles
    PROVE  ChainInit(chain, withBundles) /\ [][ChainNext]_chainVars => []PriceIsCapped
<1>1. ChainInit(chain, withBundles) => PriceInv
  BY PriceInit
<1>2. PriceInv => PriceIsCapped
  BY DEF PriceInv, PriceIsCapped, Capped, Fees
<1>. QED  BY <1>1, <1>2, PriceNext, PTL

-----------------------------------------------------------------------------
(* Passes over the endpoints.                                              *)

\* The index j places after a, of so many.
Place(many, a, j) == IF a + j < many THEN a + j ELSE a + j - many

\* The k endpoints of a list from a on.
Window(list, a, k) == {list[Place(Len(list), a, j) + 1] : j \in 0..(k - 1)}

\* The call of t began at index a and has asked the n[t] endpoints from there on: in a
\* rotation the index, the connection and the contract move to the next one after another.
Progress(t, a) ==
    /\ a \in 0..(Len(urls) - 1)
    /\ n[t] \in 1..Len(urls)
    /\ asked[t] = Window(urls, a, n[t])
    /\ pc[t] \in Rotating \union {"again", "raised"}
    /\ pc[t] = "raised" => n[t] = Len(urls)
    /\ pc[t] # "raised" => n[t] < Len(urls)
    /\ i = Place(Len(urls), a,
                 IF pc[t] \in {"read-index", "write-index", "raised"} THEN n[t] - 1 ELSE n[t])
    /\ pc[t] = "write-index" => local[t] = i
    /\ pc[t] = "connect" => local[t] = urls[i + 1]
    /\ pc[t] \in {"read-w3", "write-contract", "again"} => w3 = urls[i + 1]
    /\ pc[t] = "write-contract" => local[t] = w3
    /\ pc[t] = "again" => contract = w3

CallTypes ==
    /\ Len(urls) \in Nat \ {0}
    /\ i \in 0..(Len(urls) - 1)
    /\ n \in [Threads -> Nat]
    /\ pc \in [Threads -> {"none", "again", "raised"} \union Rotating]
    /\ DOMAIN local = Threads
    /\ DOMAIN asked = Threads
    /\ DOMAIN clean = Threads
    /\ \A t \in Threads : pc[t] = "none" => n[t] = 0
    /\ \A t \in Threads : pc[t] = "write-index" => local[t] \in Int

PassInv ==
    /\ CallTypes
    /\ \A t \in Threads : clean[t] => \E a \in 0..(Len(urls) - 1) : Progress(t, a)

LEMMA Successor ==
    ASSUME NEW k \in Nat \ {0}, NEW a \in 0..(k - 1)
    PROVE  (a + 1) % k = IF a + 1 = k THEN 0 ELSE a + 1
OBVIOUS

LEMMA NextPlace ==
    ASSUME NEW k \in Nat \ {0}, NEW a \in 0..(k - 1), NEW m \in 1..k, m < k,
           NEW x, x = Place(k, a, m - 1)
    PROVE  Place(k, a, m) = IF x + 1 = k THEN 0 ELSE x + 1
BY DEF Place

\* The places from a on are all of them.
LEMMA FullWindow ==
    ASSUME CallTypes, NEW a \in 0..(Len(urls) - 1)
    PROVE  Window(urls, a, Len(urls)) = Endpoints
<1>. DEFINE K == Len(urls)
<1>1. ASSUME NEW j \in 0..(K - 1) PROVE Place(Len(urls), a, j) + 1 \in 1..K
  BY DEF Place, CallTypes
<1>2. ASSUME NEW k \in 1..K PROVE \E j \in 0..(K - 1) : Place(Len(urls), a, j) + 1 = k
  <2>1. CASE k - 1 >= a
    <3>1. k - 1 - a \in 0..(K - 1) /\ Place(Len(urls), a, k - 1 - a) + 1 = k
      BY <2>1 DEF Place, CallTypes
    <3>. QED  BY <3>1
  <2>2. CASE k - 1 < a
    <3>1. k - 1 - a + K \in 0..(K - 1) /\ Place(Len(urls), a, k - 1 - a + K) + 1 = k
      BY <2>2 DEF Place, CallTypes
    <3>. QED  BY <3>1
  <2>. QED  BY <2>1, <2>2 DEF CallTypes
<1>. QED  BY <1>1, <1>2 DEF Window, Endpoints

\* A window grows by the endpoint after it.
LEMMA WindowGrows ==
    ASSUME CallTypes, NEW a \in 0..(Len(urls) - 1), NEW k \in Nat
    PROVE  Window(urls, a, k + 1) = Window(urls, a, k) \union {urls[Place(Len(urls), a, k) + 1]}
<1>1. 0..(k + 1 - 1) = 0..(k - 1) \union {k}
  OBVIOUS
<1>. QED  BY <1>1 DEF Window

LEMMA WindowOfOne ==
    ASSUME CallTypes, NEW a \in 0..(Len(urls) - 1)
    PROVE  Window(urls, a, 1) = {urls[a + 1]}
<1>1. Place(Len(urls), a, 0) = a
  BY DEF Place, CallTypes
<1>2. 0..(1 - 1) = {0}
  OBVIOUS
<1>. QED  BY <1>1, <1>2 DEF Window

\* Where all three agree, a request goes to the endpoint of the index.
LEMMA AsksAtRest ==
    ASSUME w3 = urls[i + 1], contract = w3, NEW t
    PROVE  Asks(t) = {urls[i + 1]}
BY DEF Asks

\* What a call has done is not undone by what another thread does.
LEMMA ProgressFrame ==
    ASSUME NEW t, NEW a, Progress(t, a), UNCHANGED <<urls, i, w3, contract>>,
           n'[t] = n[t], pc'[t] = pc[t], local'[t] = local[t], asked'[t] = asked[t]
    PROVE  Progress(t, a)'
BY DEF Progress

\* A step of the thread t, after which the others have what they had, but that their calls
\* may not be clean any more.
OthersKeep(t) ==
    /\ UNCHANGED urls
    /\ \A s \in Threads \ {t} :
          /\ n'[s] = n[s] /\ pc'[s] = pc[s] /\ local'[s] = local[s] /\ asked'[s] = asked[s]
          /\ clean'[s] => clean[s] /\ UNCHANGED <<i, w3, contract>>

LEMMA OthersProgress ==
    ASSUME PassInv, NEW t \in Threads, OthersKeep(t), CallTypes',
           clean'[t] => \E a \in 0..(Len(urls) - 1) : Progress(t, a)'
    PROVE  PassInv'
<1>1. ASSUME NEW s \in Threads, clean'[s]
      PROVE  \E a \in 0..(Len(urls) - 1) : Progress(s, a)'
  <2>1. CASE s = t
    BY <1>1, <2>1
  <2>2. CASE s # t
    <3>1. clean[s] /\ UNCHANGED <<urls, i, w3, contract>>
      BY <1>1, <2>2 DEF OthersKeep
    <3>2. PICK a \in 0..(Len(urls) - 1) : Progress(s, a)
      BY <3>1 DEF PassInv
    <3>3. Progress(s, a)'
      BY <2>2, <3>1, <3>2, ProgressFrame DEF OthersKeep
    <3>. QED  BY <3>3
  <2>. QED  BY <2>1, <2>2
<1>2. urls' = urls
  BY DEF OthersKeep
<1>. QED  BY <1>1, <1>2 DEF PassInv

\* A call that is over has nothing to show for.
LEMMA ForgetPass ==
    ASSUME PassInv, NEW t \in Threads, Forget(t), UNCHANGED clientVars
    PROVE  PassInv'
<1>1. OthersKeep(t)
  BY DEF PassInv, CallTypes, Forget, OthersKeep, clientVars
<1>2. CallTypes'
  BY DEF PassInv, CallTypes, Forget, clientVars
<1>3. ~clean'[t]
  BY DEF PassInv, CallTypes, Forget
<1>. QED  BY <1>1, <1>2, <1>3, OthersProgress

\* An attempt that fails has asked the endpoint after those asked before.
LEMMA FailedPass ==
    ASSUME PassInv, NEW t \in Threads, Failed(t)
    PROVE  PassInv'
<1>1. OthersKeep(t)
  BY DEF PassInv, CallTypes, Failed, Histories, OthersKeep, clientVars
<1>2. CallTypes'
  BY DEF PassInv, CallTypes, Failed, Histories, clientVars, Rotating
<1>3. ASSUME clean'[t]
      PROVE  \E a \in 0..(Len(urls) - 1) : Progress(t, a)'
  <2>1. /\ n'[t] = n[t] + 1
        /\ pc'[t] = IF n[t] + 1 < Len(urls) THEN "read-index" ELSE "raised"
        /\ asked'[t] = Asks(t) \union (IF Begins(t) THEN {} ELSE asked[t])
        /\ UNCHANGED <<urls, i, w3, contract>>
    BY DEF PassInv, CallTypes, Failed, Histories, Attempts, clientVars
  <2>2. CASE Begins(t)
    <3>1. AtRest /\ n[t] = 0
      BY <1>3, <2>2 DEF PassInv, CallTypes, Failed, Histories, Begins
    <3>2. asked'[t] = Window(urls, i, 1)
      BY <2>1, <2>2, <3>1, AsksAtRest, WindowOfOne DEF AtRest, PassInv, CallTypes
    <3>3. Place(Len(urls), i, 0) = i
      BY DEF Place, PassInv, CallTypes
    <3>4. Progress(t, i)'
      <4>1. n'[t] = 1 /\ pc'[t] = IF 1 < Len(urls) THEN "read-index" ELSE "raised"
        BY <2>1, <3>1
      <4>2. Len(urls) \in Nat \ {0} /\ i \in 0..(Len(urls) - 1)
        BY DEF PassInv, CallTypes
      <4>3. i = Place(Len(urls), i, n'[t] - 1)
        BY <3>3, <4>1
      <4>. QED  BY <2>1, <3>2, <4>1, <4>2, <4>3 DEF Progress, Rotating
    <3>5. i' = i /\ i \in 0..(Len(urls) - 1)
      BY <2>1 DEF PassInv, CallTypes
    <3>. QED  BY <3>4, <3>5
  <2>3. CASE ~Begins(t)
    <3>1. pc[t] = "again" /\ clean[t]
      BY <1>3, <2>3 DEF Failed, CanAsk, Histories, PassInv, CallTypes
    <3>2. PICK a \in 0..(Len(urls) - 1) : Progress(t, a)
      BY <3>1 DEF PassInv
    <3>3. /\ i = Place(Len(urls), a, n[t])
          /\ w3 = urls[i + 1] /\ contract = w3
          /\ asked[t] = Window(urls, a, n[t])
          /\ n[t] \in Nat /\ n[t] < Len(urls)
      BY <3>1, <3>2 DEF Progress, PassInv, CallTypes
    <3>4. asked'[t] = Window(urls, a, n[t] + 1)
      <4>1. asked'[t] = {urls[i + 1]} \union Window(urls, a, n[t])
        BY <2>1, <2>3, <3>3, AsksAtRest
      <4>2. Window(urls, a, n[t] + 1) = Window(urls, a, n[t]) \union {urls[i + 1]}
        BY <3>3, WindowGrows DEF PassInv
      <4>. QED  BY <4>1, <4>2
    <3>5. Progress(t, a)'
      <4>1. /\ n'[t] = n[t] + 1 /\ n'[t] \in 1..Len(urls) /\ n'[t] - 1 = n[t]
            /\ \/ pc'[t] = "read-index" /\ n'[t] < Len(urls)
               \/ pc'[t] = "raised" /\ n'[t] = Len(urls)
        BY <2>1, <3>3 DEF PassInv, CallTypes
      <4>2. asked'[t] = Window(urls, a, n'[t]) /\ i = Place(Len(urls), a, n'[t] - 1)
        BY <3>3, <3>4, <4>1
      <4>. QED  BY <2>1, <4>1, <4>2 DEF Progress, Rotating
    <3>. QED  BY <3>5
  <2>. QED  BY <2>2, <2>3
<1>. QED  BY <1>1, <1>2, <1>3, OthersProgress

\* A rotation goes to the next place.
LEMMA RotatePass ==
    ASSUME PassInv, NEW t \in Threads,
           \/ ReadIndex(t) \/ WriteIndex(t) \/ ReadUrl(t)
           \/ Connect(t) \/ ReadW3(t) \/ WriteContract(t)
    PROVE  PassInv'
<1>1. OthersKeep(t)
  BY DEF PassInv, CallTypes, OthersKeep, RotateStep, Read, Used,
         ReadIndex, WriteIndex, ReadUrl, Connect, ReadW3, WriteContract
<1>2. CallTypes'
  <2>1. i' \in 0..(Len(urls) - 1)
    BY DEF PassInv, CallTypes, ReadIndex, WriteIndex, ReadUrl, Connect, ReadW3, WriteContract,
           RotateStep
  <2>2. /\ urls' = urls /\ n' = n /\ asked' = asked
        /\ DOMAIN local' = Threads /\ DOMAIN clean' = Threads
    BY DEF PassInv, CallTypes, RotateStep, Read, Used,
           ReadIndex, WriteIndex, ReadUrl, Connect, ReadW3, WriteContract
  <2>3. /\ pc' \in [Threads -> {"none", "again", "raised"} \union Rotating]
        /\ pc'[t] # "none"
    BY DEF PassInv, CallTypes, RotateStep, Rotating,
           ReadIndex, WriteIndex, ReadUrl, Connect, ReadW3, WriteContract
  <2>4. pc'[t] = "write-index" => local'[t] \in Int
    BY DEF PassInv, CallTypes, RotateStep, Read,
           ReadIndex, WriteIndex, ReadUrl, Connect, ReadW3, WriteContract
  <2>. QED  BY <1>1, <2>1, <2>2, <2>3, <2>4 DEF PassInv, CallTypes, OthersKeep
<1>3. ASSUME clean'[t]
      PROVE  \E a \in 0..(Len(urls) - 1) : Progress(t, a)'
  <2>1. clean[t] /\ urls' = urls /\ n' = n /\ asked' = asked
    BY <1>3 DEF RotateStep, ReadIndex, WriteIndex, ReadUrl, Connect, ReadW3, WriteContract
  <2>2. PICK a \in 0..(Len(urls) - 1) : Progress(t, a)
    BY <2>1 DEF PassInv
  <2>3. CASE ReadIndex(t)
    BY <2>1, <2>2, <2>3
       DEF Progress, PassInv, CallTypes, Rotating, ReadIndex, RotateStep, Read
  <2>4. CASE WriteIndex(t)
    <3>1. local[t] = i /\ i = Place(Len(urls), a, n[t] - 1) /\ n[t] < Len(urls) /\ n[t] \in 1..Len(urls)
      BY <2>2, <2>4 DEF Progress, WriteIndex, RotateStep
    <3>2. i' = IF i + 1 = Len(urls) THEN 0 ELSE i + 1
      BY <2>4, <3>1, Successor DEF WriteIndex, PassInv, CallTypes
    <3>3. i' = Place(Len(urls), a, n[t])
      BY <3>1, <3>2, NextPlace DEF PassInv, CallTypes
    <3>4. pc'[t] = "read-url"
      BY <2>4 DEF WriteIndex, RotateStep, PassInv, CallTypes
    <3>. QED  BY <2>1, <2>2, <3>1, <3>3, <3>4 DEF Progress, Rotating
  <2>5. CASE ReadUrl(t)
    BY <2>1, <2>2, <2>5
       DEF Progress, PassInv, CallTypes, Rotating, ReadUrl, RotateStep, Read
  <2>6. CASE Connect(t)
    BY <2>1, <2>2, <2>6
       DEF Progress, PassInv, CallTypes, Rotating, Connect, RotateStep, Used
  <2>7. CASE ReadW3(t)
    BY <2>1, <2>2, <2>7
       DEF Progress, PassInv, CallTypes, Rotating, ReadW3, RotateStep, Read
  <2>8. CASE WriteContract(t)
    BY <2>1, <2>2, <2>8
       DEF Progress, PassInv, CallTypes, Rotating, WriteContract, RotateStep, Used
  <2>. QED  BY <2>3, <2>4, <2>5, <2>6, <2>7, <2>8
<1>. QED  BY <1>1, <1>2, <1>3, OthersProgress

LEMMA PassUnchanged ==
    ASSUME PassInv, UNCHANGED <<clientVars, callVars>>
    PROVE  PassInv'
<1>1. UNCHANGED <<urls, i, w3, contract, pc, n, local, asked, clean>>
  BY DEF clientVars, callVars
<1>2. CallTypes'
  BY <1>1 DEF PassInv, CallTypes
<1>3. ASSUME NEW t \in Threads, clean'[t]
      PROVE  \E a \in 0..(Len(urls) - 1) : Progress(t, a)'
  BY <1>1, <1>3, ProgressFrame DEF PassInv
<1>. QED  BY <1>1, <1>2, <1>3 DEF PassInv

LEMMA PassInit ==
    ASSUME NEW chain, NEW withBundles, Len(chain) \in Nat \ {0},
           ChainInit(chain, withBundles)
    PROVE  PassInv
BY DEF ChainInit, PassInv, CallTypes

LEMMA PassNext == PassInv /\ [ChainNext]_chainVars => PassInv'
<1>. SUFFICES ASSUME PassInv, [ChainNext]_chainVars PROVE PassInv'
  OBVIOUS
<1>1. CASE NewBlock
  BY <1>1, PassUnchanged DEF NewBlock
<1>2. ASSUME NEW t \in Threads, Call(t) PROVE PassInv'
  <2>1. CASE Answered(t) \/ Handle(t)
    BY <2>1, ForgetPass DEF Answered, Handle
  <2>2. CASE Failed(t)
    BY <2>2, FailedPass
  <2>3. CASE \/ ReadIndex(t) \/ WriteIndex(t) \/ ReadUrl(t)
             \/ Connect(t) \/ ReadW3(t) \/ WriteContract(t)
    BY <2>3, RotatePass
  <2>. QED  BY <1>2, <2>1, <2>2, <2>3 DEF Call
<1>3. CASE FlushBundle
  BY <1>3, PassUnchanged DEF FlushBundle
<1>4. CASE Shutdown
  BY <1>4, ForgetPass DEF Shutdown, Forget, Threads
<1>5. ASSUME NEW t \in Pool, PriceFromCache(t) PROVE PassInv'
  BY <1>5, PassUnchanged DEF PriceFromCache
<1>6. CASE UNCHANGED chainVars
  BY <1>6, PassUnchanged DEF chainVars
<1>. QED  BY <1>1, <1>2, <1>3, <1>4, <1>5, <1>6 DEF ChainNext, MainStep, PoolStep, Threads

\* Which it is when it raises.
LEMMA PassIsFull == PassInv => FullPass
<1>. SUFFICES ASSUME PassInv, NEW t \in Threads, pc[t] = "raised", clean[t]
              PROVE  asked[t] = Endpoints
  BY DEF FullPass
<1>1. PICK a \in 0..(Len(urls) - 1) : Progress(t, a)
  BY DEF PassInv
<1>2. asked[t] = Window(urls, a, Len(urls))
  BY <1>1 DEF Progress
<1>. QED  BY <1>2, FullWindow DEF PassInv

\* However many endpoints there are, a call that began on a client at rest and saw no other
\* thread rotate has asked each of them before it gives up (chain.py:4-6, 62-81).  The list
\* is not empty: Config.validate refuses one that is.
THEOREM FullPassCorrect ==
    ASSUME NEW chain, NEW withBundles, Len(chain) \in Nat \ {0}
    PROVE  ChainInit(chain, withBundles) /\ [][ChainNext]_chainVars => []FullPass
<1>1. ChainInit(chain, withBundles) => PassInv
  BY PassInit
<1>2. PassInv => FullPass
  BY PassIsFull
<1>. QED  BY <1>1, <1>2, PassNext, PTL

-----------------------------------------------------------------------------
(* Types.                                                                  *)

\* What a thread in _do() has in its local variables.
LocalInv ==
    \A t \in Threads :
        /\ pc[t] = "none" => n[t] = 0
        /\ pc[t] # "raised" => n[t] < Len(urls)
        /\ pc[t] = "write-index" => local[t] \in 0..(Len(urls) - 1)
        /\ pc[t] \in {"connect", "write-contract"} => local[t] \in Endpoints

ChainTypeInv == ChainTypeOK /\ LocalInv /\ Len(urls) \in Nat \ {0}

Fates == Nat \union {Unpriced, Skipped, Raised}

\* A base fee there may be, and what is made of it.
LEMMA FeeAtType == ChainTypeOK => \A u : FeeAt(u) \in Nat \union {NoFee}
BY ChainAssumption DEF ChainTypeOK, FeeAt

LEMMA PricedType ==
    ASSUME NEW fee \in Nat \union {NoFee}
    PROVE  Priced(fee) \in Fates /\ BundlePriced(fee) \in Fates
<1>1. \A base \in Nat : MaxFee(base) \in Nat
  <2>. SUFFICES ASSUME NEW base \in Nat PROVE MaxFee(base) \in Nat
    OBVIOUS
  <2>1. base * Multiplier \in Nat
    BY ChainAssumption
  <2>. QED  BY <2>1, ChainAssumption DEF MaxFee
<1>. QED  BY <1>1, ChainAssumption DEF Priced, BundlePriced, Fates, NoFee

LEMMA AsksType == ChainTypeOK => \A t : Asks(t) \subseteq Endpoints
BY DEF ChainTypeOK, Asks

\* The main thread goes on, with an answer or without.
LEMMA LoopTypes ==
    ASSUME ChainTypeOK, MainReturns \/ MainHandles
    PROVE  /\ cached' \in Nat \union {NoFee}
           /\ loop' \in {"chain-id", "genesis", "first", "number", "challenge", "poll", "state",
                         "flush", "final", "closed", "died"}
           /\ localOk' \in {"unknown", "yes", "no"}
           /\ last' \in 0..MaxHeight \union {NoFee}
           /\ state' \in [block : 0..MaxHeight, fee : Nat \union {NoFee}]
<1>1. ASSUME StateRead
      PROVE  /\ cached' \in Nat \union {NoFee}
             /\ state' \in [block : 0..MaxHeight, fee : Nat \union {NoFee}]
  BY <1>1, FeeAtType DEF StateRead, ChainTypeOK
<1>2. CASE MainReturns
  BY <1>1, <1>2 DEF MainReturns, AfterChallenge, ChainTypeOK
<1>3. CASE MainHandles
  BY <1>3 DEF MainHandles, ChainTypeOK
<1>. QED  BY <1>2, <1>3

\* The types of what a call keeps.
CallType ==
    /\ pc \in [Threads -> {"none", "again", "raised"} \union Rotating]
    /\ n \in [Threads -> 0..Len(urls)]
    /\ local \in [Threads -> Endpoints \union 0..Len(urls) \union {NoFee}]
    /\ asked \in [Threads -> SUBSET Endpoints]
    /\ clean \in [Threads -> BOOLEAN]

LEMMA ForgetTypes ==
    ASSUME ChainTypeInv, NEW t \in Threads, Forget(t), UNCHANGED urls
    PROVE  CallType' /\ LocalInv'
<1>1. Endpoints' = Endpoints /\ Len(urls) \in Nat \ {0}
  BY DEF Endpoints, ChainTypeInv
<1>2. CallType'
  BY <1>1 DEF Forget, ChainTypeInv, ChainTypeOK, CallType
<1>3. LocalInv'
  BY <1>1 DEF Forget, ChainTypeInv, ChainTypeOK, LocalInv, Rotating
<1>. QED  BY <1>2, <1>3

LEMMA FailedTypes ==
    ASSUME ChainTypeInv, NEW t \in Threads, Failed(t)
    PROVE  CallType' /\ LocalInv'
<1>1. Endpoints' = Endpoints /\ Len(urls) \in Nat \ {0} /\ UNCHANGED <<urls, local>>
  BY DEF Endpoints, ChainTypeInv, Failed, clientVars
<1>2. pc[t] \in {"none", "again"} /\ n[t] \in 0..(Len(urls) - 1)
  <2>1. pc[t] \in {"none", "again"}
    BY DEF Failed, CanAsk, Begins
  <2>2. n[t] \in 0..Len(urls)
    BY DEF ChainTypeInv, ChainTypeOK
  <2>3. n[t] < Len(urls)
    BY <2>1 DEF ChainTypeInv, LocalInv
  <2>. QED  BY <1>1, <2>1, <2>2, <2>3
<1>3. Asks(t) \subseteq Endpoints
  BY AsksType DEF ChainTypeInv
<1>4. asked' \in [Threads -> SUBSET Endpoints]
  BY <1>3 DEF Failed, Histories, ChainTypeInv, ChainTypeOK
<1>5. clean' \in [Threads -> BOOLEAN]
  BY DEF Failed, Histories, ChainTypeInv, ChainTypeOK
<1>6. /\ n' = [n EXCEPT ![t] = @ + 1]
      /\ pc' = [pc EXCEPT ![t] = IF n[t] + 1 < Len(urls) THEN "read-index" ELSE "raised"]
  BY DEF Failed, Attempts
<1>7. /\ n' \in [Threads -> 0..Len(urls)]
      /\ pc' \in [Threads -> {"none", "again", "raised"} \union Rotating]
  BY <1>1, <1>2, <1>6 DEF ChainTypeInv, ChainTypeOK, Rotating
<1>8. CallType'
  BY <1>1, <1>4, <1>5, <1>7 DEF CallType, ChainTypeInv, ChainTypeOK
<1>9. LocalInv'
  BY <1>1, <1>2, <1>6 DEF LocalInv, ChainTypeInv, ChainTypeOK
<1>. QED  BY <1>8, <1>9

LEMMA RotateTypes ==
    ASSUME ChainTypeInv, NEW t \in Threads,
           \/ ReadIndex(t) \/ WriteIndex(t) \/ ReadUrl(t)
           \/ Connect(t) \/ ReadW3(t) \/ WriteContract(t)
    PROVE  /\ CallType' /\ LocalInv'
           /\ i' \in 0..(Len(urls) - 1) /\ w3' \in Endpoints /\ contract' \in Endpoints
           /\ UNCHANGED <<urls, bundles, loopVars, height, price>>
<1>1. /\ Endpoints' = Endpoints /\ Len(urls) \in Nat \ {0}
      /\ UNCHANGED <<urls, bundles, loopVars, n, asked, height, price>>
  BY DEF Endpoints, ChainTypeInv, RotateStep, ReadIndex, WriteIndex, ReadUrl, Connect, ReadW3,
         WriteContract
<1>2. /\ pc \in [Threads -> {"none", "again", "raised"} \union Rotating]
      /\ n \in [Threads -> 0..Len(urls)]
      /\ local \in [Threads -> Endpoints \union 0..Len(urls) \union {NoFee}]
      /\ asked \in [Threads -> SUBSET Endpoints]
      /\ clean \in [Threads -> BOOLEAN]
      /\ i \in 0..(Len(urls) - 1) /\ w3 \in Endpoints /\ contract \in Endpoints
  BY DEF ChainTypeInv, ChainTypeOK
<1>3. urls[i + 1] \in Endpoints
  BY <1>1, <1>2 DEF Endpoints
<1>4. pc[t] = "write-index" => (local[t] + 1) % Len(urls) \in 0..(Len(urls) - 1)
  <2>. SUFFICES ASSUME pc[t] = "write-index" PROVE (local[t] + 1) % Len(urls) \in 0..(Len(urls) - 1)
    OBVIOUS
  <2>1. local[t] \in 0..(Len(urls) - 1)
    BY DEF ChainTypeInv, LocalInv
  <2>. QED  BY <1>1, <2>1
<1>5. i' \in 0..(Len(urls) - 1) /\ w3' \in Endpoints /\ contract' \in Endpoints
  <2>1. pc[t] \in {"connect", "write-contract"} => local[t] \in Endpoints
    BY DEF ChainTypeInv, LocalInv
  <2>. QED  BY <1>1, <1>2, <1>4, <2>1
            DEF ReadIndex, WriteIndex, ReadUrl, Connect, ReadW3, WriteContract, RotateStep
<1>6. \E to \in {"write-index", "read-url", "connect", "read-w3", "write-contract", "again"} :
         /\ pc' = [pc EXCEPT ![t] = to]
         /\ \E value \in Endpoints \union 0..(Len(urls) - 1) \union {NoFee} :
               /\ local' = [local EXCEPT ![t] = value]
               /\ to = "write-index" => value \in 0..(Len(urls) - 1)
               /\ to \in {"connect", "write-contract"} => value \in Endpoints
  BY <1>1, <1>2, <1>3 DEF ReadIndex, WriteIndex, ReadUrl, Connect, ReadW3, WriteContract, RotateStep,
                          Read, Used
<1>7. clean' \in [Threads -> BOOLEAN]
  BY <1>2 DEF ReadIndex, WriteIndex, ReadUrl, Connect, ReadW3, WriteContract, RotateStep
<1>8. CallType'
  <2>1. PICK to \in Rotating \union {"again"}, value \in Endpoints \union 0..(Len(urls) - 1) \union {NoFee} :
           pc' = [pc EXCEPT ![t] = to] /\ local' = [local EXCEPT ![t] = value]
    BY <1>6 DEF Rotating
  <2>2. value \in Endpoints \union 0..Len(urls) \union {NoFee}
    BY <1>1
  <2>3. pc' \in [Threads -> {"none", "again", "raised"} \union Rotating]
    BY <1>2, <2>1
  <2>4. local' \in [Threads -> Endpoints \union 0..Len(urls) \union {NoFee}]
    BY <1>2, <2>1, <2>2
  <2>. QED  BY <1>1, <1>2, <1>7, <2>3, <2>4 DEF CallType
<1>9. LocalInv'
  <2>1. pc[t] # "raised" /\ pc[t] # "none"
    BY DEF ReadIndex, WriteIndex, ReadUrl, Connect, ReadW3, WriteContract, RotateStep
  <2>. QED  BY <1>1, <1>2, <1>6, <2>1 DEF LocalInv, ChainTypeInv
<1>. QED  BY <1>1, <1>5, <1>8, <1>9

\* What a step must keep besides a call.
LEMMA ChainTypesFrom ==
    ASSUME ChainTypeInv, CallType', LocalInv', UNCHANGED clientVars, height' \in 0..MaxHeight,
           \/ UNCHANGED loopVars
           \/ /\ cached' \in Nat \union {NoFee}
              /\ loop' \in {"chain-id", "genesis", "first", "number", "challenge", "poll",
                            "state", "flush", "final", "closed", "died"}
              /\ localOk' \in {"unknown", "yes", "no"}
              /\ last' \in 0..MaxHeight \union {NoFee}
              /\ state' \in [block : 0..MaxHeight, fee : Nat \union {NoFee}],
           price' \in [Threads -> Fates]
    PROVE  ChainTypeInv'
<1>1. Endpoints' = Endpoints
  BY DEF Endpoints, clientVars
<1>. QED  BY <1>1 DEF ChainTypeInv, ChainTypeOK, CallType, clientVars, loopVars, Fates

\* Calls are left alone.
LEMMA CallsKept ==
    ASSUME ChainTypeInv, UNCHANGED <<urls, callVars>>
    PROVE  CallType' /\ LocalInv'
<1>1. Endpoints' = Endpoints
  BY DEF Endpoints
<1>. QED  BY <1>1 DEF callVars, ChainTypeInv, ChainTypeOK, CallType, LocalInv

LEMMA ChainTypeNext == ChainTypeInv /\ [ChainNext]_chainVars => ChainTypeInv'
<1>. SUFFICES ASSUME ChainTypeInv, [ChainNext]_chainVars PROVE ChainTypeInv'
  OBVIOUS
<1>1. /\ height \in 0..MaxHeight /\ price \in [Threads -> Fates]
      /\ cached \in Nat \union {NoFee} /\ state.fee \in Nat \union {NoFee}
  BY DEF ChainTypeInv, ChainTypeOK, Fates
<1>2. CASE NewBlock
  <2>1. height' \in 0..MaxHeight
    BY <1>1, <1>2, ChainAssumption DEF NewBlock
  <2>. QED  BY <1>1, <1>2, <2>1, CallsKept, ChainTypesFrom DEF NewBlock, clientVars
<1>3. ASSUME NEW t \in Threads, Call(t) PROVE ChainTypeInv'
  <2>1. CASE Answered(t) \/ Handle(t)
    <3>1. CallType' /\ LocalInv' /\ UNCHANGED clientVars /\ UNCHANGED height
      BY <2>1, ForgetTypes DEF Answered, Handle, clientVars
    <3>2. Priced(FeeAt(w3)) \in Fates
      BY FeeAtType, PricedType DEF ChainTypeInv
    <3>3. price' \in [Threads -> Fates]
      BY <1>1, <2>1, <3>2 DEF Answered, Handle, Fates
    <3>4. MainReturns \/ MainHandles \/ UNCHANGED loopVars
      BY <2>1 DEF Answered, Handle
    <3>. QED  BY <1>1, <3>1, <3>3, <3>4, LoopTypes, ChainTypesFrom DEF ChainTypeInv
  <2>2. CASE Failed(t)
    <3>1. UNCHANGED <<clientVars, loopVars, height, price>>
      BY <2>2 DEF Failed
    <3>. QED  BY <1>1, <2>2, <3>1, FailedTypes, ChainTypesFrom
  <2>3. CASE \/ ReadIndex(t) \/ WriteIndex(t) \/ ReadUrl(t)
             \/ Connect(t) \/ ReadW3(t) \/ WriteContract(t)
    <3>1. /\ CallType' /\ LocalInv' /\ Endpoints' = Endpoints
          /\ i' \in 0..(Len(urls) - 1) /\ w3' \in Endpoints /\ contract' \in Endpoints
          /\ UNCHANGED <<urls, bundles, loopVars, height, price>>
      BY <2>3, RotateTypes DEF Endpoints
    <3>. QED  BY <3>1 DEF ChainTypeInv, ChainTypeOK, CallType, loopVars
  <2>. QED  BY <1>3, <2>1, <2>2, <2>3 DEF Call
<1>4. CASE FlushBundle
  <2>1. BundlePriced(state.fee) \in Fates
    BY <1>1, PricedType
  <2>2. price' \in [Threads -> Fates]
    BY <1>1, <1>4, <2>1 DEF FlushBundle
  <2>3. /\ UNCHANGED <<clientVars, callVars, height, cached, localOk, last, state>>
        /\ loop' = "poll"
    BY <1>4 DEF FlushBundle
  <2>4. CallType' /\ LocalInv'
    BY <2>3, CallsKept DEF clientVars
  <2>. QED  BY <1>1, <2>2, <2>3, <2>4, ChainTypesFrom DEF ChainTypeInv, ChainTypeOK
<1>5. CASE Shutdown
  <2>1. Forget(Main) /\ Main \in Threads
    BY <1>5 DEF Shutdown, Forget, Threads
  <2>2. /\ UNCHANGED <<clientVars, last, state, cached, localOk, height, price>>
        /\ loop' = "final"
    BY <1>5 DEF Shutdown
  <2>3. CallType' /\ LocalInv'
    BY <2>1, <2>2, ForgetTypes DEF clientVars
  <2>. QED  BY <1>1, <2>2, <2>3, ChainTypesFrom DEF ChainTypeInv, ChainTypeOK
<1>6. ASSUME NEW t \in Pool, PriceFromCache(t) PROVE ChainTypeInv'
  <2>1. Priced(cached) \in Fates
    BY <1>1, PricedType
  <2>2. price' \in [Threads -> Fates] /\ UNCHANGED <<clientVars, loopVars, callVars, height>>
    BY <1>1, <1>6, <2>1 DEF PriceFromCache
  <2>3. CallType' /\ LocalInv'
    BY <2>2, CallsKept DEF clientVars
  <2>. QED  BY <1>1, <2>2, <2>3, ChainTypesFrom
<1>7. CASE UNCHANGED chainVars
  <2>1. UNCHANGED <<clientVars, loopVars, callVars, height, price>>
    BY <1>7 DEF chainVars
  <2>2. CallType' /\ LocalInv'
    BY <2>1, CallsKept DEF clientVars
  <2>. QED  BY <1>1, <2>1, <2>2, ChainTypesFrom
<1>. QED  BY <1>2, <1>3, <1>4, <1>5, <1>6, <1>7 DEF ChainNext, MainStep, PoolStep, Threads

LEMMA ChainTypeInit ==
    ASSUME NEW chain, NEW withBundles \in BOOLEAN, Len(chain) \in Nat \ {0},
           ChainInit(chain, withBundles)
    PROVE  ChainTypeInv
<1>1. chain[1] \in Endpoints /\ urls = chain
  BY DEF ChainInit, Endpoints
<1>2. 0 \in 0..(Len(urls) - 1) /\ 0 \in 0..Len(urls)
  BY <1>1
<1>3. ChainTypeOK
  BY <1>1, <1>2, ChainAssumption DEF ChainInit, ChainTypeOK, Unpriced
<1>4. LocalInv
  BY <1>1, <1>2 DEF ChainInit, LocalInv
<1>. QED  BY <1>1, <1>3, <1>4 DEF ChainTypeInv
=============================================================================
