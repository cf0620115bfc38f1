----------------------------- MODULE GpuWorker -----------------------------
(***************************************************************************)
(* One GpuWorker (src/hashminer/gpu.py) and the kernel it launches         *)
(* (src/hashminer/kernels/keccak256.cl): the sizes a worker is made with,  *)
(* search_batch(), the adaptive batch size and benchmark().                *)
(*                                                                         *)
(* A nonce, a digest and a target are words of four limbs, each of one of  *)
(* Limb values.  Keccak is any function Digest from challenge and nonce to *)
(* words.  Work items run in any order; the hit counter is atomic, the     *)
(* result slots are not.                                                   *)
(***************************************************************************)
EXTENDS Ordered

CONSTANTS
    All,            \* the device list "all"
    Limb,           \* the number of values of a limb (2^64)
    Challenges,     \* the challenges that are searched
    Digest,         \* Digest[challenge][nonce]: the proof-of-work hash
    RandomBases,    \* the bases _random_base() may return
    Durations,      \* what the clock may say of one launch, in ms
    MinBatch, MaxBatch, FirstBatch,     \* _MIN_BATCH, _MAX_BATCH, the first batch_size
    DefaultLocalSize, DefaultTargetMs,  \* _DEFAULT_LOCAL_SIZE, _TARGET_BATCH_MS
    MaxResults      \* _DEFAULT_MAX_RESULTS

Word == Limb * Limb * Limb * Limb

ASSUME GpuAssumption ==
    /\ Limb \in Nat \ {0, 1}
    /\ Digest \in [Challenges -> [0..(Word - 1) -> 0..(Word - 1)]]
    /\ RandomBases \subseteq 0..(Word - 1) /\ Durations \subseteq Nat
    /\ MinBatch \in Nat \ {0} /\ FirstBatch \in MinBatch..MaxBatch /\ MaxBatch \in 1..Limb
    /\ DefaultLocalSize \in Nat \ {0} /\ DefaultTargetMs \in Nat \ {0}
    /\ MaxResults \in Nat \ {0}

VARIABLES
    localSize,      \* GpuWorker.local_size
    batchSize,      \* GpuWorker.batch_size
    targetMs,       \* GpuWorker.batch_target_ms
    launch,         \* the arguments of the launch in progress or just ended
    items,          \* its work items: "ready", the index a hit got, "done"
    outCount,       \* out_count, on the device
    slots,          \* out_nonces, on the device: limbs, little-endian
    found,          \* what search_batch() returned
    elapsed         \* benchmark(): elapsed

gpuVars == <<localSize, batchSize, targetMs, launch, items, outCount, slots, found, elapsed>>

NoLaunch == [n |-> 0]
Zero == <<0, 0, 0, 0>>

SmallerOf(a, b) == IF a < b THEN a ELSE b
LargerOf(a, b) == IF a > b THEN a ELSE b

GpuIdle ==
    /\ localSize = 0 /\ batchSize = 0 /\ targetMs = 0
    /\ launch = NoLaunch /\ items = <<>>
    /\ outCount = 0
    /\ slots = [k \in 0..(MaxResults - 1) |-> Zero]
    /\ found = <<>>
    /\ elapsed = 0

GpuTypeOK ==
    /\ localSize \in Nat /\ targetMs \in Int
    /\ batchSize \in {0} \union MinBatch..MaxBatch
    /\ launch = NoLaunch \/ /\ launch.challenge \in Challenges
                            /\ launch.target \in 0..(Word - 1)
                            /\ launch.n \in Nat /\ launch.base \in 0..(Word - 1)
    /\ \A g \in DOMAIN items : items[g] \in {<<"ready">>, <<"done">>} \union
                                           {<<"hit", k>> : k \in 0..(outCount - 1)}
    /\ outCount \in Nat
    /\ launch # NoLaunch => outCount <= Cardinality(DOMAIN items)
    /\ \A k \in 0..(MaxResults - 1), limb \in 1..4 : slots[k][limb] \in 0..(Limb - 1)
    /\ \A k \in 1..Len(found) : found[k] \in 0..(Word - 1)

-----------------------------------------------------------------------------
(* Devices.                                                                *)

\* select_devices() raises without a device, and for an index that is none's.
Selectable(devs, spec) ==
    /\ devs # <<>>
    /\ spec # All => \A k \in 1..Len(spec) : \E x \in 1..Len(devs) : devs[x].index = spec[k]

\* It returns every GPU, or every device if there is none, or those of the indices.
SelectDevices(devs, spec) ==
    LET gpus == InOrder(devs, {k \in 1..Len(devs) : devs[k].gpu})
    IN  IF spec # All
           THEN [k \in 1..Len(spec) |-> devs[CHOOSE x \in 1..Len(devs) : devs[x].index = spec[k]]]
        ELSE IF gpus # <<>> THEN gpus ELSE devs

\* GpuWorker.__init__; 0 stands for None.
NewWorker(dev, size, ms) ==
    /\ localSize' = LargerOf(1, SmallerOf(IF size = 0 THEN DefaultLocalSize ELSE size,
                                          dev.maxWorkGroup))
    /\ batchSize' = FirstBatch
    /\ targetMs' = IF ms = 0 THEN DefaultTargetMs ELSE ms
    /\ launch' = NoLaunch /\ items' = <<>>
    /\ outCount' = 0
    /\ slots' = [k \in 0..(MaxResults - 1) |-> Zero]
    /\ found' = <<>>
    /\ elapsed' = 0

-----------------------------------------------------------------------------
(* Words and limbs.                                                        *)

\* _nonce_limbs_le(): least significant limb first.
NonceLimbs(x) ==
    LET x1 == x \div Limb
        x2 == x1 \div Limb
        x3 == x2 \div Limb
    IN  <<x % Limb, x1 % Limb, x2 % Limb, x3 % Limb>>

\* target_limbs(), and the digest in the kernel: most significant limb first.
TargetLimbs(x) == LET l == NonceLimbs(x) IN <<l[4], l[3], l[2], l[1]>>

\* The number search_batch() reads out of a slot.
FromLimbs(l) == l[1] + Limb * (l[2] + Limb * (l[3] + Limb * l[4]))

\* Mutant: the carry out of the lowest limb is lost.
NonceWithoutCarry(nb, gid) == <<(nb[1] + gid) % Limb, nb[2], nb[3], nb[4]>>

\* nonce_base + gid in the kernel: a limb that came out smaller than it was has overflowed.
NonceOf(nb, gid) ==
    LET n0 == (nb[1] + gid) % Limb
        c0 == IF n0 < nb[1] THEN 1 ELSE 0
        n1 == (nb[2] + c0) % Limb
        c1 == IF n1 < nb[2] THEN 1 ELSE 0
        n2 == (nb[3] + c1) % Limb
        c2 == IF n2 < nb[3] THEN 1 ELSE 0
        n3 == (nb[4] + c2) % Limb
    IN  <<n0, n1, n2, n3>>

\* Mutant: a digest equal to the target is a hit.
BelowOrEqual(d, t) ==
    \/ d[1] < t[1]
    \/ d[1] = t[1] /\ \/ d[2] < t[2]
                      \/ d[2] = t[2] /\ \/ d[3] < t[3]
                                        \/ d[3] = t[3] /\ d[4] <= t[4]

\* The kernel's comparison of the digest with the target, limb by limb.
Below(d, t) ==
    \/ d[1] < t[1]
    \/ d[1] = t[1] /\ \/ d[2] < t[2]
                      \/ d[2] = t[2] /\ \/ d[3] < t[3]
                                        \/ d[3] = t[3] /\ d[4] < t[4]

-----------------------------------------------------------------------------
(* A launch.                                                               *)

Finished == \A g \in DOMAIN items : items[g] = <<"done">>

\* search_batch() up to the launch: the counter is cleared, the slots are not, and the number
\* of work items is rounded up to whole work groups.
Launch(challenge, target, n, base) ==
    /\ launch' = [challenge |-> challenge, target |-> target, n |-> n, base |-> base]
    /\ items' = [g \in 0..(((n + localSize - 1) \div localSize) * localSize - 1) |-> <<"ready">>]
    /\ outCount' = 0
    /\ found' = <<>>
    /\ UNCHANGED <<localSize, batchSize, targetMs, slots>>

ItemNonce(g) == NonceOf(NonceLimbs(launch.base), g)

IsHit(g) ==
    /\ g < launch.n
    /\ Below(TargetLimbs(Digest[launch.challenge][FromLimbs(ItemNonce(g))]),
             TargetLimbs(launch.target))

ItemGoesTo(g, s) == items[g] = <<"ready">> /\ items' = [items EXCEPT ![g] = s]

\* An item past n_total, or whose digest is not below the target.
Miss(g) ==
    /\ ItemGoesTo(g, <<"done">>)
    /\ ~IsHit(g)
    /\ UNCHANGED <<localSize, batchSize, targetMs, launch, outCount, slots, found, elapsed>>

\* atomic_inc(out_count).
Count(g) ==
    /\ IsHit(g)
    /\ ItemGoesTo(g, <<"hit", outCount>>)
    /\ outCount' = outCount + 1
    /\ UNCHANGED <<localSize, batchSize, targetMs, launch, slots, found, elapsed>>

\* The slot is written if there is one.
Store(g) ==
    /\ items[g][1] = "hit"
    /\ items' = [items EXCEPT ![g] = <<"done">>]
    /\ slots' = [k \in DOMAIN slots |-> IF k = items[g][2] THEN ItemNonce(g) ELSE slots[k]]
    /\ UNCHANGED <<localSize, batchSize, targetMs, launch, outCount, found, elapsed>>

Kernel == \E g \in DOMAIN items : Miss(g) \/ Count(g) \/ Store(g)

\* What search_batch() reads back and returns when the queue has finished.
Found == [k \in 1..SmallerOf(outCount, MaxResults) |-> FromLimbs(slots[k - 1])]

\* Mutant: the batch is not kept within its bounds.
AdaptedUnbounded(dt) == IF dt <= 0 THEN batchSize ELSE (batchSize * targetMs) \div dt

\* _adapt_batch(), after a launch of dt ms.
Adapted(dt) ==
    LET scaled == (batchSize * targetMs) \div dt
    IN  IF dt <= 0 THEN batchSize
        ELSE LargerOf(MinBatch, SmallerOf(MaxBatch, IF scaled = 0 THEN MinBatch ELSE scaled))

\* The launch is over and its caller goes on, with the batch adapted or not.
Collect(size, time) ==
    /\ launch # NoLaunch /\ Finished
    /\ found' = Found
    /\ batchSize' = size
    /\ elapsed' = time
    /\ launch' = NoLaunch /\ items' = <<>>
    /\ UNCHANGED <<localSize, targetMs, outCount, slots>>

-----------------------------------------------------------------------------
(* Properties.                                                             *)

\* A launch returns solutions of the range it was given and no others: distinct nonces of
\* base..base+n-1, modulo the word, whose digest is below the target, and all of them or as
\* many as there are slots (gpu.py:168-204, keccak256.cl:88-133).  Neither the order of the
\* work items nor a slot that an earlier launch has written may be seen in what it returns.
Hits ==
    {x \in {(launch.base + g) % Word : g \in 0..(launch.n - 1)} :
        Digest[launch.challenge][x] < launch.target}

FoundAreHits ==
    launch # NoLaunch /\ Finished =>
        LET returned == {Found[k] : k \in 1..Len(Found)}
        IN  /\ returned \subseteq Hits
            /\ Cardinality(returned) = Len(Found)
            /\ Len(Found) = SmallerOf(Cardinality(Hits), MaxResults)
=============================================================================
