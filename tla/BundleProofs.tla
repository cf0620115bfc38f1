---------------------------- MODULE BundleProofs ----------------------------
(* Theorems about BundleSubmitter for every set of solutions, every size   *)
(* of a batch and every number of blocks ahead, with the proofs TLAPS      *)
(* checks.                                                                 *)
EXTENDS BundleSubmitter, FiniteSetTheorems, SequenceTheorems, TLAPS
-----------------------------------------------------------------------------
(* The ways of a solution.                                                 *)

Distinct(seq) == \A i, j \in 1..Len(seq) : i # j => seq[i] # seq[j]

\* A solution is in one place, and what the block loop is doing says which.
PlaceInv ==
    /\ Distinct(buffer) /\ Distinct(batch)
    /\ arriving \cap Entries(buffer) = {}
    /\ arriving \cap BatchSols = {}
    /\ Entries(buffer) \cap BatchSols = {}
    /\ Signed \cap (arriving \union Entries(buffer)) = {}
    /\ toSend \subseteq Signed
    /\ \A s \in Sols : tx[s] # "absent" => s \in Signed
    /\ bpc \in {"poll", "sweep"} => batch = << >>
    /\ bpc = "reserve" => batch # << >> /\ recorded = 0 /\ BatchSols \cap Signed = {}
    /\ bpc \in {"fan-out", "record"} => BatchSols \subseteq Signed

\* The receipts are polled between two batches.
SweepInv ==
    /\ sweepPc # "idle" => bpc = "sweep" /\ pending # << >>
    /\ sweepPc = "assign" => pos > Len(pending)

\* What is signed has a nonce below the counter, and what is mined one below the account's.
CounterInv ==
    /\ txNonce = None => Signed = {}
    /\ \A s \in Signed : txn[s] < txNonce
    /\ \A s \in Sols : Resolved(s) => txn[s] < chainNonce

\* A bundle that a builder holds is a run of nonces.
BuilderInv ==
    \A held \in builders :
        /\ held.txs # << >>
        /\ Entries(held.txs) \subseteq Signed
        /\ \A i \in 1..Len(held.txs) : txn[held.txs[i]] = txn[held.txs[1]] + i - 1

\* Those of the batch that are not recorded yet.
Unrecorded == {batch[i] : i \in (recorded + 1)..Len(batch)}

\* The strengthening of BroadcastIsMarked, for all that is signed.
MarkedInv ==
    \A s \in Signed :
        \/ AlreadyUsed(s)
        \/ s \in Unrecorded
        \/ \E r \in Signed : EpochOf[r] >= EpochOf[s] + 2

BundleInv == TypeOK /\ PlaceInv /\ SweepInv /\ BuilderInv

-----------------------------------------------------------------------------
(* Facts about the operators and the steps.                                *)

LEMMA EmptyType == << >> \in Seq(Sols) /\ Len(<< >>) = 0 /\ Entries(<< >>) = {}
BY EmptySeq DEF Entries

\* What is in a list is a solution.
LEMMA EntriesType ==
    ASSUME NEW seq \in Seq(Sols)
    PROVE  /\ Entries(seq) \subseteq Sols
           /\ \A i \in 1..Len(seq) : seq[i] \in Sols /\ seq[i] \in Entries(seq)
           /\ Len(seq) \in Nat
           /\ seq = << >> <=> Len(seq) = 0
<1>1. Len(seq) \in Nat /\ \A i \in 1..Len(seq) : seq[i] \in Sols
  BY LenProperties, ElementOfSeq
<1>2. Len(seq) = 0 => seq = << >>
  <2>. SUFFICES ASSUME Len(seq) = 0 PROVE seq = << >>
    OBVIOUS
  <2>. QED  BY EmptySeq, SeqEqual
<1>3. seq = << >> => Len(seq) = 0
  BY EmptySeq
<1>. QED  BY <1>1, <1>2, <1>3 DEF Entries

LEMMA AppendEntries ==
    ASSUME NEW seq \in Seq(Sols), NEW s \in Sols
    PROVE  /\ Append(seq, s) \in Seq(Sols)
           /\ Entries(Append(seq, s)) = Entries(seq) \union {s}
           /\ Distinct(seq) /\ s \notin Entries(seq) => Distinct(Append(seq, s))
<1>1. /\ Append(seq, s) \in Seq(Sols) /\ Len(Append(seq, s)) = Len(seq) + 1
      /\ \A i \in 1..Len(seq) : Append(seq, s)[i] = seq[i]
      /\ Append(seq, s)[Len(seq) + 1] = s
  BY AppendProperties
<1>2. Len(seq) \in Nat
  BY LenProperties
<1>. DEFINE longer == Append(seq, s)
<1>. HIDE DEF longer
<1>3. \A i : i \in 1..Len(longer) <=> i \in 1..Len(seq) \/ i = Len(seq) + 1
  BY <1>1, <1>2 DEF longer
<1>4. Entries(longer) = Entries(seq) \union {s}
  BY <1>1, <1>2, <1>3 DEF Entries, longer
<1>5. Distinct(seq) /\ s \notin Entries(seq) => Distinct(longer)
  BY <1>1, <1>2, <1>3 DEF Distinct, Entries, longer
<1>. QED  BY <1>1, <1>4, <1>5 DEF longer

\* _mark_used keeps the used-set a set of keys.
LEMMA MarkUsedType ==
    ASSUME NEW s \in Sols, NEW u \in SUBSET (Nat \X {PowOf[t] : t \in Sols})
    PROVE  MarkUsed(u, s) \subseteq Nat \X {PowOf[t] : t \in Sols}
BY AccountAssumption DEF MarkUsed, Key

\* A count the node answers is a nonce from the account's own on.
LEMMA PendingCountsType ==
    ASSUME chainNonce \in Nat
    PROVE  PendingCounts \subseteq {n \in Nat : n >= chainNonce}
<1>1. Cardinality(Sols) \in Nat
  BY AccountAssumption, FS_CardinalityType
<1>. QED  BY <1>1 DEF PendingCounts

\* A flush splits what passes the filter into a batch and a rest, and keeps its order; nothing
\* that passes is lost.
LEMMA FlushSplits ==
    ASSUME TypeOK, PlaceInv, NEW seenAt, Flush(seenAt)
    PROVE  /\ batch' \in Seq(Sols) /\ buffer' \in Seq(Sols)
           /\ Distinct(batch') /\ Distinct(buffer')
           /\ Entries(batch') \union Entries(buffer') \subseteq Entries(buffer)
           /\ Entries(batch') \cap Entries(buffer') = {}
           /\ bpc' = IF batch' = << >> THEN "sweep" ELSE "reserve"
           /\ target' \in Nat
           /\ \A s \in Entries(buffer) : \/ s \in Entries(buffer') \union Entries(batch')
                                         \/ AlreadyUsed(s)
                                         \/ EpochOf[s] # EpochAt(seenAt)
<1>. DEFINE Passes == {i \in 1..Len(buffer) : /\ EpochOf[buffer[i]] = EpochAt(seenAt)
                                              /\ ~AlreadyUsed(buffer[i])}
            N == Cardinality(Passes)
<1>1. buffer \in Seq(Sols) /\ Len(buffer) \in Nat
      /\ \A i \in 1..Len(buffer) : buffer[i] \in Sols /\ buffer[i] \in Entries(buffer)
  BY EntriesType DEF TypeOK
<1>2. N \in Nat
  <2>1. IsFiniteSet(1..Len(buffer))
    BY <1>1, FS_Interval
  <2>. QED  BY <2>1, FS_Subset, FS_CardinalityType
<1>3. PICK order \in Ascending(Passes) :
         LET keep == [j \in 1..N |-> buffer[order[j]]]
             n == BatchLen(keep)
         IN  /\ batch' = SubSeq(keep, 1, n)
             /\ buffer' = LeftInBuffer(keep)
             /\ target' = IF n = 0 THEN 0 ELSE head + (IF Ahead > 1 THEN Ahead ELSE 1)
             /\ bpc' = IF n = 0 THEN "sweep" ELSE "reserve"
  BY DEF Flush
<1>4. /\ order \in [1..N -> Passes]
      /\ \A j, k \in 1..N : j < k => order[j] < order[k]
  BY DEF Ascending
<1>. DEFINE keep == [j \in 1..N |-> buffer[order[j]]]
            n == BatchLen(keep)
<1>5. \A j \in 1..N : /\ order[j] \in 1..Len(buffer) /\ keep[j] = buffer[order[j]]
                      /\ keep[j] \in Sols /\ keep[j] \in Entries(buffer)
  BY <1>1, <1>4
<1>6. \A j, k \in 1..N : j # k => keep[j] # keep[k]
  <2>. SUFFICES ASSUME NEW j \in 1..N, NEW k \in 1..N, j # k PROVE keep[j] # keep[k]
    OBVIOUS
  <2>1. order[j] # order[k]
    <3>1. j < k \/ k < j
      BY <1>2
    <3>. QED  BY <1>1, <1>4, <1>5, <3>1
  <2>. QED  BY <1>5, <2>1 DEF PlaceInv, Distinct
<1>7. keep \in Seq(Sols) /\ Len(keep) = N
  <2>1. keep \in [1..N -> Sols]
    BY <1>5
  <2>2. keep \in Seq(Sols)
    BY <1>2, <2>1, SeqDef
  <2>3. Len(keep) \in Nat /\ 1..Len(keep) = DOMAIN keep /\ DOMAIN keep = 1..N
    BY <2>2, LenProperties
  <2>. HIDE DEF keep
  <2>. QED  BY <1>2, <2>2, <2>3
<1>onto. \A i \in Passes : \E j \in 1..N : keep[j] = buffer[i]
  <2>1. IsFiniteSet(Passes) /\ IsFiniteSet(1..N) /\ Cardinality(1..N) = N
    <3>1. IsFiniteSet(1..Len(buffer))
      BY <1>1, FS_Interval
    <3>2. Passes \in SUBSET (1..Len(buffer))
      OBVIOUS
    <3>3. IsFiniteSet(Passes)
      BY <3>1, <3>2, FS_Subset
    <3>. HIDE DEF N
    <3>4. IsFiniteSet(1..N) /\ Cardinality(1..N) = N
      BY <1>2, FS_Interval
    <3>. QED  BY <3>3, <3>4
  <2>2. order \in Injection(1..N, Passes)
    <3>1. \A j, k \in 1..N : order[j] = order[k] => j = k
      <4>. SUFFICES ASSUME NEW j \in 1..N, NEW k \in 1..N, j # k PROVE order[j] # order[k]
        OBVIOUS
      <4>1. j < k \/ k < j
        BY <1>2
      <4>. QED  BY <1>1, <1>4, <1>5, <4>1
    <3>. QED  BY <1>4, <3>1 DEF Injection, IsInjective
  <2>3. order \in Surjection(1..N, Passes)
    BY <2>1, <2>2, FS_Injection
  <2>. QED  BY <1>5, <2>3 DEF Surjection
<1>used. ASSUME NEW s \in Entries(buffer), ~AlreadyUsed(s), EpochOf[s] = EpochAt(seenAt)
         PROVE  \E j \in 1..N : keep[j] = s
  <2>1. PICK i \in 1..Len(buffer) : buffer[i] = s
    BY DEF Entries
  <2>. QED  BY <1>used, <1>onto, <2>1
<1>. HIDE DEF keep, N, Passes
<1>8. n \in 0..N /\ (n = 0 <=> N = 0)
  BY <1>2, <1>7, BundleAssumption DEF BatchLen
<1>9. /\ batch' = SubSeq(keep, 1, n) /\ buffer' = SubSeq(keep, n + 1, N)
      /\ target' = IF n = 0 THEN 0 ELSE head + (IF Ahead > 1 THEN Ahead ELSE 1)
      /\ bpc' = IF n = 0 THEN "sweep" ELSE "reserve"
  BY <1>3, <1>7 DEF LeftInBuffer, keep, N, Passes
<1>. HIDE DEF n
<1>10. /\ batch' \in Seq(Sols) /\ Len(batch') = n
       /\ \A i \in 1..n : batch'[i] = keep[i]
  <2>1. \A i \in 1..n : keep[i] \in Sols
    BY <1>2, <1>5, <1>8
  <2>2. /\ SubSeq(keep, 1, n) \in Seq(Sols)
        /\ Len(SubSeq(keep, 1, n)) = IF 1 <= n THEN n - 1 + 1 ELSE 0
        /\ \A i \in 1..(n - 1 + 1) : SubSeq(keep, 1, n)[i] = keep[1 + i - 1]
    BY <1>2, <1>8, <2>1, SubSeqProperties
  <2>3. \A i \in 1..n : 1 + i - 1 = i /\ i \in 1..(n - 1 + 1)
    BY <1>2, <1>8
  <2>4. (IF 1 <= n THEN n - 1 + 1 ELSE 0) = n
    BY <1>2, <1>8
  <2>. QED  BY <1>9, <2>2, <2>3, <2>4
<1>11. /\ buffer' \in Seq(Sols) /\ Len(buffer') = N - n
       /\ \A i \in 1..(N - n) : buffer'[i] = keep[n + i]
  <2>1. \A i \in (n + 1)..N : keep[i] \in Sols
    BY <1>2, <1>5, <1>8
  <2>2. /\ SubSeq(keep, n + 1, N) \in Seq(Sols)
        /\ Len(SubSeq(keep, n + 1, N)) = IF n + 1 <= N THEN N - (n + 1) + 1 ELSE 0
        /\ \A i \in 1..(N - (n + 1) + 1) : SubSeq(keep, n + 1, N)[i] = keep[n + 1 + i - 1]
    BY <1>2, <1>8, <2>1, SubSeqProperties
  <2>3. \A i \in 1..(N - n) : n + 1 + i - 1 = n + i /\ i \in 1..(N - (n + 1) + 1)
    BY <1>2, <1>8
  <2>4. (IF n + 1 <= N THEN N - (n + 1) + 1 ELSE 0) = N - n
    BY <1>2, <1>8
  <2>. QED  BY <1>9, <2>2, <2>3, <2>4
<1>12. /\ \A i \in 1..n : i \in 1..N
       /\ \A i \in 1..(N - n) : n + i \in 1..N /\ n + i > n
  BY <1>2, <1>8
<1>13. Distinct(batch') /\ Distinct(buffer')
  <2>1. Distinct(batch')
    BY <1>6, <1>10, <1>12 DEF Distinct
  <2>2. ASSUME NEW i \in 1..(N - n), NEW j \in 1..(N - n), i # j PROVE buffer'[i] # buffer'[j]
    <3>1. n + i # n + j
      BY <1>2, <1>8, <2>2
    <3>. QED  BY <1>6, <1>11, <1>12, <3>1
  <2>. QED  BY <1>11, <2>1, <2>2 DEF Distinct
<1>14. /\ Entries(batch') \subseteq Entries(buffer) /\ Entries(buffer') \subseteq Entries(buffer)
       /\ Entries(batch') \cap Entries(buffer') = {}
  <2>1. Entries(batch') = {batch'[i] : i \in 1..n} /\ Entries(buffer') = {buffer'[i] : i \in 1..(N - n)}
    BY <1>10, <1>11 DEF Entries
  <2>2. ASSUME NEW i \in 1..n, NEW j \in 1..(N - n) PROVE batch'[i] # buffer'[j]
    <3>1. i \in 1..N /\ n + j \in 1..N /\ i # n + j
      BY <1>2, <1>8
    <3>. QED  BY <1>6, <1>10, <1>11, <3>1
  <2>3. \A i \in 1..n : batch'[i] \in Entries(buffer)
    BY <1>5, <1>10, <1>12
  <2>4. \A i \in 1..(N - n) : buffer'[i] \in Entries(buffer)
    BY <1>5, <1>11, <1>12
  <2>. QED  BY <2>1, <2>2, <2>3, <2>4
<1>15. batch' = << >> <=> n = 0
  BY <1>10, EntriesType
<1>16. target' \in Nat
  BY <1>9, BundleAssumption DEF TypeOK
<1>17. ASSUME NEW j \in 1..N PROVE keep[j] \in Entries(buffer') \union Entries(batch')
  <2>1. CASE j \in 1..n
    BY <1>10, <2>1 DEF Entries
  <2>2. CASE j \notin 1..n
    <3>1. j - n \in 1..(N - n) /\ n + (j - n) = j
      BY <1>2, <1>8, <2>2
    <3>2. buffer'[j - n] = keep[n + (j - n)]
      BY <1>11, <3>1
    <3>. QED  BY <1>11, <3>1, <3>2 DEF Entries
  <2>. QED  BY <2>1, <2>2
<1>. QED  BY <1>9, <1>10, <1>11, <1>13, <1>14, <1>15, <1>16, <1>17, <1>used

\* A batch gets the nonces from the counter on, in its order.
LEMMA ReserveNumbers ==
    ASSUME TypeOK, PlaceInv, ReserveBatch
    PROVE  \E start \in Nat :
              /\ txNonce # None => start = txNonce
              /\ txNonce' = start + Len(batch)
              /\ \A i \in 1..Len(batch) : txn'[batch[i]] = start + i - 1
              /\ \A s \in Sols \ BatchSols : txn'[s] = txn[s]
              /\ txn' \in [Sols -> Nat \union {None}]
              /\ Signed' = Signed \union BatchSols
<1>1. PICK start \in NextNonces :
         /\ txNonce' = start + Len(batch)
         /\ txn' = [s \in Sols |->
                      IF s \in BatchSols
                         THEN start - 1 + (CHOOSE i \in 1..Len(batch) : batch[i] = s)
                         ELSE txn[s]]
  BY DEF ReserveBatch, ReservedUpTo
<1>2. start \in Nat /\ (txNonce # None => start = txNonce)
  BY <1>1, PendingCountsType DEF TypeOK, AccountTypeOK, NextNonces, None
<1>3. /\ Len(batch) \in Nat /\ BatchSols \subseteq Sols
      /\ \A i \in 1..Len(batch) : batch[i] \in Sols /\ batch[i] \in BatchSols
  BY EntriesType DEF TypeOK, BatchSols
<1>4. ASSUME NEW i \in 1..Len(batch) PROVE txn'[batch[i]] = start + i - 1
  <2>1. \A j \in 1..Len(batch) : batch[j] = batch[i] => j = i
    BY DEF PlaceInv, Distinct
  <2>2. (CHOOSE j \in 1..Len(batch) : batch[j] = batch[i]) = i
    BY <2>1
  <2>3. txn'[batch[i]] = start - 1 + (CHOOSE j \in 1..Len(batch) : batch[j] = batch[i])
    BY <1>1, <1>3
  <2>4. start - 1 + i = start + i - 1
    BY <1>2, <1>3
  <2>. QED  BY <2>2, <2>3, <2>4
<1>5. \A s \in Sols \ BatchSols : txn'[s] = txn[s]
  BY <1>1
<1>6. ASSUME NEW s \in BatchSols PROVE txn'[s] \in Nat
  <2>1. PICK i \in 1..Len(batch) : batch[i] = s
    BY DEF BatchSols, Entries
  <2>2. start + i - 1 \in Nat
    BY <1>2, <1>3
  <2>. QED  BY <1>4, <2>1, <2>2
<1>7. txn' \in [Sols -> Nat \union {None}]
  <2>1. \A s \in Sols : txn'[s] \in Nat \union {None}
    BY <1>5, <1>6 DEF TypeOK, AccountTypeOK
  <2>2. DOMAIN txn' = Sols /\ txn' = [s \in Sols |-> txn'[s]]
    BY <1>1
  <2>. QED  BY <2>1, <2>2
<1>8. Signed' = Signed \union BatchSols
  BY <1>3, <1>5, <1>6 DEF Signed, None
<1>. QED  BY <1>1, <1>2, <1>4, <1>5, <1>7, <1>8

\* What polling receipts leaves alone.
LEMMA PollKeeps ==
    ASSUME PollReceipts
    PROVE  /\ UNCHANGED <<txNonce, used, sent, txn, tx, chainNonce, foreign, bundleVars, head>>
           /\ bpc = "sweep" /\ bpc' \in {"sweep", "poll"}
BY DEF PollReceipts, SweepStart, SweepCount, SweepMiss, SweepEnd, SweepAssign, submitterVars,
       nodeVars, accountVars

-----------------------------------------------------------------------------
(* Type correctness.                                                       *)

LEMMA TypeInit == Init => TypeOK
<1>1. AccountInit => AccountTypeOK
  BY EmptyType DEF AccountInit, AccountTypeOK, TxStates
<1>. QED  BY <1>1, EmptyType, BundleAssumption DEF Init, TypeOK

LEMMA TypePoll == TypeOK /\ PollReceipts => TypeOK'
<1>. SUFFICES ASSUME TypeOK, PollReceipts PROVE TypeOK'
  OBVIOUS
<1>1. UNCHANGED <<txNonce, used, sent, txn, tx, chainNonce, foreign>> /\ UNCHANGED <<bundleVars, head>>
      /\ bpc' \in {"sweep", "poll"}
  BY PollKeeps
<1>2. /\ pending' \in Seq(Sols) /\ still' \in Seq(Sols) /\ pos' \in Nat \ {0}
      /\ confirmed' \in Nat /\ reverted' \in Nat /\ sweepPc' \in {"idle", "scan", "assign"}
  <2>. USE DEF TypeOK, AccountTypeOK
  <2>1. CASE SweepStart \/ SweepEnd \/ UNCHANGED accountVars
    BY <2>1 DEF SweepStart, SweepEnd, submitterVars, sweepVars, accountVars
  <2>2. CASE SweepCount
    <3>1. UNCHANGED <<pending, still, sweepPc>> /\ pos' = pos + 1
      BY <2>2 DEF SweepCount, submitterVars
    <3>2. confirmed' \in Nat /\ reverted' \in Nat
      BY <2>2 DEF SweepCount
    <3>. QED  BY <3>1, <3>2
  <2>3. CASE SweepMiss
    <3>1. pos \in 1..Len(pending)
      BY <2>3, LenProperties DEF SweepMiss
    <3>2. Append(still, pending[pos]) \in Seq(Sols)
      BY <3>1, ElementOfSeq, AppendProperties
    <3>3. still' \in Seq(Sols)
      BY <2>3, <3>2 DEF SweepMiss
    <3>4. pos' \in Nat \ {0} /\ UNCHANGED <<pending, confirmed, reverted, sweepPc>>
      BY <2>3 DEF SweepMiss, submitterVars
    <3>. QED  BY <3>3, <3>4
  <2>4. CASE SweepAssign
    BY <2>4, EmptyType DEF SweepAssign
  <2>. QED  BY <2>1, <2>2, <2>3, <2>4 DEF PollReceipts
<1>. QED  BY <1>1, <1>2 DEF TypeOK, AccountTypeOK, bundleVars

LEMMA TypeNext == TypeOK /\ PlaceInv /\ [Next]_vars => TypeOK'
<1>. SUFFICES ASSUME TypeOK, PlaceInv, [Next]_vars PROVE TypeOK'
  OBVIOUS
<1>. USE DEF accountVars, submitterVars, sweepVars, nodeVars, bundleVars
<1>1. ASSUME NEW s \in Sols, Buffer(s) PROVE TypeOK'
  BY <1>1, AppendProperties DEF Buffer, TypeOK, AccountTypeOK
<1>2. ASSUME NEW seenAt, Flush(seenAt) PROVE TypeOK'
  <2>1. batch' \in Seq(Sols) /\ buffer' \in Seq(Sols) /\ target' \in Nat
        /\ bpc' \in {"sweep", "reserve"}
    BY <1>2, FlushSplits
  <2>2. recorded' \in 0..Len(batch')
    BY <1>2, <2>1, LenProperties DEF Flush
  <2>3. UNCHANGED <<accountVars, arriving, toSend, builders, lost, head>>
    BY <1>2 DEF Flush
  <2>. QED  BY <2>1, <2>2, <2>3 DEF TypeOK, AccountTypeOK
<1>3. CASE ReserveBatch
  <2>1. Len(batch) \in Nat /\ BatchSols \subseteq Sols
    BY EntriesType DEF TypeOK, BatchSols
  <2>2. txNonce' \in Nat \union {None} /\ txn' \in [Sols -> Nat \union {None}]
    BY <1>3, <2>1, ReserveNumbers
  <2>3. \A held \in builders' : held.txs \in Seq(Sols) /\ held.block \in Nat
    BY <1>3 DEF ReserveBatch, TypeOK
  <2>. QED  BY <1>3, <2>1, <2>2, <2>3 DEF ReserveBatch, TypeOK, AccountTypeOK
<1>4. CASE ReserveBatchRaises
  <2>1. BatchSols \subseteq Sols
    BY EntriesType DEF TypeOK, BatchSols
  <2>2. recorded' \in 0..Len(batch')
    BY <1>4, EmptyType DEF ReserveBatchRaises, PlaceInv
  <2>. QED  BY <1>4, <2>1, <2>2, EmptyType DEF ReserveBatchRaises, TypeOK, AccountTypeOK
<1>5. ASSUME NEW s \in Sols, PublicAccepted(s) PROVE TypeOK'
  <2>1. tx' \in [Sols -> TxStates]
    BY <1>5 DEF PublicAccepted, TypeOK, AccountTypeOK, TxStates
  <2>. QED  BY <1>5, <2>1 DEF PublicAccepted, TypeOK, AccountTypeOK
<1>6. ASSUME NEW s \in Sols, PublicFails(s) PROVE TypeOK'
  BY <1>6 DEF PublicFails, TypeOK, AccountTypeOK
<1>7. CASE FanOutDone
  BY <1>7 DEF FanOutDone, TypeOK, AccountTypeOK
<1>8. CASE RecordNext
  <2>1. /\ recorded + 1 \in 1..Len(batch) /\ recorded' \in 0..Len(batch)
        /\ batch[recorded + 1] \in Sols
    BY <1>8, EntriesType DEF RecordNext, TypeOK
  <2>2. /\ pending' \in Seq(Sols) /\ sent' \in Nat
        /\ used' \subseteq Nat \X {PowOf[t] : t \in Sols}
    BY <1>8, <2>1, AppendProperties, MarkUsedType
       DEF RecordNext, RecordPending, TypeOK, AccountTypeOK
  <2>. QED  BY <1>8, <2>1, <2>2 DEF RecordNext, TypeOK, AccountTypeOK
<1>9. CASE RecordDone
  BY <1>9, EmptyType DEF RecordDone, TypeOK, AccountTypeOK
<1>10. CASE PollReceipts
  BY <1>10, TypePoll
<1>11. CASE Interrupt
  BY <1>11, EmptyType DEF Interrupt, TypeOK, AccountTypeOK
<1>12. CASE NewBlock
  BY <1>12, BundleAssumption DEF NewBlock, TypeOK, AccountTypeOK
<1>13. ASSUME NEW held \in builders, BundleLands(held) PROVE TypeOK'
  <2>1. tx' \in [Sols -> TxStates]
    BY <1>13 DEF BundleLands, TypeOK, AccountTypeOK, TxStates
  <2>2. chainNonce' \in Nat
    BY <1>13, EntriesType DEF BundleLands, TypeOK, AccountTypeOK
  <2>3. head' \in 0..MaxHead /\ builders' \subseteq builders
    BY <1>13, BundleAssumption DEF BundleLands, TypeOK
  <2>4. UNCHANGED <<submitterVars, sweepVars, txn, foreign, arriving, buffer, batch, target,
                    toSend, recorded, lost, bpc>>
    BY <1>13 DEF BundleLands
  <2>. QED  BY <2>1, <2>2, <2>3, <2>4 DEF TypeOK, AccountTypeOK
<1>14. CASE Node /\ UNCHANGED <<bundleVars, head, bpc>>
  <2>1. tx' \in [Sols -> TxStates] /\ chainNonce' \in Nat /\ foreign' \in Nat
    <3>1. ASSUME NEW s \in Sols, Include(s) \/ Evict(s)
          PROVE  tx' \in [Sols -> TxStates] /\ chainNonce' \in Nat /\ foreign' \in Nat
      <4>1. CASE Include(s)
        BY <4>1 DEF Include, TypeOK, AccountTypeOK, TxStates
      <4>2. CASE Evict(s)
        BY <4>2 DEF Evict, TypeOK, AccountTypeOK, TxStates
      <4>. QED  BY <3>1, <4>1, <4>2
    <3>2. CASE Foreign
      BY <3>2 DEF Foreign, TypeOK, AccountTypeOK, TxStates
    <3>. QED  BY <1>14, <3>1, <3>2 DEF Node
  <2>2. UNCHANGED <<submitterVars, sweepVars, txn>>
    BY <1>14 DEF Node, Include, Evict, Foreign
  <2>. QED  BY <1>14, <2>1, <2>2 DEF TypeOK, AccountTypeOK
<1>15. CASE UNCHANGED vars
  BY <1>15 DEF vars, TypeOK, AccountTypeOK
<1>. QED
  BY <1>1, <1>2, <1>3, <1>4, <1>5, <1>6, <1>7, <1>8, <1>9, <1>10, <1>11, <1>12, <1>13, <1>14,
     <1>15
  DEF Next, BlockLoop

-----------------------------------------------------------------------------
(* The ways of a solution, step by step.                                   *)

LEMMA PlaceInit == Init => PlaceInv
BY EmptyType DEF Init, AccountInit, PlaceInv, Distinct, BatchSols, Signed, None

\* A step that moves no solution.
LEMMA NothingMoves ==
    ASSUME PlaceInv, UNCHANGED <<arriving, buffer, batch, txn>>, toSend' \subseteq toSend,
           \A s \in Sols : tx'[s] # "absent" => s \in Signed,
           \/ bpc' = bpc /\ (bpc = "reserve" => UNCHANGED recorded)
           \/ bpc' = "stopped"
           \/ bpc' \in {"poll", "sweep"} /\ batch = << >>
           \/ bpc = "fan-out" /\ bpc' = "record"
    PROVE  PlaceInv'
<1>1. Signed' = Signed /\ BatchSols' = BatchSols /\ Entries(buffer)' = Entries(buffer)
      /\ Distinct(buffer)' = Distinct(buffer) /\ Distinct(batch)' = Distinct(batch)
  BY DEF Signed, BatchSols
<1>. QED  BY <1>1 DEF PlaceInv

LEMMA PlaceNext == TypeOK /\ PlaceInv /\ BuilderInv /\ [Next]_vars => PlaceInv'
<1>. SUFFICES ASSUME TypeOK, PlaceInv, BuilderInv, [Next]_vars PROVE PlaceInv'
  OBVIOUS
<1>. USE DEF accountVars, submitterVars, sweepVars, nodeVars, bundleVars
<1>1. ASSUME NEW s \in Sols, Buffer(s) PROVE PlaceInv'
  <2>1. /\ s \in arriving /\ arriving' = arriving \ {s} /\ buffer' = Append(buffer, s)
        /\ UNCHANGED <<tx, txn, batch, toSend, recorded, bpc>>
    BY <1>1 DEF Buffer
  <2>2. /\ Entries(buffer') = Entries(buffer) \union {s}
        /\ Distinct(buffer')
    BY <2>1, AppendEntries DEF PlaceInv, TypeOK
  <2>3. Signed' = Signed /\ BatchSols' = BatchSols
    BY <2>1 DEF Signed, BatchSols
  <2>. QED  BY <2>1, <2>2, <2>3 DEF PlaceInv
<1>2. ASSUME NEW seenAt, Flush(seenAt) PROVE PlaceInv'
  <2>1. /\ bpc = "poll" /\ recorded' = 0 /\ UNCHANGED <<tx, txn, arriving, toSend>>
    BY <1>2 DEF Flush
  <2>2. /\ Distinct(batch') /\ Distinct(buffer')
        /\ Entries(batch') \union Entries(buffer') \subseteq Entries(buffer)
        /\ Entries(batch') \cap Entries(buffer') = {}
        /\ bpc' = IF batch' = << >> THEN "sweep" ELSE "reserve"
    BY <1>2, FlushSplits
  <2>3. Signed' = Signed /\ BatchSols' = Entries(batch')
    BY <2>1 DEF Signed, BatchSols
  <2>. QED  BY <2>1, <2>2, <2>3 DEF PlaceInv
<1>3. CASE ReserveBatch
  <2>1. /\ bpc = "reserve" /\ bpc' = "fan-out" /\ toSend' = BatchSols
        /\ UNCHANGED <<tx, arriving, buffer, batch, recorded>>
    BY <1>3 DEF ReserveBatch
  <2>2. Signed' = Signed \union BatchSols
    BY <1>3, ReserveNumbers
  <2>3. BatchSols' = BatchSols
    BY <2>1 DEF BatchSols
  <2>. QED  BY <2>1, <2>2, <2>3 DEF PlaceInv
<1>4. CASE ReserveBatchRaises
  <2>1. /\ batch' = << >> /\ bpc' = "sweep" /\ UNCHANGED <<tx, txn, arriving, buffer, toSend>>
    BY <1>4 DEF ReserveBatchRaises
  <2>2. Signed' = Signed /\ BatchSols' = {} /\ Distinct(batch')
    BY <2>1, EmptyType DEF Signed, BatchSols, Distinct
  <2>. QED  BY <2>1, <2>2 DEF PlaceInv
<1>5. ASSUME NEW s \in Sols, PublicAccepted(s) PROVE PlaceInv'
  <2>1. /\ s \in toSend /\ UNCHANGED <<arriving, buffer, batch, txn, recorded, bpc>>
        /\ toSend' \subseteq toSend
        /\ \A t \in Sols : tx'[t] # "absent" => t = s \/ tx[t] # "absent"
    BY <1>5 DEF PublicAccepted
  <2>2. \A t \in Sols : tx'[t] # "absent" => t \in Signed
    BY <2>1 DEF PlaceInv
  <2>. QED  BY <2>1, <2>2, NothingMoves
<1>6. ASSUME NEW s \in Sols, PublicFails(s) PROVE PlaceInv'
  BY <1>6, NothingMoves DEF PublicFails, PlaceInv
<1>7. CASE FanOutDone
  BY <1>7, NothingMoves DEF FanOutDone, PlaceInv
<1>8. CASE RecordNext
  BY <1>8, NothingMoves DEF RecordNext, PlaceInv
<1>9. CASE RecordDone
  <2>1. /\ batch' = << >> /\ bpc' = "sweep" /\ UNCHANGED <<tx, txn, arriving, buffer, toSend>>
    BY <1>9 DEF RecordDone
  <2>2. Signed' = Signed /\ BatchSols' = {} /\ Distinct(batch')
    BY <2>1, EmptyType DEF Signed, BatchSols, Distinct
  <2>. QED  BY <2>1, <2>2 DEF PlaceInv
<1>10. CASE PollReceipts
  <2>1. /\ UNCHANGED <<arriving, buffer, batch, txn, tx, toSend>>
        /\ bpc = "sweep" /\ bpc' \in {"sweep", "poll"}
    BY <1>10, PollKeeps
  <2>. QED  BY <2>1, NothingMoves DEF PlaceInv
<1>11. CASE Interrupt
  BY <1>11, NothingMoves DEF Interrupt, PlaceInv
<1>12. CASE NewBlock
  BY <1>12, NothingMoves DEF NewBlock, PlaceInv
<1>13. ASSUME NEW held \in builders, BundleLands(held) PROVE PlaceInv'
  <2>1. /\ UNCHANGED <<arriving, buffer, batch, txn, toSend, recorded, bpc>>
        /\ \A s \in Sols : tx'[s] # "absent" => s \in Entries(held.txs) \/ tx[s] # "absent"
    BY <1>13 DEF BundleLands
  <2>2. \A s \in Sols : tx'[s] # "absent" => s \in Signed
    BY <2>1 DEF BuilderInv, PlaceInv
  <2>. QED  BY <2>1, <2>2, NothingMoves
<1>14. CASE Node /\ UNCHANGED <<bundleVars, head, bpc>>
  <2>1. UNCHANGED <<arriving, buffer, batch, txn, toSend, recorded, bpc>>
    BY <1>14 DEF Node, Include, Evict, Foreign
  <2>2. \A s \in Sols : tx'[s] # "absent" => tx[s] # "absent"
    BY <1>14 DEF Node, Include, Evict, Foreign, TypeOK, AccountTypeOK
  <2>. QED  BY <2>1, <2>2, NothingMoves DEF PlaceInv
<1>15. CASE UNCHANGED vars
  BY <1>15, NothingMoves DEF vars, PlaceInv
<1>. QED
  BY <1>1, <1>2, <1>3, <1>4, <1>5, <1>6, <1>7, <1>8, <1>9, <1>10, <1>11, <1>12, <1>13, <1>14,
     <1>15
  DEF Next, BlockLoop

\* Polling receipts, recording and interrupting are steps of one thread.
LEMMA SweepNext == SweepInv /\ [Next]_vars => SweepInv'
<1>. SUFFICES ASSUME SweepInv, [Next]_vars PROVE SweepInv'
  OBVIOUS
<1>. USE DEF accountVars, submitterVars, sweepVars
<1>1. CASE PollReceipts
  <2>1. CASE (SweepStart \/ SweepCount \/ SweepMiss \/ SweepEnd) /\ UNCHANGED bpc
    BY <1>1, <2>1 DEF PollReceipts, SweepStart, SweepCount, SweepMiss, SweepEnd, SweepInv
  <2>2. CASE SweepAssign /\ bpc' = "poll"
    BY <2>2 DEF SweepAssign, SweepInv
  <2>3. CASE pending = << >> /\ bpc' = "poll" /\ UNCHANGED accountVars
    BY <2>3 DEF SweepInv
  <2>. QED  BY <1>1, <2>1, <2>2, <2>3 DEF PollReceipts
<1>2. CASE Interrupt
  BY <1>2 DEF Interrupt, SweepInv
<1>3. CASE RecordNext
  BY <1>3 DEF RecordNext, SweepInv
<1>4. CASE \/ ReserveBatch \/ ReserveBatchRaises \/ FanOutDone \/ RecordDone
           \/ \E seenAt \in 0..head : Flush(seenAt)
  <2>1. UNCHANGED <<pending, pos, sweepPc>> /\ bpc # "sweep"
    BY <1>4 DEF ReserveBatch, ReserveBatchRaises, FanOutDone, RecordDone, Flush
  <2>. QED  BY <2>1 DEF SweepInv
<1>5. CASE \/ \E s \in Sols : Buffer(s) \/ PublicAccepted(s) \/ PublicFails(s)
           \/ NewBlock \/ \E held \in builders : BundleLands(held)
           \/ Node /\ UNCHANGED <<bundleVars, head, bpc>>
           \/ UNCHANGED vars
  <2>1. UNCHANGED <<pending, pos, sweepPc, bpc>>
    BY <1>5 DEF Buffer, PublicAccepted, PublicFails, NewBlock, BundleLands, Node, Include,
       Evict, Foreign, vars
  <2>. QED  BY <2>1 DEF SweepInv
<1>. QED  BY <1>1, <1>2, <1>3, <1>4, <1>5 DEF Next, BlockLoop

\* Only a batch that is being reserved gets nonces.
LEMMA NumbersStay ==
    ASSUME [Next]_vars, ~ReserveBatch
    PROVE  UNCHANGED <<txn, txNonce>> /\ builders' \subseteq builders
<1>. USE DEF accountVars, submitterVars, bundleVars
<1>1. CASE PollReceipts
  BY <1>1, PollKeeps
<1>2. CASE Node /\ UNCHANGED <<bundleVars, head, bpc>>
  BY <1>2 DEF Node, Include, Evict, Foreign
<1>3. CASE NewBlock \/ \E held \in builders : BundleLands(held)
  BY <1>3 DEF NewBlock, BundleLands
<1>. QED
  BY <1>1, <1>2, <1>3
  DEF Next, BlockLoop, Buffer, Flush, ReserveBatchRaises, PublicAccepted, PublicFails,
      FanOutDone, RecordNext, RecordDone, Interrupt, vars

LEMMA BuilderNext == TypeOK /\ PlaceInv /\ BuilderInv /\ [Next]_vars => BuilderInv'
<1>. SUFFICES ASSUME TypeOK, PlaceInv, BuilderInv, [Next]_vars, NEW held \in builders'
              PROVE  /\ held.txs # << >>
                     /\ Entries(held.txs) \subseteq Signed'
                     /\ \A i \in 1..Len(held.txs) :
                           txn'[held.txs[i]] = txn'[held.txs[1]] + i - 1
  BY DEF BuilderInv
<1>1. CASE ~ReserveBatch
  BY <1>1, NumbersStay DEF BuilderInv, Signed
<1>2. CASE ReserveBatch
  <2>1. PICK start \in Nat :
           /\ \A i \in 1..Len(batch) : txn'[batch[i]] = start + i - 1
           /\ \A s \in Sols \ BatchSols : txn'[s] = txn[s]
           /\ Signed' = Signed \union BatchSols
    BY <1>2, ReserveNumbers
  <2>2. bpc = "reserve" /\ (held \in builders \/ held = [txs |-> batch, block |-> target])
    BY <1>2 DEF ReserveBatch
  <2>3. CASE held \in builders
    <3>1. /\ held.txs # << >> /\ held.txs \in Seq(Sols) /\ Entries(held.txs) \subseteq Signed
          /\ \A i \in 1..Len(held.txs) : txn[held.txs[i]] = txn[held.txs[1]] + i - 1
      BY <2>3 DEF BuilderInv, TypeOK
    <3>2. \A i \in 1..Len(held.txs) : txn'[held.txs[i]] = txn[held.txs[i]]
      BY <2>1, <2>2, <3>1, EntriesType DEF PlaceInv
    <3>3. 1 \in 1..Len(held.txs)
      BY <3>1, EntriesType
    <3>. QED  BY <2>1, <3>1, <3>2, <3>3
  <2>4. CASE held = [txs |-> batch, block |-> target]
    <3>1. batch # << >> /\ held.txs = batch
      BY <2>2, <2>4 DEF PlaceInv
    <3>2. 1 \in 1..Len(batch) /\ Len(batch) \in Nat
      BY <3>1, EntriesType DEF TypeOK
    <3>3. txn'[batch[1]] = start
      BY <2>1, <3>2
    <3>. QED  BY <2>1, <3>1, <3>2, <3>3 DEF BatchSols
  <2>. QED  BY <2>2, <2>3, <2>4
<1>. QED  BY <1>1, <1>2

LEMMA BundleInvInit == Init => BundleInv
BY TypeInit, PlaceInit DEF Init, AccountInit, BundleInv, SweepInv, BuilderInv

LEMMA BundleInvNext == BundleInv /\ [Next]_vars => BundleInv'
BY TypeNext, PlaceNext, SweepNext, BuilderNext DEF BundleInv

LEMMA BundleInvCorrect == Spec => []BundleInv
BY BundleInvInit, BundleInvNext, PTL DEF Spec

\* The block loop and the drain thread keep their lists lists of solutions, their places
\* places, and a batch not recorded past its end (miner.py:205-227, bundle.py:73-163).
THEOREM BundleTypeCorrect == Spec => []TypeOK
BY BundleInvCorrect, PTL DEF BundleInv

-----------------------------------------------------------------------------
(* The tx nonces.                                                          *)

LEMMA CounterInit == Init => CounterInv /\ NoncesAreARun
BY DEF Init, AccountInit, CounterInv, NoncesAreARun, Signed, Resolved, None

\* The nonces of a batch are above the old ones, and end where the counter then stands.
LEMMA CounterReserve ==
    ASSUME BundleInv, CounterInv, NoncesAreARun, ReserveBatch
    PROVE  (CounterInv /\ NoncesAreARun)'
<1>. USE DEF BundleInv
<1>1. PICK start \in Nat :
         /\ txNonce # None => start = txNonce
         /\ txNonce' = start + Len(batch)
         /\ \A i \in 1..Len(batch) : txn'[batch[i]] = start + i - 1
         /\ \A s \in Sols \ BatchSols : txn'[s] = txn[s]
         /\ Signed' = Signed \union BatchSols
  BY ReserveNumbers
<1>2. /\ bpc = "reserve" /\ UNCHANGED <<tx, chainNonce>>
      /\ batch # << >> /\ BatchSols \cap Signed = {}
  BY DEF ReserveBatch, nodeVars, PlaceInv
<1>3. Len(batch) \in Nat \ {0} /\ \A i \in 1..Len(batch) : batch[i] \in BatchSols
  BY <1>2, EntriesType DEF TypeOK, BatchSols
<1>4. \A s \in Signed : txn[s] \in Nat /\ txn'[s] = txn[s] /\ txn[s] < start /\ txNonce = start
  <2>1. \A s \in Signed : txn[s] \in Nat /\ s \in Sols \ BatchSols /\ txNonce # None
    BY <1>2 DEF Signed, TypeOK, AccountTypeOK, CounterInv
  <2>. QED  BY <1>1, <2>1 DEF CounterInv
<1>5. \A s \in BatchSols : \E i \in 1..Len(batch) : s = batch[i] /\ txn'[s] = start + i - 1
  BY <1>1 DEF BatchSols, Entries
<1>6. \A s \in Signed' : txn'[s] < txNonce'
  <2>1. \A s \in Signed : txn'[s] < txNonce'
    BY <1>1, <1>3, <1>4
  <2>2. \A s \in BatchSols : txn'[s] < txNonce'
    BY <1>1, <1>3, <1>5
  <2>. QED  BY <1>1, <2>1, <2>2
<1>7. \A s \in Sols : Resolved(s)' => txn'[s] < chainNonce'
  <2>1. \A s \in Sols : Resolved(s)' => s \in Signed /\ Resolved(s)
    BY <1>2 DEF Resolved, PlaceInv
  <2>. QED  BY <1>2, <1>4, <2>1 DEF CounterInv
<1>8. txNonce' # None
  BY <1>1, <1>3 DEF None
<1>9. ASSUME NEW s \in Signed', NEW t \in Signed', s # t PROVE txn'[s] # txn'[t]
  <2>1. CASE s \in Signed /\ t \in Signed
    BY <1>4, <1>9, <2>1 DEF NoncesAreARun
  <2>2. CASE s \in Signed /\ t \in BatchSols
    BY <1>3, <1>4, <1>5, <2>2
  <2>3. CASE s \in BatchSols /\ t \in Signed
    BY <1>3, <1>4, <1>5, <2>3
  <2>4. CASE s \in BatchSols /\ t \in BatchSols
    BY <1>3, <1>5, <1>9, <2>4
  <2>. QED  BY <1>1, <2>1, <2>2, <2>3, <2>4
<1>10. ASSUME NEW s \in Signed'
       PROVE  txn'[s] + 1 = txNonce' \/ \E t \in Signed' : txn'[t] = txn'[s] + 1
  <2>1. CASE s \in Signed /\ txn[s] + 1 = txNonce
    <3>1. 1 \in 1..Len(batch) /\ txn'[batch[1]] = start
      BY <1>1, <1>3
    <3>. QED  BY <1>1, <1>3, <1>4, <2>1, <3>1
  <2>2. CASE s \in Signed /\ txn[s] + 1 # txNonce
    <3>1. PICK t \in Signed : txn[t] = txn[s] + 1
      BY <2>2 DEF NoncesAreARun
    <3>. QED  BY <1>1, <1>4, <2>2, <3>1
  <2>3. CASE s \in BatchSols
    <3>1. PICK i \in 1..Len(batch) : txn'[s] = start + i - 1
      BY <1>5, <2>3
    <3>2. CASE i = Len(batch)
      BY <1>1, <1>3, <3>1, <3>2
    <3>3. CASE i # Len(batch)
      <4>1. i + 1 \in 1..Len(batch)
        BY <1>3, <3>3
      <4>2. txn'[batch[i + 1]] = start + (i + 1) - 1 /\ batch[i + 1] \in Signed'
        BY <1>1, <1>3, <4>1
      <4>3. start + (i + 1) - 1 = start + i - 1 + 1
        BY <1>3
      <4>. QED  BY <3>1, <4>2, <4>3
    <3>. QED  BY <3>2, <3>3
  <2>. QED  BY <1>1, <2>1, <2>2, <2>3
<1>. QED  BY <1>6, <1>7, <1>8, <1>9, <1>10 DEF CounterInv, NoncesAreARun

\* The transactions of a bundle are different ones.
LEMMA HeldDistinct ==
    ASSUME BundleInv, NEW held \in builders
    PROVE  /\ Len(held.txs) \in Nat \ {0} /\ Entries(held.txs) \subseteq Signed
           /\ \A i \in 1..Len(held.txs) : held.txs[i] \in Sols
           /\ txn[held.txs[1]] \in Nat
           /\ \A i \in 1..Len(held.txs) : txn[held.txs[i]] = txn[held.txs[1]] + i - 1
           /\ Distinct(held.txs)
<1>1. held.txs \in Seq(Sols) /\ held.txs # << >> /\ Entries(held.txs) \subseteq Signed
      /\ \A i \in 1..Len(held.txs) : txn[held.txs[i]] = txn[held.txs[1]] + i - 1
  BY DEF BundleInv, TypeOK, BuilderInv
<1>2. /\ Len(held.txs) \in Nat \ {0}
      /\ \A i \in 1..Len(held.txs) : held.txs[i] \in Sols /\ held.txs[i] \in Signed
  BY <1>1, EntriesType
<1>3. txn[held.txs[1]] \in Nat
  BY <1>2 DEF Signed, BundleInv, TypeOK, AccountTypeOK
<1>4. ASSUME NEW i \in 1..Len(held.txs), NEW j \in 1..Len(held.txs), i # j
      PROVE  held.txs[i] # held.txs[j]
  <2>1. txn[held.txs[1]] + i - 1 # txn[held.txs[1]] + j - 1
    BY <1>2, <1>3, <1>4
  <2>. QED  BY <1>1, <2>1
<1>. QED  BY <1>1, <1>2, <1>3, <1>4 DEF Distinct

\* What is mined used up the account's nonces to the one it was signed with.
LEMMA MinedBelow ==
    ASSUME BundleInv, CounterInv, [Next]_vars, ~ReserveBatch
    PROVE  \A s \in Sols : Resolved(s)' => txn'[s] < chainNonce'
<1>1. UNCHANGED txn
  BY NumbersStay
<1>2. /\ chainNonce \in Nat /\ \A s \in Sols : txn[s] \in Int
      /\ \A s \in Sols : Resolved(s) => txn[s] < chainNonce
  BY DEF BundleInv, TypeOK, AccountTypeOK, CounterInv, None
<1>3. ASSUME \A s \in Sols : Resolved(s)' => Resolved(s),
             chainNonce' = chainNonce \/ chainNonce' = chainNonce + 1
      PROVE  \A s \in Sols : Resolved(s)' => txn'[s] < chainNonce'
  BY <1>1, <1>2, <1>3
<1>4. CASE UNCHANGED <<tx, chainNonce>>
  BY <1>3, <1>4 DEF Resolved
<1>5. ASSUME NEW s \in Sols, Include(s)
      PROVE  \A t \in Sols : Resolved(t)' => txn'[t] < chainNonce'
  <2>1. /\ chainNonce' = chainNonce + 1 /\ txn[s] = chainNonce
        /\ \A t \in Sols : t = s \/ (Resolved(t)' => Resolved(t))
    BY <1>5 DEF Include, Resolved, BundleInv, TypeOK, AccountTypeOK
  <2>. QED  BY <1>1, <1>2, <2>1
<1>6. ASSUME NEW held \in builders, BundleLands(held)
      PROVE  \A t \in Sols : Resolved(t)' => txn'[t] < chainNonce'
  <2>. DEFINE first == txn[held.txs[1]]
              n == Len(held.txs)
  <2>1. /\ chainNonce' = chainNonce + n /\ first = chainNonce
        /\ \A t \in Sols : t \in Entries(held.txs) \/ (Resolved(t)' => Resolved(t))
    BY <1>6 DEF BundleLands, Resolved
  <2>2. /\ n \in Nat \ {0} /\ first \in Nat
        /\ \A i \in 1..n : txn[held.txs[i]] = first + i - 1
    BY HeldDistinct
  <2>3. \A t \in Entries(held.txs) : \E i \in 1..n : txn[t] = first + i - 1
    BY <2>2 DEF Entries
  <2>. HIDE DEF first, n
  <2>4. \A t \in Entries(held.txs) : txn[t] < chainNonce'
    BY <1>2, <2>1, <2>2, <2>3
  <2>5. \A t \in Sols : Resolved(t) => txn[t] < chainNonce'
    BY <1>2, <2>1, <2>2
  <2>. QED  BY <1>1, <2>1, <2>4, <2>5
<1>7. CASE Foreign \/ \E s \in Sols : Evict(s) \/ PublicAccepted(s)
  <2>1. ASSUME NEW s \in Sols, Evict(s)
        PROVE  (\A t \in Sols : Resolved(t)' => Resolved(t)) /\ chainNonce' = chainNonce
    BY <2>1 DEF Evict, Resolved, BundleInv, TypeOK, AccountTypeOK
  <2>2. ASSUME NEW s \in Sols, PublicAccepted(s)
        PROVE  (\A t \in Sols : Resolved(t)' => Resolved(t)) /\ chainNonce' = chainNonce
    BY <2>2 DEF PublicAccepted, Resolved
  <2>3. ASSUME Foreign
        PROVE  (\A t \in Sols : Resolved(t)' => Resolved(t)) /\ chainNonce' = chainNonce + 1
    BY <2>3 DEF Foreign, Resolved
  <2>. QED  BY <1>3, <1>7, <2>1, <2>2, <2>3
<1>8. CASE PollReceipts
  BY <1>4, <1>8, PollKeeps
<1>. USE DEF accountVars, nodeVars, bundleVars
<1>9. CASE Node /\ UNCHANGED <<bundleVars, head, bpc>>
  BY <1>5, <1>7, <1>9 DEF Node
<1>10. CASE \/ ReserveBatchRaises \/ FanOutDone \/ RecordNext \/ RecordDone \/ NewBlock
            \/ Interrupt \/ UNCHANGED vars
            \/ \E s \in Sols : Buffer(s) \/ PublicFails(s)
            \/ \E seenAt \in 0..head : Flush(seenAt)
  <2>1. UNCHANGED <<tx, chainNonce>>
    BY <1>10
    DEF ReserveBatchRaises, FanOutDone, RecordNext, RecordDone, NewBlock, Interrupt, Buffer,
        PublicFails, Flush, vars
  <2>. QED  BY <1>4, <2>1
<1>. QED  BY <1>6, <1>7, <1>8, <1>9, <1>10 DEF Next, BlockLoop

LEMMA CounterNext ==
    BundleInv /\ CounterInv /\ NoncesAreARun /\ [Next]_vars => (CounterInv /\ NoncesAreARun)'
<1>1. BundleInv /\ CounterInv /\ NoncesAreARun /\ [Next]_vars /\ ~ReserveBatch
         => (CounterInv /\ NoncesAreARun)'
  BY NumbersStay, MinedBelow DEF CounterInv, NoncesAreARun, Signed
<1>. QED  BY <1>1, CounterReserve

\* Batches get runs of nonces without overlaps and without holes, and the runs follow each
\* other, whatever the size of a batch and however often a flush fails (bundle.py:81-88,
\* submit.py:229-236).
THEOREM NoncesAreARunCorrect == Spec => []NoncesAreARun
<1>1. Spec => [](CounterInv /\ NoncesAreARun)
  BY CounterInit, CounterNext, BundleInvCorrect, PTL DEF Spec
<1>. QED  BY <1>1, PTL

-----------------------------------------------------------------------------
(* What is marked used, and what is in the pending list.                   *)

LEMMA MarkedInit == Init => MarkedInv
BY DEF Init, AccountInit, MarkedInv, Signed

LEMMA MarkedNext == BundleInv /\ MarkedInv /\ [Next]_vars => MarkedInv'
<1>. SUFFICES ASSUME BundleInv, MarkedInv, [Next]_vars PROVE MarkedInv'
  OBVIOUS
<1>. USE DEF BundleInv, accountVars, submitterVars, bundleVars
<1>1. CASE /\ UNCHANGED <<used, txn>>
           /\ Unrecorded \cap Signed = {} \/ UNCHANGED <<batch, recorded>>
  <2>1. Signed' = Signed /\ (UNCHANGED <<batch, recorded>> => Unrecorded' = Unrecorded)
        /\ \A s \in Sols : AlreadyUsed(s)' = AlreadyUsed(s)
    BY <1>1 DEF Signed, Unrecorded, AlreadyUsed
  <2>2. Signed \subseteq Sols
    BY DEF Signed
  <2>. QED  BY <1>1, <2>1, <2>2 DEF MarkedInv
<1>2. Unrecorded \subseteq BatchSols /\ Len(batch) \in Nat
  BY EntriesType DEF Unrecorded, BatchSols, Entries, TypeOK
<1>3. CASE ReserveBatch
  <2>1. /\ bpc = "reserve" /\ UNCHANGED <<used, batch, recorded>>
    BY <1>3 DEF ReserveBatch
  <2>2. Signed' = Signed \union BatchSols
    BY <1>3, ReserveNumbers
  <2>3. Unrecorded' = Unrecorded /\ Unrecorded = BatchSols
    BY <2>1 DEF Unrecorded, BatchSols, Entries, PlaceInv
  <2>4. \A s \in Signed : AlreadyUsed(s)' = AlreadyUsed(s)
    BY <2>1 DEF AlreadyUsed
  <2>. QED  BY <2>2, <2>3, <2>4 DEF MarkedInv
<1>4. CASE RecordNext
  <2>. DEFINE x == batch[recorded + 1]
  <2>1. /\ bpc = "record" /\ recorded + 1 \in 1..Len(batch) /\ recorded' = recorded + 1
        /\ used' = MarkUsed(used, x) /\ UNCHANGED <<txn, batch>>
    BY <1>4, <1>2 DEF RecordNext, RecordPending, TypeOK
  <2>2. x \in Sols /\ x \in Signed
    BY <2>1, EntriesType DEF TypeOK, PlaceInv, BatchSols
  <2>3. Signed' = Signed
    BY <2>1 DEF Signed
  <2>4. \A s \in Sols : EpochOf[s] \in Nat
    BY AccountAssumption
  <2>5. \A k \in used \union {Key(x)} : k[1] < EpochOf[x] - 1 \/ k \in used'
    <3>1. \A k \in used \union {Key(x)} : k[1] \in Nat
      BY <2>2, <2>4 DEF TypeOK, AccountTypeOK, Key
    <3>. QED  BY <2>1, <2>2, <2>4, <3>1 DEF MarkUsed
  <2>6. \A s \in Unrecorded : s = x \/ s \in Unrecorded'
    BY <1>2, <2>1 DEF Unrecorded, TypeOK
  <2>7. ASSUME NEW s \in Signed, Key(s) \in used \union {Key(x)}
        PROVE  AlreadyUsed(s)' \/ EpochOf[x] >= EpochOf[s] + 2
    <3>1. EpochOf[s] < EpochOf[x] - 1 \/ Key(s) \in used'
      BY <2>5, <2>7 DEF Key
    <3>. QED  BY <2>2, <2>4, <3>1 DEF AlreadyUsed, Signed
  <2>. HIDE DEF x
  <2>. QED  BY <2>2, <2>3, <2>6, <2>7 DEF MarkedInv, AlreadyUsed
<1>5. ASSUME NEW seenAt, Flush(seenAt) PROVE MarkedInv'
  <2>1. UNCHANGED <<used, txn>> /\ Unrecorded = {}
    BY <1>2, <1>5, EmptyType DEF Flush, PlaceInv, BatchSols
  <2>. QED  BY <1>1, <2>1
<1>6. CASE ReserveBatchRaises
  BY <1>1, <1>2, <1>6 DEF ReserveBatchRaises, PlaceInv
<1>7. CASE RecordDone
  <2>1. Unrecorded = {}
    BY <1>2, <1>7 DEF RecordDone, Unrecorded
  <2>. QED  BY <1>1, <1>7, <2>1 DEF RecordDone
<1>8. CASE PollReceipts
  BY <1>1, <1>8, PollKeeps
<1>9. CASE Node /\ UNCHANGED <<bundleVars, head, bpc>>
  BY <1>1, <1>9 DEF Node, Include, Evict, Foreign
<1>10. CASE NewBlock \/ Interrupt \/ (\E held \in builders : BundleLands(held)) \/ UNCHANGED vars
  BY <1>1, <1>10 DEF NewBlock, Interrupt, BundleLands, vars
<1>11. CASE \/ FanOutDone
            \/ \E s \in Sols : Buffer(s) \/ PublicAccepted(s) \/ PublicFails(s)
  BY <1>1, <1>11 DEF FanOutDone, Buffer, PublicAccepted, PublicFails
<1>. QED
  BY <1>3, <1>4, <1>5, <1>6, <1>7, <1>8, <1>9, <1>10, <1>11 DEF Next, BlockLoop

\* A transaction that ever reached the node, or that a builder landed, is marked used or
\* about to be, for as long as its epoch is remembered (bundle.py:117-121, submit.py:222-227).
THEOREM BroadcastIsMarkedCorrect == Spec => []BroadcastIsMarked
<1>1. BundleInv /\ MarkedInv => BroadcastIsMarked
  <2>. SUFFICES ASSUME BundleInv, MarkedInv, NEW s \in Sols, tx[s] # "absent"
                PROVE  \/ AlreadyUsed(s) \/ s \in BatchSols
                       \/ \E r \in Sols : txn[r] # None /\ EpochOf[r] >= EpochOf[s] + 2
    BY DEF BroadcastIsMarked
  <2>1. Unrecorded \subseteq BatchSols
    BY DEF Unrecorded, BatchSols, Entries, BundleInv, TypeOK
  <2>2. s \in Signed
    BY DEF BundleInv, PlaceInv
  <2>. QED  BY <2>1, <2>2 DEF MarkedInv, Signed
<1>. QED  BY <1>1, MarkedInit, MarkedNext, BundleInvCorrect, PTL DEF Spec

\* No entry of the pending list is lost between a sweep's last look and its assignment
\* (miner.py:173-175).
THEOREM PendingNotLostCorrect == Spec => PendingNotLost
<1>1. ASSUME BundleInv, [Next]_vars, NEW i \in 1..Len(pending)
      PROVE  pending[i] \in Entries(pending') \/ (sweepPc = "assign" /\ i < pos)
  <2>. USE DEF BundleInv, accountVars, submitterVars
  <2>0. pending[i] \in Entries(pending) /\ Len(pending) \in Nat
    BY <1>1, EntriesType DEF TypeOK, AccountTypeOK
  <2>1. CASE UNCHANGED pending
    BY <2>0, <2>1
  <2>2. CASE RecordNext
    <3>1. recorded + 1 \in 1..Len(batch) /\ pending' = Append(pending, batch[recorded + 1])
      BY <1>1, <2>2, EntriesType DEF RecordNext, RecordPending, TypeOK
    <3>2. batch[recorded + 1] \in Sols
      BY <1>1, <3>1, EntriesType DEF TypeOK
    <3>. QED  BY <1>1, <2>0, <3>1, <3>2, AppendEntries DEF TypeOK, AccountTypeOK
  <2>3. CASE PollReceipts
    <3>1. CASE SweepAssign
      <4>1. sweepPc = "assign" /\ pos > Len(pending) /\ pos \in Nat
        BY <1>1, <3>1 DEF SweepAssign, SweepInv, TypeOK, AccountTypeOK
      <4>. QED  BY <2>0, <4>1
    <3>2. CASE ~SweepAssign
      BY <2>1, <2>3, <3>2 DEF PollReceipts, SweepStart, SweepCount, SweepMiss, SweepEnd
    <3>. QED  BY <3>1, <3>2
  <2>4. CASE Node /\ UNCHANGED <<bundleVars, head, bpc>>
    BY <2>1, <2>4 DEF Node, Include, Evict, Foreign
  <2>. QED
    BY <1>1, <2>1, <2>2, <2>3, <2>4
    DEF Next, BlockLoop, Buffer, Flush, ReserveBatch, ReserveBatchRaises, PublicAccepted,
        PublicFails, FanOutDone, RecordDone, NewBlock, BundleLands, Interrupt, vars
<1>2. BundleInv /\ [Next]_vars
         => [\A i \in 1..Len(pending) :
                pending[i] \in Entries(pending') \/ (sweepPc = "assign" /\ i < pos)]_vars
  BY <1>1
<1>. QED  BY <1>2, BundleInvCorrect, PTL DEF Spec, PendingNotLost

-----------------------------------------------------------------------------
(* The buffer.                                                             *)

\* Whatever bundle.size is, a buffered solution is put in a batch, stays for a later one, or is
\* dropped as submitted already or as of another epoch (miner.py:211-219).
THEOREM KeptUntilFlushedCorrect == Spec => KeptUntilFlushed
<1>1. ASSUME BundleInv, [Next]_vars, NEW s \in Entries(buffer)
      PROVE  \/ s \in Entries(buffer') \union Entries(batch')
             \/ AlreadyUsed(s)
             \/ OtherEpoch(s)
  <2>1. CASE UNCHANGED buffer
    BY <1>1, <2>1
  <2>2. ASSUME NEW t \in Sols, Buffer(t) PROVE s \in Entries(buffer')
    <3>1. buffer' = Append(buffer, t)
      BY <2>2 DEF Buffer
    <3>. QED  BY <1>1, <3>1, AppendEntries DEF BundleInv, TypeOK
  <2>3. ASSUME NEW b \in 0..head, b >= head - 1, Flush(b)
        PROVE  \/ s \in Entries(buffer') \union Entries(batch')
               \/ AlreadyUsed(s)
               \/ OtherEpoch(s)
    BY <1>1, <2>3, FlushSplits DEF BundleInv, OtherEpoch
  <2>4. CASE PollReceipts
    BY <2>1, <2>4 DEF PollReceipts, bundleVars
  <2>5. CASE Node /\ UNCHANGED <<bundleVars, head, bpc>>
    BY <2>1, <2>5 DEF bundleVars
  <2>. QED
    BY <1>1, <2>1, <2>2, <2>3, <2>4, <2>5
    DEF Next, BlockLoop, ReserveBatch, ReserveBatchRaises, PublicAccepted, PublicFails,
        FanOutDone, RecordNext, RecordDone, NewBlock, BundleLands, Interrupt, vars, bundleVars
<1>2. BundleInv /\ [Next]_vars => [BufferKeeps]_vars
  BY <1>1 DEF BufferKeeps
<1>. QED  BY <1>2, BundleInvCorrect, PTL DEF Spec, KeptUntilFlushed

-----------------------------------------------------------------------------
(* The bundle path implements Submission.                                  *)

PromiseInv == BundleInv /\ CounterInv /\ NoncesAreARun

LEMMA PromiseInvCorrect == Spec => []PromiseInv
BY BundleInvInit, BundleInvNext, CounterInit, CounterNext, PTL DEF Spec, PromiseInv

\* Where a solution that is not signed may still be.
OnTheWay == arriving \union Entries(buffer) \union BatchSols

\* A step of the miner after which no more solutions are on the way: those that left are
\* refused, unless they are signed.
LEMMA SomeDropped ==
    ASSUME PromiseInv, UNCHANGED <<tx, txn, chainNonce>>, OnTheWay' \subseteq OnTheWay
    PROVE  [Promise!Next]_(Promise!vars)
<1>. DEFINE S == {s \in Sols : s \in OnTheWay /\ s \notin OnTheWay' /\ s \notin Signed}
<1>1. Signed' = Signed /\ \A s \in Sols : Resolved(s)' = Resolved(s)
  BY DEF Signed, Resolved
<1>2. \A s \in Sols : Resolved(s) => s \in Signed
  BY DEF PromiseInv, BundleInv, PlaceInv, Resolved
<1>3. \A s \in Sols : Fate(s)' = IF s \in S THEN "refused" ELSE Fate(s)
  BY <1>1, <1>2 DEF Fate, OnTheWay
<1>4. \A s \in S : Fate(s) = "waiting"
  BY <1>2 DEF Fate, OnTheWay
<1>. HIDE DEF S
<1>5. CASE S = {}
  BY <1>3, <1>5 DEF Promise!vars
<1>6. CASE S # {}
  <2>1. S \subseteq Sols
    BY DEF S
  <2>2. Promise!Refuse(S)
    BY <1>3, <1>4, <1>6, <2>1 DEF Promise!Refuse, Promise!Waiting, Promise!Becomes
  <2>. QED  BY <2>1, <2>2 DEF Promise!Next
<1>. QED  BY <1>5, <1>6

\* A step of the mempool.
LEMMA NothingMined ==
    ASSUME UNCHANGED <<txn, arriving, buffer, batch>>,
           \A s \in Sols : Resolved(s) \/ Resolved(s)' => tx'[s] = tx[s]
    PROVE  \A s \in Sols : Fate(s)' = Fate(s)
<1>1. Signed' = Signed /\ BatchSols' = BatchSols
  BY DEF Signed, BatchSols
<1>. QED  BY <1>1 DEF Fate, Resolved

\* Transactions with the account's next nonces are mined.
LEMMA SomeMined ==
    ASSUME PromiseInv, NEW S \in SUBSET Signed, S # {},
           NEW n \in Nat, Cardinality(S) = n,
           {txn[s] : s \in S} = chainNonce..(chainNonce + n - 1),
           \A s \in S : tx'[s] \in {"ok", "reverted"},
           \A s \in Sols \ S : tx'[s] = tx[s],
           UNCHANGED <<txn, arriving, buffer, batch>>,
           chainNonce' = chainNonce + n
    PROVE  Promise!Mine(S)
<1>1. Signed' = Signed /\ BatchSols' = BatchSols /\ S \subseteq Sols
  BY DEF Signed, BatchSols
<1>2. \A s \in S : ~Resolved(s)
  <2>1. \A s \in S : txn[s] \in chainNonce..(chainNonce + n - 1)
    OBVIOUS
  <2>2. \A s \in S : ~(txn[s] < chainNonce)
    BY <2>1 DEF PromiseInv, BundleInv, TypeOK, AccountTypeOK
  <2>. QED  BY <1>1, <2>2 DEF PromiseInv, CounterInv
<1>3. \A s \in S : Fate(s) = "signed" /\ Fate(s)' \in {"ok", "reverted"}
  BY <1>1, <1>2 DEF Fate, Resolved
<1>4. \A s \in Sols \ S : Fate(s)' = Fate(s)
  BY <1>1 DEF Fate, Resolved
<1>5. Promise!Cardinality(S) = n
  <2>1. Promise!Cardinality(S) = Cardinality(S)
    BY DEF Promise!Cardinality, Cardinality, Promise!IsFiniteSet, IsFiniteSet
  <2>. QED  BY <2>1
<1>. QED  BY <1>1, <1>3, <1>4, <1>5 DEF Promise!Mine

\* A batch of proofs that are different is signed, with nonces that are new.
LEMMA BatchSigned ==
    ASSUME PromiseInv, PromiseInv', ReserveBatch,
           \A s, t \in Sols : s # t => Key(s) # Key(t)
    PROVE  Promise!Sign(BatchSols)
<1>. USE DEF PromiseInv, BundleInv
<1>1. /\ \A s \in Sols \ BatchSols : txn'[s] = txn[s]
      /\ Signed' = Signed \union BatchSols
      /\ txn' \in [Sols -> Nat \union {None}]
  BY ReserveNumbers
<1>2. /\ bpc = "reserve" /\ UNCHANGED <<tx, chainNonce, arriving, buffer, batch>>
      /\ BatchSols \cap Signed = {} /\ batch # << >>
  BY DEF ReserveBatch, nodeVars, PlaceInv
<1>3. BatchSols \subseteq Sols /\ BatchSols' = BatchSols /\ BatchSols # {}
  <2>1. 1 \in 1..Len(batch)
    BY <1>2, EntriesType DEF TypeOK
  <2>. QED  BY <1>2, <2>1, EntriesType DEF TypeOK, BatchSols
<1>4. \A s \in Sols : Resolved(s) => s \in Signed
  BY DEF PlaceInv, Resolved
<1>5. \A s \in BatchSols : Fate(s) = "waiting" /\ Fate(s)' = "signed"
  BY <1>1, <1>2, <1>3, <1>4 DEF Fate, Resolved
<1>6. \A s \in Sols \ BatchSols : Fate(s)' = Fate(s)
  BY <1>1, <1>2, <1>3 DEF Fate, Resolved
<1>7. Promise!Signed = Signed
  BY DEF Promise!Signed, Signed, Promise!Unsigned, None
<1>8. \A s \in BatchSols, t \in Signed \union BatchSols : s # t => ~Promise!SameProof(s, t)
  BY <1>3 DEF Promise!SameProof, Key, Signed
<1>9. \A s \in BatchSols : txn'[s] \in Nat
  BY <1>1, <1>3 DEF Signed
<1>10. \A s \in BatchSols : \A t \in Signed \union BatchSols : s # t => txn'[s] # txn'[t]
  BY <1>1 DEF NoncesAreARun
<1>. QED
  BY <1>1, <1>2, <1>3, <1>5, <1>6, <1>7, <1>8, <1>9, <1>10
  DEF Promise!Sign, Promise!Waiting, Promise!Becomes

\* A list without repetitions has as many entries as its length.
LEMMA AsManyAsLong ==
    ASSUME NEW seq, Len(seq) \in Nat, Distinct(seq)
    PROVE  Cardinality(Entries(seq)) = Len(seq)
<1>. DEFINE F == [i \in 1..Len(seq) |-> seq[i]]
<1>1. F \in Bijection(1..Len(seq), Entries(seq))
  BY DEF Distinct, Entries, Bijection, Injection, Surjection, IsInjective
<1>. QED  BY <1>1, FS_CountingElements DEF ExistsBijection

\* A bundle that lands takes the account's next nonces.
LEMMA BundleMined ==
    ASSUME PromiseInv, NEW held \in builders, BundleLands(held)
    PROVE  Promise!Mine(Entries(held.txs))
<1>. DEFINE S == Entries(held.txs)
            n == Len(held.txs)
            first == txn[held.txs[1]]
<1>1. /\ n \in Nat \ {0} /\ S \subseteq Signed /\ first \in Nat
      /\ \A i \in 1..n : txn[held.txs[i]] = first + i - 1
      /\ Distinct(held.txs)
  BY HeldDistinct DEF PromiseInv
<1>2. /\ first = chainNonce /\ chainNonce' = chainNonce + n
      /\ UNCHANGED <<txn, arriving, buffer, batch>>
      /\ \A s \in S : s \in Sols => tx'[s] \in {"ok", "reverted"}
      /\ \A s \in Sols \ S : tx'[s] = tx[s]
  BY DEF BundleLands
<1>3. Cardinality(S) = n
  BY <1>1, AsManyAsLong
<1>4. S = {held.txs[i] : i \in 1..n}
  BY DEF Entries
<1>. HIDE DEF S, n, first
<1>5. {txn[s] : s \in S} = {first + i - 1 : i \in 1..n}
  <2>1. \A s \in S : \E i \in 1..n : txn[s] = first + i - 1
    BY <1>1, <1>4
  <2>2. \A i \in 1..n : \E s \in S : txn[s] = first + i - 1
    BY <1>1, <1>4
  <2>. QED  BY <2>1, <2>2
<1>6. {first + i - 1 : i \in 1..n} = first..(first + n - 1)
  <2>1. \A i \in 1..n : first + i - 1 \in first..(first + n - 1)
    BY <1>1
  <2>2. ASSUME NEW m \in first..(first + n - 1) PROVE \E i \in 1..n : m = first + i - 1
    <3>1. m - first + 1 \in 1..n /\ m = first + (m - first + 1) - 1
      BY <1>1
    <3>. QED  BY <3>1
  <2>. QED  BY <2>1, <2>2
<1>7. S # {}
  <2>1. 1 \in 1..n
    BY <1>1
  <2>. QED  BY <1>4, <2>1
<1>8. \A s \in S : tx'[s] \in {"ok", "reverted"}
  BY <1>1, <1>2 DEF Signed
<1>9. Promise!Mine(S)
  BY <1>1, <1>2, <1>3, <1>5, <1>6, <1>7, <1>8, SomeMined
<1>. QED  BY <1>9 DEF S

\* Every step of the block loop, the drain thread, the builders and the node is one of
\* Submission, or none.
LEMMA PromiseStep ==
    ASSUME PromiseInv, PromiseInv', [Next]_vars, \A s, t \in Sols : s # t => Key(s) # Key(t)
    PROVE  [Promise!Next]_(Promise!vars)
<1>. USE DEF accountVars, submitterVars, nodeVars, bundleVars
<1>1. CASE UNCHANGED <<tx, txn, chainNonce, arriving, buffer, batch>>
  BY <1>1, SomeDropped DEF OnTheWay, BatchSols
<1>2. ASSUME NEW s \in Sols, Buffer(s) PROVE [Promise!Next]_(Promise!vars)
  <2>1. /\ s \in arriving /\ arriving' = arriving \ {s} /\ buffer' = Append(buffer, s)
        /\ UNCHANGED <<tx, txn, chainNonce, batch>>
    BY <1>2 DEF Buffer
  <2>2. Entries(buffer') = Entries(buffer) \union {s}
    BY <2>1, AppendEntries DEF PromiseInv, BundleInv, TypeOK
  <2>. QED  BY <2>1, <2>2, SomeDropped DEF OnTheWay, BatchSols
<1>3. ASSUME NEW seenAt, Flush(seenAt) PROVE [Promise!Next]_(Promise!vars)
  <2>1. UNCHANGED <<tx, txn, chainNonce, arriving>>
    BY <1>3 DEF Flush
  <2>2. Entries(batch') \union Entries(buffer') \subseteq Entries(buffer)
    BY <1>3, FlushSplits DEF PromiseInv, BundleInv
  <2>. QED  BY <2>1, <2>2, SomeDropped DEF OnTheWay, BatchSols
<1>4. CASE ReserveBatch
  <2>1. BatchSols \subseteq Sols
    BY EntriesType DEF BatchSols, PromiseInv, BundleInv, TypeOK
  <2>. QED  BY <1>4, <2>1, BatchSigned DEF Promise!Next
<1>5. CASE ReserveBatchRaises \/ RecordDone
  <2>1. UNCHANGED <<tx, txn, chainNonce, arriving, buffer>> /\ batch' = << >>
    BY <1>5 DEF ReserveBatchRaises, RecordDone
  <2>. QED  BY <2>1, SomeDropped, EmptyType DEF OnTheWay, BatchSols
<1>6. ASSUME NEW s \in Sols, PublicAccepted(s) PROVE [Promise!Next]_(Promise!vars)
  <2>1. /\ UNCHANGED <<txn, chainNonce, arriving, buffer, batch>>
        /\ \A t \in Sols : Resolved(t) \/ Resolved(t)' => tx'[t] = tx[t]
    BY <1>6 DEF PublicAccepted, Resolved
  <2>. QED  BY <2>1, NothingMined DEF Promise!vars
<1>7. ASSUME NEW held \in builders, BundleLands(held) PROVE [Promise!Next]_(Promise!vars)
  <2>1. Entries(held.txs) \subseteq Sols
    BY HeldDistinct DEF Signed, PromiseInv
  <2>. QED  BY <1>7, <2>1, BundleMined DEF Promise!Next
<1>8. ASSUME NEW s \in Sols, Include(s), UNCHANGED bundleVars
      PROVE  [Promise!Next]_(Promise!vars)
  <2>. USE DEF PromiseInv, BundleInv, TypeOK, AccountTypeOK
  <2>1. /\ tx[s] = "pooled" /\ txn[s] = chainNonce /\ tx'[s] \in {"ok", "reverted"}
        /\ \A t \in Sols \ {s} : tx'[t] = tx[t]
        /\ chainNonce' = chainNonce + 1 /\ UNCHANGED <<txn, arriving, buffer, batch>>
    BY <1>8 DEF Include
  <2>2. s \in Signed /\ Cardinality({s}) = 1
    BY <2>1, FS_Singleton DEF PlaceInv
  <2>3. {txn[t] : t \in {s}} = chainNonce..(chainNonce + 1 - 1)
    <3>1. {txn[t] : t \in {s}} = {chainNonce}
      BY <2>1
    <3>2. chainNonce..(chainNonce + 1 - 1) = {chainNonce}
      OBVIOUS
    <3>. QED  BY <3>1, <3>2
  <2>4. Promise!Mine({s})
    BY <2>1, <2>2, <2>3, SomeMined
  <2>. QED  BY <2>4 DEF Promise!Next
<1>9. ASSUME NEW s \in Sols, Evict(s), UNCHANGED bundleVars
      PROVE  [Promise!Next]_(Promise!vars)
  <2>1. /\ UNCHANGED <<txn, chainNonce, arriving, buffer, batch>>
        /\ \A t \in Sols : Resolved(t) \/ Resolved(t)' => tx'[t] = tx[t]
    BY <1>9 DEF Evict, Resolved, PromiseInv, BundleInv, TypeOK, AccountTypeOK
  <2>. QED  BY <2>1, NothingMined DEF Promise!vars
<1>10. CASE Foreign /\ UNCHANGED bundleVars
  <2>1. /\ UNCHANGED <<txn, arriving, buffer, batch>> /\ chainNonce' = chainNonce + 1
        /\ \A t \in Sols : Resolved(t) \/ Resolved(t)' => tx'[t] = tx[t]
    BY <1>10 DEF Foreign, Resolved
  <2>. QED  BY <2>1, NothingMined DEF Promise!Next, Promise!Elsewhere
<1>11. CASE PollReceipts
  BY <1>1, <1>11, PollKeeps
<1>12. CASE \/ FanOutDone \/ RecordNext \/ NewBlock \/ Interrupt \/ UNCHANGED vars
            \/ \E s \in Sols : PublicFails(s)
  <2>1. UNCHANGED <<tx, txn, chainNonce, arriving, buffer, batch>>
    BY <1>12 DEF FanOutDone, RecordNext, NewBlock, Interrupt, PublicFails, vars
  <2>. QED  BY <1>1, <2>1
<1>. QED
  BY <1>2, <1>3, <1>4, <1>5, <1>6, <1>7, <1>8, <1>9, <1>10, <1>11, <1>12
  DEF Next, BlockLoop, Node

\* When no proof is found twice, the bundle path implements Submission: one solution has one
\* fate, no tx nonce is given out twice, and bundles and public transactions together are
\* mined in nonce order (miner.py:211-227, bundle.py:73-163, submit.py:229-236).
THEOREM KeepsPromiseCorrect ==
    ASSUME \A s, t \in Sols : s # t => Key(s) # Key(t)
    PROVE  Spec => KeepsPromise
<1>1. Init => Promise!Init
  BY DEF Init, AccountInit, Promise!Init, Promise!Unsigned, Fate, Resolved, Signed, None
<1>2. PromiseInv /\ PromiseInv' /\ [Next]_vars => [Promise!Next]_(Promise!vars)
  BY PromiseStep
<1>. QED  BY <1>1, <1>2, PromiseInvCorrect, PTL DEF Spec, KeepsPromise, Promise!Spec
=============================================================================
