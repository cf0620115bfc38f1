-------------------------- MODULE BundleSubmitter --------------------------
(***************************************************************************)
(* The bundle path: Miner's buffer of verified solutions, filled by the    *)
(* drain thread and flushed by the block loop once per block               *)
(* (src/hashminer/miner.py), and BundleSubmitter.send()                    *)
(* (src/hashminer/bundle.py), which signs a batch with consecutive tx      *)
(* nonces, offers it to the builders and broadcasts every transaction      *)
(* publicly, and records them all with the Submitter, whose receipts the   *)
(* same loop then polls.  In this mode submit() is never called.           *)
(***************************************************************************)
EXTENDS Account, Ordered

CONSTANTS
    Size,           \* BundleConfig.size
    Ahead,          \* BundleConfig.target_blocks_ahead
    EpochBlocks,    \* EPOCH_BLOCKS of the contract
    DryRun,         \* Config.dry_run, of a miner that has a key
    MaxHead         \* bound: the chain's height; blocks after it change no epoch

ASSUME BundleAssumption ==
    /\ Size \in Nat \ {0}
    /\ Ahead \in Nat
    /\ EpochBlocks \in Nat \ {0}
    /\ DryRun \in BOOLEAN
    /\ MaxHead \in Nat

VARIABLES
    head,           \* the chain's latest block
    arriving,       \* solutions the drain thread has not verified yet
    buffer,         \* Miner._bundle_buffer
    batch,          \* the solutions send() was called with
    target,         \* the block the batch is aimed at
    toSend,         \* those whose public broadcast is outstanding
    builders,       \* bundles some builder holds: their transactions and block
    recorded,       \* how many of the batch are recorded
    lost,           \* solutions whose send() raised: popped and gone
    bpc             \* where the block loop stands

bundleVars == <<arriving, buffer, batch, target, toSend, builders, recorded, lost>>
vars == <<accountVars, bundleVars, head, bpc>>

EpochAt(b) == b \div EpochBlocks

TypeOK ==
    /\ AccountTypeOK
    /\ head \in 0..MaxHead
    /\ arriving \subseteq Sols
    /\ buffer \in Seq(Sols)
    /\ batch \in Seq(Sols)
    /\ target \in Nat
    /\ toSend \subseteq Sols
    /\ \A b \in builders : b.txs \in Seq(Sols) /\ b.block \in Nat
    /\ recorded \in 0..Len(batch)
    /\ lost \subseteq Sols
    /\ bpc \in {"poll", "reserve", "fan-out", "record", "sweep", "stopped"}

Init ==
    /\ AccountInit
    /\ head = 0
    /\ arriving = Sols
    /\ buffer = << >>
    /\ batch = << >>
    /\ target = 0
    /\ toSend = {}
    /\ builders = {}
    /\ recorded = 0
    /\ lost = {}
    /\ bpc = "poll"

-----------------------------------------------------------------------------
(* The drain thread: a verified solution of the job's epoch is buffered.   *)
(* The job's epoch is one the block loop has seen.                         *)

Buffer(s) ==
    /\ bpc # "stopped"
    /\ s \in arriving
    /\ EpochOf[s] <= EpochAt(head)
    /\ arriving' = arriving \ {s}
    /\ buffer' = Append(buffer, s)
    /\ UNCHANGED <<accountVars, batch, target, toSend, builders, recorded, lost, head, bpc>>

-----------------------------------------------------------------------------
(* The block loop.                                                         *)

BatchLen(keep) == IF Size < Len(keep) THEN Size ELSE Len(keep)

\* Mutant: what is beyond a full batch is cleared with it.
LeftForgotten(keep) == << >>

LeftInBuffer(keep) == SubSeq(keep, BatchLen(keep) + 1, Len(keep))

\* A block is seen, mining_state() read, and _maybe_flush_bundle() filters the buffer and
\* pops a batch.  The epoch comes from one call and the block number from a later one, so
\* the chain may have moved in between.
Flush(seenAt) ==
    LET Passes == {i \in 1..Len(buffer) : /\ EpochOf[buffer[i]] = EpochAt(seenAt)
                                          /\ ~AlreadyUsed(buffer[i])}
    IN  /\ bpc = "poll"
        /\ \E order \in Ascending(Passes) :
              LET keep == [j \in 1..Cardinality(Passes) |-> buffer[order[j]]]
                  n == BatchLen(keep)
              IN  /\ batch' = SubSeq(keep, 1, n)
                  /\ buffer' = LeftInBuffer(keep)
                  /\ target' = IF n = 0 THEN 0 ELSE head + (IF Ahead > 1 THEN Ahead ELSE 1)
                  /\ bpc' = IF n = 0 THEN "sweep" ELSE "reserve"
        /\ recorded' = 0
        /\ UNCHANGED <<accountVars, arriving, toSend, builders, lost, head>>

BatchSols == Entries(batch)

\* Mutant: the last nonce of the batch is not reserved.
OneShort(start) == start + Len(batch) - 1

ReservedUpTo(start) == start + Len(batch)

\* send(): the batch gets consecutive tx nonces and is signed; the fan-out begins, and
\* some builder may take the bundle.
ReserveBatch ==
    /\ bpc = "reserve"
    /\ \E start \in NextNonces :
          /\ txNonce' = ReservedUpTo(start)
          /\ txn' = [s \in Sols |->
                       IF s \in BatchSols
                          THEN start - 1 + (CHOOSE i \in 1..Len(batch) : batch[i] = s)
                          ELSE txn[s]]
    /\ toSend' = BatchSols
    /\ builders' \in {builders, builders \union {[txs |-> batch, block |-> target]}}
    /\ bpc' = "fan-out"
    /\ UNCHANGED <<used, pending, sent, sweepVars, nodeVars, arriving, buffer, batch, target,
                   recorded, lost, head>>

\* Reading the first tx nonce raises; _maybe_flush_bundle() logs it and goes on.
ReserveBatchRaises ==
    /\ bpc = "reserve"
    /\ txNonce = None
    /\ lost' = lost \union BatchSols
    /\ batch' = << >>
    /\ target' = 0
    /\ bpc' = "sweep"
    /\ UNCHANGED <<accountVars, arriving, buffer, toSend, builders, recorded, head>>

\* _send_to_chain(): the node takes the transaction.  Leaving the fan-out by an exception
\* waits for its threads, so an interrupt does not stop them ...
PublicAccepted(s) ==
    /\ bpc \in {"fan-out", "stopped"}
    /\ s \in toSend
    /\ tx[s] = "absent"
    /\ txn[s] >= chainNonce
    /\ tx' = [t \in Sols |-> IF t = s THEN "pooled"
                             ELSE IF tx[t] = "pooled" /\ txn[t] = txn[s] THEN "gone"
                             ELSE tx[t]]
    /\ toSend' = toSend \ {s}
    /\ UNCHANGED <<submitterVars, sweepVars, txn, chainNonce, foreign, arriving, buffer, batch,
                   target, builders, recorded, lost, head, bpc>>

\* ... or it does not: any error, the benign ones included, only goes to a log line.
PublicFails(s) ==
    /\ bpc \in {"fan-out", "stopped"}
    /\ s \in toSend
    /\ toSend' = toSend \ {s}
    /\ UNCHANGED <<accountVars, arriving, buffer, batch, target, builders, recorded, lost,
                   head, bpc>>

FanOutDone ==
    /\ bpc = "fan-out"
    /\ toSend = {}
    /\ bpc' = "record"
    /\ UNCHANGED <<accountVars, bundleVars, head>>

\* record_pending() for each of the batch, whatever became of its broadcast.
RecordNext ==
    /\ bpc = "record"
    /\ recorded < Len(batch)
    /\ RecordPending(batch[recorded + 1])
    /\ recorded' = recorded + 1
    /\ UNCHANGED <<txNonce, sweepVars, nodeVars, txn, arriving, buffer, batch, target, toSend,
                   builders, lost, head, bpc>>

RecordDone ==
    /\ bpc = "record"
    /\ recorded = Len(batch)
    /\ bpc' = "sweep"
    /\ batch' = << >>
    /\ target' = 0
    /\ recorded' = 0
    /\ UNCHANGED <<accountVars, arriving, buffer, toSend, builders, lost, head>>

\* Mutant: receipts are polled from a thread of their own.
PollReceiptsAside ==
    /\ \/ (SweepStart \/ SweepCount \/ SweepMiss \/ SweepEnd \/ SweepAssign) /\ UNCHANGED bpc
       \/ bpc = "sweep" /\ bpc' = "poll" /\ UNCHANGED accountVars
    /\ UNCHANGED <<bundleVars, head>>

\* poll_receipts(), in the same thread; then the next block.
PollReceipts ==
    /\ bpc = "sweep"
    /\ \/ (SweepStart \/ SweepCount \/ SweepMiss \/ SweepEnd) /\ UNCHANGED bpc
       \/ SweepAssign /\ bpc' = "poll"
       \/ pending = << >> /\ bpc' = "poll" /\ UNCHANGED accountVars
    /\ UNCHANGED <<bundleVars, head>>

\* The loop ends or Ctrl-C breaks it anywhere.
Interrupt ==
    /\ bpc # "stopped"
    /\ bpc' = "stopped"
    /\ sweepPc' = "idle"
    /\ pos' = 1
    /\ still' = << >>
    /\ UNCHANGED <<submitterVars, nodeVars, txn, confirmed, reverted, bundleVars, head>>

BlockLoop ==
    \/ \E b \in 0..head : b >= head - 1 /\ Flush(b)
    \/ ReserveBatch \/ ReserveBatchRaises
    \/ \E s \in Sols : PublicAccepted(s) \/ PublicFails(s)
    \/ FanOutDone \/ RecordNext \/ RecordDone \/ PollReceipts

-----------------------------------------------------------------------------
(* The chain.  A builder's bundle can land only in its target block, and   *)
(* only if its nonces are the account's next ones.                         *)

NewBlock ==
    /\ head < MaxHead
    /\ head' = head + 1
    /\ builders' = {b \in builders : b.block > head + 1}
    /\ UNCHANGED <<accountVars, arriving, buffer, batch, target, toSend, recorded, lost, bpc>>

BundleLands(b) ==
    /\ b \in builders
    /\ b.block = head + 1
    /\ head < MaxHead
    /\ txn[b.txs[1]] = chainNonce
    /\ \E result \in [Entries(b.txs) -> {"ok", "reverted"}] :
          tx' = [s \in Sols |-> IF s \in Entries(b.txs) THEN result[s] ELSE tx[s]]
    /\ chainNonce' = chainNonce + Len(b.txs)
    /\ head' = head + 1
    /\ builders' = {x \in builders : x.block > head + 1}
    /\ UNCHANGED <<submitterVars, sweepVars, txn, foreign, arriving, buffer, batch, target,
                   toSend, recorded, lost, bpc>>

Next ==
    \/ \E s \in Sols : Buffer(s)
    \/ BlockLoop
    \/ Interrupt
    \/ NewBlock
    \/ \E b \in builders : BundleLands(b)
    \/ Node /\ UNCHANGED <<bundleVars, head, bpc>>

Spec == Init /\ [][Next]_vars

-----------------------------------------------------------------------------
(* Fairness.  The block loop goes on, since blocks keep coming and every   *)
(* request it makes has a timeout; the drain thread takes what is queued;  *)
(* the network mines the account's next transaction while it is pooled.    *)

Mine(s) == Include(s) /\ UNCHANGED <<bundleVars, head, bpc>>

FairSpec ==
    /\ Spec
    /\ WF_vars(BlockLoop)
    /\ WF_vars(NewBlock)
    /\ \A s \in Sols : WF_vars(Mine(s))

-----------------------------------------------------------------------------
(* Properties.                                                             *)

Signed == {s \in Sols : txn[s] # None}

\* Batches get runs of consecutive tx nonces that neither overlap nor leave a hole between
\* them (bundle.py:81-88, submit.py:229-236).
NoncesAreARun ==
    \A s \in Signed :
        /\ \A t \in Signed : s # t => txn[s] # txn[t]
        /\ txn[s] + 1 = txNonce \/ \E t \in Signed : txn[t] = txn[s] + 1

\* Whatever reaches the node is accounted for: a transaction of ours that was ever pooled or
\* mined is marked used or belongs to the batch being sent, unless its epoch was pruned or
\* the loop was interrupted (bundle.py:117-121, submit.py:222-227).
BroadcastIsMarked ==
    \A s \in Sols :
        tx[s] # "absent" => \/ AlreadyUsed(s)
                            \/ s \in BatchSols
                            \/ \E r \in Sols : txn[r] # None /\ EpochOf[r] >= EpochOf[s] + 2

\* With bundles the pending list and its sweeps belong to one thread, so an entry leaves the
\* list only when the sweep has looked at it (miner.py:173-175).
PendingNotLost ==
    [][\A i \in 1..Len(pending) :
            pending[i] \in Entries(pending') \/ (sweepPc = "assign" /\ i < pos)]_vars

\* The epoch of s is not that of a block mining_state() may just have read.
OtherEpoch(s) == \E b \in 0..head : b >= head - 1 /\ EpochAt(b) # EpochOf[s]

\* No solution is lost from the buffer by the step.
BufferKeeps ==
    \A s \in Entries(buffer) : \/ s \in Entries(buffer') \union Entries(batch')
                              \/ AlreadyUsed(s)
                              \/ OtherEpoch(s)

\* A buffered solution goes into a batch, or is dropped as submitted already or as of another
\* epoch, but never for want of room: what is beyond bundle.size waits for the next batch
\* (miner.py:213-219).
KeptUntilFlushed == [][BufferKeeps]_vars

\* ... and it does not stay in the buffer, unless the miner stops: every flush makes room for
\* what the one before left behind (miner.py:208-219).
BufferIsFlushed ==
    /\ KeptUntilFlushed
    /\ \A s \in Sols : s \in Entries(buffer) ~> s \notin Entries(buffer) \/ bpc = "stopped"

\* "dry_run: build & sign txs but never broadcast" (miner.example.toml:33, README.md:220).
DryRunNeverBroadcasts == DryRun => \A s \in Sols : tx[s] = "absent"

\* bundle.py:115-116: "Public-mempool broadcast is the safety net so a missed bundle doesn't
\* leave us with a stuck tx-nonce queue - the txs still get picked up by *some* block."
QueueNotStuck ==
    \A s \in Sols : tx[s] = "pooled" ~> tx[s] # "pooled" \/ bpc = "stopped"

-----------------------------------------------------------------------------
(* What a solution is promised (module Submission), and how it is kept.    *)

Fate(s) ==
    IF Resolved(s) THEN tx[s]
    ELSE IF s \in Signed THEN "signed"
    ELSE IF s \in arriving \union Entries(buffer) \union BatchSols THEN "waiting"
    ELSE "refused"

Promise == INSTANCE Submission WITH
    fate <- [s \in Sols |-> Fate(s)], nonce <- txn, repeats <- FALSE

\* The bundle path implements Submission, and with nonces that never repeat: a solution that
\* was dropped, lost or signed does not come back from the buffer, and bundles that land
\* and public transactions that are mined take the account's nonces in order, each once
\* (miner.py:211-227, bundle.py:73-163, submit.py:229-236).
KeepsPromise == Promise!Spec
=============================================================================
