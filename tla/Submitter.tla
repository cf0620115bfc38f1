----------------------------- MODULE Submitter -----------------------------
(***************************************************************************)
(* Submitter.submit() (src/hashminer/submit.py) as Miner runs it when      *)
(* bundles are off: Concurrency threads of a ThreadPoolExecutor take       *)
(* verified solutions and run submit() on them, while the block loop polls *)
(* receipts and, at the end, Miner.shutdown() closes the pool.             *)
(*                                                                         *)
(* A critical section under Submitter._lock is one action.  Between two of *)
(* them a call is at one of the places of Active: about to read the fees   *)
(* ("fees") or the gas ("gas"), done with that ("reserve"), about to send  *)
(* ("send"), told that its nonce is bad ("hiccup"), or accepted by the     *)
(* node and not yet recorded ("record").                                   *)
(***************************************************************************)
EXTENDS Account

CONSTANTS
    Concurrency,            \* Config.submit_concurrency
    MaxPendingPerEpoch      \* ProfitabilityConfig.max_pending_per_epoch

ASSUME SubmitterAssumption ==
    /\ Concurrency \in Nat \ {0}
    /\ MaxPendingPerEpoch \in Nat

VARIABLES
    pc,             \* where the submit() call of each solution stands, or its result
    dryRun,         \* Submitter.dry_run
    phase,          \* how far Miner.shutdown() has come
    cut             \* history: an interrupt abandoned a sweep of the block loop

vars == <<accountVars, pc, dryRun, phase, cut>>

Active == {"fees", "gas", "reserve", "send", "hiccup", "record"}

Results ==
    {"sent", "dry-run", "skipped", "duplicate", "epoch-cap", "failed",
     "resynced",    \* the send was refused and the tx nonce was read again
     "unsynced",    \* the send was refused and reading the tx nonce raised
     "raised",      \* the base fee or the first tx nonce could not be read; nothing reserved
     "cancelled"}   \* still queued when the pool was shut down

TypeOK ==
    /\ AccountTypeOK
    /\ pc \in [Sols -> {"queued"} \union Active \union Results]
    /\ dryRun \in BOOLEAN
    /\ phase \in {"running", "stopping", "draining", "final", "closed"}
    /\ cut \in BOOLEAN

Init ==
    /\ AccountInit
    /\ pc = [s \in Sols |-> "queued"]
    /\ dryRun \in BOOLEAN
    /\ phase = "running"
    /\ cut = FALSE

InFlight == {s \in Sols : pc[s] \in Active}

\* The solutions whose call has passed its critical section 3 and signed a transaction.
Reserved ==
    {s \in Sols : pc[s] \in {"send", "hiccup", "record", "sent", "dry-run", "failed",
                             "resynced", "unsynced"}}

Goto(s, place) == pc' = [pc EXCEPT ![s] = place]

control == <<dryRun, phase, cut>>

-----------------------------------------------------------------------------
(* submit(), by critical section.                                          *)

\* Mutant: one more than the cap is let through.
CapExceeded(s) == EpochCount(EpochOf[s]) > MaxPendingPerEpoch

CapReached(s) == EpochCount(EpochOf[s]) >= MaxPendingPerEpoch

\* 1) A free worker takes the solution and does the quick checks.
Check(s) ==
    /\ pc[s] = "queued"
    /\ phase \in {"running", "stopping"}
    /\ Cardinality(InFlight) < Concurrency
    /\ \/ AlreadyUsed(s) /\ Goto(s, "duplicate")
       \/ ~AlreadyUsed(s) /\ CapReached(s) /\ Goto(s, "epoch-cap")
       \/ ~AlreadyUsed(s) /\ ~CapReached(s) /\ Goto(s, "fees")
    /\ UNCHANGED <<accountVars, control>>

\* 2) Outside the lock.  _fees(): a price over a cap skips, an exception leaves submit().
Fees(s) ==
    /\ pc[s] = "fees"
    /\ \E place \in {"gas", "skipped", "raised"} : Goto(s, place)
    /\ UNCHANGED <<accountVars, control>>

\* Mutant: an estimate that fails starts the call anew.
GasRetried(s) ==
    /\ pc[s] = "gas"
    /\ \E place \in {"reserve", "fees"} : Goto(s, place)
    /\ UNCHANGED <<accountVars, control>>

\* _gas_limit(): an estimate that fails in any way skips.
GasLimit(s) ==
    /\ pc[s] = "gas"
    /\ \E place \in {"reserve", "skipped"} : Goto(s, place)
    /\ UNCHANGED <<accountVars, control>>

\* Mutant: the duplicate check is not made again.
AssumedNew(s) == TRUE

\* 3) Reserve a tx nonce and mark the solution used, if a peer has not in the meantime.
StillNew(s) == ~AlreadyUsed(s)

\* Mutant: the nonce is reserved before the check.
RecheckTooLate(s) ==
    /\ pc[s] = "reserve"
    /\ ~StillNew(s)
    /\ \E n \in NextNonces : txNonce' = n + 1
    /\ Goto(s, "duplicate")
    /\ UNCHANGED <<used, pending, sent, sweepVars, nodeVars, txn, control>>

Recheck(s) ==
    /\ pc[s] = "reserve"
    /\ ~StillNew(s)
    /\ Goto(s, "duplicate")
    /\ UNCHANGED <<accountVars, control>>

ReserveDry(s) ==
    /\ pc[s] = "reserve"
    /\ StillNew(s)
    /\ dryRun
    /\ txn' = [txn EXCEPT ![s] = IF txNonce = None THEN 0 ELSE txNonce]
    /\ used' = MarkUsed(used, s)
    /\ Goto(s, "dry-run")
    /\ UNCHANGED <<txNonce, pending, sent, sweepVars, nodeVars, control>>

Reserve(s) ==
    /\ pc[s] = "reserve"
    /\ StillNew(s)
    /\ ~dryRun
    /\ \E n \in NextNonces :
          /\ txn' = [txn EXCEPT ![s] = n]
          /\ txNonce' = n + 1
    /\ used' = MarkUsed(used, s)
    /\ Goto(s, "send")
    /\ UNCHANGED <<pending, sent, sweepVars, nodeVars, control>>

ReserveRaises(s) ==
    /\ pc[s] = "reserve"
    /\ StillNew(s)
    /\ ~dryRun
    /\ txNonce = None
    /\ Goto(s, "raised")
    /\ UNCHANGED <<accountVars, control>>

\* 4) Sign and send.  The node takes the transaction, replacing one with its nonce.
Accept(s) ==
    /\ pc[s] = "send"
    /\ txn[s] >= chainNonce
    /\ tx' = [t \in Sols |-> IF t = s THEN "pooled"
                             ELSE IF tx[t] = "pooled" /\ txn[t] = txn[s] THEN "gone"
                             ELSE tx[t]]
    /\ UNCHANGED <<submitterVars, sweepVars, txn, chainNonce, foreign, control>>

SendAccepted(s) == Accept(s) /\ Goto(s, "record")

\* The node has the transaction and its answer is lost: the call counts an error.
SendTimesOut(s) == Accept(s) /\ Goto(s, "failed")

SendFails(s) ==
    /\ pc[s] = "send"
    /\ Goto(s, "failed")
    /\ UNCHANGED <<accountVars, control>>

\* "nonce too low" or "replacement transaction underpriced".
SendRefused(s) ==
    /\ pc[s] = "send"
    /\ txn[s] < chainNonce \/ Pooled(txn[s])
    /\ Goto(s, "hiccup")
    /\ UNCHANGED <<accountVars, control>>

\* _sync_tx_nonce() in the handler of the refused send.
Resync(s) ==
    /\ pc[s] = "hiccup"
    /\ txNonce' \in PendingCounts
    /\ Goto(s, "resynced")
    /\ UNCHANGED <<used, pending, sent, sweepVars, nodeVars, txn, control>>

ResyncRaises(s) ==
    /\ pc[s] = "hiccup"
    /\ Goto(s, "unsynced")
    /\ UNCHANGED <<accountVars, control>>

Record(s) ==
    /\ pc[s] = "record"
    /\ pending' = Append(pending, s)
    /\ sent' = sent + 1
    /\ Goto(s, "sent")
    /\ UNCHANGED <<txNonce, used, sweepVars, nodeVars, txn, control>>

Proceed(s) ==
    \/ Fees(s) \/ GasLimit(s) \/ Recheck(s) \/ ReserveDry(s) \/ Reserve(s) \/ ReserveRaises(s)
    \/ SendAccepted(s) \/ SendTimesOut(s) \/ SendFails(s) \/ SendRefused(s)
    \/ Resync(s) \/ ResyncRaises(s) \/ Record(s)

-----------------------------------------------------------------------------
(* The block loop and Miner.shutdown().                                    *)

BlockLoopSweep ==
    /\ phase \in {"running", "final"}
    /\ \/ SweepStart /\ phase = "running"
       \/ SweepCount
       \/ SweepMiss
       \/ SweepEnd
       \/ SweepAssign
    /\ UNCHANGED <<pc, control>>

\* The loop ends, or Ctrl-C breaks it anywhere, a sweep included; _stop is set.
Interrupt ==
    /\ phase = "running"
    /\ phase' = "stopping"
    /\ cut' = (cut \/ sweepPc # "idle")
    /\ sweepPc' = "idle"
    /\ pos' = 1
    /\ still' = << >>
    /\ UNCHANGED <<submitterVars, nodeVars, txn, confirmed, reverted, pc, dryRun>>

\* pool.shutdown(wait=True, cancel_futures=True) drops what no worker has taken ...
CancelQueued ==
    /\ phase = "stopping"
    /\ phase' = "draining"
    /\ pc' = [s \in Sols |-> IF pc[s] = "queued" THEN "cancelled" ELSE pc[s]]
    /\ UNCHANGED <<accountVars, dryRun, cut>>

\* Mutant: the miner does not close while receipts are outstanding.
FinalSweepWaits ==
    /\ phase = "draining"
    /\ InFlight = {}
    /\ pending = << >>
    /\ phase' = "closed"
    /\ UNCHANGED <<accountVars, pc, dryRun, cut>>

\* ... and waits for the rest; then comes the last poll_receipts().
FinalSweep ==
    /\ phase = "draining"
    /\ InFlight = {}
    /\ \/ SweepStart /\ phase' = "final"
       \/ pending = << >> /\ phase' = "closed" /\ UNCHANGED accountVars
    /\ UNCHANGED <<pc, dryRun, cut>>

Close ==
    /\ phase = "final"
    /\ sweepPc = "idle"
    /\ phase' = "closed"
    /\ UNCHANGED <<accountVars, pc, dryRun, cut>>

Shutdown == CancelQueued \/ FinalSweep \/ Close

Next ==
    \/ \E s \in Sols : Check(s) \/ Proceed(s)
    \/ BlockLoopSweep
    \/ Interrupt
    \/ Shutdown
    \/ Node /\ UNCHANGED <<pc, control>>

Spec == Init /\ [][Next]_vars

-----------------------------------------------------------------------------
(* Fairness.  A worker that holds a call goes on with it: every RPC it     *)
(* makes returns or times out (HTTPProvider's request timeout).  A free    *)
(* worker takes the next call.  The block loop keeps sweeping, and does    *)
(* not fail to read a receipt that is there for ever.  Nobody has to       *)
(* interrupt the miner, and the chain has to do nothing.                   *)

SweepStep == BlockLoopSweep

CountStep == SweepCount /\ UNCHANGED <<pc, control>>

FairSpec ==
    /\ Spec
    /\ \A s \in Sols : WF_vars(Check(s)) /\ WF_vars(Proceed(s))
    /\ WF_vars(SweepStep)
    /\ SF_vars(CountStep)
    /\ WF_vars(Shutdown)

-----------------------------------------------------------------------------
(* Properties.                                                             *)

\* The same PoW nonce of the same epoch is never signed twice by two calls, although the
\* first check and the marking are two critical sections with slow reads between them
\* (submit.py:151-185).  The one way round it is pruning: _mark_used forgets an epoch when
\* a solution two epochs later is marked.
NoDoubleSubmit ==
    \A s, t \in Reserved :
        s # t /\ Key(s) = Key(t) => \E r \in Reserved : EpochOf[r] >= EpochOf[s] + 2

\* max_pending_per_epoch is checked before the slow reads and not again after them
\* (submit.py:158, 178-185), so the calls in flight overshoot it, by at most one less
\* than there are workers.
EpochCapBound ==
    \A e \in {EpochOf[s] : s \in Sols} :
        EpochCount(e) <= MaxPendingPerEpoch + Concurrency - 1

\* Until a refused send makes a call read the nonce again (submit.py:208), no two
\* transactions are signed with the same tx nonce, however the calls interleave.
NonceUnique ==
    ~dryRun /\ (\A s \in Sols : pc[s] # "resynced") =>
        \A s, t \in Reserved : s # t => txn[s] # txn[t]

\* The parallel sends leave no hole in the account's nonces for long: while nothing was
\* refused, evicted or lost and no other wallet interferes, each nonce that was handed out
\* and is not mined is in the mempool or held by a call that is about to send it.
NoGap ==
    ~dryRun /\ foreign = 0 /\ txNonce # None
    /\ (\A s \in Sols : tx[s] # "gone" /\ pc[s] \notin {"hiccup", "resynced", "unsynced"}
                        /\ ~(pc[s] = "failed" /\ tx[s] = "absent")) =>
        \A n \in chainNonce..(txNonce - 1) :
            \E s \in Sols : txn[s] = n /\ (tx[s] = "pooled" \/ pc[s] = "send")

\* The calls that have returned and whose transaction the node mined, with that status.
MinedAs(status) == {s \in Sols : pc[s] = "sent" /\ tx[s] = status}

\* The statistics never claim more than happened: each confirmation and each revert that
\* poll_receipts counts (submit.py:265-273) is of a transaction of its own that the node
\* mined so.  If an interrupt cut a sweep short, the final one may count what that one had
\* counted (miner.py:128-133, 256-259), once more and no oftener.
CountsAreReal ==
    LET times == IF cut THEN 2 ELSE 1
    IN  /\ confirmed <= times * Cardinality(MinedAs("ok"))
        /\ reverted <= times * Cardinality(MinedAs("reverted"))

\* Every solution handed to the pool gets a result, whatever fails (submit.py:149-220,
\* miner.py:202-206).
EverySolutionDecided == \A s \in Sols : pc[s] = "queued" ~> pc[s] \in Results

\* A tracked transaction that is mined leaves the pending list, counted or given up on,
\* or the miner has finished (submit.py:250-275, miner.py:256-259).
MinedLeavesPending ==
    \A s \in Sols :
        s \in Entries(pending) /\ Resolved(s) ~> s \notin Entries(pending) \/ phase = "closed"

\* A shutdown that was begun ends, with calls in flight and receipts outstanding
\* (miner.py:242-267).
ShutdownEnds == phase = "stopping" ~> phase = "closed"

\* What the module's docstring promises (submit.py:4-6, "The submitter is thread-safe: a
\* short lock guards the tx-nonce counter and the used-set / pending list"): an entry
\* leaves the pending list only when the sweep has looked at it.
PendingNotLost ==
    [][\A i \in 1..Len(pending) :
            pending[i] \in Entries(pending') \/ (sweepPc = "assign" /\ i < pos)]_vars

-----------------------------------------------------------------------------
(* What a solution is promised (module Submission), and how it is kept.    *)

Fate(s) ==
    IF Resolved(s) THEN tx[s]
    ELSE IF s \in Reserved THEN "signed"
    ELSE IF pc[s] \in Results THEN "refused"
    ELSE "waiting"

\* A dry run does not count its nonces up.
Repeats == dryRun \/ \E s \in Sols : pc[s] = "resynced"

Promise == INSTANCE Submission WITH
    fate <- [s \in Sols |-> Fate(s)], nonce <- txn, repeats <- Repeats

\* The pool of submit() calls implements Submission: whatever the calls, the node and the
\* shutdown do, one solution has one fate, a proof is signed once and mined in nonce order
\* (submit.py:149-220, miner.py:242-267).
KeepsPromise == Promise!Spec
=============================================================================
