------------------------------ MODULE Account ------------------------------
(***************************************************************************)
(* The state of a Submitter object (src/hashminer/submit.py) that its two  *)
(* clients share, the pool of submit() calls (module Submitter) and the    *)
(* bundle path (module BundleSubmitter), together with the node and the    *)
(* chain as far as the account's transactions see them.                    *)
(*                                                                         *)
(* A solution is a member of Sols; the mine() transaction signed for it is *)
(* identified with it, since submit() and send() sign at most one each.    *)
(* Two solutions may carry the same PoW nonce in the same epoch: the code  *)
(* guards against a nonce that is reported twice (submit.py:156, 179).     *)
(***************************************************************************)
EXTENDS Integers, FiniteSets, Sequences

CONSTANTS
    Sols,           \* the verified solutions of a run
    EpochOf,        \* VerifiedSolution.epoch
    PowOf,          \* VerifiedSolution.nonce, the PoW nonce
    MaxForeign      \* bound: transactions another wallet of this key may send

ASSUME AccountAssumption ==
    /\ IsFiniteSet(Sols)
    /\ EpochOf \in [Sols -> Nat]
    /\ MaxForeign \in Nat

VARIABLES
    txNonce,        \* Submitter._tx_nonce: the next tx nonce, None before the first sync
    used,           \* Submitter._used, as the set of its <<epoch, PoW nonce>> pairs
    pending,        \* Submitter._pending
    sent,           \* Submitter.sent
    confirmed,      \* Submitter.confirmed
    reverted,       \* Submitter.reverted
    sweepPc,        \* where the poll_receipts() call of the block loop stands
    pos,            \* its position in pending
    still,          \* its local list of entries to keep
    txn,            \* the tx nonce each solution's transaction was signed with
    tx,             \* what became of that transaction at the node
    chainNonce,     \* the account's nonce on chain
    foreign         \* how many transactions another wallet has sent

submitterVars == <<txNonce, used, pending, sent>>
sweepVars == <<confirmed, reverted, sweepPc, pos, still>>
nodeVars == <<tx, chainNonce, foreign>>
accountVars == <<submitterVars, sweepVars, nodeVars, txn>>

None == -1

TxStates == {"absent",      \* the node does not hold it
             "pooled",      \* in the mempool
             "ok",          \* mined with status 1
             "reverted",    \* mined with status 0
             "gone"}        \* replaced or evicted: never mined

AccountTypeOK ==
    /\ txNonce \in Nat \union {None}
    /\ used \subseteq Nat \X {PowOf[s] : s \in Sols}
    /\ pending \in Seq(Sols)
    /\ sent \in Nat
    /\ confirmed \in Nat
    /\ reverted \in Nat
    /\ sweepPc \in {"idle", "scan", "assign"}
    /\ pos \in Nat \ {0}
    /\ still \in Seq(Sols)
    /\ txn \in [Sols -> Nat \union {None}]
    /\ tx \in [Sols -> TxStates]
    /\ chainNonce \in Nat
    /\ foreign \in Nat

AccountInit ==
    /\ txNonce = None
    /\ used = {}
    /\ pending = << >>
    /\ sent = 0
    /\ confirmed = 0
    /\ reverted = 0
    /\ sweepPc = "idle"
    /\ pos = 1
    /\ still = << >>
    /\ txn = [s \in Sols |-> None]
    /\ tx = [s \in Sols |-> "absent"]
    /\ chainNonce = 0
    /\ foreign = 0

-----------------------------------------------------------------------------
(* Bookkeeping of solutions.                                               *)

Key(s) == <<EpochOf[s], PowOf[s]>>

AlreadyUsed(s) == Key(s) \in used

UsedIn(e) == {k \in used : k[1] = e}

EpochCount(e) == Cardinality(UsedIn(e))

\* Mutant: the arguments of _mark_used swapped.
MarkUsedSwapped(u, s) == u \union {<<PowOf[s], EpochOf[s]>>}

\* used after _mark_used: the key is added, then epochs before the previous one go.
MarkUsed(u, s) == {k \in u \union {Key(s)} : k[1] >= EpochOf[s] - 1}

\* Mutant: the bundle path records the hash and forgets to mark the nonce.
RecordUnmarked(s) ==
    /\ pending' = Append(pending, s)
    /\ sent' = sent + 1
    /\ UNCHANGED used

\* record_pending()
RecordPending(s) ==
    /\ pending' = Append(pending, s)
    /\ used' = MarkUsed(used, s)
    /\ sent' = sent + 1

Entries(seq) == {seq[i] : i \in 1..Len(seq)}

-----------------------------------------------------------------------------
(* The node.  Its mempool holds at most one transaction of the account per *)
(* nonce, and get_transaction_count(address, "pending") counts the mined   *)
(* ones and the unbroken run of pooled ones after them.                    *)

Pooled(n) == \E s \in Sols : tx[s] = "pooled" /\ txn[s] = n

IsPendingCount(n) ==
    /\ ~Pooled(n)
    /\ \A m \in chainNonce..(n - 1) : Pooled(m)

PendingCounts ==
    {n \in chainNonce..(chainNonce + Cardinality(Sols)) : IsPendingCount(n)}

\* Mutant: the counter is read from the node every time.
AlwaysSynced == PendingCounts

\* _next_tx_nonce() and reserve_tx_nonces(): the counter, read from the node if it is unset.
NextNonces == IF txNonce = None THEN PendingCounts ELSE {txNonce}

\* The next transaction of the account is mined, successfully or not (BlockCapReached,
\* a target that moved, an epoch that rolled).
Include(s) ==
    /\ tx[s] = "pooled"
    /\ txn[s] = chainNonce
    /\ \E result \in {"ok", "reverted"} : tx' = [tx EXCEPT ![s] = result]
    /\ chainNonce' = chainNonce + 1
    /\ UNCHANGED <<submitterVars, sweepVars, txn, foreign>>

\* The node drops a transaction from its mempool.
Evict(s) ==
    /\ tx[s] = "pooled"
    /\ tx' = [tx EXCEPT ![s] = "gone"]
    /\ UNCHANGED <<submitterVars, sweepVars, txn, chainNonce, foreign>>

\* Another wallet holding the same key has a transaction mined: the account nonce
\* moves under the submitter, and a pooled transaction with that nonce is superseded.
Foreign ==
    /\ foreign < MaxForeign
    /\ foreign' = foreign + 1
    /\ chainNonce' = chainNonce + 1
    /\ tx' = [s \in Sols |-> IF tx[s] = "pooled" /\ txn[s] = chainNonce
                                THEN "gone" ELSE tx[s]]
    /\ UNCHANGED <<submitterVars, sweepVars, txn>>

-----------------------------------------------------------------------------
(* poll_receipts(), run by the block loop without the lock.  The for loop  *)
(* walks the live list, so it sees entries appended while it runs; the     *)
(* assignment self._pending = still comes after it.                        *)

\* Mutant: a list of one entry is taken for an empty one.
SweepStartSkipsOne ==
    /\ sweepPc = "idle"
    /\ Len(pending) > 1
    /\ sweepPc' = "scan"
    /\ UNCHANGED <<submitterVars, nodeVars, txn, confirmed, reverted, pos, still>>

SweepStart ==
    /\ sweepPc = "idle"
    /\ pending # << >>
    /\ sweepPc' = "scan"
    /\ UNCHANGED <<submitterVars, nodeVars, txn, confirmed, reverted, pos, still>>

Resolved(s) == tx[s] \in {"ok", "reverted"}

\* The receipt of the entry is there and is counted.
SweepCount ==
    /\ sweepPc = "scan"
    /\ pos <= Len(pending)
    /\ Resolved(pending[pos])
    /\ IF tx[pending[pos]] = "ok"
          THEN confirmed' = confirmed + 1 /\ UNCHANGED reverted
          ELSE reverted' = reverted + 1 /\ UNCHANGED confirmed
    /\ pos' = pos + 1
    /\ UNCHANGED <<submitterVars, nodeVars, txn, sweepPc, still>>

\* No receipt yet, or the RPC failed: kept if younger than ten minutes, else dropped.
SweepMiss ==
    /\ sweepPc = "scan"
    /\ pos <= Len(pending)
    /\ still' \in {Append(still, pending[pos]), still}
    /\ pos' = pos + 1
    /\ UNCHANGED <<submitterVars, nodeVars, txn, sweepPc, confirmed, reverted>>

SweepEnd ==
    /\ sweepPc = "scan"
    /\ pos > Len(pending)
    /\ sweepPc' = "assign"
    /\ UNCHANGED <<submitterVars, nodeVars, txn, confirmed, reverted, pos, still>>

\* Mutant: the list of entries to keep is never assigned.
SweepForgotten ==
    /\ sweepPc = "assign"
    /\ sweepPc' = "idle"
    /\ pos' = 1
    /\ still' = << >>
    /\ UNCHANGED <<submitterVars, confirmed, reverted, nodeVars, txn>>

SweepAssign ==
    /\ sweepPc = "assign"
    /\ pending' = still
    /\ sweepPc' = "idle"
    /\ pos' = 1
    /\ still' = << >>
    /\ UNCHANGED <<txNonce, used, sent, confirmed, reverted, nodeVars, txn>>

Node == Foreign \/ \E s \in Sols : Include(s) \/ Evict(s)
=============================================================================
