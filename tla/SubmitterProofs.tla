-------------------------- MODULE SubmitterProofs --------------------------
(* Theorems about Submitter for every set of solutions, every number of    *)
(* workers and every cap, with the proofs TLAPS checks.                    *)
EXTENDS Submitter, FiniteSetTheorems, SequenceTheorems, TLAPS

-----------------------------------------------------------------------------
(* Facts about the operators.                                              *)

\* _mark_used keeps the used-set a set of keys.
LEMMA MarkUsedType ==
    ASSUME NEW s \in Sols, NEW u \in SUBSET (Nat \X {PowOf[t] : t \in Sols})
    PROVE  MarkUsed(u, s) \subseteq Nat \X {PowOf[t] : t \in Sols}
BY AccountAssumption DEF MarkUsed, Key

\* A count the node answers is a nonce from the account's own on.
LEMMA PendingCountsType ==
    ASSUME chainNonce \in Nat
    PROVE  PendingCounts \subseteq {n \in Nat : n >= chainNonce}
<1>1. Cardinality(Sols) \in Nat
  BY AccountAssumption, FS_CardinalityType
<1>. QED  BY <1>1 DEF PendingCounts

LEMMA EmptyType == << >> \in Seq(Sols)
BY EmptySeq

-----------------------------------------------------------------------------
(* Type correctness.                                                       *)

LEMMA TypeOKInit == Init => TypeOK
<1>1. AccountInit => AccountTypeOK
  BY EmptyType DEF AccountInit, AccountTypeOK, TxStates
<1>. QED  BY <1>1 DEF Init, TypeOK

LEMMA TypeOKNext == TypeOK /\ [Next]_vars => TypeOK'
<1>. SUFFICES ASSUME TypeOK, [Next]_vars PROVE TypeOK'
  OBVIOUS
<1>. USE DEF TypeOK, AccountTypeOK, submitterVars, sweepVars, nodeVars, control
<1>1. ASSUME NEW s \in Sols, Check(s) PROVE TypeOK'
  <2>1. PICK place \in {"duplicate", "epoch-cap", "fees"} : Goto(s, place)
    BY <1>1 DEF Check
  <2>2. pc' \in [Sols -> {"queued"} \union Active \union Results]
    BY <2>1 DEF Goto, Active, Results
  <2>. QED  BY <1>1, <2>2 DEF Check, accountVars
<1>2. ASSUME NEW s \in Sols, Proceed(s) PROVE TypeOK'
  <2>1. CASE Fees(s) \/ GasLimit(s) \/ Recheck(s) \/ ReserveRaises(s)
    <3>1. UNCHANGED <<accountVars, control>>
      BY <2>1 DEF Fees, GasLimit, Recheck, ReserveRaises
    <3>2. PICK place \in Active \union Results : Goto(s, place)
      BY <2>1 DEF Fees, GasLimit, Recheck, ReserveRaises, Active, Results
    <3>3. pc' \in [Sols -> {"queued"} \union Active \union Results]
      BY <3>2 DEF Goto
    <3>. QED  BY <3>1, <3>3 DEF accountVars
  <2>2. CASE ReserveDry(s)
    BY <2>2, MarkUsedType DEF ReserveDry, Goto, Active, Results, None
  <2>3. CASE Reserve(s)
    <3>1. \A n \in NextNonces : n \in Nat
      BY PendingCountsType DEF NextNonces
    <3>2. txNonce' \in Nat \union {None} /\ txn' \in [Sols -> Nat \union {None}]
      BY <2>3, <3>1 DEF Reserve
    <3>. QED  BY <2>3, <3>2, MarkUsedType DEF Reserve, Goto, Active, Results
  <2>4. CASE SendAccepted(s) \/ SendTimesOut(s)
    BY <2>4 DEF SendAccepted, SendTimesOut, Accept, Goto, Active, Results, TxStates
  <2>5. CASE SendFails(s) \/ SendRefused(s) \/ ResyncRaises(s)
    BY <2>5 DEF SendFails, SendRefused, ResyncRaises, Goto, Active, Results, accountVars
  <2>6. CASE Resync(s)
    BY <2>6, PendingCountsType DEF Resync, Goto, Active, Results
  <2>7. CASE Record(s)
    BY <2>7 DEF Record, Goto, Active, Results
  <2>. QED  BY <1>2, <2>1, <2>2, <2>3, <2>4, <2>5, <2>6, <2>7 DEF Proceed
<1>3. ASSUME BlockLoopSweep PROVE TypeOK'
  <2>1. CASE SweepStart
    BY <1>3, <2>1 DEF BlockLoopSweep, SweepStart
  <2>4. CASE SweepEnd
    BY <1>3, <2>4 DEF BlockLoopSweep, SweepEnd
  <2>5. CASE SweepAssign
    BY <1>3, <2>5, EmptyType DEF BlockLoopSweep, SweepAssign
  <2>2. CASE SweepCount
    <3>1. confirmed' \in Nat /\ reverted' \in Nat /\ pos' \in Nat
      BY <2>2 DEF SweepCount
    <3>. QED  BY <1>3, <2>2, <3>1 DEF BlockLoopSweep, SweepCount
  <2>3. CASE SweepMiss
    <3>1. pos \in 1..Len(pending)
      BY <2>3, LenProperties DEF SweepMiss
    <3>2. pending[pos] \in Sols
      BY <3>1, ElementOfSeq
    <3>3. Append(still, pending[pos]) \in Seq(Sols)
      BY <3>2, AppendProperties
    <3>4. still' \in Seq(Sols)
      BY <2>3, <3>3 DEF SweepMiss
    <3>5. pos' \in Nat \ {0}
      BY <2>3 DEF SweepMiss
    <3>. QED  BY <1>3, <2>3, <3>4, <3>5 DEF BlockLoopSweep, SweepMiss
  <2>. QED  BY <1>3, <2>1, <2>2, <2>3, <2>4, <2>5 DEF BlockLoopSweep
<1>4. ASSUME Interrupt PROVE TypeOK'
  BY <1>4, EmptyType DEF Interrupt
<1>5. ASSUME Shutdown PROVE TypeOK'
  <2>1. CASE CancelQueued
    BY <2>1 DEF CancelQueued, Results, accountVars
  <2>2. CASE FinalSweep
    BY <2>2, EmptyType DEF FinalSweep, SweepStart, accountVars
  <2>3. CASE Close
    BY <2>3 DEF Close, accountVars
  <2>. QED  BY <1>5, <2>1, <2>2, <2>3 DEF Shutdown
<1>6. ASSUME Node /\ UNCHANGED <<pc, control>> PROVE TypeOK'
  <2>1. ASSUME NEW s \in Sols, Include(s) PROVE TypeOK'
    BY <1>6, <2>1 DEF Include, TxStates
  <2>2. ASSUME NEW s \in Sols, Evict(s) PROVE TypeOK'
    BY <1>6, <2>2 DEF Evict, TxStates
  <2>3. CASE Foreign
    BY <1>6, <2>3 DEF Foreign, TxStates
  <2>. QED  BY <1>6, <2>1, <2>2, <2>3 DEF Node
<1>7. CASE UNCHANGED vars
  BY <1>7 DEF vars, accountVars
<1>. QED  BY <1>1, <1>2, <1>3, <1>4, <1>5, <1>6, <1>7 DEF Next

\* Every variable keeps the type of the field or local it stands for.
THEOREM TypeCorrect == Spec => []TypeOK
BY TypeOKInit, TypeOKNext, PTL DEF Spec
-----------------------------------------------------------------------------
(* No solution is signed twice.                                            *)

\* What any step does to the used-set and to the calls past critical section 3.
LEMMA ReservedStep ==
    ASSUME TypeOK, [Next]_vars
    PROVE  \/ Reserved' = Reserved /\ used' = used
           \/ \E s \in Sols : /\ Key(s) \notin used
                              /\ Reserved' = Reserved \union {s}
                              /\ used' = MarkUsed(used, s)
<1>. USE DEF TypeOK, Reserved, submitterVars, control, Goto
<1>1. ASSUME NEW s \in Sols, Check(s) PROVE Reserved' = Reserved /\ used' = used
  BY <1>1 DEF Check, accountVars
<1>2. ASSUME NEW s \in Sols, Reserve(s) \/ ReserveDry(s)
      PROVE  /\ Key(s) \notin used
             /\ Reserved' = Reserved \union {s}
             /\ used' = MarkUsed(used, s)
  BY <1>2 DEF Reserve, ReserveDry, StillNew, AlreadyUsed
<1>3. ASSUME NEW s \in Sols, Proceed(s), ~Reserve(s), ~ReserveDry(s)
      PROVE  Reserved' = Reserved /\ used' = used
  <2>1. CASE Fees(s) \/ GasLimit(s) \/ Recheck(s) \/ ReserveRaises(s)
    BY <2>1 DEF Fees, GasLimit, Recheck, ReserveRaises, accountVars
  <2>2. CASE SendAccepted(s) \/ SendTimesOut(s)
    BY <2>2 DEF SendAccepted, SendTimesOut, Accept
  <2>3. CASE SendFails(s) \/ SendRefused(s) \/ ResyncRaises(s)
    BY <2>3 DEF SendFails, SendRefused, ResyncRaises, accountVars
  <2>4. CASE Resync(s) \/ Record(s)
    BY <2>4 DEF Resync, Record
  <2>. QED  BY <1>3, <2>1, <2>2, <2>3, <2>4 DEF Proceed
<1>4. CASE BlockLoopSweep
  BY <1>4 DEF BlockLoopSweep, SweepStart, SweepCount, SweepMiss, SweepEnd, SweepAssign
<1>5. CASE Interrupt
  BY <1>5 DEF Interrupt
<1>6. CASE Shutdown
  BY <1>6 DEF Shutdown, CancelQueued, FinalSweep, Close, SweepStart, accountVars
<1>7. CASE Node /\ UNCHANGED <<pc, control>>
  BY <1>7 DEF Node, Include, Evict, Foreign
<1>8. CASE UNCHANGED vars
  BY <1>8 DEF vars, accountVars
<1>. QED  BY <1>1, <1>2, <1>3, <1>4, <1>5, <1>6, <1>7, <1>8 DEF Next

\* The strengthening: a signed solution is remembered until its epoch is pruned.
Remembered ==
    \A s \in Reserved :
        Key(s) \in used \/ \E r \in Reserved : EpochOf[r] >= EpochOf[s] + 2

LEMMA RememberedInit == Init => Remembered /\ NoDoubleSubmit
BY DEF Init, Remembered, NoDoubleSubmit, Reserved

LEMMA RememberedNext ==
    TypeOK /\ Remembered /\ NoDoubleSubmit /\ [Next]_vars => (Remembered /\ NoDoubleSubmit)'
<1>. SUFFICES ASSUME TypeOK, Remembered, NoDoubleSubmit, [Next]_vars
              PROVE  (Remembered /\ NoDoubleSubmit)'
  OBVIOUS
<1>. USE AccountAssumption DEF Key
<1>1. CASE Reserved' = Reserved /\ used' = used
  BY <1>1 DEF Remembered, NoDoubleSubmit
<1>2. ASSUME NEW s \in Sols, Key(s) \notin used, Reserved' = Reserved \union {s},
             used' = MarkUsed(used, s)
      PROVE  (Remembered /\ NoDoubleSubmit)'
  <2>1. Key(s) \in used'
    BY <1>2 DEF MarkUsed
  <2>2. ASSUME NEW t \in Reserved
        PROVE  Key(t) \in used' \/ \E r \in Reserved' : EpochOf[r] >= EpochOf[t] + 2
    <3>1. t \in Sols
      BY DEF Reserved
    <3>2. CASE Key(t) \in used /\ EpochOf[t] >= EpochOf[s] - 1
      BY <1>2, <3>1, <3>2 DEF MarkUsed
    <3>3. CASE EpochOf[s] >= EpochOf[t] + 2
      BY <1>2, <3>3
    <3>4. CASE Key(t) \notin used
      BY <1>2, <3>4 DEF Remembered
    <3>. QED  BY <3>1, <3>2, <3>3, <3>4
  <2>3. Remembered'
    BY <1>2, <2>1, <2>2 DEF Remembered
  <2>4. ASSUME NEW t \in Reserved, Key(t) = Key(s)
        PROVE  \E r \in Reserved' : EpochOf[r] >= EpochOf[s] + 2
    <3>1. t \in Sols
      BY DEF Reserved
    <3>2. PICK r \in Reserved : EpochOf[r] >= EpochOf[t] + 2
      BY <1>2, <2>4 DEF Remembered
    <3>. QED  BY <1>2, <2>4, <3>1, <3>2
  <2>5. NoDoubleSubmit'
    <3>. SUFFICES ASSUME NEW x \in Reserved', NEW y \in Reserved', x # y, Key(x) = Key(y)
                  PROVE  \E r \in Reserved' : EpochOf[r] >= EpochOf[x] + 2
      BY DEF NoDoubleSubmit
    <3>1. CASE x \in Reserved /\ y \in Reserved
      BY <1>2, <3>1 DEF NoDoubleSubmit
    <3>2. CASE x = s \/ y = s
      BY <1>2, <2>4, <3>2
    <3>. QED  BY <1>2, <3>1, <3>2
  <2>. QED  BY <2>3, <2>5
<1>. QED  BY <1>1, <1>2, ReservedStep

\* No PoW nonce of an epoch is signed by two calls before its epoch is pruned, for every
\* interleaving of any number of workers (submit.py:149-188).
THEOREM NoDoubleSubmitCorrect == Spec => []NoDoubleSubmit
<1>. USE TypeOKInit, TypeOKNext, RememberedInit, RememberedNext
<1>. QED  BY PTL DEF Spec

-----------------------------------------------------------------------------
(* No tx nonce is signed twice.                                            *)

NoResync == ~dryRun /\ \A s \in Sols : pc[s] # "resynced"

\* The strengthening: every nonce that was handed out is below the counter.
NonceBelow ==
    NoResync => \A s \in Reserved : txNonce # None /\ txn[s] \in Nat /\ txn[s] < txNonce

\* What a step that is not Reserve does to the counter and the nonces handed out.
LEMMA NonceStep ==
    ASSUME TypeOK, [Next]_vars
    PROVE  \/ ~NoResync'
           \/ /\ NoResync
              /\ \/ txNonce' = txNonce /\ txn' = txn /\ Reserved' = Reserved
                 \/ \E s \in Sols : Reserve(s)
<1>. USE DEF TypeOK, NoResync, Reserved, submitterVars, control, Goto
<1>1. ASSUME NEW s \in Sols, Check(s)
      PROVE  /\ NoResync' => NoResync
             /\ txNonce' = txNonce /\ txn' = txn /\ Reserved' = Reserved
  BY <1>1 DEF Check, accountVars
<1>2. ASSUME NEW s \in Sols, ReserveDry(s) PROVE ~NoResync'
  BY <1>2 DEF ReserveDry
<1>3. ASSUME NEW s \in Sols, Resync(s) PROVE ~NoResync'
  BY <1>3 DEF Resync
<1>4. ASSUME NEW s \in Sols, Reserve(s) PROVE NoResync' => NoResync
  BY <1>4 DEF Reserve
<1>5. ASSUME NEW s \in Sols, Proceed(s), ~Reserve(s), ~ReserveDry(s), ~Resync(s)
      PROVE  /\ NoResync' => NoResync
             /\ txNonce' = txNonce /\ txn' = txn /\ Reserved' = Reserved
  <2>1. CASE Fees(s) \/ GasLimit(s) \/ Recheck(s) \/ ReserveRaises(s)
    BY <2>1 DEF Fees, GasLimit, Recheck, ReserveRaises, accountVars
  <2>2. CASE SendAccepted(s) \/ SendTimesOut(s)
    BY <2>2 DEF SendAccepted, SendTimesOut, Accept
  <2>3. CASE SendFails(s) \/ SendRefused(s) \/ ResyncRaises(s)
    BY <2>3 DEF SendFails, SendRefused, ResyncRaises, accountVars
  <2>4. CASE Record(s)
    BY <2>4 DEF Record
  <2>. QED  BY <1>5, <2>1, <2>2, <2>3, <2>4 DEF Proceed
<1>6. CASE BlockLoopSweep
  BY <1>6 DEF BlockLoopSweep, SweepStart, SweepCount, SweepMiss, SweepEnd, SweepAssign
<1>7. CASE Interrupt
  BY <1>7 DEF Interrupt
<1>8. CASE Shutdown
  BY <1>8 DEF Shutdown, CancelQueued, FinalSweep, Close, SweepStart, accountVars
<1>9. CASE Node /\ UNCHANGED <<pc, control>>
  BY <1>9 DEF Node, Include, Evict, Foreign
<1>10. CASE UNCHANGED vars
  BY <1>10 DEF vars, accountVars
<1>. QED  BY <1>1, <1>2, <1>3, <1>4, <1>5, <1>6, <1>7, <1>8, <1>9, <1>10 DEF Next

LEMMA NonceInit == Init => NonceBelow /\ NonceUnique
BY DEF Init, NonceBelow, NonceUnique, Reserved

LEMMA NonceNext ==
    TypeOK /\ NonceBelow /\ NonceUnique /\ [Next]_vars => (NonceBelow /\ NonceUnique)'
<1>. SUFFICES ASSUME TypeOK, NonceBelow, NonceUnique, [Next]_vars
              PROVE  (NonceBelow /\ NonceUnique)'
  OBVIOUS
<1>1. CASE ~NoResync'
  BY <1>1 DEF NonceBelow, NonceUnique, NoResync
<1>2. CASE NoResync /\ txNonce' = txNonce /\ txn' = txn /\ Reserved' = Reserved
  BY <1>2 DEF NonceBelow, NonceUnique, NoResync
<1>3. ASSUME NoResync, NEW s \in Sols, Reserve(s) PROVE (NonceBelow /\ NonceUnique)'
  <2>1. PICK n \in NextNonces :
           txn' = [txn EXCEPT ![s] = n] /\ txNonce' = n + 1
    BY <1>3 DEF Reserve
  <2>2. n \in Nat /\ (txNonce # None => n = txNonce)
    BY <2>1, PendingCountsType DEF TypeOK, AccountTypeOK, NextNonces
  <2>3. Reserved' = Reserved \union {s} /\ s \notin Reserved
    BY <1>3 DEF Reserve, Reserved, Goto, TypeOK
  <2>4. /\ txn'[s] = n
        /\ \A t \in Reserved : t # s /\ t \in Sols /\ txn'[t] = txn[t] /\ txn[t] \in Nat /\ txn[t] < n
    BY <1>3, <2>1, <2>2, <2>3 DEF TypeOK, AccountTypeOK, NonceBelow, Reserved
  <2>5. NonceBelow'
    BY <2>1, <2>2, <2>3, <2>4 DEF NonceBelow, None
  <2>6. NonceUnique'
    <3>. SUFFICES ASSUME NEW x \in Reserved', NEW y \in Reserved', x # y
                  PROVE  txn'[x] # txn'[y]
      BY DEF NonceUnique
    <3>1. CASE x \in Reserved /\ y \in Reserved
      BY <1>3, <2>4, <3>1 DEF NonceUnique, NoResync
    <3>2. CASE x = s \/ y = s
      BY <2>2, <2>3, <2>4, <3>2
    <3>. QED  BY <2>3, <3>1, <3>2
  <2>. QED  BY <2>5, <2>6
<1>. QED  BY <1>1, <1>2, <1>3, NonceStep

\* No two calls sign the same tx nonce before some call has had to read it again, for
\* every interleaving of any number of workers (submit.py:178-185).
THEOREM NonceUniqueCorrect == Spec => []NonceUnique
<1>. USE TypeOKInit, TypeOKNext, NonceInit, NonceNext
<1>. QED  BY PTL DEF Spec

-----------------------------------------------------------------------------
(* The cap of an epoch and its overshoot.                                  *)

\* The calls that have passed the cap check and not yet marked their solution.
Waiting == {s \in Sols : pc[s] \in {"fees", "gas", "reserve"}}

WaitingIn(e) == {s \in Waiting : EpochOf[s] = e}

\* The strengthening: there is a worker for every call in flight, and what is marked in an
\* epoch and what is still to be marked there stay together below the bound.
CapInv ==
    /\ IsFiniteSet(used)
    /\ Cardinality(InFlight) <= Concurrency
    /\ \A e \in Nat : EpochCount(e) + Cardinality(WaitingIn(e))
                        <= MaxPendingPerEpoch + Concurrency - 1

\* What any step does to the used-set and to the calls in flight.
LEMMA CapStep ==
    ASSUME TypeOK, [Next]_vars
    PROVE  \/ used' = used /\ InFlight' \subseteq InFlight /\ Waiting' \subseteq Waiting
           \/ \E s \in Sols : /\ Cardinality(InFlight) < Concurrency
                              /\ ~CapReached(s)
                              /\ used' = used
                              /\ InFlight' = InFlight \union {s}
                              /\ Waiting' = Waiting \union {s}
           \/ \E s \in Waiting : /\ used' \subseteq used \union {Key(s)}
                                 /\ InFlight' \subseteq InFlight
                                 /\ Waiting' = Waiting \ {s}
<1>. USE DEF TypeOK, InFlight, Waiting, Active, submitterVars, control, Goto
<1>1. ASSUME NEW s \in Sols, Check(s)
      PROVE  \/ used' = used /\ InFlight' \subseteq InFlight /\ Waiting' \subseteq Waiting
             \/ /\ Cardinality(InFlight) < Concurrency
                /\ ~CapReached(s)
                /\ used' = used
                /\ InFlight' = InFlight \union {s}
                /\ Waiting' = Waiting \union {s}
  <2>1. used' = used /\ pc[s] = "queued"
    BY <1>1 DEF Check, accountVars
  <2>2. CASE Goto(s, "duplicate") \/ Goto(s, "epoch-cap")
    <3>2. \A t \in Sols : pc'[t] = IF t = s THEN pc'[s] ELSE pc[t]
      BY <2>2
    <3>3. pc'[s] \notin Active /\ pc[s] \notin Active
      BY <2>1, <2>2
    <3>1. InFlight' = InFlight /\ Waiting' = Waiting
      BY <3>2, <3>3
    <3>. QED  BY <2>1, <3>1
  <2>3. CASE ~CapReached(s) /\ Goto(s, "fees")
    <3>1. InFlight' = InFlight \union {s} /\ Waiting' = Waiting \union {s}
      BY <2>1, <2>3
    <3>2. Cardinality(InFlight) < Concurrency
      BY <1>1 DEF Check
    <3>. QED  BY <2>1, <2>3, <3>1, <3>2
  <2>. QED  BY <1>1, <2>2, <2>3 DEF Check
<1>2. ASSUME NEW s \in Sols, Reserve(s) \/ ReserveDry(s)
      PROVE  /\ s \in Waiting
             /\ used' \subseteq used \union {Key(s)}
             /\ InFlight' \subseteq InFlight
             /\ Waiting' = Waiting \ {s}
  BY <1>2 DEF Reserve, ReserveDry, MarkUsed
<1>3. ASSUME NEW s \in Sols, Proceed(s), ~Reserve(s), ~ReserveDry(s)
      PROVE  used' = used /\ InFlight' \subseteq InFlight /\ Waiting' \subseteq Waiting
  <2>1. CASE Fees(s) \/ GasLimit(s) \/ Recheck(s) \/ ReserveRaises(s)
    BY <2>1 DEF Fees, GasLimit, Recheck, ReserveRaises, accountVars
  <2>2. CASE SendAccepted(s) \/ SendTimesOut(s)
    BY <2>2 DEF SendAccepted, SendTimesOut, Accept
  <2>3. CASE SendFails(s) \/ SendRefused(s) \/ ResyncRaises(s)
    BY <2>3 DEF SendFails, SendRefused, ResyncRaises, accountVars
  <2>4. CASE Resync(s) \/ Record(s)
    BY <2>4 DEF Resync, Record
  <2>. QED  BY <1>3, <2>1, <2>2, <2>3, <2>4 DEF Proceed
<1>4. CASE BlockLoopSweep
  BY <1>4 DEF BlockLoopSweep, SweepStart, SweepCount, SweepMiss, SweepEnd, SweepAssign
<1>5. CASE Interrupt
  BY <1>5 DEF Interrupt
<1>6. CASE Shutdown
  BY <1>6 DEF Shutdown, CancelQueued, FinalSweep, Close, SweepStart, accountVars
<1>7. CASE Node /\ UNCHANGED <<pc, control>>
  BY <1>7 DEF Node, Include, Evict, Foreign
<1>8. CASE UNCHANGED vars
  BY <1>8 DEF vars, accountVars
<1>. QED  BY <1>1, <1>2, <1>3, <1>4, <1>5, <1>6, <1>7, <1>8 DEF Next

\* The sets that are counted are finite.
LEMMA CapFinite ==
    ASSUME IsFiniteSet(used)
    PROVE  /\ IsFiniteSet(InFlight)
           /\ IsFiniteSet(Waiting)
           /\ \A e \in Nat : IsFiniteSet(WaitingIn(e)) /\ IsFiniteSet(UsedIn(e))
<1>1. IsFiniteSet(InFlight) /\ IsFiniteSet(Waiting)
  BY AccountAssumption, FS_Subset DEF InFlight, Waiting
<1>2. ASSUME NEW e \in Nat PROVE IsFiniteSet(WaitingIn(e)) /\ IsFiniteSet(UsedIn(e))
  <2>1. WaitingIn(e) \subseteq Waiting /\ UsedIn(e) \subseteq used
    BY DEF WaitingIn, UsedIn
  <2>. QED  BY <1>1, <2>1, FS_Subset
<1>. QED  BY <1>1, <1>2

LEMMA CapInit == Init => CapInv
<1>. SUFFICES ASSUME Init PROVE CapInv
  OBVIOUS
<1>1. used = {} /\ InFlight = {} /\ Waiting = {}
  BY DEF Init, AccountInit, InFlight, Waiting, Active
<1>2. \A e : UsedIn(e) = {} /\ WaitingIn(e) = {}
  BY <1>1 DEF UsedIn, WaitingIn
<1>. QED  BY <1>1, <1>2, FS_EmptySet, SubmitterAssumption DEF CapInv, EpochCount

LEMMA CapNext == TypeOK /\ CapInv /\ [Next]_vars => CapInv'
<1>. SUFFICES ASSUME TypeOK, CapInv, [Next]_vars PROVE CapInv'
  OBVIOUS
<1>. DEFINE Bound == MaxPendingPerEpoch + Concurrency - 1
<1>f. /\ IsFiniteSet(InFlight) /\ Cardinality(InFlight) \in Nat
      /\ IsFiniteSet(Waiting) /\ IsFiniteSet(used)
      /\ \A e \in Nat : /\ IsFiniteSet(WaitingIn(e)) /\ Cardinality(WaitingIn(e)) \in Nat
                        /\ IsFiniteSet(UsedIn(e)) /\ EpochCount(e) \in Nat
  BY CapFinite, FS_CardinalityType DEF CapInv, EpochCount
<1>1. CASE used' = used /\ InFlight' \subseteq InFlight /\ Waiting' \subseteq Waiting
  <2>1. Cardinality(InFlight') <= Cardinality(InFlight) /\ Cardinality(InFlight') \in Nat
    BY <1>1, <1>f, FS_Subset, FS_CardinalityType
  <2>2. ASSUME NEW e \in Nat
        PROVE  EpochCount(e)' + Cardinality(WaitingIn(e)') <= Bound
    <3>1. EpochCount(e)' = EpochCount(e)
      BY <1>1 DEF EpochCount, UsedIn
    <3>2. WaitingIn(e)' \subseteq WaitingIn(e)
      BY <1>1 DEF WaitingIn
    <3>3. /\ Cardinality(WaitingIn(e)') <= Cardinality(WaitingIn(e))
          /\ Cardinality(WaitingIn(e)') \in Nat
      BY <1>f, <3>2, FS_Subset, FS_CardinalityType
    <3>. QED  BY <1>f, <3>1, <3>3, SubmitterAssumption DEF CapInv
  <2>. QED  BY <1>1, <1>f, <2>1, <2>2, SubmitterAssumption DEF CapInv
<1>2. ASSUME NEW s \in Sols,
             Cardinality(InFlight) < Concurrency,
             ~CapReached(s),
             used' = used,
             InFlight' = InFlight \union {s},
             Waiting' = Waiting \union {s}
      PROVE  CapInv'
  <2>1. Cardinality(InFlight') <= Concurrency /\ Cardinality(InFlight') \in Nat
        /\ IsFiniteSet(InFlight')
    <3>1. /\ IsFiniteSet(InFlight \union {s})
          /\ Cardinality(InFlight \union {s}) <= Cardinality(InFlight) + 1
      <4>1. Cardinality(InFlight \union {s}) = IF s \in InFlight THEN Cardinality(InFlight)
                                                ELSE Cardinality(InFlight) + 1
        BY <1>f, FS_AddElement
      <4>2. IsFiniteSet(InFlight \union {s})
        BY <1>f, FS_AddElement
      <4>. QED  BY <1>f, <4>1, <4>2
    <3>2. Cardinality(InFlight \union {s}) \in Nat
      BY <3>1, FS_CardinalityType
    <3>. QED  BY <1>2, <1>f, <3>1, <3>2, SubmitterAssumption
  <2>2. ASSUME NEW e \in Nat
        PROVE  EpochCount(e)' + Cardinality(WaitingIn(e)') <= Bound
    <3>1. EpochCount(e)' = EpochCount(e)
      BY <1>2 DEF EpochCount, UsedIn
    <3>2. CASE e = EpochOf[s]
      <4>1. WaitingIn(e)' \subseteq InFlight'
        BY DEF WaitingIn, Waiting, InFlight, Active
      <4>2. Cardinality(WaitingIn(e)') <= Cardinality(InFlight')
            /\ Cardinality(WaitingIn(e)') \in Nat
        BY <2>1, <4>1, FS_Subset, FS_CardinalityType
      <4>3. EpochCount(e) < MaxPendingPerEpoch
        BY <1>2, <1>f, <3>2, SubmitterAssumption DEF CapReached
      <4>. QED  BY <1>f, <2>1, <3>1, <4>2, <4>3, SubmitterAssumption
    <3>3. CASE e # EpochOf[s]
      <4>1. WaitingIn(e)' = WaitingIn(e)
        BY <1>2, <3>3 DEF WaitingIn
      <4>. QED  BY <3>1, <4>1 DEF CapInv
    <3>. QED  BY <3>2, <3>3
  <2>. QED  BY <1>2, <1>f, <2>1, <2>2 DEF CapInv
<1>3. ASSUME NEW s \in Waiting,
             used' \subseteq used \union {Key(s)},
             InFlight' \subseteq InFlight,
             Waiting' = Waiting \ {s}
      PROVE  CapInv'
  <2>1. Cardinality(InFlight') <= Cardinality(InFlight) /\ Cardinality(InFlight') \in Nat
    BY <1>3, <1>f, FS_Subset, FS_CardinalityType
  <2>2. IsFiniteSet(used')
    <3>1. IsFiniteSet(used \union {Key(s)})
      BY <1>f, FS_AddElement
    <3>. QED  BY <1>3, <3>1, FS_Subset
  <2>3. ASSUME NEW e \in Nat
        PROVE  EpochCount(e)' + Cardinality(WaitingIn(e)') <= Bound
    <3>1. CASE e = EpochOf[s]
      <4>1. UsedIn(e)' \subseteq UsedIn(e) \union {Key(s)}
        BY <1>3 DEF UsedIn
      <4>2. /\ Cardinality(UsedIn(e) \union {Key(s)}) <= Cardinality(UsedIn(e)) + 1
            /\ IsFiniteSet(UsedIn(e) \union {Key(s)})
        <5>1. IsFiniteSet(UsedIn(e)) /\ Cardinality(UsedIn(e)) \in Nat
          BY <1>f DEF EpochCount
        <5>2. Cardinality(UsedIn(e) \union {Key(s)}) = IF Key(s) \in UsedIn(e)
                 THEN Cardinality(UsedIn(e)) ELSE Cardinality(UsedIn(e)) + 1
          BY <5>1, FS_AddElement
        <5>3. IsFiniteSet(UsedIn(e) \union {Key(s)})
          BY <5>1, FS_AddElement
        <5>. QED  BY <5>1, <5>2, <5>3
      <4>6. /\ Cardinality(UsedIn(e)') <= Cardinality(UsedIn(e) \union {Key(s)})
            /\ Cardinality(UsedIn(e) \union {Key(s)}) \in Nat
            /\ Cardinality(UsedIn(e)') \in Nat
        BY <4>1, <4>2, FS_Subset, FS_CardinalityType
      <4>7. EpochCount(e)' = Cardinality(UsedIn(e)') /\ EpochCount(e) = Cardinality(UsedIn(e))
        BY DEF EpochCount
      <4>3. EpochCount(e)' <= EpochCount(e) + 1 /\ EpochCount(e)' \in Nat
        BY <1>f, <4>2, <4>6, <4>7
      <4>4. WaitingIn(e)' = WaitingIn(e) \ {s} /\ s \in WaitingIn(e)
        BY <1>3, <3>1 DEF WaitingIn
      <4>5. Cardinality(WaitingIn(e)') = Cardinality(WaitingIn(e)) - 1
        BY <1>f, <4>4, FS_RemoveElement
      <4>. QED  BY <1>f, <4>3, <4>5, SubmitterAssumption DEF CapInv
    <3>2. CASE e # EpochOf[s]
      <4>1. UsedIn(e)' \subseteq UsedIn(e)
        BY <1>3, <3>2 DEF UsedIn, Key
      <4>2. EpochCount(e)' <= EpochCount(e) /\ EpochCount(e)' \in Nat
        BY <1>f, <4>1, FS_Subset, FS_CardinalityType DEF EpochCount
      <4>3. WaitingIn(e)' = WaitingIn(e)
        BY <1>3, <3>2 DEF WaitingIn
      <4>. QED  BY <1>f, <4>2, <4>3, SubmitterAssumption DEF CapInv
    <3>. QED  BY <3>1, <3>2
  <2>. QED  BY <1>f, <2>1, <2>2, <2>3, SubmitterAssumption DEF CapInv
<1>. QED  BY <1>1, <1>2, <1>3, CapStep

LEMMA CapImplies == CapInv => EpochCapBound
<1>. SUFFICES ASSUME CapInv, NEW s \in Sols
              PROVE  EpochCount(EpochOf[s]) <= MaxPendingPerEpoch + Concurrency - 1
  BY DEF EpochCapBound
<1>1. EpochOf[s] \in Nat
  BY AccountAssumption
<1>2. /\ EpochCount(EpochOf[s]) \in Nat
      /\ Cardinality(WaitingIn(EpochOf[s])) \in Nat
  BY <1>1, CapFinite, FS_CardinalityType DEF CapInv, EpochCount
<1>. QED  BY <1>1, <1>2, SubmitterAssumption DEF CapInv

\* For any number of workers and any cap, max_pending_per_epoch is overshot by at most one
\* less than there are workers, although it is not checked again (submit.py:158, 178-185).
THEOREM EpochCapBoundCorrect == Spec => []EpochCapBound
<1>. USE TypeOKInit, TypeOKNext, CapInit, CapNext, CapImplies
<1>. QED  BY PTL DEF Spec

=============================================================================
