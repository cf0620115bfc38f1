------------------------ MODULE SubmitterNodeProofs ------------------------
(* Theorems about Submitter together with the node: the holes in the       *)
(* account's nonces, what the receipts count, and that the pool of         *)
(* submit() calls implements module Submission.                            *)
EXTENDS SubmitterProofs

-----------------------------------------------------------------------------
(* The node and the calls.                                                 *)

\* A nonce is written into a transaction when the call reserves it, and the node learns of
\* no transaction before its call is past the send.
NodeInv ==
    /\ \A s \in Sols : s \in Reserved <=> txn[s] # None
    /\ \A s \in Sols : tx[s] # "absent" => s \in Reserved /\ pc[s] # "send"


LEMMA NodeInvInit == Init => NodeInv
BY DEF Init, AccountInit, NodeInv, Reserved, None

LEMMA NodeInvNext == TypeOK /\ NodeInv /\ [Next]_vars => NodeInv'
<1>. SUFFICES ASSUME TypeOK, NodeInv, [Next]_vars PROVE NodeInv'
  OBVIOUS
<1>. USE DEF TypeOK, AccountTypeOK, NodeInv, Reserved, submitterVars, sweepVars, nodeVars, control,
         Goto
<1>1. ASSUME NEW s \in Sols, Check(s) PROVE NodeInv'
  BY <1>1 DEF Check, accountVars
<1>2. ASSUME NEW s \in Sols, Reserve(s) PROVE NodeInv'
  <2>1. PICK n \in NextNonces : txn' = [txn EXCEPT ![s] = n]
    BY <1>2 DEF Reserve
  <2>2. n # None
    BY <2>1, PendingCountsType DEF NextNonces, None
  <2>. QED  BY <1>2, <2>1, <2>2 DEF Reserve
<1>3. ASSUME NEW s \in Sols, ReserveDry(s) PROVE NodeInv'
  BY <1>3 DEF ReserveDry, None
<1>4. ASSUME NEW s \in Sols, Accept(s), Goto(s, "record") \/ Goto(s, "failed") PROVE NodeInv'
  BY <1>4 DEF Accept
<1>5. ASSUME NEW s \in Sols, Proceed(s), ~Reserve(s), ~ReserveDry(s), ~SendAccepted(s),
             ~SendTimesOut(s)
      PROVE  NodeInv'
  <2>1. CASE Fees(s) \/ GasLimit(s) \/ Recheck(s) \/ ReserveRaises(s)
    BY <2>1 DEF Fees, GasLimit, Recheck, ReserveRaises, accountVars
  <2>2. CASE SendFails(s) \/ SendRefused(s) \/ ResyncRaises(s)
    BY <2>2 DEF SendFails, SendRefused, ResyncRaises, accountVars
  <2>3. CASE Resync(s) \/ Record(s)
    BY <2>3 DEF Resync, Record
  <2>. QED  BY <1>5, <2>1, <2>2, <2>3 DEF Proceed
<1>6. CASE UNCHANGED <<pc, txn, tx>>
  BY <1>6
<1>7. CASE BlockLoopSweep \/ Interrupt \/ FinalSweep \/ Close \/ UNCHANGED vars
  <2>1. UNCHANGED <<pc, txn, tx>>
    BY <1>7 DEF BlockLoopSweep, SweepStart, SweepCount, SweepMiss, SweepEnd, SweepAssign,
       Interrupt, FinalSweep, Close, accountVars, vars
  <2>. QED  BY <1>6, <2>1
<1>8. CASE CancelQueued
  BY <1>8 DEF CancelQueued, accountVars
<1>9. CASE Node /\ UNCHANGED <<pc, control>>
  BY <1>9 DEF Node, Include, Evict, Foreign
<1>10. ASSUME NEW s \in Sols, Proceed(s) PROVE NodeInv'
  BY <1>2, <1>3, <1>4, <1>5, <1>10 DEF SendAccepted, SendTimesOut
<1>. HIDE DEF TypeOK, NodeInv, Goto
<1>. QED  BY <1>1, <1>7, <1>8, <1>9, <1>10 DEF Next, Shutdown

-----------------------------------------------------------------------------
(* The holes in the account's nonces.                                      *)

\* Nothing has happened that leaves a hole.
Undisturbed ==
    /\ ~dryRun /\ foreign = 0
    /\ \A s \in Sols : /\ tx[s] # "gone"
                       /\ pc[s] \notin {"hiccup", "resynced", "unsynced"}
                       /\ ~(pc[s] = "failed" /\ tx[s] = "absent")

Held(n) == \E s \in Sols : txn[s] = n /\ (tx[s] = "pooled" \/ pc[s] = "send")

NoHole == Undisturbed /\ txNonce # None => \A n \in chainNonce..(txNonce - 1) : Held(n)

LEMMA NoHoleNext == TypeOK /\ NodeInv /\ NoHole /\ [Next]_vars => NoHole'
<1>. SUFFICES ASSUME TypeOK, NodeInv, NoHole, [Next]_vars, Undisturbed', txNonce' # None
              PROVE  (\A n \in chainNonce..(txNonce - 1) : Held(n))'
  BY DEF NoHole
<1>. USE DEF TypeOK, AccountTypeOK, submitterVars, sweepVars, nodeVars, control, Goto
<1>. DEFINE Goal == (\A n \in chainNonce..(txNonce - 1) : Held(n))'
<1>1. CASE /\ Undisturbed /\ UNCHANGED <<txNonce, chainNonce, txn, tx>>
           /\ \A s \in Sols : pc'[s] = "send" <=> pc[s] = "send"
  BY <1>1 DEF NoHole, Held
<1>2. ASSUME NEW s \in Sols, Check(s) PROVE Goal
  <2>1. Undisturbed /\ \A t \in Sols : pc'[t] = "send" <=> pc[t] = "send"
    BY <1>2 DEF Check, accountVars, Undisturbed
  <2>. QED  BY <1>1, <1>2, <2>1 DEF Check, accountVars
<1>3. ASSUME NEW s \in Sols, Reserve(s) PROVE Goal
  <2>1. PICK n \in NextNonces : txn' = [txn EXCEPT ![s] = n] /\ txNonce' = n + 1
    BY <1>3 DEF Reserve
  <2>2. n \in Nat /\ (txNonce # None => n = txNonce)
    BY <2>1, PendingCountsType DEF NextNonces
  <2>3. pc' = [pc EXCEPT ![s] = "send"] /\ UNCHANGED <<chainNonce, tx>> /\ tx[s] = "absent"
        /\ pc[s] = "reserve"
    BY <1>3 DEF Reserve, NodeInv, Reserved
  <2>4. ASSUME NEW m \in Nat, Held(m) PROVE Held(m)'
    BY <2>1, <2>3, <2>4 DEF Held
  <2>5. Held(n)'
    BY <2>1, <2>3 DEF Held
  <2>6. \A m \in chainNonce..(n - 1) : Held(m)
    <3>1. CASE txNonce # None
      <4>1. Undisturbed
        BY <1>3, <2>3 DEF Undisturbed, Reserve
      <4>. QED  BY <2>2, <3>1, <4>1 DEF NoHole
    <3>2. CASE txNonce = None
      <4>1. \A m \in chainNonce..(n - 1) : Pooled(m)
        BY <2>1, <3>2 DEF NextNonces, PendingCounts, IsPendingCount
      <4>. QED  BY <4>1 DEF Pooled, Held
    <3>. QED  BY <3>1, <3>2
  <2>. QED
    <3>. SUFFICES ASSUME NEW m \in chainNonce'..(txNonce' - 1) PROVE Held(m)'
      OBVIOUS
    <3>1. m = n \/ (m \in Nat /\ m \in chainNonce..(n - 1))
      BY <2>1, <2>2, <2>3
    <3>. QED  BY <2>4, <2>5, <2>6, <3>1
<1>4. ASSUME NEW s \in Sols, Accept(s), Goto(s, "record") \/ Goto(s, "failed") PROVE Goal
  <2>1. /\ UNCHANGED <<txNonce, chainNonce, txn, dryRun, foreign>> /\ tx'[s] = "pooled"
        /\ \A t \in Sols \ {s} : /\ tx'[t] = tx[t] \/ (tx[t] = "pooled" /\ tx'[t] = "gone")
                                 /\ pc'[t] = pc[t]
    BY <1>4 DEF Accept
  <2>2. Undisturbed /\ \A t \in Sols \ {s} : tx'[t] = tx[t]
    BY <1>4, <2>1 DEF Undisturbed, Accept, NodeInv
  <2>3. ASSUME NEW n \in Nat, Held(n) PROVE Held(n)'
    BY <2>1, <2>2, <2>3 DEF Held
  <2>. QED  BY <2>1, <2>2, <2>3 DEF NoHole
<1>5. ASSUME NEW s \in Sols, Fees(s) \/ GasLimit(s) \/ Recheck(s) \/ ReserveRaises(s) PROVE Goal
  <2>1. /\ UNCHANGED <<txNonce, chainNonce, txn, tx, foreign, dryRun>>
        /\ \E place \in {"gas", "reserve", "skipped", "raised", "duplicate"} : Goto(s, place)
        /\ pc[s] \in {"fees", "gas", "reserve"}
    BY <1>5 DEF Fees, GasLimit, Recheck, ReserveRaises, accountVars
  <2>2. Undisturbed /\ \A t \in Sols : pc'[t] = "send" <=> pc[t] = "send"
    BY <2>1 DEF Undisturbed
  <2>. QED  BY <1>1, <2>1, <2>2
<1>6. ASSUME NEW s \in Sols,
             SendFails(s) \/ SendRefused(s) \/ Resync(s) \/ ResyncRaises(s) \/ ReserveDry(s)
      PROVE  FALSE
  BY <1>6 DEF SendFails, SendRefused, Resync, ResyncRaises, ReserveDry, Undisturbed, NodeInv,
     accountVars
<1>7. ASSUME NEW s \in Sols, Record(s) PROVE Goal
  <2>1. Undisturbed /\ \A t \in Sols : pc'[t] = "send" <=> pc[t] = "send"
    BY <1>7 DEF Record, Undisturbed
  <2>. QED  BY <1>1, <1>7, <2>1 DEF Record
<1>8. CASE BlockLoopSweep \/ Interrupt \/ FinalSweep \/ Close \/ UNCHANGED vars
  <2>1. UNCHANGED <<pc, txn, tx, chainNonce, txNonce, foreign, dryRun>>
    BY <1>8 DEF BlockLoopSweep, SweepStart, SweepCount, SweepMiss, SweepEnd, SweepAssign,
       Interrupt, FinalSweep, Close, accountVars, vars
  <2>. QED  BY <1>1, <2>1 DEF Undisturbed
<1>9. CASE CancelQueued
  <2>1. Undisturbed /\ \A t \in Sols : pc'[t] = "send" <=> pc[t] = "send"
    BY <1>9 DEF CancelQueued, Undisturbed, accountVars
  <2>. QED  BY <1>1, <1>9, <2>1 DEF CancelQueued, accountVars
<1>10. ASSUME NEW s \in Sols, Include(s), UNCHANGED <<pc, control>> PROVE Goal
  <2>1. /\ chainNonce' = chainNonce + 1 /\ txn[s] = chainNonce /\ tx[s] = "pooled"
        /\ UNCHANGED <<txNonce, txn, foreign, dryRun, pc>>
        /\ \A t \in Sols \ {s} : tx'[t] = tx[t]
    BY <1>10 DEF Include
  <2>2. Undisturbed
    BY <2>1 DEF Undisturbed
  <2>3. ASSUME NEW n \in Nat, n > chainNonce, Held(n) PROVE Held(n)'
    BY <2>1, <2>3 DEF Held
  <2>. QED  BY <2>1, <2>2, <2>3 DEF NoHole
<1>11. ASSUME Foreign \/ \E s \in Sols : Evict(s) PROVE FALSE
  BY <1>11 DEF Foreign, Evict, Undisturbed
<1>. QED
  BY <1>2, <1>3, <1>4, <1>5, <1>6, <1>7, <1>8, <1>9, <1>10, <1>11
  DEF Next, Shutdown, Proceed, SendAccepted, SendTimesOut, Node

LEMMA NoHoleInit == Init => NoHole
BY DEF Init, AccountInit, NoHole

LEMMA NodeInvCorrect == Spec => [](TypeOK /\ NodeInv)
BY TypeOKInit, TypeOKNext, NodeInvInit, NodeInvNext, PTL DEF Spec

\* However the sends interleave, no nonce below the counter is left without a transaction in
\* the mempool or a call about to send it, while nothing goes wrong (submit.py:178-220).
THEOREM NoGapCorrect == Spec => []NoGap
<1>1. NoHole => NoGap
  BY DEF NoHole, NoGap, Undisturbed, Held
<1>. QED  BY <1>1, NodeInvCorrect, NoHoleInit, NoHoleNext, PTL DEF Spec

-----------------------------------------------------------------------------
(* What the receipts count.                                                *)

\* The entries a sweep may still count: what the one in progress has kept and, until it has
\* walked the list, what it has before it.
Ahead == IF sweepPc = "assign" THEN {} ELSE {pending[i] : i \in pos..Len(pending)}

Outstanding == Entries(still) \union Ahead

Kinds == {"ok", "reverted"}

Mined == [kind \in Kinds |-> MinedAs(kind)]

Counted == [kind \in Kinds |-> {s \in Mined[kind] : s \notin Outstanding}]

\* What was counted before a sweep was cut short.
Before == [kind \in Kinds |-> IF cut THEN Cardinality(Mined[kind]) ELSE 0]

Distinct(seq) == \A i, j \in 1..Len(seq) : i # j => seq[i] # seq[j]

\* Every tracked transaction was sent and is tracked once.
TrackedInv ==
    /\ \A s \in Entries(pending) \union Entries(still) : pc[s] = "sent"
    /\ Distinct(pending) /\ Distinct(still)
    /\ Entries(still) \cap Ahead = {}
    /\ sweepPc = "idle" => pos = 1 /\ still = << >>

CountInv ==
    /\ cut => phase # "running"
    /\ confirmed <= Before["ok"] + Cardinality(Counted["ok"])
    /\ reverted <= Before["reverted"] + Cardinality(Counted["reverted"])

LEMMA CountInit == Init => TrackedInv /\ CountInv
<1>. SUFFICES ASSUME Init PROVE TrackedInv /\ CountInv
  OBVIOUS
<1>1. /\ pending = << >> /\ still = << >> /\ Len(pending) = 0
      /\ pos = 1 /\ sweepPc = "idle" /\ confirmed = 0 /\ reverted = 0 /\ ~cut
  BY DEF Init, AccountInit
<1>2. \A r \in Kinds : Counted[r] = {} /\ Before[r] = 0
  BY <1>1 DEF Init, Counted, Mined, MinedAs, Before
<1>3. TrackedInv
  BY <1>1 DEF TrackedInv, Entries, Ahead, Distinct
<1>4. Cardinality(Counted["ok"]) = 0 /\ Cardinality(Counted["reverted"]) = 0
  BY <1>2, FS_EmptySet DEF Kinds
<1>5. Before["ok"] = 0 /\ Before["reverted"] = 0
  BY <1>2 DEF Kinds
<1>. QED  BY <1>1, <1>3, <1>4, <1>5 DEF CountInv

\* A call that has returned stays so, and its mined transaction stays what it is.
LEMMA MinedStays ==
    ASSUME TypeOK, [Next]_vars, NEW s \in Sols, pc[s] = "sent"
    PROVE  pc'[s] = "sent" /\ (Resolved(s) => tx'[s] = tx[s])
<1>. USE DEF TypeOK, AccountTypeOK, nodeVars, control, Goto, Resolved
<1>1. ASSUME NEW t \in Sols, Check(t) \/ Fees(t) \/ GasLimit(t) \/ Recheck(t) \/ ReserveRaises(t)
      PROVE  pc'[s] = "sent" /\ (Resolved(s) => tx'[s] = tx[s])
  BY <1>1 DEF Check, Fees, GasLimit, Recheck, ReserveRaises, accountVars
<1>2. ASSUME NEW t \in Sols, Reserve(t) \/ ReserveDry(t) \/ Resync(t) \/ Record(t)
      PROVE  pc'[s] = "sent" /\ (Resolved(s) => tx'[s] = tx[s])
  BY <1>2 DEF Reserve, ReserveDry, Resync, Record
<1>3. ASSUME NEW t \in Sols, SendAccepted(t) \/ SendTimesOut(t)
      PROVE  pc'[s] = "sent" /\ (Resolved(s) => tx'[s] = tx[s])
  BY <1>3 DEF SendAccepted, SendTimesOut, Accept
<1>4. ASSUME NEW t \in Sols, SendFails(t) \/ SendRefused(t) \/ ResyncRaises(t)
      PROVE  pc'[s] = "sent" /\ (Resolved(s) => tx'[s] = tx[s])
  BY <1>4 DEF SendFails, SendRefused, ResyncRaises, accountVars
<1>5. CASE BlockLoopSweep \/ Interrupt \/ Shutdown \/ UNCHANGED vars
  BY <1>5 DEF BlockLoopSweep, SweepStart, SweepCount, SweepMiss, SweepEnd, SweepAssign, Interrupt,
     Shutdown, CancelQueued, FinalSweep, Close, accountVars, vars
<1>6. CASE Node /\ UNCHANGED <<pc, control>>
  BY <1>6 DEF Node, Include, Evict, Foreign
<1>. HIDE DEF TypeOK, Goto, Resolved
<1>. QED  BY <1>1, <1>2, <1>3, <1>4, <1>5, <1>6 DEF Next, Proceed

\* The list grows by a transaction that has just been sent.
LEMMA RecordTracks ==
    ASSUME TypeOK, TrackedInv, NEW s \in Sols, Record(s)
    PROVE  TrackedInv' /\ Outstanding' \subseteq Outstanding \union {s}
<1>. USE DEF TypeOK, AccountTypeOK
<1>1. /\ Len(pending) \in Nat /\ Len(pending') = Len(pending) + 1
      /\ pending'[Len(pending) + 1] = s
      /\ \A i \in 1..Len(pending) : pending'[i] = pending[i]
  BY AppendProperties, LenProperties DEF Record
<1>2. \A i \in 1..Len(pending') : i \in 1..Len(pending) \/ i = Len(pending) + 1
  BY <1>1
<1>3. Entries(pending)' \subseteq Entries(pending) \union {s}
  BY <1>1, <1>2 DEF Entries
<1>4. Ahead' \subseteq Ahead \union {s}
  <2>1. \A i \in pos..Len(pending') : i \in pos..Len(pending) \/ i = Len(pending) + 1
    BY <1>1
  <2>. QED  BY <1>1, <2>1 DEF Record, Ahead, sweepVars
<1>5. UNCHANGED <<still, sweepPc, pos>>
  BY DEF Record, sweepVars
<1>6. /\ s \notin Entries(pending) /\ s \notin Entries(still)
      /\ \A t \in Sols : pc[t] = "sent" => pc'[t] = "sent"
      /\ pc'[s] = "sent"
  BY DEF Record, Goto, TrackedInv
<1>7. Distinct(pending)'
  <2>. SUFFICES ASSUME NEW i \in 1..Len(pending'), NEW j \in 1..Len(pending'), i # j
                PROVE  pending'[i] # pending'[j]
    BY DEF Distinct
  <2>1. \A k \in 1..Len(pending) : pending[k] # s
    BY <1>6 DEF Entries
  <2>2. CASE i \in 1..Len(pending) /\ j \in 1..Len(pending)
    BY <1>1, <2>2 DEF TrackedInv, Distinct
  <2>3. CASE i = Len(pending) + 1 \/ j = Len(pending) + 1
    BY <1>1, <1>2, <2>1, <2>3
  <2>. QED  BY <1>2, <2>2, <2>3
<1>8. \A t \in Entries(pending) \union Entries(still) : t \in Sols
  BY ElementOfSeq DEF Entries
<1>9. Entries(still)' = Entries(still) /\ Distinct(still)' = Distinct(still)
  BY <1>5 DEF Entries, Distinct
<1>10. TrackedInv'
  <2>1. \A t \in Entries(pending)' \union Entries(still)' : pc'[t] = "sent"
    BY <1>3, <1>6, <1>8, <1>9 DEF TrackedInv
  <2>2. Entries(still)' \cap Ahead' = {}
    BY <1>4, <1>6, <1>9 DEF TrackedInv
  <2>. QED  BY <1>5, <1>7, <1>9, <2>1, <2>2 DEF TrackedInv
<1>. QED  BY <1>4, <1>9, <1>10 DEF Outstanding

\* The sweep passes an entry, kept or not.
LEMMA PassTracks ==
    ASSUME TypeOK, TrackedInv, SweepCount \/ SweepMiss, UNCHANGED pc
    PROVE  /\ TrackedInv'
           /\ Outstanding' \subseteq Outstanding
           /\ SweepCount => pending[pos] \in Outstanding /\ pending[pos] \notin Outstanding'
<1>. USE DEF TypeOK, AccountTypeOK
<1>1. /\ sweepPc = "scan" /\ pos \in 1..Len(pending) /\ pos' = pos + 1
      /\ UNCHANGED <<sweepPc, pending>>
      /\ still' = still \/ still' = Append(still, pending[pos])
      /\ SweepCount => still' = still
  BY LenProperties DEF SweepCount, SweepMiss, submitterVars
<1>2. Ahead = Ahead' \union {pending[pos]} /\ pending[pos] \notin Ahead'
  <2>1. \A i \in pos..Len(pending) : i = pos \/ i \in (pos + 1)..Len(pending)
    OBVIOUS
  <2>2. \A i \in (pos + 1)..Len(pending) : i \in 1..Len(pending) /\ i # pos /\ i \in pos..Len(pending)
    BY <1>1
  <2>3. pos \in pos..Len(pending)
    BY <1>1
  <2>4. Ahead = {pending[i] : i \in pos..Len(pending)}
        /\ Ahead' = {pending[i] : i \in (pos + 1)..Len(pending)}
    BY <1>1 DEF Ahead
  <2>5. \A i \in (pos + 1)..Len(pending) : pending[i] # pending[pos]
    BY <1>1, <2>2 DEF TrackedInv, Distinct
  <2>. QED  BY <2>1, <2>2, <2>3, <2>4, <2>5
<1>3. pending[pos] \in Entries(pending) /\ pending[pos] \notin Entries(still)
  BY <1>1, <1>2 DEF TrackedInv, Entries
<1>4. Entries(pending)' = Entries(pending) /\ Distinct(pending)' = Distinct(pending)
  BY <1>1 DEF Entries, Distinct
<1>5. CASE still' = still
  <2>1. Entries(still)' = Entries(still) /\ Distinct(still)' = Distinct(still)
    BY <1>5 DEF Entries, Distinct
  <2>. QED  BY <1>1, <1>2, <1>3, <1>4, <2>1 DEF TrackedInv, Outstanding
<1>6. CASE still' = Append(still, pending[pos])
  <2>1. pending[pos] \in Sols
    BY <1>1, ElementOfSeq
  <2>2. /\ Len(still) \in Nat /\ Len(still') = Len(still) + 1
        /\ still'[Len(still) + 1] = pending[pos]
        /\ \A i \in 1..Len(still) : still'[i] = still[i]
    BY <1>6, <2>1, AppendProperties, LenProperties
  <2>3. \A i \in 1..Len(still') : i \in 1..Len(still) \/ i = Len(still) + 1
    BY <2>2
  <2>4. Entries(still)' \subseteq Entries(still) \union {pending[pos]}
    BY <2>2, <2>3 DEF Entries
  <2>5. Distinct(still)'
    <3>. SUFFICES ASSUME NEW i \in 1..Len(still'), NEW j \in 1..Len(still'), i # j
                  PROVE  still'[i] # still'[j]
      BY DEF Distinct
    <3>1. \A k \in 1..Len(still) : still[k] # pending[pos]
      BY <1>3 DEF Entries
    <3>. QED  BY <2>2, <2>3, <3>1 DEF TrackedInv, Distinct
  <2>6. ~SweepCount
    BY <1>1, <1>6, <2>2
  <2>. QED  BY <1>1, <1>2, <1>3, <1>4, <2>4, <2>5, <2>6 DEF TrackedInv, Outstanding
<1>. QED  BY <1>1, <1>5, <1>6
\* The sweep starts, ends or is cut short: no entry comes into it.
LEMMA SweepTracks ==
    ASSUME TypeOK, TrackedInv, SweepStart \/ SweepEnd \/ SweepAssign \/ Interrupt, UNCHANGED pc
    PROVE  /\ TrackedInv'
           /\ Outstanding' \subseteq Outstanding \/ (Interrupt /\ sweepPc # "idle")
<1>. USE DEF TypeOK, AccountTypeOK
<1>e. Entries(<< >>) = {} /\ Distinct(<< >>)
  BY DEF Entries, Distinct
<1>1. CASE SweepStart
  <2>1. UNCHANGED <<pending, pos, still>> /\ sweepPc' = "scan" /\ sweepPc = "idle"
    BY <1>1 DEF SweepStart, submitterVars
  <2>. QED  BY <2>1 DEF TrackedInv, Outstanding, Ahead, Entries, Distinct
<1>2. CASE SweepEnd
  <2>1. UNCHANGED <<pending, pos, still>> /\ sweepPc' = "assign" /\ sweepPc = "scan"
    BY <1>2 DEF SweepEnd, submitterVars
  <2>. QED  BY <2>1 DEF TrackedInv, Outstanding, Ahead, Entries, Distinct
<1>3. CASE SweepAssign
  <2>1. /\ pending' = still /\ still' = << >> /\ pos' = 1 /\ sweepPc' = "idle"
        /\ sweepPc = "assign"
    BY <1>3 DEF SweepAssign
  <2>2. /\ Entries(pending)' = Entries(still) /\ Distinct(pending)' = Distinct(still)
        /\ Entries(still)' = {} /\ Distinct(still)'
    BY <1>e, <2>1 DEF Entries, Distinct
  <2>3. Ahead' = Entries(still)
    BY <2>1 DEF Ahead, Entries
  <2>. QED  BY <2>1, <2>2, <2>3 DEF TrackedInv, Outstanding
<1>4. CASE Interrupt
  <2>1. /\ UNCHANGED pending /\ still' = << >> /\ pos' = 1 /\ sweepPc' = "idle"
        /\ cut' = (cut \/ sweepPc # "idle")
    BY <1>4 DEF Interrupt, submitterVars
  <2>2. /\ Entries(pending)' = Entries(pending) /\ Distinct(pending)' = Distinct(pending)
        /\ Entries(still)' = {} /\ Distinct(still)'
    BY <1>e, <2>1 DEF Entries, Distinct
  <2>3. TrackedInv'
    BY <2>1, <2>2 DEF TrackedInv
  <2>4. CASE sweepPc = "idle"
    <3>1. UNCHANGED <<pending, still, pos, sweepPc>>
      BY <2>1, <2>4 DEF TrackedInv
    <3>. QED  BY <2>3, <3>1 DEF Outstanding, Ahead, Entries
  <2>. QED  BY <1>4, <2>1, <2>3, <2>4
<1>. QED  BY <1>1, <1>2, <1>3, <1>4

\* What any step does to the entries and the counts.
LEMMA TrackedStep ==
    ASSUME TypeOK, TrackedInv, [Next]_vars
    PROVE  /\ TrackedInv'
           /\ \/ UNCHANGED <<confirmed, reverted, cut>> /\ Outstanding' \subseteq Outstanding
              \/ Interrupt /\ cut' /\ UNCHANGED <<confirmed, reverted, pc, tx>>
              \/ \E s \in Sols : /\ pc[s] = "record"
                                 /\ UNCHANGED <<confirmed, reverted, cut>>
                                 /\ Outstanding' \subseteq Outstanding \union {s}
              \/ SweepCount /\ UNCHANGED <<pc, cut>>
<1>1. ASSUME UNCHANGED <<pending, still, pos, sweepPc>>
      PROVE  TrackedInv' /\ Outstanding' \subseteq Outstanding
  <2>1. \A s \in Entries(pending) \union Entries(still) : s \in Sols
    BY ElementOfSeq DEF Entries, TypeOK, AccountTypeOK
  <2>2. Ahead' = Ahead /\ Entries(still)' = Entries(still) /\ Entries(pending)' = Entries(pending)
        /\ Distinct(pending)' = Distinct(pending) /\ Distinct(still)' = Distinct(still)
    BY <1>1 DEF Ahead, Entries, Distinct
  <2>. QED  BY <1>1, <2>1, <2>2, MinedStays DEF TrackedInv, Outstanding
<1>2. ASSUME NEW s \in Sols, Record(s) PROVE UNCHANGED <<confirmed, reverted, cut>> /\ pc[s] = "record"
  BY <1>2 DEF Record, sweepVars, control
<1>3. CASE BlockLoopSweep
  <2>1. UNCHANGED <<pc, cut>> /\ ~Interrupt
    BY <1>3 DEF BlockLoopSweep, control, Interrupt
  <2>2. CASE SweepStart \/ SweepEnd \/ SweepAssign
    <3>1. UNCHANGED <<confirmed, reverted>>
      BY <2>2 DEF SweepStart, SweepEnd, SweepAssign
    <3>. QED  BY <2>1, <2>2, <3>1, SweepTracks
  <2>3. CASE SweepCount
    BY <2>1, <2>3, PassTracks
  <2>4. CASE SweepMiss
    <3>1. UNCHANGED <<confirmed, reverted>>
      BY <2>4 DEF SweepMiss
    <3>. QED  BY <2>1, <2>4, <3>1, PassTracks
  <2>. QED  BY <1>3, <2>2, <2>3, <2>4 DEF BlockLoopSweep
<1>4. CASE Interrupt
  <2>1. /\ UNCHANGED <<confirmed, reverted, pc, tx>>
        /\ cut' = (cut \/ sweepPc # "idle")
    BY <1>4 DEF Interrupt, nodeVars
  <2>2. TrackedInv' /\ (Outstanding' \subseteq Outstanding \/ sweepPc # "idle")
    BY <1>4, <2>1, SweepTracks
  <2>3. sweepPc = "idle" => cut' = cut
    BY <2>1 DEF TypeOK
  <2>4. sweepPc # "idle" => cut'
    BY <2>1
  <2>. QED  BY <1>4, <2>1, <2>2, <2>3, <2>4
<1>5. CASE Shutdown
  <2>1. UNCHANGED <<confirmed, reverted, cut>> /\ ~Interrupt
    BY <1>5 DEF Interrupt, Shutdown, CancelQueued, FinalSweep, SweepStart, Close, accountVars, sweepVars
  <2>2. CASE SweepStart /\ UNCHANGED pc
    BY <2>1, <2>2, SweepTracks
  <2>3. CASE UNCHANGED <<pending, still, pos, sweepPc>>
    BY <1>1, <2>1, <2>3
  <2>. QED  BY <1>5, <2>2, <2>3 DEF Shutdown, CancelQueued, FinalSweep, Close, accountVars,
            sweepVars, submitterVars
<1>6. ASSUME NEW s \in Sols, Check(s) \/ Proceed(s), ~Record(s)
      PROVE  UNCHANGED <<pending, still, pos, sweepPc, confirmed, reverted, cut>>
  BY <1>6 DEF Proceed, Check, Fees, GasLimit, Recheck, ReserveRaises, ReserveDry, Reserve,
     SendAccepted, SendTimesOut, Accept, SendFails, SendRefused, Resync, ResyncRaises,
     accountVars, submitterVars, sweepVars, control
<1>7. CASE (Node /\ UNCHANGED <<pc, control>>) \/ UNCHANGED vars
  <2>1. UNCHANGED <<pending, still, pos, sweepPc, confirmed, reverted, cut>>
    BY <1>7 DEF Node, Include, Evict, Foreign, accountVars, submitterVars, sweepVars, control, vars
  <2>. QED  BY <1>1, <2>1
<1>8. ASSUME NEW s \in Sols, Check(s) \/ Proceed(s)
      PROVE  /\ TrackedInv'
             /\ UNCHANGED <<confirmed, reverted, cut>>
             /\ Outstanding' \subseteq Outstanding
                \/ (pc[s] = "record" /\ Outstanding' \subseteq Outstanding \union {s})
  <2>1. CASE Record(s)
    BY <1>2, <2>1, RecordTracks
  <2>2. CASE ~Record(s)
    BY <1>1, <1>6, <1>8, <2>2
  <2>. QED  BY <2>1, <2>2
<1>9. CASE \E s \in Sols : Check(s) \/ Proceed(s)
  BY <1>8, <1>9
<1>. QED  BY <1>3, <1>4, <1>5, <1>7, <1>9 DEF Next
\* The sizes of a finite set and of a part of it.
LEMMA FewerOrMore ==
    ASSUME NEW T, IsFiniteSet(T), NEW S, S \subseteq T
    PROVE  /\ Cardinality(S) \in Nat /\ Cardinality(T) \in Nat
           /\ Cardinality(S) <= Cardinality(T)
           /\ \A x \in T : x \notin S => Cardinality(S) + 1 <= Cardinality(T)
<1>1. IsFiniteSet(S) /\ Cardinality(S) <= Cardinality(T)
  BY FS_Subset
<1>2. Cardinality(S) \in Nat /\ Cardinality(T) \in Nat
  BY <1>1, FS_CardinalityType
<1>3. ASSUME NEW x \in T, x \notin S PROVE Cardinality(S) + 1 <= Cardinality(T)
  <2>1. Cardinality(S \union {x}) = Cardinality(S) + 1
    BY <1>1, <1>3, FS_AddElement
  <2>2. S \union {x} \subseteq T
    BY <1>3
  <2>3. Cardinality(S \union {x}) <= Cardinality(T)
    BY <2>2, FS_Subset
  <2>. QED  BY <2>1, <2>3
<1>. QED  BY <1>1, <1>2, <1>3

\* Once the loop is interrupted it does not run again.
LEMMA NotRunningAgain ==
    ASSUME TypeOK, [Next]_vars
    PROVE  phase # "running" => phase' # "running"
<1>1. CASE Interrupt \/ Shutdown
  BY <1>1 DEF Interrupt, Shutdown, CancelQueued, FinalSweep, Close
<1>2. CASE UNCHANGED phase
  BY <1>2
<1>3. ASSUME NEW s \in Sols, Check(s) \/ Proceed(s) PROVE UNCHANGED phase
  <2>1. CASE Check(s) \/ Fees(s) \/ GasLimit(s) \/ Recheck(s) \/ ReserveRaises(s)
    BY <2>1 DEF Check, Fees, GasLimit, Recheck, ReserveRaises, control
  <2>2. CASE ReserveDry(s) \/ Reserve(s)
    BY <2>2 DEF ReserveDry, Reserve, control
  <2>3. CASE SendAccepted(s) \/ SendTimesOut(s) \/ SendFails(s) \/ SendRefused(s)
    BY <2>3 DEF SendAccepted, SendTimesOut, SendFails, SendRefused, Accept, control
  <2>4. CASE Resync(s) \/ ResyncRaises(s) \/ Record(s)
    BY <2>4 DEF Resync, ResyncRaises, Record, control
  <2>. QED  BY <1>3, <2>1, <2>2, <2>3, <2>4 DEF Proceed
<1>. QED  BY <1>1, <1>2, <1>3 DEF Next, BlockLoopSweep, control, vars

LEMMA CountNext == TypeOK /\ TrackedInv /\ CountInv /\ [Next]_vars => CountInv'
<1>. SUFFICES ASSUME TypeOK, TrackedInv, CountInv, [Next]_vars PROVE CountInv'
  OBVIOUS
<1>1. \A r \in Kinds : /\ IsFiniteSet(Counted'[r]) /\ Cardinality(Counted'[r]) \in Nat
                       /\ IsFiniteSet(Counted[r]) /\ Cardinality(Counted[r]) \in Nat
                       /\ IsFiniteSet(Mined'[r]) /\ Cardinality(Mined'[r]) \in Nat
                       /\ IsFiniteSet(Mined[r]) /\ Cardinality(Mined[r]) \in Nat
  <2>1. \A r \in Kinds : /\ Counted[r] \subseteq Sols /\ Counted'[r] \subseteq Sols
                         /\ Mined[r] \subseteq Sols /\ Mined'[r] \subseteq Sols
    BY DEF Counted, Mined, MinedAs
  <2>. QED  BY <2>1, AccountAssumption, FS_Subset, FS_CardinalityType
<1>2. confirmed \in Nat /\ reverted \in Nat /\ "ok" \in Kinds /\ "reverted" \in Kinds
  BY DEF TypeOK, AccountTypeOK, Kinds
<1>3. \A r \in Kinds : Cardinality(Mined[r]) <= Cardinality(Mined'[r])
  <2>1. \A r \in Kinds : Mined[r] \subseteq Mined'[r]
    BY MinedStays DEF Mined, MinedAs, Resolved, Kinds
  <2>. QED  BY <1>1, <2>1, FewerOrMore
<1>4. UNCHANGED cut => \A r \in Kinds : Before[r] <= Before'[r]
  BY <1>1, <1>3 DEF Before
<1>5. \A r \in Kinds : Before[r] \in Nat /\ Before'[r] \in Nat
  BY <1>1 DEF Before
<1>6. ASSUME \A s \in Sols : pc[s] = "sent" /\ s \in Outstanding' => s \in Outstanding
      PROVE  \A r \in Kinds : Counted[r] \subseteq Counted'[r]
  BY <1>6, MinedStays DEF Counted, Mined, MinedAs, Resolved, Kinds
<1>7. ASSUME UNCHANGED cut PROVE (cut => phase # "running")'
  BY <1>7, NotRunningAgain DEF CountInv
<1>8. ASSUME UNCHANGED <<confirmed, reverted, cut>>,
             \A s \in Sols : pc[s] = "sent" /\ s \in Outstanding' => s \in Outstanding
      PROVE  CountInv'
  <2>1. \A r \in Kinds : Cardinality(Counted[r]) <= Cardinality(Counted'[r])
    BY <1>1, <1>6, <1>8, FewerOrMore
  <2>. QED  BY <1>1, <1>2, <1>4, <1>5, <1>7, <1>8, <2>1 DEF CountInv
<1>9. CASE UNCHANGED <<confirmed, reverted, cut>> /\ Outstanding' \subseteq Outstanding
  BY <1>8, <1>9
<1>10. ASSUME NEW s \in Sols, pc[s] = "record", UNCHANGED <<confirmed, reverted, cut>>,
              Outstanding' \subseteq Outstanding \union {s}
       PROVE  CountInv'
  BY <1>8, <1>10
<1>11. CASE Interrupt /\ cut' /\ UNCHANGED <<confirmed, reverted, pc, tx>>
  <2>1. ~cut /\ phase' # "running"
    BY <1>11 DEF Interrupt, CountInv
  <2>2. \A r \in Kinds : Before[r] = 0 /\ Before'[r] = Cardinality(Mined'[r])
    BY <1>11, <2>1 DEF Before
  <2>3. \A r \in Kinds : Cardinality(Counted[r]) <= Cardinality(Mined[r])
    <3>1. \A r \in Kinds : Counted[r] \subseteq Mined[r]
      BY DEF Counted
    <3>. QED  BY <1>1, <3>1, FewerOrMore
  <2>. QED  BY <1>1, <1>2, <1>3, <1>11, <2>1, <2>2, <2>3 DEF CountInv
<1>12. CASE SweepCount /\ UNCHANGED <<pc, cut>>
  <2>. DEFINE s == pending[pos]
  <2>1. s \in Sols /\ pc[s] = "sent" /\ Resolved(s)
    <3>1. pos \in 1..Len(pending)
      BY <1>12, LenProperties DEF SweepCount, TypeOK, AccountTypeOK
    <3>2. pending[pos] \in Sols
      BY <3>1, ElementOfSeq DEF TypeOK, AccountTypeOK
    <3>. QED  BY <1>12, <3>1, <3>2 DEF SweepCount, TrackedInv, Entries
  <2>2. s \in Outstanding /\ s \notin Outstanding' /\ Outstanding' \subseteq Outstanding
    BY <1>12, PassTracks
  <2>. HIDE DEF s
  <2>3. ASSUME NEW r \in Kinds
        PROVE  /\ Cardinality(Counted[r]) <= Cardinality(Counted'[r])
               /\ tx[s] = r => Cardinality(Counted[r]) + 1 <= Cardinality(Counted'[r])
    <3>1. Counted[r] \subseteq Counted'[r]
      BY <1>6, <2>2
    <3>2. tx[s] = r => s \in Counted'[r] /\ s \notin Counted[r]
      BY <2>1, <2>2, MinedStays DEF Counted, Mined, MinedAs
    <3>3. IsFiniteSet(Counted'[r])
      BY <1>1
    <3>. QED  BY <3>1, <3>2, <3>3, FewerOrMore
  <2>4. IF tx[s] = "ok" THEN confirmed' = confirmed + 1 /\ UNCHANGED reverted
                        ELSE reverted' = reverted + 1 /\ UNCHANGED confirmed
    BY <1>12 DEF SweepCount, s
  <2>5. tx[s] = "ok" \/ tx[s] = "reverted"
    BY <2>1 DEF Resolved
  <2>. QED  BY <1>1, <1>2, <1>4, <1>5, <1>7, <1>12, <2>3, <2>4, <2>5 DEF CountInv
<1>. QED  BY <1>9, <1>10, <1>11, <1>12, TrackedStep

\* The statistics count no confirmation and no revert that the node did not mine, one for
\* one, although the sweep shares its list with the calls; and no more than twice when an
\* interrupt cut a sweep short (submit.py:250-275, miner.py:256-259).
THEOREM CountsAreRealCorrect == Spec => []CountsAreReal
<1>1. TypeOK /\ TrackedInv /\ CountInv => CountsAreReal
  <2>. SUFFICES ASSUME TypeOK, CountInv PROVE CountsAreReal
    OBVIOUS
  <2>1. \A r \in Kinds : /\ Cardinality(Counted[r]) <= Cardinality(Mined[r])
                         /\ Cardinality(Counted[r]) \in Nat /\ Cardinality(Mined[r]) \in Nat
    <3>. TAKE r \in Kinds
    <3>1. Counted[r] \subseteq Mined[r] /\ IsFiniteSet(Mined[r])
      BY AccountAssumption, FS_Subset DEF Counted, Mined, MinedAs
    <3>. QED  BY <3>1, FewerOrMore
  <2>2. \A r \in Kinds : /\ Mined[r] = MinedAs(r)
                         /\ Before[r] = IF cut THEN Cardinality(Mined[r]) ELSE 0
    BY DEF Mined, Before
  <2>3. "ok" \in Kinds /\ "reverted" \in Kinds /\ confirmed \in Nat /\ reverted \in Nat
    BY DEF Kinds, TypeOK, AccountTypeOK
  <2>. QED  BY <2>1, <2>2, <2>3 DEF CountInv, CountsAreReal
<1>2. TypeOK /\ TrackedInv /\ CountInv /\ [Next]_vars => (TypeOK /\ TrackedInv /\ CountInv)'
  BY TypeOKNext, TrackedStep, CountNext
<1>. QED  BY <1>1, <1>2, TypeOKInit, CountInit, PTL DEF Spec

-----------------------------------------------------------------------------
(* The pool of submit() calls implements Submission.                       *)

PromiseInv == TypeOK /\ NodeInv /\ NoDoubleSubmit /\ Remembered /\ NonceBelow /\ NonceUnique

LEMMA PromiseInvInit == Init => PromiseInv
BY TypeOKInit, NodeInvInit, RememberedInit, NonceInit DEF PromiseInv

LEMMA PromiseInvNext == PromiseInv /\ [Next]_vars => PromiseInv'
BY TypeOKNext, NodeInvNext, RememberedNext, NonceNext DEF PromiseInv

\* The signed solutions of Submission are the reserved ones.
LEMMA SignedReserved == PromiseInv => Promise!Signed = Reserved
BY DEF PromiseInv, NodeInv, Promise!Signed, Promise!Unsigned, Reserved, None

\* A step that decides nothing.
LEMMA NothingDecided ==
    ASSUME UNCHANGED <<txn, chainNonce, dryRun>>,
           \A s \in Sols : /\ pc'[s] = "resynced" <=> pc[s] = "resynced"
                           /\ Fate(s)' = Fate(s)
    PROVE  UNCHANGED Promise!vars
BY DEF Promise!vars, Repeats

\* A call that has not reserved a nonce is refused.
LEMMA CallRefused ==
    ASSUME PromiseInv, NEW S \in SUBSET Sols, S # {},
           UNCHANGED <<txn, chainNonce, dryRun>>,
           \A s \in Sols : /\ pc'[s] = "resynced" <=> pc[s] = "resynced"
                           /\ Fate(s)' = IF s \in S THEN "refused" ELSE Fate(s),
           \A s \in S : Fate(s) = "waiting"
    PROVE  Promise!Refuse(S)
BY DEF Promise!Refuse, Promise!Waiting, Promise!Becomes, Repeats

\* A call that has not come to its third critical section goes on or is refused.
LEMMA CallGoesOn ==
    ASSUME PromiseInv, NEW s \in Sols, pc[s] \in {"queued", "fees", "gas", "reserve"},
           UNCHANGED <<tx, txn, chainNonce, dryRun>>,
           NEW place \in {"fees", "gas", "reserve", "skipped", "duplicate", "epoch-cap", "raised"},
           Goto(s, place)
    PROVE  [Promise!Next]_(Promise!vars)
<1>. USE DEF PromiseInv, TypeOK
<1>1. Fate(s) = "waiting"
  BY DEF NodeInv, Fate, Resolved, Reserved, Results
<1>2. \A t \in Sols \ {s} : pc'[t] = pc[t] /\ Fate(t)' = Fate(t)
  BY DEF Goto, Fate, Resolved, Reserved
<1>3. pc'[s] = place /\ Fate(s)' = IF place \in Results THEN "refused" ELSE "waiting"
  BY <1>1 DEF Goto, Fate, Resolved, Reserved, Results, NodeInv
<1>4. \A t \in Sols : pc'[t] = "resynced" <=> pc[t] = "resynced"
  BY <1>2, <1>3
<1>5. CASE place \in Results
  <2>1. Promise!Refuse({s})
    BY <1>1, <1>2, <1>3, <1>4, <1>5, CallRefused
  <2>. QED  BY <2>1 DEF Promise!Next
<1>6. CASE place \notin Results
  BY <1>1, <1>2, <1>3, <1>4, <1>6, NothingDecided
<1>. QED  BY <1>5, <1>6

\* A call past its third critical section goes on: nothing new is decided.
LEMMA SignedGoesOn ==
    ASSUME PromiseInv, NEW s \in Reserved, Goto(s, pc'[s]),
           pc[s] # "resynced", pc'[s] # "resynced", s \in Reserved',
           UNCHANGED <<txn, chainNonce, dryRun>>,
           \A t \in Sols : Resolved(t) \/ Resolved(t)' => tx'[t] = tx[t]
    PROVE  UNCHANGED Promise!vars
<1>. USE DEF PromiseInv, TypeOK
<1>1. s \in Sols
  BY DEF Reserved
<1>2. ASSUME NEW t \in Sols
      PROVE  (pc'[t] = "resynced" <=> pc[t] = "resynced") /\ Fate(t)' = Fate(t)
  <2>1. CASE t = s
    BY <2>1 DEF Fate, Resolved
  <2>2. CASE t # s
    <3>1. pc'[t] = pc[t]
      BY <1>1, <2>2 DEF Goto
    <3>2. t \in Reserved' <=> t \in Reserved
      BY <3>1 DEF Reserved
    <3>. QED  BY <3>1, <3>2 DEF Fate, Resolved
  <2>. QED  BY <2>1, <2>2
<1>. QED  BY <1>2, NothingDecided

\* Critical section 3 signs: its proof is new or its epoch forgotten, its nonce is new unless
\* nonces are given out again.
LEMMA CallSigns ==
    ASSUME PromiseInv, PromiseInv', NEW s \in Sols, Reserve(s) \/ ReserveDry(s)
    PROVE  Promise!Sign({s})
<1>. USE DEF PromiseInv, TypeOK, AccountTypeOK
<1>1. /\ pc[s] = "reserve" /\ pc' = [pc EXCEPT ![s] = IF dryRun THEN "dry-run" ELSE "send"]
      /\ \A t \in Sols \ {s} : txn'[t] = txn[t]
      /\ UNCHANGED <<tx, chainNonce, dryRun>>
  BY DEF Reserve, ReserveDry, Goto, nodeVars, control
<1>2. Reserved' = Reserved \union {s} /\ s \notin Reserved
  BY <1>1 DEF Reserved
<1>3. Fate(s) = "waiting" /\ Fate(s)' = "signed"
  BY <1>1, <1>2 DEF Fate, Resolved, NodeInv, Results
<1>4. \A t \in Sols \ {s} : Fate(t)' = Fate(t)
  BY <1>1, <1>2 DEF Fate, Resolved
<1>5. Repeats' = Repeats
  BY <1>1 DEF Repeats
<1>6. ASSUME NEW t \in Reserved, Promise!SameProof(s, t) PROVE Promise!Forgotten(s)
  <2>1. Key(s) = Key(t) /\ t \in Sols
    BY <1>6 DEF Promise!SameProof, Key, Reserved
  <2>2. Key(s) \notin used
    BY DEF Reserve, ReserveDry, StillNew, AlreadyUsed
  <2>3. PICK r \in Reserved : EpochOf[r] >= EpochOf[t] + 2
    BY <2>1, <2>2 DEF Remembered
  <2>. QED  BY <1>6, <2>3, SignedReserved DEF Promise!Forgotten, Promise!SameProof
<1>7. txn'[s] \in Nat
  <2>1. txn'[s] # None /\ txn'[s] \in Nat \union {None}
    BY <1>2 DEF NodeInv
  <2>. QED  BY <2>1
<1>8. ASSUME ~Repeats, NEW t \in Reserved PROVE txn'[s] # txn'[t]
  <2>1. ~dryRun' /\ \A r \in Sols : pc'[r] # "resynced"
    BY <1>1, <1>8 DEF Repeats
  <2>2. s # t /\ s \in Reserved' /\ t \in Reserved'
    BY <1>2
  <2>. QED  BY <2>1, <2>2 DEF NonceUnique
<1>. QED
  BY <1>1, <1>3, <1>4, <1>5, <1>6, <1>7, <1>8, SignedReserved
  DEF Promise!Sign, Promise!Waiting, Promise!Becomes

\* The account's next transaction is mined.
LEMMA CallMined ==
    ASSUME PromiseInv, NEW s \in Sols, Include(s), UNCHANGED <<pc, dryRun>>
    PROVE  Promise!Mine({s})
<1>. USE DEF PromiseInv, TypeOK, AccountTypeOK
<1>1. /\ tx[s] = "pooled" /\ txn[s] = chainNonce /\ tx'[s] \in {"ok", "reverted"}
      /\ chainNonce' = chainNonce + 1 /\ UNCHANGED txn
      /\ \A t \in Sols \ {s} : tx'[t] = tx[t]
  BY DEF Include
<1>2. Reserved' = Reserved /\ s \in Reserved /\ Repeats' = Repeats
  BY <1>1 DEF Reserved, NodeInv, Repeats
<1>3. Fate(s) = "signed" /\ Fate(s)' \in {"ok", "reverted"}
  BY <1>1, <1>2 DEF Fate, Resolved
<1>4. \A t \in Sols \ {s} : Fate(t)' = Fate(t)
  BY <1>1, <1>2 DEF Fate, Resolved
<1>5. Promise!Cardinality({s}) = 1
  <2>1. Cardinality({s}) = 1
    BY FS_Singleton
  <2>2. Promise!Cardinality({s}) = Cardinality({s})
    BY DEF Promise!Cardinality, Cardinality, Promise!IsFiniteSet, IsFiniteSet
  <2>. QED  BY <2>1, <2>2
<1>6. chainNonce..(chainNonce + 1 - 1) = {chainNonce}
  OBVIOUS
<1>7. {txn[t] : t \in {s}} = {chainNonce}
  BY <1>1
<1>. QED  BY <1>1, <1>2, <1>3, <1>4, <1>5, <1>6, <1>7 DEF Promise!Mine

LEMMA CallStep ==
    ASSUME PromiseInv, PromiseInv', NEW s \in Sols, Check(s) \/ Proceed(s)
    PROVE  [Promise!Next]_(Promise!vars)
<1>. USE DEF PromiseInv, TypeOK
<1>1. CASE Check(s)
  <2>1. /\ UNCHANGED <<tx, txn, chainNonce, dryRun>> /\ pc[s] = "queued"
        /\ \E place \in {"fees", "duplicate", "epoch-cap"} : Goto(s, place)
    BY <1>1 DEF Check, accountVars, nodeVars, control
  <2>. QED  BY <2>1, CallGoesOn
<1>2. CASE Fees(s) \/ GasLimit(s) \/ Recheck(s) \/ ReserveRaises(s)
  <2>1. /\ UNCHANGED <<tx, txn, chainNonce, dryRun>> /\ pc[s] \in {"fees", "gas", "reserve"}
        /\ \E place \in {"gas", "reserve", "skipped", "duplicate", "raised"} :
              pc' = [pc EXCEPT ![s] = place]
    BY <1>2 DEF Fees, GasLimit, Recheck, ReserveRaises, Goto, accountVars, nodeVars, control
  <2>2. CASE \E place \in {"reserve", "skipped", "duplicate", "raised"} : Goto(s, place)
    BY <2>1, <2>2, CallGoesOn
  <2>3. CASE Goto(s, "gas")
    <3>1. \A t \in Sols : /\ pc'[t] = "resynced" <=> pc[t] = "resynced"
                          /\ Fate(t)' = Fate(t)
      BY <2>1, <2>3 DEF Goto, Fate, Resolved, Reserved, Results
    <3>. QED  BY <2>1, <3>1, NothingDecided
  <2>. QED  BY <2>1, <2>2, <2>3 DEF Goto
<1>3. CASE Reserve(s) \/ ReserveDry(s)
  BY <1>3, CallSigns DEF Promise!Next
<1>4. CASE SendAccepted(s) \/ SendTimesOut(s)
  <2>1. /\ pc[s] = "send" /\ UNCHANGED <<txn, chainNonce, dryRun>>
        /\ pc'[s] \in {"record", "failed"} /\ Goto(s, pc'[s])
        /\ s \in Reserved /\ s \in Reserved'
    BY <1>4 DEF SendAccepted, SendTimesOut, Accept, Goto, Reserved, control
  <2>2. \A t \in Sols : Resolved(t) \/ Resolved(t)' => tx'[t] = tx[t]
    BY <1>4, <2>1 DEF SendAccepted, SendTimesOut, Accept, Resolved, NodeInv, AccountTypeOK
  <2>. QED  BY <2>1, <2>2, SignedGoesOn
<1>5. CASE SendFails(s) \/ SendRefused(s) \/ ResyncRaises(s) \/ Record(s)
  <2>1. /\ pc[s] \in {"send", "hiccup", "record"} /\ UNCHANGED <<tx, txn, chainNonce, dryRun>>
        /\ pc'[s] \in {"failed", "hiccup", "unsynced", "sent"} /\ Goto(s, pc'[s])
    BY <1>5 DEF SendFails, SendRefused, ResyncRaises, Record, Goto, accountVars, nodeVars, control
  <2>2. s \in Reserved /\ s \in Reserved'
    BY <2>1 DEF Reserved
  <2>. QED  BY <2>1, <2>2, SignedGoesOn
<1>6. CASE Resync(s)
  <2>1. /\ pc' = [pc EXCEPT ![s] = "resynced"] /\ pc[s] = "hiccup"
        /\ UNCHANGED <<tx, txn, chainNonce>>
    BY <1>6 DEF Resync, Goto, nodeVars
  <2>2. Reserved' = Reserved /\ s \in Reserved
    BY <2>1 DEF Reserved
  <2>3. \A t \in Sols : Fate(t)' = Fate(t)
    BY <2>1, <2>2 DEF Fate, Resolved
  <2>4. Repeats' = TRUE
    BY <2>1 DEF Repeats
  <2>. QED  BY <2>1, <2>3, <2>4 DEF Promise!Next, Promise!Resync
<1>. QED  BY <1>1, <1>2, <1>3, <1>4, <1>5, <1>6 DEF Proceed

\* Every step of the submitter, the miner and the node is one of Submission, or none.
LEMMA PromiseStep == PromiseInv /\ PromiseInv' /\ [Next]_vars => [Promise!Next]_(Promise!vars)
<1>. SUFFICES ASSUME PromiseInv, PromiseInv', [Next]_vars PROVE [Promise!Next]_(Promise!vars)
  OBVIOUS
<1>1. CASE UNCHANGED <<pc, tx, txn, chainNonce, dryRun>>
  BY <1>1, NothingDecided DEF Fate, Resolved, Reserved
<1>2. CASE BlockLoopSweep \/ Interrupt \/ FinalSweep \/ Close \/ UNCHANGED vars
  <2>1. UNCHANGED <<pc, tx, txn, chainNonce, dryRun>>
    BY <1>2 DEF BlockLoopSweep, SweepStart, SweepCount, SweepMiss, SweepEnd, SweepAssign,
       Interrupt, FinalSweep, Close, accountVars, nodeVars, control, vars
  <2>. QED  BY <1>1, <2>1
<1>3. CASE CancelQueued
  <2>. DEFINE S == {s \in Sols : pc[s] = "queued"}
  <2>1. UNCHANGED <<tx, txn, chainNonce, dryRun>>
    BY <1>3 DEF CancelQueued, accountVars, nodeVars
  <2>2. \A s \in Sols : /\ s \in S => Fate(s) = "waiting" /\ pc'[s] = "cancelled"
                        /\ s \notin S => pc'[s] = pc[s]
    BY <1>3 DEF CancelQueued, Fate, Resolved, Reserved, Results, PromiseInv, NodeInv
  <2>3. \A s \in Sols : /\ pc'[s] = "resynced" <=> pc[s] = "resynced"
                        /\ s \in Reserved' <=> s \in Reserved
    BY <2>2 DEF Reserved
  <2>4. \A s \in Sols : Fate(s)' = IF s \in S THEN "refused" ELSE Fate(s)
    BY <2>1, <2>2, <2>3 DEF Fate, Resolved, Results, Reserved, PromiseInv, NodeInv
  <2>5. CASE S = {}
    BY <2>1, <2>3, <2>4, <2>5, NothingDecided
  <2>6. CASE S # {}
    <3>1. Promise!Refuse(S)
      BY <2>1, <2>2, <2>3, <2>4, <2>6, CallRefused
    <3>. QED  BY <3>1 DEF Promise!Next
  <2>. QED  BY <2>5, <2>6
<1>4. ASSUME NEW s \in Sols, Include(s), UNCHANGED <<pc, control>>
      PROVE  [Promise!Next]_(Promise!vars)
  BY <1>4, CallMined DEF Promise!Next, control
<1>5. CASE Foreign /\ UNCHANGED <<pc, control>>
  <2>1. /\ chainNonce' = chainNonce + 1 /\ UNCHANGED <<pc, txn, dryRun>>
        /\ \A s \in Sols : Resolved(s)' = Resolved(s) /\ (Resolved(s) => tx'[s] = tx[s])
    BY <1>5 DEF Foreign, Resolved, control
  <2>2. Repeats' = Repeats /\ \A s \in Sols : Fate(s)' = Fate(s)
    BY <2>1 DEF Repeats, Fate, Reserved
  <2>. QED  BY <2>1, <2>2 DEF Promise!Next, Promise!Elsewhere
<1>6. ASSUME NEW s \in Sols, Evict(s), UNCHANGED <<pc, control>>
      PROVE  [Promise!Next]_(Promise!vars)
  <2>1. /\ UNCHANGED <<pc, txn, dryRun, chainNonce>>
        /\ \A t \in Sols : Resolved(t)' = Resolved(t) /\ (Resolved(t) => tx'[t] = tx[t])
    BY <1>6 DEF Evict, Resolved, control, PromiseInv, TypeOK, AccountTypeOK
  <2>2. \A t \in Sols : Fate(t)' = Fate(t)
    BY <2>1 DEF Fate, Reserved
  <2>. QED  BY <2>1, <2>2, NothingDecided
<1>7. ASSUME NEW s \in Sols, Check(s) \/ Proceed(s) PROVE [Promise!Next]_(Promise!vars)
  BY <1>7, CallStep
<1>. QED  BY <1>2, <1>3, <1>4, <1>5, <1>6, <1>7 DEF Next, Shutdown, Node

\* Whatever the calls, the node and the shutdown do, one solution has one fate, a proof is
\* signed once and mined in nonce order: the submitter implements Submission
\* (submit.py:149-220, miner.py:242-267).
THEOREM KeepsPromiseCorrect == Spec => KeepsPromise
<1>1. Init => Promise!Init
  BY DEF Init, AccountInit, Promise!Init, Promise!Unsigned, Fate, Resolved, Reserved, Results,
     Repeats, None
<1>2. Spec => []PromiseInv
  BY PromiseInvInit, PromiseInvNext, PTL DEF Spec
<1>. QED  BY <1>1, <1>2, PromiseStep, PTL DEF Spec, KeepsPromise, Promise!Spec
=============================================================================
