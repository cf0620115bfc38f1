---------------------------- MODULE MinerProofs ----------------------------
(* Theorems about Miner for every number of workers, every difficulty and  *)
(* epoch length, every lag of the nodes and any hash, with the proofs      *)
(* TLAPS checks.                                                           *)
EXTENDS Miner, SequenceTheorems, TLAPS

-----------------------------------------------------------------------------
(* The inductive invariant, by concern.                                    *)

OfOneBlock(j, c) == \E b \in 1..Len(c) : j.epoch = EpochAt(b) /\ j.difficulty = c[b]

\* What the block loop holds between two of its steps.
LoopInv ==
    /\ lpc \in {"challenge", "cross-check", "on-chain", "set", "farm"} => OfOneBlock(st, chain)
    /\ lpc = "farm" => job = NewJob
    /\ job # NoJob => OfOneBlock(job, chain)
    /\ started => farmJob \in Jobs

\* What a worker and the drain thread hold while they are at work.
HeldInv ==
    /\ \A w \in Workers : wpc[w] # "idle" => wjob[w] \in Jobs
    /\ \A w \in Workers : wpc[w] = "emit" => whit[w] \in Pows
    /\ dpc = "verify" => found \in Hits /\ djob \in Jobs

\* No worker is ahead of the farm.
GenerationInv ==
    /\ \A w \in Workers : wgen[w] <= gen
    /\ GenerationIsSound

OwnChallenge(j) == j.challenge = j.epoch

\* Unless the cross-check has failed, every challenge is that of the epoch beside it, from
\* the block loop's locals to the solutions in the pool.
TrustInv ==
    /\ lpc = "cross-check" => localOk = "unknown"
    /\ lpc = "on-chain" => localOk = "no"
    /\ localOk # "no" => /\ lpc \in {"set", "farm"} => challenge = st.epoch
                         /\ OwnChallenge(job)
                         /\ OwnChallenge(djob)
                         /\ \A s \in pool : OwnChallenge(s)

IsSolution(s) == Work[s.challenge][s.pow] < s.difficulty

\* The job a hit is verified against, and so a solution, is of one block too.
PoolInv ==
    /\ dpc = "verify" => OfOneBlock(djob, chain)
    /\ \A s \in pool : IsSolution(s) /\ OfOneBlock(s, chain)

IndInv == TypeOK /\ LoopInv /\ HeldInv /\ JobsAgree /\ GenerationInv /\ TrustInv /\ PoolInv

-----------------------------------------------------------------------------
(* Facts about the operators.                                              *)

\* Every block the chain may have is in one of the epochs that are counted.
LEMMA EpochBound == \A b \in 0..MaxBlock : EpochAt(b) \in Epochs
<1>1. ASSUME NEW a \in Nat, NEW b \in Nat, NEW k \in Nat \ {0}, a <= b
      PROVE  a \div k \in 0..(b \div k)
  <2>1. a \div k <= b \div k
    BY <1>1
  <2>2. a \div k \in Nat /\ b \div k \in Nat
    OBVIOUS
  <2>. QED  BY <2>1, <2>2
<1>. QED  BY <1>1, MinerAssumption DEF EpochAt, Epochs

LEMMA FirstEpoch == 0 \in Epochs
<1>1. 0 \div EpochBlocks = 0
  BY MinerAssumption
<1>. QED  BY <1>1, EpochBound, MinerAssumption DEF EpochAt

\* A block a node takes for the latest exists.
LEMMA ViewsType ==
    ASSUME TypeOK, NEW b \in Views
    PROVE  b \in 1..Height /\ b \in 1..MaxBlock /\ chain[b] \in Diffs /\ EpochAt(b) \in Epochs
<1>1. b \in 1..Height /\ b \in 1..MaxBlock
  <2>1. b \in 1..Height /\ Height \in 1..MaxBlock
    BY DEF Views, TypeOK
  <2>. QED  BY <2>1, MinerAssumption
<1>2. chain[b] \in Diffs
  BY <1>1, ElementOfSeq DEF TypeOK, Height
<1>. QED  BY <1>1, <1>2, EpochBound

\* There is no job without an epoch.
LEMMA NoJobIsNone == NoJob \notin Jobs /\ \A h \in Hits : h.epoch # NoJob.epoch
BY MinerAssumption DEF NoJob, Jobs, Hits, Epochs

\* A state that one block answered makes a job.
LEMMA NewJobType ==
    ASSUME TypeOK, OfOneBlock(st, chain)
    PROVE  NewJob \in Jobs /\ OfOneBlock(NewJob, chain)
<1>1. PICK b \in 1..Len(chain) : st.epoch = EpochAt(b) /\ st.difficulty = chain[b]
  BY DEF OfOneBlock
<1>2. st.difficulty \in Diffs /\ st.epoch \in Epochs /\ challenge \in Epochs
  BY <1>1, ElementOfSeq DEF TypeOK, Height
<1>3. NewJob \in Jobs
  BY <1>2 DEF NewJob, Jobs
<1>. QED  BY <1>1, <1>3 DEF OfOneBlock, NewJob

-----------------------------------------------------------------------------
(* The initial states.                                                     *)

LEMMA IndInit == Init => IndInv
<1>. SUFFICES ASSUME Init PROVE IndInv
  OBVIOUS
<1>1. PICK d \in Diffs : chain = <<d>>
  BY DEF Init
<1>2. chain \in Seq(Diffs) /\ Height = 1
  BY <1>1 DEF Height
<1>3. 0 \in Epochs
  BY FirstEpoch
<1>4. << >> \in Seq(Hits)
  BY EmptySeq
<1>5. TypeOK
  <2>1. Height \in 1..MaxBlock /\ 0 \in 0..MaxBlock /\ 0 \in 0..MaxHits
    BY <1>2, MinerAssumption
  <2>2. st \in [epoch : Epochs, difficulty : Diffs \union {0}]
    BY <1>3 DEF Init
  <2>. QED  BY <1>2, <1>3, <1>4, <2>1, <2>2 DEF Init, TypeOK
<1>6. LoopInv /\ HeldInv /\ JobsAgree
  BY DEF Init, LoopInv, HeldInv, JobsAgree
<1>7. GenerationInv /\ TrustInv /\ PoolInv
  BY DEF Init, GenerationInv, GenerationIsSound, TrustInv, OwnChallenge, NoJob, PoolInv
<1>. QED  BY <1>5, <1>6, <1>7 DEF IndInv

-----------------------------------------------------------------------------
(* Type correctness.                                                       *)

LEMMA TypeOKNext == TypeOK /\ LoopInv /\ HeldInv /\ [Next]_vars => TypeOK'
<1>. SUFFICES ASSUME TypeOK, LoopInv, HeldInv, [Next]_vars PROVE TypeOK'
  OBVIOUS
<1>. USE DEF TypeOK, Height, loopVars, workerVars, drainVars, LoopUnchanged,
         WorkerUnchanged
<1>1. CASE NewBlock
  <2>1. PICK d \in Diffs : chain' = Append(chain, d)
    BY <1>1 DEF NewBlock
  <2>2. chain' \in Seq(Diffs) /\ Len(chain') = Len(chain) + 1
    BY <2>1, AppendProperties
  <2>3. Len(chain') \in 1..MaxBlock
    BY <1>1, <2>2, MinerAssumption DEF NewBlock
  <2>4. UNCHANGED <<loopVars, workerVars, results, drainVars>>
    BY <1>1 DEF NewBlock
  <2>5. /\ UNCHANGED <<last, st, curEpoch, challenge, localOk, job, farmJob, gen, lpc>>
        /\ UNCHANGED <<started, stop, wpc, wjob, wgen, whit, hits, results, found, djob, dpc, pool>>
    BY <2>4
  <2>. QED  BY <2>2, <2>3, <2>5
<1>2. CASE Poll
  BY <1>2, ViewsType DEF Poll
<1>3. CASE ReadState
  <2>1. st' \in [epoch : Epochs, difficulty : Diffs \union {0}]
    BY <1>3, ViewsType DEF ReadState
  <2>. QED  BY <1>3, <2>1 DEF ReadState
<1>4. CASE ReadFails \/ LocalChallenge \/ Stop
  <2>1. CASE ReadFails
    BY <2>1 DEF ReadFails
  <2>2. CASE LocalChallenge
    BY <2>2 DEF LocalChallenge
  <2>3. CASE Stop
    BY <2>3 DEF Stop
  <2>. QED  BY <1>4, <2>1, <2>2, <2>3
<1>5. CASE BeginCrossCheck \/ OnChainChallenge
  BY <1>5, ViewsType DEF BeginCrossCheck, OnChainChallenge
<1>6. CASE CrossCheck
  <2>1. challenge' \in Epochs /\ localOk' \in {"yes", "no"} /\ lpc' \in {"set", "on-chain"}
    BY <1>6, ViewsType DEF CrossCheck
  <2>. QED  BY <1>6, <2>1 DEF CrossCheck
<1>7. CASE SetJob
  <2>1. NewJob \in Jobs
    BY <1>7, NewJobType DEF SetJob, LoopInv
  <2>2. 0 \in Epochs
    BY FirstEpoch
  <2>3. /\ job' \in Jobs \union {NoJob} /\ lpc' \in {"farm", "poll"}
        /\ st' \in [epoch : Epochs, difficulty : Diffs \union {0}]
        /\ challenge' \in Epochs /\ curEpoch' \in Epochs
    BY <1>7, <2>1, <2>2 DEF SetJob, ForgetReads
  <2>. QED  BY <1>7, <2>3 DEF SetJob
<1>8. CASE FarmSetJob
  <2>1. NewJob \in Jobs
    BY <1>8, NewJobType DEF FarmSetJob, LoopInv
  <2>2. 0 \in Epochs
    BY FirstEpoch
  <2>3. farmJob' \in Jobs /\ gen' \in Nat
    BY <1>8, <2>1 DEF FarmSetJob, FarmNewJob, NextGen
  <2>4. /\ st' \in [epoch : Epochs, difficulty : Diffs \union {0}]
        /\ challenge' \in Epochs /\ curEpoch' \in Epochs
    BY <1>8, <2>2 DEF FarmSetJob, ForgetReads
  <2>. QED  BY <1>8, <2>3, <2>4 DEF FarmSetJob
<1>9. ASSUME NEW w \in Workers, TakeJob(w) PROVE TypeOK'
  BY <1>9 DEF TakeJob
<1>10. ASSUME NEW w \in Workers, Hit(w) PROVE TypeOK'
  BY <1>10, MinerAssumption DEF Hit
<1>11. ASSUME NEW w \in Workers, NoHit(w) PROVE TypeOK'
  BY <1>11 DEF NoHit, BatchDone
<1>12. ASSUME NEW w \in Workers, Put(w) PROVE TypeOK'
  <2>1. [pow |-> whit[w], epoch |-> wjob[w].epoch] \in Hits
    BY <1>12 DEF Put, HeldInv, Jobs, Hits
  <2>2. results' \in Seq(Hits)
    BY <1>12, <2>1, AppendProperties DEF Put
  <2>. QED  BY <1>12, <2>2 DEF Put, BatchDone
<1>13. CASE DrainGet
  <2>1. Head(results) \in Hits /\ Tail(results) \in Seq(Hits)
    BY <1>13, HeadTailProperties DEF DrainGet
  <2>. QED  BY <1>13, <2>1 DEF DrainGet, NextIteration
<1>14. CASE DrainVerify
  <2>1. [pow |-> found.pow, challenge |-> djob.challenge,
         difficulty |-> djob.difficulty, epoch |-> djob.epoch] \in Solutions
    BY <1>14 DEF DrainVerify, HeldInv, Jobs, Hits, Solutions
  <2>2. pool' \subseteq Solutions
    BY <1>14, <2>1 DEF DrainVerify
  <2>. QED  BY <1>14, <2>2 DEF DrainVerify, NextIteration
<1>15. CASE UNCHANGED vars
  BY <1>15 DEF vars
<1>. QED
  BY <1>1, <1>2, <1>3, <1>4, <1>5, <1>6, <1>7, <1>8, <1>9, <1>10, <1>11, <1>12, <1>13, <1>14, <1>15
  DEF Next, LoopStep, WorkerStep

-----------------------------------------------------------------------------
(* The block loop.                                                         *)

\* A block that is there stays: what was of one block is of one block.
LEMMA OfOneBlockStays ==
    ASSUME TypeOK, [Next]_vars, NEW j, OfOneBlock(j, chain)
    PROVE  OfOneBlock(j, chain')
<1>1. PICK b \in 1..Len(chain) : j.epoch = EpochAt(b) /\ j.difficulty = chain[b]
  BY DEF OfOneBlock
<1>2. CASE NewBlock
  <2>1. PICK d \in Diffs : chain' = Append(chain, d)
    BY <1>2 DEF NewBlock
  <2>2. Len(chain') = Len(chain) + 1 /\ Len(chain) \in Nat /\ chain'[b] = chain[b]
    BY <1>1, <2>1, AppendProperties, LenProperties DEF TypeOK, Height
  <2>. QED  BY <1>1, <2>2 DEF OfOneBlock, Height
<1>3. CASE chain' = chain
  BY <1>1, <1>3 DEF OfOneBlock, Height
<1>4. CASE ~NewBlock
  <2>1. chain' = chain
    BY <1>4 DEF Next, LoopStep, WorkerStep, Poll, ReadState, ReadFails, LocalChallenge,
       BeginCrossCheck, CrossCheck, OnChainChallenge, SetJob, FarmSetJob, Stop, TakeJob, Hit,
       NoHit, Put, DrainGet, DrainVerify, LoopUnchanged, WorkerUnchanged, vars
  <2>. QED  BY <1>3, <2>1
<1>. QED  BY <1>2, <1>4

\* A node answers with the state of one block.
LEMMA ReadIsOfOneBlock ==
    ASSUME TypeOK, ReadState
    PROVE  OfOneBlock(st', chain)
BY DEF ReadState, OfOneBlock, Views, Height

LEMMA LoopInvNext == TypeOK /\ LoopInv /\ [Next]_vars => LoopInv'
<1>. SUFFICES ASSUME TypeOK, LoopInv, [Next]_vars PROVE LoopInv'
  OBVIOUS
<1>. DEFINE reading == {"challenge", "cross-check", "on-chain", "set", "farm"}
<1>1. job # NoJob => OfOneBlock(job, chain')
  BY OfOneBlockStays DEF LoopInv
<1>2. lpc \in reading => OfOneBlock(st, chain')
  BY OfOneBlockStays DEF LoopInv
<1>. USE DEF loopVars, LoopUnchanged, WorkerUnchanged
<1>3. CASE ReadState
  <2>1. OfOneBlock(st', chain')
    BY <1>3, ReadIsOfOneBlock DEF ReadState
  <2>. QED  BY <1>1, <1>3, <2>1 DEF ReadState, LoopInv
<1>4. CASE Poll \/ ReadFails
  BY <1>1, <1>4 DEF Poll, ReadFails, LoopInv
<1>5. CASE LocalChallenge \/ BeginCrossCheck \/ CrossCheck \/ OnChainChallenge
  <2>1. /\ lpc \in reading /\ lpc' # "farm"
        /\ UNCHANGED <<st, job, farmJob, started, chain>>
    BY <1>5 DEF LocalChallenge, BeginCrossCheck, CrossCheck, OnChainChallenge
  <2>. QED  BY <1>1, <1>2, <2>1 DEF LoopInv
<1>6. CASE SetJob
  <2>1. CASE job' = NewJob /\ lpc' = "farm" /\ UNCHANGED <<st, challenge>>
    <3>1. OfOneBlock(NewJob, chain)
      BY <1>6, NewJobType DEF SetJob, LoopInv
    <3>2. NewJob' = NewJob
      BY <2>1 DEF NewJob
    <3>. QED  BY <1>2, <1>6, <2>1, <3>1, <3>2 DEF SetJob, LoopInv
  <2>2. CASE lpc' = "poll" /\ UNCHANGED job
    BY <1>1, <1>6, <2>2 DEF SetJob, LoopInv
  <2>. QED  BY <1>6, <2>1, <2>2 DEF SetJob
<1>7. CASE FarmSetJob
  <2>1. NewJob \in Jobs
    BY <1>7, NewJobType DEF FarmSetJob, LoopInv
  <2>. QED  BY <1>1, <1>7, <2>1 DEF FarmSetJob, FarmNewJob, LoopInv
<1>8. CASE UNCHANGED <<lpc, st, challenge, job, farmJob, started>>
  BY <1>1, <1>2, <1>8 DEF LoopInv, NewJob
<1>9. CASE ~(ReadState \/ Poll \/ ReadFails \/ LocalChallenge \/ BeginCrossCheck \/ CrossCheck
             \/ OnChainChallenge \/ SetJob \/ FarmSetJob)
  <2>1. UNCHANGED <<lpc, st, challenge, job, farmJob, started>>
    BY <1>9 DEF Next, LoopStep, WorkerStep, NewBlock, Stop, TakeJob, Hit, NoHit, Put, DrainGet,
       DrainVerify, vars
  <2>. QED  BY <1>8, <2>1
<1>. QED  BY <1>3, <1>4, <1>5, <1>6, <1>7, <1>9

-----------------------------------------------------------------------------
(* The workers and the drain thread.                                       *)

LEMMA HeldInvNext == TypeOK /\ LoopInv /\ HeldInv /\ [Next]_vars => HeldInv'
<1>. SUFFICES ASSUME TypeOK, LoopInv, HeldInv, [Next]_vars PROVE HeldInv'
  OBVIOUS
<1>. USE DEF HeldInv, WorkerUnchanged, drainVars
<1>1. ASSUME NEW w \in Workers, TakeJob(w) PROVE HeldInv'
  BY <1>1 DEF TakeJob, LoopInv, TypeOK
<1>2. ASSUME NEW w \in Workers, Hit(w) PROVE HeldInv'
  BY <1>2 DEF Hit, TypeOK
<1>3. ASSUME NEW w \in Workers, NoHit(w) \/ Put(w) PROVE HeldInv'
  <2>1. BatchDone(w) /\ UNCHANGED drainVars
    BY <1>3 DEF NoHit, Put
  <2>. QED  BY <2>1 DEF BatchDone, TypeOK
<1>4. CASE DrainGet
  <2>1. CASE Head(results).epoch = job.epoch
    <3>1. Head(results) \in Hits
      BY <1>4, HeadTailProperties DEF DrainGet, TypeOK
    <3>2. job \in Jobs
      BY <2>1, <3>1, NoJobIsNone DEF TypeOK
    <3>. QED  BY <1>4, <2>1, <3>1, <3>2 DEF DrainGet, workerVars
  <2>2. CASE Head(results).epoch # job.epoch
    BY <1>4, <2>2 DEF DrainGet, NextIteration, workerVars
  <2>. QED  BY <2>1, <2>2
<1>5. CASE DrainVerify
  BY <1>5 DEF DrainVerify, NextIteration, workerVars
<1>6. CASE UNCHANGED <<workerVars, drainVars>>
  BY <1>6 DEF workerVars
<1>7. CASE ~(DrainGet \/ DrainVerify \/ \E w \in Workers : WorkerStep(w))
  <2>1. UNCHANGED <<workerVars, drainVars>>
    BY <1>7 DEF Next, LoopStep, NewBlock, Poll, ReadState, ReadFails, LocalChallenge,
       BeginCrossCheck, CrossCheck, OnChainChallenge, SetJob, FarmSetJob, Stop, LoopUnchanged,
       vars
  <2>. QED  BY <1>6, <2>1
<1>. QED  BY <1>1, <1>2, <1>3, <1>4, <1>5, <1>7 DEF WorkerStep

-----------------------------------------------------------------------------
(* The job of the miner and that of the farm.                              *)

LEMMA JobsAgreeNext == LoopInv /\ JobsAgree /\ [Next]_vars => JobsAgree'
<1>. SUFFICES ASSUME LoopInv, JobsAgree, [Next]_vars PROVE JobsAgree'
  OBVIOUS
<1>. USE DEF JobsAgree
<1>1. CASE SetJob
  BY <1>1 DEF SetJob
<1>2. CASE FarmSetJob
  BY <1>2 DEF FarmSetJob, FarmNewJob, LoopInv
<1>3. CASE Stop
  BY <1>3 DEF Stop
<1>4. CASE UNCHANGED <<job, farmJob>> /\ (stop' = stop) /\ (lpc = "farm" => lpc' = "farm")
  BY <1>4
<1>5. CASE ~(SetJob \/ FarmSetJob \/ Stop)
  <2>1. UNCHANGED <<job, farmJob>> /\ (stop' = stop) /\ (lpc = "farm" => lpc' = "farm")
    BY <1>5 DEF Next, LoopStep, WorkerStep, NewBlock, Poll, ReadState, ReadFails,
       LocalChallenge, BeginCrossCheck, CrossCheck, OnChainChallenge, TakeJob, Hit, NoHit, Put,
       DrainGet, DrainVerify, loopVars, WorkerUnchanged, vars
  <2>. QED  BY <1>4, <2>1
<1>. QED  BY <1>1, <1>2, <1>3, <1>5

-----------------------------------------------------------------------------
(* The generation.                                                         *)

LEMMA GenerationNext == TypeOK /\ GenerationInv /\ [Next]_vars => GenerationInv'
<1>. SUFFICES ASSUME TypeOK, GenerationInv, [Next]_vars PROVE GenerationInv'
  OBVIOUS
<1>. USE DEF GenerationInv, GenerationIsSound, TypeOK
<1>1. CASE FarmSetJob
  <2>1. gen' = gen + 1 /\ UNCHANGED <<wpc, wgen, wjob>>
    BY <1>1 DEF FarmSetJob, NextGen, LoopUnchanged, workerVars
  <2>2. \A w \in Workers : wgen'[w] <= gen' /\ wgen'[w] # gen'
    BY <2>1
  <2>. QED  BY <2>2
<1>2. ASSUME NEW w \in Workers, TakeJob(w) PROVE GenerationInv'
  BY <1>2 DEF TakeJob, WorkerUnchanged, loopVars
<1>3. ASSUME NEW w \in Workers, Hit(w) PROVE GenerationInv'
  BY <1>3 DEF Hit, WorkerUnchanged, loopVars
<1>4. ASSUME NEW w \in Workers, NoHit(w) \/ Put(w) PROVE GenerationInv'
  <2>1. BatchDone(w) /\ UNCHANGED <<gen, farmJob>>
    BY <1>4 DEF NoHit, Put, WorkerUnchanged, loopVars
  <2>. QED  BY <2>1 DEF BatchDone
<1>5. CASE UNCHANGED <<workerVars, gen, farmJob>>
  BY <1>5 DEF workerVars
<1>6. CASE ~(FarmSetJob \/ \E w \in Workers : WorkerStep(w))
  <2>1. UNCHANGED <<workerVars, gen, farmJob>>
    BY <1>6 DEF Next, LoopStep, NewBlock, Poll, ReadState, ReadFails, LocalChallenge,
       BeginCrossCheck, CrossCheck, OnChainChallenge, SetJob, Stop, DrainGet, DrainVerify,
       LoopUnchanged, loopVars, vars
  <2>. QED  BY <1>5, <2>1
<1>. QED  BY <1>1, <1>2, <1>3, <1>4, <1>6 DEF WorkerStep

-----------------------------------------------------------------------------
(* Challenges and solutions.                                               *)

LEMMA TrustNext == TypeOK /\ TrustInv /\ [Next]_vars => TrustInv'
<1>. SUFFICES ASSUME TypeOK, TrustInv, [Next]_vars PROVE TrustInv'
  OBVIOUS
<1>. USE DEF TrustInv, OwnChallenge, LoopUnchanged, drainVars
<1>1. CASE Poll \/ ReadState \/ ReadFails
  BY <1>1 DEF Poll, ReadState, ReadFails
<1>2. CASE LocalChallenge \/ BeginCrossCheck
  BY <1>2 DEF LocalChallenge, BeginCrossCheck
<1>3. CASE CrossCheck
  <2>1. /\ localOk = "unknown"
        /\ lpc' = "set" \/ (lpc' = "on-chain" /\ localOk' = "no")
        /\ localOk' # "no" => challenge' = st.epoch
        /\ UNCHANGED <<st, job, drainVars>>
    BY <1>3 DEF CrossCheck
  <2>. QED  BY <2>1
<1>4. CASE OnChainChallenge
  BY <1>4 DEF OnChainChallenge
<1>5. CASE SetJob
  BY <1>5 DEF SetJob, NewJob
<1>6. CASE FarmSetJob \/ Stop
  BY <1>6 DEF FarmSetJob, Stop
<1>7. CASE NewBlock \/ \E w \in Workers : WorkerStep(w)
  <2>1. UNCHANGED <<loopVars, drainVars>>
    BY <1>7 DEF NewBlock, WorkerStep, TakeJob, Hit, NoHit, Put, WorkerUnchanged
  <2>. QED  BY <2>1 DEF loopVars
<1>8. CASE DrainGet
  <2>1. UNCHANGED <<lpc, localOk, challenge, st, job, pool>> /\ djob' \in {job, djob}
    BY <1>8 DEF DrainGet, loopVars
  <2>. QED  BY <2>1
<1>9. CASE DrainVerify
  <2>1. UNCHANGED <<lpc, localOk, challenge, st, job>> /\ djob' = NoJob
    BY <1>9 DEF DrainVerify, loopVars
  <2>2. \A s \in pool' : s \in pool \/ (s.challenge = djob.challenge /\ s.epoch = djob.epoch)
    BY <1>9 DEF DrainVerify
  <2>. QED  BY <2>1, <2>2 DEF NoJob
<1>10. CASE UNCHANGED vars
  BY <1>10 DEF vars, loopVars
<1>. QED
  BY <1>1, <1>2, <1>3, <1>4, <1>5, <1>6, <1>7, <1>8, <1>9, <1>10 DEF Next, LoopStep

LEMMA PoolNext == TypeOK /\ LoopInv /\ PoolInv /\ [Next]_vars => PoolInv'
<1>. SUFFICES ASSUME TypeOK, LoopInv, PoolInv, [Next]_vars PROVE PoolInv'
  OBVIOUS
<1>1. \A s \in pool : IsSolution(s) /\ OfOneBlock(s, chain')
  BY OfOneBlockStays DEF PoolInv
<1>2. dpc = "verify" => OfOneBlock(djob, chain')
  BY OfOneBlockStays DEF PoolInv
<1>3. CASE DrainVerify
  <2>1. dpc = "verify" /\ dpc' # "verify" /\ chain' = chain
    BY <1>3 DEF DrainVerify, NextIteration
  <2>2. ASSUME NEW s \in pool', s \notin pool PROVE IsSolution(s) /\ OfOneBlock(s, chain')
    <3>1. /\ s = [pow |-> found.pow, challenge |-> djob.challenge,
                  difficulty |-> djob.difficulty, epoch |-> djob.epoch]
          /\ Verify(djob.challenge, found.pow, djob.difficulty)
      BY <1>3, <2>2 DEF DrainVerify
    <3>. QED  BY <1>2, <2>1, <3>1 DEF IsSolution, Verify, OfOneBlock
  <2>. QED  BY <1>1, <2>1, <2>2 DEF PoolInv
<1>4. CASE DrainGet
  <2>1. UNCHANGED <<pool, chain>> /\ (dpc' = "verify" => djob' = job)
    BY <1>4 DEF DrainGet, NextIteration
  <2>2. dpc' = "verify" => job # NoJob
    <3>1. Head(results) \in Hits
      BY <1>4 DEF DrainGet, TypeOK
    <3>. QED  BY <1>4, <3>1, NoJobIsNone DEF DrainGet, NextIteration
  <2>. QED  BY <1>1, <2>1, <2>2 DEF LoopInv, PoolInv
<1>5. CASE UNCHANGED drainVars
  BY <1>1, <1>2, <1>5 DEF PoolInv, drainVars
<1>6. CASE ~(DrainVerify \/ DrainGet)
  <2>1. UNCHANGED drainVars
    BY <1>6 DEF Next, LoopStep, WorkerStep, NewBlock, Poll, ReadState, ReadFails,
       LocalChallenge, BeginCrossCheck, CrossCheck, OnChainChallenge, SetJob, FarmSetJob, Stop,
       TakeJob, Hit, NoHit, Put, LoopUnchanged, WorkerUnchanged, vars
  <2>. QED  BY <1>5, <2>1
<1>. QED  BY <1>3, <1>4, <1>6

-----------------------------------------------------------------------------
(* The theorems.                                                           *)

LEMMA IndNext == IndInv /\ [Next]_vars => IndInv'
BY TypeOKNext, LoopInvNext, HeldInvNext, JobsAgreeNext, GenerationNext, TrustNext, PoolNext
DEF IndInv

LEMMA IndInvCorrect == Spec => []IndInv
BY IndInit, IndNext, PTL DEF Spec

\* Every variable keeps the type of the field or local it stands for, the sentinels before
\* the first job included.
THEOREM MinerTypeCorrect == Spec => []TypeOK
BY IndInvCorrect, PTL DEF IndInv

\* A worker whose generation is still the farm's has the farm's job, for any number of
\* workers and jobs (gpu.py:255-261, 269-271, 301).
THEOREM GenerationIsSoundCorrect == Spec => []GenerationIsSound
BY IndInvCorrect, PTL DEF IndInv, GenerationInv

\* Except between the two assignments of one iteration of the block loop, the drain thread
\* verifies against the job the workers search (miner.py:92-99).
THEOREM JobsAgreeCorrect == Spec => []JobsAgree
BY IndInvCorrect, PTL DEF IndInv

\* Epoch and difficulty of a job are of one block, and so is its challenge once the local
\* derivation is trusted, whatever block each node answers from (chain.py:127-136, 145-163).
THEOREM JobIsOfOneBlockCorrect == Spec => []JobIsOfOneBlock
<1>1. IndInv => JobIsOfOneBlock
  BY DEF IndInv, LoopInv, OfOneBlock, TrustInv, OwnChallenge, JobIsOfOneBlock, Height
<1>. QED  BY <1>1, IndInvCorrect, PTL

\* What the pool is handed is proof of work for the challenge and the difficulty it carries,
\* which one block of the chain had, whatever hash, whatever the GPU reports and whichever job
\* it was found under (miner.py:178-200, verify.py:33-42).
THEOREM SolutionIsProofCorrect == Spec => []SolutionIsProof
<1>1. IndInv => SolutionIsProof
  BY DEF IndInv, TrustInv, OwnChallenge, PoolInv, IsSolution, OfOneBlock, SolutionIsProof, Height
<1>. QED  BY <1>1, IndInvCorrect, PTL
=============================================================================
