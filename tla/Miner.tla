------------------------------- MODULE Miner -------------------------------
(***************************************************************************)
(* The pipeline of src/hashminer/miner.py from the chain to the submit     *)
(* pool: the block loop reads mining_state(), derives the challenge        *)
(* (chain.py) and re-points the GPU farm (gpu.py); the workers search and  *)
(* put their hits on the farm's results queue; the drain thread takes a    *)
(* hit, drops it if its epoch is not the job's, verifies it (verify.py)    *)
(* against a snapshot of the job, and hands it to the submit pool.         *)
(*                                                                         *)
(* The challenge of the miner's address in epoch e is written e: it is the *)
(* keccak of the address and the epoch.  What a nonce hashes to under it   *)
(* is the constant Work.                                                   *)
(***************************************************************************)
EXTENDS Integers, FiniteSets, Sequences

CONSTANTS
    Workers,        \* the GPU workers' threads
    Pows,           \* PoW nonces
    Work,           \* Work[e][x]: the digest of nonce x under the challenge of epoch e
    Diffs,          \* values currentDifficulty takes
    EpochBlocks,    \* EPOCH_BLOCKS of the contract
    MaxBlock,       \* bound: the chain's height; blocks after it change nothing
    MaxHits,        \* bound: hits the workers put on the queue
    MaxJobs,        \* bound: jobs the farm is given
    Lag             \* how many blocks the node that answers may be behind

ASSUME MinerAssumption ==
    /\ EpochBlocks \in Nat \ {0}
    /\ MaxBlock \in Nat \ {0}
    /\ MaxHits \in Nat
    /\ MaxJobs \in Nat
    /\ Lag \in Nat
    /\ Diffs \subseteq Nat
    /\ Work \in [0..(MaxBlock \div EpochBlocks) -> [Pows -> Nat]]

VARIABLES
    chain,          \* currentDifficulty after each block, from block 1 on
    last,           \* follow_blocks: the block number it yielded last
    st,             \* the MiningState the block loop has read
    curEpoch,       \* challenge_for: epoch of the block number it read to cross-check
    challenge,      \* the challenge it returned
    localOk,        \* ChainClient._challenge_local_ok
    job,            \* Miner._job
    farmJob,        \* GpuFarm._job
    gen,            \* GpuFarm._job_gen
    lpc,            \* where the block loop stands
    started,        \* the farm's and the drain thread have been started
    stop,           \* Miner._stop
    wpc, wjob, wgen, whit,  \* each worker: place, job and generation it took, its hit
    results,        \* GpuFarm.results
    hits,           \* history: how many hits were put on it
    found,          \* the hit the drain thread holds
    djob,           \* its snapshot of the job
    dpc,            \* where it stands
    pool            \* solutions handed to the submit pool

loopVars == <<last, st, curEpoch, challenge, localOk, job, farmJob, gen, lpc, started, stop>>
workerVars == <<wpc, wjob, wgen, whit, hits>>
drainVars == <<found, djob, dpc, pool>>
vars == <<chain, loopVars, workerVars, results, drainVars>>

NoJob == [challenge |-> -1, difficulty |-> 0, epoch |-> -1]

Height == Len(chain)

EpochAt(b) == b \div EpochBlocks

\* The blocks a node that answers now may take for the latest.
Views == {b \in 1..Height : b >= Height - Lag}

Epochs == 0..EpochAt(MaxBlock)

Jobs == [challenge : Epochs, difficulty : Diffs, epoch : Epochs]

Solutions == [pow : Pows, challenge : Epochs, difficulty : Diffs, epoch : Epochs]

Hits == [pow : Pows, epoch : Epochs]

TypeOK ==
    /\ chain \in Seq(Diffs) /\ Height \in 1..MaxBlock
    /\ last \in 0..MaxBlock
    /\ st \in [epoch : Epochs, difficulty : Diffs \union {0}]
    /\ curEpoch \in Epochs
    /\ challenge \in Epochs
    /\ localOk \in {"unknown", "yes", "no"}
    /\ job \in Jobs \union {NoJob}
    /\ farmJob \in Jobs \union {NoJob}
    /\ gen \in Nat
    /\ lpc \in {"poll", "state", "challenge", "cross-check", "on-chain", "set", "farm"}
    /\ started \in BOOLEAN
    /\ stop \in BOOLEAN
    /\ wpc \in [Workers -> {"idle", "busy", "emit"}]
    /\ wjob \in [Workers -> Jobs \union {NoJob}]
    /\ wgen \in [Workers -> Nat]
    /\ whit \in [Workers -> Pows \union {0}]
    /\ results \in Seq(Hits)
    /\ hits \in 0..MaxHits
    /\ found \in Hits \union {NoJob}
    /\ djob \in Jobs \union {NoJob}
    /\ dpc \in {"get", "verify", "done"}
    /\ pool \subseteq Solutions

Init ==
    /\ \E d \in Diffs : chain = <<d>>
    /\ last = 0
    /\ st = [epoch |-> 0, difficulty |-> 0]
    /\ curEpoch = 0
    /\ challenge = 0
    /\ localOk = "unknown"
    /\ job = NoJob
    /\ farmJob = NoJob
    /\ gen = 0
    /\ lpc = "state"
    /\ started = FALSE
    /\ stop = FALSE
    /\ wpc = [w \in Workers |-> "idle"]
    /\ wjob = [w \in Workers |-> NoJob]
    /\ wgen = [w \in Workers |-> 0]
    /\ whit = [w \in Workers |-> 0]
    /\ results = << >>
    /\ hits = 0
    /\ found = NoJob
    /\ djob = NoJob
    /\ dpc = "get"
    /\ pool = {}

-----------------------------------------------------------------------------
(* The chain.                                                              *)

\* A block; mints in it may have retargeted the difficulty.
NewBlock ==
    /\ Height < MaxBlock
    /\ \E d \in Diffs : chain' = Append(chain, d)
    /\ UNCHANGED <<loopVars, workerVars, results, drainVars>>

-----------------------------------------------------------------------------
(* The block loop, from run()'s first mining_state() on.                   *)

LoopUnchanged == UNCHANGED <<chain, workerVars, results, drainVars>>

\* follow_blocks yields when the number it reads differs from the last; once the chain has
\* reached its bound, blocks beyond it keep coming.
Poll ==
    /\ lpc = "poll"
    /\ ~stop
    /\ \E b \in Views : (b # last \/ Height = MaxBlock) /\ last' = b
    /\ lpc' = "state"
    /\ UNCHANGED <<st, curEpoch, challenge, localOk, job, farmJob, gen, started, stop>>
    /\ LoopUnchanged

\* Mutant: epoch and difficulty are read by two calls.
ReadTorn ==
    /\ lpc = "state"
    /\ ~stop
    /\ \E b, c \in Views : st' = [epoch |-> EpochAt(b), difficulty |-> chain[c]]
    /\ lpc' = "challenge"
    /\ UNCHANGED <<last, curEpoch, challenge, localOk, job, farmJob, gen, started, stop>>
    /\ LoopUnchanged

\* miningState() is one call, so epoch and difficulty are of one block.
ReadState ==
    /\ lpc = "state"
    /\ ~stop
    /\ \E b \in Views : st' = [epoch |-> EpochAt(b), difficulty |-> chain[b]]
    /\ lpc' = "challenge"
    /\ UNCHANGED <<last, curEpoch, challenge, localOk, job, farmJob, gen, started, stop>>
    /\ LoopUnchanged

\* mining_state() failed on every endpoint: this block is skipped.
ReadFails ==
    /\ lpc = "state"
    /\ ~stop
    /\ started
    /\ lpc' = "poll"
    /\ UNCHANGED <<last, st, curEpoch, challenge, localOk, job, farmJob, gen, started, stop>>
    /\ LoopUnchanged

\* challenge_for(): derived locally once that has been checked against the contract ...
LocalChallenge ==
    /\ lpc = "challenge"
    /\ ~stop
    /\ localOk = "yes"
    /\ challenge' = st.epoch
    /\ lpc' = "set"
    /\ UNCHANGED <<last, st, curEpoch, localOk, job, farmJob, gen, started, stop>>
    /\ LoopUnchanged

\* ... which the first call does, with a block number and a challenge read one after the other ...
BeginCrossCheck ==
    /\ lpc = "challenge"
    /\ ~stop
    /\ localOk = "unknown"
    /\ \E b \in Views : curEpoch' = EpochAt(b)
    /\ lpc' = "cross-check"
    /\ UNCHANGED <<last, st, challenge, localOk, job, farmJob, gen, started, stop>>
    /\ LoopUnchanged

CrossCheck ==
    /\ lpc = "cross-check"
    /\ ~stop
    /\ \E b \in Views :
          LET agrees == EpochAt(b) = curEpoch
          IN  /\ localOk' = IF agrees THEN "yes" ELSE "no"
              /\ challenge' = IF agrees THEN st.epoch ELSE EpochAt(b)
              /\ lpc' = IF agrees \/ st.epoch = curEpoch THEN "set" ELSE "on-chain"
    /\ UNCHANGED <<last, st, curEpoch, job, farmJob, gen, started, stop>>
    /\ LoopUnchanged

\* ... or, when they disagreed, read from the contract every time: the challenge of the
\* epoch the chain is in, not of the epoch that was asked for.
OnChainChallenge ==
    /\ lpc = "on-chain" \/ (lpc = "challenge" /\ localOk = "no")
    /\ ~stop
    /\ \E b \in Views : challenge' = EpochAt(b)
    /\ lpc' = "set"
    /\ UNCHANGED <<last, st, curEpoch, localOk, job, farmJob, gen, started, stop>>
    /\ LoopUnchanged

\* The locals of an iteration are dead when it ends.
ForgetReads ==
    /\ st' = [epoch |-> 0, difficulty |-> 0]
    /\ curEpoch' = 0
    /\ challenge' = 0

\* Mutant: difficulty and epoch swapped.
SwappedJob == [challenge |-> challenge, difficulty |-> st.epoch, epoch |-> st.difficulty]

NewJob == [challenge |-> challenge, difficulty |-> st.difficulty, epoch |-> st.epoch]

\* Mutant: a retarget is not noticed.
EpochRolled == job.epoch # st.epoch

Changed == job # NewJob

\* _set_job_from_state() under Miner._lock; the farm is told outside it.
SetJob ==
    /\ lpc = "set"
    /\ ~stop
    /\ \/ /\ Changed
          /\ gen < MaxJobs
          /\ job' = NewJob
          /\ lpc' = "farm"
          /\ UNCHANGED <<st, challenge, curEpoch>>
       \/ /\ ~Changed
          /\ lpc' = "poll"
          /\ ForgetReads
          /\ UNCHANGED job
    /\ UNCHANGED <<last, localOk, farmJob, gen, started, stop>>
    /\ LoopUnchanged

\* Mutant: the farm keeps the job it has while the epoch is the same.
KeptJob == IF farmJob.epoch = st.epoch THEN farmJob ELSE NewJob

FarmNewJob == NewJob

\* Mutant: only a new epoch is a new generation.
EpochGen == IF farmJob.epoch = st.epoch THEN gen ELSE gen + 1

NextGen == gen + 1

\* GpuFarm.set_job(); the first time, run() then starts the farm and the drain thread.
FarmSetJob ==
    /\ lpc = "farm"
    /\ ~stop
    /\ farmJob' = FarmNewJob
    /\ gen' = NextGen
    /\ started' = TRUE
    /\ lpc' = "poll"
    /\ ForgetReads
    /\ UNCHANGED <<last, localOk, job, stop>>
    /\ LoopUnchanged

\* Supply exhausted, Ctrl-C, or a challenge read that fails on every endpoint, which nothing
\* catches: run() goes to shutdown().
Stop ==
    /\ ~stop
    /\ stop' = TRUE
    /\ UNCHANGED <<last, st, curEpoch, challenge, localOk, job, farmJob, gen, lpc, started>>
    /\ LoopUnchanged

LoopStep ==
    \/ Poll \/ ReadState \/ LocalChallenge \/ BeginCrossCheck \/ CrossCheck
    \/ OnChainChallenge \/ SetJob \/ FarmSetJob

-----------------------------------------------------------------------------
(* A worker thread: GpuFarm._run_worker().                                 *)

WorkerUnchanged == UNCHANGED <<chain, loopVars, drainVars>>

TakeJob(w) ==
    /\ started
    /\ ~stop
    /\ wpc[w] = "idle"
    /\ wjob' = [wjob EXCEPT ![w] = farmJob]
    /\ wgen' = [wgen EXCEPT ![w] = gen]
    /\ wpc' = [wpc EXCEPT ![w] = "busy"]
    /\ UNCHANGED <<whit, hits, results>>
    /\ WorkerUnchanged

\* The batch has a hit, or says so (a kernel bug, a bit flip), and the generation is still
\* the one the worker took.
Hit(w) ==
    /\ wpc[w] = "busy"
    /\ hits < MaxHits
    /\ gen = wgen[w]
    /\ \E x \in Pows : whit' = [whit EXCEPT ![w] = x]
    /\ hits' = hits + 1
    /\ wpc' = [wpc EXCEPT ![w] = "emit"]
    /\ UNCHANGED <<wjob, wgen, results>>
    /\ WorkerUnchanged

BatchDone(w) ==
    /\ wpc' = [wpc EXCEPT ![w] = "idle"]
    /\ wjob' = [wjob EXCEPT ![w] = NoJob]
    /\ wgen' = [wgen EXCEPT ![w] = 0]
    /\ whit' = [whit EXCEPT ![w] = 0]

\* No hit, a device error, or hits under a job that has changed.
NoHit(w) ==
    /\ wpc[w] = "busy"
    /\ BatchDone(w)
    /\ UNCHANGED <<hits, results>>
    /\ WorkerUnchanged

\* results.put(), some time after the generation was looked at.
Put(w) ==
    /\ wpc[w] = "emit"
    /\ results' = Append(results, [pow |-> whit[w], epoch |-> wjob[w].epoch])
    /\ BatchDone(w)
    /\ UNCHANGED hits
    /\ WorkerUnchanged

WorkerStep(w) == TakeJob(w) \/ Hit(w) \/ NoHit(w) \/ Put(w)

-----------------------------------------------------------------------------
(* The drain thread and the pool.                                          *)

\* Where an iteration leaves the thread: _stop is looked at between two of them only, and a
\* get that is waiting when it is set may still take a hit.
NextIteration == IF stop THEN "done" ELSE "get"

\* A hit is taken and the job read; a hit of another epoch is dropped.
DrainGet ==
    /\ started
    /\ dpc = "get"
    /\ results # << >>
    /\ results' = Tail(results)
    /\ IF Head(results).epoch = job.epoch
          THEN found' = Head(results) /\ djob' = job /\ dpc' = "verify"
          ELSE dpc' = NextIteration /\ UNCHANGED <<found, djob>>
    /\ UNCHANGED <<chain, loopVars, workerVars, pool>>

\* Mutant: the comparison is not strict.
VerifyLoose(ch, x, difficulty) == Work[ch][x] <= difficulty

Verify(ch, x, difficulty) == Work[ch][x] < difficulty

\* verify() with the snapshot, and submit_pool.submit() if it holds.
DrainVerify ==
    /\ dpc = "verify"
    /\ dpc' = NextIteration
    /\ pool' = IF Verify(djob.challenge, found.pow, djob.difficulty)
                  THEN pool \union {[pow |-> found.pow, challenge |-> djob.challenge,
                                     difficulty |-> djob.difficulty, epoch |-> djob.epoch]}
                  ELSE pool
    /\ found' = NoJob
    /\ djob' = NoJob
    /\ UNCHANGED <<chain, loopVars, workerVars, results>>

Next ==
    \/ NewBlock
    \/ LoopStep \/ ReadFails \/ Stop
    \/ \E w \in Workers : WorkerStep(w)
    \/ DrainGet \/ DrainVerify

Spec == Init /\ [][Next]_vars

-----------------------------------------------------------------------------
(* Fairness.  Every thread keeps running: each wait in it has a timeout.   *)
(* Blocks keep coming.  A read that can succeed does not fail for ever.    *)

FairSpec ==
    /\ Spec
    /\ WF_vars(NewBlock)
    /\ WF_vars(LoopStep \/ ReadFails)
    /\ SF_vars(ReadState)
    /\ \A w \in Workers : WF_vars(WorkerStep(w))
    /\ WF_vars(DrainGet \/ DrainVerify)

-----------------------------------------------------------------------------
(* Properties.                                                             *)

\* A worker that finds the generation it took unchanged still has the farm's job: the counter
\* is bumped with every change of the job and read with it (gpu.py:255-261, 269-271, 301).
GenerationIsSound ==
    \A w \in Workers : wpc[w] = "busy" /\ wgen[w] = gen => wjob[w] = farmJob

\* The miner's job, which the drain thread verifies against, and the farm's, which the
\* workers search, differ only while the block loop is between setting the one and the other
\* (miner.py:92-99).
JobsAgree == ~stop /\ lpc # "farm" => job = farmJob

\* No torn job: epoch and difficulty are those of one block, and so is the challenge once the
\* local derivation is trusted (chain.py:127-136, 145-163; miner.py:89-99).
JobIsOfOneBlock ==
    job # NoJob =>
        /\ \E b \in 1..Height : job.epoch = EpochAt(b) /\ job.difficulty = chain[b]
        /\ localOk = "yes" => job.challenge = job.epoch

\* Whatever the GPU reports and whichever job it was found under, a solution that reaches the
\* pool is proof of work at the difficulty it carries, for the challenge of the epoch it is
\* tagged with once local challenges are trusted, and one block of the chain had that epoch
\* and that difficulty, although the job may change twice between the hit and the check
\* (miner.py:178-200, verify.py:33-42).
SolutionIsProof ==
    \A s \in pool :
        /\ Work[s.challenge][s.pow] < s.difficulty
        /\ \E b \in 1..Height : s.epoch = EpochAt(b) /\ s.difficulty = chain[b]
        /\ localOk = "yes" => s.challenge = s.epoch

\* The farm ends up searching what the chain asks for, however often it changed and however
\* the reads failed, unless the miner stops (miner.py:159-172).
FarmFollowsChain ==
    <>(stop \/ [](/\ farmJob.epoch = EpochAt(MaxBlock)
                  /\ farmJob.challenge = EpochAt(MaxBlock)
                  /\ farmJob.difficulty = chain[Height]))
=============================================================================
