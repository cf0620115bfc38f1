# Formal models of the HASH miner

TLA+ models of `hashminer`, a GPU miner for the proof-of-work token contract
`reference/Hash.sol`, with TLC runs and machine-checked proofs. Paths in this
file are relative to the repository's root, line numbers are of the commit the
models were translated from; `PROJECT.json` maps every definition to its lines.

## The system

| Component | State it keeps | Operations | What makes it correct |
|---|---|---|---|
| `miner.py` `Miner` | current job, stop event, bundle buffer, submit pool | `run`, block loop, drain loop, `_maybe_flush_bundle`, `shutdown` | workers and verifier agree on the job; a solution sent is a proof for the epoch it is tagged with; what is found is handled |
| `gpu.py` `GpuFarm`, `GpuWorker` | job, generation, results queue, OpenCL buffers, batch size | `set_job`, `_run_worker`, `search_batch`, `stop` | a result under a replaced job is recognised |
| `verify.py`, `constants.py` | none | `verify`, `compute_challenge`, `epoch_for_block` | same relation as the contract's |
| `submit.py` `Submitter` | account tx nonce, used PoW nonces by epoch, pending transactions, statistics | `submit`, `poll_receipts`, `record_pending`, `reserve_tx_nonces` | no nonce signed twice, no hole in tx nonces, cap respected up to the race, honest statistics |
| `bundle.py` `BundleSubmitter` | signer only; uses the submitter's state | `send`, `_fan_out` | consecutive nonces, everything broadcast is recorded |
| `chain.py` `ChainClient` | endpoint index, web3 and contract, cross-check verdict, base-fee cache | `_do` with rotation, `mining_state`, `challenge_for`, `follow_blocks`, `base_fee` | a job comes from one block; one endpoint that answers is enough; a price is within the caps |
| `kernels/keccak256.cl` | hit counter and slots | `keccak_pow_search` | 256-bit carry and comparison, no write past the slots |
| `config.py` | configuration | `load`, `validate`, `rpc_chain`, `resolved_account` | precedence default < toml < environment < flags; mining for the account that signs |
| `cli.py` | none | `devices`, `selftest`, `bench`, `run` | the self-test accepts a device that works; a run is refused or forced dry without a key |
| `abi.py`, `scripts/fetch_abi.py` | none | data, and the script that writes it | |
| `reference/Hash.sol` | supply, difficulty, proofs, block caps, ETH | `mintGenesis`, `seedPool`, `partialSeed`, `mine`, swap hooks, `claimFees` | supply cap, backed rewards, one mint per proof, timely retargets |

How they interact. The main thread runs the block loop: it polls the block
number, reads `miningState()`, derives the challenge, sets `Miner._job` and then
the farm's job, flushes the bundle buffer and polls receipts. One thread per
GPU takes the farm's job with its generation, searches a batch and puts hits on
a queue. The drain thread takes a hit, compares its epoch with the job's,
verifies it on the CPU and gives the solution to a thread pool
(`submit_concurrency` workers, each running `Submitter.submit`) or, when
bundles are on, to a buffer that the block loop turns into batches with
consecutive transaction nonces. `Submitter` has one lock, held only in short
sections; everything slow happens between them. `poll_receipts` takes no lock.
Nothing is persisted: a restart begins from nothing, so there is no crash
recovery to model.

What is hard here: the races between pool threads (check, slow reads, check
again), their rotations of one unlocked RPC client, the account nonce shared by calls of which any may fail or be refused,
answers that are lost after the node acted, a receipt sweep beside concurrent
appends, two jobs set one after the other, reads from nodes that lag, epochs
that roll between two reads, Ctrl-C at any point, and in the contract the
boundaries of eras, retargets and supply. `PROJECT.json` lists these hazards at
their lines, with the properties that answer for each, or why none does.

## Modules

| Module | Models | Extended by |
|---|---|---|
| `Ordered` | what a list comprehension keeps of a list, in the list's order (operators only) | `BundleSubmitter`, `Config`, `GpuWorker` |
| `Account` | state of `Submitter` shared by both ways of sending, its bookkeeping and receipt sweep, the node and the account's nonce on chain | `Submitter`, `BundleSubmitter` |
| `Submitter` | `submit()` in a pool of workers, the block loop's sweeps, `shutdown()` | `MCSubmitter`, `SubmitterProofs` |
| `BundleSubmitter` | drain thread's buffer, flush, `send()`, fan-out, builders, receipts | `MCBundle`, `BundleProofs` |
| `Submission` | abstract: what a verified solution is promised, whichever path submits it | instantiated by `Submitter` and `BundleSubmitter` |
| `Miner` | chain, block loop, job derivation, GPU workers, drain thread, hand-over to the pool | `MCMiner`, `MinerProofs` |
| `Config` | the layers of the configuration; key, account, address (operators only) | `Cli` |
| `GpuWorker` | one worker: device selection, sizes, a launch of the kernel, adaptive batch | `Cli`, `GpuWorkerProofs` |
| `ChainClient` | `_do` and `_rotate` used by several threads, base-fee cache, prices of both paths, life of the main thread | `Cli`, `MCChain`, `ChainClientProofs` |
| `Cli` | the program: its four commands over the three modules above | `MCCli`, `CliProofs` |
| `HashContract` | the contract, one action per successful transaction | `MCHashContract`, `HashContractProofs` |
| `Ledger` | abstract: where tokens come from and what mining pays | instantiated by `HashContract` |
| `SubmitterProofs`, `SubmitterNodeProofs` | theorems about `Submitter`: the calls among themselves; the calls together with the node | the second extends the first |
| `BundleProofs`, `MinerProofs`, `HashContractProofs` | theorems about one module each | |
| `GpuWorkerProofs`, `ChainClientProofs` | theorems about a worker and about a client, on their own | `CliProofs` |
| `CliProofs` | theorems about the program as a whole | |

### Account and Submitter

A solution is an element of `Sols`, with the epoch `EpochOf` and PoW nonce
`PowOf`; its transaction has the same identity, because each call signs at most
one. `_used` is the set of its (epoch, nonce) pairs, and `_pending` a sequence.
`pc[s]` says where the call for `s` stands: each critical section of
`submit()` is one action (`Check`, `Recheck`/`Reserve`/`ReserveDry`, `Resync`,
`Record`), and between them the call is at a named place while others run.
Prices and gas amounts are not represented: `Fees` and `GasLimit` go on, skip
or, for a base fee that no endpoint returns, raise. `SendTimesOut` is the
transaction that the node took although the caller saw an exception.
`ReserveRaises` and `ResyncRaises` are the failures of
`get_transaction_count` inside a critical section; the pool's wrapper
`_safe_submit` catches what leaves `submit()`.

The node (external to the repository, modelled from how the code uses it) has
at most one pooled transaction per nonce, mines the account's next nonce with
either status, may evict, and lets at most `MaxForeign` transactions of another
wallet through. A transaction whose nonce is below the account's, or equal to a
pooled one, may be refused with one of the three messages `submit()` looks
for; a replacement that pays more is accepted and the older transaction is gone.

`poll_receipts()` is entry by entry: `SweepCount`, `SweepMiss` (kept, or
dropped after ten minutes), then `SweepEnd` and, separately, `SweepAssign`. The
loop sees what is appended while it runs, as a Python list iteration does. The
age of an entry is not tracked, so a miss may keep or drop it at any time.

`Interrupt` covers the normal end of the loop and a Ctrl-C inside a sweep; the
history variable `cut` remembers the latter. `shutdown()` then cancels what is
queued, waits for running calls and polls once more.

### BundleSubmitter

The block loop's thread is `bpc`. `Flush(seenAt)` filters the buffer, in its order, with the
epoch of the block `seenAt` that `miningState()` was answered from, pops a
batch and aims it relative to the block that `eth_getBlock` returned later.
`ReserveBatch` reserves and signs; during the fan-out each public broadcast
succeeds or fails on its own, and a builder may or may not take the bundle. A
bundle lands only in its target block and only if its first nonce is next. An
interrupt in the fan-out still waits for its threads, as leaving the `with`
block does. The final sweep of `shutdown()` is in `Submitter` only.

### Submission

The abstract specification has no locks, calls, mempool or receipts: a solution
waits, is refused, or is signed, and what is signed is mined, successfully or
not, in the order of the account's nonces. `Sign` demands that no other
transaction is signed for the same proof (epoch and PoW nonce), unless the
epoch is one the program forgets, and, until `Resync`, that nonces are new.
`Submitter` and `BundleSubmitter` each give their mapping at the end of the
module: `Fate` from `pc` and the transaction's state on chain, `nonce` from
`txn`. The bundle path never reads its nonce again, so its mapping says
`repeats <- FALSE`, which is more than the pool promises; a dry run of the pool
does not count nonces up and is mapped to `repeats`. `KeepsPromise` in both is
the refinement. In the instances of the bundle path the PoW nonces differ,
since a random base of 192 bits is not drawn twice.

### Config, GpuWorker, ChainClient and Cli

`Cli` begins with any of `Invocations`, which says how the program was called,
with which file, environment, flags and key, and on which devices.

A configuration is a function from options to values, and a layer gives some of
them (`Config`). Options are those of the code's dataclasses; an instance may
leave out those that differ in nothing but their name. `ApplyFlags` comes after
`Valid`, as in `cli.py`: what a flag sets is not validated. `PrivateKey` lets an
environment variable that is blank but not empty hide the key file.

`GpuWorker` has one action per step of a work item: it misses, takes a number
from the counter (`Count`), and writes its slot if there is one (`Store`).
`Launch` clears the counter and not the slots. A nonce, a digest and a target
are four limbs, each with one of `Limb` values, and `Digest` is any function. The rounding
of the launch to whole work groups gives items past `n`, which must do nothing.

`ChainClient` takes `_do` apart into its reads and writes, because pool threads
and the main thread rotate one client without a lock: `ReadIndex` to
`WriteContract`. Requests to URLs outside `Steady` may fail at any attempt.
What the answers are, as far as the caller branches on it, is in `MainReturns`,
and what becomes of the main thread without an answer in `MainHandles`: most
failures are retried at the next poll, but that of the first `mining_state()`
and of a challenge ends the miner. `Priced` and `BundlePriced` are the two price
computations. The lagging nodes and torn reads of these requests are in
`Miner`; here `height` is the same at every endpoint.

`run` builds the client and the identity (`NewMiner`) and then is `ChainNext`.
`Refused` joins the three places that look at key, address, dry run and bundles
(`cli.py:194`, `miner.py:54`, `miner.py:63`). A Ctrl-C before the block loop
ends the process with nothing begun and is left out.

### Miner

The challenge of the miner in epoch `e` is written `e`, since a keccak of
address and epoch can be taken to be injective; `Work[e][x]` is the digest of
nonce `x` under it. A worker reports any nonce, proof or not, so that a kernel
error is covered, and at most one per batch: several are several batches as far
as the queue and the drain thread can tell. Every read of the block loop is
answered by a node that is at most `Lag` blocks behind, each read on its own.
`challenge_for` has its three ways: trusted local derivation, the
cross-check made by two separate reads, and the fallback. `SetJob` (under
`Miner._lock`) and `FarmSetJob` are separate actions, as are the generation
test `Hit` and the `Put` after it. `stop` is set by `shutdown()`, when the block
loop is over; the drain thread tests it between iterations only.

### HashContract

One action is one transaction that succeeds: `require` and `revert` conditions
are guards, so a transaction that reverts is absent. Transactions of one block
come in any order, with `NextBlock` between blocks. `RetargetReverts` keeps the two
overflows that can make `mine()` revert from inside `_adjustDifficulty`.
Amounts are counts of small units and a word ends at `MaxWord`. The swap
hooks are reduced to the ETH they take and
`partialSeed`'s delay is counted in blocks. `Gift` is an ERC-20 transfer to the
contract itself and `Receive` its `receive()`: both can disturb balances that
the contract reads. `Accepted` is the conjunction of all that must hold for
`mine()` not to revert, the balance that `_transfer` needs included; `Mine` adds
the assignments.

### Ledger

What a holder of HASH sees of the contract: `Sell` in the genesis sale, `Open`,
which doubles what was sold and sets the mining supply aside, `Pay`, and
`Give`, a transfer that nobody can take back. `Pay` is once per proof, for the
proofs of an epoch before those of the next, and pays the n-th of a schedule
that depends on nothing but how many proofs were paid; there are no blocks,
difficulties, caps or ETH. `HashContract` implements it with what the contract
holds taken apart into `Reserved`, the rewards to come, and the rest.

## Runs

All runs use two TLC workers and end within three minutes.

| Run | Instance | What it shows |
|---|---|---|
| `Submitter_roll` | three solutions, two with one PoW nonce and a third two epochs later; two workers, one foreign transaction | `KeepsPromise`: the pool implements `Submission`; `NoDoubleSubmit` (including the exception for pruned epochs, which is reached), `NoGap`, `NonceUnique`, `CountsAreReal` |
| `Submitter_cap` | three solutions of one epoch, cap 1, two workers, fairness | `EpochCapBound` (2 are let through and no more); every call gets a result, mined transactions leave the list, shutdown ends |
| `Submitter_lost` | two solutions, two workers | finding: an appended entry is lost |
| `Bundle_safety` | two solutions of epoch 0, one of epoch 1, batches of two, chain of two blocks | `KeepsPromise`: the bundle path implements `Submission`; everything broadcast is recorded, the list loses nothing; the nonces of batches of one and two are one run |
| `Bundle_live` | two solutions of epoch 0, batches of one, chain of two blocks, one transaction of another wallet, fairness | `BufferIsFlushed`: what a full batch leaves behind is kept until it is batched or dropped as used or of another epoch, and does not stay; nonces without overlap or hole and `KeepsPromise`, although the account's nonce moves under a path that does not read it again |
| `Bundle_dry` | two solutions, chain of one block, dry run | finding: a dry run broadcasts |
| `Bundle_stuck` | as above, fairness | finding: a failed broadcast leaves later nonces stuck |
| `Miner_safety` | two workers (symmetric), two nonces, difficulty 1 or 2, three blocks, epochs of two, lag 1 | job generation, agreement and integrity; only proofs are handed on |
| `Miner_live` | one worker, two hits, no lag, fairness | the farm follows the chain |
| `HashContract` | eras of 3 mints, retarget every 2, supply 13, reward 4, word 31 | supply, backing, proofs, caps, retargets, that `mine()` accepts what it should, and `KeepsLedger`: the contract implements `Ledger` |
| `Cli` | some 700 invocations; two devices; limbs of 8 values, launches of up to 5 nonces, 4 slots; two endpoints of which one may fail, main thread and one pool thread, three blocks | launches return hits and all of them up to the slots, the self-test passes, layers win in order, who mines signs; a call gives up only after a full pass if nothing rotated beside it, prices are within both caps, the miner starts and follows the chain while one endpoint answers |
| `Chain_cap` | `ChainClient` alone | finding: the bundle path ignores `max_fee_gwei` |

Bounds and why they suffice. (`Bundle_safety` has no transaction of another
wallet, with which its three solutions are too many states; `Bundle_live` has
two solutions for that, and batches of one, so that a flush finds more than it may
take. Batches of two are in `Bundle_safety`, batches of any size in the theorems.) Races between calls need two workers; the third
solution is the one that arrives after the state changed (next nonce, pruned
epoch, cap reached). One foreign transaction is enough for every refusal.
In the bundle path two batches are needed for runs of nonces to meet and one
epoch roll for the filter to drop a solution. `MaxHead`, `MaxBlock` and
`MaxHeight` bound the chain; where a block past the bound would only repeat,
it may still come (`Poll` in `Miner`). `MaxHits` and `MaxJobs` bound the
workers' hits and the farm's jobs; three blocks with two difficulties can give three
different jobs. In `HashContract` the height of 6 gives four epochs,
a supply of 13 with rewards of 4 and then 2 ends in the second era with a reward cut
to the 1 that is left (rewards halved to zero are beyond it, as they are with the
contract's own constants, whose supply ends in an earlier era); 31 as the largest word makes the overflow
of `old * 4` reachable. `MaxEth` and `MaxGift` only keep the balances finite.
In `Cli` every option is varied with the others at rest, since the code treats
options one by one, and the four that are looked at together (key, address, dry
run, bundles) in every combination. A limb of eight values with bases of 62 and
4095 carries out of two limbs and out of all four; five nonces that all hit
exceed four slots; a target with equal upper limbs needs the tie-break to the
last. Work groups of two leave one item past the end of a launch of three or five. Two
endpoints with two threads are the least at which a rotation can undo another;
base fees of 5, 4 and 3 are over `SkipAbove` in block 0, over `MaxFeeCap` after
multiplication in block 1, and allowed in block 2.
Deadlock is not checked because every system here may stop: a miner that was
shut down, a chain at its bound, a supply that is mined out.

Fairness. In `Submitter`, weak fairness of every call (each RPC ends by an
answer or by `request_timeout_s`), of the pool taking calls, of the block loop
and of `shutdown()`; strong fairness of counting a receipt that is there,
because the read may fail at some sweeps and is made at every block. No fairness of
the chain or of the interrupt. In `BundleSubmitter`, weak fairness of the
loop, of new blocks and of mining the account's next transaction, which makes
`QueueNotStuck` a fair question. In `Miner`, weak fairness of every thread and
of new blocks, strong fairness of `miningState()` succeeding. A state in which
the miner has stopped satisfies these properties; nothing forces it to stop.
In `Cli` and `ChainClient`, weak fairness of blocks, of the main thread and of each pool
thread (each request is answered or times out), and of starting. No fairness of
an endpoint's answers: only that those in `Steady` do answer.

## Findings

Four statements of the repository that the code does not keep, each with a
run that ends in the counterexample:

1. `Bundle_dry`: `--dry-run` with bundles and a key broadcasts
   (`bundle.py:117` against `miner.example.toml:33`, `README.md:220`, `:254`).
2. `Bundle_stuck`: a public broadcast that fails leaves the nonces behind it
   stuck (`bundle.py:162` against `bundle.py:114-116`, `README.md:203-204`).
3. `Submitter_lost`: a pending entry is lost when it is appended between the
   end of the sweep's loop and the assignment (`submit.py:275` against
   `submit.py:4-6`). The window is short and needs a pool thread to be
   scheduled in it.
4. `Chain_cap`: the bundle path signs for more than `max_fee_gwei`
   (`bundle.py:69` against `config.py:38-39`).

`EpochCapBound` is the exact form of what `max_pending_per_epoch` gives: the
cap plus one less than the number of workers. No document promises less, so it
is a property and no finding. `FullPass` is what is left of "we only give up
after a full pass fails" (`chain.py:4-6`): two threads that rotate at the same
time can leave the connection at another endpoint than the index says, and a
later call, though alone, then asks one of two endpoints twice. The property is
therefore about calls that begin with index, connection and contract in
agreement and meet no other rotation; `ChainIsFollowed` and `MiningStarts` say
that the miner recovers all the same. `SolutionIsProof` ends at the hand-over to
the pool: no code compares the epoch again after the drain thread did, so a
solution that waits in the pool while the epoch rolls is refused by
`estimate_gas`, or, with a configured gas limit, sent and reverts.

## Proofs

TLAPS checks the theorems below for all values of the constants. Every invariant
and action property that a passing run checks is stated by one of them, and so
are the three refinements.

What is assumed are the `ASSUME`s of the models, which TLC evaluates for every
instance. `AccountAssumption`, `SubmitterAssumption`, `BundleAssumption`,
`MinerAssumption`, `ChainAssumption`, `GpuAssumption` and `ContractAssumption`
give the constants their types and say that there are finitely many solutions,
that a limb has at least two values, and that a batch is at least one nonce and
at most as many as a limb counts (2^28 against 2^64 in the code).
`CliAssumption` is what click, tomllib and pyopencl guarantee about an
invocation. `LaunchAssumption` is about fixed numbers in `selftest` and
`benchmark()` (`cli.py:86-102`, `gpu.py:216-221`): their launches are no longer than a limb counts,
the CPU finds no more nonces in the self-test's window than there are slots, and
none of the digests of nonces 0 to 3 is the largest word, which would not be below
the target 2^256 - 1. The last two are facts of the hash function on fixed inputs,
which the code takes for granted too.

`SubmitterProofs`:
- `TypeCorrect`: the type invariant, which is inductive.
- `NoDoubleSubmitCorrect`. `NoDoubleSubmit` speaks about two calls that have
  both passed the second check; it is not inductive, since nothing in it says
  that the first one's key is still in `used` when the second one checks.
  The invariant `Remembered` adds this: the key of every call that passed is
  in `used`, unless a call two epochs later passed too, which is when
  `_mark_used` prunes it.
- `NonceUniqueCorrect`: by `NonceBelow`, while no call has resynchronised every
  nonce handed out is below the counter, so the next one differs from all.
- `EpochCapBoundCorrect`: the bound follows from `CapInv`, which counts the
  marked nonces of an epoch together with the calls that passed the first
  check and have not marked theirs; the sum grows only at the first check,
  which is closed at the cap and limited by the number of workers.

`SubmitterNodeProofs`, all over `NodeInv` (who has reserved a nonce has it in
the transaction, and the node knows of none that is not sent):
- `NoGapCorrect`, by `NoHole`: while nothing has failed (`Undisturbed`), every
  nonce from the account's to the counter is `Held`, by a pooled transaction or
  by a call that is about to send.
- `CountsAreRealCorrect`. The sweep walks a list that grows beside it, so the
  invariant counts what is still `Outstanding`: the entries it has kept and the
  ones ahead of it. `TrackedInv` says that no transaction is outstanding twice,
  and `CountInv` that each statistic is at most the number of transactions that
  were mined that way and are not outstanding. A sweep that was cut forgets what it
  had removed; `Before` says that what was counted until then was counted once, so
  that with the final sweep nothing is counted more than twice.
- `KeepsPromiseCorrect`: each step of the pool is a step of `Submission` or
  stutters, under `PromiseInv`, which joins the invariants above. The step that
  needs them is `Reserve`: nothing else signed for this proof, and the nonce is
  new.

`BundleProofs`, over `BundleInv`, which is the type invariant together with
`PlaceInv` (a solution is in one of arriving, buffer and batch), `SweepInv` and
`BuilderInv`. The type invariant needs the others: the index `recorded` stays
within the batch only because the loop's places say so.
- `BundleTypeCorrect`; `NoncesAreARunCorrect` by `CounterInv`;
  `BroadcastIsMarkedCorrect` by `MarkedInv`, which has the part of the batch not
  yet recorded; `PendingNotLostCorrect`, an action property, which fails for the
  pool (finding 3) and holds here because one thread does both.
- `KeptUntilFlushedCorrect`: the safety half of `BufferIsFlushed`. `FlushSplits` shows
  that the batch and the rest are together what passed the filter, for any size.
- `KeepsPromiseCorrect` for solutions whose proofs differ. The hypothesis is
  needed: the code compares what it buffers with what is marked, not the
  solutions of one buffer with each other, and relies on nonces that are drawn
  from random bases.

`MinerProofs` has one inductive invariant, `IndInv`: `TypeOK`; `LoopInv` (what
the block loop has read, by its place); `HeldInv` (whatever a worker, the queue or
the drain thread holds has its type when it is used); `JobsAgree`; `GenerationInv`;
`TrustInv` (unless the cross-check failed, no job or pooled solution has another
challenge than that of its epoch); and `PoolInv` (a pooled solution is a proof, and
its epoch and difficulty, like those of the job that `verify()` is about to look at,
are those of one block, which the chain keeps as it grows). From it follow `MinerTypeCorrect`, `GenerationIsSoundCorrect`,
`JobsAgreeCorrect`, `JobIsOfOneBlockCorrect` and `SolutionIsProofCorrect`, for
any lag of the nodes and whatever the workers report.

`ChainClientProofs`, for every list of endpoints and number of threads:
- `PriceIsCappedCorrect`, by `PriceInv`: the cached base fee is that of a block,
  at whatever time some thread has written it.
- `FullPassCorrect`. `PassInv` says how far a call has come that no other
  rotation met: after `k` failures it has asked the `Window` of `k` endpoints
  from where it began (`Progress`), in every place inside `_rotate`. When
  the attempts are used up the window is the whole list. The list may not be
  empty; `Config.validate` refuses one that is.
- `ChainTypeNext`, the type invariant with `LocalInv` for the variables of the
  thread inside `_rotate`.

`GpuWorkerProofs`:
- Lemmas: a nonce split into limbs and put together again is itself, adding
  `gid` with the kernel's carries is addition modulo the word, and comparing limb
  by limb is comparing numbers; and that `InOrder` and `SelectDevices` return
  lists of what they are given. The latter needs that a finite set of numbers can be
  listed in ascending order, which is an induction; it is done through the
  library's well-foundedness of strict inclusion of finite sets.
- `FoundAreHitsCorrect`, by `GpuInv`: in `LaunchInv` the numbers that the counter has
  given are a one-to-one enumeration of the hits counted so far, and a slot whose
  number was given to an item that is done holds its nonce (`Placed`), so the slots
  read are those this launch has written, whatever is left in the others.
- `GpuTypeStep`, the type invariant of a worker.

`CliProofs`: a step of the program is a step of a worker, of a client, or of
neither, which carries their invariants over.
- `PrecedenceCorrect` and `MinesForItsSignerCorrect`, by `LayersInv`.
- `ProgramFindsHits`, `ProgramPriceIsCapped`, `ProgramFullPass`: the three
  properties above in the program. The first needs `WorkInv` (what
  `selftest` and `bench` will launch are lists of devices and sizes), the last
  `EndpointInv` (what `load()` has validated and the flags have not emptied
  names an endpoint) and `RestInv` (the client is fresh until it mines).
- `SelftestPassesCorrect`, by `SelftestInv`, which says what the launch in progress
  searches: with `FoundAreHits` for it, what the launch returns is the CPU's set.
- `CliTypeCorrect`.

`HashContractProofs`:
- `ContractTypeCorrect` and `SupplyCorrect`, by `Balanced`: before seeding the
  holdings sum to the genesis mint, after it to twice that and the mining supply,
  and the contract holds at least what is left to be mined.
- `ProofIsAcceptedCorrect`. Of what can make `mine()` revert, the property
  leaves two, the retarget and a reward halved to nothing; that the others cannot
  follows from `Balanced` (`RewardIsHeld`): while the supply lasts, the cut
  reward is not zero and the contract holds it. That the reward of an era is a
  number is a hypothesis in the property, since the provers know nothing of
  powers of two; TLC evaluates it.
- `MintsAreLimitedCorrect`, by `CountsInv`, which adds that `usedProofs` is finite.
- `RetargetsOnTimeCorrect`, by `RetargetInv`, which adds that nothing is minted
  before seeding, and a lemma on the next multiple of the interval.
- `DifficultyMovesSlowlyCorrect`, an action property, by `DifficultyPositive`.
- `KeepsLedgerCorrect`: each transaction is a step of `Ledger` or stutters. `Pay`
  is the one that needs invariants: `MintsAreLimited`, so that the contract's
  counter of mints and the ledger's count of proofs name the same reward
  (`RewardIsNext`), and `EpochInv`, that no proof used is of an epoch to come,
  which rests on the monotony of `height \div EpochBlocks`.

Only model-checked: liveness, that is `EverySolutionDecided`,
`MinedLeavesPending`, `ShutdownEnds`, the second half of `BufferIsFlushed`,
`FarmFollowsChain`, `ChainIsFollowed` and `MiningStarts`, because fairness is outside
what the prover handles. The four findings are counterexamples of TLC.

## Not modelled

The Keccak permutation (any function stands for it), hash counts and rates, gas
amounts, the reward read from a receipt, JSON payloads and signatures,
the text forms of configuration values (a list split at its commas, names of
log levels), printing and logging, Uniswap v4 itself (price, liquidity, the
hook's permissions), and the reentrancy guard: an action of `HashContract` is
atomic, which is what `nonReentrant` gives for the contract's own functions.
`clear_job`, `total_mints`, `mints_in_block`, `current_difficulty` and
`cached_base_fee` have no caller in the program. `abi.py` is generated data and
`fetch_abi.py` the script that downloads it: there is no control flow in them
that a state machine would show.

## Plan

Done in this order, the most important behaviour first: `Account`,
`Submitter`, `BundleSubmitter`, `Miner`, `HashContract`, their first theorems;
then `Config`, `GpuWorker`, `ChainClient`, `Cli`, and `Submission` with its two
refinements; then the proofs, component by component, and `Ledger` with the proof that
`HashContract` implements it. Nothing of the plan is left; what the models leave
out is in the section before.
