----------------------------- MODULE CliProofs -----------------------------
(* Theorems about Cli for every set of invocations, any defaults and any   *)
(* key files: how the layers of a configuration are laid over each other,  *)
(* whom the miner mines for, what its launches find and its threads sign   *)
(* for, and when they give up on the endpoints.                            *)
EXTENDS Cli, ChainClientProofs, GpuWorkerProofs

-----------------------------------------------------------------------------
(* What becomes of a command.                                              *)

\* The commands that are not `run`, and the threads of a miner.
NotStarting ==
    \/ Devices
    \/ SelftestBegins \/ SelftestWindowSearched \/ SelftestAllSearched
    \/ BenchBegins \/ BenchNext \/ WarmedUp \/ Timed
    \/ Gpu
    \/ Mining

\* They do not touch what `run` decides; nor do they come to one of its steps.
LEMMA OthersDecideNothing ==
    ASSUME NotStarting
    PROVE  /\ UNCHANGED mode
           /\ \/ UNCHANGED <<call, step, cfg>>
              \/ step' \notin {"start", "loaded", "flagged", "mining"}
<1>1. CASE Devices
  BY <1>1 DEF Devices, End
<1>2. CASE SelftestBegins
  BY <1>2 DEF SelftestBegins, End
<1>3. CASE SelftestWindowSearched
  BY <1>3 DEF SelftestWindowSearched, Search, End, cliVars
<1>4. CASE SelftestAllSearched
  BY <1>4 DEF SelftestAllSearched, Search, End, cliVars
<1>5. CASE BenchBegins
  BY <1>5 DEF BenchBegins, End
<1>6. CASE BenchNext
  BY <1>6 DEF BenchNext, End
<1>7. CASE WarmedUp
  BY <1>7 DEF WarmedUp, Search, End, cliVars
<1>8. CASE Timed
  BY <1>8 DEF Timed, Search, cliVars
<1>9. CASE Gpu \/ Mining
  BY <1>9 DEF Gpu, Mining, cliVars
<1>. QED  BY <1>1, <1>2, <1>3, <1>4, <1>5, <1>6, <1>7, <1>8, <1>9 DEF NotStarting

-----------------------------------------------------------------------------
(* The layers.                                                             *)

\* What the layers of the invocation inv make of option o.
Highest(inv, o) ==
    IF o \in DOMAIN inv.flags /\ inv.flags[o] # Empty THEN inv.flags[o]
    ELSE IF o \in DOMAIN inv.env /\ inv.env[o] # Empty THEN Parsed(o, inv.env[o])
    ELSE IF o \in DOMAIN inv.file THEN inv.file[o]
    ELSE Defaults[o]

LayersInv ==
    /\ step \in {"start", "loaded"} => call \in Invocations
    /\ step = "loaded" => /\ call.command = "run"
                          /\ cfg = Loaded(call.file, call.env) /\ cfg # Raises
    /\ step = "flagged" => \A o \in Options : cfg[o] = Highest(call, o)

\* A configuration that was loaded is the file's over the defaults, under the environment's.
LEMMA LoadedLayers ==
    ASSUME NEW file, NEW env, Loaded(file, env) # Raises, NEW o \in Options
    PROVE  Loaded(file, env)[o] = IF o \in DOMAIN env /\ env[o] # Empty THEN Parsed(o, env[o])
                                  ELSE IF o \in DOMAIN file THEN file[o]
                                  ELSE Defaults[o]
<1>. DEFINE below == Over(Defaults, file)
            given == [x \in Set(env) |-> Parsed(x, env[x])]
<1>1. Loaded(file, env) = ApplyEnv(below, env)
  BY DEF Loaded, ApplyToml
<1>2. ApplyEnv(below, env) = Over(below, given)
  BY <1>1 DEF ApplyEnv
<1>3. o \in DOMAIN given <=> o \in DOMAIN env /\ env[o] # Empty
  BY DEF Set
<1>4. o \in DOMAIN given => given[o] = Parsed(o, env[o])
  OBVIOUS
<1>5. below[o] = IF o \in DOMAIN file THEN file[o] ELSE Defaults[o]
  BY DEF Over
<1>. HIDE DEF below, given
<1>6. Over(below, given)[o] = IF o \in DOMAIN given THEN given[o] ELSE below[o]
  BY DEF Over
<1>. QED  BY <1>1, <1>2, <1>3, <1>4, <1>5, <1>6

\* Flags lie over it all.
LEMMA FlagLayer ==
    ASSUME NEW below, NEW flags, ApplyFlags(below, flags) # Raises, NEW o \in Options,
           \A x \in DOMAIN flags \ TruthyFlags : flags[x] # Empty
    PROVE  ApplyFlags(below, flags)[o] =
              IF o \in DOMAIN flags /\ flags[o] # Empty THEN flags[o] ELSE below[o]
<1>. DEFINE names == {x \in DOMAIN flags : x \in TruthyFlags => flags[x] # Empty}
            given == [x \in names |-> flags[x]]
<1>1. ApplyFlags(below, flags) = Over(below, given)
  BY DEF ApplyFlags
<1>2. o \in DOMAIN given <=> o \in DOMAIN flags /\ flags[o] # Empty
  OBVIOUS
<1>3. o \in DOMAIN given => given[o] = flags[o]
  OBVIOUS
<1>. HIDE DEF given
<1>4. Over(below, given)[o] = IF o \in DOMAIN given THEN given[o] ELSE below[o]
  BY DEF Over
<1>. QED  BY <1>1, <1>2, <1>3, <1>4

LEMMA LayersStep == LayersInv /\ [Next]_vars => LayersInv'
<1>. SUFFICES ASSUME LayersInv, [Next]_vars PROVE LayersInv'
  OBVIOUS
<1>1. CASE UNCHANGED <<call, step, cfg>>
  BY <1>1 DEF LayersInv, Highest
<1>2. CASE step' \notin {"start", "loaded", "flagged"}
  BY <1>2 DEF LayersInv
<1>3. CASE Load
  BY <1>3 DEF LayersInv, Load, Command, End
<1>4. CASE Flags
  <2>1. CASE step' = "flagged"
    <3>1. /\ cfg' = ApplyFlags(cfg, call.flags) /\ cfg' # Raises /\ call' = call
          /\ step = "loaded"
      BY <1>4, <2>1 DEF Flags, End
    <3>2. \A x \in DOMAIN call.flags \ TruthyFlags : call.flags[x] # Empty
      BY <3>1, CliAssumption DEF LayersInv
    <3>3. ASSUME NEW o \in Options PROVE cfg'[o] = Highest(call', o)
      <4>1. cfg[o] = IF o \in DOMAIN call.env /\ call.env[o] # Empty THEN Parsed(o, call.env[o])
                     ELSE IF o \in DOMAIN call.file THEN call.file[o]
                     ELSE Defaults[o]
        BY <3>1, LoadedLayers DEF LayersInv
      <4>2. cfg'[o] = IF o \in DOMAIN call.flags /\ call.flags[o] # Empty THEN call.flags[o]
                                                                         ELSE cfg[o]
        BY <3>1, <3>2, FlagLayer
      <4>. QED  BY <3>1, <4>1, <4>2 DEF Highest
    <3>. QED  BY <2>1, <3>3 DEF LayersInv
  <2>2. CASE step' # "flagged"
    BY <1>4, <2>2, <1>2 DEF Flags, End
  <2>. QED  BY <2>1, <2>2
<1>5. CASE NoMiner \/ NewMiner
  BY <1>5, <1>2 DEF NoMiner, NewMiner, End
<1>6. CASE NotStarting
  BY <1>6, <1>1, <1>2, OthersDecideNothing
<1>. QED  BY <1>1, <1>3, <1>4, <1>5, <1>6 DEF Next, Starting, NotStarting, vars, cliVars

\* Whatever the layers give, an option ends up with the value of the highest of them
\* (README.md:281, config.py:108-125, cli.py:172-191).
THEOREM PrecedenceCorrect == Spec => []Precedence
<1>1. Init => LayersInv
  BY DEF Init, LayersInv
<1>2. LayersInv => Precedence
  BY DEF LayersInv, Precedence, Highest
<1>. QED  BY <1>1, <1>2, LayersStep, PTL DEF Spec

-----------------------------------------------------------------------------
(* Whom the miner mines for.                                               *)

LEMMA SignerStep == MinesForItsSigner /\ [Next]_vars => MinesForItsSigner'
<1>. SUFFICES ASSUME MinesForItsSigner, [Next]_vars PROVE MinesForItsSigner'
  OBVIOUS
<1>1. CASE UNCHANGED <<step, mode>>
  BY <1>1 DEF MinesForItsSigner
<1>2. CASE step' # "mining"
  BY <1>2 DEF MinesForItsSigner
<1>3. CASE NewMiner
  <2>. DEFINE address == MinerAddress(cfg, Signer)
  <2>1. /\ mode'.address = IF address = None THEN Placeholder ELSE address
        /\ mode'.signer = Signer
        /\ mode'.dry = Dry
        /\ mode'.bundles = (cfg["bundle.enabled"] /\ Signer # None)
    BY <1>3 DEF NewMiner
  <2>2. mode'.address # None
    BY <2>1, CliAssumption
  <2>3. Signer = None => Dry /\ ~mode'.bundles
    BY <2>1 DEF Dry
  <2>4. ~Dry => Signer # None /\ address = Signer
    BY DEF Dry, MinerAddress
  <2>. QED  BY <2>1, <2>2, <2>3, <2>4 DEF MinesForItsSigner
<1>4. CASE Load \/ Flags \/ NoMiner
  BY <1>4, <1>2 DEF Load, Flags, NoMiner, End
<1>5. CASE NotStarting
  BY <1>5, <1>1, <1>2, OthersDecideNothing
<1>. QED  BY <1>1, <1>3, <1>4, <1>5 DEF Next, Starting, NotStarting, vars, cliVars

\* Whatever the configuration, the keys and the devices: without a key nothing is broadcast
\* and nothing bundled, and what is broadcast was mined for the account that signs it
\* (miner.py:50-70, submit.py:71-82, cli.py:193-198).
THEOREM MinesForItsSignerCorrect == Spec => []MinesForItsSigner
<1>1. Init => MinesForItsSigner
  BY DEF Init, MinesForItsSigner
<1>. QED  BY <1>1, SignerStep, PTL DEF Spec

-----------------------------------------------------------------------------
(* The chain client in the program.                                        *)

\* What the program does beside the threads of ChainClient makes no price.
LEMMA CliPrice == PriceInv /\ [Next]_vars => PriceInv'
<1>. SUFFICES ASSUME PriceInv, [Next]_vars PROVE PriceInv'
  OBVIOUS
<1>1. CASE Mining
  BY <1>1, PriceNext DEF Mining
<1>2. CASE UNCHANGED <<height, cached, state, price>>
  BY <1>2, PriceUnchanged
<1>3. CASE ~Mining
  <2>1. CASE UNCHANGED chainVars
    BY <2>1, <1>2 DEF chainVars, loopVars
  <2>2. CASE NewMiner
    BY <2>2, <1>2 DEF NewMiner, ClientMade, loopVars
  <2>3. CASE Devices \/ SelftestBegins \/ BenchBegins \/ BenchNext \/ Gpu
             \/ Load \/ Flags \/ NoMiner
    BY <2>3, <2>1 DEF Devices, SelftestBegins, BenchBegins, BenchNext, Gpu, Load, Flags, NoMiner
  <2>4. CASE SelftestWindowSearched \/ SelftestAllSearched \/ WarmedUp \/ Timed
    BY <2>4, <2>1 DEF SelftestWindowSearched, SelftestAllSearched, WarmedUp, Timed, Search
  <2>. QED  BY <1>3, <2>1, <2>2, <2>3, <2>4 DEF Next, Starting, vars
<1>. QED  BY <1>1, <1>3

\* No transaction of the program is priced beyond its caps (submit.py:96-110,
\* chain.py:94-104), whichever command made it and whatever its configuration.
THEOREM ProgramPriceIsCapped == Spec => []PriceIsCapped
<1>1. Init => PriceInv
  BY PriceInit DEF Init
<1>2. PriceInv => PriceIsCapped
  BY DEF PriceInv, PriceIsCapped, Capped, Fees
<1>. QED  BY <1>1, <1>2, CliPrice, PTL DEF Spec

-----------------------------------------------------------------------------
(* The worker in selftest and bench.                                       *)

Task == [dev : Device, sizes : Seq(Int)]

\* The benchmarks still to be made are those of devices of the machine.
TodoInv ==
    /\ step \in {"start", "bench", "warm", "timed"} => call \in Invocations
    /\ step \in {"bench", "warm", "timed"} => call.command = "bench" /\ todo \in Seq(Task)

\* A worker that is used has a work-group size, and a batch within its bounds.
WorkerInv ==
    step \in {"window", "all", "warm", "timed"} =>
        /\ localSize \in Nat \ {0} /\ batchSize \in MinBatch..MaxBatch
        /\ targetMs \in Int /\ elapsed \in Int

LEMMA BenchSizesType ==
    ASSUME call \in Invocations, call.command = "bench", NEW d
    PROVE  BenchSizes(d) \in Seq(Int)
<1>. DEFINE candidates == IF call.tune THEN Sizes ELSE <<call.localSize>>
<1>1. candidates \in Seq(Int)
  BY CliAssumption
<1>. HIDE DEF candidates
<1>2. InOrder(candidates, {k \in 1..Len(candidates) : candidates[k] <= d.maxWorkGroup}) \in Seq(Int)
  BY <1>1, InOrderType
<1>. QED  BY <1>2 DEF BenchSizes, candidates

LEMMA BenchBeginsTodo == TodoInv /\ BenchBegins => TodoInv'
<1>. SUFFICES ASSUME TodoInv, BenchBegins PROVE TodoInv'
  OBVIOUS
<1>. DEFINE devs == SelectDevices(call.devs, call.devices)
            tasks == [k \in 1..Len(devs) |-> [dev |-> devs[k], sizes |-> BenchSizes(devs[k])]]
<1>1. call \in Invocations /\ call.command = "bench"
  BY DEF TodoInv, BenchBegins, Command
<1>2. CASE call.devices = Malformed \/ ~Selectable(call.devs, call.devices)
  BY <1>2 DEF BenchBegins, End, TodoInv
<1>3. CASE call.devices # Malformed /\ Selectable(call.devs, call.devices)
  <2>1. call.devs \in Seq(Device) /\ call.devices \in {All} \union Seq(Int)
    BY <1>1, <1>3, CliAssumption
  <2>2. devs \in Seq(Device)
    BY <1>3, <2>1, SelectedType
  <2>3. step' = "bench" /\ todo' = tasks /\ call' = call
    BY <1>3 DEF BenchBegins
  <2>. HIDE DEF devs
  <2>4. \A k \in 1..Len(devs) : devs[k] \in Device /\ BenchSizes(devs[k]) \in Seq(Int)
    BY <1>1, <2>2, ElementOfSeq, BenchSizesType
  <2>5. \A k \in 1..Len(devs) : [dev |-> devs[k], sizes |-> BenchSizes(devs[k])] \in Task
    BY <2>4 DEF Task
  <2>6. tasks \in Seq(Task)
    BY <2>2, <2>5
  <2>. QED  BY <1>1, <2>3, <2>6 DEF TodoInv
<1>. QED  BY <1>2, <1>3

LEMMA BenchNextTodo == TodoInv /\ BenchNext => TodoInv'
<1>. SUFFICES ASSUME TodoInv, BenchNext PROVE TodoInv'
  OBVIOUS
<1>1. call \in Invocations /\ call.command = "bench" /\ todo \in Seq(Task)
  BY DEF TodoInv, BenchNext
<1>2. CASE todo = <<>> \/ Head(todo).sizes = <<>>
  BY <1>2 DEF BenchNext, End, TodoInv
<1>3. CASE todo # <<>> /\ Head(todo).sizes # <<>>
  <2>1. /\ step' = "warm" /\ call' = call
        /\ todo' = IF Len(Head(todo).sizes) = 1 THEN Tail(todo)
                                                ELSE [todo EXCEPT ![1].sizes = Tail(@)]
    BY <1>3 DEF BenchNext
  <2>2. Tail(todo) \in Seq(Task) /\ todo[1] \in Task
    BY <1>1, <1>3, HeadTailProperties, ElementOfSeq
  <2>3. todo[1].sizes \in Seq(Int) /\ todo[1].sizes # <<>>
    BY <1>1, <1>3, <2>2 DEF Task
  <2>4. Tail(todo[1].sizes) \in Seq(Int)
    BY <2>3, HeadTailProperties
  <2>5. [todo[1] EXCEPT !.sizes = Tail(@)] \in Task
    BY <2>2, <2>4 DEF Task
  <2>6. [todo EXCEPT ![1] = [todo[1] EXCEPT !.sizes = Tail(@)]] \in Seq(Task)
    BY <1>1, <1>3, <2>5
  <2>7. [todo EXCEPT ![1].sizes = Tail(@)] = [todo EXCEPT ![1] = [todo[1] EXCEPT !.sizes = Tail(@)]]
    OBVIOUS
  <2>. QED  BY <1>1, <2>1, <2>2, <2>6, <2>7 DEF TodoInv
<1>. QED  BY <1>2, <1>3

LEMMA TodoStep == TodoInv /\ [Next]_vars => TodoInv'
<1>. SUFFICES ASSUME TodoInv, [Next]_vars PROVE TodoInv'
  OBVIOUS
<1>1. CASE UNCHANGED cliVars
  BY <1>1 DEF cliVars, TodoInv
<1>2. CASE step' \notin {"start", "bench", "warm", "timed"}
  BY <1>2 DEF TodoInv
<1>3. CASE Devices \/ SelftestBegins \/ SelftestWindowSearched \/ SelftestAllSearched \/ Starting
  BY <1>3, <1>1, <1>2 DEF Devices, SelftestBegins, SelftestWindowSearched, SelftestAllSearched,
        Search, Starting, Load, Flags, NoMiner, NewMiner, End
<1>4. CASE BenchBegins \/ BenchNext
  BY <1>4, BenchBeginsTodo, BenchNextTodo
<1>5. CASE WarmedUp
  BY <1>5, <1>1, <1>2 DEF WarmedUp, Search, End, TodoInv
<1>6. CASE Timed
  BY <1>6, <1>1, <1>2 DEF Timed, Search, TodoInv
<1>7. CASE Gpu \/ Mining
  BY <1>7, <1>1 DEF Gpu, Mining
<1>. QED  BY <1>1, <1>3, <1>4, <1>5, <1>6, <1>7 DEF Next, vars

\* A worker can be made for every device and every size, and is then ready to search.
LEMMA NewWorkerIsReady ==
    ASSUME NEW dev \in Device, NEW size \in Int, NEW ms \in Int, NewWorker(dev, size, ms)
    PROVE  /\ GpuNext
           /\ localSize' \in Nat \ {0} /\ batchSize' \in MinBatch..MaxBatch
           /\ targetMs' \in Int /\ elapsed' \in Int
<1>1. dev.maxWorkGroup \in Nat
  BY DEF Device
<1>2. NewWorker([maxWorkGroup |-> dev.maxWorkGroup], size, ms)
  BY DEF NewWorker
<1>3. GpuNext
  BY <1>1, <1>2 DEF GpuNext
<1>4. DefaultLocalSize \in Nat /\ DefaultTargetMs \in Nat /\ FirstBatch \in MinBatch..MaxBatch
  BY GpuAssumption
<1>5. localSize' \in Nat \ {0}
  BY <1>1, <1>4 DEF NewWorker, LargerOf, SmallerOf
<1>6. batchSize' \in MinBatch..MaxBatch /\ targetMs' \in Int /\ elapsed' \in Int
  BY <1>4 DEF NewWorker
<1>. QED  BY <1>3, <1>5, <1>6

LEMMA AdaptedType ==
    ASSUME WorkerInv, step \in {"warm", "timed"}, NEW dt \in Durations
    PROVE  Adapted(dt) \in MinBatch..MaxBatch
<1>. DEFINE work == batchSize * targetMs
            scaled == work \div dt
<1>1. /\ batchSize \in MinBatch..MaxBatch /\ batchSize \in Int /\ targetMs \in Int /\ dt \in Nat
      /\ MinBatch \in Nat /\ MaxBatch \in Nat /\ MinBatch <= MaxBatch
  BY GpuAssumption DEF WorkerInv
<1>2. CASE dt <= 0
  BY <1>1, <1>2 DEF Adapted
<1>3. CASE dt > 0
  <2>1. work \in Int
    BY <1>1
  <2>. HIDE DEF work
  <2>2. scaled \in Int
    BY <1>1, <1>3, <2>1
  <2>3. ~(dt <= 0)
    BY <1>1, <1>3
  <2>. HIDE DEF scaled
  <2>4. Adapted(dt) =
          LargerOf(MinBatch, SmallerOf(MaxBatch, IF scaled = 0 THEN MinBatch ELSE scaled))
    BY <2>3 DEF Adapted, scaled, work
  <2>. QED  BY <1>1, <2>2, <2>4 DEF LargerOf, SmallerOf
<1>. QED  BY <1>1, <1>2, <1>3

\* A command makes a launch.
LEMMA SearchStep ==
    ASSUME WorkerInv, step \in {"window", "all", "warm", "timed"},
           NEW challenge \in Challenges, NEW target \in 0..(Word - 1),
           NEW count \in 0..Limb, NEW base \in 0..(Word - 1),
           Search(challenge, target, count, base)
    PROVE  GpuNext /\ WorkerInv'
<1>1. /\ launch = NoLaunch /\ Launch(challenge, target, count, base)
      /\ UNCHANGED <<elapsed, step>>
  BY DEF Search, cliVars
<1>2. localSize > 0 /\ UNCHANGED <<localSize, batchSize, targetMs>>
  BY <1>1 DEF WorkerInv, Launch
<1>. QED  BY <1>1, <1>2 DEF GpuNext, WorkerInv

\* Its launch is over.
LEMMA CollectStep ==
    ASSUME WorkerInv, step \in {"window", "all", "warm", "timed"},
           NEW size \in MinBatch..MaxBatch, NEW time \in Int, Collect(size, time)
    PROVE  GpuNext /\ WorkerInv'
BY DEF GpuNext, WorkerInv, Collect

\* Whatever a command does with the worker is a step of GpuNext.
LEMMA WorkerStep == TodoInv /\ WorkerInv /\ [Next]_vars => WorkerInv' /\ [GpuNext]_gpuVars
<1>. SUFFICES ASSUME TodoInv, WorkerInv, [Next]_vars PROVE WorkerInv' /\ [GpuNext]_gpuVars
  OBVIOUS
<1>. DEFINE Working == step' \in {"window", "all", "warm", "timed"}
<1>1. ASSUME UNCHANGED gpuVars, UNCHANGED step \/ ~Working PROVE WorkerInv' /\ [GpuNext]_gpuVars
  BY <1>1 DEF gpuVars, WorkerInv
<1>2. \A how : End(how) => step' = how
  BY DEF End
<1>3. CASE Devices \/ BenchBegins \/ Starting \/ Mining
  BY <1>3, <1>1, <1>2 DEF Devices, BenchBegins, Starting, Load, Flags, NoMiner, NewMiner,
                          Mining, cliVars
<1>4. CASE SelftestBegins
  <2>1. CASE SelftestDevices = <<>>
    BY <1>4, <1>1, <1>2, <2>1 DEF SelftestBegins
  <2>2. CASE SelftestDevices # <<>>
    <3>1. call.devs \in Seq(Device)
      BY <1>4, CliAssumption DEF SelftestBegins, Command, TodoInv
    <3>2. InOrder(call.devs, {k \in 1..Len(call.devs) : call.devs[k].index = call.devices[1]})
             \in Seq(Device)
      BY <3>1, InOrderType
    <3>3. SelectDevices(call.devs, All) \in Seq(Device)
      BY <3>1, SelectedType
    <3>4. SelftestDevices \in Seq(Device)
      BY <3>2, <3>3 DEF SelftestDevices
    <3>5. SelftestDevices[1] \in Device
      BY <2>2, <3>4, ElementOfSeq
    <3>6. NewWorker(SelftestDevices[1], 0, 0)
      BY <1>4, <2>2 DEF SelftestBegins
    <3>. QED  BY <3>5, <3>6, NewWorkerIsReady DEF WorkerInv
  <2>. QED  BY <2>1, <2>2
<1>5. CASE SelftestWindowSearched
  <2>1. step = "window" /\ batchSize \in MinBatch..MaxBatch /\ elapsed \in Int
    BY <1>5 DEF SelftestWindowSearched, WorkerInv
  <2>2. 0 \in 0..(Word - 1)
    BY LaunchAssumption, GpuAssumption, WordSize
  <2>3. CASE Search(SelftestChallenge, SelftestTarget, SelftestWindow, 0)
    BY <2>1, <2>2, <2>3, LaunchAssumption, SearchStep
  <2>4. CASE Collect(batchSize, elapsed)
    BY <2>1, <2>4, CollectStep
  <2>. QED  BY <1>5, <2>3, <2>4 DEF SelftestWindowSearched
<1>6. CASE SelftestAllSearched
  <2>1. step = "all" /\ batchSize \in MinBatch..MaxBatch /\ elapsed \in Int
    BY <1>6 DEF SelftestAllSearched, WorkerInv
  <2>2. 0 \in 0..(Word - 1) /\ Word - 1 \in 0..(Word - 1)
    BY LaunchAssumption, GpuAssumption, WordSize
  <2>3. CASE Search(SelftestChallenge, Word - 1, 4, 0)
    BY <2>1, <2>2, <2>3, LaunchAssumption, SearchStep
  <2>4. CASE Collect(batchSize, elapsed)
    BY <2>1, <2>4, CollectStep
  <2>. QED  BY <1>6, <2>3, <2>4 DEF SelftestAllSearched
<1>7. CASE BenchNext
  <2>1. call \in Invocations /\ call.command = "bench" /\ todo \in Seq(Task)
    BY <1>7 DEF TodoInv, BenchNext
  <2>2. CASE todo = <<>> \/ Head(todo).sizes = <<>>
    BY <1>7, <1>1, <1>2, <2>2 DEF BenchNext
  <2>3. CASE todo # <<>> /\ Head(todo).sizes # <<>>
    <3>1. todo[1] \in Task /\ Head(todo) = todo[1]
      BY <2>1, <2>3, ElementOfSeq, HeadTailProperties
    <3>2. Head(todo).dev \in Device /\ Head(todo).sizes \in Seq(Int)
      BY <3>1 DEF Task
    <3>3. Head(Head(todo).sizes) \in Int
      BY <2>3, <3>2, HeadTailProperties
    <3>4. call.ms \in Int
      BY <2>1, CliAssumption
    <3>5. NewWorker(Head(todo).dev, Head(Head(todo).sizes), call.ms)
      BY <1>7, <2>3 DEF BenchNext
    <3>. QED  BY <3>2, <3>3, <3>4, <3>5, NewWorkerIsReady DEF WorkerInv
  <2>. QED  BY <2>2, <2>3
<1>8. CASE WarmedUp \/ Timed
  <2>1. /\ step \in {"warm", "timed"} /\ batchSize \in 0..Limb /\ elapsed \in Int
        /\ call \in Invocations /\ call.command = "bench"
    BY <1>8, GpuAssumption DEF WarmedUp, Timed, WorkerInv, TodoInv
  <2>2. 1 \in 0..(Word - 1) /\ BenchChallenge \in Challenges /\ WarmUp \in 0..Limb
    BY LaunchAssumption, GpuAssumption, WordSize
  <2>3. ASSUME NEW base \in RandomBases, NEW count \in 0..Limb, Search(BenchChallenge, 1, count, base)
        PROVE  WorkerInv' /\ GpuNext
    BY <2>1, <2>2, <2>3, GpuAssumption, SearchStep
  <2>4. ASSUME NEW dt \in Durations, Collect(Adapted(dt), 0)
        PROVE  WorkerInv' /\ GpuNext
    BY <2>1, <2>4, AdaptedType, CollectStep
  <2>5. ASSUME NEW dt \in Durations, Collect(Adapted(dt), SmallerOf(elapsed + dt, call.seconds))
        PROVE  WorkerInv' /\ GpuNext
    <3>1. call.seconds \in Int /\ dt \in Int
      BY <2>1, CliAssumption, GpuAssumption
    <3>2. SmallerOf(elapsed + dt, call.seconds) \in Int
      BY <2>1, <3>1 DEF SmallerOf
    <3>. QED  BY <2>1, <2>5, <3>2, AdaptedType, CollectStep
  <2>. QED  BY <1>8, <2>1, <2>2, <2>3, <2>4, <2>5 DEF WarmedUp, Timed
<1>9. CASE Gpu
  <2>1. Kernel /\ UNCHANGED step
    BY <1>9 DEF Gpu, cliVars
  <2>2. UNCHANGED <<localSize, batchSize, targetMs, elapsed>>
    BY <2>1 DEF Kernel, Miss, Count, Store
  <2>. QED  BY <2>1, <2>2 DEF WorkerInv, GpuNext
<1>10. CASE UNCHANGED vars
  BY <1>10, <1>1 DEF vars, cliVars
<1>. QED  BY <1>3, <1>4, <1>5, <1>6, <1>7, <1>8, <1>9, <1>10 DEF Next

WorkInv == TodoInv /\ WorkerInv /\ GpuInv

LEMMA WorkStep == WorkInv /\ [Next]_vars => WorkInv'
BY TodoStep, WorkerStep, GpuStep DEF WorkInv

LEMMA WorkInit == Init => WorkInv
BY DEF Init, GpuIdle, WorkInv, TodoInv, WorkerInv, GpuInv

\* Every launch of selftest and bench, on whatever device and with whatever sizes, finds the
\* hits of its range and no others (gpu.py:168-204, 212-228, keccak256.cl:88-133).
THEOREM ProgramFindsHits == Spec => []FoundAreHits
<1>1. WorkInv => FoundAreHits
  BY FinishedFindsHits DEF WorkInv
<1>. QED  BY <1>1, WorkInit, WorkStep, PTL DEF Spec

-----------------------------------------------------------------------------
(* The self-test.                                                          *)

\* What a launch from nonce 0 on finds, if there is room for it, is what the CPU finds.
LEMMA FoundFromZero ==
    ASSUME GpuInv, launch # NoLaunch, Finished, launch.base = 0, launch.n \in 0..Limb,
           Cardinality({x \in 0..(launch.n - 1) : Digest[launch.challenge][x] < launch.target})
              <= MaxResults
    PROVE  {Found[k] : k \in 1..Len(Found)}
              = {x \in 0..(launch.n - 1) : Digest[launch.challenge][x] < launch.target}
<1>. DEFINE returned == {Found[k] : k \in 1..Len(Found)}
            cpu == {x \in 0..(launch.n - 1) : Digest[launch.challenge][x] < launch.target}
            m == launch.n
<1>1. /\ returned \subseteq Hits /\ Cardinality(returned) = Len(Found)
      /\ Len(Found) = SmallerOf(Cardinality(Hits), MaxResults)
  BY FinishedFindsHits DEF FoundAreHits
<1>2. m \in Nat /\ \A g \in 0..(m - 1) : g \in Nat /\ g < Word
  BY GpuAssumption, WordSize
<1>3. \A g \in 0..(m - 1) : (launch.base + g) % Word = g
  <2>. SUFFICES ASSUME NEW g \in 0..(m - 1) PROVE (0 + g) % Word = g
    OBVIOUS
  <2>. QED  BY <1>2, WordSize
<1>4. Hits = cpu
  BY <1>3 DEF Hits
<1>5. IsFiniteSet(cpu)
  <2>1. IsFiniteSet(0..(m - 1))
    BY <1>2, FS_Interval
  <2>. QED  BY <2>1, FS_Subset
<1>. HIDE DEF returned, cpu
<1>6. Cardinality(cpu) \in Nat /\ Cardinality(cpu) <= MaxResults
  BY <1>5, FS_CardinalityType DEF cpu
<1>7. Cardinality(returned) = Cardinality(cpu) /\ returned \subseteq cpu
  BY <1>1, <1>4, <1>6, GpuAssumption DEF SmallerOf
<1>8. returned = cpu
  BY <1>5, <1>7, FS_Subset
<1>. QED  BY <1>8 DEF returned, cpu

\* The launches of the self-test.
SelftestInv ==
    launch # NoLaunch =>
        /\ step = "window" => launch = [challenge |-> SelftestChallenge, target |-> SelftestTarget,
                                        n |-> SelftestWindow, base |-> 0]
        /\ step = "all" => launch = [challenge |-> SelftestChallenge, target |-> Word - 1,
                                     n |-> 4, base |-> 0]

LEMMA SelftestStep == SelftestInv /\ [Next]_vars => SelftestInv'
<1>. SUFFICES ASSUME SelftestInv, [Next]_vars PROVE SelftestInv'
  OBVIOUS
<1>1. CASE UNCHANGED <<launch, step>>
  BY <1>1 DEF SelftestInv, NoLaunch
<1>2. CASE step' \notin {"window", "all"} \/ launch' = NoLaunch
  BY <1>2 DEF SelftestInv, NoLaunch
<1>3. CASE Devices \/ BenchBegins \/ Starting \/ Mining
  BY <1>3, <1>1, <1>2 DEF Devices, BenchBegins, Starting, Load, Flags, NoMiner, NewMiner,
                          Mining, cliVars, gpuVars, End
<1>4. CASE SelftestBegins \/ BenchNext
  BY <1>4, <1>2 DEF SelftestBegins, BenchNext, NewWorker, End
<1>5. CASE SelftestWindowSearched
  BY <1>5, <1>2 DEF SelftestWindowSearched, Search, Launch, Collect, cliVars, SelftestInv
<1>6. CASE SelftestAllSearched
  BY <1>6, <1>2 DEF SelftestAllSearched, Search, Launch, Collect, cliVars, SelftestInv
<1>7. CASE WarmedUp \/ Timed
  BY <1>7, <1>2 DEF WarmedUp, Timed, Search, Collect, cliVars
<1>8. CASE Gpu
  BY <1>8, <1>1 DEF Gpu, Kernel, Miss, Count, Store, cliVars
<1>9. CASE UNCHANGED vars
  BY <1>9, <1>1 DEF vars, cliVars, gpuVars
<1>. QED  BY <1>3, <1>4, <1>5, <1>6, <1>7, <1>8, <1>9 DEF Next

\* Its two launches find what they should.
LEMMA WindowPasses ==
    ASSUME WorkInv, SelftestInv, SelftestWindowSearched
    PROVE  step' # "failed"
<1>1. CASE Search(SelftestChallenge, SelftestTarget, SelftestWindow, 0)
  BY <1>1 DEF Search, SelftestWindowSearched, cliVars
<1>2. CASE Collect(batchSize, elapsed)
  <2>1. /\ step = "window" /\ launch # NoLaunch /\ Finished /\ found' = Found
        /\ FoundAsOnCpu => step' = "all"
    BY <1>2 DEF SelftestWindowSearched, Collect, Search
  <2>2. /\ launch.challenge = SelftestChallenge /\ launch.target = SelftestTarget
        /\ launch.n = SelftestWindow /\ launch.base = 0
    BY <2>1 DEF SelftestInv
  <2>3. {Found[k] : k \in 1..Len(Found)} = WindowHits
    BY <2>1, <2>2, FoundFromZero, LaunchAssumption DEF WorkInv, WindowHits
  <2>4. FoundAsOnCpu
    BY <2>1, <2>3 DEF FoundAsOnCpu
  <2>. QED  BY <2>1, <2>4
<1>. QED  BY <1>1, <1>2 DEF SelftestWindowSearched

LEMMA AllPasses ==
    ASSUME WorkInv, SelftestInv, SelftestAllSearched
    PROVE  step' # "failed"
<1>1. CASE Search(SelftestChallenge, Word - 1, 4, 0)
  BY <1>1 DEF Search, SelftestAllSearched, cliVars
<1>2. CASE Collect(batchSize, elapsed)
  <2>1. /\ step = "all" /\ launch # NoLaunch /\ Finished /\ found' = Found
        /\ {found'[k] : k \in 1..Len(found')} = 0..3 => step' = "done"
    BY <1>2 DEF SelftestAllSearched, Collect, Search, End
  <2>2. /\ launch.challenge = SelftestChallenge /\ launch.target = Word - 1
        /\ launch.n = 4 /\ launch.base = 0
    BY <2>1 DEF SelftestInv
  <2>3. \A x \in 0..3 : Digest[SelftestChallenge][x] < Word - 1
    <3>. SUFFICES ASSUME NEW x \in 0..3 PROVE Digest[SelftestChallenge][x] < Word - 1
      OBVIOUS
    <3>. 4 \in 0..Limb /\ Limb \in Nat
      BY GpuAssumption, LaunchAssumption
    <3>1. Word \in Nat /\ x \in 0..(Word - 1)
      BY WordSize
    <3>2. Digest[SelftestChallenge][x] \in 0..(Word - 1)
      BY <3>1, GpuAssumption, LaunchAssumption
    <3>. QED  BY <3>1, <3>2, LaunchAssumption
  <2>4. {x \in 0..(launch.n - 1) : Digest[launch.challenge][x] < launch.target} = 0..3
    BY <2>2, <2>3
  <2>5. Cardinality(0..3) = 4
    <3>1. Cardinality(0..3) = IF 0 > 3 THEN 0 ELSE 3 - 0 + 1
      BY FS_Interval, 0 \in Int, 3 \in Int
    <3>. QED  BY <3>1
  <2>6. {Found[k] : k \in 1..Len(Found)} = 0..3
    BY <2>1, <2>2, <2>4, <2>5, FoundFromZero, LaunchAssumption DEF WorkInv
  <2>. QED  BY <2>1, <2>6
<1>. QED  BY <1>1, <1>2 DEF SelftestAllSearched

LEMMA SelftestNext == WorkInv /\ SelftestInv /\ SelftestPasses /\ [Next]_vars => SelftestPasses'
<1>. SUFFICES ASSUME WorkInv, SelftestInv, SelftestPasses, [Next]_vars PROVE step' # "failed"
  BY DEF SelftestPasses
<1>1. CASE UNCHANGED step
  BY <1>1 DEF SelftestPasses
<1>2. \A how : End(how) => step' = how
  BY DEF End
<1>3. CASE SelftestWindowSearched \/ SelftestAllSearched
  BY <1>3, WindowPasses, AllPasses
<1>4. CASE Devices \/ SelftestBegins \/ BenchBegins \/ BenchNext \/ Starting
  BY <1>4, <1>2 DEF Devices, SelftestBegins, BenchBegins, BenchNext, Starting,
                    Load, Flags, NoMiner, NewMiner
<1>5. CASE WarmedUp \/ Timed
  BY <1>5, <1>1, <1>2 DEF WarmedUp, Timed, Search, cliVars
<1>6. CASE Gpu \/ Mining \/ UNCHANGED vars
  BY <1>6, <1>1 DEF Gpu, Mining, vars, cliVars
<1>. QED  BY <1>3, <1>4, <1>5, <1>6 DEF Next

\* Whatever the device and the order of its work items, the self-test does not fail on a
\* kernel like this one: its window holds the hits of the CPU, and its second launch is not
\* spoilt by what the first has left in the slots (cli.py:82-103).
THEOREM SelftestPassesCorrect == Spec => []SelftestPasses
<1>1. Init => SelftestInv /\ SelftestPasses
  BY DEF Init, GpuIdle, SelftestInv, SelftestPasses
<1>. QED  BY <1>1, WorkInit, WorkStep, SelftestStep, SelftestNext, PTL DEF Spec

-----------------------------------------------------------------------------
(* Passes over the endpoints in the program.                               *)

\* Until there is a miner the chain client is as it is made, without an endpoint.
RestInv == step # "mining" => ChainInit(<<None>>, FALSE)

\* A configuration that was loaded has an endpoint, and keeps one when the flags are applied.
EndpointInv ==
    step \in {"loaded", "flagged"} => IsList(cfg["rpc_fallbacks"]) /\ RpcChain(cfg) # <<>>

\* The list of endpoints is empty only if neither the URL nor a fallback is one.
LEMMA RpcChainType ==
    ASSUME NEW c, IsList(c["rpc_fallbacks"])
    PROVE  /\ Len(RpcChain(c)) \in Nat
           /\ Len(RpcChain(c)) = 0 <=> RpcChain(c) = <<>>
           /\ RpcChain(c) # <<>> <=>
                 \/ c["rpc_url"] \notin {Empty, None}
                 \/ \E k \in 1..Len(c["rpc_fallbacks"]) : c["rpc_fallbacks"][k] \notin {Empty, None}
<1>. DEFINE rest == c["rpc_fallbacks"]
            all == <<c["rpc_url"]>> \o rest
            T == {c["rpc_url"]} \union {rest[k] : k \in 1..Len(rest)}
            good == {k \in 1..Len(all) : all[k] \notin {Empty, None}}
            firsts == {k \in 1..Len(all) : /\ all[k] \notin {Empty, None}
                                           /\ \A j \in 1..(k - 1) : all[j] # all[k]}
<1>1. rest \in Seq({rest[k] : k \in 1..Len(rest)})
  BY DEF IsList
<1>2. rest \in Seq(T)
  BY <1>1
<1>3. <<c["rpc_url"]>> \in Seq(T)
  OBVIOUS
<1>. HIDE DEF T
<1>4. all \in Seq(T) /\ Len(all) = Len(rest) + 1 /\ Len(rest) \in Nat
  BY <1>2, <1>3
<1>5. /\ all[1] = c["rpc_url"]
      /\ \A k \in 1..Len(rest) : all[k + 1] = rest[k]
  BY <1>2, <1>3
<1>6. good # {} <=> \/ c["rpc_url"] \notin {Empty, None}
                    \/ \E k \in 1..Len(rest) : rest[k] \notin {Empty, None}
  <2>1. \A k \in 1..Len(all) : k = 1 \/ (k - 1 \in 1..Len(rest) /\ all[k] = rest[k - 1])
    BY <1>4, <1>5
  <2>2. 1 \in 1..Len(all) /\ \A k \in 1..Len(rest) : k + 1 \in 1..Len(all)
    BY <1>4
  <2>. HIDE DEF all
  <2>. QED  BY <1>5, <2>1, <2>2
<1>. HIDE DEF all, rest
<1>7. good # {} <=> firsts # {}
  <2>1. firsts \subseteq good
    OBVIOUS
  <2>2. ASSUME good # {} PROVE firsts # {}
    <3>1. PICK k \in good : \A j \in good : k <= j
      BY <2>2, Least, good \subseteq Nat
    <3>2. \A j \in 1..(k - 1) : j \in 1..Len(all) /\ ~(k <= j)
      BY <1>4
    <3>3. \A j \in 1..(k - 1) : all[j] \in {Empty, None}
      BY <3>1, <3>2
    <3>4. k \in firsts
      BY <3>3
    <3>. QED  BY <3>4
  <2>. QED  BY <2>1, <2>2
<1>8. RpcChain(c) = InOrder(all, firsts)
  BY DEF RpcChain, all, rest
<1>. HIDE DEF firsts, good
<1>9. RpcChain(c) \in Seq(T) /\ (RpcChain(c) = <<>> <=> firsts = {})
  <2>1. firsts \subseteq 1..Len(all)
    BY DEF firsts
  <2>2. all \in Seq(T)
    BY <1>4
  <2>3. InOrder(all, firsts) \in Seq(T) /\ (InOrder(all, firsts) = <<>> <=> firsts = {})
    BY <2>1, <2>2, InOrderType
  <2>. QED  BY <1>8, <2>3
<1>. QED  BY <1>6, <1>7, <1>9, EmptySeq DEF rest

\* The fallbacks of a configuration that was loaded.
LEMMA FallbacksAreAList ==
    ASSUME NEW inv \in Invocations, inv.command = "run", Loaded(inv.file, inv.env) # Raises
    PROVE  IsList(Loaded(inv.file, inv.env)["rpc_fallbacks"])
<1>. DEFINE o == "rpc_fallbacks"
<1>1. Loaded(inv.file, inv.env)[o]
         = IF o \in DOMAIN inv.env /\ inv.env[o] # Empty THEN Parsed(o, inv.env[o])
           ELSE IF o \in DOMAIN inv.file THEN inv.file[o]
           ELSE Defaults[o]
  BY LoadedLayers, CliAssumption
<1>2. CASE o \in DOMAIN inv.env /\ inv.env[o] # Empty
  <2>. DEFINE list == inv.env[o]
              kept == {k \in 1..Len(list) : list[k] # Empty}
              T == {list[k] : k \in 1..Len(list)}
  <2>1. list \in Seq(T)
    BY <1>2, CliAssumption DEF Set, IsList
  <2>2. Parsed(o, list) = InOrder(list, kept)
    BY DEF Parsed, Switches
  <2>. HIDE DEF list, T
  <2>3. InOrder(list, kept) \in Seq(T)
    BY <2>1, InOrderType
  <2>. HIDE DEF kept
  <2>4. InOrder(list, kept) \in Seq({InOrder(list, kept)[k] : k \in 1..Len(InOrder(list, kept))})
    BY <2>3
  <2>. QED  BY <1>1, <1>2, <2>2, <2>4 DEF IsList, list
<1>3. CASE ~(o \in DOMAIN inv.env /\ inv.env[o] # Empty)
  BY <1>1, <1>3, CliAssumption
<1>. QED  BY <1>2, <1>3

LEMMA EndpointStep == EndpointInv /\ LayersInv /\ [Next]_vars => EndpointInv'
<1>. SUFFICES ASSUME EndpointInv, LayersInv, [Next]_vars PROVE EndpointInv'
  OBVIOUS
<1>1. CASE UNCHANGED <<step, cfg>>
  BY <1>1 DEF EndpointInv
<1>2. CASE step' \notin {"loaded", "flagged"}
  BY <1>2 DEF EndpointInv
<1>3. CASE Load /\ step' = "loaded"
  <2>1. /\ cfg' = Loaded(call.file, call.env) /\ cfg' # Raises /\ Valid(cfg')
        /\ call \in Invocations /\ call.command = "run"
    BY <1>3 DEF Load, Command, End, LayersInv
  <2>2. IsList(cfg'["rpc_fallbacks"])
    BY <2>1, FallbacksAreAList
  <2>. QED  BY <2>1, <2>2 DEF Valid, EndpointInv
<1>4. CASE Flags /\ step' = "flagged"
  <2>1. /\ cfg' = ApplyFlags(cfg, call.flags) /\ cfg' # Raises /\ step = "loaded"
        /\ call \in Invocations /\ call.command = "run"
    BY <1>4 DEF Flags, End, LayersInv
  <2>2. /\ "rpc_fallbacks" \notin DOMAIN call.flags
        /\ \A o \in DOMAIN call.flags \ TruthyFlags : call.flags[o] # Empty
        /\ \A o \in DOMAIN call.flags : call.flags[o] # None
        /\ {"rpc_url", "rpc_fallbacks"} \subseteq Options
    BY <2>1, CliAssumption DEF FlagOptions
  <2>3. cfg'["rpc_fallbacks"] = cfg["rpc_fallbacks"]
    BY <2>1, <2>2, FlagLayer
  <2>4. cfg'["rpc_url"] = IF "rpc_url" \in DOMAIN call.flags /\ call.flags["rpc_url"] # Empty
                             THEN call.flags["rpc_url"] ELSE cfg["rpc_url"]
    BY <2>1, <2>2, FlagLayer
  <2>5. IsList(cfg["rpc_fallbacks"]) /\ RpcChain(cfg) # <<>>
    BY <2>1 DEF EndpointInv
  <2>6. RpcChain(cfg') # <<>>
    BY <2>2, <2>3, <2>4, <2>5, RpcChainType
  <2>. QED  BY <2>3, <2>5, <2>6 DEF EndpointInv
<1>5. CASE Load \/ Flags \/ NoMiner \/ NewMiner
  BY <1>5, <1>2, <1>3, <1>4 DEF Load, Flags, NoMiner, NewMiner, End
<1>6. CASE NotStarting
  BY <1>6, <1>1, <1>2, OthersDecideNothing
<1>. QED  BY <1>1, <1>5, <1>6 DEF Next, Starting, NotStarting, vars, cliVars

\* The threads of ChainClient run when there is a miner, and not before.
LEMMA RestStep == RestInv /\ [Next]_vars => RestInv'
<1>. SUFFICES ASSUME RestInv, [Next]_vars, step' # "mining" PROVE ChainInit(<<None>>, FALSE)'
  BY DEF RestInv
<1>1. step # "mining" => UNCHANGED chainVars
  <2>1. CASE Devices \/ SelftestBegins \/ BenchBegins \/ BenchNext
             \/ Load \/ Flags \/ NoMiner \/ Gpu
    BY <2>1 DEF Devices, SelftestBegins, BenchBegins, BenchNext, Load, Flags, NoMiner, Gpu
  <2>2. CASE SelftestWindowSearched \/ SelftestAllSearched \/ WarmedUp \/ Timed
    BY <2>2 DEF SelftestWindowSearched, SelftestAllSearched, WarmedUp, Timed, Search
  <2>3. CASE NewMiner \/ Mining \/ UNCHANGED vars
    BY <2>3 DEF NewMiner, End, Mining, vars
  <2>. QED  BY <2>1, <2>2, <2>3 DEF Next, Starting
<1>2. step # "mining"
  <2>. SUFFICES ASSUME step = "mining" PROVE step' = "mining"
    OBVIOUS
  <2>1. CASE Mining \/ Gpu \/ UNCHANGED vars
    BY <2>1 DEF Mining, Gpu, vars, cliVars
  <2>2. CASE NotStarting /\ ~Mining /\ ~Gpu
    BY <2>2 DEF NotStarting, Devices, SelftestBegins, SelftestWindowSearched,
                SelftestAllSearched, BenchBegins, BenchNext, WarmedUp, Timed, Command
  <2>3. CASE Starting
    BY <2>3 DEF Starting, Load, Flags, NoMiner, NewMiner, Command
  <2>. QED  BY <2>1, <2>2, <2>3 DEF Next, NotStarting
<1>3. ChainInit(<<None>>, FALSE) /\ UNCHANGED chainVars
  BY <1>1, <1>2 DEF RestInv
<1>. QED  BY <1>3 DEF ChainInit, chainVars, clientVars, loopVars, callVars

\* The miner's client begins at rest, with an endpoint.
LEMMA NewMinerPass ==
    ASSUME RestInv, EndpointInv, NewMiner
    PROVE  PassInv'
<1>. DEFINE chain == RpcChain(cfg)
<1>1. step = "flagged" /\ ChainInit(<<None>>, FALSE)
  BY DEF NewMiner, RestInv
<1>2. Len(chain) \in Nat \ {0}
  BY <1>1, RpcChainType DEF EndpointInv
<1>3. /\ urls' = chain /\ w3' = chain[1] /\ contract' = chain[1]
      /\ UNCHANGED <<i, pc, n, local, asked, clean>>
  BY DEF NewMiner, ClientMade, callVars
<1>. HIDE DEF chain
<1>4. /\ i = 0 /\ pc = [t \in Threads |-> "none"] /\ n = [t \in Threads |-> 0]
      /\ local = [t \in Threads |-> NoFee] /\ asked = [t \in Threads |-> {}]
      /\ clean = [t \in Threads |-> FALSE]
  BY <1>1 DEF ChainInit
<1>5. CallTypes'
  BY <1>2, <1>3, <1>4 DEF CallTypes
<1>6. \A t \in Threads : ~clean'[t]
  BY <1>3, <1>4
<1>. QED  BY <1>5, <1>6 DEF PassInv

ProgramInv == LayersInv /\ EndpointInv /\ RestInv /\ (step = "mining" => PassInv)

LEMMA ProgramStep == ProgramInv /\ [Next]_vars => ProgramInv'
<1>. SUFFICES ASSUME ProgramInv, [Next]_vars PROVE step' = "mining" => PassInv'
  BY LayersStep, EndpointStep, RestStep DEF ProgramInv
<1>1. CASE NewMiner
  BY <1>1, NewMinerPass DEF ProgramInv
<1>2. CASE Mining
  BY <1>2, PassNext DEF Mining, ProgramInv
<1>3. CASE Load \/ Flags \/ NoMiner
  BY <1>3 DEF Load, Flags, NoMiner, End
<1>4. CASE Devices \/ SelftestBegins \/ BenchBegins \/ BenchNext
  BY <1>4 DEF Devices, SelftestBegins, BenchBegins, BenchNext, End
<1>5. CASE SelftestWindowSearched \/ SelftestAllSearched
  BY <1>5 DEF SelftestWindowSearched, SelftestAllSearched, Search, cliVars, End
<1>6. CASE WarmedUp \/ Timed
  BY <1>6 DEF WarmedUp, Timed, Search, cliVars, End
<1>7. CASE Gpu \/ UNCHANGED vars
  BY <1>7, PassUnchanged DEF Gpu, vars, cliVars, chainVars, ProgramInv
<1>. QED  BY <1>1, <1>2, <1>3, <1>4, <1>5, <1>6, <1>7 DEF Next, Starting

\* No call of the miner's threads gives up before it has asked every endpoint of the
\* configuration, if it began on a client at rest and saw no other thread rotate
\* (chain.py:4-6, 62-81); whatever the layers, there is an endpoint to ask
\* (config.py:133-148, cli.py:172-191).
THEOREM ProgramFullPass == Spec => []FullPass
<1>1. Init => ProgramInv
  <2>1. Init => LayersInv /\ EndpointInv /\ RestInv /\ step # "mining"
    BY DEF Init, LayersInv, EndpointInv, RestInv
  <2>. QED  BY <2>1 DEF ProgramInv
<1>2. ProgramInv => FullPass
  <2>1. CASE step = "mining"
    BY <2>1, PassIsFull DEF ProgramInv
  <2>2. ASSUME ChainInit(<<None>>, FALSE) PROVE FullPass
    BY <2>2 DEF ChainInit, FullPass
  <2>. QED  BY <2>1, <2>2 DEF ProgramInv, RestInv
<1>. QED  BY <1>1, <1>2, ProgramStep, PTL DEF Spec

-----------------------------------------------------------------------------
(* Types.                                                                  *)

Steps == {"start", "loaded", "flagged", "window", "all", "bench", "warm", "timed", "mining"}
            \union Ends

ModeType == step \in Steps /\ mode.dry \in BOOLEAN /\ mode.bundles \in BOOLEAN

LEMMA ModeStep == ModeType /\ [Next]_vars => ModeType'
<1>. SUFFICES ASSUME ModeType, [Next]_vars PROVE ModeType'
  OBVIOUS
<1>1. \A how : End(how) => step' = how
  BY DEF End
<1>2. CASE NewMiner
  <2>1. /\ mode'.dry = Dry
        /\ mode'.bundles = (cfg["bundle.enabled"] /\ Signer # None)
        /\ step' = "mining"
    BY <1>1, <1>2 DEF NewMiner
  <2>2. mode'.dry \in BOOLEAN
    BY <2>1 DEF Dry
  <2>3. mode'.bundles \in BOOLEAN
    BY <2>1
  <2>. QED  BY <2>1, <2>2, <2>3 DEF ModeType, Steps
<1>3. CASE Load \/ Flags \/ NoMiner
  BY <1>1, <1>3 DEF Load, Flags, NoMiner, ModeType, Steps, Ends
<1>4. CASE Devices \/ SelftestBegins \/ BenchBegins \/ BenchNext
  BY <1>1, <1>4 DEF Devices, SelftestBegins, BenchBegins, BenchNext, ModeType, Steps, Ends
<1>5. CASE SelftestWindowSearched \/ SelftestAllSearched
  BY <1>1, <1>5 DEF SelftestWindowSearched, SelftestAllSearched, Search, cliVars,
                    ModeType, Steps, Ends
<1>6. CASE WarmedUp \/ Timed
  BY <1>1, <1>6 DEF WarmedUp, Timed, Search, cliVars, ModeType, Steps, Ends
<1>7. CASE Gpu \/ Mining \/ UNCHANGED vars
  BY <1>7 DEF Gpu, Mining, vars, cliVars, ModeType
<1>. QED  BY <1>2, <1>3, <1>4, <1>5, <1>6, <1>7 DEF Next, Starting

\* The client of a new miner has the types of ChainClient.
LEMMA NewMinerTypes ==
    ASSUME RestInv, EndpointInv, NewMiner
    PROVE  ChainTypeInv'
<1>. DEFINE chain == RpcChain(cfg)
<1>1. step = "flagged" /\ ChainInit(<<None>>, FALSE)
  BY DEF NewMiner, RestInv
<1>2. Len(chain) \in Nat \ {0}
  BY <1>1, RpcChainType DEF EndpointInv
<1>3. /\ urls' = chain /\ w3' = chain[1] /\ contract' = chain[1]
      /\ bundles' = (cfg["bundle.enabled"] /\ Signer # None)
      /\ UNCHANGED <<i, loopVars, callVars, height, price>>
  BY DEF NewMiner, ClientMade
<1>. HIDE DEF chain
<1>4. w3' \in Endpoints' /\ contract' \in Endpoints'
  BY <1>2, <1>3 DEF Endpoints
<1>5. bundles' \in BOOLEAN
  BY <1>3
<1>6. 0 \in 0..(Len(urls') - 1) /\ 0 \in 0..Len(urls')
  BY <1>2, <1>3
<1>7. ChainTypeOK'
  BY <1>1, <1>3, <1>4, <1>5, <1>6, ChainAssumption
     DEF ChainInit, ChainTypeOK, Unpriced, loopVars, callVars
<1>8. LocalInv'
  BY <1>1, <1>3, <1>6 DEF ChainInit, LocalInv, callVars
<1>. QED  BY <1>2, <1>3, <1>7, <1>8 DEF ChainTypeInv

LEMMA ChainTypeStep == RestInv /\ EndpointInv /\ ChainTypeInv /\ [Next]_vars => ChainTypeInv'
<1>. SUFFICES ASSUME RestInv, EndpointInv, ChainTypeInv, [Next]_vars PROVE ChainTypeInv'
  OBVIOUS
<1>1. CASE Mining
  BY <1>1, ChainTypeNext DEF Mining
<1>2. CASE NewMiner
  BY <1>2, NewMinerTypes
<1>3. CASE UNCHANGED chainVars
  BY <1>3, ChainTypeNext
<1>4. CASE Devices \/ SelftestBegins \/ BenchBegins \/ BenchNext \/ Gpu
           \/ Load \/ Flags \/ NoMiner
  BY <1>3, <1>4 DEF Devices, SelftestBegins, BenchBegins, BenchNext, Gpu, Load, Flags, NoMiner
<1>5. CASE SelftestWindowSearched \/ SelftestAllSearched \/ WarmedUp \/ Timed
  BY <1>3, <1>5 DEF SelftestWindowSearched, SelftestAllSearched, WarmedUp, Timed, Search
<1>. QED  BY <1>1, <1>2, <1>3, <1>4, <1>5 DEF Next, Starting, vars

CliTypeInv == ModeType /\ WorkInv /\ ProgramInv /\ GpuTypeInv /\ ChainTypeInv

LEMMA CliTypeStep == CliTypeInv /\ [Next]_vars => CliTypeInv'
<1>. SUFFICES ASSUME CliTypeInv, [Next]_vars PROVE CliTypeInv'
  OBVIOUS
<1>1. [GpuNext]_gpuVars
  BY WorkerStep DEF CliTypeInv, WorkInv
<1>2. GpuTypeInv'
  BY <1>1, GpuTypeStep DEF CliTypeInv
<1>3. ChainTypeInv'
  BY ChainTypeStep DEF CliTypeInv, ProgramInv
<1>. QED  BY <1>2, <1>3, ModeStep, WorkStep, ProgramStep DEF CliTypeInv

\* The program keeps its types, whatever it is called with.
THEOREM CliTypeCorrect == Spec => []CliTypeOK
<1>1. Init => CliTypeInv
  <2>1. Init => ModeType /\ GpuIdle /\ ChainInit(<<None>>, FALSE)
    <3>1. NoMode.dry = TRUE /\ NoMode.bundles = FALSE
      BY DEF NoMode
    <3>2. NoMode.dry \in BOOLEAN /\ NoMode.bundles \in BOOLEAN
      BY <3>1
    <3>. QED  BY <3>2 DEF Init, ModeType, Steps
  <2>2. Init => LayersInv /\ EndpointInv /\ RestInv /\ step # "mining"
    BY DEF Init, LayersInv, EndpointInv, RestInv
  <2>3. Len(<<None>>) \in Nat \ {0}
    OBVIOUS
  <2>4. ChainInit(<<None>>, FALSE) => ChainTypeInv
    BY <2>3, ChainTypeInit
  <2>. QED  BY <2>1, <2>2, <2>4, WorkInit, GpuTypeInit DEF CliTypeInv, ProgramInv
<1>2. CliTypeInv => CliTypeOK
  BY DEF CliTypeInv, CliTypeOK, ModeType, Steps, GpuTypeInv, ChainTypeInv
<1>. QED  BY <1>1, <1>2, CliTypeStep, PTL DEF Spec
=============================================================================
