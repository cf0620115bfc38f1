-------------------------------- MODULE Cli --------------------------------
(***************************************************************************)
(* The program: `hashminer devices | selftest | bench | run`               *)
(* (src/hashminer/cli.py).  selftest and bench drive one GpuWorker; run    *)
(* makes a configuration of its layers, decides with whose account and     *)
(* address to mine and whether to broadcast, builds the Miner              *)
(* (src/hashminer/miner.py) and becomes the threads of ChainClient.        *)
(*                                                                         *)
(* The farm's workers, the jobs and the submissions of run are the         *)
(* business of Miner, Submitter and BundleSubmitter.                       *)
(***************************************************************************)
EXTENDS Config, GpuWorker, ChainClient

CONSTANTS
    Invocations,    \* what the program may be called with, and the machine it runs on
    Files,          \* the secret in each key file
    Placeholder,    \* _DRY_RUN_PLACEHOLDER
    SelftestChallenge, SelftestTarget, SelftestWindow,      \* selftest: challenge, target, N
    BenchChallenge, WarmUp,     \* benchmark: 32 zero bytes, the first launch
    Sizes           \* bench --tune-local-size: the candidates

Device == [index : Int, gpu : BOOLEAN, maxWorkGroup : Nat]

IsList(list) == list \in Seq({list[k] : k \in 1..Len(list)})

\* What the command line, the file and the machine may give.  A flag that is converted or is a
\* switch has no empty value: the command line refuses it.
ASSUME CliAssumption ==
    /\ Placeholder # None
    /\ Sizes \in Seq(Int)
    /\ {"rpc_url", "rpc_fallbacks"} \subseteq Options /\ IsList(Defaults["rpc_fallbacks"])
    /\ \A inv \in Invocations :
          /\ inv.devs \in Seq(Device)
          /\ inv.command = "bench" => /\ inv.devices \in {All, Malformed} \union Seq(Int)
                                      /\ {inv.localSize, inv.ms, inv.seconds} \subseteq Int
          /\ inv.command = "run" =>
                /\ DOMAIN inv.flags \subseteq FlagOptions
                /\ \A o \in DOMAIN inv.flags : inv.flags[o] # None
                /\ \A o \in DOMAIN inv.flags \ TruthyFlags : inv.flags[o] # Empty
                /\ "rpc_fallbacks" \in DOMAIN inv.file => IsList(inv.file["rpc_fallbacks"])
                /\ "rpc_fallbacks" \in Set(inv.env) => IsList(inv.env["rpc_fallbacks"])

\* The nonces of the self-test's window that the CPU finds.
WindowHits == {x \in 0..(SelftestWindow - 1) : Digest[SelftestChallenge][x] < SelftestTarget}

\* The fixed arguments of selftest and benchmark(): a launch has room for the hits of the
\* self-test, and no digest of its second launch is the largest word.
ASSUME LaunchAssumption ==
    /\ {SelftestChallenge, BenchChallenge} \subseteq Challenges
    /\ SelftestTarget \in 0..(Word - 1)
    /\ {SelftestWindow, WarmUp, 4} \subseteq 0..Limb
    /\ Cardinality(WindowHits) <= MaxResults /\ 4 <= MaxResults
    /\ \A x \in 0..3 : Digest[SelftestChallenge][x] # Word - 1

VARIABLES
    call,           \* the invocation, as long as it is looked at
    step,           \* where the command stands, or how it ended
    cfg,            \* Config
    mode,           \* what Miner.__init__ decided
    todo            \* bench: the launches of benchmarks still to be made, as device and size

cliVars == <<call, step, cfg, mode, todo>>

vars == <<cliVars, gpuVars, chainVars>>

NoCall == [command |-> "none"]
NoMode == [address |-> None, signer |-> None, dry |-> TRUE, bundles |-> FALSE]

Ends == {"done", "exit", "raised", "failed"}

CliTypeOK ==
    /\ step \in {"start", "loaded", "flagged", "window", "all", "bench", "warm", "timed", "mining"}
                \union Ends
    /\ mode.dry \in BOOLEAN /\ mode.bundles \in BOOLEAN
    /\ GpuTypeOK
    /\ ChainTypeOK

Init ==
    /\ call \in Invocations
    /\ step = "start"
    /\ cfg = Defaults
    /\ mode = NoMode
    /\ todo = <<>>
    /\ GpuIdle
    /\ ChainInit(<<None>>, FALSE)

\* The command ends; nothing that is left in its variables matters.
End(how) == step' = how /\ call' = NoCall /\ cfg' = Defaults /\ todo' = <<>>

Command(name) == call.command = name /\ step = "start"

Devices ==
    /\ Command("devices")
    /\ End(IF call.devs = <<>> THEN "exit" ELSE "done")
    /\ UNCHANGED <<mode, gpuVars, chainVars>>

-----------------------------------------------------------------------------
(* selftest.                                                               *)

\* The device asked for, or the first that would be selected.
SelftestDevices ==
    LET theOne == {k \in 1..Len(call.devs) : call.devs[k].index = call.devices[1]}
    IN  IF call.devices # All THEN InOrder(call.devs, theOne) ELSE SelectDevices(call.devs, All)

SelftestBegins ==
    /\ Command("selftest")
    /\ IF SelftestDevices = <<>>
          THEN /\ End(IF call.devs = <<>> THEN "exit" ELSE "raised")
               /\ UNCHANGED gpuVars
          ELSE /\ NewWorker(SelftestDevices[1], 0, 0)
               /\ step' = "window"
               /\ UNCHANGED <<call, cfg, todo>>
    /\ UNCHANGED <<mode, chainVars>>

\* A command makes its next launch.
Search(challenge, target, count, base) ==
    /\ launch = NoLaunch
    /\ Launch(challenge, target, count, base)
    /\ UNCHANGED <<elapsed, cliVars, chainVars>>

\* Found are the hits of the CPU, and no others.
FoundAsOnCpu == {found'[k] : k \in 1..Len(found')} = WindowHits

SelftestWindowSearched ==
    /\ step = "window"
    /\ \/ Search(SelftestChallenge, SelftestTarget, SelftestWindow, 0)
       \/ /\ Collect(batchSize, elapsed)
          /\ IF FoundAsOnCpu THEN step' = "all" /\ UNCHANGED <<call, cfg, todo>>
                             ELSE End("failed")
          /\ UNCHANGED <<mode, chainVars>>

\* With the largest target every nonce of a launch of four qualifies.
SelftestAllSearched ==
    /\ step = "all"
    /\ \/ Search(SelftestChallenge, Word - 1, 4, 0)
       \/ /\ Collect(batchSize, elapsed)
          /\ End(IF {found'[k] : k \in 1..Len(found')} = 0..3 THEN "done" ELSE "failed")
          /\ UNCHANGED <<mode, chainVars>>

-----------------------------------------------------------------------------
(* bench.                                                                  *)

\* The benchmarks of one device: one per work-group size that it allows.
BenchSizes(d) ==
    LET candidates == IF call.tune THEN Sizes ELSE <<call.localSize>>
    IN  InOrder(candidates, {k \in 1..Len(candidates) : candidates[k] <= d.maxWorkGroup})

BenchBegins ==
    /\ Command("bench")
    /\ LET devs == SelectDevices(call.devs, call.devices)
       IN  IF call.devices = Malformed \/ ~Selectable(call.devs, call.devices) THEN End("raised")
           ELSE /\ step' = "bench"
                /\ todo' = [k \in 1..Len(devs) |-> [dev |-> devs[k], sizes |-> BenchSizes(devs[k])]]
                /\ UNCHANGED <<call, cfg>>
    /\ UNCHANGED <<mode, gpuVars, chainVars>>

\* A worker is made for the next size; a device none of whose sizes is possible ends it all.
BenchNext ==
    /\ step = "bench"
    /\ IF todo = <<>> THEN End("done") /\ UNCHANGED gpuVars
       ELSE IF Head(todo).sizes = <<>> THEN End("exit") /\ UNCHANGED gpuVars
       ELSE /\ NewWorker(Head(todo).dev, Head(Head(todo).sizes), call.ms)
            /\ step' = "warm"
            /\ todo' = IF Len(Head(todo).sizes) = 1 THEN Tail(todo)
                                                     ELSE [todo EXCEPT ![1].sizes = Tail(@)]
            /\ UNCHANGED <<call, cfg>>
    /\ UNCHANGED <<mode, chainVars>>

\* benchmark(): a launch to warm up, whose time is not counted, and launches until the time
\* is over; a rate over no time cannot be computed.
WarmedUp ==
    /\ step = "warm"
    /\ \/ \E base \in RandomBases : Search(BenchChallenge, 1, WarmUp, base)
       \/ /\ \E dt \in Durations : Collect(Adapted(dt), 0)
          /\ IF call.seconds > 0 THEN step' = "timed" /\ UNCHANGED <<call, cfg, todo>>
                                 ELSE End("raised")
          /\ UNCHANGED <<mode, chainVars>>

Timed ==
    /\ step = "timed"
    /\ \/ \E base \in RandomBases : Search(BenchChallenge, 1, batchSize, base)
       \/ /\ \E dt \in Durations :
                /\ Collect(Adapted(dt), SmallerOf(elapsed + dt, call.seconds))
                /\ step' = IF elapsed + dt < call.seconds THEN "timed" ELSE "bench"
          /\ UNCHANGED <<call, cfg, mode, todo, chainVars>>

Gpu == Kernel /\ UNCHANGED <<cliVars, chainVars>>

-----------------------------------------------------------------------------
(* run.                                                                    *)

\* Config.load().
Load ==
    /\ Command("run")
    /\ LET loaded == Loaded(call.file, call.env)
       IN  IF loaded = Raises THEN End("raised")
           ELSE IF ~Valid(loaded) THEN End("raised")
           ELSE cfg' = loaded /\ step' = "loaded" /\ UNCHANGED <<call, todo>>
    /\ UNCHANGED <<mode, gpuVars, chainVars>>

Flags ==
    /\ step = "loaded"
    /\ LET flagged == ApplyFlags(cfg, call.flags)
       IN  IF flagged = Raises THEN End("raised")
           ELSE cfg' = flagged /\ step' = "flagged" /\ UNCHANGED <<call, todo>>
    /\ UNCHANGED <<mode, gpuVars, chainVars>>

Signer == ResolvedAccount(cfg, call.secret, Files)

\* Submitter.__init__.
Dry == cfg["dry_run"] \/ Signer = None

\* Without an address of any kind there is nobody to mine for, and without a key nothing to
\* sign a bundle with; both are no matter in a dry run.
Refused ==
    /\ Signer = None /\ ~cfg["dry_run"]
    /\ cfg["miner_address"] = None \/ cfg["bundle.enabled"]

\* The key, its file or the devices raise, or run() or Miner.__init__ refuses.
NoMiner ==
    /\ step = "flagged"
    /\ \/ Signer = Malformed /\ End("raised")
       \/ Signer # Malformed /\ Refused /\ End("exit")
       \/ /\ Signer # Malformed /\ ~Refused
          /\ ~Selectable(call.devs, cfg["gpu_devices"])
          /\ End("raised")
    /\ UNCHANGED <<mode, gpuVars, chainVars>>

\* Miner.__init__: the address, the submitter, the bundle path and the farm.
NewMiner ==
    /\ step = "flagged"
    /\ Signer # Malformed /\ ~Refused /\ Selectable(call.devs, cfg["gpu_devices"])
    /\ LET address == MinerAddress(cfg, Signer)
           withBundles == cfg["bundle.enabled"] /\ Signer # None
       IN  /\ mode' = [address |-> IF address = None THEN Placeholder ELSE address,
                       signer |-> Signer, dry |-> Dry, bundles |-> withBundles]
           /\ ClientMade(RpcChain(cfg), withBundles)
    /\ End("mining")
    /\ UNCHANGED gpuVars

Mining == step = "mining" /\ ChainNext /\ UNCHANGED <<cliVars, gpuVars>>

Starting == Load \/ Flags \/ NoMiner \/ NewMiner

Next ==
    \/ Devices
    \/ SelftestBegins \/ SelftestWindowSearched \/ SelftestAllSearched
    \/ BenchBegins \/ BenchNext \/ WarmedUp \/ Timed
    \/ Gpu
    \/ Starting
    \/ Mining

\* The program goes on by itself; the threads of a miner as in ChainClient.
Fairness ==
    /\ WF_vars(Starting)
    /\ WF_vars(step = "mining" /\ NewBlock /\ UNCHANGED <<cliVars, gpuVars>>)
    /\ WF_vars(step = "mining" /\ MainStep /\ UNCHANGED <<cliVars, gpuVars>>)
    /\ \A t \in Pool : WF_vars(step = "mining" /\ PoolStep(t) /\ UNCHANGED <<cliVars, gpuVars>>)

Spec == Init /\ [][Next]_vars /\ Fairness

-----------------------------------------------------------------------------
(* Properties.                                                             *)

\* The self-test does not fail on a device that works (cli.py:92-103): no false positive, no
\* mismatch with the CPU, in the second launch after the first as well.
SelftestPasses == step # "failed"

\* "env wins over toml" (README.md:281), and a flag wins over both: an option has the value of
\* the highest layer that gives it one, an empty variable giving none.
Precedence ==
    step = "flagged" => \A o \in Options :
        cfg[o] = IF o \in DOMAIN call.flags /\ call.flags[o] # Empty THEN call.flags[o]
                 ELSE IF o \in DOMAIN call.env /\ call.env[o] # Empty THEN Parsed(o, call.env[o])
                 ELSE IF o \in DOMAIN call.file THEN call.file[o]
                 ELSE Defaults[o]

\* "With no key set, the miner is read-only and forces --dry-run" (README.md:174-175), and a
\* miner that broadcasts mines for the account that signs: what it finds for another address
\* would be refused by the contract (miner.py:50-70, submit.py:71-82, cli.py:193-198).
MinesForItsSigner ==
    step = "mining" =>
        /\ mode.address # None
        /\ mode.signer = None => mode.dry /\ ~mode.bundles
        /\ ~mode.dry => mode.address = mode.signer
=============================================================================
