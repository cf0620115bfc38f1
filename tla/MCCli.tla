------------------------------- MODULE MCCli -------------------------------
(* The instance of Cli that is model-checked.                              *)
EXTENDS Cli, TLC

CONSTANTS main, p1, u0, u1, k1, a1, dead, zero, chal

MCChallenges == {chal, zero}

\* Four limbs of eight values.  Under chal nonce 0 has a digest equal to the target of the
\* self-test, 1 and 3 smaller ones and 2 a larger one; under the benchmark's challenge the
\* nonces around the carry out of two limbs have the digest 0 and their neighbour has 1.
MCDigest ==
    [c \in MCChallenges |-> [x \in 0..4095 |->
        IF c = chal THEN CASE x = 0 -> 1096 [] x = 1 -> 1095 [] x = 3 -> 583 [] OTHER -> 1100 + (x % 8)
                  ELSE IF x \in {4095, 0} \union 61..66 THEN 0 ELSE 1 + (x % 2)]]

Device0 == [index |-> 0, gpu |-> TRUE, maxWorkGroup |-> 2]
Device1 == [index |-> 1, gpu |-> FALSE, maxWorkGroup |-> 3]
Both == <<Device0, Device1>>

MCDefaults ==
    [o \in {"ws_url", "key_file", "miner_address", "gas.gas_limit"} |-> None]
    @@ "rpc_url" :> u0 @@ "rpc_fallbacks" :> <<u1>> @@ "chain_id" :> 1
    @@ "gpu_devices" :> All @@ "local_size" :> 256 @@ "dry_run" :> FALSE
    @@ "bundle.enabled" :> FALSE @@ "log_level" :> "INFO"

MCFiles == "key" :> k1 @@ "blank" :> Empty

Run(file, env, flags, secret, devs) ==
    [command |-> "run", file |-> file, env |-> env, flags |-> flags, secret |-> secret, devs |-> devs]

\* A layer that gives an option a value, or none if the value is None.
Gives(o, v) == IF v = None THEN <<>> ELSE o :> v

\* Every way to give one option in the three layers.
OneOption(o, inFile, inEnv, inFlags) ==
    {Run(Gives(o, f), Gives(o, e), Gives(o, g), k1, Both) :
        f \in inFile \union {None}, e \in inEnv \union {None}, g \in inFlags \union {None}}

Layers ==
    OneOption("rpc_url", {u1, Empty}, {u1, Empty}, {u0, Empty})
    \union OneOption("rpc_fallbacks", {<<>>, <<u1, u0, u1>>}, {<<Empty, u1>>}, {})
    \union OneOption("chain_id", {0, 5}, {7, Empty, Malformed}, {})
    \union OneOption("local_size", {64}, {128, Malformed}, {512})
    \union OneOption("gpu_devices", {<<0>>, <<7>>, Malformed}, {All, <<1>>, Malformed}, {All, Empty, <<0, 1>>, Malformed})
    \union OneOption("log_level", {"DEBUG"}, {"ERROR", Empty}, {"WARNING", Empty})
    \union OneOption("private_key", {k1}, {}, {})
    \union OneOption("gas.gas_limit", {250}, {}, {})

\* Every way to be somebody, to ask for a dry run and to ask for bundles.
Identities ==
    {Run(Gives("key_file", kf) @@ Gives("miner_address", a),
         Gives("dry_run", e), Gives("dry_run", g) @@ Gives("bundle.enabled", b), secret, Both) :
        kf \in {None, "key", "blank", "missing"}, a \in {None, a1}, secret \in {None, Empty, k1, Malformed},
        e \in {None, "1", "0"}, g \in {None, TRUE, FALSE}, b \in {None, TRUE}}

Others ==
    {[command |-> "devices", devs |-> d] : d \in {<<>>, Both}}
    \union {[command |-> "selftest", devs |-> d, devices |-> s] :
                d \in {<<>>, Both, <<Device1>>}, s \in {All, <<1>>, <<7>>}}
    \union {[command |-> "bench", devs |-> Both, devices |-> s, tune |-> FALSE, localSize |-> l,
             ms |-> 1, seconds |-> n1] :
                s \in {All, <<>>, <<1, 0>>, <<7>>, Malformed}, l \in {0, 3}, n1 \in {0, 1}}
    \union {[command |-> "bench", devs |-> Both, devices |-> All, tune |-> TRUE, localSize |-> 0,
             ms |-> 0, seconds |-> 1]}

MCInvocations == Layers \union Identities \union Others \union {Run(<<>>, <<>>, <<>>, k1, <<>>)}

MCSizes == <<1, 2, 4>>
MCBases == {62, 4095}
MCPool == {p1}
MCSteady == {u1}
MCFee == 0 :> 5 @@ 1 :> 4 @@ 2 :> 3
=============================================================================
