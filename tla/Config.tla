------------------------------- MODULE Config -------------------------------
(***************************************************************************)
(* Config (src/hashminer/config.py) and the flags of `hashminer run`       *)
(* (src/hashminer/cli.py): how miner.toml, the environment and the command *)
(* line are laid over the defaults, and what follows from the result.      *)
(*                                                                         *)
(* A configuration is a function from options to values.  A layer is such  *)
(* a function on the options it gives.  Empty is text without a character, *)
(* Malformed a value that the conversion or the check of its option        *)
(* refuses.                                                                *)
(***************************************************************************)
EXTENDS Ordered

CONSTANTS
    Defaults,       \* the defaults of every option
    None,           \* Python's
    Empty,          \* text without a character
    Malformed,      \* text that cannot be converted, a value of the wrong type
    Raises          \* what a step has that raises

Options == DOMAIN Defaults

\* Options that a variable HASH256_... stands for.
EnvOptions ==
    {"rpc_url", "rpc_fallbacks", "ws_url", "contract", "chain_id", "key_file", "miner_address",
     "gpu_devices", "local_size", "batch_target_ms", "dry_run", "log_level",
     "bundle.enabled", "bundle.size", "bundle.priority_gwei"}

\* Those among them that are switches, and those that int() or float() converts.
Switches == {"dry_run", "bundle.enabled"}
Numeric == {"chain_id", "gpu_devices", "local_size", "batch_target_ms",
            "bundle.size", "bundle.priority_gwei"}

\* Options that a flag of `hashminer run` sets, and those whose flag counts only if not empty.
FlagOptions ==
    {"rpc_url", "gpu_devices", "local_size", "batch_target_ms", "dry_run", "log_level",
     "bundle.enabled", "bundle.size", "bundle.priority_gwei"}
TruthyFlags == {"rpc_url", "gpu_devices", "log_level"}

Over(cfg, layer) == [o \in Options |-> IF o \in DOMAIN layer THEN layer[o] ELSE cfg[o]]

\* _apply_toml(): what the file gives, refused if a private key is among it.
ApplyToml(cfg, file) ==
    IF {"private_key", "key_private"} \intersect DOMAIN file # {} THEN Raises ELSE Over(cfg, file)

\* The value of a variable that is not empty.
Parsed(o, text) ==
    IF o \in Switches THEN text \in {"1", "true", "yes", "on"}
    ELSE IF o = "rpc_fallbacks" THEN InOrder(text, {k \in 1..Len(text) : text[k] # Empty})
    ELSE text

Set(env) == {o \in DOMAIN env : env[o] # Empty}

\* _apply_env(): what the environment gives, unless empty.
ApplyEnv(cfg, env) ==
    IF \E o \in DOMAIN env \intersect Numeric : env[o] = Malformed THEN Raises
    ELSE Over(cfg, [o \in Set(env) |-> Parsed(o, env[o])])

\* Mutant: the file is laid over the environment.
FileOverEnv(file, env) ==
    LET cfg == ApplyEnv(Defaults, env) IN IF cfg = Raises THEN Raises ELSE ApplyToml(cfg, file)

\* Config.load() without its validation.
Loaded(file, env) ==
    LET cfg == ApplyToml(Defaults, file) IN IF cfg = Raises THEN Raises ELSE ApplyEnv(cfg, env)

\* The flags, after the configuration was validated.
ApplyFlags(cfg, flags) ==
    LET given == {o \in DOMAIN flags : o \in TruthyFlags => flags[o] # Empty}
    IN  IF "gpu_devices" \in given /\ flags["gpu_devices"] = Malformed THEN Raises
        ELSE Over(cfg, [o \in given |-> flags[o]])

\* Config.rpc_chain(): the URL and its fallbacks, without empty ones and repetitions.
RpcChain(cfg) ==
    LET all == <<cfg["rpc_url"]>> \o cfg["rpc_fallbacks"]
    IN  InOrder(all, {k \in 1..Len(all) : /\ all[k] \notin {Empty, None}
                                          /\ \A j \in 1..(k - 1) : all[j] # all[k]})

\* Config.validate().
Valid(cfg) ==
    /\ RpcChain(cfg) # <<>>
    /\ cfg["chain_id"] > 0
    /\ cfg["gpu_devices"] # Malformed

-----------------------------------------------------------------------------
(* The key.  A secret is what HASH256_PRIVATE_KEY or a key file holds:     *)
(* None (not set), Empty (nothing but white space), Malformed, or the      *)
(* account the key is of.  files gives the secret of each file there is.   *)

\* Config.load_private_key(): a variable that is set hides the key file, even if it is blank.
PrivateKey(cfg, secret, files) ==
    IF secret # None THEN secret
    ELSE IF cfg["key_file"] \in {None, Empty} THEN None
    ELSE IF cfg["key_file"] \notin DOMAIN files THEN Malformed
    ELSE files[cfg["key_file"]]

\* Config.resolved_account(): None without a key, Malformed when it raises.
ResolvedAccount(cfg, secret, files) ==
    LET key == PrivateKey(cfg, secret, files) IN IF key = Empty THEN None ELSE key

\* Mutant: the configured address comes before the key's.
ConfiguredAddressFirst(cfg, account) ==
    IF cfg["miner_address"] # None THEN cfg["miner_address"] ELSE account

\* Config.effective_miner_address().
MinerAddress(cfg, account) == IF account # None THEN account ELSE cfg["miner_address"]
=============================================================================
