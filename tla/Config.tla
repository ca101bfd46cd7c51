------------------------------- MODULE Config -------------------------------
(***************************************************************************)
(* Loading the configuration: the file, the environment over it, what      *)
(* single-use mode implies, and validation (config.rs). A configuration is *)
(* a function from settings to values; a file and an environment give some *)
(* of them. Junk stands for text that does not parse as a number.          *)
(***************************************************************************)
EXTENDS Integers

CONSTANT Unset      \* an optional setting that is not given

ASSUME ConfigAssumption == Unset \notin Nat

Junk == -1
Ports == 0..65535

\* What f gives, else what g gives.
Over(f, g) ==
    [k \in DOMAIN f \cup DOMAIN g |-> IF k \in DOMAIN f THEN f[k] ELSE g[k]]

\* RuntimeConfig and its parts, with the values of their Default impls. The
\* sizes only compared with zero are given in their own units.
PoolConfig ==
    [min_ready |-> 1, calibrate |-> TRUE, max_sessions |-> Unset, max_queue |-> 10,
     queue_timeout_ms |-> 30 * 1000, warm_idle_ms |-> 30 * 10000, warm_max_age_ms |-> 3600 * 1000]

SessionConfig ==
    [idle_timeout_ms |-> 0, memory_max_mb |-> 0, cpu_percent |-> 0, pids_max |-> 0,
     tmpfs_size_mb |-> 512, kill_grace_ms |-> 5 * 1000, single_use |-> FALSE,
     resume_window_ms |-> 0]

PressureConfig == [max_cpu_percent |-> 95, max_memory_percent |-> 95]

ProxyConfig == [proxy |-> TRUE, proxy_allow_private |-> FALSE]

ChromeConfig ==
    [transport |-> "pipe", no_sandbox |-> FALSE, require_sandbox |-> FALSE,
     stealth |-> TRUE, sets_proxy |-> FALSE, launch_timeout_ms |-> 30 * 1000,
     max_frame_bytes |-> 256 * 1024 * 1024]

Default ==
    Over(PoolConfig, Over(SessionConfig, Over(PressureConfig, Over(ProxyConfig,
        Over(ChromeConfig, [drain_timeout_ms |-> 30 * 1000])))))

\* What the environment may set: numbers, which must parse, and switches,
\* which are on for four words and off for any other.
Numbers == {"min_ready", "idle_timeout_ms", "resume_window_ms", "memory_max_mb",
            "cpu_percent", "pids_max", "max_sessions", "max_queue", "queue_timeout_ms"}
Switches == {"require_sandbox", "no_sandbox", "stealth", "proxy", "proxy_allow_private",
             "calibrate", "single_use"}

is_truthy(word) == word \in {"1", "true", "yes", "on"}

\* The value the environment gives a setting, else the file's or the default.
Overridden(config, env) ==
    [k \in DOMAIN config |->
        IF k \notin DOMAIN env THEN config[k]
        ELSE IF k \in Switches THEN is_truthy(env[k]) ELSE env[k]]

\* Mutant: single use only turns calibration off.
apply_switches_partly(config) ==
    IF config.single_use THEN [config EXCEPT !.calibrate = FALSE] ELSE config

\* apply_switches: the switches, then what single-use implies.
apply_switches(config) ==
    IF config.single_use THEN [config EXCEPT !.max_sessions = 1, !.calibrate = FALSE]
    ELSE config

\* The environment's numbers parse, BROWSERSERVE_MAX_SESSIONS is not zero.
EnvParses(env) ==
    /\ \A k \in Numbers \cap DOMAIN env : env[k] # Junk
    /\ "max_sessions" \in DOMAIN env => env.max_sessions # 0
    /\ "port" \in DOMAIN env => env.port \in Ports

\* read_token: a token that is set is not blank.
read_token(env) == "token" \in DOMAIN env => env.token # "blank"

validate(config) ==
    /\ config.max_sessions # 0
    /\ config.max_cpu_percent \in 1..100 /\ config.max_memory_percent \in 1..100
    /\ config.kill_grace_ms # 0
    /\ config.max_frame_bytes # 0
    /\ ~(config.require_sandbox /\ config.no_sandbox)

\* serde's deny_unknown_fields.
FileParses(file) == DOMAIN file \subseteq DOMAIN Default

\* load: what the settings come to.
Loaded(file, env) == apply_switches(Overridden(Over(file, Default), env))

\* load, and load_config of main.rs: whether the process starts on them.
load(file, env) ==
    /\ FileParses(file) /\ EnvParses(env) /\ read_token(env)
    /\ validate(Loaded(file, env))
    /\ Loaded(file, env).transport = "pipe"
=============================================================================
