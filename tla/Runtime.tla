------------------------------- MODULE Runtime -------------------------------
(***************************************************************************)
(* The settings of a process that uses jax (substrax/runtime) and of the   *)
(* interpreters it starts (substrax/testing/child_process.py): where they  *)
(* are kept, who reads them and when, and what may still change them.      *)
(*                                                                         *)
(* A shell sources the managed file or not; Python applies settings before *)
(* and after jax is imported; jax reads its own variables as it is         *)
(* imported and the rest as its backends start (external). XLA_FLAGS is    *)
(* one variable per flag, and a value is one of a few.                     *)
(***************************************************************************)
EXTENDS Integers, Sequences

CONSTANTS
    Values,        \* the values of settings
    Runtimes,      \* the JaxRuntimes that are applied or given to a child
    Environments,  \* what shells export, and what callers give to a child
    Updates,       \* per option: what tests set by themselves
    MaxBlocks      \* BOUND: blocks of restored_jax_config inside one another

Unset == "unset"
Flags == {"count", "other"}                    \* count: --xla_force_host_platform_device_count
Options == {"x64", "devices", "platforms"}     \* read as jax is imported
AtStart == {"fraction", "preallocate"} \union Flags   \* read as the backends start
Settings == Options \union AtStart
Variables == Settings \union {"old"}           \* old: XLA_PYTHON_CLIENT_MEM_FRACTION

ASSUME RuntimeAssumption ==
    /\ {Unset, "cpu", "gpu", "on", "off", "0.75", "0", "8"} \subseteq Values
    /\ Runtimes \subseteq [Settings -> Values]
    /\ Environments \subseteq [Variables -> Values]
    /\ \A env \in Environments : env["fraction"] = Unset \/ env["old"] = Unset
    /\ Updates \in [Options -> SUBSET Values]
    /\ MaxBlocks \in Nat

VARIABLES
    python,    \* the process has started
    environ,   \* the variables of the shell, then of the process
    jax,       \* "absent", "imported" or "started"
    config,    \* jax's options
    client,    \* what the backends started with
    blocks,    \* the open blocks of restored_jax_config
    asked,     \* ghost: what whoever set a setting asked for
    late,      \* ghost: a caller or a block set jax_platforms once the backends had started
    child      \* run_python's child

processVars == <<python, environ, jax, config, client, blocks>>
runtimeVars == <<processVars, asked, late, child>>

NoSettings == [f \in Settings |-> Unset]
NoChild == [at |-> "none"]

RuntimeInit ==
    /\ python = FALSE /\ jax = "absent"
    /\ environ \in Environments
    /\ config = [o \in Options |-> Unset]
    /\ client = [f \in {} |-> Unset]
    /\ blocks = <<>>
    /\ asked = [f \in Settings |-> environ[f]]
    /\ late = FALSE
    /\ child = NoChild

Ready == python /\ child.at = "none"

-----------------------------------------------------------------------------
(* Settings over an environment.                                           *)

\* merge_xla_flags: a flag that is there with another value.
Conflicts(runtime, base) ==
    \E f \in Flags : runtime[f] # Unset /\ base[f] # Unset /\ runtime[f] # base[f]

\* runtime_environment raises.
RefusesEnvironment(runtime, base) ==
    Conflicts(runtime, base) \/ (runtime["fraction"] # Unset /\ base["old"] # Unset)

Over(settings, runtime) ==
    [f \in DOMAIN settings |-> IF f \in Settings /\ runtime[f] # Unset THEN runtime[f] ELSE settings[f]]

\* managed_environment for a resolved backend, and the file sourced by the shell.
Accelerators == {"cuda12", "metal"}
Managed(backend) ==
    [environ EXCEPT !["platforms"] = IF backend \in Accelerators THEN Unset ELSE "cpu",
                    !["x64"] = "off",
                    !["preallocate"] = IF backend \in Accelerators THEN "off" ELSE Unset,
                    !["fraction"] = IF backend \in Accelerators THEN "0.75" ELSE Unset,
                    !["old"] = Unset]

Source(backend) ==
    /\ ~python
    /\ environ' = Managed(backend)
    /\ asked' = [f \in Settings |-> environ'[f]]
    /\ UNCHANGED <<python, jax, config, client, blocks, late, child>>

StartPython ==
    /\ ~python /\ python' = TRUE
    /\ UNCHANGED <<environ, jax, config, client, blocks, asked, late, child>>

-----------------------------------------------------------------------------
(* apply_runtime.                                                          *)

\* A mutant of RefusesLate: what jax reads no more is set all the same.
RefusesDevices(runtime) == jax = "started" /\ runtime["devices"] # Unset

\* What is read only as the backends start, and a count once they have.
RefusesLate(runtime) ==
    \/ \E f \in AtStart \union {"platforms"} : runtime[f] # Unset
    \/ jax = "started" /\ runtime["devices"] # Unset

Raises(runtime) ==
    IF jax = "absent" THEN RefusesEnvironment(runtime, environ) ELSE RefusesLate(runtime)

Apply(runtime) ==
    /\ Ready /\ ~Raises(runtime)
    /\ environ' = IF jax = "absent" THEN Over(environ, runtime) ELSE environ
    /\ config' = IF jax = "absent" THEN config ELSE Over(config, runtime)
    /\ asked' = Over(asked, runtime)
    /\ UNCHANGED <<python, jax, client, blocks, late, child>>

\* It computes or compares everything before it sets anything: raising changes
\* nothing.
ApplyRaises(runtime) == Ready /\ Raises(runtime) /\ UNCHANGED runtimeVars

\* resolve_test_runtime: an accelerator as asked for, else the CPU with a count: the
\* one asked for, "0" for none, or one unless the environment names it.
TestRuntime(requested, count) ==
    IF requested = "gpu" THEN [NoSettings EXCEPT !["platforms"] = "gpu"]
    ELSE [NoSettings EXCEPT
            !["platforms"] = "cpu",
            !["devices"] = IF count # Unset THEN IF count = "0" THEN Unset ELSE count
                           ELSE IF environ["devices"] # Unset \/ environ["count"] # Unset
                           THEN Unset ELSE "8"]

ApplyForTests ==
    \E requested \in {Unset, "cpu", "gpu"}, count \in {Unset, "0", "8"} :
        Apply(TestRuntime(requested, count))

-----------------------------------------------------------------------------
(* jax (external), and blocks that set its options back.                   *)

Import ==
    /\ Ready /\ jax = "absent"
    /\ jax' = "imported"
    /\ config' = [o \in Options |-> environ[o]]
    /\ UNCHANGED <<python, environ, client, blocks, asked, late, child>>

\* A count of devices among the options outweighs the flag.
StartBackends ==
    /\ Ready /\ jax = "imported"
    /\ jax' = "started"
    /\ client' = [f \in Settings |-> IF f \in Options THEN config[f] ELSE environ[f]]
    /\ UNCHANGED <<python, environ, config, blocks, asked, late, child>>

\* A test calls jax.config.update itself: jax takes new platforms at any time, and
\* reads them no more once its backends have started.
Update(option, value) ==
    /\ Ready /\ jax # "absent"
    /\ ~(option = "devices" /\ jax = "started")
    /\ config' = [config EXCEPT ![option] = value]
    /\ asked' = [asked EXCEPT ![option] = value]
    /\ late' = (late \/ (jax = "started" /\ option = "platforms"))
    /\ UNCHANGED <<python, environ, jax, client, blocks, child>>

\* restored_jax_config: importing jax, then what there is.
EnterBlock ==
    /\ Ready /\ Len(blocks) < MaxBlocks
    /\ jax' = IF jax = "absent" THEN "imported" ELSE jax
    /\ config' = IF jax = "absent" THEN [o \in Options |-> environ[o]] ELSE config
    /\ blocks' = Append(blocks, [before |-> config', asked |-> asked])
    /\ UNCHANGED <<python, environ, client, asked, late, child>>

\* The options are set back in the order of their names, jax_enable_x64,
\* jax_num_cpu_devices, jax_platforms, until jax refuses one.
SetBack(changed) ==
    IF jax = "started" /\ "devices" \in changed THEN changed \intersect {"x64"} ELSE changed

LeaveBlock ==
    /\ Ready /\ blocks # <<>>
    /\ LET block == blocks[Len(blocks)]
           changed == {o \in Options : config[o] # block.before[o]}
           Back(o) == o \in SetBack(changed)
           done == SetBack(changed) = changed
       IN  /\ config' = [o \in Options |-> IF Back(o) THEN block.before[o] ELSE config[o]]
           /\ asked' = [f \in Settings |->
                IF f \in AtStart \/ (~done /\ f # "x64") THEN asked[f] ELSE block.asked[f]]
           /\ late' = (late \/ (jax = "started" /\ Back("platforms")))
    /\ blocks' = SubSeq(blocks, 1, Len(blocks) - 1)
    /\ UNCHANGED <<python, environ, jax, client, child>>

-----------------------------------------------------------------------------
(* run_python.                                                             *)

\* _with_safe_defaults: the CPU without preallocation, unless the caller chose.
WithSafeDefaults(runtime, env) ==
    LET Default(f, value) == IF runtime[f] = Unset /\ env[f] = Unset THEN value ELSE runtime[f]
    IN  [runtime EXCEPT !["platforms"] = Default("platforms", "cpu"),
                        !["preallocate"] = Default("preallocate", "off")]

\* A mutant of ChildBase: what the parent has set is inherited.
ChildBaseInherits(env) == [v \in Variables |-> IF env[v] # Unset THEN env[v] ELSE environ[v]]

\* child_environment: none of the parent's JAX_* and XLA_* variables, then env.
ChildBase(env) == env

RunChild(runtime, env) ==
    LET chosen == WithSafeDefaults(runtime, env)
    IN  /\ Ready /\ ~RefusesEnvironment(chosen, ChildBase(env))
        /\ child' = [at |-> "running", runtime |-> runtime, env |-> env,
                     environ |-> Over(ChildBase(env), chosen),
                     said |-> FALSE, file |-> "absent", report |-> "none"]
        /\ UNCHANGED <<processVars, asked, late>>

\* report(): beside its place, then into it; a second one is refused.
Report ==
    /\ child.at = "running" /\ child.file # "whole"
    /\ child' = IF child.file = "absent" THEN [child EXCEPT !.file = "beside"]
                ELSE [child EXCEPT !.file = "whole", !.said = TRUE]
    /\ UNCHANGED <<processVars, asked, late>>

\* The child exits, at any moment and by itself, and its report is read.
ChildExits ==
    /\ child.at = "running"
    /\ child' = [child EXCEPT !.at = "exited",
                              !.report = IF child.file = "whole" THEN "whole" ELSE "none"]
    /\ UNCHANGED <<processVars, asked, late>>

\* It is killed at its timeout, or its result is taken.
ChildIsOver ==
    /\ child.at # "none"
    /\ child' = NoChild
    /\ UNCHANGED <<processVars, asked, late>>

RuntimeNext ==
    \/ \E backend \in Accelerators \union {"cpu"} : Source(backend)
    \/ StartPython
    \/ \E runtime \in Runtimes : Apply(runtime) \/ ApplyRaises(runtime)
    \/ ApplyForTests
    \/ Import \/ StartBackends
    \/ \E option \in Options : \E value \in Updates[option] : Update(option, value)
    \/ EnterBlock \/ LeaveBlock
    \/ \E runtime \in Runtimes, env \in Environments : RunChild(runtime, env)
    \/ Report \/ ChildExits \/ ChildIsOver

RuntimeSpec == RuntimeInit /\ [][RuntimeNext]_runtimeVars

-----------------------------------------------------------------------------
(* Properties.                                                             *)

\* What jax goes by: its own variables until it is imported, its options then, and what
\* its backends started with once they have, the x64 mode excepted.
Actual(f) ==
    IF jax = "started" /\ f # "x64" THEN client[f]
    ELSE IF jax # "absent" /\ f \in Options THEN config[f] ELSE environ[f]

\* Whatever is sourced, applied before and after the import, refused, updated by tests
\* and set back, jax goes by what was last asked for without an error, of every
\* setting, and so do its options. What is refused changes nothing; an interrupted
\* setting back leaves at most the device count and what comes after it; the platforms
\* may differ only once someone else than apply_runtime has set the option of a
\* started jax. No process has both names of the memory fraction, which jaxlib refuses
\* (apply_runtime: they "raise instead of being written where they might change
\* nothing"; restored_jax_config).
AppliedAsAsked ==
    /\ \A f \in Settings : Actual(f) = asked[f] \/ (f = "platforms" /\ late)
    /\ jax # "absent" => \A o \in Options : config[o] = asked[o]
    /\ environ["fraction"] = Unset \/ environ["old"] = Unset

\* Whatever its parent's shell exported and its parent applied, a child has the
\* settings its caller chose and is otherwise on the CPU without preallocation; and
\* the parent reads a report if, and only if, the child's call of report returned,
\* however the child ended (run_python; child_report.py: "either the whole value or
\* none of it").
ChildAsAsked ==
    child.at # "none" =>
        /\ \A f \in Settings :
             child.environ[f] = IF child.runtime[f] # Unset THEN child.runtime[f]
                                ELSE IF child.env[f] # Unset THEN child.env[f]
                                ELSE IF f = "platforms" THEN "cpu"
                                ELSE IF f = "preallocate" THEN "off" ELSE Unset
        /\ child.environ["fraction"] = Unset \/ child.environ["old"] = Unset
        /\ child.at = "exited" => child.report = IF child.said THEN "whole" ELSE "none"
=============================================================================
