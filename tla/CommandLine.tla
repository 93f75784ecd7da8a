---------------------------- MODULE CommandLine ----------------------------
(***************************************************************************)
(* substrax-compute (substrax/compute/cli.py): command lines in several    *)
(* shells, the run store they share (backend.py), the configuration they   *)
(* read (config.py, spec.py, registry.py), and a backend of which they     *)
(* know what ComputeBackend promises and nothing else.                     *)
(***************************************************************************)
EXTENDS Integers, FiniteSets, Sequences

CONSTANTS
    Shells,      \* the processes that run a command line
    Runs,        \* the ids there are for new runs
    Scripts,     \* the project's Python files, each the sequence of its path's parts
    Dotted,      \* per script: its path with dots for separators and without the suffix
    Private,     \* the names of files and directories that start with "_"
    Tables,      \* the job tables a project may configure
    NoValue      \* None, or a key that is not there

ASSUME CommandLineAssumption ==
    /\ NoValue \notin Int /\ NoValue \notin Shells \union Runs \union Scripts
    /\ \A table \in Tables : /\ table.timeout_seconds \in Int \union {NoValue}
                             /\ table.task_timeout_seconds \in Int \union {NoValue}

VARIABLES
    command,     \* per shell: the command it runs
    at,          \* per shell: the next thing the command does
    about,       \* per shell: the run it is about
    told,        \* per shell: what status answered it
    copied,      \* per shell: the files its fetch has copied, with what they held
    exit,        \* per shell: the last command's exit code
    state,       \* per run: the state the backend reports
    written,     \* per run: 0 no outputs directory, 1 it exists, 2 outputs, 3 manifest
    job,         \* per run: the job submitted
    partial,     \* the runs with a .partial record
    stored,      \* per run: its record, "none", "old" (an older layout), "whole"
    printed      \* the runs whose id was printed

shellVars == <<command, at, about, told, copied, exit>>
backendVars == <<state, written, job>>
recordVars == <<partial, stored, printed>>
cliVars == <<shellVars, backendVars, recordVars>>

Files == {"output", "manifest"}
Ended == {"succeeded", "failed", "cancelled"}

CliInit ==
    /\ command = [p \in Shells |-> "none"]
    /\ at = [p \in Shells |-> "none"]
    /\ about = [p \in Shells |-> NoValue]
    /\ told = [p \in Shells |-> "none"]
    /\ copied = [p \in Shells |-> [f \in {} |-> FALSE]]
    /\ exit = [p \in Shells |-> NoValue]
    /\ state = [r \in Runs |-> "none"]
    /\ written = [r \in Runs |-> 0]
    /\ job = [r \in Runs |-> {}]
    /\ partial = {}
    /\ stored \in [Runs -> {"none", "old"}]
    /\ printed = {}

-----------------------------------------------------------------------------
(* A configured job.                                                       *)

\* sources.task_timeout_seconds or sources.timeout_seconds: zero counts as unset.
Budget(table) ==
    IF table.task_timeout_seconds \notin {NoValue, 0} THEN table.task_timeout_seconds
    ELSE table.timeout_seconds

\* discover_examples: what lies under the directory and is not private below it.
Discovered(directory) ==
    {script \in Scripts : LET depth == Len(directory)
                          IN  /\ depth < Len(script) /\ SubSeq(script, 1, depth) = directory
                              /\ \A i \in depth + 1..Len(script) : script[i] \notin Private}

\* resolve_job: a task per example of each configured directory, in its place, and one
\* per configured command.
Resolve(table) ==
    (UNION {{[from |-> i, script |-> script, name |-> Dotted[script]] :
                script \in Discovered(table.examples[i])} : i \in DOMAIN table.examples})
    \union {[from |-> 0, script |-> NoValue, name |-> name] : name \in table.commands}

\* math.isfinite(seconds) and seconds > 0; Infinity is a number beyond the bound.
Positive(seconds) == seconds # NoValue /\ seconds > 0 /\ seconds < 100

\* A mutant of Refuses: commands are held against examples, and no example against another.
RefusesCommands(table) ==
    \/ table.wrong \/ Resolve(table) = {}
    \/ \E t, u \in Resolve(table) : t.from = 0 /\ t # u /\ t.name = u.name
    \/ ~Positive(table.timeout_seconds) \/ ~Positive(Budget(table))

\* What resolve_job, example_tasks, Task and JobSpec refuse between them: a directory
\* that is not there or an example outside the project, no task, two of one name, a
\* budget that is not positive.
Refuses(table) ==
    \/ table.wrong \/ Resolve(table) = {}
    \/ \E t, u \in Resolve(table) : t # u /\ t.name = u.name
    \/ ~Positive(table.timeout_seconds) \/ ~Positive(Budget(table))

-----------------------------------------------------------------------------
(* A shell's command, one read or write of it per step.                    *)

Goes(p, next) == at' = [at EXCEPT ![p] = next]

Exits(p, code) ==
    /\ exit' = [exit EXCEPT ![p] = code]
    /\ command' = [command EXCEPT ![p] = "none"]
    /\ at' = [at EXCEPT ![p] = "none"]
    /\ copied' = [copied EXCEPT ![p] = [f \in {} |-> FALSE]]

\* An error of the backend's, at whatever point: main takes a LookupError, ValueError or
\* FileNotFoundError for a refused command, and every other leaves 1.
Fails(p) == \E code \in {1, 2} : Exits(p, code)

Asks(p, name, first, run) ==
    /\ command[p] = "none"
    /\ command' = [command EXCEPT ![p] = name]
    /\ at' = [at EXCEPT ![p] = first]
    /\ about' = [about EXCEPT ![p] = run]
    /\ told' = [told EXCEPT ![p] = "none"]
    /\ exit' = [exit EXCEPT ![p] = NoValue]
    /\ UNCHANGED <<copied, backendVars, recordVars>>

Start(p) ==
    \/ Asks(p, "run", "config", NoValue)
    \/ Asks(p, "detached", "config", NoValue)
    \/ Asks(p, "status", "list", NoValue)
    \/ \E r \in Runs :
         Asks(p, "status", "load", r) \/ Asks(p, "logs", "load", r)
         \/ Asks(p, "fetch", "load", r) \/ Asks(p, "cancel", "load", r)

\* read_compute_config, require_locked_substrax, resolve_job, load_backend and the
\* backend's own refusals come before anything is submitted; submit may also fail with
\* the run under way.
Submit(p, table) ==
    /\ at[p] = "config"
    /\ \/ Fails(p) /\ UNCHANGED <<about, state, job>>
       \/ /\ ~Refuses(table)
          /\ \E r \in Runs :
               /\ state[r] = "none" /\ stored[r] = "none"
               /\ state' = [state EXCEPT ![r] = "running"]
               /\ job' = [job EXCEPT ![r] = Resolve(table)]
               /\ about' = [about EXCEPT ![p] = r]
               /\ \/ Goes(p, "partial") /\ UNCHANGED <<exit, command, copied>>
                  \/ Fails(p)
    /\ UNCHANGED <<told, written, recordVars>>

\* A mutant of WritePartial: the record itself is written, in place.
WriteInPlace(p) ==
    /\ at[p] = "partial" /\ Goes(p, "replace")
    /\ stored' = [stored EXCEPT ![about[p]] = "torn"]
    /\ UNCHANGED <<command, about, told, copied, exit, backendVars, partial, printed>>

\* RunStore.save: the record is written beside its place ...
WritePartial(p) ==
    /\ at[p] = "partial" /\ Goes(p, "replace")
    /\ partial' = partial \union {about[p]}
    /\ UNCHANGED <<command, about, told, copied, exit, backendVars, stored, printed>>

\* ... and put there at once; then the id is printed.
Replace(p) ==
    /\ at[p] = "replace" /\ Goes(p, "print")
    /\ partial' = partial \ {about[p]}
    /\ stored' = [stored EXCEPT ![about[p]] = "whole"]
    /\ UNCHANGED <<command, about, told, copied, exit, backendVars, printed>>

PrintId(p) ==
    /\ at[p] = "print"
    /\ printed' = printed \union {about[p]}
    /\ IF command[p] = "detached" THEN Exits(p, 0)
       ELSE Goes(p, "logs") /\ UNCHANGED <<command, copied, exit>>
    /\ UNCHANGED <<about, told, backendVars, partial, stored>>

\* The stream ends with the run, or early (a streamer that dies), or fails.
Logs(p) ==
    /\ at[p] = "logs"
    /\ IF command[p] = "run"
       THEN \/ Goes(p, "status") /\ UNCHANGED <<command, copied, exit>>
            \/ Fails(p)
       ELSE Exits(p, 0) \/ Fails(p)
    /\ UNCHANGED <<about, told, backendVars, recordVars>>

\* What a command does with the state it was told: run goes on to fetch.
AfterStatus(p) ==
    IF command[p] = "run" THEN Goes(p, "fetch") /\ UNCHANGED <<command, copied, exit>>
    ELSE Exits(p, 0)

AskStatus(p) ==
    /\ at[p] = "status"
    /\ \/ /\ told' = [told EXCEPT ![p] = state[about[p]]]
          /\ AfterStatus(p)
       \/ Fails(p) /\ UNCHANGED told
    /\ UNCHANGED <<about, backendVars, recordVars>>

\* read_all, and status for each readable record: what cannot be read is named.
ListRuns(p) ==
    /\ at[p] = "list"
    /\ \/ Exits(p, IF \E r \in Runs : stored[r] \in {"old", "torn"} THEN 1 ELSE 0)
       \/ Fails(p)
    /\ UNCHANGED <<about, told, backendVars, recordVars>>

\* RunStore.load, which refuses what is not there or of another layout, then
\* load_backend with the settings in the record.
Load(p) ==
    /\ at[p] = "load"
    /\ \/ stored[about[p]] = "whole" /\ Goes(p, command[p]) /\ UNCHANGED <<command, copied, exit>>
       \/ stored[about[p]] # "whole" /\ Exits(p, 2)
       \/ Fails(p)
    /\ UNCHANGED <<about, told, backendVars, recordVars>>

\* A mutant of FetchDone: a run whose log ended without a failure succeeded.
FetchDoneUnlessFailed(p) ==
    Exits(p, IF command[p] = "fetch" \/ told[p] # "failed" THEN 0 ELSE 1)

\* run's exit code is about the run, fetch's about the copy.
FetchDone(p) ==
    Exits(p, IF command[p] = "fetch" \/ told[p] = "succeeded" THEN 0 ELSE 1)

\* copytree, in no particular order, or an error: without an outputs directory a
\* FileNotFoundError.
Fetch(p) ==
    /\ at[p] = "fetch"
    /\ \/ Fails(p)
       \/ /\ written[about[p]] > 0
          /\ \E f \in Files \ DOMAIN copied[p] :
               /\ copied' = [copied EXCEPT ![p] = [g \in DOMAIN @ \union {f} |->
                    IF g = f THEN written[about[p]] = 3 \/ (f = "output" /\ written[about[p]] = 2)
                    ELSE @[g]]]
               /\ UNCHANGED <<command, exit, at>>
       \/ DOMAIN copied[p] = Files /\ FetchDone(p)
    /\ UNCHANGED <<about, told, backendVars, recordVars>>

\* backend.cancel: a run that was seen going is noted as cancelled.
Cancel(p) ==
    /\ at[p] = "cancel"
    /\ \/ /\ told[p] = "none"
          /\ told' = [told EXCEPT ![p] = state[about[p]]]
          /\ UNCHANGED <<command, at, copied, exit, state>>
       \/ /\ told[p] # "none"
          /\ state' = [state EXCEPT ![about[p]] = IF told[p] \in Ended THEN @ ELSE "cancelled"]
          /\ Exits(p, 0) /\ UNCHANGED told
       \/ Fails(p) /\ UNCHANGED <<told, state>>
    /\ UNCHANGED <<about, written, job, recordVars>>

\* Interrupted, or killed.
ShellDies(p) ==
    /\ command[p] # "none" /\ Exits(p, NoValue)
    /\ UNCHANGED <<about, told, backendVars, recordVars>>

-----------------------------------------------------------------------------
(* The run itself, as ComputeBackend promises it.                          *)

\* The worker makes its directory, writes outputs, finishes the manifest; or ends.
RunMoves(r) ==
    /\ state[r] = "running"
    /\ \/ /\ written[r] < 2
          /\ written' = [written EXCEPT ![r] = @ + 1]
          /\ UNCHANGED state
       \/ /\ written[r] = 2
          /\ written' = [written EXCEPT ![r] = 3]
          /\ state' \in {[state EXCEPT ![r] = s] : s \in {"succeeded", "failed"}}
       \/ state' = [state EXCEPT ![r] = "failed"] /\ UNCHANGED written
    /\ UNCHANGED <<shellVars, job, recordVars>>

CliNext ==
    \/ \E p \in Shells :
         \/ Start(p) \/ WritePartial(p) \/ Replace(p) \/ PrintId(p) \/ Logs(p)
         \/ AskStatus(p) \/ ListRuns(p) \/ Load(p) \/ Fetch(p) \/ Cancel(p) \/ ShellDies(p)
         \/ \E table \in Tables : Submit(p, table)
    \/ \E r \in Runs : RunMoves(r)

CliSpec == CliInit /\ [][CliNext]_cliVars

-----------------------------------------------------------------------------
(* Properties.                                                             *)

\* Whatever the run does between two steps of a command line, however its log
\* ends and whoever cancels it: a run that exits with 0 has succeeded, and every
\* file of its outputs was copied as the run left it (_finish asks for the state
\* before it copies, cli.py: "Exit codes: 0 for success").
ExitZeroIsTrue ==
    [][\A p \in Shells : command[p] = "run" /\ exit'[p] = 0 =>
         /\ state[about[p]] \notin {"running", "failed"}
         /\ DOMAIN copied[p] = Files
         /\ \A f \in Files : copied[p][f]]_cliVars

\* Wherever command lines die and however they overlap, a run whose id was printed
\* is found by every later command, and nobody reads half a record (RunStore.save
\* writes beside the record's place and replaces it).
PrintedIsFound ==
    \A r \in Runs :
        /\ r \in printed => stored[r] = "whole"
        /\ state[r] # "none" => stored[r] \in {"none", "whole"}

\* However the configured directories lie inside one another and whatever their
\* scripts are called, no submitted job runs a script twice (resolve_job compares names
\* only, example_tasks makes them of paths).
EachScriptOnce ==
    \A r \in Runs : \A t, u \in job[r] : t.script = u.script /\ t.script # NoValue => t = u
=============================================================================
