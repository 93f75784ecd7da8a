# TLA+ models of substrax

`substrax` is a Python library of infrastructure for JAX projects: it runs batch jobs on
three backends (`compute`), saves and restores training state (`checkpoint`, `callbacks`),
sets jax up (`runtime`, `mesh`, `devices`, `rng`, `optim`), tracks experiments (`tracking`)
and helps to test all of it (`testing`). This directory models the parts of it where
several processes, threads, machines, restarts or sequences of calls meet, checks them with
TLC on small instances, and proves the most important results with TLAPS for every size.
Paths below are relative to `src/substrax/` unless they start with `tests/` or `docs/`.

Contents: [parts of the system](#parts-of-the-system),
[modules](#modules), [runs](#runs), [fairness](#fairness), [proofs](#proofs),
[where the code and its documentation disagree](#where-the-code-and-its-documentation-disagree),
[what is not modelled](#what-is-not-modelled), [plan](#plan), [using it](#using-it).

## Parts of the system

### compute: one job, three places to run it

A *run* is a job (a list of tasks, each a command with its outputs and its time limit)
that a backend was given. What it leaves is in files, and everything any other process
learns of it, it learns from them.

| part | state it keeps | operations | how it interacts |
|---|---|---|---|
| worker (`worker.py`) | the current task, `_Cancellation.signum`, the budgets, the task's process and its copier threads; `manifest.json` | `run_job`, `_run_task`, `_wait`, `_stop_group`, `write_manifest` | starts a process group per task, reads its pipes with threads, is told to stop by SIGTERM |
| local backend (`local.py`) | `run.json`, `cancelled`, `worker.log` in the run's directory | `submit`, `status`, `logs`, `cancel`, `fetch` | starts the worker detached; later processes see the run's files and the process table, one read at a time |
| Modal backend (`modal_backend.py`) | a Modal call and volume, the `cancelled` marker, the log stream's queue | `submit`, `run_worker`, `status`, `logs`, `cancel`, `fetch` | the worker runs in a container, commits the volume and returns; the log streamer is a process of its own |
| SkyPilot backend (`skypilot_backend.py`, `sky_sdk.py`) | `intent.json`, the launch receipt (a request id, reserved before the request is made), the `cancelled` marker | `submit`, `launch_recorded`, `status`, `cancel`, `teardown` | asks SkyPilot for a cluster, its queue and its removal; any of these may fail |
| transports (`skypilot_transports.py`, `sky_transfer.py`) | the copied outputs, `recovered.json` | `fetch`, `state_without_queue`, `state_from_outputs`, `snapshot` | lists, copies and lists again a directory the job still writes to |
| command line and run store (`cli.py`, `backend.py`) | one record per run in the store; what a shell has been told | `submit`, `run`, `status`, `list`, `logs`, `fetch`, `cancel`; `RunStore.save`, `load`, `list` | submits to a backend, then saves the handle; every other command starts from the record |
| configuration, specs, registry (`config.py`, `spec.py`, `registry.py`) | none that changes | table to job, validation | guarantees what the worker assumes of a job: a task at least, names of their own, positive limits |

Hard: a signal between the check and the start of a task; descendants that outlive the
process the worker started, leave its group or let go of its pipes; a worker killed outright;
`status` reading the process table, the marker and the manifest at three moments, and each of
those readings failing or being misread; a `cancel` acting on a
status that is no longer true, dying half way or failing in one of its steps; a followed
log whose last lines come after its last read; a submission cut off after its request was
made; a copy of outputs taken while they are written, and a record of it that is emptied before
it is written; a shell that dies between two writes.

Correct: tasks run in order, nothing of them but daemons overlaps a later task or survives a
worker that ended by itself, the manifest is true and only grows, a listed task's log is whole, a budget or a
signal ends the work, `status` tells the truth and never takes an end back, a run noted as
cancelled is down, a followed log ends and has every line, copied outputs are the outputs
of one moment, a printed run is found again, and an exit code of 0 is true.

### checkpoint and callbacks: a training that resumes

| part | state it keeps | operations | how it interacts |
|---|---|---|---|
| early stopping (`callbacks/early_stopping.py`, `callbacks/plateau.py`) | best value, bad epochs, the epoch it stopped at | `on_epoch_end`, `get_state`, `set_state` | `CallbackList` gathers the callbacks' states by position, the training loop puts them in the checkpoint |
| checkpoint store (`checkpoint/store.py`) | the steps on disk with their metrics (Orbax's) | `save`, `restore`, `delete`, `latest_step`, `best_step` | Orbax writes, may decline, and keeps only the newest `max_to_keep` |
| checkpoint metadata (`checkpoint/metadata.py`) | the record beside each step: format, items, dtypes | written by `save`, read by `restore` | decides what `restore` accepts |

Hard: a death between any two steps of a save, an overwriting save, retention, NaN among
the metrics, resuming from the best instead of the latest step, a reader whose x64 mode or
whose callbacks are not the writer's, a callback that refuses its state when others have
taken theirs or takes one of another class with the same keys. Correct: the resumed training stops at the epoch the uninterrupted one would
have, a save that returned is on disk, the best step is the best, nothing comes back with
another dtype.

### a process that uses jax

| part | state it keeps | operations | how it interacts |
|---|---|---|---|
| call recorder (`testing/_recorder.py`, `calls.py`) | per block: the counts, the code objects it knows, its threads, its `sys.monitoring` tool id; the collector's switch | `counted_calls`, callbacks on every thread, release at the end | other tools want tool ids too; CPython reuses thread ids |
| runtime (`runtime/`) | environment variables, jax's options, what the backends started with | the managed file, `apply_runtime`, `resolve_test_runtime` | jax reads variables at its import, the rest as its backends start |
| children and restored settings (`testing/child_process.py`, `child_report.py`, `jax_config.py`) | a child's environment and its report; a block's snapshot | `run_python`, `report`, `restored_jax_config` | the parent reads the report when the child has ended, however it ended |
| tracking (`tracking/`) | `logging`'s handlers by name, metrics files by name and second, MLflow's one active run | make, log, close of console, file and MLflow loggers | loggers of one name share handlers and files; all share the active run |
| meshes and placement (`mesh/`, `spmd/`, `devices/placement.py`) | none | plans, meshes, pipeline stages, specs and their combination, placing batches, choosing reductions | jax raises on a spec that uses an axis twice |

Hard: callbacks that come in on several threads while a block ends, a tool id taken between
look and claim, a setting applied when nobody reads it any more, options that cannot be set
back, names that two loggers share, batches with leaves that are no arrays. Correct: counts
are exact, nothing global is left behind, jax and a child go by what was asked for, every
scalar lands in its own run, and a batch is placed as asked or not at all.

`optim`, `rng`, `artifacts`, `records`, `typing`, source scans and the CI scripts are
queries, assembly or numerics without a state of their own. `PROJECT.json` lists every
component with its status, and every hazard at its line with the properties that would
catch it.

## Modules

```
 RunVerdict <--- LocalRun ---> Worker                 (INSTANCE ... WITH verdict <- StatusNow)
     ^              ^------ LocalProofs
     +--------- ModalRun <--- ModalProofs
 SkyPilotRun <--- SkyPilotProofs
 SkyTransfer <--- SkyTransferProofs

 Metrics <--- EarlyStopping, CheckpointStore <--- TrainingRun
 TrainingRun, Restoring, Tracking, Runtime, CallRecorder, CommandLine, Meshes <--- Library <--- MCLibrary
 Tracking <--- MCTracking

 TrainingRun, Restoring, Tracking   <--- TrainingProofs --+
 Runtime, CallRecorder, CommandLine <--- ProcessProofs ---+---> Induction
 Meshes                             <--- MeshProofs ------+
```

An arrow points to the module that is extended or instantiated. Induction holds the facts
about numbers, sums and recursive functions that several proof modules need. Definitions that
appear in no action (`LivenessAfterManifest`, `CleanedAnyway`, `RefusesDevices`, ...) are the
plausible mistakes each property is tried against (`mutants` in `PROJECT.json`): with one of
them in the place of the definition it follows, TLC finds the property violated.

**Worker** is the worker's life. `worker` is where the process is in
`main`/`run_job`/`_wait`: `boot` (handlers not installed), `probing`, `head` (the check at
the top of the loop), `starting` (between that check and `Popen`), `waiting`, `polling`,
`stopping` (`_stop_group`), `joining` (the copiers), `recording` (`write_manifest`),
`returning`, `exited`, or `killed`. A task's processes are its `leader` and one `child`
standing for its descendants: in the `group` with the task's pipes in its hands, `quiet` once it
has pointed its output elsewhere (`Redirect`), in a `session` of its own where `killpg` does not
reach it (`Detach`), or a `daemon`, which did both. The kill of the group and the join of the
copiers end all of these but the daemon, so it is the one thing a task may leave (`OnlyDaemon`).
`written` and `copied` count lines in the pipe and in the log. Time is
two flags, `jobOver` and `taskOver`, that become true at any moment.

**LocalRun** puts the clients of the local backend beside that worker. `submit` is `Init`
(the worker is started, at `boot`). Each client is at some point of a call (`call`, `at`)
and takes one read or write per step: the process table, the manifest, the marker, the
log. A client may die inside any call. `StatusNow` is what `status` would say if its reads
were one instant.

**RunVerdict** is the abstract specification: which `RunState`s may follow which. LocalRun
and ModalRun implement it with `verdict <- StatusNow`. They differ in one thing, the order
in which `status` consults the manifest and the marker, so `CancelWins` is a constant:
FALSE for local (a finished manifest outranks the marker), TRUE for Modal. A Modal run whose
function raised has no answer (`unanswered`): `status` raises that exception again, until
the run is noted as cancelled.

**ModalRun**: `run_worker` in its container (`LogLine`, `FinishJob`, `Commit`, `Return`; or
`Raise`, or `Fail`, for Modal's time limit and every other end), the call's `result`, the
`volume` as others see it, and clients as above. Every question to Modal may fail: `ReadResult`
raises, or takes an error of Modal's for the end of the call (`misread`); `ReadManifest` may
raise as well. A follower has a streamer (`Pump`, `StreamerExits`), a queue, and the draining
seconds after the run's end (`DrainEnds`); when a status inside it raises it is `stuck` until
its streamer exits (`LeaveStuck`).

**SkyPilotRun**: `submit` step by step (`WriteIntent`, `ReserveReceipt`, `RequestLaunch`,
`RecordRequest`, `SubmitReturns`, `SubmitDies` anywhere), SkyPilot with its request,
cluster and job (external), `status` for both transports (`copies`), and `cancel` with its
three remote steps, each of which may fail (`FindRequest`, `ReadReceipt`, `CancelRequest`,
`CancelJob`, `TearDown`, `FinishCancel`). `knowsId` tells the handle `submit` returned
from the one read back from `intent.json`.

**SkyTransfer**: `CopyTransport.fetch`: list the remote paths, identify them one by one,
copy file by file, list and identify again, compare, do the same with the target, open the
receipt, which empties it, and write it. A fetch may fail at any step, within the receipt with a
piece of it written. The job writes and removes outputs between any two of these; path 1 is
the manifest, written in the end. A path's content is the number of its last write, 0
where it is absent.

**Metrics** (numbers, NaN), **EarlyStopping** (the callback as operators on its state),
**CheckpointStore** (`disk`, and a save in progress step by step), and **TrainingRun**, the
loop of `docs/api/callbacks.md` and `docs/api/checkpoint.md` around them: epochs, saves,
deletions, deaths, resumption from the latest or best step or from the beginning.

**Restoring** is the reader of a checkpoint in another process: `SaveItems` and `NewProcess`
leave one with an x64 mode of either kind, `BeginRestore` compares the templates before
anything is read, `Read` reads them, `CompareRead` compares what has no template, and
`BeginTaking`, `TakeBack` give the callbacks their states one by one. A state is refused when
its keys are not those the callback knows (`KnownKeys`), so one of another class with the same
keys is taken. Of an array only the dtype is kept, of a callback its class, whose state has
the keys `StateKeys` gives, and whose state it is.

**CommandLine**: shells that run `substrax-compute` commands, each read or write a step
(`Submit`, `WritePartial`, `Replace`, `PrintId`, `AskStatus`, `Load`, `Fetch`, ...), any of which
may be a shell's last (`ShellDies`) and most of which may raise (`Fails`: with exit code 1, or with 2
where `main` takes the exception for a refused command). The backend is what `ComputeBackend`
promises (`RunMoves`: it runs, ends one way, may be cancelled by anybody). `Discovered` finds the
scripts under a configured directory, `Resolve` makes a job table's tasks of them and of its
commands, each under its dotted path or its own name, and `Refuses` says which tables go no
further.

**CallRecorder**: nested blocks of `counted_calls`. An item that a thread does (`Begin`: the
start of a function or a call) is delivered to the blocks that hold a tool id (`Deliver`), its
key is computed (`Work`), the lock taken (`EnterAdd`) and the count raised (`Add`), one step
each. Threads start and end and their ids are used again; other tools take and give back
tool ids. The ghost `due` is what should be counted. A file belongs to the first root that
`RootBefore` puts before all others it lies under, which is the order `by_package` sorts
them into.

**Meshes** has no state: a behaviour is one call with its arguments and its result (`made`).
Its operators are the code's pure algorithms (`FromDeviceCount`, `Combined`, `Resolved`,
`PlaceBatch`, ...), and its invariants compare them with what they are for. The loops over
strategies and mesh axes are recursive functions (`MergeAll`, `Product`), as is the one of
CheckpointStore over the scored steps (`BestUpTo`).

**Tracking**: objects that are made, used and closed in any order, used again after they were
closed, and made under a name that is taken. `handlers` is `logging`'s, `active` is MLflow's.

**Runtime**: where a setting is kept until jax reads it. `Source`, `Apply` and `ApplyForTests` write
settings (or `ApplyRaises`), `Import` and `StartBackends` are jax reading them, `EnterBlock`
and `LeaveBlock` are `restored_jax_config`, `RunChild`, `Report` and `ChildExits` are
`run_python` and its child. `asked` is the ghost: what was last asked for without an error.
`Actual` is what jax goes by: variables, then options, then, for all but the x64 mode, what the
backends started with. jax takes new platforms from `jax.config.update` at any time, and a
started jax does not look at them again: the ghost `late` says that this happened.

**Library** composes the parts that run in a caller's own process, and the command line. They
share no state in the code (their files, `logging`, `sys.monitoring` and jax's options are
different things), so a behaviour of Library is one part's behaviour while the others
stand still; `part` says which. It is one specification so that one run checks them all.
**MCLibrary** and **MCTracking** hold the values a configuration file cannot write.

## Runs

Passing runs (all finish in under five minutes with two workers):

| run | question | result rests on |
|---|---|---|
| `worker` | Does every interleaving of signals, budgets, output, descendants and a sudden death keep the worker's promises? `TasksRunAlone`, `ExitLeavesNoTask`, `ManifestTrue`, `LogsWhole`, `FinishedMeansAll`; and does it end: `SignalEnds`, `JobEnds` | two tasks: the second may meet what the first left; one line per task |
| `local_status` | Is what `status` says true as it returns (`ReplyTrue`), is an end never taken back (`NoWayBack`), do the answers move as RunVerdict allows (`KeepsVerdict`)? | two tasks, so that a success of the first is not one of the run; a poller beside a canceller, which also runs `status` |
| `local_follow` | Does a followed log end (`FollowEnds`) with every line (`FollowedWhole`), and does a cancellation settle the run (`CancelSettles`)? | one task, one line: the line may come before, between and after any two reads |
| `modal_run` | The same questions of Modal, whose every answer may fail or be misread, and: does a stopped run ever read as failed (`StoppedIsCancelled`)? | one process that polls and follows beside one that cancels |
| `sky_run` | Both transports, submissions cut off anywhere, any call failing, the cluster lost: is a cancelled run down (`CancelledIsDown`), a final answer true (`FinalIsTrue`), a cancel done or else reported with the rest of it done (`CancelDoesAll`)? | two processes may be inside `cancel` at once, one of them polls too |
| `sky_fetch` | Is what a receipt records one moment of the outputs (`ReceiptIsSnapshot`), was the target that state (`ReceiptMatchesTarget`), does a recovered run stay recovered for as long as its receipt can be read (`RecoveryLasts`)? | two paths (the manifest and an output), each written twice and removed at any time; any number of fetches, one after the other |
| `library` | One part at a time, see the next table | see [bounds](#bounds) |

The properties of `library`:

| part | properties |
|---|---|
| training | the resumed callback is the uninterrupted one (`ResumedLikeUninterrupted`), counts what it should (`BestAndBadEpochs`), stops when and only when it is due (`StopIsDue`); a returned save is on disk (`SavedIsThere`); the best step is the best (`BestUnlessNaN`) |
| recorder | the counts are exact whatever the threads do (`CountsExact`); no tool id, callback or switched-off collector is left behind (`LeavesNothingBehind`) |
| command line | a printed run is found (`PrintedIsFound`); no job runs a script twice (`EachScriptOnce`); an exit code of 0 is true of the run and of the copy (`ExitZeroIsTrue`) |
| meshes | plans, hand-written plans, meshes and pipelines fit the devices and waste fewer than one group (`PlanFitsDevices`); combined specs give every dimension to an axis that asked for it, by either of the two ways of merging, and use none twice (`SpecsSettled`); batches land where their leaves' shardings say, or nowhere (`PlacedAsAsked`) |
| tracking | scalars land in their logger's run and in files with their header first (`ScalarsLand`) |
| restoring | arrays come back with their dtypes and callbacks with a state whose keys they know, or are refused, and a list built as the saved one was is not (`RestoredAsSaved`) |
| runtime | jax goes by what was last asked for without an error (`AppliedAsAsked`); a child by what its caller chose, with a whole report or none (`ChildAsAsked`) |

Runs that refute what the repository says of itself (details
[below](#where-the-code-and-its-documentation-disagree)): `worker_pipe`, `local_retry`,
`modal_fault`, `checkpoint_refused`, `lines_once`.

### Bounds

The proofs remove these bounds for every property but the liveness ones: the theorems
below hold for any number of tasks, lines, clients, epochs, steps, threads, blocks, devices
and so on. TLC's instances are kept as small as the interesting cases allow.

`N = 2` tasks suffice for everything that relates a task to the next one. `MaxLines = 1`: log
properties compare counts, and one line already separates "before the last read" from "after
it". `MaxVersion = 2` lets a path change between the two snapshots and again after them. In
`sky_fetch` one process fetches; what overlapping fetches add is said under
[proofs](#proofs). In ModalRun a client follows the logs once. Calls are otherwise
unlimited: the state space is finite because a client remembers its last answer only.

In `library`:

* training: every stream of four metrics from {0, 2, 3, 5, 9, NaN, none} with patience 2,
  `MinDelta` 1, goal 0 and divergence 8: a goal reached, a divergence (9), improvements of
  less than and of exactly `MinDelta`, ties, NaN first and later, an epoch without the
  metric. Four epochs are two more than patience, so the count can be reset once and still
  run out, and two more than `MaxToKeep`, so retention removes steps and later saves meet
  what it left.
* recorder: two blocks, one inside the other, and two tool ids that another tool may take,
  so that a claim can fail; three threads, one of them older than the blocks and one that
  starts in them and may get the other's id; two items at once or in a row: one that is
  counted under the inner of two packages, one whose key raises, one call with a weight.
* command line: two shells over one run, started any number of times; ten job tables over
  four scripts, among them two of one dotted name and a private one: two tables that are right
  and eight each with one thing wrong, such as a directory given twice or an example and a
  command of one name.
* meshes: 130 devices (a group has eight from 64 on, and every remainder by eight
  comes up several times after it), 7 layers over any stages, three strategies or dimensions together.
* tracking: two loggers of one name, two seconds, two MLflow runs, four rows.
* restoring: two array items, three callback classes, two of them with the same keys, lists
  of two callbacks.
* runtime: four runtimes (an option and a fraction, a count as option, a count as flag, a
  platform) over two environments, one block of `restored_jax_config`.

Deadlock is checked in every run but two: where a system really may stop, an action that
changes nothing says when (`AllGone`, `AllQuiet`, `NothingLeft`, `TrainingOver`). In
`library` and `lines_once` the behaviour of a part just ends, when a call has
returned (meshes, restoring) or a bound is reached (tracking, recorder), and their
configurations say `CHECK_DEADLOCK FALSE`.

Type correctness is proved, as a theorem of its own or as a part of the inductive invariant,
wherever a module's state changes in steps, so no run spends time on it.

## Fairness

* `Scheduled` (Worker): the worker and its copier threads are ordinary threads that the
  machine runs. Nothing is assumed of a task: its processes need never exit.
* `DetachedEnd`: a descendant that left the task's group exits some day. The code does not
  guarantee it, and without it `joining` may last for ever: `worker_pipe` is that run. It is
  assumed only for the liveness of the worker (`SignalEnds`, `JobEnds`) and of followed
  local runs, where `local_follow` sets `Detaches` to FALSE anyway.
* `ClockRuns`: a task's time passes. It is the premise of `JobEnds`, stated in the property;
  `SignalEnds` needs no clock, for `_wait` polls the signal.
* `ClientsScheduled`, and the clients in ModalRun's `FairSpec`: a client inside a call goes
  on with it. Nobody has to make a call, and any client may die (`ClientDies` has no
  fairness).
* `WF_vars(Fail)` in ModalRun: a call does not outlive the timeout `submit` gave it
  (`modal_backend.py`, the function's `timeout`), which Modal enforces. `DrainEnds` is the
  passing of the seconds `logs` waits for late lines.
* The streamer and its queue have no fairness: the follower must end without them.
* SkyPilotRun, SkyTransfer and the parts of Library make no liveness claim and state no
  fairness.

## Proofs

TLAPS checks these for all values of the constants that satisfy the named assumptions. They
state every invariant and action property of the passing runs, and both refinements; what
remains for TLC alone is at the end of this section. In each module the properties are not
inductive by themselves; the inductive invariant says, besides, what an actor may conclude
from the point of its call it is at. Every module has a lemma `Init => IInv`, one lemma per
action or family of actions that leave the same variables alone, and a theorem `Invariance`;
the named properties follow from it.

**LocalProofs, the worker** (from `ConstantsAssumption`: at least one task, `MaxLines` a
natural number). Nothing in `TasksRunAlone` says that the task about to be started is the
only one, nor in `ManifestTrue` that the outcome in the worker's hands is true before it is
written. So `IInv == TypeOK /\ OneCurrent /\ ManifestStands`:

* `OneCurrent`: tasks before the current one are at rest (no process but a daemon, log whole), later
  ones are untouched, and the current one is untouched before it starts and at rest once its
  outcome is being recorded. What carries it is `_stop_group` before the join and the join
  before the record, on every path out of `_wait`, the cancelled one included.
* `ManifestStands`: how many outcomes the manifest has at each point of the loop, and that
  the outcome held between the poll and the record is the one the process had.

This gives `TypeCorrect`, `TasksAlone`, `NothingLeft`, `ManifestIsTrue`, `LogsAreWhole` and
`FinishedIsAll`; `SignalStopsAdmission` (no task passes the check once a signal is
remembered) and `ManifestOnlyGrows` are action properties that no run lists, for the proof
says more.

**LocalProofs, the clients** (also `ClientsAssumption`) adds to the worker's `IInv` the
clients' types and `Knows(c)`: a client that saw no live worker and has yet to read the
manifest is right to think that the worker has ended; one that found no finished manifest
after that is right to call the run failed; one that was told of an end has seen the
manifest, the marker or the end. `Forward` says why that lasts: an ended worker stays ended
and writes no more, a finished manifest and the marker stay. `AnswersAreTrue`,
`EndsAreFinal`, `FollowedLogsAreWhole` and the refinement of RunVerdict, `ImplementsVerdict`,
follow for any number of tasks, lines and clients.

**ModalProofs** (from `ModalAssumption`): `IInv == TypeOK /\ Committed /\ \A c : Knows(c)`.
`Committed`: a call that returned has committed the manifest its worker wrote, which is the
order `run_worker` keeps; `Knows`: a client that reads the manifest has seen the end, unless an
error of Modal's made it think so, and one that is about to stop the call has set the marker.
`ReplyTrue` says what survives such errors: a success is only said of a run that left it, and
what is read of an ended run is its manifest. `AnswersAreTrue`,
`StoppedRunsAreCancelled` and the refinement `ImplementsVerdict`.

**SkyPilotProofs**: `IInv == TypeOK /\ Settled /\ \A c : Concludes(c)`. `Settled`: a
submission that returned made its request, and a request that is done had a cluster and a
job; a success stands for the outputs it came from. `Concludes(c)`: at each step of a
cleanup, what has not failed so far has happened; in particular a cleanup without a failure
began with a queue that answered, so there was a cluster for the handle `submit` returned.
`Forward`: a request that is done stays done, and a cluster that is gone does not come back.
`CancelledRunsAreDown`, `FinalAnswersAreTrue` and `CancelsDoAll`, for any number of processes
that submit, poll and cancel at once.

**SkyTransferProofs** (from `TransferAssumption`): `ReceiptIsSnapshot` for any number of
paths, writes and *concurrent* fetches. A path's content only moves forward, so what the
first snapshot read is not newer than what was there when the second one listed the paths
(`ReadsOld`), and what the second one reads is not older (`Between`); where the two agree,
the listing's moment had exactly that content (`Agreed`). The listing's moment is the ghost
variable `moment`. A path listed then and gone when read is why `Between` must speak of 0
separately.

Two more results need `OneAtATime`, that the run is fetched by one process at a time:
`ReceiptsMatchTargets` and `VerifiedCopiesLast`. With two overlapping fetches TLC finds both
violated (the slower one copies after the faster one compared; a configuration with
`Fetchers = {f1, f2}`, and `F = 1` is enough for the second), which is why the hypothesis
is in the theorems and not an assumption of the module. `AloneInv` adds to `IInv` what the
one fetch knows (`Checked`): from the second listing on nothing else writes the target, so
what it identifies there is there, and a receipt in its hands is the target. `Last` says that
a listing with the finished manifest in it is the last there will be, for the worker writes
the manifest in the end: a copy of it cannot be followed by a different one. `VerifiedCopiesLast`
says less than that a recovered run stays recovered, for the code does not give that: it does for
as long as its receipt can be read, and a receipt that is written again restores it.

**TrainingProofs, the training** (from `TrainingAssumption`, `StoreAssumption`,
`EarlyStoppingAssumption`). The reference is `Uninterrupted`, the state of a stopper that
sees every epoch's metric with no death between them. It is a recursive function, and the
first lemmas are that it unfolds (`UninterruptedUnfolds`) and that it counts what it should
(`UninterruptedSound`: the best value was reported, those counted before it were worse, none
counted improves on it by `MinDelta`, and the bad epochs are the ones counted since). `IInv`
then says that the callback *is* `Uninterrupted[epoch]`, that no earlier epoch would have
stopped (`Reached`), that every step on disk holds its epoch's metric and state and no more
steps are held than are retained (`DiskKept`), and that a save under way is the current
epoch's and retention has room for it (`SaveKept`). The last part is not obvious: a save of a
step with `MaxToKeep` newer ones on disk would be removed by its own retention. What excludes
it is that a step which is not newer than the latest is admitted only if it replaces one on
disk, which is deleted first and leaves a place (`AdmittedHasRoom`).
`ResumesLikeUninterrupted`, `CountsBestAndBad`, `StopsWhenDue`, `SavedIsKept` and
`TypeCorrect`, for any metrics, patience, retention and number of epochs, and wherever the
training dies. `BestStepIsBest` is about `best_step` alone: the loop over the scored steps
keeps the best so far (`IsBestTo`) unless the first one is NaN.

**TrainingProofs, restoring** (from `RestoringAssumption`). `RestoreIInv` says what a restore
has found out where it is: what it compared before the read had the dtypes saved, what it
compares after it is still what the templates were (`CallKept`); and of a list of callbacks
half way through, that those before the next position have their saved states and the others
their own (`TakingKept`). `RestoresAsSaved`, for any items, callbacks and keys of their states.

**TrainingProofs, tracking** (from `TrackingAssumption`): at most one open MLflow logger,
whose run is the active one, for making a second one is refused while a run is active; and
files whose header is their first row. `ScalarsAlwaysLand`.

**ProcessProofs, runtime** (from `RuntimeAssumption`): `Kept` says of each setting that what
was asked for stands where jax reads it next (its variable, its option, or what the backends
started with, platforms that came `late` excepted); `BlocksKept` that an open block remembers what was asked for when it was
entered, so that setting back is asking again. `SettingsAreAsAsked`, for any depth of blocks,
and `ChildrenAreAsAsked`, for any parent.

**ProcessProofs, recorder** (from `RecorderAssumption`). `CountsExact` relates the counts to
the ghost `due` by what is still under way: for each block and key, count and the amounts of
the threads that have yet to add make what is due. That is a sum over a set of threads, and a
step of one thread changes one term of it. `RecIInv` adds `Nesting` (a block that is not over
lies in the bodies of those around it, and the inner ones found the collector off), `Holding`
(the ids held are those of the blocks that run) and `Callbacks` (a thread that adds has the
lock of the block it adds to, and the counter it read has not moved since). `CountsAreExact`,
`NothingIsLeftBehind` and `RecTypeCorrect`, for any threads, items, ids and depth. The
assumption says that a directory belongs to one package: two roots with one path and
different packages would let the order of `by_package`'s table decide.

**ProcessProofs, command line** (from `CommandLineAssumption`): `Recorded` (a run in the
store was submitted), `SuccessIsFinished` (a run that succeeded has all its outputs),
`OfItsOwn` (a shell between submit and print acts on its own run), `ToldTruly` (who was told
of a success copies from a run whose files move no more). `PrintedRunsAreFound`,
`ScriptsRunOnce` and `ZeroIsTrue`, for any shells, runs, scripts and job tables. `ScriptsRunOnce`
needs no assumption on how scripts are named: one script has one name wherever it is found, and
two tasks of one name are refused (`Once`).

**MeshProofs** (from `MeshesAssumption`: None is no axis's name, and a call that raises
returns no mesh). A behaviour is one call, so the proofs are about what the operators
compute:

* `PlansFitDevices`: the product of a shape is the number of its devices (`ProductOf`,
  `ShapeIs`), `Root` is the integer square root (`RootIs`), a pipeline's stages share out all
  layers (`AssignedSoFar`), and a larger batch is never advised against more
  (`LargerIsNoWorse`).
* `SpecsAlwaysSettled`: the axis a dimension ends with is right for the *set* of axes that claimed
  it (`Settled`: one of them, model before fsdp before any other). `MergeSettles`
  says that the pairwise merge keeps that, `ResolvedIsMerged` that the other way of combining
  agrees with it, `AnyOrder` that the order of strategies on the three ranked axes makes no
  difference, `AxesOnce` that compatible strategies use no axis twice for a tensor whose
  batch comes first.
* `BatchesPlacedAsAsked`: the arrays of a batch, taken out of its leaves in their order and
  put back, are listed without a gap or a repetition (`Rank`, `Listed`), so every array lands
  where the prefix above it says, every other leaf stays, and a batch is refused whole.

**Induction.** What a recursive function computes for every input would be an induction whose
hypothesis is a parameter of a library theorem, which the provers cannot instantiate. The
proofs use least counterexamples in its place (`LeastNatural`): the numbers for which a claim
fails are a set, a set of natural numbers that is not empty has a least element, and the
claim for the one before it contradicts that. For a function `f[n \in Nat] == ...f[n - 1]...`
the first such claim is that a function which makes these steps exists (`UnfoldsSoFar`,
`BestSoFar`, `MergedSoFar`, `SumsSoFar`), which is what makes the `CHOOSE` behind the
definition unfold. `SumWithout` takes one term out of the folded sum of module Functions, in
whatever order it is folded (`AnyFirst`).

Only model-checked: liveness (`SignalEnds`, `JobEnds` of `worker`, `CancelSettles` and
`FollowEnds` of `local_follow`, `FollowEnds` of `modal_run`), which is outside what the
prover does; and the five runs that refute. The theorems about a part of Library are about
that part's own specification; Library's initial states and steps of the part are the part's.

## Where the code and its documentation disagree

With a run that shows it:

* `worker_pipe`: `compute/worker.py:378` joins the copiers without a limit. A descendant that
  called `setsid` and keeps stdout holds the worker past the task's and the job's budget and
  past a cancellation. `tests/compute/test_worker_process_tree.py:19`: "An inherited
  stdout pipe must not extend the task's lifetime."
* `local_retry`: `compute/local.py:183` touches the marker before it signals. A cancel that dies
  between the two leaves a run that reads as cancelled and goes on; every later cancel
  returns at once. `local.py:178`: "Stop the worker and its tasks".
* `modal_fault`: `compute/modal_backend.py:330` takes every error of Modal's for a call that has
  ended, one met in asking included: status answers failed while the call has no result.
  `modal_backend.py:172`: "running while its call has no result, then from its manifest."
* `checkpoint_refused`: `checkpoint/store.py:296` deletes the step to be replaced before Orbax
  is asked to write. `checkpoint/errors.py:14`: "the step on disk is whatever it was
  before the call."
* `lines_once`: a logger whose name lies under another one's (`a.b` under `a`) says each line
  twice, for `tracking/logger.py:116` leaves propagation on. `logger.py:92`: "so lines reach
  stdout exactly once".

Seen while modelling, with no run of their own:

* `cancel` of all three backends acts on a status read before. A run that ends in between is
  marked as cancelled all the same (`local.py:185`, `modal_backend.py:242`,
  `skypilot_backend.py:242`; `docs/api/compute.md:95`: a run that already ended is left as it
  is). RunVerdict states the revisions that remain possible.
* A local run reads as cancelled, which `backend.py:44` counts as final, while its worker
  is still stopping its task (`local.py:185`).
* Modal's `cancel` marks first too (`modal_backend.py:239`): if its request to Modal fails,
  later cancels return at once. The order is what makes `StoppedIsCancelled` true.
* `cancel` on Modal that meets an error in asking returns as for an ended run, and stops nothing,
  or raises the function's own exception without noting anything (`modal_backend.py:239`). The
  same error ends a followed log of a run that goes on.
* A `status` that raises inside a followed log leaves `with Popen` (`modal_backend.py:298`),
  which waits for a streamer that nobody has terminated (the only `terminate` is at 313).
  `FollowEnds` allows just that.
* A `cancel` with a handle read from `intent.json` during the launch may return while the
  launch goes on (`skypilot_backend.py:234`), if SkyPilot's queue answers for a cluster that does not exist yet, as the
  repository's own stand-in does. Parts of `FinalIsTrue` and `CancelDoesAll` are therefore
  about the handle `submit` returned.
* Modal's followed log ends without an error when the streamer closes early
  (`modal_backend.py:311`), while the run goes on. `ExitZeroIsTrue` shows that the command line
  does not take it for the end.
* The bucket transport answers `failed` for a download that failed as for a manifest that is
  missing (`skypilot_transports.py:197`).
* rsync runs without `--delete` into the target of earlier fetches (`skypilot_transports.py:298`):
  an output that an earlier fetch copied and that was removed since stays there, the target
  never verifies again, and no fetch of the run into that directory succeeds.
* The receipt is emptied in place before it is written (`skypilot_transports.py:306`): a fetch
  that dies there, of a run that had been recovered, leaves none that can be read, and once the
  cluster is gone the run's state is lost although its copy is complete. `RecoveryLasts` is
  about receipts that can be read for this reason.
* Two overlapping fetches of one run: the slower one may record an earlier state over a later
  one (`skypilot_transports.py:305`).
* `killpg` after the leader was waited for (`worker.py:404`) names a group whose number may
  meanwhile be another's.
* A command line that dies between `submit` and `save` leaves a run that no command can
  name (`cli.py:87`); `PrintedIsFound` holds from the moment the id is printed.
* Fetching a local run that has no outputs directory raises `FileNotFoundError`, which
  `main` reports with exit code 2, the one for refused commands, although `run` has submitted the
  job and waited for it (`cli.py:15`, `local.py:174`); so does any `LookupError` or `ValueError`
  that a backend raises after `submit`.
* A `task_timeout_seconds` of 0 counts as unset and not as an error (`config.py:140`).
* `best_step` with NaN at the first step returns that step (`store.py:566`), and `best_score`
  does not take in a value that reached the goal or improved by less than `min_delta`
  (`callbacks/early_stopping.py:102`).
* `set_state` of a `CallbackList` leaves the callbacks before a refused one with their new
  states (`callbacks/base.py:156`). `RestoredAsSaved` says what such a list holds. Only keys are
  compared (`callbacks/_state.py:19`), so the plateau `EarlyStopping` and `BestMetricTracker`, which
  share theirs, take each other's state.
* After a key function raised, the recorder goes on counting the starts of code objects it
  knows (`testing/calls.py:273`: "Once one has raised, nothing more is counted"); a failure in
  the block's last `gc.collect()` is reported to nobody.
* A closed MLflow logger that logs a scalar starts a run that no logger ends and that keeps
  new loggers from being made; one whose run was refused has replaced the handlers of its
  name already (`tracking/mlflow.py`).
* Closing a console logger takes the handlers of its name away from the open one that shares
  it, whose lines then reach nobody (`tracking/logger.py:207`).
* `fsdp_rules` maps three names to one axis, so a tensor with two of them asks jax for one axis
  twice (`mesh/rules.py`); `SpecsSettled` excludes it.
* Once the backends have started, `restored_jax_config` cannot set `jax_num_cpu_devices` back
  and raises there, which leaves the options sorted after it changed
  (`testing/jax_config.py:38`). `AppliedAsAsked` allows just that. It can set `jax_platforms`,
  and the option then differs from what the backends run on.

## What is not modelled

* Worker: errors while writing its own files; garbled answers of the device probe; process
  ids that are reused (`worker.py:404`, `local.py:189`); a descendant that closes one of its pipes
  and keeps the other; the code paths for Windows; which of the declared outputs exist.
* Local and Modal `fetch` as steps beside the worker (CommandLine copies files of a run that
  goes on, for any backend); images, mounts, and background commits of a Modal volume.
* What SkyPilot really answers for missing clusters: the model takes what the repository's
  stand-in and its error handling expect.
* SkyTransfer: a path whose content returns to an earlier one (every write is a new
  content); file types and links.
* Orbax's cached list of steps across processes; infinite metrics other than the initial best;
  shardings of templates. Templates are of dtypes that their process can create.
* CallRecorder: `per_iteration` and the counters of jax calls, compiles and traces, which
  only ask the recorder.
* Tracking: W&B, whose global run changes with its version; a header that two *processes*
  write to one metrics file; figures, images and hyperparameters.
* Meshes: what collectives compute, whole trees on devices, and training steps are jax's.
* Runtime: writing and showing the managed file, the pytest plugin's checks around a test, the
  examples' runner, and the contract tests backends inherit.
* `optim` and `rng` (assembly and numerics), source scans and gradient checks (no state),
  `records`, `typing`, `artifacts`, and the repository's automation.

`PROJECT.json` gives each component its status and the reason.

## Plan

What is left, in order of what the code risks most:

1. *Local fetch* beside a running worker as an action of LocalRun, so that the manifest that
   is copied and the outputs that are copied come from two moments; SkyPilot's `logs`.
2. *Budgets with a clock*: `_wait`'s remaining seconds as numbers, refining Worker's flags.
3. *pytest plugin and examples*: a test's options before and after it, on top of Runtime.
4. *Proofs*: what a local fetch copies, once it is modelled; a refinement of the training, with
   the uninterrupted training as its abstract specification; and an abstract store of runs that
   the command line implements.

No module that is proved about declares a RECURSIVE operator: recursion is in functions
(`Uninterrupted`, `BestUpTo`, `MergeAll`, `Product`) and folds.

## Using it

```
tlc -workers 2 -config Worker.cfg Worker        # one run: a .cfg and the module it is for
tlc -workers 2 -config Library.cfg MCLibrary
tlapm LocalProofs.tla                           # the proofs of one module
```

`PROJECT.json` holds the list of runs with their properties, the lines every definition
models (`map`), the hazards, the findings, the theorems and, for each property, a mutation
of the model that violates it.
