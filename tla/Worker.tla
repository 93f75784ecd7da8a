------------------------------- MODULE Worker -------------------------------
(***************************************************************************)
(* The worker process of a compute run (substrax/compute/worker.py): it    *)
(* probes the devices, runs the job's tasks in order, each in a process    *)
(* group of its own, and rewrites manifest.json after every task.          *)
(*                                                                         *)
(* Interleaved with it are the task's processes, the threads that copy     *)
(* their output, the passing of the two budgets, a termination signal at   *)
(* any moment and the worker's own sudden death.                           *)
(***************************************************************************)
EXTENDS Naturals, Sequences

CONSTANTS
    N,         \* how many tasks the job has; JobSpec refuses none at all
    MaxLines,  \* BOUND: how many lines one task's processes write
    Detaches,  \* BOUND: whether a task's descendant may leave the task's process
               \* group, or let go of the task's output
    Crashes    \* whether the worker may die without running its own code

ASSUME ConstantsAssumption ==
    /\ N \in Nat \ {0}
    /\ MaxLines \in Nat
    /\ Detaches \in BOOLEAN
    /\ Crashes \in BOOLEAN

VARIABLES
    worker,     \* where the worker process is
    task,       \* the task run_job's loop is at
    signalled,  \* _Cancellation.signum is set
    jobOver,    \* nothing is left of the job's budget
    taskOver,   \* the running task's budget has passed
    outcome,    \* what became of the task being ended
    manifest,   \* manifest.json: the outcomes in order, and whether it is finished
    leader,     \* per task: the process the worker started
    child,      \* per task: a descendant of that process
    written,    \* per task: lines its processes wrote
    copied      \* per task: lines the copiers moved to its log

vars == <<worker, task, signalled, jobOver, taskOver, outcome, manifest,
          leader, child, written, copied>>
budgets == <<jobOver, taskOver>>
procs == <<leader, child>>
lines == <<written, copied>>

Tasks == 1..N
SUCCEEDED == "succeeded"
FAILED == "failed"
TIMED_OUT == "timed-out"
TaskStatus == {SUCCEEDED, FAILED, TIMED_OUT}

\* Before the signal handlers are installed and after they are restored a
\* termination signal has its default effect.
Unhandled == {"boot", "returning"}
Handled == {"probing", "head", "starting", "waiting", "polling",
            "stopping", "joining", "recording"}
Ended == worker \in {"exited", "killed"}

TypeOK ==
    /\ worker \in Unhandled \union Handled \union {"exited", "killed"}
    /\ task \in Tasks
    /\ signalled \in BOOLEAN
    /\ jobOver \in BOOLEAN
    /\ taskOver \in BOOLEAN
    /\ outcome \in TaskStatus \union {"none", "cancelled"}
    /\ manifest \in [tasks: Seq(TaskStatus), finished: BOOLEAN]
    /\ leader \in [Tasks -> {"none", "running", "zero", "nonzero", "killed"}]
    /\ child \in [Tasks -> {"none", "group", "quiet", "session", "daemon"}]
    /\ written \in [Tasks -> 0..MaxLines]
    /\ copied \in [Tasks -> 0..MaxLines]

\* No manifest file is the same to every reader as one with no task in it.
Init ==
    /\ worker = "boot"
    /\ task = 1
    /\ signalled = FALSE
    /\ jobOver = FALSE
    /\ taskOver = FALSE
    /\ outcome = "none"
    /\ manifest = [tasks |-> <<>>, finished |-> FALSE]
    /\ leader = [t \in Tasks |-> "none"]
    /\ child = [t \in Tasks |-> "none"]
    /\ written = [t \in Tasks |-> 0]
    /\ copied = [t \in Tasks |-> 0]

\* A process of the task is alive. A descendant is born in the task's group and
\* with its pipes; it is "quiet" once it has pointed its output elsewhere, in
\* another "session" once it called setsid, and a "daemon" once it did both.
Live(t) == leader[t] = "running" \/ child[t] # "none"

\* A process of the task holds the pipes the copiers read.
Holding(t) == leader[t] = "running" \/ child[t] \in {"group", "session"}

-----------------------------------------------------------------------------
(* The worker's own steps.                                                 *)

\* main: the spec is read and _cancellation_scope replaces the handlers.
EnterScope ==
    /\ worker = "boot"
    /\ worker' = "probing"
    /\ UNCHANGED <<task, signalled, budgets, outcome, manifest, procs, lines>>

\* The device probe answers, fails or runs out of its time: the job goes on
\* in each case, and a signal meanwhile is only remembered.
ProbeDevices ==
    /\ worker = "probing"
    /\ worker' = "head"
    /\ UNCHANGED <<task, signalled, budgets, outcome, manifest, procs, lines>>

\* _check_cancelled at the top of _run_task.
MayStart == ~signalled

\* run_job gives the task a positive budget and _run_task goes ahead; the
\* process is only started after its directory and logs are.
AdmitTask ==
    /\ worker = "head"
    /\ ~jobOver
    /\ MayStart
    /\ worker' = "starting"
    /\ UNCHANGED <<task, signalled, budgets, outcome, manifest, procs, lines>>

\* _check_cancelled raises before the task starts.
StopBeforeTask ==
    /\ worker = "head"
    /\ ~jobOver
    /\ ~MayStart
    /\ worker' = "exited"
    /\ UNCHANGED <<task, signalled, budgets, outcome, manifest, procs, lines>>

\* _out_of_time: the job's budget leaves nothing, the task is not started. This
\* branch never looks at the signal.
OutOfTime ==
    /\ worker = "head"
    /\ jobOver
    /\ outcome' = TIMED_OUT
    /\ worker' = "recording"
    /\ UNCHANGED <<task, signalled, budgets, manifest, procs, lines>>

\* Popen gives the task a session of its own, and the copiers start.
StartTask ==
    /\ worker = "starting"
    /\ leader' = [leader EXCEPT ![task] = "running"]
    /\ worker' = "waiting"
    /\ UNCHANGED <<task, signalled, budgets, outcome, manifest, child, lines>>

\* Popen raises OSError: a failed task, with no process.
StartFails ==
    /\ worker = "starting"
    /\ outcome' = FAILED
    /\ worker' = "recording"
    /\ UNCHANGED <<task, signalled, budgets, manifest, procs, lines>>

\* One turn of _wait_for_exit: the signal, then the deadline, then a short wait.
SeeSignal ==
    /\ worker = "waiting"
    /\ signalled
    /\ outcome' = "cancelled"
    /\ worker' = "stopping"
    /\ UNCHANGED <<task, signalled, budgets, manifest, procs, lines>>

SeeDeadline ==
    /\ worker = "waiting"
    /\ ~signalled
    /\ taskOver
    /\ outcome' = TIMED_OUT
    /\ worker' = "stopping"
    /\ UNCHANGED <<task, signalled, budgets, manifest, procs, lines>>

BeginPoll ==
    /\ worker = "waiting"
    /\ ~signalled
    /\ ~taskOver
    /\ worker' = "polling"
    /\ UNCHANGED <<task, signalled, budgets, outcome, manifest, procs, lines>>

PollAgain ==
    /\ worker = "polling"
    /\ leader[task] = "running"
    /\ worker' = "waiting"
    /\ UNCHANGED <<task, signalled, budgets, outcome, manifest, procs, lines>>

\* A mutant of Verdict: any exit counts as success.
VerdictOfAnyExit(exit) == SUCCEEDED

Verdict(exit) == IF exit = "zero" THEN SUCCEEDED ELSE FAILED

\* process.wait returns: whatever was signalled during the wait is not looked at.
SeeExit ==
    /\ worker = "polling"
    /\ leader[task] # "running"
    /\ outcome' = Verdict(leader[task])
    /\ worker' = "stopping"
    /\ UNCHANGED <<task, signalled, budgets, manifest, procs, lines>>

\* A mutant of GroupSurvivor: only the process the worker started is killed.
LeaderOnlySurvivor(kind) == kind

\* What SIGKILL to the task's process group leaves of a descendant; what is killed
\* is taken to be gone at once.
GroupSurvivor(kind) == IF kind \in {"group", "quiet"} THEN "none" ELSE kind

\* _stop_group, after a normal exit as well.
StopGroup ==
    /\ worker = "stopping"
    /\ leader' = [leader EXCEPT ![task] = IF @ = "running" THEN "killed" ELSE @]
    /\ child' = [child EXCEPT ![task] = GroupSurvivor(@)]
    /\ worker' = "joining"
    /\ UNCHANGED <<task, signalled, budgets, outcome, manifest, lines>>

\* Mutants of Drained: joining with a time limit, so that a descendant may still
\* hold the pipes; and not joining the copiers at all.
DrainedOfLines(t) == copied[t] = written[t]
HoldersGone(t) == ~Holding(t)

\* A copier returns from join once its pipe has no writer left and is empty. A
\* process that is alive but closed its ends of the pipes is not waited for.
Drained(t) == ~Holding(t) /\ copied[t] = written[t]

\* copier.join, without a time limit and without a look at the signal. After it
\* a cancellation goes on to end the worker, any other outcome is recorded.
JoinCopiers ==
    /\ worker = "joining"
    /\ Drained(task)
    /\ worker' = IF outcome = "cancelled" THEN "exited" ELSE "recording"
    /\ UNCHANGED <<task, signalled, budgets, outcome, manifest, procs, lines>>

\* A mutant of LastTask: an index that starts at 0 is compared with the length.
LastTaskFromZero == task - 1 = N

\* A mutant of LastTask: the manifest is marked finished one task early.
LastTaskEarly == task + 1 >= N

LastTask == task = N

\* The manifest with this outcome: a temporary file replaces the old one, so a
\* reader sees one or the other.
RecordTask ==
    /\ worker = "recording"
    /\ manifest' = [tasks |-> Append(manifest.tasks, outcome), finished |-> LastTask]
    /\ outcome' = "none"
    /\ taskOver' = FALSE
    /\ IF task = N
       THEN worker' = "returning" /\ UNCHANGED task
       ELSE worker' = "head" /\ task' = task + 1
    /\ UNCHANGED <<signalled, jobOver, procs, lines>>

\* main leaves the scope and the process ends.
Return ==
    /\ worker = "returning"
    /\ worker' = "exited"
    /\ UNCHANGED <<task, signalled, budgets, outcome, manifest, procs, lines>>

WorkerStep ==
    \/ EnterScope \/ ProbeDevices \/ AdmitTask \/ StopBeforeTask \/ OutOfTime
    \/ StartTask \/ StartFails \/ SeeSignal \/ SeeDeadline \/ BeginPoll
    \/ PollAgain \/ SeeExit \/ StopGroup \/ JoinCopiers \/ RecordTask \/ Return

\* A copier thread moves one line to the task's log and to the worker's output.
CopyLine ==
    /\ worker \in {"waiting", "polling", "stopping", "joining"}
    /\ copied[task] < written[task]
    /\ copied' = [copied EXCEPT ![task] = @ + 1]
    /\ UNCHANGED <<worker, task, signalled, budgets, outcome, manifest, procs, written>>

-----------------------------------------------------------------------------
(* What happens to the worker.                                             *)

\* SIGTERM or SIGINT: remembered while the worker's handlers are installed,
\* deadly before and after.
Terminate ==
    \/ /\ worker \in Handled
       /\ signalled' = TRUE
       /\ UNCHANGED <<worker, task, budgets, outcome, manifest, procs, lines>>
    \/ /\ worker \in Unhandled
       /\ worker' = "killed"
       /\ UNCHANGED <<task, signalled, budgets, outcome, manifest, procs, lines>>

\* The worker dies without running its own code: SIGKILL, out of memory.
Crash ==
    /\ Crashes
    /\ ~Ended
    /\ worker' = "killed"
    /\ UNCHANGED <<task, signalled, budgets, outcome, manifest, procs, lines>>

JobBudgetEnds ==
    /\ worker \in Handled
    /\ jobOver' = TRUE
    /\ UNCHANGED <<worker, task, signalled, taskOver, outcome, manifest, procs, lines>>

TaskBudgetEnds ==
    /\ worker \in {"waiting", "polling"}
    /\ taskOver' = TRUE
    /\ UNCHANGED <<worker, task, signalled, jobOver, outcome, manifest, procs, lines>>

-----------------------------------------------------------------------------
(* The task's processes: any program.                                      *)

\* A write reaches the pipe while someone reads it.
WriteLine(t) ==
    /\ Holding(t)
    /\ ~Ended
    /\ written[t] < MaxLines
    /\ written' = [written EXCEPT ![t] = @ + 1]
    /\ UNCHANGED <<worker, task, signalled, budgets, outcome, manifest, procs, copied>>

Spawn(t) ==
    /\ leader[t] = "running"
    /\ child[t] = "none"
    /\ child' = [child EXCEPT ![t] = "group"]
    /\ UNCHANGED <<worker, task, signalled, budgets, outcome, manifest, leader, lines>>

\* The descendant takes a session of its own, out of reach of killpg.
Detach(t) ==
    /\ Detaches
    /\ child[t] \in {"group", "quiet"}
    /\ child' = [child EXCEPT ![t] = IF @ = "group" THEN "session" ELSE "daemon"]
    /\ UNCHANGED <<worker, task, signalled, budgets, outcome, manifest, leader, lines>>

\* The descendant points its output elsewhere and so lets go of the pipes.
Redirect(t) ==
    /\ Detaches
    /\ child[t] \in {"group", "session"}
    /\ child' = [child EXCEPT ![t] = IF @ = "group" THEN "quiet" ELSE "daemon"]
    /\ UNCHANGED <<worker, task, signalled, budgets, outcome, manifest, leader, lines>>

LeaderExits(t, exit) ==
    /\ leader[t] = "running"
    /\ leader' = [leader EXCEPT ![t] = exit]
    /\ UNCHANGED <<worker, task, signalled, budgets, outcome, manifest, child, lines>>

ChildExits(t) ==
    /\ child[t] # "none"
    /\ child' = [child EXCEPT ![t] = "none"]
    /\ UNCHANGED <<worker, task, signalled, budgets, outcome, manifest, leader, lines>>

TaskStep(t) ==
    \/ WriteLine(t) \/ Spawn(t) \/ Detach(t) \/ Redirect(t) \/ ChildExits(t)
    \/ \E exit \in {"zero", "nonzero"} : LeaderExits(t, exit)

\* A run that ended and left nothing behind takes no further step.
AllGone ==
    /\ Ended
    /\ \A t \in Tasks : ~Live(t)
    /\ UNCHANGED vars

Next ==
    \/ WorkerStep \/ CopyLine \/ Terminate \/ Crash
    \/ JobBudgetEnds \/ TaskBudgetEnds
    \/ \E t \in Tasks : TaskStep(t)
    \/ AllGone

Spec == Init /\ [][Next]_vars

\* The worker and its copiers are ordinary threads, which the machine schedules.
Scheduled == WF_vars(WorkerStep) /\ WF_vars(CopyLine)

\* A descendant that left the group with the pipes in its hands ends of itself,
\* sooner or later. A daemon never has to.
DetachedEnd == \A t \in Tasks : WF_vars(child[t] = "session" /\ ChildExits(t))

FairSpec == Spec /\ Scheduled
StopSpec == FairSpec /\ DetachedEnd
-----------------------------------------------------------------------------
(* Properties.                                                             *)

\* The most that a task may leave behind: a daemon, which is in no group the
\* worker can kill and holds no pipe the worker waits for.
OnlyDaemon(t) == leader[t] # "running" /\ child[t] \in {"none", "daemon"}

\* Tasks run one after another: while a process of one is alive, nothing of an
\* earlier one is but a daemon, whose output goes elsewhere. Neither a descendant
\* in the task's group nor one that left it and kept the task's output open ever
\* overlaps the next task (run_job "in order", _stop_group and copier.join).
TasksRunAlone == \A t, u \in Tasks : t < u /\ Live(u) => OnlyDaemon(t)

\* A worker that ends by itself, finished or cancelled, leaves no process of any
\* task behind but daemons (_stop_group: "A cancellation finishes this before the
\* worker exits"). Only a worker killed outright may leave more.
ExitLeavesNoTask == worker = "exited" => \A t \in Tasks : OnlyDaemon(t)

\* The manifest says of a task what its process did: a success is a process that
\* exited with zero, a failure one that exited otherwise or never started; and a
\* task the manifest does not list yet has not been counted.
ManifestTrue ==
    \A t \in DOMAIN manifest.tasks :
        /\ manifest.tasks[t] = SUCCEEDED => leader[t] = "zero"
        /\ manifest.tasks[t] = FAILED => leader[t] \in {"none", "nonzero"}

\* Once the manifest lists a task, every line its processes wrote is in its log
\* and none can be added: a reader of the manifest may read the log at once.
LogsWhole ==
    \A t \in DOMAIN manifest.tasks : ~Holding(t) /\ copied[t] = written[t]

\* "finished" is set exactly when every task is listed, and a worker that ends by
\* itself without it was asked to stop: no path loses the rest of the job.
FinishedMeansAll ==
    /\ manifest.finished <=> Len(manifest.tasks) = N
    /\ worker = "exited" /\ ~manifest.finished => signalled

\* A remembered signal lets no further task through the check: the only process
\* that may still start is one the worker was past checking for.
SignalAdmitsNoTask ==
    [][signalled => (worker # "starting" => worker' # "starting")]_vars

\* The manifest only grows, one task at a time and in order, and what a reader
\* took from it stays true: a listed outcome is never rewritten.
ManifestGrows ==
    [][/\ Len(manifest'.tasks) <= Len(manifest.tasks) + 1
       /\ \A t \in DOMAIN manifest.tasks :
              /\ t \in DOMAIN manifest'.tasks
              /\ manifest'.tasks[t] = manifest.tasks[t]
       /\ manifest.finished => manifest' = manifest]_vars

\* A worker that was asked to stop ends, whatever its task does: the task may
\* sleep for ever and keep descendants, in its group, as daemons, or with its
\* output for a while outside it.
SignalEnds == signalled ~> Ended

\* The clock runs out on a task. Nothing makes a task's own process end.
ClockRuns == WF_vars(TaskBudgetEnds)

\* The job ends: where the clock runs, the budgets alone bring the worker through
\* every task, although no task's process ever has to exit.
JobEnds == ClockRuns => <>Ended

\* "An inherited stdout pipe must not extend the task's lifetime": a task past its
\* budget is over, whatever its descendants do (violated when one has left the
\* group and stays: copier.join has no limit).
BudgetEndsTask == (worker = "joining") ~> (worker # "joining")
=============================================================================
