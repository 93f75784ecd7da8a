---------------------------- MODULE LocalProofs -----------------------------
(***************************************************************************)
(* Proofs about modules Worker, for every number of tasks, every amount of *)
(* output and whether or not descendants detach or the worker crashes, and *)
(* LocalRun, which extends it, for any number of pollers, followers and    *)
(* cancelling processes: what the calls answer is true and never taken     *)
(* back, the backend implements RunVerdict, and a followed log is whole.   *)
(***************************************************************************)
EXTENDS LocalRun, TLAPS

\* Only the current task can have a process that is no daemon, and what is past is
\* at rest, its pipes closed for good:
\* this is the induction behind TasksRunAlone, ExitLeavesNoTask and LogsWhole.
AtRest(t) == OnlyDaemon(t) /\ copied[t] = written[t]
Untouched(t) == /\ leader[t] = "none" /\ child[t] = "none"
                /\ written[t] = 0 /\ copied[t] = 0

OneCurrent ==
    /\ \A t \in Tasks : t < task => AtRest(t)
    /\ \A t \in Tasks : t > task => Untouched(t)
    /\ worker \in {"boot", "probing", "head", "starting"} => Untouched(task)
    /\ worker = "joining" =>
           leader[task] # "running" /\ child[task] \in {"none", "session", "daemon"}
    /\ worker \in {"recording", "returning", "exited"} => AtRest(task)

\* How far the manifest is, and that the outcome about to be recorded is the one
\* the process had.
OutcomeTrue(o, t) ==
    /\ o = SUCCEEDED => leader[t] = "zero"
    /\ o = FAILED => leader[t] \in {"none", "nonzero"}

ManifestStands ==
    /\ worker \in {"boot"} \union Handled =>
           Len(manifest.tasks) = task - 1 /\ ~manifest.finished
    /\ worker = "returning" => Len(manifest.tasks) = N
    /\ \/ Len(manifest.tasks) = task - 1
       \/ Len(manifest.tasks) = task /\ task = N /\ AtRest(task)
    /\ manifest.finished <=> Len(manifest.tasks) = N
    /\ worker = "exited" /\ ~manifest.finished => signalled
    /\ worker \in {"waiting", "polling"} => leader[task] \in {"running", "zero", "nonzero"}
    /\ worker \in {"stopping", "joining"} => outcome \in TaskStatus \union {"cancelled"}
    /\ worker = "recording" => outcome \in TaskStatus
    /\ worker \in {"stopping", "joining", "recording"} => OutcomeTrue(outcome, task)
    /\ outcome = "cancelled" => signalled
    /\ \A t \in DOMAIN manifest.tasks : OutcomeTrue(manifest.tasks[t], t)

IInv == TypeOK /\ OneCurrent /\ ManifestStands

-----------------------------------------------------------------------------

LEMMA InitIInv == Init => IInv
<1> SUFFICES ASSUME Init PROVE IInv
  OBVIOUS
<1> USE ConstantsAssumption DEF ConstantsAssumption, Init, Tasks
<1>1. TypeOK
  <2>1. manifest \in [tasks: Seq(TaskStatus), finished: BOOLEAN]
    OBVIOUS
  <2>2. worker \in Unhandled /\ task \in Tasks
    BY DEF Unhandled
  <2>3. written \in [Tasks -> 0..MaxLines] /\ copied \in [Tasks -> 0..MaxLines]
    OBVIOUS
  <2>4. QED
    BY <2>1, <2>2, <2>3 DEF TypeOK
<1>2. OneCurrent
  BY DEF OneCurrent, Untouched, AtRest, OnlyDaemon
<1>3. ManifestStands
  BY DEF ManifestStands, Handled, OutcomeTrue, SUCCEEDED, FAILED
<1>4. QED
  BY <1>1, <1>2, <1>3 DEF IInv

\* Recording is the step that ties the manifest to the process it tells of.
LEMMA RecordIInv == ASSUME IInv, RecordTask PROVE IInv'
<1> DEFINE old == manifest.tasks
           new == manifest'.tasks
<1>1. /\ task \in 1..N /\ N \in Nat \ {0}
      /\ old \in Seq(TaskStatus) /\ Len(old) = task - 1
      /\ outcome \in TaskStatus
      /\ OutcomeTrue(outcome, task) /\ AtRest(task)
      /\ \A t \in DOMAIN old : OutcomeTrue(old[t], t)
  BY ConstantsAssumption DEF ConstantsAssumption, IInv, TypeOK, Tasks, ManifestStands,
     OneCurrent, RecordTask, Handled
<1>2. manifest' = [tasks |-> Append(old, outcome), finished |-> (task = N)]
  BY DEF RecordTask, LastTask
<1>3. new = Append(old, outcome)
  BY <1>2
<1>4. manifest'.finished = (task = N)
  BY <1>2
<1>5. new \in Seq(TaskStatus) /\ Len(new) = task
  BY <1>1, <1>3
<1>6. /\ UNCHANGED <<signalled, leader, child, written, copied>>
      /\ worker = "recording"
      /\ outcome' = "none"
      /\ jobOver' \in BOOLEAN /\ taskOver' \in BOOLEAN
      /\ \/ task = N /\ worker' = "returning" /\ task' = task
         \/ task # N /\ worker' = "head" /\ task' = task + 1
  BY DEF IInv, TypeOK, RecordTask, procs, lines, budgets
<1>7. (\A t \in DOMAIN manifest.tasks : OutcomeTrue(manifest.tasks[t], t))'
  <2>1. \A t \in 1..task : /\ new[t] = SUCCEEDED => leader[t] = "zero"
                           /\ new[t] = FAILED => leader[t] \in {"none", "nonzero"}
    BY <1>1, <1>3 DEF OutcomeTrue
  <2>2. QED
    BY <1>5, <1>6, <2>1 DEF OutcomeTrue
<1>8. TypeOK'
  BY <1>1, <1>2, <1>5, <1>6 DEF IInv, TypeOK, Tasks, Handled, Unhandled
<1>9. OneCurrent'
  BY <1>1, <1>6 DEF IInv, OneCurrent, AtRest, Untouched, OnlyDaemon, Tasks
<1>10. task = N => AtRest(task)'
  BY <1>1, <1>6 DEF AtRest, OnlyDaemon, IInv, TypeOK
<1>11. ManifestStands'
  <2>1. manifest'.finished <=> Len(new) = N
    BY <1>4, <1>5
  <2>2. CASE task = N
    <3>1. ~(worker' \in {"boot"} \union Handled)
      BY <1>6, <2>2 DEF Handled
    <3>2. QED
      BY <1>1, <1>5, <1>6, <1>7, <1>10, <2>1, <2>2, <3>1 DEF ManifestStands
  <2>3. CASE task # N
    <3>1. worker' = "head" /\ task' = task + 1
      BY <1>6, <2>3
    <3>2. ~manifest'.finished
      BY <1>4, <2>3
    <3>3. QED
      BY <1>1, <1>5, <1>6, <1>7, <2>1, <2>3, <3>1, <3>2 DEF ManifestStands
  <2>4. QED
    BY <2>2, <2>3
<1>12. QED
  BY <1>8, <1>9, <1>11 DEF IInv

\* A signal is remembered or deadly.
LEMMA TerminateIInv == ASSUME IInv, Terminate PROVE IInv'
<1>1. CASE /\ worker \in Handled /\ signalled' = TRUE /\ UNCHANGED worker
           /\ UNCHANGED <<task, budgets, outcome, manifest, procs, lines>>
  <2>1. TypeOK' /\ OneCurrent'
    BY <1>1 DEF IInv, TypeOK, OneCurrent, AtRest, Untouched, OnlyDaemon, procs, lines, budgets
  <2>2. ManifestStands'
    BY <1>1 DEF IInv, ManifestStands, AtRest, OutcomeTrue, OnlyDaemon, procs, lines, budgets
  <2>3. QED
    BY <2>1, <2>2 DEF IInv
<1>2. CASE /\ worker \in Unhandled /\ worker' = "killed"
           /\ UNCHANGED <<task, signalled, budgets, outcome, manifest, procs, lines>>
  <2>1. TypeOK' /\ OneCurrent'
    BY <1>2 DEF IInv, TypeOK, OneCurrent, AtRest, Untouched, OnlyDaemon, procs, lines, budgets
  <2>2. ManifestStands'
    BY <1>2 DEF IInv, ManifestStands, AtRest, OutcomeTrue, OnlyDaemon, procs, lines, budgets,
       Handled
  <2>3. QED
    BY <2>1, <2>2 DEF IInv
<1>3. QED
  BY <1>1, <1>2 DEF Terminate

\* The steps of a task's processes, of the copiers and of the worker upon them:
\* each changes one entry of one function.
LEMMA ProcessIInv ==
  ASSUME IInv, NEW t \in Tasks, NEW exit \in {"zero", "nonzero"},
         StartTask \/ StopGroup \/ CopyLine \/ WriteLine(t) \/ Spawn(t) \/ Detach(t)
           \/ Redirect(t) \/ ChildExits(t) \/ LeaderExits(t, exit)
  PROVE  IInv'
<1>0. /\ task \in 1..N /\ N \in Nat \ {0} /\ MaxLines \in Nat
      /\ Tasks = 1..N /\ TypeOK
  BY ConstantsAssumption DEF ConstantsAssumption, IInv, TypeOK, Tasks
<1>1. CASE StartTask
  <2>1. TypeOK'
    BY <1>0, <1>1 DEF StartTask, TypeOK, Handled, Unhandled, procs, lines, budgets
  <2>2. OneCurrent'
    BY <1>0, <1>1 DEF StartTask, IInv, TypeOK, OneCurrent, AtRest, Untouched,
       OnlyDaemon, procs, lines, budgets
  <2>3. ManifestStands'
    BY <1>0, <1>1 DEF StartTask, IInv, TypeOK, OneCurrent, ManifestStands,
       OutcomeTrue, AtRest, Untouched, OnlyDaemon, SUCCEEDED, FAILED, Handled,
       procs, lines, budgets
  <2>4. QED
    BY <2>1, <2>2, <2>3 DEF IInv
<1>2. CASE StopGroup
  <2>1. TypeOK'
    BY <1>0, <1>2 DEF StopGroup, GroupSurvivor, TypeOK, Handled, Unhandled, procs, lines, budgets
  <2>2. OneCurrent'
    BY <1>0, <1>2 DEF StopGroup, GroupSurvivor, IInv, TypeOK, OneCurrent, AtRest, Untouched,
       OnlyDaemon, procs, lines, budgets
  <2>3. ManifestStands'
    BY <1>0, <1>2 DEF StopGroup, GroupSurvivor, IInv, TypeOK, OneCurrent, ManifestStands,
       OutcomeTrue, AtRest, Untouched, OnlyDaemon, SUCCEEDED, FAILED, Handled,
       procs, lines, budgets
  <2>4. QED
    BY <2>1, <2>2, <2>3 DEF IInv
<1>3. CASE CopyLine
  <2>1. TypeOK'
    BY <1>0, <1>3 DEF CopyLine, TypeOK, Handled, Unhandled, procs, lines, budgets
  <2>2. OneCurrent'
    BY <1>0, <1>3 DEF CopyLine, IInv, TypeOK, OneCurrent, AtRest, Untouched,
       OnlyDaemon, procs, lines, budgets
  <2>3. ManifestStands'
    BY <1>0, <1>3 DEF CopyLine, IInv, TypeOK, OneCurrent, ManifestStands,
       OutcomeTrue, AtRest, Untouched, OnlyDaemon, SUCCEEDED, FAILED, Handled,
       procs, lines, budgets
  <2>4. QED
    BY <2>1, <2>2, <2>3 DEF IInv
<1>4. CASE WriteLine(t)
  <2>0. /\ written[t] + 1 \in 0..MaxLines /\ written \in [Tasks -> 0..MaxLines]
        /\ written' = [written EXCEPT ![t] = @ + 1]
    BY <1>0, <1>4 DEF WriteLine, TypeOK
  <2>1. TypeOK'
    <3>1. written' \in [Tasks -> 0..MaxLines]
      BY <2>0
    <3>2. QED
      BY <1>0, <1>4, <3>1 DEF WriteLine, TypeOK, procs, budgets
  <2>2. OneCurrent'
    BY <1>0, <1>4 DEF WriteLine, Holding, Ended, IInv, TypeOK, OneCurrent, AtRest, Untouched,
       OnlyDaemon, procs, lines, budgets
  <2>3. ManifestStands'
    BY <1>0, <1>4 DEF WriteLine, Holding, Ended, IInv, TypeOK, OneCurrent, ManifestStands,
       OutcomeTrue, AtRest, Untouched, OnlyDaemon, SUCCEEDED, FAILED, Handled,
       procs, lines, budgets
  <2>4. QED
    BY <2>1, <2>2, <2>3 DEF IInv
<1>5. CASE Spawn(t)
  <2>1. TypeOK'
    BY <1>0, <1>5 DEF Spawn, TypeOK, Handled, Unhandled, procs, lines, budgets
  <2>2. OneCurrent'
    BY <1>0, <1>5 DEF Spawn, IInv, TypeOK, OneCurrent, AtRest, Untouched,
       OnlyDaemon, procs, lines, budgets
  <2>3. ManifestStands'
    BY <1>0, <1>5 DEF Spawn, IInv, TypeOK, OneCurrent, ManifestStands,
       OutcomeTrue, AtRest, Untouched, OnlyDaemon, SUCCEEDED, FAILED, Handled,
       procs, lines, budgets
  <2>4. QED
    BY <2>1, <2>2, <2>3 DEF IInv
<1>6. CASE Detach(t)
  <2>1. TypeOK'
    BY <1>0, <1>6 DEF Detach, TypeOK, Handled, Unhandled, procs, lines, budgets
  <2>2. OneCurrent'
    BY <1>0, <1>6 DEF Detach, IInv, TypeOK, OneCurrent, AtRest, Untouched,
       OnlyDaemon, procs, lines, budgets
  <2>3. ManifestStands'
    BY <1>0, <1>6 DEF Detach, IInv, TypeOK, OneCurrent, ManifestStands,
       OutcomeTrue, AtRest, Untouched, OnlyDaemon, SUCCEEDED, FAILED, Handled,
       procs, lines, budgets
  <2>4. QED
    BY <2>1, <2>2, <2>3 DEF IInv
<1>7. CASE ChildExits(t)
  <2>1. TypeOK'
    BY <1>0, <1>7 DEF ChildExits, TypeOK, Handled, Unhandled, procs, lines, budgets
  <2>2. OneCurrent'
    BY <1>0, <1>7 DEF ChildExits, IInv, TypeOK, OneCurrent, AtRest, Untouched,
       OnlyDaemon, procs, lines, budgets
  <2>3. ManifestStands'
    BY <1>0, <1>7 DEF ChildExits, IInv, TypeOK, OneCurrent, ManifestStands,
       OutcomeTrue, AtRest, Untouched, OnlyDaemon, SUCCEEDED, FAILED, Handled,
       procs, lines, budgets
  <2>4. QED
    BY <2>1, <2>2, <2>3 DEF IInv
<1>8. CASE LeaderExits(t, exit)
  <2>1. TypeOK'
    BY <1>0, <1>8 DEF LeaderExits, TypeOK, Handled, Unhandled, procs, lines, budgets
  <2>2. OneCurrent'
    BY <1>0, <1>8 DEF LeaderExits, IInv, TypeOK, OneCurrent, AtRest, Untouched,
       OnlyDaemon, procs, lines, budgets
  <2>3. ManifestStands'
    BY <1>0, <1>8 DEF LeaderExits, IInv, TypeOK, OneCurrent, ManifestStands,
       OutcomeTrue, AtRest, Untouched, OnlyDaemon, SUCCEEDED, FAILED, Handled,
       procs, lines, budgets
  <2>4. QED
    BY <2>1, <2>2, <2>3 DEF IInv
<1>9. CASE Redirect(t)
  <2>1. TypeOK'
    BY <1>0, <1>9 DEF Redirect, TypeOK, Handled, Unhandled, procs, lines, budgets
  <2>2. OneCurrent'
    BY <1>0, <1>9 DEF Redirect, IInv, TypeOK, OneCurrent, AtRest, Untouched,
       OnlyDaemon, procs, lines, budgets
  <2>3. ManifestStands'
    BY <1>0, <1>9 DEF Redirect, IInv, TypeOK, OneCurrent, ManifestStands,
       OutcomeTrue, AtRest, Untouched, OnlyDaemon, SUCCEEDED, FAILED, Handled,
       procs, lines, budgets
  <2>4. QED
    BY <2>1, <2>2, <2>3 DEF IInv
<1>10. QED
  BY <1>1, <1>2, <1>3, <1>4, <1>5, <1>6, <1>7, <1>8, <1>9

\* A step that changes nothing keeps the invariant.
LEMMA StutterIInv == ASSUME IInv, UNCHANGED vars PROVE IInv'
<1>1. TypeOK' /\ OneCurrent'
  BY DEF IInv, vars, TypeOK, OneCurrent, AtRest, Untouched, OnlyDaemon
<1>2. ManifestStands'
  BY DEF IInv, vars, ManifestStands, AtRest, OutcomeTrue, OnlyDaemon
<1>3. QED
  BY <1>1, <1>2 DEF IInv

\* The induction step, one action at a time.
LEMMA StepIInv == IInv /\ [Next]_vars => IInv'
<1> SUFFICES ASSUME IInv, [Next]_vars PROVE IInv'
  OBVIOUS
<1> DEFINE FunctionStep(t, exit) ==
             \/ StartTask \/ StopGroup \/ CopyLine \/ WriteLine(t) \/ Spawn(t) \/ Detach(t)
             \/ Redirect(t) \/ ChildExits(t) \/ LeaderExits(t, exit)
<1> USE ConstantsAssumption
    DEF ConstantsAssumption, IInv, TypeOK, OneCurrent, ManifestStands, AtRest, Untouched,
        OutcomeTrue, OnlyDaemon, Tasks, TaskStatus, SUCCEEDED, FAILED, TIMED_OUT,
        Handled, Unhandled, procs, lines, budgets
<1>1. CASE EnterScope
  BY <1>1 DEF EnterScope
<1>2. CASE ProbeDevices
  BY <1>2 DEF ProbeDevices
<1>3. CASE AdmitTask
  BY <1>3 DEF AdmitTask, MayStart
<1>4. CASE StopBeforeTask
  BY <1>4 DEF StopBeforeTask, MayStart
<1>5. CASE OutOfTime
  BY <1>5 DEF OutOfTime
<1>6. CASE StartFails
  BY <1>6 DEF StartFails
<1>7. CASE SeeSignal
  BY <1>7 DEF SeeSignal
<1>8. CASE SeeDeadline
  BY <1>8 DEF SeeDeadline
<1>9. CASE BeginPoll
  BY <1>9 DEF BeginPoll
<1>10. CASE PollAgain
  BY <1>10 DEF PollAgain
<1>11. CASE SeeExit
  BY <1>11 DEF SeeExit, Verdict
<1>12. CASE JoinCopiers
  BY <1>12 DEF JoinCopiers, Drained, Holding
<1>13. CASE Return
  BY <1>13 DEF Return
<1>14. CASE Crash
  BY <1>14 DEF Crash, Ended
<1>15. CASE JobBudgetEnds
  BY <1>15 DEF JobBudgetEnds
<1>16. CASE TaskBudgetEnds
  BY <1>16 DEF TaskBudgetEnds
<1> HIDE DEF IInv, Tasks
<1>17. CASE AllGone \/ UNCHANGED vars
  <2>1. UNCHANGED vars
    BY <1>17 DEF AllGone
  <2>2. QED
    BY <2>1, StutterIInv
<1>18. CASE RecordTask \/ Terminate
  BY <1>18, RecordIInv, TerminateIInv
<1>19. ASSUME NEW t \in Tasks, NEW exit \in {"zero", "nonzero"}, FunctionStep(t, exit)
       PROVE IInv'
  BY <1>19, ProcessIInv
<1>20. CASE StartTask \/ StopGroup \/ CopyLine
  <2>1. 1 \in Tasks
    BY DEF Tasks
  <2>2. QED
    BY <1>19, <1>20, <2>1
<1>21. QED
  BY <1>1, <1>2, <1>3, <1>4, <1>5, <1>6, <1>7, <1>8, <1>9, <1>10,
     <1>11, <1>12, <1>13, <1>14, <1>15, <1>16, <1>17, <1>18, <1>19, <1>20
     DEF Next, WorkerStep, TaskStep

\* Every behaviour of the worker keeps the inductive invariant.
THEOREM Invariance == Spec => []IInv
<1>1. Init => IInv
  BY InitIInv
<1>2. IInv /\ [Next]_vars => IInv'
  BY StepIInv
<1>3. QED
  BY <1>1, <1>2, PTL DEF Spec

-----------------------------------------------------------------------------
(* What a reader of the code relies on.                                    *)

\* Every variable keeps its type (run_job and its helpers).
THEOREM TypeCorrect == Spec => []TypeOK
<1>1. IInv => TypeOK
  BY DEF IInv
<1>2. QED
  BY <1>1, Invariance, PTL

\* While a task has a process, an earlier one has none but a daemon, for any number
\* of tasks and wherever descendants go (_stop_group kills the task's group and
\* _wait joins the copiers of the pipes before the next task is begun).
THEOREM TasksAlone == Spec => []TasksRunAlone
<1>1. IInv => TasksRunAlone
  <2> SUFFICES ASSUME IInv, NEW t \in Tasks, NEW u \in Tasks, t < u, Live(u)
               PROVE OnlyDaemon(t)
    BY DEF TasksRunAlone
  <2>0. task \in 1..N /\ N \in Nat \ {0} /\ Tasks = 1..N
    BY ConstantsAssumption DEF ConstantsAssumption, IInv, TypeOK, Tasks
  <2>1. ~(u > task)
    BY DEF IInv, OneCurrent, Untouched, Live
  <2>2. t < task
    BY <2>0, <2>1
  <2>3. QED
    BY <2>2 DEF IInv, OneCurrent, AtRest
<1>2. QED
  BY <1>1, Invariance, PTL

\* A worker that ended by itself has left no process of any task but daemons
\* (_stop_group, copier.join).
THEOREM NothingLeft == Spec => []ExitLeavesNoTask
<1>1. IInv => ExitLeavesNoTask
  <2> SUFFICES ASSUME IInv, worker = "exited", NEW t \in Tasks
               PROVE OnlyDaemon(t)
    BY DEF ExitLeavesNoTask
  <2>1. t < task \/ t = task \/ t > task
    BY ConstantsAssumption DEF ConstantsAssumption, IInv, TypeOK, Tasks
  <2>2. QED
    BY <2>1 DEF IInv, OneCurrent, AtRest, Untouched, OnlyDaemon
<1>2. QED
  BY <1>1, Invariance, PTL

\* The manifest never says of a task what its process did not do.
THEOREM ManifestIsTrue == Spec => []ManifestTrue
<1>1. IInv => ManifestTrue
  BY DEF IInv, ManifestStands, OutcomeTrue, ManifestTrue
<1>2. QED
  BY <1>1, Invariance, PTL

\* A listed task has no process and its log is whole.
LEMMA LogsHold == IInv => LogsWhole
<1> SUFFICES ASSUME IInv, NEW t \in DOMAIN manifest.tasks
             PROVE AtRest(t)
  BY DEF LogsWhole, AtRest, OnlyDaemon, Holding
<1>1. /\ task \in 1..N /\ N \in Nat \ {0}
      /\ manifest.tasks \in Seq(TaskStatus)
  BY ConstantsAssumption DEF ConstantsAssumption, IInv, TypeOK, Tasks
<1>2. \/ Len(manifest.tasks) = task - 1
      \/ Len(manifest.tasks) = task /\ AtRest(task)
  BY DEF IInv, ManifestStands
<1>3. t \in 1..Len(manifest.tasks) /\ t \in Nat
  BY <1>1
<1>4. t < task \/ (t = task /\ AtRest(task))
  BY <1>1, <1>2, <1>3
<1>5. QED
  BY <1>1, <1>3, <1>4 DEF IInv, OneCurrent, Tasks

\* A task the manifest lists has its whole output in its log.
THEOREM LogsAreWhole == Spec => []LogsWhole
<1>1. QED
  BY LogsHold, Invariance, PTL

\* A manifest is marked finished exactly with the last task, and a worker that
\* ends without it was told to stop.
THEOREM FinishedIsAll == Spec => []FinishedMeansAll
<1>1. IInv => FinishedMeansAll
  BY DEF IInv, ManifestStands, FinishedMeansAll
<1>2. QED
  BY <1>1, Invariance, PTL

\* Once a signal is remembered no task passes the check before its start.
THEOREM SignalStopsAdmission == Spec => SignalAdmitsNoTask
<1>1. [Next]_vars => [signalled => (worker # "starting" => worker' # "starting")]_vars
  <2> SUFFICES ASSUME Next, signalled, worker # "starting"
               PROVE worker' # "starting"
    OBVIOUS
  <2>1. CASE WorkerStep
    BY <2>1 DEF WorkerStep, EnterScope, ProbeDevices, AdmitTask, MayStart, StopBeforeTask,
       OutOfTime, StartTask, StartFails, SeeSignal, SeeDeadline, BeginPoll, PollAgain,
       SeeExit, StopGroup, JoinCopiers, RecordTask, Return
  <2>2. CASE CopyLine \/ Terminate \/ Crash \/ JobBudgetEnds \/ TaskBudgetEnds
    BY <2>2 DEF CopyLine, Terminate, Crash, JobBudgetEnds, TaskBudgetEnds
  <2>3. ASSUME NEW t \in Tasks, TaskStep(t) PROVE worker' # "starting"
    BY <2>3 DEF TaskStep, WriteLine, Spawn, Detach, Redirect, ChildExits, LeaderExits
  <2>4. CASE AllGone
    BY <2>4 DEF AllGone, vars
  <2>5. QED
    BY <2>1, <2>2, <2>3, <2>4 DEF Next
<1>2. QED
  BY <1>1, PTL DEF Spec, SignalAdmitsNoTask

\* Only RecordTask writes the manifest.
LEMMA OneWriter == ASSUME Next PROVE RecordTask \/ UNCHANGED manifest
<1>1. CASE WorkerStep
  BY <1>1 DEF WorkerStep, EnterScope, ProbeDevices, AdmitTask, StopBeforeTask,
     OutOfTime, StartTask, StartFails, SeeSignal, SeeDeadline, BeginPoll, PollAgain,
     SeeExit, StopGroup, JoinCopiers, Return
<1>2. CASE CopyLine \/ Terminate \/ Crash \/ JobBudgetEnds \/ TaskBudgetEnds
  BY <1>2 DEF CopyLine, Terminate, Crash, JobBudgetEnds, TaskBudgetEnds
<1>3. ASSUME NEW t \in Tasks, TaskStep(t) PROVE UNCHANGED manifest
  BY <1>3 DEF TaskStep, WriteLine, Spawn, Detach, Redirect, ChildExits, LeaderExits
<1>4. CASE AllGone
  BY <1>4 DEF AllGone, vars
<1>5. QED
  BY <1>1, <1>2, <1>3, <1>4 DEF Next

\* What a reader took from the manifest stays true: it is only ever appended to.
THEOREM ManifestOnlyGrows == Spec => ManifestGrows
<1> DEFINE Grows ==
             /\ Len(manifest'.tasks) <= Len(manifest.tasks) + 1
             /\ \A t \in DOMAIN manifest.tasks :
                    /\ t \in DOMAIN manifest'.tasks
                    /\ manifest'.tasks[t] = manifest.tasks[t]
             /\ manifest.finished => manifest' = manifest
<1>1. IInv /\ [Next]_vars => [Grows]_vars
  <2> SUFFICES ASSUME IInv, Next PROVE Grows
    OBVIOUS
  <2>1. manifest.tasks \in Seq(TaskStatus)
    BY DEF IInv, TypeOK
  <2>2. CASE RecordTask
    <3>1. outcome \in TaskStatus /\ ~manifest.finished
      BY <2>2 DEF RecordTask, IInv, ManifestStands, Handled
    <3>2. manifest'.tasks = Append(manifest.tasks, outcome)
      BY <2>2 DEF RecordTask
    <3>3. QED
      BY <2>1, <3>1, <3>2
  <2>3. CASE UNCHANGED manifest
    BY <2>1, <2>3
  <2>4. QED
    BY <2>2, <2>3, OneWriter
<1>2. QED
  BY <1>1, Invariance, PTL DEF Spec, ManifestGrows

-----------------------------------------------------------------------------
(* The local backend, over the worker's own invariant.                     *)

ClientTypes ==
    /\ marker \in BOOLEAN
    /\ call \in [Clients -> {"none", "status", "follow", "cancel"}]
    /\ at \in [Clients -> {"idle", "ps", "manifest", "marker", "lines",
                           "drain", "touch", "check", "kill"}]
    /\ sawAlive \in [Clients -> BOOLEAN]
    /\ reply \in [Clients -> Final \union {"none", "running"}]
    /\ got \in [Clients -> [Tasks -> 0..MaxLines]]

\* The run is over for status: by its manifest, by the marker or by its worker.
Over == manifest.finished \/ marker \/ Ended

\* What a client may conclude from where its call is and what it was told before.
Knows(c) ==
    /\ at[c] = "idle" <=> call[c] = "none"
    /\ at[c] \in {"touch", "check", "kill"} => call[c] = "cancel"
    /\ at[c] = "manifest" /\ ~sawAlive[c] => Ended
    /\ at[c] = "marker" /\ ~sawAlive[c] => Ended /\ ~manifest.finished
    /\ at[c] = "manifest" /\ sawAlive[c] /\ reply[c] \in Final => marker \/ manifest.finished
    /\ at[c] = "marker" /\ sawAlive[c] /\ reply[c] \in Final => marker
    /\ at[c] = "marker" => reply[c] # "succeeded"
    /\ reply[c] \in Final => Over
    /\ reply[c] = "succeeded" => manifest.finished /\ ManifestSucceeded

LocalIInv == IInv /\ ClientTypes /\ \A c \in Clients : Knows(c)

LEMMA InitLocal == LocalInit => LocalIInv
<1> SUFFICES ASSUME LocalInit PROVE LocalIInv
  OBVIOUS
<1>1. IInv
  BY InitIInv DEF LocalInit
<1>2. ClientTypes
  <2>1. 0 \in 0..MaxLines
    BY ConstantsAssumption DEF ConstantsAssumption
  <2>2. QED
    BY <2>1 DEF LocalInit, ClientTypes
<1>3. \A c \in Clients : Knows(c)
  BY DEF LocalInit, Knows, Final
<1>4. QED
  BY <1>1, <1>2, <1>3 DEF LocalIInv

-----------------------------------------------------------------------------
(* What no step takes back.                                                *)

\* An ended worker stays ended and writes no more, and neither a finished manifest
\* nor a marker goes away.
Forward ==
    /\ Ended => Ended' /\ manifest' = manifest
    /\ manifest.finished => manifest' = manifest
    /\ marker => marker'

LEMMA WorkerForward ==
    ASSUME IInv, [Next]_vars, marker => marker'
    PROVE  Forward
<1>1. Ended => Ended'
  BY DEF Ended, Next, WorkerStep, EnterScope, ProbeDevices, AdmitTask, StopBeforeTask, OutOfTime,
     StartTask, StartFails, SeeSignal, SeeDeadline, BeginPoll, PollAgain, SeeExit, StopGroup,
     JoinCopiers, RecordTask, Return, CopyLine, Terminate, Handled, Unhandled, Crash,
     JobBudgetEnds, TaskBudgetEnds, TaskStep, WriteLine, Spawn, Detach, Redirect,
     ChildExits, LeaderExits,
     AllGone, vars
<1>2. RecordTask \/ manifest' = manifest
  BY OneWriter DEF vars
<1>3. RecordTask => ~Ended /\ ~manifest.finished
  BY DEF RecordTask, Ended, IInv, ManifestStands, Handled
<1>4. QED
  BY <1>1, <1>2, <1>3 DEF Forward

Alone(d) ==
    /\ call'[d] = call[d] /\ at'[d] = at[d]
    /\ sawAlive'[d] = sawAlive[d] /\ reply'[d] = reply[d]

\* What a client concluded stands while others move.
LEMMA AloneKnows ==
    ASSUME LocalIInv, Forward, NEW d \in Clients, Alone(d)
    PROVE  Knows(d)'
<1>1. Knows(d)
  BY DEF LocalIInv
<1>2. Over => Over'
  BY DEF Over, Forward
<1>3. manifest.finished /\ ManifestSucceeded => (manifest.finished /\ ManifestSucceeded)'
  BY DEF Forward, ManifestSucceeded
<1>4. /\ manifest.finished => manifest'.finished
      /\ Ended /\ ~manifest.finished => Ended' /\ ~manifest'.finished
      /\ Ended => Ended'
      /\ marker => marker'
  BY DEF Forward
<1>5. QED
  BY <1>1, <1>2, <1>3, <1>4 DEF Knows, Alone

\* A step of the worker, which no client sees.
LEMMA WorkerStepKeeps ==
    ASSUME LocalIInv, [Next]_vars, UNCHANGED clientVars
    PROVE  LocalIInv'
<1>1. IInv'
  BY StepIInv DEF LocalIInv
<1>2. Forward
  BY WorkerForward DEF LocalIInv, clientVars
<1>3. ClientTypes' /\ \A d \in Clients : Alone(d)
  BY DEF LocalIInv, ClientTypes, Alone, clientVars
<1>4. QED
  BY <1>1, <1>2, <1>3, AloneKnows DEF LocalIInv

\* A step of one client.
LEMMA ClientKeeps ==
    ASSUME LocalIInv, NEW c \in Clients, UNCHANGED vars, marker => marker', ClientTypes',
           Knows(c)', \A d \in Clients \ {c} : Alone(d)
    PROVE  LocalIInv'
<1>1. IInv'
  BY StepIInv DEF LocalIInv
<1>2. Forward
  BY WorkerForward DEF LocalIInv
<1>3. QED
  BY <1>1, <1>2, AloneKnows DEF LocalIInv

-----------------------------------------------------------------------------
(* The clients.                                                            *)

\* The worker's variables, for a client that only reads them.
LEMMA Reads ==
    ASSUME UNCHANGED vars
    PROVE  /\ Ended' = Ended /\ manifest' = manifest
           /\ ManifestSucceeded' = ManifestSucceeded
           /\ marker' = marker => Over' = Over /\ StatusNow' = StatusNow
  BY DEF vars, Ended, ManifestSucceeded, Over, StatusNow, ManifestState, Alive

LEMMA BeginKeeps ==
    ASSUME LocalIInv, NEW c \in Clients, UNCHANGED vars,
           CallStatus(c) \/ CallFollow(c) \/ CallCancel(c)
    PROVE  LocalIInv'
<1>1. /\ ClientTypes' /\ marker' = marker /\ reply' = reply
      /\ at'[c] \in {"ps", "lines"} /\ call'[c] # "none"
      /\ \A d \in Clients \ {c} : Alone(d)
  BY DEF CallStatus, CallFollow, CallCancel, Begin, LocalIInv, ClientTypes, Alone
<1>2. Knows(c)'
  BY <1>1, Reads DEF LocalIInv, Knows
<1>3. QED
  BY <1>1, <1>2, ClientKeeps

LEMMA ObserveKeeps ==
    ASSUME LocalIInv, NEW c \in Clients, UNCHANGED vars, ObserveLiveness(c)
    PROVE  LocalIInv'
<1>1. Alive \in BOOLEAN
  BY DEF Alive
<1>2. /\ ClientTypes' /\ marker' = marker /\ reply' = reply /\ call' = call
      /\ at'[c] = "manifest" /\ sawAlive'[c] = Alive
      /\ \A d \in Clients \ {c} : Alone(d)
  BY <1>1 DEF ObserveLiveness, LocalIInv, ClientTypes, Alone
<1>3. at[c] = "ps" /\ Knows(c)
  BY DEF ObserveLiveness, LocalIInv
<1>4. Knows(c)'
  BY <1>2, <1>3, Reads DEF Knows, Alive, Over
<1>5. QED
  BY <1>2, <1>4, ClientKeeps

\* What a call answers when status has read what it needed.
LEMMA AfterStatusKeeps ==
    ASSUME LocalIInv, NEW c \in Clients, UNCHANGED vars, NEW state \in Final \union {"running"},
           at[c] \in {"manifest", "marker"}, AfterStatus(c, state),
           state \in Final => Over,
           state = "succeeded" => manifest.finished /\ ManifestSucceeded
    PROVE  /\ LocalIInv' /\ marker' = marker /\ reply'[c] = state
           /\ \A d \in Clients \ {c} : Alone(d)
           /\ call[c] = "follow" => call'[c] = "follow"
<1>1. call[c] \in {"status", "follow", "cancel"}
  BY DEF LocalIInv, ClientTypes, Knows
<1>2. /\ at'[c] \in {"idle", "drain", "lines", "touch"}
      /\ at'[c] = "touch" => call[c] = "cancel"
      /\ call'[c] = IF at'[c] = "idle" THEN "none" ELSE call[c]
      /\ call[c] = "follow" => at'[c] # "idle"
  BY <1>1 DEF AfterStatus, LocalIInv, ClientTypes
<1>3. /\ marker' = marker /\ reply'[c] = state
      /\ \A d \in Clients \ {c} : Alone(d)
  BY DEF AfterStatus, LocalIInv, ClientTypes, Alone
<1>4. ClientTypes'
  <2>1. at' \in [Clients -> {"idle", "ps", "manifest", "marker", "lines", "drain", "touch",
                             "check", "kill"}]
    BY <1>2 DEF AfterStatus, LocalIInv, ClientTypes
  <2>2. call' \in [Clients -> {"none", "status", "follow", "cancel"}]
    BY <1>2 DEF AfterStatus, LocalIInv, ClientTypes
  <2>3. reply' \in [Clients -> Final \union {"none", "running"}]
    BY DEF AfterStatus, LocalIInv, ClientTypes
  <2>4. QED
    BY <2>1, <2>2, <2>3 DEF AfterStatus, LocalIInv, ClientTypes
<1>5. Knows(c)'
  BY <1>1, <1>2, <1>3, Reads DEF Knows
<1>6. QED
  BY <1>2, <1>3, <1>4, <1>5, ClientKeeps

LEMMA ReadManifestKeeps ==
    ASSUME LocalIInv, NEW c \in Clients, UNCHANGED vars, ReadManifest(c)
    PROVE  /\ LocalIInv' /\ marker' = marker
           /\ \A d \in Clients \ {c} : Alone(d)
           /\ call[c] = "follow" => call'[c] = "follow"
           /\ \/ manifest.finished /\ reply'[c] = StatusNow'
              \/ at'[c] = "marker" /\ reply' = reply
<1>1. CASE manifest.finished
  <2>1. AfterStatus(c, ManifestState) /\ at[c] = "manifest"
    BY <1>1 DEF ReadManifest, ManifestAnswers
  <2>2. /\ ManifestState \in Final
        /\ ManifestState = "succeeded" => ManifestSucceeded
        /\ StatusNow = ManifestState
    BY <1>1 DEF ManifestState, Final, StatusNow
  <2>3. QED
    BY <1>1, <2>1, <2>2, AfterStatusKeeps, Reads DEF Over
<1>2. CASE ~manifest.finished
  <2>1. /\ at[c] = "manifest" /\ at' = [at EXCEPT ![c] = "marker"]
        /\ UNCHANGED <<marker, call, sawAlive, reply, got>>
    BY <1>2 DEF ReadManifest, ManifestAnswers
  <2>2. ClientTypes' /\ at'[c] = "marker" /\ \A d \in Clients \ {c} : Alone(d)
    BY <2>1 DEF LocalIInv, ClientTypes, Alone
  <2>3. Knows(c)'
    BY <1>2, <2>1, <2>2, Reads DEF LocalIInv, Knows
  <2>4. QED
    BY <2>1, <2>2, <2>3, ClientKeeps
<1>3. QED
  BY <1>1, <1>2

LEMMA ReadMarkerKeeps ==
    ASSUME LocalIInv, NEW c \in Clients, UNCHANGED vars, ReadMarker(c)
    PROVE  /\ LocalIInv' /\ marker' = marker
           /\ \A d \in Clients \ {c} : Alone(d)
           /\ call[c] = "follow" => call'[c] = "follow"
           /\ reply'[c] \in {"cancelled", "running", "failed"}
           /\ reply'[c] = "failed" => StatusNow' = "failed"
           /\ reply'[c] = "running" => reply[c] \notin Final
           /\ reply[c] # "succeeded"
<1> DEFINE state == IF marker THEN "cancelled" ELSE IF Liveness(c) THEN "running" ELSE "failed"
<1>1. AfterStatus(c, state) /\ at[c] = "marker"
  BY DEF ReadMarker
<1>2. Knows(c) /\ sawAlive[c] \in BOOLEAN
  BY DEF LocalIInv, ClientTypes
<1>3. /\ state \in Final \union {"running"} /\ state # "succeeded"
      /\ state \in {"cancelled", "running", "failed"}
  BY DEF Final
<1>4. state \in Final => Over
  BY <1>1, <1>2 DEF Knows, Over, Liveness, Final
<1>5. state = "failed" => StatusNow = "failed"
  BY <1>1, <1>2 DEF Knows, Liveness, StatusNow, Alive
<1>6. state = "running" => reply[c] \notin Final
  BY <1>1, <1>2 DEF Knows, Liveness
<1>7. reply[c] # "succeeded"
  BY <1>1, <1>2 DEF Knows
<1> HIDE DEF state
<1>8. QED
  BY <1>1, <1>3, <1>4, <1>5, <1>6, <1>7, AfterStatusKeeps, Reads

LEMMA FollowKeeps ==
    ASSUME LocalIInv, NEW c \in Clients, UNCHANGED vars, ReadLines(c) \/ Drain(c)
    PROVE  LocalIInv'
<1>1. copied \in [Tasks -> 0..MaxLines]
  BY DEF LocalIInv, IInv, TypeOK
<1>2. /\ marker' = marker /\ reply' = reply /\ sawAlive' = sawAlive
      /\ got' = [got EXCEPT ![c] = copied]
      /\ \/ at' = [at EXCEPT ![c] = "ps"] /\ call' = call
         \/ at' = [at EXCEPT ![c] = "idle"] /\ call' = [call EXCEPT ![c] = "none"]
  BY DEF ReadLines, Drain, Rest
<1>3. ClientTypes'
  BY <1>1, <1>2 DEF LocalIInv, ClientTypes
<1>4. /\ \A d \in Clients \ {c} : Alone(d)
      /\ \/ at'[c] = "ps" /\ call' = call
         \/ at'[c] = "idle" /\ call'[c] = "none"
  BY <1>2 DEF LocalIInv, ClientTypes, Alone
<1>5. at[c] \in {"lines", "drain"}
  BY DEF ReadLines, Drain
<1>6. Knows(c)'
  BY <1>2, <1>4, <1>5, Reads DEF LocalIInv, Knows
<1>7. QED
  BY <1>2, <1>3, <1>4, <1>6, ClientKeeps

LEMMA CancelKeeps ==
    ASSUME LocalIInv, NEW c \in Clients, UNCHANGED vars, TouchMarker(c) \/ CheckWorker(c)
    PROVE  LocalIInv'
<1>1. call[c] = "cancel" /\ at[c] \in {"touch", "check"}
  BY DEF TouchMarker, CheckWorker, LocalIInv, Knows
<1>2. CASE TouchMarker(c)
  <2>1. /\ marker' = TRUE /\ reply' = reply /\ sawAlive' = sawAlive
        /\ ClientTypes' /\ \A d \in Clients \ {c} : Alone(d)
        /\ at'[c] = "check" /\ call' = call
    BY <1>2 DEF TouchMarker, LocalIInv, ClientTypes, Alone
  <2>2. Knows(c)'
    BY <1>1, <2>1, Reads DEF LocalIInv, Knows, Over
  <2>3. QED
    BY <2>1, <2>2, ClientKeeps
<1>3. CASE CheckWorker(c)
  <2>1. /\ marker' = marker /\ reply' = reply /\ sawAlive' = sawAlive
        /\ ClientTypes' /\ \A d \in Clients \ {c} : Alone(d)
        /\ \/ at'[c] = "kill" /\ call' = call
           \/ at'[c] = "idle" /\ call'[c] = "none"
    BY <1>3 DEF CheckWorker, Returns, LocalIInv, ClientTypes, Alone
  <2>2. Knows(c)'
    BY <1>1, <2>1, Reads DEF LocalIInv, Knows
  <2>3. QED
    BY <2>1, <2>2, ClientKeeps
<1>4. QED
  BY <1>2, <1>3

LEMMA DiesKeeps ==
    ASSUME LocalIInv, NEW c \in Clients, UNCHANGED vars, ClientDies(c)
    PROVE  LocalIInv'
<1>1. /\ marker' = marker /\ reply'[c] = "none" /\ at'[c] = "idle" /\ call'[c] = "none"
      /\ ClientTypes' /\ \A d \in Clients \ {c} : Alone(d)
  BY DEF ClientDies, Returns, LocalIInv, ClientTypes, Alone
<1>2. Knows(c)'
  BY <1>1 DEF Knows, Final
<1>3. QED
  BY <1>1, <1>2, ClientKeeps

\* The signal of a cancel is a step of the worker and of one client.
LEMMA SignalKeeps ==
    ASSUME LocalIInv, NEW c \in Cancellers, SignalWorker(c)
    PROVE  LocalIInv' /\ [Next]_vars /\ reply' = reply /\ marker' = marker
<1>1. c \in Clients /\ at[c] = "kill" /\ Knows(c)
  BY DEF Clients, SignalWorker, LocalIInv
<1>2. [Next]_vars
  BY DEF SignalWorker, Next
<1>3. IInv'
  BY <1>2, StepIInv DEF LocalIInv
<1>4. /\ UNCHANGED <<marker, sawAlive, reply, got>> /\ ClientTypes'
      /\ at'[c] = "idle" /\ call'[c] = "none"
      /\ \A d \in Clients \ {c} : Alone(d)
  BY <1>1 DEF SignalWorker, Returns, LocalIInv, ClientTypes, Alone
<1>5. Forward
  BY <1>2, <1>4, WorkerForward DEF LocalIInv
<1>6. Over => Over'
  BY <1>5 DEF Over, Forward
<1>7. manifest.finished /\ ManifestSucceeded => (manifest.finished /\ ManifestSucceeded)'
  BY <1>5 DEF Forward, ManifestSucceeded
<1>8. Knows(c)'
  BY <1>1, <1>4, <1>6, <1>7 DEF Knows
<1>9. QED
  BY <1>2, <1>3, <1>4, <1>5, <1>8, AloneKnows DEF LocalIInv

-----------------------------------------------------------------------------
(* The invariant.                                                          *)

\* What a step of the run is: the worker's, one client's or the signal of a cancel.
LEMMA StepKinds ==
    ASSUME [LocalNext]_localVars
    PROVE  \/ [Next]_vars /\ UNCHANGED clientVars
           \/ \E c \in Clients : ClientMove(c) /\ UNCHANGED vars
           \/ \E c \in Cancellers : SignalWorker(c)
  BY DEF LocalNext, localVars, WorkerMove, Next

LEMMA StepLocal == LocalIInv /\ [LocalNext]_localVars => LocalIInv'
<1> SUFFICES ASSUME LocalIInv, [LocalNext]_localVars PROVE LocalIInv'
  OBVIOUS
<1>1. ASSUME NEW c \in Clients, ClientMove(c), UNCHANGED vars PROVE LocalIInv'
  BY <1>1, BeginKeeps, ObserveKeeps, ReadManifestKeeps, ReadMarkerKeeps, FollowKeeps,
     CancelKeeps, DiesKeeps DEF ClientMove, ClientStep
<1>2. QED
  BY <1>1, StepKinds, WorkerStepKeeps, SignalKeeps

\* The invariant behind the theorems below: what a client concluded from its earlier
\* reads still holds while it makes the next one (LocalBackend.status).
THEOREM LocalInvariance == LocalSpec => []LocalIInv
<1>1. QED
  BY InitLocal, StepLocal, PTL DEF LocalSpec

\* Every variable of the run and of its clients keeps its type.
THEOREM LocalTypeCorrect == LocalSpec => []LocalTypeOK
<1>1. LocalIInv => LocalTypeOK
  BY DEF LocalIInv, IInv, ClientTypes, LocalTypeOK
<1>2. QED
  BY <1>1, LocalInvariance, PTL

\* A client is told something, and its call returns, only at its own steps.
LEMMA OnlyOwnSteps ==
    ASSUME LocalIInv, [LocalNext]_localVars, NEW c \in Clients
    PROVE  \/ reply'[c] = reply[c] /\ at'[c] = at[c] /\ call'[c] = call[c]
           \/ ClientMove(c) /\ UNCHANGED vars
           \/ SignalWorker(c)
<1>1. ASSUME NEW d \in Clients, d # c, ClientMove(d), UNCHANGED vars PROVE Alone(c)
  <2>1. CASE CallStatus(d) \/ CallFollow(d) \/ CallCancel(d)
    BY <1>1, <2>1 DEF CallStatus, CallFollow, CallCancel, Begin, LocalIInv, ClientTypes, Alone
  <2>2. CASE ReadManifest(d) \/ ReadMarker(d)
    BY <1>1, <2>2, ReadManifestKeeps, ReadMarkerKeeps
  <2>3. CASE ObserveLiveness(d) \/ ReadLines(d) \/ Drain(d)
    BY <1>1, <2>3 DEF ObserveLiveness, ReadLines, Drain, LocalIInv, ClientTypes, Alone
  <2>4. CASE TouchMarker(d) \/ CheckWorker(d) \/ ClientDies(d)
    BY <1>1, <2>4 DEF TouchMarker, CheckWorker, ClientDies, Returns, LocalIInv, ClientTypes, Alone
  <2>5. QED
    BY <1>1, <2>1, <2>2, <2>3, <2>4 DEF ClientMove, ClientStep
<1>2. ASSUME NEW d \in Cancellers, d # c, SignalWorker(d) PROVE Alone(c)
  BY <1>2 DEF SignalWorker, Returns, LocalIInv, ClientTypes, Alone, Clients
<1>3. UNCHANGED clientVars => Alone(c)
  BY DEF clientVars, Alone
<1>4. QED
  BY <1>1, <1>2, <1>3, StepKinds DEF Alone

-----------------------------------------------------------------------------
(* What a caller relies on.                                                *)

\* A success or a failure is true as the call returns, although it read the process
\* table, the manifest and the marker one after the other (LocalBackend.status).
THEOREM AnswersAreTrue == LocalSpec => ReplyTrue
<1>1. LocalIInv /\ [LocalNext]_localVars =>
        [\A c \in Clients :
             (/\ at[c] \in {"manifest", "marker"}
              /\ at'[c] \notin {"manifest", "marker"}
              /\ reply'[c] \in {"succeeded", "failed"})
             => reply'[c] = StatusNow']_localVars
  <2> SUFFICES ASSUME LocalIInv, [LocalNext]_localVars, NEW c \in Clients,
                      at[c] \in {"manifest", "marker"}, at'[c] \notin {"manifest", "marker"},
                      reply'[c] \in {"succeeded", "failed"}
               PROVE  reply'[c] = StatusNow'
    OBVIOUS
  <2>1. \/ ClientMove(c) /\ UNCHANGED vars
        \/ SignalWorker(c)
    BY OnlyOwnSteps
  <2>2. ~(CallStatus(c) \/ CallFollow(c) \/ CallCancel(c))
    BY DEF CallStatus, CallFollow, CallCancel, Begin, LocalIInv, Knows
  <2>3. ~(\/ ObserveLiveness(c) \/ ReadLines(c) \/ Drain(c) \/ TouchMarker(c) \/ CheckWorker(c)
          \/ SignalWorker(c))
    BY DEF ObserveLiveness, ReadLines, Drain, TouchMarker, CheckWorker, SignalWorker
  <2>4. ~ClientDies(c)
    BY DEF ClientDies, LocalIInv, ClientTypes
  <2>5. CASE ReadManifest(c) /\ UNCHANGED vars
    BY <2>5, ReadManifestKeeps
  <2>6. CASE ReadMarker(c) /\ UNCHANGED vars
    BY <2>6, ReadMarkerKeeps
  <2>7. QED
    BY <2>1, <2>2, <2>3, <2>4, <2>5, <2>6 DEF ClientMove, ClientStep
<1>2. QED
  BY <1>1, LocalInvariance, PTL DEF LocalSpec, ReplyTrue

\* Who was told that a run ended is never told that it runs, and a success is told
\* for ever (LocalBackend.status and cancel).
THEOREM EndsAreFinal == LocalSpec => NoWayBack
<1>1. LocalIInv /\ [LocalNext]_localVars =>
        [\A c \in Clients :
             /\ reply[c] \in Final => reply'[c] # "running"
             /\ reply[c] = "succeeded" => reply'[c] \in {"succeeded", "none"}]_localVars
  <2> SUFFICES ASSUME LocalIInv, [LocalNext]_localVars, NEW c \in Clients
               PROVE  /\ reply[c] \in Final => reply'[c] # "running"
                      /\ reply[c] = "succeeded" => reply'[c] \in {"succeeded", "none"}
    OBVIOUS
  <2>1. CASE reply'[c] \in {reply[c], "none"}
    BY <2>1 DEF Final
  <2>2. CASE ReadManifest(c) /\ UNCHANGED vars
    <3>1. CASE manifest.finished /\ reply'[c] = StatusNow'
      <4>1. StatusNow' = ManifestState /\ (ManifestState = "succeeded" <=> ManifestSucceeded)
        BY <2>2, <3>1, ReadManifestKeeps, Reads DEF StatusNow, ManifestState
      <4>2. reply[c] = "succeeded" => ManifestSucceeded
        BY DEF LocalIInv, Knows
      <4>3. QED
        BY <3>1, <4>1, <4>2 DEF ManifestState
    <3>2. CASE reply' = reply
      BY <2>1, <3>2
    <3>3. QED
      BY <2>2, <3>1, <3>2, ReadManifestKeeps
  <2>3. CASE ReadMarker(c) /\ UNCHANGED vars
    BY <2>3, ReadMarkerKeeps
  <2>4. CASE SignalWorker(c) \/ (ClientMove(c) /\ ~ReadManifest(c) /\ ~ReadMarker(c))
    <3>1. reply' = reply \/ reply' = [reply EXCEPT ![c] = "none"]
      BY <2>4 DEF SignalWorker, ClientMove, ClientStep, CallStatus, CallFollow, CallCancel, Begin,
         ObserveLiveness, ReadLines, Drain, TouchMarker, CheckWorker, ClientDies
    <3>2. QED
      BY <2>1, <3>1 DEF LocalIInv, ClientTypes
  <2>5. QED
    BY <2>1, <2>2, <2>3, <2>4, OnlyOwnSteps
<1>2. QED
  BY <1>1, LocalInvariance, PTL DEF LocalSpec, NoWayBack

\* A followed log that stopped at the end of its run has every line of it
\* (LocalBackend.logs drains the file after a final status).
THEOREM FollowedLogsAreWhole == LocalSpec => FollowedWhole
<1>1. LocalIInv /\ [LocalNext]_localVars =>
        [\A c \in Followers :
             call[c] = "follow" /\ call'[c] = "none" =>
               /\ reply'[c] = "succeeded" => got'[c] = written'
               /\ reply'[c] \in {"succeeded", "failed"} => got'[c] = copied']_localVars
  <2> SUFFICES ASSUME LocalIInv, [LocalNext]_localVars, NEW c \in Followers,
                      call[c] = "follow", call'[c] = "none",
                      reply'[c] \in {"succeeded", "failed"}
               PROVE  /\ reply'[c] = "succeeded" => got'[c] = written'
                      /\ got'[c] = copied'
    OBVIOUS
  <2>1. c \in Clients /\ Knows(c)
    BY DEF Clients, LocalIInv
  <2>2. ~(\/ SignalWorker(c) \/ TouchMarker(c) \/ CheckWorker(c))
    BY <2>1 DEF Knows, SignalWorker, TouchMarker, CheckWorker
  <2>3. ~(\/ CallStatus(c) \/ CallFollow(c) \/ CallCancel(c))
    BY DEF CallStatus, CallFollow, CallCancel, Begin
  <2>4. ~(ObserveLiveness(c) \/ ReadLines(c) \/ ClientDies(c))
    BY <2>1 DEF ObserveLiveness, ReadLines, ClientDies, LocalIInv, ClientTypes
  <2>5. UNCHANGED vars => ~ReadManifest(c) /\ ~ReadMarker(c)
    BY <2>1, ReadManifestKeeps, ReadMarkerKeeps
  <2>6. Drain(c) /\ UNCHANGED vars
    BY <2>1, <2>2, <2>3, <2>4, <2>5, OnlyOwnSteps DEF ClientMove, ClientStep
  <2>7. got'[c] = copied' /\ reply' = reply /\ written' = written /\ copied' = copied
    BY <2>1, <2>6 DEF Drain, Rest, LocalIInv, ClientTypes, vars, lines
  <2>8. ASSUME manifest.finished PROVE copied = written
    <3>1. Len(manifest.tasks) = N /\ manifest.tasks \in Seq(TaskStatus)
      BY <2>8 DEF LocalIInv, IInv, TypeOK, ManifestStands
    <3>2. LogsWhole
      BY LogsHold DEF LocalIInv
    <3>3. \A t \in Tasks : copied[t] = written[t]
      BY <3>1, <3>2 DEF LogsWhole, Tasks
    <3>4. QED
      BY <3>3 DEF LocalIInv, IInv, TypeOK
  <2>9. QED
    BY <2>1, <2>7, <2>8 DEF Knows
<1>2. QED
  BY <1>1, LocalInvariance, PTL DEF LocalSpec, FollowedWhole

\* What status would answer moves as RunVerdict allows when a finished manifest
\* outranks a cancellation: the local backend implements it.
THEOREM ImplementsVerdict == LocalSpec => KeepsVerdict
<1>1. LocalInit => Promise!VerdictInit
  BY DEF LocalInit, Init, Promise!VerdictInit, StatusNow, Alive, Ended
<1>2. LocalIInv /\ [LocalNext]_localVars => [Promise!VerdictNext]_StatusNow
  <2> SUFFICES ASSUME LocalIInv, [LocalNext]_localVars
               PROVE  [Promise!VerdictNext]_StatusNow
    OBVIOUS
  <2>1. Forward
    <3>1. ASSUME NEW c \in Clients, ClientMove(c) PROVE marker => marker'
      BY <3>1 DEF ClientMove, ClientStep, CallStatus, CallFollow, CallCancel, Begin,
         ObserveLiveness, ReadManifest, ReadMarker, AfterStatus, ReadLines, Drain, TouchMarker,
         CheckWorker, ClientDies
    <3>2. [Next]_vars /\ (marker => marker')
      BY <3>1, StepKinds, SignalKeeps DEF clientVars
    <3>3. QED
      BY <3>2, WorkerForward DEF LocalIInv
  <2>2. CASE manifest.finished
    BY <2>1, <2>2 DEF Forward, StatusNow, ManifestState, ManifestSucceeded
  <2>3. CASE ~manifest.finished /\ marker
    <3>1. StatusNow = "cancelled" /\ StatusNow' \in {"cancelled", "succeeded", "failed"}
      BY <2>1, <2>3 DEF Forward, StatusNow, ManifestState
    <3>2. QED
      BY <3>1 DEF Promise!VerdictNext, Promise!FinishesAfterAll
  <2>4. CASE ~manifest.finished /\ ~marker /\ Alive
    <3>1. StatusNow = "running" /\ StatusNow' \in {"running", "cancelled", "succeeded", "failed"}
      BY <2>4 DEF StatusNow, ManifestState
    <3>2. QED
      BY <3>1 DEF Promise!VerdictNext, Promise!Settles, Promise!Final
  <2>5. CASE ~manifest.finished /\ ~marker /\ ~Alive
    <3>1. StatusNow = "failed" /\ StatusNow' \in {"cancelled", "failed"}
      BY <2>1, <2>5 DEF Forward, StatusNow, Alive
    <3>2. QED
      BY <3>1 DEF Promise!VerdictNext, Promise!CancelledAfterAll
  <2>6. QED
    BY <2>2, <2>3, <2>4, <2>5
<1>3. QED
  BY <1>1, <1>2, LocalInvariance, PTL DEF LocalSpec, KeepsVerdict, Promise!VerdictSpec
=============================================================================
