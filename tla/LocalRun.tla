------------------------------ MODULE LocalRun ------------------------------
(***************************************************************************)
(* One run of the local backend (substrax/compute/local.py): the worker of *)
(* module Worker, started detached, and the processes that later call      *)
(* status, cancel and logs(follow=True) on its handle. They share nothing  *)
(* but the run's files (manifest.json, the cancelled marker, worker.log)   *)
(* and the process table, and each call reads them one at a time.          *)
(***************************************************************************)
EXTENDS Worker

CONSTANTS
    Pollers,     \* processes that call status
    Followers,   \* processes that call logs(follow=True)
    Cancellers   \* processes that call cancel

ASSUME ClientsAssumption ==
    /\ Pollers \intersect Followers = {}
    /\ (Pollers \union Followers) \intersect Cancellers = {}

VARIABLES
    marker,      \* the file "cancelled" exists in the run's directory
    call,        \* per client: the call it is making
    at,          \* per client: the next thing the call does
    sawAlive,    \* per client: what ps answered to this call
    reply,       \* per client: the last state a call of it found
    got          \* per client: lines of each task the followed log yielded

clientVars == <<marker, call, at, sawAlive, reply, got>>
localVars == <<vars, clientVars>>

Clients == Pollers \union Followers \union Cancellers
Final == {"succeeded", "failed", "cancelled"}

LocalTypeOK ==
    /\ TypeOK
    /\ marker \in BOOLEAN
    /\ call \in [Clients -> {"none", "status", "follow", "cancel"}]
    /\ at \in [Clients -> {"idle", "ps", "manifest", "marker", "lines",
                           "drain", "touch", "check", "kill"}]
    /\ sawAlive \in [Clients -> BOOLEAN]
    /\ reply \in [Clients -> Final \union {"none", "running"}]
    /\ got \in [Clients -> [Tasks -> 0..MaxLines]]

Alive == ~Ended

ManifestSucceeded == \A t \in DOMAIN manifest.tasks : manifest.tasks[t] = SUCCEEDED

ManifestState == IF ManifestSucceeded THEN "succeeded" ELSE "failed"

\* What status would answer if it read everything at once.
StatusNow ==
    IF manifest.finished THEN ManifestState
    ELSE IF marker THEN "cancelled"
    ELSE IF Alive THEN "running" ELSE "failed"

\* submit: the run's directory is staged and the worker spawned, in a process
\* group of its own, before the handle exists.
LocalInit ==
    /\ Init
    /\ marker = FALSE
    /\ call = [c \in Clients |-> "none"]
    /\ at = [c \in Clients |-> "idle"]
    /\ sawAlive = [c \in Clients |-> FALSE]
    /\ reply = [c \in Clients |-> "none"]
    /\ got = [c \in Clients |-> [t \in Tasks |-> 0]]

-----------------------------------------------------------------------------
(* status, as its own call and inside cancel and logs.                     *)

Begin(c, name, first) ==
    /\ call[c] = "none"
    /\ call' = [call EXCEPT ![c] = name]
    /\ at' = [at EXCEPT ![c] = first]
    /\ UNCHANGED <<marker, sawAlive, reply, got>>

CallStatus(c) == c \in Pollers /\ Begin(c, "status", "ps")
CallFollow(c) == c \in Followers /\ Begin(c, "follow", "lines")
CallCancel(c) == c \in Cancellers /\ Begin(c, "cancel", "ps")

\* _is_worker: ps shows the pid with this run's id in its command.
ObserveLiveness(c) ==
    /\ at[c] = "ps"
    /\ sawAlive' = [sawAlive EXCEPT ![c] = Alive]
    /\ at' = [at EXCEPT ![c] = "manifest"]
    /\ UNCHANGED <<marker, call, reply, got>>

\* A mutant of EndsFollow: only a finished manifest ends a followed log.
EndsOnManifest(state) == state \in {"succeeded"}

\* RunState.is_final, as logs asks it.
EndsFollow(state) == state \in Final

\* The call returns to its caller, or goes on with what it does after status:
\* logs drains a run that ended and waits for one that did not; cancel stops a
\* run that did not end.
AfterStatus(c, state) ==
    /\ reply' = [reply EXCEPT ![c] = state]
    /\ at' = [at EXCEPT ![c] =
                CASE call[c] = "status" -> "idle"
                  [] call[c] = "follow" -> IF EndsFollow(state) THEN "drain" ELSE "lines"
                  [] call[c] = "cancel" -> IF state \in Final THEN "idle" ELSE "touch"]
    /\ call' = [call EXCEPT ![c] = IF at'[c] = "idle" THEN "none" ELSE @]
    /\ sawAlive' = [sawAlive EXCEPT ![c] = FALSE]
    /\ UNCHANGED <<marker, got>>

\* A mutant of ManifestAnswers: a noted cancellation outranks the manifest.
ManifestUnlessMarked == manifest.finished /\ ~marker

\* A finished manifest answers the call, whatever the marker says.
ManifestAnswers == manifest.finished

ReadManifest(c) ==
    /\ at[c] = "manifest"
    /\ IF ManifestAnswers
       THEN AfterStatus(c, ManifestState)
       ELSE /\ at' = [at EXCEPT ![c] = "marker"]
            /\ UNCHANGED <<marker, call, sawAlive, reply, got>>

\* A mutant of Liveness: liveness is looked at after the manifest was read.
LivenessAfterManifest(c) == Alive

\* The liveness the answer rests on is the one observed before the manifest.
Liveness(c) == sawAlive[c]

ReadMarker(c) ==
    /\ at[c] = "marker"
    /\ AfterStatus(c, IF marker THEN "cancelled"
                      ELSE IF Liveness(c) THEN "running" ELSE "failed")

-----------------------------------------------------------------------------
(* logs(follow=True).                                                      *)

\* Lines are yielded until the file gives no more, then status is asked.
ReadLines(c) ==
    /\ at[c] = "lines"
    /\ got' = [got EXCEPT ![c] = copied]
    /\ at' = [at EXCEPT ![c] = "ps"]
    /\ UNCHANGED <<marker, call, sawAlive, reply>>

\* A mutant of Rest: the generator returns as soon as the run has ended.
NoRest(c) == got[c]

\* What log.readlines still yields.
Rest(c) == copied

Drain(c) ==
    /\ at[c] = "drain"
    /\ got' = [got EXCEPT ![c] = Rest(c)]
    /\ at' = [at EXCEPT ![c] = "idle"]
    /\ call' = [call EXCEPT ![c] = "none"]
    /\ UNCHANGED <<marker, sawAlive, reply>>

-----------------------------------------------------------------------------
(* cancel, after a status that was not final.                              *)

\* A mutant of TouchMarker: the worker is signalled and nothing is noted.
NoMarker(c) ==
    /\ at[c] = "touch"
    /\ at' = [at EXCEPT ![c] = "check"]
    /\ UNCHANGED <<marker, call, sawAlive, reply, got>>

TouchMarker(c) ==
    /\ at[c] = "touch"
    /\ marker' = TRUE
    /\ at' = [at EXCEPT ![c] = "check"]
    /\ UNCHANGED <<call, sawAlive, reply, got>>

Returns(c) ==
    /\ at' = [at EXCEPT ![c] = "idle"]
    /\ call' = [call EXCEPT ![c] = "none"]

CheckWorker(c) ==
    /\ at[c] = "check"
    /\ IF Alive
       THEN at' = [at EXCEPT ![c] = "kill"] /\ UNCHANGED call
       ELSE Returns(c)
    /\ UNCHANGED <<marker, sawAlive, reply, got>>

\* killpg(SIGTERM). A worker that ended since the check takes no signal (the
\* call may raise ProcessLookupError, which its caller sees).
SignalWorker(c) ==
    /\ at[c] = "kill"
    /\ IF Alive THEN Terminate ELSE UNCHANGED vars
    /\ Returns(c)
    /\ UNCHANGED <<marker, sawAlive, reply, got>>

-----------------------------------------------------------------------------

\* The calling process is interrupted or dies inside a call.
ClientDies(c) ==
    /\ call[c] # "none"
    /\ Returns(c)
    /\ sawAlive' = [sawAlive EXCEPT ![c] = FALSE]
    /\ reply' = [reply EXCEPT ![c] = "none"]
    /\ UNCHANGED <<marker, got>>

ClientStep(c) ==
    \/ ObserveLiveness(c) \/ ReadManifest(c) \/ ReadMarker(c)
    \/ ReadLines(c) \/ Drain(c)
    \/ TouchMarker(c) \/ CheckWorker(c)

ClientMove(c) ==
    \/ CallStatus(c) \/ CallFollow(c) \/ CallCancel(c)
    \/ ClientStep(c) \/ ClientDies(c)

\* The worker and its tasks: everything of module Worker but the signal, which
\* only cancel sends here.
WorkerMove ==
    \/ WorkerStep \/ CopyLine \/ Crash \/ JobBudgetEnds \/ TaskBudgetEnds
    \/ \E t \in Tasks : TaskStep(t)

LocalNext ==
    \/ WorkerMove /\ UNCHANGED clientVars
    \/ \E c \in Clients : ClientMove(c) /\ UNCHANGED vars
    \/ \E c \in Cancellers : SignalWorker(c)

LocalSpec == LocalInit /\ [][LocalNext]_localVars

\* A client that is inside a call goes on with it; nobody has to make a call.
ClientsScheduled ==
    /\ \A c \in Clients : WF_localVars(ClientStep(c) /\ UNCHANGED vars)
    /\ \A c \in Cancellers : WF_localVars(SignalWorker(c))

LocalFairSpec == LocalSpec /\ Scheduled /\ DetachedEnd /\ ClientsScheduled

-----------------------------------------------------------------------------
(* Properties.                                                             *)

\* When a call says succeeded or failed, that is true as it returns, although it
\* read the process table, the manifest and the marker one after the other
\* (status: "The worker's liveness is observed before the manifest is read"). A
\* run that finishes between two of the reads is never reported as failed.
ReplyTrue ==
    [][\A c \in Clients :
         (/\ at[c] \in {"manifest", "marker"}
          /\ at'[c] \notin {"manifest", "marker"}
          /\ reply'[c] \in {"succeeded", "failed"})
         => reply'[c] = StatusNow']_localVars

\* Who was told that the run ended is never told that it runs, and who was told
\* that it succeeded is told so for ever, whatever is cancelled afterwards
\* (cancel: "a run that already ended is left as it is").
NoWayBack ==
    [][\A c \in Clients :
         /\ reply[c] \in Final => reply'[c] # "running"
         /\ reply[c] = "succeeded" => reply'[c] \in {"succeeded", "none"}]_localVars

\* A followed log that stopped because the run succeeded has yielded every line
\* the tasks wrote, and one that stopped because it failed every line that was ever
\* copied: none is lost between the last read that found nothing and the status
\* that said the run was over (logs drains the file after a final status).
FollowedWhole ==
    [][\A c \in Followers :
         call[c] = "follow" /\ call'[c] = "none" =>
           /\ reply'[c] = "succeeded" => got'[c] = written'
           /\ reply'[c] \in {"succeeded", "failed"} => got'[c] = copied']_localVars

\* The answers of status move only as RunVerdict allows, where a finished manifest
\* outranks the cancellation.
Promise == INSTANCE RunVerdict WITH verdict <- StatusNow, CancelWins <- FALSE
KeepsVerdict == Promise!VerdictSpec

\* A worker that was signalled comes to its end, and its run is then reported as
\* cancelled unless it had finished: it never reads as a failure.
CancelSettles ==
    signalled ~> Ended /\ StatusNow \in Final
                       /\ (StatusNow = "cancelled" \/ manifest.finished)

\* A followed log of a run that ended comes to its end, whatever the run ended by:
\* a finished manifest, a cancellation or a worker that died without a word.
FollowEnds ==
    \A c \in Followers : (call[c] = "follow" /\ Ended) ~> call[c] = "none"

\* cancel, "Stop the worker and its tasks": when it returns normally the worker
\* has ended, finished or been signalled (violated: a cancel interrupted after the
\* marker makes every later cancel return at once).
CancelStops ==
    [][\A c \in Cancellers :
         call[c] = "cancel" /\ call'[c] = "none" /\ reply'[c] # "none"
           => signalled' \/ Ended' \/ manifest'.finished]_localVars
=============================================================================
