------------------------------ MODULE ModalRun ------------------------------
(***************************************************************************)
(* One run of the Modal backend (substrax/compute/modal_backend.py): the   *)
(* detached function call that runs the worker and commits its outputs,    *)
(* and the processes that call status, cancel and logs(follow=True).       *)
(*                                                                         *)
(* Modal itself (the call, the volume, the log service) is external. What  *)
(* status reads, it reads one after the other, and each reading may fail.  *)
(***************************************************************************)
EXTENDS Naturals

CONSTANTS
    MaxLines,    \* BOUND: how many lines the worker logs
    Pollers,     \* processes that call status
    Followers,   \* processes that call logs(follow=True)
    Cancellers   \* processes that call cancel

ASSUME ModalAssumption == MaxLines \in Nat

VARIABLES
    container,  \* where run_worker is
    result,     \* the call's result, once it has one
    work,       \* the manifest in the container
    volume,     \* the manifest on the outputs volume
    marker,     \* the run's file under "cancelled"
    wrote,      \* lines the worker logged
    call,       \* per client: the call it is making
    at,         \* per client: the next thing the call does
    reply,      \* per client: the last state a call of it found
    streamer,   \* per client: the `modal app logs --follow` process
    queued,     \* per client: lines the streamer's pump has queued
    got,        \* per client: lines the followed log yielded
    draining    \* per client: drain_until is set

runVars == <<container, result, work, volume, wrote>>
streamVars == <<streamer, queued, got, draining>>
vars == <<runVars, marker, call, at, reply, streamVars>>

Clients == Pollers \union Followers \union Cancellers
Final == {"succeeded", "failed", "cancelled"}
Verdicts == {"succeeded", "failed"}

TypeOK ==
    /\ container \in {"working", "committed", "ended"}
    /\ result \in {"none", "returned", "error", "raised"}
    /\ work \in Verdicts \union {"unfinished"}
    /\ volume \in Verdicts \union {"unfinished"}
    /\ marker \in BOOLEAN
    /\ wrote \in 0..MaxLines
    /\ call \in [Clients -> {"none", "status", "follow", "cancel"}]
    /\ at \in [Clients -> {"idle", "marker", "result", "manifest", "misread", "get", "stuck",
                           "touch", "stop"}]
    /\ reply \in [Clients -> Final \union {"none", "running", "raised", "died"}]
    /\ streamer \in [Clients -> {"off", "on", "closed"}]
    /\ queued \in [Clients -> 0..MaxLines]
    /\ got \in [Clients -> 0..MaxLines]
    /\ draining \in [Clients -> BOOLEAN]

\* submit spawned the call and returned the handle.
Init ==
    /\ container = "working"
    /\ result = "none"
    /\ work = "unfinished"
    /\ volume = "unfinished"
    /\ marker = FALSE
    /\ wrote = 0
    /\ call = [c \in Clients |-> "none"]
    /\ at = [c \in Clients |-> "idle"]
    /\ reply = [c \in Clients |-> "none"]
    /\ streamer = [c \in Clients |-> "off"]
    /\ queued = [c \in Clients |-> 0]
    /\ got = [c \in Clients |-> 0]
    /\ draining = [c \in Clients |-> FALSE]

-----------------------------------------------------------------------------
(* run_worker, in its container.                                           *)

LogLine ==
    /\ container = "working"
    /\ wrote < MaxLines
    /\ wrote' = wrote + 1
    /\ UNCHANGED <<container, result, work, volume, marker, call, at, reply, streamVars>>

\* run_job returns: its manifest is finished (module Worker).
FinishJob(verdict) ==
    /\ container = "working"
    /\ work = "unfinished"
    /\ work' = verdict
    /\ UNCHANGED <<container, result, volume, wrote, marker, call, at, reply, streamVars>>

\* A mutant of Commit: the function leaves the commit to the container's end.
CommitNothing ==
    /\ container = "working"
    /\ work # "unfinished"
    /\ container' = "committed"
    /\ UNCHANGED <<result, work, volume, wrote, marker, call, at, reply, streamVars>>

Commit ==
    /\ container = "working"
    /\ work # "unfinished"
    /\ volume' = work
    /\ container' = "committed"
    /\ UNCHANGED <<result, work, wrote, marker, call, at, reply, streamVars>>

\* A mutant of Return: the result is out while the commit still goes on.
ReturnFirst ==
    /\ container = "working"
    /\ work # "unfinished"
    /\ result' = "returned"
    /\ UNCHANGED <<container, work, volume, wrote, marker, call, at, reply, streamVars>>

Return ==
    /\ container = "committed"
    /\ container' = "ended"
    /\ result' = "returned"
    /\ UNCHANGED <<work, volume, wrote, marker, call, at, reply, streamVars>>

\* The function raises, in the job, in its manifest or in the commit: the exception
\* is the call's result.
Raise ==
    /\ container # "ended"
    /\ container' = "ended"
    /\ result' = "raised"
    /\ UNCHANGED <<work, volume, wrote, marker, call, at, reply, streamVars>>

\* Modal's own time limit or a lost container: the call has an error of Modal's for
\* its result and nothing more is committed.
Fail ==
    /\ container # "ended"
    /\ container' = "ended"
    /\ result' = "error"
    /\ UNCHANGED <<work, volume, wrote, marker, call, at, reply, streamVars>>

-----------------------------------------------------------------------------
(* status, as its own call and inside cancel and logs.                     *)

IsRunning == result = "none"

\* What status would answer if it read everything at once and nothing failed. It
\* raises the function's own exception again.
StatusNow ==
    IF marker THEN "cancelled"
    ELSE IF IsRunning THEN "running"
    ELSE IF result = "raised" THEN "unanswered"
    ELSE IF volume = "succeeded" THEN "succeeded" ELSE "failed"

Goes(c, next) == at' = [at EXCEPT ![c] = next]
Returns(c) == Goes(c, "idle") /\ call' = [call EXCEPT ![c] = "none"]

CallStatus(c) ==
    /\ c \in Pollers
    /\ call[c] = "none"
    /\ call' = [call EXCEPT ![c] = "status"]
    /\ Goes(c, "marker")
    /\ UNCHANGED <<runVars, marker, reply, streamVars>>

CallCancel(c) ==
    /\ c \in Cancellers
    /\ call[c] = "none"
    /\ call' = [call EXCEPT ![c] = "cancel"]
    /\ Goes(c, "marker")
    /\ UNCHANGED <<runVars, marker, reply, streamVars>>

\* A mutant of EndsFollow: the follower waits for a success.
EndsOnSuccess(state) == state = "succeeded"

\* is_final, as _follow asks it.
EndsFollow(state) == state \in Final

Answer(c, state) ==
    /\ reply' = [reply EXCEPT ![c] = state]
    /\ CASE call[c] = "status" -> Returns(c) /\ UNCHANGED draining
         [] call[c] = "follow" ->
              /\ draining' = [draining EXCEPT ![c] = EndsFollow(state)]
              /\ Goes(c, "get")
              /\ UNCHANGED call
         [] call[c] = "cancel" ->
              /\ IF state \in Final THEN Returns(c) ELSE Goes(c, "touch") /\ UNCHANGED call
              /\ UNCHANGED draining
    /\ UNCHANGED <<runVars, marker, streamer, queued, got>>

\* status raises and the call with it. Inside a follow the exception leaves the
\* `with Popen`, which waits for a streamer that nobody has terminated.
Raises(c) ==
    /\ reply' = [reply EXCEPT ![c] = "raised"]
    /\ \/ call[c] = "follow" /\ Goes(c, "stuck") /\ UNCHANGED call
       \/ call[c] # "follow" /\ Returns(c)
    /\ UNCHANGED <<runVars, marker, streamVars>>

Reads(c) == UNCHANGED <<runVars, marker, call, reply, streamVars>>

ReadMarker(c) ==
    /\ at[c] = "marker"
    /\ \/ marker /\ Answer(c, "cancelled")
       \/ ~marker /\ Goes(c, "result") /\ Reads(c)

\* _is_running: no result yet is a run that runs. Every error of Modal's is taken
\* for a run that ended: the call's own result, and one met in asking as well, which
\* misreads a run that goes on. The function's own exception, and an error that is
\* not one of Modal's, are raised.
ReadResult(c) ==
    /\ at[c] = "result"
    /\ \/ IsRunning /\ Answer(c, "running")
       \/ ~IsRunning /\ Goes(c, "manifest") /\ Reads(c)
       \/ IsRunning /\ Goes(c, "misread") /\ Reads(c)
       \/ Raises(c)

\* Only a finished manifest on the volume says that the run succeeded.
ManifestState == IF volume = "succeeded" THEN "succeeded" ELSE "failed"

\* The volume may not be reached, or hold a manifest that is not all there.
ReadManifest(c) ==
    /\ at[c] \in {"manifest", "misread"}
    /\ Answer(c, ManifestState) \/ Raises(c)

-----------------------------------------------------------------------------
(* cancel, after a status that was not final.                              *)

\* A mutant of TouchMarker: the marker only follows the stop.
TouchNothing(c) ==
    /\ at[c] = "touch"
    /\ Goes(c, "stop")
    /\ UNCHANGED <<runVars, marker, call, reply, streamVars>>

TouchMarker(c) ==
    /\ at[c] = "touch"
    /\ marker' = TRUE
    /\ Goes(c, "stop")
    /\ UNCHANGED <<runVars, call, reply, streamVars>>

\* FunctionCall.cancel(terminate_containers=True); an ended call keeps its result.
StopCall(c) ==
    /\ at[c] = "stop"
    /\ result' = IF IsRunning THEN "error" ELSE result
    /\ container' = "ended"
    /\ Returns(c)
    /\ UNCHANGED <<work, volume, wrote, marker, reply, streamVars>>

-----------------------------------------------------------------------------
(* logs(follow=True).                                                      *)

\* The streamer is started, with a thread that queues its lines. BOUND: a client
\* follows the logs once.
CallFollow(c) ==
    /\ c \in Followers
    /\ call[c] = "none"
    /\ streamer[c] = "off"
    /\ call' = [call EXCEPT ![c] = "follow"]
    /\ Goes(c, "get")
    /\ streamer' = [streamer EXCEPT ![c] = "on"]
    /\ UNCHANGED <<runVars, marker, reply, queued, got, draining>>

\* _pump: a line of the log service comes in, however late.
Pump(c) ==
    /\ streamer[c] = "on"
    /\ queued[c] < wrote
    /\ queued' = [queued EXCEPT ![c] = @ + 1]
    /\ UNCHANGED <<runVars, marker, call, at, reply, streamer, got, draining>>

\* The streamer exits by itself; None follows its last line.
StreamerExits(c) ==
    /\ streamer[c] = "on"
    /\ streamer' = [streamer EXCEPT ![c] = "closed"]
    /\ UNCHANGED <<runVars, marker, call, at, reply, queued, got, draining>>

YieldLine(c) ==
    /\ at[c] = "get"
    /\ got[c] < queued[c]
    /\ got' = [got EXCEPT ![c] = @ + 1]
    /\ UNCHANGED <<runVars, marker, call, at, reply, streamer, queued, draining>>

\* Nothing came for a while: the run's state is asked, until it is final.
FindEmpty(c) ==
    /\ at[c] = "get"
    /\ got[c] = queued[c]
    /\ streamer[c] = "on"
    /\ ~draining[c]
    /\ Goes(c, "marker")
    /\ UNCHANGED <<runVars, marker, call, reply, streamVars>>

StopFollowing(c) ==
    /\ Returns(c)
    /\ streamer' = [streamer EXCEPT ![c] = "closed"]
    /\ UNCHANGED <<runVars, marker, reply, queued, got, draining>>

\* None comes out of the queue.
FindClosed(c) ==
    /\ at[c] = "get"
    /\ got[c] = queued[c]
    /\ streamer[c] = "closed"
    /\ StopFollowing(c)

\* The exception leaves the follow once its streamer has exited by itself.
LeaveStuck(c) ==
    /\ at[c] = "stuck"
    /\ streamer[c] = "closed"
    /\ StopFollowing(c)

\* The seconds of draining pass.
DrainEnds(c) ==
    /\ at[c] = "get"
    /\ draining[c]
    /\ StopFollowing(c)

-----------------------------------------------------------------------------

\* The calling process is interrupted or dies inside a call.
ClientDies(c) ==
    /\ call[c] # "none"
    /\ Returns(c)
    /\ reply' = [reply EXCEPT ![c] = "died"]
    /\ streamer' = [streamer EXCEPT ![c] = "closed"]
    /\ UNCHANGED <<runVars, marker, queued, got, draining>>

RunStep ==
    \/ LogLine \/ Commit \/ Return \/ Raise \/ Fail
    \/ \E verdict \in Verdicts : FinishJob(verdict)

ClientStep(c) ==
    \/ ReadMarker(c) \/ ReadResult(c) \/ ReadManifest(c) \/ TouchMarker(c) \/ StopCall(c)
    \/ YieldLine(c) \/ FindEmpty(c) \/ FindClosed(c) \/ LeaveStuck(c)

\* A run that ended, with nobody in a call.
AllQuiet ==
    /\ container = "ended"
    /\ \A c \in Clients : call[c] = "none"
    /\ UNCHANGED vars

Next ==
    \/ RunStep \/ AllQuiet
    \/ \E c \in Clients :
         \/ CallStatus(c) \/ CallCancel(c) \/ CallFollow(c)
         \/ ClientStep(c) \/ DrainEnds(c) \/ ClientDies(c)
         \/ Pump(c) \/ StreamerExits(c)

Spec == Init /\ [][Next]_vars

\* A client inside a call goes on with it, time passes, and the function does not
\* outlive the time limit submit gave it.
FairSpec ==
    /\ Spec
    /\ WF_vars(Fail)
    /\ \A c \in Clients : WF_vars(ClientStep(c)) /\ WF_vars(DrainEnds(c))

-----------------------------------------------------------------------------
(* Properties.                                                             *)

\* A call says succeeded only of a run whose every task succeeded, and failed only of
\* one that had ended without a success on its volume: what was read before the
\* call's result is not used after it, and a run whose outputs were committed is
\* never taken for one that failed (run_worker commits before it returns). All that
\* excuses a wrong failure is an error of Modal's in asking whether the run goes on.
ReplyTrue ==
    [][\A c \in Clients :
         at[c] \in {"manifest", "misread"} /\ at'[c] # at[c] =>
             /\ reply'[c] = "succeeded" => work = "succeeded"
             /\ reply'[c] = "failed" /\ at[c] = "manifest" =>
                    ~IsRunning /\ (result # "returned" \/ work = "failed")]_vars

\* status, "running while its call has no result, then from its manifest": a call
\* that finds the run failed finds a run that has ended (violated: _is_running takes
\* every error of Modal's for an ended call, one met in asking as well).
FailedHasEnded ==
    [][\A c \in Clients :
         at[c] \in {"manifest", "misread"} /\ at'[c] # at[c] /\ reply'[c] = "failed"
             => ~IsRunning]_vars

\* The answers of status move only as RunVerdict allows, where a cancellation
\* outranks the manifest.
Promise == INSTANCE RunVerdict WITH verdict <- StatusNow, CancelWins <- TRUE
KeepsVerdict == Promise!VerdictSpec

\* Following the logs ends, whatever becomes of the run and of its lines. Only a
\* status that raised inside it may keep it, for as long as the streamer lives.
FollowEnds ==
    \A c \in Followers :
        call[c] = "follow" ~> (call[c] = "none" \/ (at[c] = "stuck" /\ streamer[c] = "on"))

\* A run stopped by cancel reads as cancelled from before it stops: at no moment
\* can another process take it for one that failed (cancel notes the run first).
StoppedIsCancelled ==
    [][\A c \in Cancellers :
         at[c] = "stop" /\ at'[c] = "idle" /\ result' # result
             => StatusNow = "cancelled" /\ StatusNow' = "cancelled"]_vars
=============================================================================
