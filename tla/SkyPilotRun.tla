---------------------------- MODULE SkyPilotRun ----------------------------
(***************************************************************************)
(* One run of the SkyPilot backend (substrax/compute/skypilot_backend.py,  *)
(* sky_sdk.py and the transports): submit records its launch and waits for *)
(* it, and other processes call status, cancel, fetch and teardown.        *)
(*                                                                         *)
(* SkyPilot itself (requests, clusters, their job queue) is external: what *)
(* the bridge asks of it is modelled, and any call to it may fail.         *)
(***************************************************************************)
EXTENDS Naturals

CONSTANTS
    Pollers,       \* processes that call status
    Cancellers     \* processes that call cancel

VARIABLES
    copies,     \* the spec names the copy transport; else the bucket transport
    submitter,  \* where submit is
    receipt,    \* request.json: not there, reserved, or with the request's id
    request,    \* the launch request on SkyPilot's API server
    cluster,    \* the run's cluster
    job,        \* the job on it, as its queue lists it
    outputs,    \* what the run's manifest records
    recovered,  \* recovered.json: what the verified local copy records
    marker,     \* the file "cancelled"
    call,       \* per client: the call it is making
    at,         \* per client: the next thing the call does
    reply,      \* per client: the last state a call of it found
    knowsId,    \* per client: its handle holds the request's id
    failed      \* per client: the steps of cancel that failed

launchVars == <<submitter, receipt, request>>
cloudVars == <<cluster, job, outputs>>
callVars == <<call, at, reply, knowsId, failed>>
vars == <<copies, launchVars, cloudVars, recovered, marker, callVars>>

Clients == Pollers \union Cancellers
Final == {"succeeded", "failed", "cancelled"}
FinishedOutputs == {"succeeded", "failed"}
JobActive == {"PENDING", "RUNNING"}
Steps == {"status", "request", "job", "down"}

TypeOK ==
    /\ copies \in BOOLEAN
    /\ submitter \in {"staging", "reserving", "launching", "recording", "waiting",
                      "returned", "raised", "abandoned"}
    /\ receipt \in {"absent", "reserved", "written"}
    /\ request \in {"none", "running", "done", "failed", "cancelled"}
    /\ cluster \in {"absent", "up", "gone"}
    /\ job \in JobActive \union {"none", "SUCCEEDED", "FAILED", "CANCELLED"}
    /\ outputs \in FinishedOutputs \union {"unfinished"}
    /\ recovered \in FinishedOutputs \union {"none", "unfinished"}
    /\ marker \in BOOLEAN
    /\ call \in [Clients -> {"none", "status", "cancel"}]
    /\ at \in [Clients -> {"idle", "marker", "queue", "outputs", "request", "readReceipt",
                           "cancelRequest", "job", "down", "finish"}]
    /\ reply \in [Clients -> Final \union {"none", "pending", "running", "error"}]
    /\ knowsId \in [Clients -> BOOLEAN]
    /\ failed \in [Clients -> SUBSET Steps]

Init ==
    /\ copies \in BOOLEAN
    /\ submitter = "staging"
    /\ receipt = "absent"
    /\ request = "none"
    /\ cluster = "absent"
    /\ job = "none"
    /\ outputs = "unfinished"
    /\ recovered = "none"
    /\ marker = FALSE
    /\ call = [c \in Clients |-> "none"]
    /\ at = [c \in Clients |-> "idle"]
    /\ reply = [c \in Clients |-> "none"]
    /\ knowsId = [c \in Clients |-> FALSE]
    /\ failed = [c \in Clients |-> {}]

\* Work of the run that nothing has finished: a launch in flight or a live job.
Working ==
    \/ request = "running"
    \/ cluster = "up" /\ job \in JobActive /\ outputs = "unfinished"

-----------------------------------------------------------------------------
(* submit, and the bridge's launch_recorded.                               *)

\* The task file and intent.json are written.
WriteIntent ==
    /\ submitter = "staging"
    /\ submitter' = "reserving"
    /\ UNCHANGED <<receipt, request, cloudVars, recovered, marker, callVars>>

\* receipt.open("x"): the file is there, and empty.
ReserveReceipt ==
    /\ submitter = "reserving"
    /\ receipt' = "reserved"
    /\ submitter' = "launching"
    /\ UNCHANGED <<request, cloudVars, recovered, marker, callVars>>

RequestLaunch ==
    /\ submitter = "launching"
    /\ request' = "running"
    /\ submitter' = "recording"
    /\ UNCHANGED <<receipt, cloudVars, recovered, marker, callVars>>

\* json.dump, flush and fsync, before the result is waited for.
RecordRequest ==
    /\ submitter = "recording"
    /\ receipt' = "written"
    /\ submitter' = "waiting"
    /\ UNCHANGED <<request, cloudVars, recovered, marker, callVars>>

\* api.get: the job is on the cluster, or the request failed or was cancelled.
SubmitReturns ==
    /\ submitter = "waiting"
    /\ request # "running"
    /\ submitter' = IF request = "done" THEN "returned" ELSE "raised"
    /\ UNCHANGED <<receipt, request, cloudVars, recovered, marker, callVars>>

\* submit is interrupted or its process dies; what it asked for goes on. Before
\* intent.json is written nobody can name the run.
SubmitDies ==
    /\ submitter \notin {"returned", "raised", "abandoned"}
    /\ submitter' = IF submitter = "staging" THEN "abandoned" ELSE "raised"
    /\ UNCHANGED <<receipt, request, cloudVars, recovered, marker, callVars>>

-----------------------------------------------------------------------------
(* SkyPilot and the job (external).                                        *)

Provision ==
    /\ request = "running"
    /\ cluster = "absent"
    /\ cluster' = "up"
    /\ UNCHANGED <<launchVars, job, outputs, recovered, marker, callVars>>

SubmitJob ==
    /\ request = "running"
    /\ cluster = "up"
    /\ job' = "PENDING"
    /\ request' = "done"
    /\ UNCHANGED <<submitter, receipt, cluster, outputs, recovered, marker, callVars>>

\* No capacity, a failing setup, a cluster removed under the launch.
LaunchFails ==
    /\ request = "running"
    /\ request' = "failed"
    /\ UNCHANGED <<submitter, receipt, cloudVars, recovered, marker, callVars>>

StartJob ==
    /\ cluster = "up"
    /\ job = "PENDING"
    /\ job' = "RUNNING"
    /\ UNCHANGED <<launchVars, cluster, outputs, recovered, marker, callVars>>

\* The worker records its last task (module Worker).
FinishManifest(verdict) ==
    /\ cluster = "up"
    /\ job = "RUNNING"
    /\ outputs = "unfinished"
    /\ outputs' = verdict
    /\ UNCHANGED <<launchVars, cluster, job, recovered, marker, callVars>>

\* The worker's exit code says whether every task succeeded.
EndJob ==
    /\ cluster = "up"
    /\ job = "RUNNING"
    /\ \/ outputs = "succeeded" /\ job' = "SUCCEEDED"
       \/ job' = "FAILED"
    /\ UNCHANGED <<launchVars, cluster, outputs, recovered, marker, callVars>>

\* autodown once the job ended, the idle timer, a lost machine, a user's
\* teardown(handle): the cluster is gone, with what was on it.
LoseCluster ==
    /\ cluster = "up"
    /\ cluster' = "gone"
    /\ UNCHANGED <<launchVars, job, outputs, recovered, marker, callVars>>

\* A handle exists: the one submit returned, or before that the one in intent.json.
HasHandle == submitter \notin {"staging", "abandoned"}

\* A fetch of the copy transport that verified (module SkyTransfer) writes its receipt,
\* perhaps when the outputs have been finished since or the cluster is gone; one that
\* dies as it writes leaves a receipt nobody can read.
Fetch ==
    /\ copies
    /\ HasHandle
    /\ cluster # "absent"
    /\ recovered' \in {outputs, "unfinished", "none"}
    /\ UNCHANGED <<launchVars, cloudVars, marker, callVars>>

-----------------------------------------------------------------------------
(* status, as its own call and as the first step of cancel.                *)

Begin(c, name) ==
    /\ HasHandle
    /\ call[c] = "none"
    /\ call' = [call EXCEPT ![c] = name]
    /\ at' = [at EXCEPT ![c] = "marker"]
    /\ reply' = [reply EXCEPT ![c] = "none"]
    /\ knowsId' = [knowsId EXCEPT ![c] = (submitter = "returned")]
    /\ failed' = [failed EXCEPT ![c] = {}]
    /\ UNCHANGED <<launchVars, cloudVars, recovered, marker>>

CallStatus(c) == c \in Pollers /\ Begin(c, "status")
CallCancel(c) == c \in Cancellers /\ Begin(c, "cancel")

Goes(c, next) == at' = [at EXCEPT ![c] = next]
Returns(c) == Goes(c, "idle") /\ call' = [call EXCEPT ![c] = "none"]

\* A mutant of LeavesEnded: a run that waits for its cluster counts as ended.
LeavesIdle(state) == state # "running"

\* cancel does nothing to a run that status says has ended.
LeavesEnded(state) == state \in Final

\* status answers, or raises; cancel goes on, keeping the failure.
Answer(c, state) ==
    /\ reply' = [reply EXCEPT ![c] = state]
    /\ IF call[c] = "cancel" /\ ~LeavesEnded(state)
       THEN Goes(c, "request") /\ UNCHANGED call
       ELSE Returns(c)
    /\ failed' = IF call[c] = "cancel" /\ state = "error"
                 THEN [failed EXCEPT ![c] = {"status"}] ELSE failed
    /\ UNCHANGED <<launchVars, cloudVars, recovered, marker, knowsId>>

ReadMarker(c) ==
    /\ at[c] = "marker"
    /\ IF marker
       THEN Answer(c, "cancelled")
       ELSE /\ Goes(c, "queue")
            /\ UNCHANGED <<launchVars, cloudVars, recovered, marker, call, reply,
                           knowsId, failed>>

\* _STATES.
StateOf(status) ==
    CASE status = "PENDING" -> "pending"
      [] status = "RUNNING" -> "running"
      [] status = "SUCCEEDED" -> "succeeded"
      [] status = "FAILED" -> "failed"
      [] status = "CANCELLED" -> "cancelled"

\* The queue of a cluster that is up lists its job.
Listed == cluster = "up" /\ job # "none"

QueueAnswers(c) ==
    /\ at[c] = "queue"
    /\ Listed
    /\ Answer(c, StateOf(job))

\* A mutant of RecoversWithoutQueue: a bucket's manifest answers too.
RecoversAlways == TRUE

\* recovers_without_queue.
RecoversWithoutQueue == copies

\* The queue cannot be read: the copy transport asks its verified copy, the bucket
\* transport keeps the error.
QueueFails(c) ==
    /\ at[c] = "queue"
    /\ IF RecoversWithoutQueue
       THEN /\ Goes(c, "outputs")
            /\ UNCHANGED <<launchVars, cloudVars, recovered, marker, call, reply,
                           knowsId, failed>>
       ELSE Answer(c, "error")

\* The answer holds a status this backend does not know, or there is no bridge.
QueueUnknown(c) ==
    /\ at[c] = "queue"
    /\ Answer(c, "error")

\* The answer does not hold the job.
QueueOmitsJob(c) ==
    /\ at[c] = "queue"
    /\ ~Listed
    /\ Goes(c, "outputs")
    /\ UNCHANGED <<launchVars, cloudVars, recovered, marker, call, reply, knowsId, failed>>

\* CopyTransport.state_from_outputs: raises without a copy of a finished job.
FromCopy == IF recovered \in FinishedOutputs THEN recovered ELSE "error"

\* A mutant of FromBucket: no failed task so far means success.
FromBucketUnfinished == IF outputs = "failed" THEN "failed" ELSE "succeeded"

\* BucketTransport.state_from_outputs: failed unless a finished manifest is there,
\* and failed when the download fails.
FromBucket == IF outputs \in FinishedOutputs THEN outputs ELSE "failed"

ReadOutputs(c) ==
    /\ at[c] = "outputs"
    /\ \/ copies /\ Answer(c, FromCopy)
       \/ ~copies /\ Answer(c, FromBucket)
       \/ ~copies /\ Answer(c, "failed")

-----------------------------------------------------------------------------
(* cancel, after a status that was not final.                              *)

\* A mutant of After: the first failure ends the cleanup.
AfterStopping(c, step, next, ok) ==
    /\ Goes(c, IF ok THEN next ELSE "finish")
    /\ failed' = [failed EXCEPT ![c] = IF ok THEN @ ELSE @ \union {step}]

\* _attempt: the step's failure is kept, and the next one is tried.
After(c, step, next, ok) ==
    /\ Goes(c, next)
    /\ failed' = [failed EXCEPT ![c] = IF ok THEN @ ELSE @ \union {step}]

Quiet(c) == UNCHANGED <<submitter, receipt, outputs, recovered, marker, call, reply, knowsId>>

\* Whether there is a request to cancel: the handle's id, or the receipt's. A
\* reserved receipt holds no JSON yet.
FindRequest(c) ==
    /\ at[c] = "request"
    /\ \/ knowsId[c] /\ Goes(c, "cancelRequest") /\ UNCHANGED failed
       \/ ~knowsId[c] /\ receipt = "absent" /\ Goes(c, "job") /\ UNCHANGED failed
       \/ ~knowsId[c] /\ receipt # "absent" /\ Goes(c, "readReceipt") /\ UNCHANGED failed
    /\ Quiet(c)
    /\ UNCHANGED <<request, cluster, job>>

ReadReceipt(c) ==
    /\ at[c] = "readReceipt"
    /\ IF receipt = "written"
       THEN Goes(c, "cancelRequest") /\ UNCHANGED failed
       ELSE After(c, "request", "job", FALSE)
    /\ Quiet(c)
    /\ UNCHANGED <<request, cluster, job>>

CancelRequest(c) ==
    /\ at[c] = "cancelRequest"
    /\ \/ /\ request' = IF request = "running" THEN "cancelled" ELSE request
          /\ After(c, "request", "job", TRUE)
       \/ UNCHANGED request /\ After(c, "request", "job", FALSE)
    /\ Quiet(c)
    /\ UNCHANGED <<cluster, job>>

\* Only a cluster that is up takes the call.
CancelJob(c) ==
    /\ at[c] = "job"
    /\ \/ /\ cluster = "up"
          /\ job' = IF job \in JobActive THEN "CANCELLED" ELSE job
          /\ After(c, "job", "down", TRUE)
       \/ UNCHANGED job /\ After(c, "job", "down", FALSE)
    /\ Quiet(c)
    /\ UNCHANGED <<request, cluster>>

TearDown(c) ==
    /\ at[c] = "down"
    /\ \/ /\ cluster' = IF cluster = "up" THEN "gone" ELSE cluster
          /\ After(c, "down", "finish", TRUE)
       \/ UNCHANGED cluster /\ After(c, "down", "finish", FALSE)
    /\ Quiet(c)
    /\ UNCHANGED <<request, job>>

\* A mutant of Cleaned: the failures are reported and the marker touched all the
\* same.
CleanedAnyway(c) == TRUE

Cleaned(c) == failed[c] = {}

FinishCancel(c) ==
    /\ at[c] = "finish"
    /\ marker' = (marker \/ Cleaned(c))
    /\ Returns(c)
    /\ UNCHANGED <<launchVars, cloudVars, recovered, reply, knowsId, failed>>

\* The calling process is interrupted or dies inside a call.
ClientDies(c) ==
    /\ call[c] # "none"
    /\ Returns(c)
    /\ reply' = [reply EXCEPT ![c] = "none"]
    /\ failed' = [failed EXCEPT ![c] = Steps]
    /\ UNCHANGED <<launchVars, cloudVars, recovered, marker, knowsId>>

-----------------------------------------------------------------------------

Submission ==
    \/ WriteIntent \/ ReserveReceipt \/ RequestLaunch \/ RecordRequest
    \/ SubmitReturns \/ SubmitDies

Cloud ==
    \/ Provision \/ SubmitJob \/ LaunchFails \/ StartJob \/ EndJob \/ LoseCluster
    \/ \E verdict \in FinishedOutputs : FinishManifest(verdict)

Client(c) ==
    \/ CallStatus(c) \/ CallCancel(c)
    \/ ReadMarker(c) \/ QueueAnswers(c) \/ QueueFails(c) \/ QueueUnknown(c)
    \/ QueueOmitsJob(c) \/ ReadOutputs(c)
    \/ FindRequest(c) \/ ReadReceipt(c) \/ CancelRequest(c) \/ CancelJob(c)
    \/ TearDown(c) \/ FinishCancel(c) \/ ClientDies(c)

\* A run nobody has a handle of.
NothingLeft == submitter = "abandoned" /\ UNCHANGED vars

Step ==
    \/ Submission \/ Cloud \/ Fetch \/ NothingLeft
    \/ \E c \in Clients : Client(c)

Next == Step /\ UNCHANGED copies

Spec == Init /\ [][Next]_vars

-----------------------------------------------------------------------------
(* Properties.                                                             *)

NewAnswer(c) == reply'[c] # reply[c] /\ reply'[c] # "none"

\* With the handle submit returned, a final state is only ever answered for a run
\* whose work is over: never while its job is unfinished on a live cluster, although
\* the marker, the queue and the outputs are read one after the other and each may
\* fail (BucketTransport, "The cluster may still be running the job while its queue
\* cannot be read").
FinalMeansOver ==
    [][\A c \in Clients :
         NewAnswer(c) /\ knowsId[c] /\ reply'[c] \in Final => ~Working']_vars

\* A success is only ever answered when every task of the run succeeded, whether
\* the queue, the bucket or a verified copy says so.
SuccessIsTrue ==
    [][\A c \in Clients :
         NewAnswer(c) /\ reply'[c] = "succeeded" => outputs' = "succeeded"]_vars

\* A run is marked cancelled only when its cluster is gone for good and nothing
\* can bring it back, whichever of the steps of cancel raced with submit, with
\* another cancel or with the job's own end (cancel: a failed step leaves no
\* marker).
CancelledIsDown == marker => cluster = "gone"

\* cancel, "Cancel unfinished work and tear its cluster down": with the handle
\* submit returned, one that returns without an error leaves no work of the run.
CancelStops ==
    [][\A c \in Cancellers :
         (/\ call[c] = "cancel" /\ call'[c] = "none" /\ knowsId[c]
          /\ reply'[c] # "none" /\ failed'[c] = {}) => ~Working']_vars

\* cancel, "Every step is attempted, whatever the one before it did": with the
\* handle submit returned, one that reports failures has still torn the cluster
\* down, unless that very step failed.
DownWhateverFails ==
    [][\A c \in Cancellers :
         at[c] = "finish" /\ at'[c] = "idle" /\ knowsId[c] =>
             (cluster' # "up" \/ "down" \in failed'[c])]_vars

\* What status answers of a run that is over is so, whichever of the marker, the queue,
\* the bucket and a verified copy it was read from (SkyPilotBackend.status).
FinalIsTrue == FinalMeansOver /\ SuccessIsTrue

\* Whatever fails on the way and whoever else submits, cancels or polls: a cancel has
\* stopped the run, or says what it could not do and has done the rest
\* (SkyPilotBackend.cancel).
CancelDoesAll == CancelStops /\ DownWhateverFails
=============================================================================
