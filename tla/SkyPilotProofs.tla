--------------------------- MODULE SkyPilotProofs ---------------------------
(***************************************************************************)
(* Proofs about module SkyPilotRun, for any number of processes that poll  *)
(* and cancel: a run marked cancelled is down, final answers are final and *)
(* successes true, and a cancel that reports no failure leaves no work.    *)
(***************************************************************************)
EXTENDS SkyPilotRun, TLAPS

Cleanup == {"request", "readReceipt", "cancelRequest", "job", "down", "finish"}

\* What SkyPilot, the outputs and the files tell of one another.
Settled ==
    /\ submitter \in {"staging", "reserving", "launching"} => request = "none"
    /\ submitter = "returned" => request = "done"
    /\ request = "done" => job # "none" /\ cluster # "absent"
    /\ job = "SUCCEEDED" => outputs = "succeeded"
    /\ recovered \in FinishedOutputs => outputs = recovered
    /\ marker => cluster = "gone"

\* What a client may conclude from where it is. A cleanup without a failure so far
\* began with a queue that answered, so there was a cluster to tear down.
Concludes(c) ==
    /\ knowsId[c] => request = "done"
    /\ at[c] = "outputs" /\ ~copies /\ knowsId[c] => cluster # "up"
    /\ at[c] \in Cleanup => call[c] = "cancel"
    /\ at[c] \in Cleanup /\ failed[c] = {} => cluster # "absent"
    /\ at[c] = "finish" /\ failed[c] = {} => cluster = "gone"
    /\ at[c] = "finish" /\ knowsId[c] => cluster # "up" \/ "down" \in failed[c]

IInv == TypeOK /\ Settled /\ \A c \in Clients : Concludes(c)

LEMMA InitIInv == Init => IInv
  BY DEF Init, IInv, TypeOK, Settled, Concludes, Cleanup, Final, FinishedOutputs, JobActive

-----------------------------------------------------------------------------
(* What every step keeps, and what a client's step leaves alone.           *)

CallTypes ==
    /\ call \in [Clients -> {"none", "status", "cancel"}]
    /\ at \in [Clients -> {"idle", "marker", "queue", "outputs", "request", "readReceipt",
                           "cancelRequest", "job", "down", "finish"}]
    /\ reply \in [Clients -> Final \union {"none", "pending", "running", "error"}]
    /\ knowsId \in [Clients -> BOOLEAN]
    /\ failed \in [Clients -> SUBSET Steps]

OtherTypes ==
    /\ copies \in BOOLEAN
    /\ submitter \in {"staging", "reserving", "launching", "recording", "waiting",
                      "returned", "raised", "abandoned"}
    /\ receipt \in {"absent", "reserved", "written"}
    /\ request \in {"none", "running", "done", "failed", "cancelled"}
    /\ cluster \in {"absent", "up", "gone"}
    /\ job \in JobActive \union {"none", "SUCCEEDED", "FAILED", "CANCELLED"}
    /\ outputs \in FinishedOutputs \union {"unfinished"}
    /\ recovered \in FinishedOutputs \union {"none", "unfinished"}
    /\ marker \in BOOLEAN

\* A request that is done stays done, and a cluster never comes back.
Forward ==
    /\ copies' = copies
    /\ request = "done" => request' = "done"
    /\ cluster # "absent" => cluster' # "absent"
    /\ cluster = "gone" => cluster' = "gone"
    /\ request = "done" /\ cluster # "up" => cluster' # "up"

Alone(d) == call'[d] = call[d] /\ at'[d] = at[d] /\ knowsId'[d] = knowsId[d] /\ failed'[d] = failed[d]

LEMMA AloneConcludes ==
    ASSUME IInv, Forward, NEW d \in Clients, Alone(d)
    PROVE  Concludes(d)'
  BY DEF IInv, Concludes, Forward, Alone, Cleanup

\* A step of submit, of SkyPilot or of a fetch: no client notices.
LEMMA OutsideStep ==
    ASSUME IInv, OtherTypes', Settled', Forward, UNCHANGED callVars
    PROVE  IInv'
<1>1. TypeOK'
  BY DEF IInv, TypeOK, OtherTypes, callVars
<1>2. ASSUME NEW d \in Clients PROVE Concludes(d)'
  BY AloneConcludes DEF Alone, callVars
<1>3. QED
  BY <1>1, <1>2 DEF IInv

\* A step of one client.
LEMMA ClientStep ==
    ASSUME IInv, NEW c \in Clients, OtherTypes', CallTypes', Settled', Forward, Concludes(c)',
           \A d \in Clients \ {c} : Alone(d)
    PROVE  IInv'
<1>1. TypeOK'
  BY DEF TypeOK, OtherTypes, CallTypes
<1>2. ASSUME NEW d \in Clients PROVE Concludes(d)'
  BY AloneConcludes
<1>3. QED
  BY <1>1, <1>2 DEF IInv

\* One that changes nothing outside the clients.
LEMMA QuietStep ==
    ASSUME IInv, NEW c \in Clients, UNCHANGED <<copies, launchVars, cloudVars, recovered, marker>>,
           CallTypes', Concludes(c)', \A d \in Clients \ {c} : Alone(d)
    PROVE  IInv'
<1>1. OtherTypes' /\ Settled' /\ Forward
  BY DEF IInv, TypeOK, OtherTypes, Settled, Forward, launchVars, cloudVars
<1>2. QED
  BY <1>1, ClientStep

-----------------------------------------------------------------------------
(* submit, SkyPilot and fetch.                                             *)

LEMMA SubmissionIInv == IInv /\ Submission /\ UNCHANGED copies => IInv'
<1> SUFFICES ASSUME IInv, Submission, UNCHANGED copies PROVE IInv'
  OBVIOUS
<1> USE DEF Submission, WriteIntent, ReserveReceipt, RequestLaunch, RecordRequest,
            SubmitReturns, SubmitDies
<1>1. UNCHANGED <<cloudVars, recovered, marker, callVars>>
  OBVIOUS
<1>2. OtherTypes'
  BY DEF IInv, TypeOK, OtherTypes, cloudVars
<1>3. Settled'
  BY DEF IInv, TypeOK, Settled, cloudVars
<1>4. Forward
  BY DEF IInv, TypeOK, Settled, Forward, cloudVars
<1>5. QED
  BY <1>1, <1>2, <1>3, <1>4, OutsideStep

LEMMA CloudIInv == IInv /\ Cloud /\ UNCHANGED copies => IInv'
<1> SUFFICES ASSUME IInv, Cloud, UNCHANGED copies PROVE IInv'
  OBVIOUS
<1> USE DEF Cloud, Provision, SubmitJob, LaunchFails, StartJob, EndJob, LoseCluster,
            FinishManifest
<1>1. UNCHANGED <<submitter, receipt, recovered, marker, callVars>>
  BY DEF launchVars
<1>2. OtherTypes'
  BY DEF IInv, TypeOK, OtherTypes, launchVars, cloudVars, JobActive
<1>3. Settled'
  BY DEF IInv, TypeOK, Settled, launchVars, cloudVars, JobActive, FinishedOutputs
<1>4. Forward
  BY DEF IInv, TypeOK, Settled, Forward, launchVars, cloudVars
<1>5. QED
  BY <1>1, <1>2, <1>3, <1>4, OutsideStep

LEMMA FetchIInv == IInv /\ Fetch /\ UNCHANGED copies => IInv'
<1> SUFFICES ASSUME IInv, Fetch, UNCHANGED copies PROVE IInv'
  OBVIOUS
<1>1. /\ UNCHANGED <<launchVars, cloudVars, marker, callVars>>
      /\ recovered' \in {outputs, "unfinished", "none"} /\ copies' = copies
  BY DEF Fetch
<1>2. OtherTypes'
  BY <1>1 DEF IInv, TypeOK, OtherTypes, launchVars, cloudVars, FinishedOutputs
<1>3. Settled' /\ Forward
  BY <1>1 DEF IInv, Settled, Forward, launchVars, cloudVars, FinishedOutputs
<1>4. QED
  BY <1>1, <1>2, <1>3, OutsideStep

-----------------------------------------------------------------------------
(* status.                                                                 *)

\* What a client can be told at the point where it is.
Answers(c, state) ==
    \/ at[c] = "marker" /\ marker /\ state = "cancelled"
    \/ at[c] = "queue" /\ Listed /\ state = StateOf(job)
    \/ at[c] \in {"queue", "outputs"} /\ state = "error"
    \/ at[c] = "outputs" /\ copies /\ recovered \in FinishedOutputs /\ state = recovered
    \/ at[c] = "outputs" /\ ~copies /\ state \in {FromBucket, "failed"}

LEMMA AnswersTrue ==
    ASSUME IInv, NEW c \in Clients, NEW state, Answers(c, state)
    PROVE  /\ state \in Final \union {"pending", "running", "error"}
           /\ state \in {"pending", "running"} => cluster # "absent"
           /\ state = "succeeded" => outputs = "succeeded"
           /\ state \in Final /\ knowsId[c] => ~Working
<1>1. CASE at[c] = "marker" /\ marker /\ state = "cancelled"
  BY <1>1 DEF IInv, TypeOK, Settled, Concludes, Working, Final
<1>2. CASE at[c] = "queue" /\ Listed /\ state = StateOf(job)
  BY <1>2 DEF IInv, TypeOK, Settled, Concludes, Listed, StateOf, Working, Final, JobActive
<1>3. CASE state = "error"
  BY <1>3 DEF Final
<1>4. CASE recovered \in FinishedOutputs /\ state = recovered
  BY <1>4 DEF IInv, Settled, Concludes, Working, Final, FinishedOutputs
<1>5. CASE at[c] = "outputs" /\ ~copies /\ state \in {FromBucket, "failed"}
  BY <1>5 DEF IInv, TypeOK, Settled, Concludes, Working, Final, FinishedOutputs, FromBucket
<1>6. QED
  BY <1>1, <1>2, <1>3, <1>4, <1>5 DEF Answers

LEMMA AnswerIInv ==
    ASSUME IInv, NEW c \in Clients, NEW state, Answers(c, state), Answer(c, state),
           UNCHANGED copies
    PROVE  IInv'
<1>1. /\ state \in Final \union {"pending", "running", "error"}
      /\ state \in {"pending", "running"} => cluster # "absent"
  BY AnswersTrue
<1>2. /\ UNCHANGED <<copies, launchVars, cloudVars, recovered, marker>>
      /\ \A d \in Clients \ {c} : Alone(d)
  BY DEF Answer, IInv, TypeOK, Alone, Goes, Returns
<1>3. CallTypes'
  BY <1>1 DEF Answer, IInv, TypeOK, CallTypes, Goes, Returns, Steps
<1>4. Concludes(c)'
  <2>1. CASE call[c] = "cancel" /\ ~LeavesEnded(state)
    <3>1. at'[c] = "request" /\ call' = call /\ knowsId' = knowsId /\ cluster' = cluster
          /\ request' = request
      BY <2>1 DEF Answer, IInv, TypeOK, Goes, launchVars, cloudVars
    <3>2. failed'[c] = {} => cluster # "absent"
      BY <1>1, <2>1 DEF Answer, IInv, TypeOK, LeavesEnded
    <3>3. QED
      BY <2>1, <3>1, <3>2 DEF Concludes, IInv, Cleanup
  <2>2. CASE ~(call[c] = "cancel" /\ ~LeavesEnded(state))
    <3>1. at'[c] = "idle" /\ knowsId' = knowsId /\ request' = request
      BY <2>2 DEF Answer, IInv, TypeOK, Returns, Goes, launchVars
    <3>2. QED
      BY <3>1 DEF Concludes, IInv, Cleanup
  <2>3. QED
    BY <2>1, <2>2
<1>5. QED
  BY <1>2, <1>3, <1>4, QuietStep

LEMMA BeginIInv ==
    ASSUME IInv, NEW c \in Clients, UNCHANGED copies,
           Begin(c, "status") \/ Begin(c, "cancel")
    PROVE  IInv'
<1>1. /\ UNCHANGED <<launchVars, cloudVars, recovered, marker>> /\ CallTypes'
      /\ \A d \in Clients \ {c} : Alone(d)
  BY DEF Begin, IInv, TypeOK, CallTypes, Alone
<1>2. at'[c] = "marker" /\ (knowsId'[c] => submitter = "returned") /\ request' = request
  BY DEF Begin, IInv, TypeOK, launchVars
<1>3. Concludes(c)'
  BY <1>2 DEF IInv, Settled, Concludes, Cleanup
<1>4. QED
  BY <1>1, <1>3, QuietStep

\* The queue did not answer: the next read begins.
LEMMA ReadOn ==
    ASSUME IInv, NEW c \in Clients, NEW next \in {"queue", "outputs"}, Goes(c, next),
           UNCHANGED <<copies, launchVars, cloudVars, recovered, marker, call, reply, knowsId,
                       failed>>,
           next = "outputs" => copies \/ ~Listed
    PROVE  IInv'
<1>1. CallTypes' /\ \A d \in Clients \ {c} : Alone(d)
  BY DEF Goes, IInv, TypeOK, CallTypes, Alone
<1>2. at'[c] = next
  BY DEF Goes, IInv, TypeOK
<1>3. Concludes(c)'
  BY <1>2 DEF IInv, TypeOK, Settled, Concludes, Cleanup, Listed, launchVars, cloudVars
<1>4. QED
  BY <1>1, <1>3, QuietStep

\* What the steps of status answer is what they read.
LEMMA StatusAnswers ==
    ASSUME IInv, NEW c \in Clients,
           \/ ReadMarker(c) \/ QueueAnswers(c) \/ QueueFails(c) \/ QueueUnknown(c)
           \/ QueueOmitsJob(c) \/ ReadOutputs(c)
    PROVE  \/ \E state : Answers(c, state) /\ Answer(c, state)
           \/ \E next \in {"queue", "outputs"} :
                 /\ Goes(c, next)
                 /\ UNCHANGED <<launchVars, cloudVars, recovered, marker, call, reply, knowsId,
                                failed>>
                 /\ next = "outputs" => copies \/ ~Listed
<1>1. CASE ReadMarker(c)
  <2>1. CASE marker
    BY <1>1, <2>1 DEF ReadMarker, Answers
  <2>2. CASE ~marker
    BY <1>1, <2>2 DEF ReadMarker
  <2>3. QED
    BY <2>1, <2>2
<1>2. CASE QueueAnswers(c)
  BY <1>2 DEF QueueAnswers, Answers
<1>3. CASE QueueFails(c)
  <2>1. CASE copies
    BY <1>3, <2>1 DEF QueueFails, RecoversWithoutQueue
  <2>2. CASE ~copies
    BY <1>3, <2>2 DEF QueueFails, RecoversWithoutQueue, Answers
  <2>3. QED
    BY <2>1, <2>2
<1>4. CASE QueueUnknown(c)
  BY <1>4 DEF QueueUnknown, Answers
<1>5. CASE QueueOmitsJob(c)
  BY <1>5 DEF QueueOmitsJob
<1>6. CASE ReadOutputs(c)
  <2>1. CASE copies /\ Answer(c, FromCopy)
    BY <1>6, <2>1 DEF ReadOutputs, FromCopy, Answers
  <2>2. CASE ~copies /\ Answer(c, FromBucket)
    BY <1>6, <2>2 DEF ReadOutputs, Answers
  <2>3. CASE ~copies /\ Answer(c, "failed")
    BY <1>6, <2>3 DEF ReadOutputs, Answers
  <2>4. QED
    BY <1>6, <2>1, <2>2, <2>3 DEF ReadOutputs
<1>7. QED
  BY <1>1, <1>2, <1>3, <1>4, <1>5, <1>6

LEMMA StatusIInv ==
    ASSUME IInv, NEW c \in Clients, UNCHANGED copies,
           \/ ReadMarker(c) \/ QueueAnswers(c) \/ QueueFails(c) \/ QueueUnknown(c)
           \/ QueueOmitsJob(c) \/ ReadOutputs(c)
    PROVE  IInv'
<1>1. CASE \E state : Answers(c, state) /\ Answer(c, state)
  BY <1>1, AnswerIInv
<1>2. CASE \E next \in {"queue", "outputs"} :
              /\ Goes(c, next)
              /\ UNCHANGED <<launchVars, cloudVars, recovered, marker, call, reply, knowsId, failed>>
              /\ next = "outputs" => copies \/ ~Listed
  BY <1>2, ReadOn
<1>3. QED
  BY <1>1, <1>2, StatusAnswers

-----------------------------------------------------------------------------
(* cancel.                                                                 *)

\* A step of the cleanup that goes on: nothing that failed is forgotten.
GoesOn(c, next) ==
    /\ at' = [at EXCEPT ![c] = next]
    /\ \E steps \in SUBSET Steps : failed' = [failed EXCEPT ![c] = @ \union steps]
    /\ Quiet(c)

LEMMA CleanupStep ==
    ASSUME IInv, NEW c \in Clients, NEW next \in Cleanup, at[c] \in Cleanup, GoesOn(c, next),
           UNCHANGED copies, OtherTypes', Settled', Forward,
           next = "finish" =>
               /\ cluster' # "up" \/ "down" \in failed'[c]
               /\ failed'[c] = {} => cluster' = "gone"
    PROVE  IInv'
<1>1. CallTypes' /\ \A d \in Clients \ {c} : Alone(d)
  BY DEF GoesOn, Quiet, IInv, TypeOK, CallTypes, Alone, Cleanup
<1>2. /\ at'[c] = next /\ call' = call /\ knowsId' = knowsId
      /\ failed'[c] = {} => failed[c] = {}
  BY DEF GoesOn, Quiet, IInv, TypeOK
<1>3. Concludes(c)'
  BY <1>2 DEF IInv, Concludes, Forward, Cleanup
<1>4. QED
  BY <1>1, <1>3, ClientStep

LEMMA AfterGoesOn ==
    ASSUME IInv, NEW c \in Clients, NEW step \in Steps, NEW next, NEW ok \in BOOLEAN,
           After(c, step, next, ok), Quiet(c)
    PROVE  /\ GoesOn(c, next)
           /\ ~ok => step \in failed'[c]
           /\ failed'[c] = {} => ok /\ failed[c] = {}
<1>1. failed' = [failed EXCEPT ![c] = @ \union (IF ok THEN {} ELSE {step})]
  BY DEF After, IInv, TypeOK
<1>2. GoesOn(c, next)
  <2>1. (IF ok THEN {} ELSE {step}) \in SUBSET Steps
    OBVIOUS
  <2>2. QED
    BY <1>1, <2>1 DEF After, GoesOn, Goes
<1>3. failed'[c] = failed[c] \union (IF ok THEN {} ELSE {step})
  BY <1>1 DEF IInv, TypeOK
<1>4. QED
  BY <1>2, <1>3

LEMMA FindRequestIInv ==
    ASSUME IInv, NEW c \in Clients, FindRequest(c) \/ ReadReceipt(c), UNCHANGED copies
    PROVE  IInv'
<1>1. UNCHANGED <<launchVars, cloudVars, recovered, marker>>
  BY DEF FindRequest, ReadReceipt, Quiet, launchVars, cloudVars
<1>2. OtherTypes' /\ Settled' /\ Forward
  BY <1>1 DEF IInv, TypeOK, OtherTypes, Settled, Forward, launchVars, cloudVars
<1>3. \E next \in {"readReceipt", "cancelRequest", "job"} : GoesOn(c, next)
  <2>1. CASE UNCHANGED failed
    <3>1. failed' = [failed EXCEPT ![c] = @ \union {}]
      BY <2>1 DEF IInv, TypeOK
    <3>2. \E steps \in SUBSET Steps : failed' = [failed EXCEPT ![c] = @ \union steps]
      BY <3>1
    <3>3. QED
      BY <2>1, <3>2 DEF FindRequest, ReadReceipt, GoesOn, Goes, After
  <2>2. CASE ReadReceipt(c) /\ After(c, "request", "job", FALSE)
    BY <2>2, AfterGoesOn DEF ReadReceipt, Steps
  <2>3. QED
    BY <2>1, <2>2 DEF FindRequest, ReadReceipt
<1>4. at[c] \in Cleanup
  BY DEF FindRequest, ReadReceipt, Cleanup
<1>5. QED
  BY <1>2, <1>3, <1>4, CleanupStep DEF Cleanup

LEMMA CancelRequestIInv ==
    ASSUME IInv, NEW c \in Clients, CancelRequest(c), UNCHANGED copies
    PROVE  IInv'
<1>1. OtherTypes' /\ Settled' /\ Forward
  <2>1. /\ UNCHANGED <<submitter, cluster, job, outputs, recovered, marker, receipt>>
        /\ request' = request \/ (request = "running" /\ request' = "cancelled")
    BY DEF CancelRequest, Quiet
  <2>2. OtherTypes'
    BY <2>1 DEF IInv, TypeOK, OtherTypes, JobActive
  <2>3. Settled'
    BY <2>1 DEF IInv, TypeOK, Settled, JobActive
  <2>4. Forward
    BY <2>1 DEF IInv, TypeOK, Forward
  <2>5. QED
    BY <2>2, <2>3, <2>4
<1>2. GoesOn(c, "job")
  BY AfterGoesOn DEF CancelRequest, Steps
<1>3. at[c] \in Cleanup
  BY DEF CancelRequest, Cleanup
<1>4. QED
  BY <1>1, <1>2, <1>3, CleanupStep DEF Cleanup

LEMMA CancelJobIInv ==
    ASSUME IInv, NEW c \in Clients, CancelJob(c), UNCHANGED copies
    PROVE  IInv'
<1>1. OtherTypes' /\ Settled' /\ Forward
  <2>1. /\ UNCHANGED <<submitter, cluster, request, outputs, recovered, marker, receipt>>
        /\ job' = job \/ (job \in JobActive /\ job' = "CANCELLED")
    BY DEF CancelJob, Quiet
  <2>2. OtherTypes'
    BY <2>1 DEF IInv, TypeOK, OtherTypes, JobActive
  <2>3. Settled'
    BY <2>1 DEF IInv, TypeOK, Settled, JobActive
  <2>4. Forward
    BY <2>1 DEF IInv, TypeOK, Forward
  <2>5. QED
    BY <2>2, <2>3, <2>4
<1>2. GoesOn(c, "down")
  BY AfterGoesOn DEF CancelJob, Steps
<1>3. at[c] \in Cleanup
  BY DEF CancelJob, Cleanup
<1>4. QED
  BY <1>1, <1>2, <1>3, CleanupStep DEF Cleanup

LEMMA TearDownIInv ==
    ASSUME IInv, NEW c \in Clients, TearDown(c), UNCHANGED copies
    PROVE  IInv'
<1>1. OtherTypes' /\ Settled' /\ Forward
  <2>1. /\ UNCHANGED <<submitter, request, job, outputs, recovered, marker, receipt>>
        /\ cluster' = cluster \/ (cluster = "up" /\ cluster' = "gone")
    BY DEF TearDown, Quiet
  <2>2. OtherTypes'
    BY <2>1 DEF IInv, TypeOK, OtherTypes, JobActive
  <2>3. Settled'
    BY <2>1 DEF IInv, TypeOK, Settled, JobActive
  <2>4. Forward
    BY <2>1 DEF IInv, TypeOK, Forward
  <2>5. QED
    BY <2>2, <2>3, <2>4
<1>2. at[c] \in Cleanup
  BY DEF TearDown, Cleanup
<1>3. CASE After(c, "down", "finish", TRUE) /\ cluster' = IF cluster = "up" THEN "gone" ELSE cluster
  <2>1. GoesOn(c, "finish") /\ (failed'[c] = {} => failed[c] = {})
    BY <1>3, AfterGoesOn DEF TearDown, Steps
  <2>2. cluster' # "up" /\ (failed'[c] = {} => cluster' = "gone")
    BY <1>2, <1>3, <2>1 DEF IInv, TypeOK, Concludes
  <2>3. QED
    BY <1>1, <1>2, <2>1, <2>2, CleanupStep DEF Cleanup
<1>4. CASE After(c, "down", "finish", FALSE) /\ UNCHANGED cluster
  <2>1. GoesOn(c, "finish") /\ "down" \in failed'[c]
    BY <1>4, AfterGoesOn DEF TearDown, Steps
  <2>2. QED
    BY <1>1, <1>2, <2>1, CleanupStep DEF Cleanup
<1>5. QED
  BY <1>3, <1>4 DEF TearDown

LEMMA FinishCancelIInv ==
    ASSUME IInv, NEW c \in Clients, FinishCancel(c), UNCHANGED copies
    PROVE  IInv'
<1>1. /\ at[c] = "finish" /\ marker' = (marker \/ failed[c] = {})
      /\ UNCHANGED <<copies, launchVars, cloudVars, recovered, knowsId, failed>>
  BY DEF FinishCancel, Cleaned
<1>2. marker' \in BOOLEAN /\ (marker' => cluster = "gone")
  BY <1>1 DEF IInv, TypeOK, Settled, Concludes
<1>3. OtherTypes' /\ Settled' /\ Forward
  BY <1>1, <1>2 DEF IInv, TypeOK, OtherTypes, Settled, Forward, launchVars, cloudVars
<1>4. CallTypes' /\ at'[c] = "idle" /\ \A d \in Clients \ {c} : Alone(d)
  BY DEF FinishCancel, Returns, Goes, IInv, TypeOK, CallTypes, Alone
<1>5. Concludes(c)'
  BY <1>1, <1>4 DEF IInv, Concludes, Cleanup, launchVars
<1>6. QED
  BY <1>3, <1>4, <1>5, ClientStep

LEMMA ClientDiesIInv ==
    ASSUME IInv, NEW c \in Clients, ClientDies(c), UNCHANGED copies
    PROVE  IInv'
<1>1. /\ CallTypes' /\ at'[c] = "idle" /\ \A d \in Clients \ {c} : Alone(d)
      /\ UNCHANGED <<copies, launchVars, cloudVars, recovered, marker, knowsId>>
  BY DEF ClientDies, Returns, Goes, IInv, TypeOK, CallTypes, Alone
<1>2. Concludes(c)'
  BY <1>1 DEF IInv, Concludes, Cleanup, launchVars
<1>3. QED
  BY <1>1, <1>2, QuietStep

-----------------------------------------------------------------------------
(* The invariant and what follows from it.                                 *)

LEMMA ClientIInv ==
    ASSUME IInv, NEW c \in Clients, Client(c), UNCHANGED copies
    PROVE  IInv'
  BY BeginIInv, StatusIInv, FindRequestIInv, CancelRequestIInv, CancelJobIInv, TearDownIInv,
     FinishCancelIInv, ClientDiesIInv DEF Client, CallStatus, CallCancel

LEMMA StepIInv == IInv /\ [Next]_vars => IInv'
<1> SUFFICES ASSUME IInv, [Next]_vars PROVE IInv'
  OBVIOUS
<1>1. ASSUME UNCHANGED vars PROVE IInv'
  <2>1. OtherTypes' /\ Settled' /\ Forward /\ UNCHANGED callVars
    BY <1>1 DEF vars, launchVars, cloudVars, IInv, TypeOK, OtherTypes, Settled, Forward
  <2>2. QED
    BY <2>1, OutsideStep
<1>2. CASE Next
  BY <1>1, <1>2, SubmissionIInv, CloudIInv, FetchIInv, ClientIInv DEF Next, Step, NothingLeft
<1>3. QED
  BY <1>1, <1>2

\* The invariant behind the theorems below: what every client may conclude from
\* where its call is (SkyPilotBackend.status and cancel).
THEOREM Invariance == Spec => []IInv
<1>1. QED
  BY InitIInv, StepIInv, PTL DEF Spec

\* Every variable of the run and of its clients keeps its type.
THEOREM TypeCorrect == Spec => []TypeOK
<1>1. IInv => TypeOK
  BY DEF IInv
<1>2. QED
  BY <1>1, Invariance, PTL

\* A run of the SkyPilot backend is marked cancelled only when its cluster is gone
\* for good (SkyPilotBackend.cancel).
THEOREM CancelledRunsAreDown == Spec => []CancelledIsDown
<1>1. IInv => CancelledIsDown
  BY DEF IInv, Settled, CancelledIsDown
<1>2. QED
  BY <1>1, Invariance, PTL

\* A client is told something new only by a step of status.
LEMMA OnlyAnswers ==
    ASSUME IInv, Next, NEW c \in Clients, reply'[c] # reply[c], reply'[c] # "none"
    PROVE  \E state : Answers(c, state) /\ Answer(c, state) /\ reply'[c] = state
<1>1. ASSUME NEW d \in Clients, ~(\/ ReadMarker(d) \/ QueueAnswers(d) \/ QueueFails(d)
                                 \/ QueueUnknown(d) \/ QueueOmitsJob(d) \/ ReadOutputs(d)),
             Client(d)
      PROVE  reply'[c] = reply[c] \/ reply'[c] = "none"
  BY <1>1 DEF Client, CallStatus, CallCancel, Begin, FindRequest, ReadReceipt, CancelRequest,
              CancelJob, TearDown, FinishCancel, ClientDies, Quiet, IInv, TypeOK
<1>2. ASSUME Submission \/ Cloud \/ Fetch \/ NothingLeft PROVE reply' = reply
  <2>1. UNCHANGED callVars
    BY <1>2 DEF Submission, WriteIntent, ReserveReceipt, RequestLaunch, RecordRequest,
                SubmitReturns, SubmitDies, Cloud, Provision, SubmitJob, LaunchFails, StartJob,
                EndJob, LoseCluster, FinishManifest, Fetch, NothingLeft, vars
  <2>2. QED
    BY <2>1 DEF callVars
<1>3. PICK d \in Clients : \/ ReadMarker(d) \/ QueueAnswers(d) \/ QueueFails(d)
                          \/ QueueUnknown(d) \/ QueueOmitsJob(d) \/ ReadOutputs(d)
  BY <1>1, <1>2 DEF Next, Step
<1>4. ASSUME NEW state, Answer(d, state)
      PROVE  reply' = [reply EXCEPT ![d] = state]
  BY <1>4 DEF Answer
<1>5. PICK state : Answers(d, state) /\ Answer(d, state)
  BY <1>3, StatusAnswers
<1>6. c = d /\ reply'[c] = state
  BY <1>4, <1>5 DEF IInv, TypeOK
<1>7. QED
  BY <1>5, <1>6

LEMMA AnswerLeaves ==
    ASSUME IInv, NEW c \in Clients, NEW state, Answer(c, state)
    PROVE  Working' = Working /\ UNCHANGED <<outputs, knowsId>>
  BY DEF Answer, Working, launchVars, cloudVars

\* No client is told succeeded of a run whose tasks did not all succeed
\* (SkyPilotBackend.status, state_from_outputs of both transports).
THEOREM SuccessesAreTrue == Spec => SuccessIsTrue
<1>1. IInv /\ [Next]_vars =>
        [\A c \in Clients : NewAnswer(c) /\ reply'[c] = "succeeded" => outputs' = "succeeded"]_vars
  <2> SUFFICES ASSUME IInv, Next, NEW c \in Clients, NewAnswer(c), reply'[c] = "succeeded"
               PROVE  outputs' = "succeeded"
    OBVIOUS
  <2>1. PICK state : Answers(c, state) /\ Answer(c, state) /\ reply'[c] = state
    BY OnlyAnswers DEF NewAnswer
  <2>2. QED
    BY <2>1, AnswersTrue, AnswerLeaves
<1>2. QED
  BY <1>1, Invariance, PTL DEF Spec, SuccessIsTrue

\* With the handle submit returned, no client is told the run ended while its work
\* goes on (SkyPilotBackend.status).
THEOREM FinalAnswersAreFinal == Spec => FinalMeansOver
<1>1. IInv /\ [Next]_vars =>
        [\A c \in Clients :
             NewAnswer(c) /\ knowsId[c] /\ reply'[c] \in Final => ~Working']_vars
  <2> SUFFICES ASSUME IInv, Next, NEW c \in Clients, NewAnswer(c), knowsId[c],
                      reply'[c] \in Final
               PROVE  ~Working'
    OBVIOUS
  <2>1. PICK state : Answers(c, state) /\ Answer(c, state) /\ reply'[c] = state
    BY OnlyAnswers DEF NewAnswer
  <2>2. QED
    BY <2>1, AnswersTrue, AnswerLeaves
<1>2. QED
  BY <1>1, Invariance, PTL DEF Spec, FinalMeansOver

\* A call returns by an answer, at the end of a cleanup or by its process's death.
LEMMA OnlyReturns ==
    ASSUME IInv, Next, NEW c \in Clients,
           \/ call'[c] # call[c] /\ call'[c] = "none"
           \/ at'[c] # at[c] /\ at'[c] = "idle"
    PROVE  \/ \E state : Answers(c, state) /\ Answer(c, state)
           \/ FinishCancel(c) \/ ClientDies(c)
<1>1. ASSUME UNCHANGED <<call, at>> PROVE FALSE
  BY <1>1
<1>2. ASSUME Submission \/ Cloud \/ Fetch \/ NothingLeft PROVE FALSE
  BY <1>1, <1>2 DEF Submission, WriteIntent, ReserveReceipt, RequestLaunch, RecordRequest,
     SubmitReturns, SubmitDies, Cloud, Provision, SubmitJob, LaunchFails, StartJob, EndJob,
     LoseCluster, FinishManifest, Fetch, NothingLeft, vars, callVars
<1>3. PICK d \in Clients : Client(d)
  BY <1>2 DEF Next, Step
<1>4. CASE CallStatus(d) \/ CallCancel(d)
  <2>1. call'[d] # "none" /\ at'[d] # "idle" /\ (d # c => call'[c] = call[c] /\ at'[c] = at[c])
    BY <1>4 DEF CallStatus, CallCancel, Begin, IInv, TypeOK
  <2>2. QED
    BY <2>1
<1>5. CASE FindRequest(d) \/ ReadReceipt(d) \/ CancelRequest(d) \/ CancelJob(d) \/ TearDown(d)
  <2>1. call' = call /\ at'[d] # "idle" /\ (d # c => at'[c] = at[c])
    BY <1>5 DEF FindRequest, ReadReceipt, CancelRequest, CancelJob, TearDown, Quiet, After, Goes,
                IInv, TypeOK
  <2>2. QED
    BY <2>1
<1>6. CASE FinishCancel(d) \/ ClientDies(d)
  <2>1. d # c => call'[c] = call[c] /\ at'[c] = at[c]
    BY <1>6 DEF FinishCancel, ClientDies, Returns, Goes, IInv, TypeOK
  <2>2. QED
    BY <1>6, <2>1
<1>7. CASE \/ ReadMarker(d) \/ QueueAnswers(d) \/ QueueFails(d) \/ QueueUnknown(d)
           \/ QueueOmitsJob(d) \/ ReadOutputs(d)
  <2>1. CASE \E state : Answers(d, state) /\ Answer(d, state)
    <3>1. d # c => call'[c] = call[c] /\ at'[c] = at[c]
      BY <2>1 DEF Answer, Returns, Goes, IInv, TypeOK
    <3>2. QED
      BY <2>1, <3>1
  <2>2. CASE \E next \in {"queue", "outputs"} : Goes(d, next) /\ UNCHANGED call
    <3>1. call' = call /\ at'[d] # "idle" /\ (d # c => at'[c] = at[c])
      BY <2>2 DEF Goes, IInv, TypeOK
    <3>2. QED
      BY <3>1
  <2>3. QED
    BY <1>7, <2>1, <2>2, StatusAnswers
<1>8. QED
  BY <1>3, <1>4, <1>5, <1>6, <1>7 DEF Client

\* With the handle submit returned, a cancel that returns without an error leaves no
\* work of the run (SkyPilotBackend.cancel).
THEOREM CancelsStop == Spec => CancelStops
<1>1. IInv /\ [Next]_vars =>
        [\A c \in Cancellers :
             (/\ call[c] = "cancel" /\ call'[c] = "none" /\ knowsId[c]
              /\ reply'[c] # "none" /\ failed'[c] = {}) => ~Working']_vars
  <2> SUFFICES ASSUME IInv, Next, NEW c \in Cancellers, call[c] = "cancel",
                      call'[c] = "none", knowsId[c], reply'[c] # "none", failed'[c] = {}
               PROVE  ~Working'
    OBVIOUS
  <2>1. c \in Clients
    BY DEF Clients
  <2>2. CASE \E state : Answers(c, state) /\ Answer(c, state)
    <3>1. PICK state : Answers(c, state) /\ Answer(c, state)
      BY <2>2
    <3>2. state \in Final
      BY <3>1 DEF Answer, LeavesEnded, Goes
    <3>3. QED
      BY <2>1, <3>1, <3>2, AnswersTrue, AnswerLeaves
  <2>3. CASE FinishCancel(c)
    <3>1. request = "done" /\ cluster = "gone" /\ UNCHANGED <<request, cluster>>
      BY <2>1, <2>3 DEF FinishCancel, IInv, Concludes, launchVars, cloudVars
    <3>2. QED
      BY <3>1 DEF Working
  <2>4. CASE ClientDies(c)
    BY <2>1, <2>4 DEF ClientDies, IInv, TypeOK
  <2>5. QED
    BY <2>1, <2>2, <2>3, <2>4, OnlyReturns
<1>2. QED
  BY <1>1, Invariance, PTL DEF Spec, CancelStops

\* Whatever fails in a cleanup, the cluster is down at its end unless that very step
\* failed (SkyPilotBackend.cancel, _attempt).
THEOREM CleanupsReachTheCluster == Spec => DownWhateverFails
<1>1. IInv /\ [Next]_vars =>
        [\A c \in Cancellers :
             at[c] = "finish" /\ at'[c] = "idle" /\ knowsId[c] =>
                 (cluster' # "up" \/ "down" \in failed'[c])]_vars
  <2> SUFFICES ASSUME IInv, Next, NEW c \in Cancellers, at[c] = "finish", at'[c] = "idle",
                      knowsId[c]
               PROVE  cluster' # "up" \/ "down" \in failed'[c]
    OBVIOUS
  <2>1. c \in Clients /\ (cluster # "up" \/ "down" \in failed[c])
    BY DEF Clients, IInv, Concludes
  <2>2. CASE FinishCancel(c)
    BY <2>1, <2>2 DEF FinishCancel, cloudVars
  <2>3. CASE ClientDies(c)
    BY <2>1, <2>3 DEF ClientDies, IInv, TypeOK, Steps
  <2>4. ~\E state : Answers(c, state)
    BY DEF Answers
  <2>5. QED
    BY <2>1, <2>2, <2>3, <2>4, OnlyReturns
<1>2. QED
  BY <1>1, Invariance, PTL DEF Spec, DownWhateverFails

\* A final answer is true, with the handle submit returned, and a success always
\* (SkyPilotBackend.status).
THEOREM FinalAnswersAreTrue == Spec => FinalIsTrue
  BY SuccessesAreTrue, FinalAnswersAreFinal DEF FinalIsTrue

\* A cancel has stopped the run, or reports what failed and has done the rest
\* (SkyPilotBackend.cancel, _attempt).
THEOREM CancelsDoAll == Spec => CancelDoesAll
  BY CancelsStop, CleanupsReachTheCluster DEF CancelDoesAll
=============================================================================
