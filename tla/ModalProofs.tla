---------------------------- MODULE ModalProofs ----------------------------
(***************************************************************************)
(* Proofs about module ModalRun, for any number of processes and lines:    *)
(* its answers are true, it implements RunVerdict, and a run that cancel   *)
(* stops is never taken for one that failed.                               *)
(***************************************************************************)
EXTENDS ModalRun, TLAPS

RunTypes ==
    /\ container \in {"working", "committed", "ended"}
    /\ result \in {"none", "returned", "error", "raised"}
    /\ work \in Verdicts \union {"unfinished"}
    /\ volume \in Verdicts \union {"unfinished"}
    /\ marker \in BOOLEAN
    /\ wrote \in 0..MaxLines

CallTypes ==
    /\ call \in [Clients -> {"none", "status", "follow", "cancel"}]
    /\ at \in [Clients -> {"idle", "marker", "result", "manifest", "misread", "get", "stuck",
                           "touch", "stop"}]
    /\ reply \in [Clients -> Final \union {"none", "running", "raised", "died"}]

StreamTypes ==
    /\ streamer \in [Clients -> {"off", "on", "closed"}]
    /\ queued \in [Clients -> 0..MaxLines]
    /\ got \in [Clients -> 0..MaxLines]
    /\ draining \in [Clients -> BOOLEAN]

\* The result is out when the container has ended, and a returned call has committed
\* the manifest it wrote.
Committed ==
    /\ result = "none" <=> container # "ended"
    /\ container = "committed" => work # "unfinished" /\ volume = work
    /\ result = "returned" => work # "unfinished" /\ volume = work
    /\ volume # "unfinished" => volume = work

\* What a client knows from where its call is.
Knows(c) ==
    /\ at[c] = "idle" <=> call[c] = "none"
    /\ at[c] = "manifest" => ~IsRunning
    /\ at[c] = "stop" => marker

IInv == TypeOK /\ Committed /\ \A c \in Clients : Knows(c)

LEMMA TypeParts == TypeOK <=> RunTypes /\ CallTypes /\ StreamTypes
  BY DEF TypeOK, RunTypes, CallTypes, StreamTypes

LEMMA InitIInv == Init => IInv
<1> SUFFICES ASSUME Init PROVE IInv
  OBVIOUS
<1>1. RunTypes
  <2>1. 0 \in 0..MaxLines
    BY ModalAssumption
  <2>2. QED
    BY <2>1 DEF Init, RunTypes
<1>2. CallTypes
  BY DEF Init, CallTypes
<1>3. StreamTypes
  BY ModalAssumption DEF Init, StreamTypes
<1>4. Committed /\ \A c \in Clients : Knows(c)
  BY DEF Init, Committed, Knows
<1>5. QED
  BY <1>1, <1>2, <1>3, <1>4, TypeParts DEF IInv

-----------------------------------------------------------------------------
(* What every step keeps, and what a client's step leaves alone.           *)

\* A call that has a result keeps it, and a marker stays.
Forward ==
    /\ result # "none" => result' = result
    /\ marker => marker'

Alone(d) == call'[d] = call[d] /\ at'[d] = at[d]

\* A step of the function call or of one client c.
LEMMA Assembled ==
    ASSUME IInv, RunTypes', CallTypes', StreamTypes', Committed', Forward,
           \A d \in Clients : Alone(d) \/ Knows(d)'
    PROVE  IInv'
<1>1. TypeOK'
  BY DEF TypeOK, RunTypes, CallTypes, StreamTypes
<1>2. ASSUME NEW d \in Clients, Alone(d) PROVE Knows(d)'
  BY <1>2 DEF IInv, Knows, Alone, Forward, IsRunning
<1>3. QED
  BY <1>1, <1>2 DEF IInv

LEMMA RunStepIInv == IInv /\ RunStep => IInv'
<1> SUFFICES ASSUME IInv, RunStep PROVE IInv'
  OBVIOUS
<1> USE DEF RunStep, LogLine, Commit, Return, Raise, Fail, FinishJob
<1>1. UNCHANGED <<marker, call, at, reply, streamVars>>
  OBVIOUS
<1>2. RunTypes'
  BY <1>1, ModalAssumption DEF IInv, TypeOK, RunTypes, Verdicts
<1>3. CallTypes' /\ StreamTypes'
  BY <1>1 DEF IInv, TypeOK, CallTypes, StreamTypes, streamVars
<1>4. Committed'
  BY DEF IInv, TypeOK, Committed, Verdicts
<1>5. Forward
  BY <1>1 DEF IInv, Committed, Forward
<1>6. QED
  BY <1>1, <1>2, <1>3, <1>4, <1>5, Assembled DEF Alone

\* A step of a client that reads the run and changes nothing of it.
LEMMA ReadingStep ==
    ASSUME IInv, UNCHANGED <<runVars, marker>>, CallTypes', StreamTypes',
           \A d \in Clients : Alone(d) \/ Knows(d)'
    PROVE  IInv'
<1>1. RunTypes' /\ Committed' /\ Forward
  BY DEF IInv, TypeOK, RunTypes, Committed, Forward, runVars
<1>2. QED
  BY <1>1, Assembled

-----------------------------------------------------------------------------
(* The clients.                                                            *)

LEMMA CallIInv ==
    ASSUME IInv, NEW c \in Clients, CallStatus(c) \/ CallCancel(c) \/ CallFollow(c)
    PROVE  IInv'
<1>1. UNCHANGED <<runVars, marker>> /\ CallTypes' /\ StreamTypes'
  BY DEF CallStatus, CallCancel, CallFollow, Goes, streamVars, IInv, TypeOK, CallTypes,
         StreamTypes
<1>2. call'[c] # "none" /\ at'[c] \in {"marker", "get"} /\ \A d \in Clients \ {c} : Alone(d)
  BY DEF CallStatus, CallCancel, CallFollow, Goes, IInv, TypeOK, Alone
<1>3. QED
  BY <1>1, <1>2, ReadingStep DEF Knows

LEMMA AnswerIInv ==
    ASSUME IInv, NEW c \in Clients, NEW state \in Final \union {"running"},
           at[c] # "idle", Answer(c, state)
    PROVE  IInv'
<1>1. UNCHANGED <<runVars, marker, streamer, queued, got>>
  BY DEF Answer
<1>2. call[c] \in {"status", "follow", "cancel"}
  BY DEF IInv, TypeOK, Knows
<1>3. CASE call[c] = "status"
  <2>1. CallTypes' /\ StreamTypes' /\ at'[c] = "idle" /\ call'[c] = "none"
        /\ \A d \in Clients \ {c} : Alone(d)
    BY <1>1, <1>3 DEF Answer, Returns, Goes, IInv, TypeOK, CallTypes, StreamTypes, Alone
  <2>2. QED
    BY <1>1, <2>1, ReadingStep DEF Knows
<1>4. CASE call[c] = "follow"
  <2>1. EndsFollow(state) \in BOOLEAN
    BY DEF EndsFollow
  <2>2. CallTypes' /\ StreamTypes' /\ at'[c] = "get" /\ call' = call
        /\ \A d \in Clients \ {c} : Alone(d)
    BY <1>1, <1>4, <2>1 DEF Answer, Goes, IInv, TypeOK, CallTypes, StreamTypes, Alone
  <2>3. QED
    BY <1>1, <1>4, <2>2, ReadingStep DEF Knows
<1>5. CASE call[c] = "cancel" /\ state \in Final
  <2>1. CallTypes' /\ StreamTypes' /\ at'[c] = "idle" /\ call'[c] = "none"
        /\ \A d \in Clients \ {c} : Alone(d)
    BY <1>1, <1>5 DEF Answer, Returns, Goes, IInv, TypeOK, CallTypes, StreamTypes, Alone
  <2>2. QED
    BY <1>1, <2>1, ReadingStep DEF Knows
<1>6. CASE call[c] = "cancel" /\ state \notin Final
  <2>1. CallTypes' /\ StreamTypes' /\ at'[c] = "touch" /\ call' = call
        /\ \A d \in Clients \ {c} : Alone(d)
    BY <1>1, <1>6 DEF Answer, Goes, IInv, TypeOK, CallTypes, StreamTypes, Alone
  <2>2. QED
    BY <1>1, <1>6, <2>1, ReadingStep DEF Knows
<1>7. QED
  BY <1>2, <1>3, <1>4, <1>5, <1>6

LEMMA GoesOn ==
    ASSUME IInv, NEW c \in Clients, NEW next \in {"marker", "result", "manifest", "misread"},
           Goes(c, next), at[c] # "idle", UNCHANGED <<runVars, marker, call, reply, streamVars>>,
           next = "manifest" => ~IsRunning
    PROVE  IInv'
<1>1. CallTypes' /\ StreamTypes' /\ at'[c] = next /\ \A d \in Clients \ {c} : Alone(d)
  BY DEF Goes, IInv, TypeOK, CallTypes, StreamTypes, streamVars, Alone
<1>2. Knows(c)'
  BY <1>1 DEF IInv, Knows, IsRunning, runVars
<1>3. QED
  BY <1>1, <1>2, ReadingStep

LEMMA RaisesIInv ==
    ASSUME IInv, NEW c \in Clients, at[c] # "idle", Raises(c) PROVE IInv'
<1>1. call[c] # "none" /\ UNCHANGED <<runVars, marker, streamVars>>
      /\ reply' = [reply EXCEPT ![c] = "raised"]
  BY DEF IInv, Knows, Raises
<1>2. \/ call' = call /\ at' = [at EXCEPT ![c] = "stuck"]
      \/ call' = [call EXCEPT ![c] = "none"] /\ at' = [at EXCEPT ![c] = "idle"]
  BY DEF Raises, Returns, Goes
<1>3. CallTypes' /\ StreamTypes' /\ \A d \in Clients \ {c} : Alone(d)
  BY <1>1, <1>2 DEF IInv, TypeOK, CallTypes, StreamTypes, streamVars, Alone
<1>4. Knows(c)'
  BY <1>1, <1>2 DEF IInv, TypeOK, Knows
<1>5. QED
  BY <1>1, <1>3, <1>4, ReadingStep

LEMMA StatusIInv ==
    ASSUME IInv, NEW c \in Clients, ReadMarker(c) \/ ReadResult(c) \/ ReadManifest(c)
    PROVE  IInv'
<1>1. at[c] # "idle"
  BY DEF ReadMarker, ReadResult, ReadManifest
<1>2. CASE ReadMarker(c)
  BY <1>1, <1>2, AnswerIInv, GoesOn DEF ReadMarker, Reads, Final
<1>3. CASE ReadResult(c)
  BY <1>1, <1>3, AnswerIInv, GoesOn, RaisesIInv DEF ReadResult, Reads
<1>4. CASE ReadManifest(c)
  BY <1>1, <1>4, AnswerIInv, RaisesIInv DEF ReadManifest, ManifestState, Final
<1>5. QED
  BY <1>2, <1>3, <1>4

LEMMA CancelIInv ==
    ASSUME IInv, NEW c \in Clients, TouchMarker(c) \/ StopCall(c)
    PROVE  IInv'
<1>1. CASE TouchMarker(c)
  <2>1. RunTypes' /\ CallTypes' /\ StreamTypes' /\ Committed' /\ Forward
    BY <1>1 DEF TouchMarker, Goes, IInv, TypeOK, RunTypes, CallTypes, StreamTypes, Committed,
                Forward, runVars, streamVars
  <2>2. Knows(c)' /\ \A d \in Clients \ {c} : Alone(d)
    BY <1>1 DEF TouchMarker, Goes, IInv, TypeOK, Knows, Alone
  <2>3. QED
    BY <2>1, <2>2, Assembled
<1>2. CASE StopCall(c)
  <2>1. UNCHANGED <<work, volume, wrote, marker, reply, streamVars>> /\ container' = "ended"
        /\ result' = IF IsRunning THEN "error" ELSE result
    BY <1>2 DEF StopCall
  <2>2. RunTypes' /\ Committed' /\ Forward
    BY <2>1 DEF IInv, TypeOK, RunTypes, Committed, Forward, IsRunning
  <2>3. CallTypes' /\ StreamTypes' /\ at'[c] = "idle" /\ call'[c] = "none"
        /\ \A d \in Clients \ {c} : Alone(d)
    BY <1>2 DEF StopCall, Returns, Goes, IInv, TypeOK, CallTypes, StreamTypes, streamVars, Alone
  <2>4. QED
    BY <2>2, <2>3, Assembled DEF Knows
<1>3. QED
  BY <1>1, <1>2

\* The streamer, and the follower at its queue.
LEMMA StreamIInv ==
    ASSUME IInv, NEW c \in Clients, Pump(c) \/ StreamerExits(c) \/ YieldLine(c)
    PROVE  IInv'
<1>1. UNCHANGED <<runVars, marker, call, at, reply, draining>>
  BY DEF Pump, StreamerExits, YieldLine
<1>2. CallTypes'
  BY <1>1 DEF IInv, TypeOK, CallTypes
<1>3. StreamTypes'
  BY <1>1, ModalAssumption DEF Pump, StreamerExits, YieldLine, IInv, TypeOK, StreamTypes
<1>4. QED
  BY <1>1, <1>2, <1>3, ReadingStep DEF Alone

LEMMA LeavingIInv ==
    ASSUME IInv, NEW c \in Clients,
           FindClosed(c) \/ LeaveStuck(c) \/ DrainEnds(c) \/ ClientDies(c)
    PROVE  IInv'
<1>1. /\ UNCHANGED <<runVars, marker, queued, got, draining>> /\ Returns(c)
      /\ streamer' = [streamer EXCEPT ![c] = "closed"]
      /\ reply' = reply \/ reply' = [reply EXCEPT ![c] = "died"]
  BY DEF FindClosed, LeaveStuck, DrainEnds, StopFollowing, ClientDies
<1>2. CallTypes' /\ StreamTypes' /\ at'[c] = "idle" /\ call'[c] = "none"
      /\ \A d \in Clients \ {c} : Alone(d)
  BY <1>1 DEF Returns, Goes, IInv, TypeOK, CallTypes, StreamTypes, Alone
<1>3. QED
  BY <1>1, <1>2, ReadingStep DEF Knows

LEMMA FindEmptyIInv == ASSUME IInv, NEW c \in Clients, FindEmpty(c) PROVE IInv'
  BY GoesOn DEF FindEmpty

LEMMA StepIInv == IInv /\ [Next]_vars => IInv'
<1> SUFFICES ASSUME IInv, [Next]_vars PROVE IInv'
  OBVIOUS
<1>1. ASSUME UNCHANGED vars PROVE IInv'
  <2>1. CallTypes' /\ StreamTypes' /\ UNCHANGED <<runVars, marker>>
        /\ \A d \in Clients : Alone(d)
    BY <1>1 DEF vars, streamVars, IInv, TypeOK, CallTypes, StreamTypes, Alone
  <2>2. QED
    BY <2>1, ReadingStep
<1>2. CASE Next
  BY <1>1, <1>2, RunStepIInv, CallIInv, StatusIInv, CancelIInv, StreamIInv, LeavingIInv,
     FindEmptyIInv DEF Next, ClientStep, AllQuiet
<1>3. QED
  BY <1>1, <1>2

-----------------------------------------------------------------------------
(* The theorems.                                                           *)

\* The invariant behind the theorems below: what was read before the call's result
\* is not used after it, and a result follows its commit (run_worker).
THEOREM Invariance == Spec => []IInv
<1>1. QED
  BY InitIInv, StepIInv, PTL DEF Spec

\* Every variable of the run and of its clients keeps its type.
THEOREM TypeCorrect == Spec => []TypeOK
<1>1. IInv => TypeOK
  BY DEF IInv
<1>2. QED
  BY <1>1, Invariance, PTL

\* A result, a marker and the volume of an ended call stay as they are.
LEMMA EndIsLasting ==
    ASSUME IInv, [Next]_vars
    PROVE  Forward /\ (result # "none" => volume' = volume)
<1>1. CASE RunStep
  BY <1>1 DEF RunStep, LogLine, Commit, Return, Raise, Fail, FinishJob, IInv, Committed, Forward
<1>2. CASE UNCHANGED <<runVars, marker>>
  BY <1>2 DEF Forward, runVars
<1>3. ASSUME NEW c \in Clients, TouchMarker(c) \/ StopCall(c)
      PROVE  Forward /\ volume' = volume
  BY <1>3 DEF TouchMarker, StopCall, runVars, Forward, IsRunning
<1>4. CASE UNCHANGED vars \/ AllQuiet
  BY <1>2, <1>4 DEF AllQuiet, vars
<1>5. ASSUME NEW c \in Clients,
             \/ CallStatus(c) \/ CallCancel(c) \/ CallFollow(c) \/ ReadMarker(c) \/ ReadResult(c)
             \/ ReadManifest(c) \/ YieldLine(c) \/ FindEmpty(c) \/ FindClosed(c) \/ LeaveStuck(c)
             \/ DrainEnds(c) \/ ClientDies(c) \/ Pump(c) \/ StreamerExits(c)
      PROVE  UNCHANGED <<runVars, marker>>
  BY <1>5 DEF CallStatus, CallCancel, CallFollow, ReadMarker, ReadResult, ReadManifest, Reads,
     Answer, Raises, YieldLine, FindEmpty, FindClosed, LeaveStuck, StopFollowing, DrainEnds,
     ClientDies, Pump, StreamerExits
<1>6. QED
  BY <1>1, <1>2, <1>3, <1>4, <1>5 DEF Next, ClientStep

\* A client reads the manifest, or is told, only at its own steps.
LEMMA OnlyReads ==
    ASSUME IInv, Next, NEW c \in Clients, at[c] \in {"manifest", "misread", "stop"},
           at'[c] # at[c]
    PROVE  ReadManifest(c) \/ StopCall(c) \/ ClientDies(c)
<1>1. ASSUME RunStep \/ AllQuiet PROVE at' = at
  BY <1>1 DEF RunStep, LogLine, Commit, Return, Raise, Fail, FinishJob, AllQuiet, vars
<1>2. PICK d \in Clients :
          \/ CallStatus(d) \/ CallCancel(d) \/ CallFollow(d)
          \/ ClientStep(d) \/ DrainEnds(d) \/ ClientDies(d)
          \/ Pump(d) \/ StreamerExits(d)
  BY <1>1 DEF Next
<1>3. d # c => at'[c] = at[c]
  <2> SUFFICES ASSUME d # c PROVE at'[c] = at[c]
    OBVIOUS
  <2>1. ASSUME NEW state, at[d] # "idle", Answer(d, state) PROVE at'[c] = at[c]
    <3>1. call[d] \in {"status", "follow", "cancel"}
      BY <2>1 DEF IInv, TypeOK, Knows
    <3>2. QED
      BY <2>1, <3>1 DEF Answer, Returns, Goes, IInv, TypeOK
  <2>0. ASSUME Raises(d) PROVE at'[c] = at[c]
    BY <2>0 DEF Raises, Returns, Goes, IInv, TypeOK
  <2>2. CASE ReadMarker(d) \/ ReadResult(d) \/ ReadManifest(d)
    BY <2>0, <2>1, <2>2 DEF ReadMarker, ReadResult, ReadManifest, Goes, IInv, TypeOK
  <2>3. CASE \/ TouchMarker(d) \/ StopCall(d) \/ YieldLine(d) \/ FindEmpty(d) \/ FindClosed(d)
             \/ LeaveStuck(d) \/ CallStatus(d) \/ CallCancel(d) \/ CallFollow(d) \/ DrainEnds(d) \/ ClientDies(d)
             \/ Pump(d) \/ StreamerExits(d)
    BY <2>3 DEF TouchMarker, StopCall, YieldLine, FindEmpty, FindClosed, LeaveStuck, CallStatus, CallCancel,
       CallFollow, DrainEnds, StopFollowing, ClientDies, Pump, StreamerExits, Returns, Goes, IInv,
       TypeOK
  <2>4. QED
    BY <1>2, <2>2, <2>3 DEF ClientStep
<1>4. CASE d = c
  BY <1>2, <1>4 DEF CallStatus, CallCancel, CallFollow, ClientStep, DrainEnds, Pump,
     StreamerExits, ReadMarker, ReadResult, TouchMarker, YieldLine, FindEmpty, FindClosed,
     LeaveStuck, IInv, Knows
<1>5. QED
  BY <1>3, <1>4

\* A success is said only of a run whose tasks succeeded, and a failure, when asking
\* for the call met no error of Modal's, only of a run that had ended without one
\* (ModalBackend.status).
THEOREM AnswersAreTrue == Spec => ReplyTrue
<1> DEFINE True(c) ==
             at[c] \in {"manifest", "misread"} /\ at'[c] # at[c] =>
                 /\ reply'[c] = "succeeded" => work = "succeeded"
                 /\ reply'[c] = "failed" /\ at[c] = "manifest" =>
                        ~IsRunning /\ (result # "returned" \/ work = "failed")
<1>1. IInv /\ [Next]_vars => [\A c \in Clients : True(c)]_vars
  <2> SUFFICES ASSUME IInv, Next, NEW c \in Clients,
                      at[c] \in {"manifest", "misread"}, at'[c] # at[c]
               PROVE  /\ reply'[c] = "succeeded" => work = "succeeded"
                      /\ reply'[c] = "failed" /\ at[c] = "manifest" =>
                             ~IsRunning /\ (result # "returned" \/ work = "failed")
    OBVIOUS
  <2>1. at[c] = "manifest" => ~IsRunning
    BY DEF IInv, Knows
  <2>2. reply'[c] \in {ManifestState, "raised", "died"}
    BY OnlyReads DEF ReadManifest, StopCall, ClientDies, Answer, Raises, IInv, TypeOK
  <2>3. QED
    BY <2>1, <2>2 DEF ManifestState, IsRunning, IInv, TypeOK, Committed, Verdicts
<1>2. QED
  BY <1>1, Invariance, PTL DEF Spec, ReplyTrue

\* What status would answer moves as RunVerdict allows when a cancellation outranks
\* the manifest: the Modal backend implements it.
THEOREM ImplementsVerdict == Spec => KeepsVerdict
<1>1. Init => Promise!VerdictInit
  BY DEF Init, Promise!VerdictInit, StatusNow, IsRunning
<1>2. IInv /\ [Next]_vars => [Promise!VerdictNext]_StatusNow
  <2> SUFFICES ASSUME IInv, [Next]_vars
               PROVE  [Promise!VerdictNext]_StatusNow
    OBVIOUS
  <2>1. Forward /\ (result # "none" => volume' = volume)
    BY EndIsLasting
  <2>2. marker' \in BOOLEAN /\ marker \in BOOLEAN
    BY StepIInv DEF IInv, TypeOK
  <2>3. CASE marker
    BY <2>1, <2>3 DEF Forward, StatusNow
  <2>4. CASE ~marker /\ marker'
    <3>1. StatusNow' = "cancelled" /\ StatusNow \in {"running", "unanswered", "succeeded", "failed"}
      BY <2>4 DEF StatusNow
    <3>2. QED
      BY <3>1 DEF Promise!VerdictNext, Promise!Settles, Promise!CancelledAfterAll, Promise!Final
  <2>5. CASE ~marker /\ ~marker' /\ IsRunning
    <3>1. StatusNow = "running" /\ StatusNow' \in {"running", "unanswered", "succeeded", "failed"}
      BY <2>5 DEF StatusNow
    <3>2. QED
      BY <3>1 DEF Promise!VerdictNext, Promise!Settles, Promise!GoesUnanswered, Promise!Final
  <2>6. CASE ~marker /\ ~marker' /\ ~IsRunning
    BY <2>1, <2>6 DEF Forward, StatusNow, IsRunning
  <2>7. QED
    BY <2>2, <2>3, <2>4, <2>5, <2>6
<1>3. QED
  BY <1>1, <1>2, Invariance, PTL DEF Spec, KeepsVerdict, Promise!VerdictSpec

\* A run that cancel stops reads as cancelled before and after the stop
\* (ModalBackend.cancel).
THEOREM StoppedRunsAreCancelled == Spec => StoppedIsCancelled
<1>1. IInv /\ [Next]_vars =>
        [\A c \in Cancellers :
             at[c] = "stop" /\ at'[c] = "idle" /\ result' # result
                 => StatusNow = "cancelled" /\ StatusNow' = "cancelled"]_vars
  <2> SUFFICES ASSUME IInv, Next, NEW c \in Cancellers, at[c] = "stop"
               PROVE  StatusNow = "cancelled" /\ StatusNow' = "cancelled"
    OBVIOUS
  <2>1. marker /\ marker'
    BY EndIsLasting DEF IInv, Knows, Clients, Forward
  <2>2. QED
    BY <2>1 DEF StatusNow
<1>2. QED
  BY <1>1, Invariance, PTL DEF Spec, StoppedIsCancelled
=============================================================================
