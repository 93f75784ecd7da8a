----------------------------- MODULE TrainingRun -----------------------------
(***************************************************************************)
(* A training that stops early and resumes from its checkpoints: the loop  *)
(* docs/api/callbacks.md and docs/api/checkpoint.md lay out around the     *)
(* callback of EarlyStopping and the store of CheckpointStore.             *)
(*                                                                         *)
(* The loop is the caller's own (external). It trains epoch after epoch,   *)
(* reports a metric, saves the callbacks' state under the epoch's step, is *)
(* killed at any moment and goes on from the latest or the best step.      *)
(***************************************************************************)
EXTENDS EarlyStopping, CheckpointStore

CONSTANTS
    MaxEpoch,  \* BOUND: how many epochs the training has
    Reported   \* what an epoch may report: a metric, or None

ASSUME TrainingAssumption ==
    /\ MaxEpoch \in Nat
    /\ Steps = 1..MaxEpoch
    /\ Reported \subseteq (-Infinity..Infinity) \union {NaN, None}

VARIABLES
    logs,      \* per epoch: what it reports whenever it is trained
    phase,     \* where the loop is
    epoch,     \* how many epochs the model in memory has seen
    callback   \* the callback in memory

trainVars == <<logs, phase, epoch, callback>>
vars == <<trainVars, storeVars>>

Epochs == 1..MaxEpoch

TypeOK ==
    /\ logs \in [Epochs -> Reported]
    /\ phase \in {"training", "reporting", "saving", "dead"}
    /\ epoch \in 0..MaxEpoch
    /\ callback.best \in -Infinity..Infinity
    /\ callback.bad \in 0..Patience
    /\ callback.stopped \in Epochs \union {None}
    /\ Held \subseteq Steps /\ Cardinality(Held) <= MaxToKeep
    /\ save.at \in {"idle", "writing", "saved", "refused"}

Init ==
    /\ logs \in [Epochs -> Reported]
    /\ phase = "training"
    /\ epoch = 0
    /\ callback = Fresh
    /\ StoreInit

\* The next epoch, unless the callback asked for a stop.
TrainEpoch ==
    /\ phase = "training"
    /\ ~ShouldStop(callback)
    /\ epoch < MaxEpoch
    /\ epoch' = epoch + 1
    /\ callback' = AfterEpoch(callback, logs[epoch'], epoch')
    /\ phase' = "reporting"
    /\ UNCHANGED <<logs, storeVars>>

\* store.save(step, {"extensions": callbacks.get_state()}, metrics=logs).
SaveEpoch(overwrite) ==
    /\ phase = "reporting"
    /\ BeginSave(epoch, [metric |-> logs[epoch], state |-> callback], overwrite)
    /\ phase' = "saving"
    /\ UNCHANGED <<logs, epoch, callback>>

\* Not every epoch is saved.
SkipSave ==
    /\ phase = "reporting"
    /\ phase' = "training"
    /\ UNCHANGED <<logs, epoch, callback, storeVars>>

SaveStep == phase = "saving" /\ (WriteStep \/ DeclineWrite) /\ UNCHANGED trainVars

\* The loop goes on after a save that returned, and after one that was refused.
SaveEnds ==
    /\ phase = "saving"
    /\ save.at # "writing"
    /\ phase' = "training"
    /\ save' = Idle
    /\ UNCHANGED <<logs, epoch, callback, disk>>

DeleteStep(step) ==
    /\ phase = "training"
    /\ Delete(step)
    /\ UNCHANGED trainVars

\* The process dies; what is on disk stays.
Die ==
    /\ phase # "dead"
    /\ AbandonSave
    /\ phase' = "dead"
    /\ epoch' = 0
    /\ callback' = Fresh
    /\ UNCHANGED logs

\* A new process starts over, whatever the directory holds, or takes the model and
\* the callbacks back from a step.
StartOver ==
    /\ phase = "dead"
    /\ phase' = "training"
    /\ UNCHANGED <<logs, epoch, callback, storeVars>>

ResumeFrom(step) ==
    /\ phase = "dead"
    /\ step \in Held
    /\ phase' = "training"
    /\ epoch' = step
    /\ callback' = SetState(disk[step].state)
    /\ UNCHANGED <<logs, storeVars>>

\* The callback stopped the training, or its epochs are done.
TrainingOver ==
    /\ phase = "training"
    /\ ShouldStop(callback) \/ epoch = MaxEpoch
    /\ UNCHANGED vars

Next ==
    \/ TrainEpoch \/ SkipSave \/ SaveStep \/ SaveEnds \/ Die \/ StartOver \/ TrainingOver
    \/ \E overwrite \in BOOLEAN : SaveEpoch(overwrite)
    \/ \E step \in Held : DeleteStep(step)
    \/ \E step \in {Latest, BestStep} : ResumeFrom(step)

Spec == Init /\ [][Next]_vars

-----------------------------------------------------------------------------
(* Properties.                                                             *)

\* The epochs whose metric the stopper counts.
Counted == {e \in 1..epoch : logs[e] # None /\ ~StopsImmediately(logs[e])}

\* What a training that never died would have in memory after each epoch.
Uninterrupted[e \in 0..MaxEpoch] ==
    IF e = 0 THEN Fresh ELSE AfterEpoch(Uninterrupted[e - 1], logs[e], e)

\* "A resumed run stops at the epoch the uninterrupted run would have": whatever
\* was saved, refused, deleted, lost and resumed from, the callback is as after the
\* same epochs in one go.
ResumedLikeUninterrupted ==
    phase # "dead" => callback = Uninterrupted[epoch]

\* The best value is one that was reported, nothing counted beats it by more than
\* MinDelta, and the bad epochs are those counted since it first came.
BestAndBadEpochs ==
    phase # "dead" =>
        LET bestAt == {e \in Counted : logs[e] = callback.best}
        IN  /\ \A e \in Counted : ~Improves(logs[e], callback.best)
            /\ IF callback.best = Fresh.best
               THEN callback.bad = Cardinality(Counted)
               ELSE /\ bestAt # {}
                    /\ callback.bad = Cardinality({e \in Counted : e > Min(bestAt)})

\* "patience counts epochs without improvement, so an improving epoch never stops
\* training": of the last Patience counted epochs of a training that goes on one is
\* better than all before, and of one that ran out of patience none is by more than
\* MinDelta.
StopIsDue ==
    LET recent == {e \in Counted : Cardinality({f \in Counted : f > e}) < Patience}
        Before(e) == {f \in Counted : f < e /\ logs[f] # NaN}
        Beyond(a, b) == IF Minimise THEN Less(a, b) ELSE Less(b, a)
    IN  phase # "dead" /\ Cardinality(Counted) > Patience =>
          IF ShouldStop(callback)
          THEN \/ StopsImmediately(logs[epoch])
               \/ \A e \in recent :
                    logs[e] = NaN \/ \E f \in Before(e) : ~Improves(logs[e], logs[f])
          ELSE \E e \in recent : \A f \in Before(e) : Beyond(logs[e], logs[f])

\* A save that returns has its step on disk, as it was given: retention, which keeps
\* the newest steps, never removes what was just written ("a store's steps only
\* grow").
SavedIsThere ==
    save.at = "saved" => save.step \in Held /\ disk[save.step] = save.entry

\* best_step, "The step whose `metric` is the lowest": true where the first step that
\* has the metric is not NaN, which no later one would compare as better than.
BestUnlessNaN ==
    Scored # {} /\ disk[Min(Scored)].metric # NaN =>
        \A s \in Scored :
            LET m == disk[s].metric
                best == disk[BestStep].metric
            IN  ~(IF LowestBest THEN Less(m, best) ELSE Less(best, m))

\* CheckpointNotWrittenError, "A save was refused, so the step on disk is whatever it
\* was before the call" (violated: a step to be replaced is deleted before Orbax is
\* asked to write).
RefusedUntouched == save.at = "refused" => disk = save.before
=============================================================================
