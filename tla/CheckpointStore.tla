--------------------------- MODULE CheckpointStore ---------------------------
(***************************************************************************)
(* The checkpoint store (substrax/checkpoint/store.py): which writes it    *)
(* admits, what a save leaves on disk when it ends, fails or is cut off,   *)
(* and what it answers about the steps it holds.                           *)
(*                                                                         *)
(* Orbax's manager is external: it writes a step as a whole, may decline   *)
(* or fail to, and keeps the MaxToKeep newest steps.                       *)
(***************************************************************************)
EXTENDS Metrics, FiniteSets, FiniteSetsExt, SequencesExt

CONSTANTS
    Steps,       \* steps callers save at
    MaxToKeep,   \* how many of the newest steps are retained
    LowestBest   \* best_step's mode: "min", else "max"

ASSUME StoreAssumption ==
    /\ Steps \subseteq Nat
    /\ MaxToKeep \in Nat \ {0}
    /\ LowestBest \in BOOLEAN

VARIABLES
    disk,   \* per step held: its metric and what was saved
    save    \* the save under way or just ended

storeVars == <<disk, save>>

Idle == [at |-> "idle"]
Held == DOMAIN disk
Latest == IF Held = {} THEN -1 ELSE Max(Held)

StoreInit == disk = << >> /\ save = Idle

\* A mutant of Admits: any step that is not written may be.
AdmitsOld(step, overwrite) == step \notin Held \/ overwrite

\* _admit_write: an existing step only to be replaced, a new one only above the rest.
Admits(step, overwrite) ==
    IF step \in Held THEN overwrite ELSE step > Latest

\* save is called. What it admits to replace, it deletes first.
BeginSave(step, entry, overwrite) ==
    /\ save.at # "writing"
    /\ IF Admits(step, overwrite)
       THEN /\ save' = [at |-> "writing", step |-> step, entry |-> entry, before |-> disk]
            /\ disk' = Restrict(disk, Held \ {step})
       ELSE /\ save' = [at |-> "refused", step |-> step, before |-> disk]
            /\ UNCHANGED disk

\* What retention leaves: the newest steps.
Retained(d) ==
    Restrict(d, {s \in DOMAIN d : Cardinality({t \in DOMAIN d : t > s}) < MaxToKeep})

\* Orbax writes the step, the wait for it ends and save returns.
WriteStep ==
    /\ save.at = "writing"
    /\ disk' = Retained([s \in Held \union {save.step} |->
                            IF s = save.step THEN save.entry ELSE disk[s]])
    /\ save' = [save EXCEPT !.at = "saved"]

\* Orbax declines the write: CheckpointNotWrittenError "rejected".
DeclineWrite ==
    /\ save.at = "writing"
    /\ save' = [save EXCEPT !.at = "refused"]
    /\ UNCHANGED disk

\* The write, or building the record for it, raises, or the process dies in it.
AbandonSave ==
    /\ save' = Idle
    /\ UNCHANGED disk

Delete(step) ==
    /\ save.at # "writing"
    /\ step \in Held
    /\ disk' = Restrict(disk, Held \ {step})
    /\ save' = Idle

\* A mutant of Better: the comparison of the other mode.
BetterOfOther(a, b) == IF LowestBest THEN Less(b, a) ELSE Less(a, b)

Better(a, b) == IF LowestBest THEN Less(a, b) ELSE Less(b, a)

Scored == {s \in Held : disk[s].metric # None}

\* best_step: Python's min or max over the steps in order, which starts at the first
\* and moves on to what compares as better.
BestUpTo[s \in Scored] ==
    LET earlier == {t \in Scored : t < s}
        best == BestUpTo[Max(earlier)]
    IN  IF earlier = {} \/ Better(disk[s].metric, disk[best].metric) THEN s ELSE best

BestStep == IF Scored = {} THEN None ELSE BestUpTo[Max(Scored)]
=============================================================================
