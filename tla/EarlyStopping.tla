---------------------------- MODULE EarlyStopping ----------------------------
(***************************************************************************)
(* The early-stopping callback (substrax/callbacks/early_stopping.py over  *)
(* BestMetricTracker and EarlyStopping of plateau.py): what it remembers   *)
(* of the monitored metric, and when it stops the training.                *)
(***************************************************************************)
EXTENDS Metrics

CONSTANTS
    Patience,     \* epochs without an improvement before stopping
    MinDelta,     \* the least change that counts as one
    Minimise,     \* mode "min"; else "max"
    CheckFinite,  \* check_finite
    Goal,         \* stopping_threshold, or None
    Divergence,   \* divergence_threshold, or None
    Infinity      \* larger than any finite metric, MinDelta included

ASSUME EarlyStoppingAssumption ==
    /\ Patience \in Nat \ {0}
    /\ MinDelta \in Nat
    /\ {Minimise, CheckFinite} \subseteq BOOLEAN
    /\ Infinity \in Nat
    /\ {Goal, Divergence} \subseteq (-Infinity..Infinity) \union {None}

IsFinite(v) == v # NaN /\ v # Infinity /\ v # -Infinity

\* A freshly built callback: no best value yet, and training goes on.
Fresh == [best |-> IF Minimise THEN Infinity ELSE -Infinity, bad |-> 0, stopped |-> None]

ShouldStop(s) == s.stopped # None

\* _is_improvement.
Improves(v, best) ==
    IF Minimise THEN Less(v, best - MinDelta) ELSE Less(best + MinDelta, v)

MeetsGoal(v) ==
    /\ Goal # None
    /\ v # NaN
    /\ IF Minimise THEN v <= Goal ELSE v >= Goal

Diverges(v) == Divergence # None /\ Minimise /\ Less(Divergence, v)

StopsImmediately(v) == (CheckFinite /\ ~IsFinite(v)) \/ MeetsGoal(v) \/ Diverges(v)

\* A mutant of Register: an improvement leaves the count of bad epochs alone.
RegisterKeepsCount(s, v) ==
    IF Improves(v, s.best) THEN [s EXCEPT !.best = v]
    ELSE [s EXCEPT !.bad = @ + 1]

Register(s, v) ==
    IF Improves(v, s.best) THEN [s EXCEPT !.best = v, !.bad = 0]
    ELSE [s EXCEPT !.bad = @ + 1]

\* A mutant of OutOfPatience: one epoch more than patience allows.
OutOfPatienceLate(s) == s.bad > Patience

OutOfPatience(s) == s.bad >= Patience

\* on_epoch_end with this epoch's metric, None when the logs lack it.
AfterEpoch(s, v, epoch) ==
    IF v = None THEN s
    ELSE IF StopsImmediately(v) THEN [s EXCEPT !.stopped = epoch]
    ELSE LET r == Register(s, v)
         IN  IF OutOfPatience(r) THEN [r EXCEPT !.stopped = epoch] ELSE r

\* A mutant of SetState: the count of bad epochs starts again.
SetStateFreshCount(saved) == [saved EXCEPT !.bad = 0]

\* set_state with what get_state returned.
SetState(saved) == saved
=============================================================================
