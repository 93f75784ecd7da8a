------------------------------- MODULE Metrics -------------------------------
(***************************************************************************)
(* The metrics a training reports and a checkpoint records: numbers, and   *)
(* NaN, which no comparison holds of. None is Python's, for a metric that  *)
(* is not there and a setting that is not made.                            *)
(***************************************************************************)
EXTENDS Integers

CONSTANTS NaN, None

ASSUME MetricsAssumption ==
    /\ NaN \notin Int
    /\ None \notin Int \union {NaN}

Less(a, b) == NaN \notin {a, b} /\ a < b
=============================================================================
