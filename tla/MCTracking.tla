----------------------------- MODULE MCTracking -----------------------------
(***************************************************************************)
(* The instance of Tracking for TLC in which one name lies under another.  *)
(***************************************************************************)
EXTENDS Tracking

\* logging's hierarchy: "a.b" is below "a".
MCParents == [n \in LoggerNames |-> IF n = "a.b" THEN {"a"} ELSE {}]
=============================================================================
