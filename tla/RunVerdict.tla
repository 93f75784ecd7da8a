----------------------------- MODULE RunVerdict -----------------------------
(***************************************************************************)
(* What a compute backend's `status` promises of one run, whoever runs it: *)
(* the RunState it would answer at this instant, and how that answer may   *)
(* change (substrax/compute/backend.py, RunState and ComputeBackend).      *)
(*                                                                         *)
(* An ended run never runs again. The revisions are real: a cancellation   *)
(* is noted by a process that had seen the run going, at a moment when the *)
(* run may have ended. Where the manifest outranks the cancellation, a     *)
(* success is for ever and a noted cancellation may still be finished off; *)
(* where the cancellation outranks the manifest, it is the one that stays. *)
(* A backend may be unable to tell how a run ended: status raises instead, *)
(* and the verdict is "unanswered".                                        *)
(***************************************************************************)

CONSTANT CancelWins   \* a noted cancellation outranks a finished manifest

VARIABLE verdict

Final == {"succeeded", "failed", "cancelled"}
RunState == {"pending", "running", "unanswered"} \union Final

VerdictInit == verdict \in {"pending", "running"}

\* The provider starts a run it had queued.
Starts == verdict = "pending" /\ verdict' = "running"

\* The run ends, or a cancellation is noted.
Settles == verdict \notin Final /\ verdict' \in Final

\* The run ends in a way of which status can only raise.
GoesUnanswered == verdict \in {"pending", "running"} /\ verdict' = "unanswered"

\* The worker finished after its cancellation was noted.
FinishesAfterAll ==
    /\ ~CancelWins
    /\ verdict = "cancelled"
    /\ verdict' \in {"succeeded", "failed"}

\* A cancellation that had seen the run going is noted after its end.
CancelledAfterAll ==
    /\ verdict \in {"failed"} \union (IF CancelWins THEN {"succeeded"} ELSE {})
    /\ verdict' = "cancelled"

VerdictNext == Starts \/ Settles \/ GoesUnanswered \/ FinishesAfterAll \/ CancelledAfterAll

VerdictSpec == VerdictInit /\ [][VerdictNext]_verdict
=============================================================================
