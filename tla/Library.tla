------------------------------ MODULE Library ------------------------------
(***************************************************************************)
(* What of substrax runs in the caller's own process, and the command line *)
(* beside it: parts that share no state, so that a behaviour is one part's *)
(* and the others stand still.                                             *)
(***************************************************************************)
EXTENDS TrainingRun, CallRecorder, CommandLine, Meshes, Tracking, Restoring, Runtime

VARIABLE part   \* the part whose behaviour this is

libraryVars == <<part, vars, recVars, cliVars, meshVars, trackVars, restoreVars, runtimeVars>>

Parts == {"training", "recorder", "command line", "meshes", "tracking", "restoring", "runtime"}

\* A part that stands still has one of its initial states.
LibraryInit ==
    /\ part \in Parts
    /\ Init /\ (part # "training" => logs = [e \in Epochs |-> CHOOSE r \in Reported : TRUE])
    /\ RecInit /\ (part # "recorder" => collecting)
    /\ CliInit /\ (part # "command line" => stored = [r \in Runs |-> "none"])
    /\ MeshInit /\ TrackInit
    /\ RestoreInit /\ (part # "restoring" => x64)
    /\ RuntimeInit /\ (part # "runtime" => environ = CHOOSE env \in Environments : TRUE)

LibraryNext ==
    /\ UNCHANGED part
    /\ \/ /\ part = "training" /\ Next
          /\ UNCHANGED <<recVars, cliVars, meshVars, trackVars, restoreVars, runtimeVars>>
       \/ /\ part = "recorder" /\ RecNext
          /\ UNCHANGED <<vars, cliVars, meshVars, trackVars, restoreVars, runtimeVars>>
       \/ /\ part = "command line" /\ CliNext
          /\ UNCHANGED <<vars, recVars, meshVars, trackVars, restoreVars, runtimeVars>>
       \/ /\ part = "meshes" /\ MeshNext
          /\ UNCHANGED <<vars, recVars, cliVars, trackVars, restoreVars, runtimeVars>>
       \/ /\ part = "tracking" /\ TrackNext
          /\ UNCHANGED <<vars, recVars, cliVars, meshVars, restoreVars, runtimeVars>>
       \/ /\ part = "restoring" /\ RestoreNext
          /\ UNCHANGED <<vars, recVars, cliVars, meshVars, trackVars, runtimeVars>>
       \/ /\ part = "runtime" /\ RuntimeNext
          /\ UNCHANGED <<vars, recVars, cliVars, meshVars, trackVars, restoreVars>>

LibrarySpec == LibraryInit /\ [][LibraryNext]_libraryVars
=============================================================================
