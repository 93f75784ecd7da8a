------------------------------ MODULE Tracking ------------------------------
(***************************************************************************)
(* The loggers of substrax/tracking (logger.py, mlflow.py): objects that   *)
(* share what they write to. A logging logger belongs to a name, not to an *)
(* object; a metrics file to a name, a directory and a second; and MLflow  *)
(* has one active run per process. Loggers are made, used and closed in    *)
(* any order, a closed one is used again, and all of it in one thread.     *)
(***************************************************************************)
EXTENDS Integers, FiniteSets, Sequences

CONSTANTS
    Loggers,      \* the objects that may be made
    LoggerNames,  \* their names
    Parents,      \* per name: the names above it in logging's hierarchy
    MaxRows,      \* BOUND: the entries of one metrics file
    MaxSeconds,   \* BOUND: the seconds in which loggers are made
    MaxRuns       \* BOUND: the MLflow runs there are

ASSUME TrackingAssumption ==
    /\ Parents \in [LoggerNames -> SUBSET LoggerNames]
    /\ MaxRows \in Nat /\ MaxSeconds \in Nat \ {0} /\ MaxRuns \in Nat
    /\ Loggers \intersect {"none", "header"} = {}

VARIABLES
    loggers,     \* per object: kind, name, how it stands, its second, its run
    handlers,    \* per name: the handlers of its logging logger
    second,      \* the clock's second, as it goes into file names
    files,       \* per name and second: the metrics file's rows
    active,      \* MLflow's active run, 0 for none
    runs,        \* how many runs there are
    scalar,      \* where the last scalar of an MLflow logger went
    line         \* the last line: who logged it, how often stdout got it

trackVars == <<loggers, handlers, second, files, active, runs, scalar, line>>

Unmade == [kind |-> "none", name |-> "none", is |-> "unmade", second |-> 0, run |-> 0]

TrackInit ==
    /\ loggers = [l \in Loggers |-> Unmade]
    /\ handlers = [n \in LoggerNames |-> {}]
    /\ second = 1
    /\ files = [n \in LoggerNames |-> [s \in 1..MaxSeconds |-> <<>>]]
    /\ active = 0 /\ runs = 0
    /\ scalar = [by |-> "none", run |-> 0]
    /\ line = [by |-> "none", times |-> 1]

\* Logger.__init__ and FileLogger.__init__: the name's handlers are replaced.
Handlers(l, kind, name) ==
    {<<"console", l>>} \union (IF kind = "file" THEN {<<"file", l>>} ELSE {})

\* A line goes to the handlers of its name and, as logging propagates it, to those
\* of the names above.
Says(l, name, under) ==
    line' = [by |-> l,
             times |-> Cardinality({at \in ({name} \union Parents[name]) \X
                                        (UNION {under[m] : m \in LoggerNames}) :
                                    at[2] \in under[at[1]] /\ at[2][1] = "console"})]

\* ConsoleLogger(...) says nothing; FileLogger(...) says where its files are.
Make(l, kind, name) ==
    /\ loggers[l].is = "unmade"
    /\ loggers' = [loggers EXCEPT ![l] = [kind |-> kind, name |-> name, is |-> "open",
                                          second |-> second, run |-> 0]]
    /\ handlers' = [handlers EXCEPT ![name] = Handlers(l, kind, name)]
    /\ IF kind = "file" THEN Says(l, name, handlers') ELSE UNCHANGED line
    /\ UNCHANGED <<second, files, active, runs, scalar>>

\* mlflow.start_run: a new run (run is the next) or an old one; refused while one is
\* active, when the name's handlers have been replaced already.
MakeMLFlow(l, name, run) ==
    /\ loggers[l].is = "unmade" /\ run <= MaxRuns
    /\ handlers' = [handlers EXCEPT ![name] = Handlers(l, "mlflow", name)]
    /\ LET refused == active # 0
       IN  /\ loggers' = [loggers EXCEPT ![l] = [kind |-> "mlflow", name |-> name,
                            is |-> IF refused THEN "failed" ELSE "open",
                            second |-> second, run |-> IF refused THEN 0 ELSE run]]
           /\ active' = IF refused THEN active ELSE run
           /\ runs' = IF ~refused /\ run > runs THEN run ELSE runs
           /\ IF refused /\ run <= runs THEN UNCHANGED line ELSE Says(l, name, handlers')
    /\ UNCHANGED <<second, files, scalar>>

IsMade(l) == loggers[l].is \in {"open", "closed"}

\* debug, info and so on, and what console loggers do with anything.
Log(l) ==
    /\ IsMade(l)
    /\ Says(l, loggers[l].name, handlers)
    /\ UNCHANGED <<loggers, handlers, second, files, active, runs, scalar>>

\* FileLogger.log_scalars: the line, then the rows, under a header in a new file.
LogToFile(l, rows) ==
    /\ IsMade(l) /\ loggers[l].kind = "file"
    /\ Says(l, loggers[l].name, handlers)
    /\ LET file == files[loggers[l].name][loggers[l].second]
           header == IF file = <<>> THEN <<"header">> ELSE <<>>
       IN  /\ Len(file) + rows < MaxRows
           /\ files' = [files EXCEPT ![loggers[l].name][loggers[l].second] =
                            @ \o header \o [i \in 1..rows |-> l]]
    /\ UNCHANGED <<loggers, handlers, second, active, runs, scalar>>

\* log_metrics, log_params or log_artifact: to the active run, which MLflow starts
\* when there is none.
LogToRun(l) ==
    /\ IsMade(l) /\ loggers[l].kind = "mlflow"
    /\ \/ active # 0 /\ UNCHANGED <<active, runs>>
       \/ active = 0 /\ runs < MaxRuns /\ runs' = runs + 1 /\ active' = runs + 1
    /\ scalar' = [by |-> l, run |-> active']
    /\ Says(l, loggers[l].name, handlers)
    /\ UNCHANGED <<loggers, handlers, second, files>>

\* A mutant of EndsRun: end_run forgets that it was called.
EndsRunAgain(l) == loggers[l].kind = "mlflow"

\* self.active_run is not None
EndsRun(l) == loggers[l].kind = "mlflow" /\ loggers[l].is = "open"

\* end_run and close: a second call ends nothing; close takes away whichever
\* handlers the name has by now.
Close(l, handlersToo) ==
    /\ IsMade(l)
    /\ handlersToo \/ loggers[l].kind = "mlflow"
    /\ active' = IF EndsRun(l) THEN 0 ELSE active
    /\ loggers' = [loggers EXCEPT ![l].is = "closed"]
    /\ handlers' = IF handlersToo THEN [handlers EXCEPT ![loggers[l].name] = {}] ELSE handlers
    /\ IF EndsRun(l) THEN Says(l, loggers[l].name, handlers) ELSE UNCHANGED line
    /\ UNCHANGED <<second, files, runs, scalar>>

Tick ==
    /\ second < MaxSeconds
    /\ second' = second + 1
    /\ UNCHANGED <<loggers, handlers, files, active, runs, scalar, line>>

TrackNext ==
    \/ \E l \in Loggers :
         \/ \E name \in LoggerNames :
              \/ \E kind \in {"console", "file"} : Make(l, kind, name)
              \/ \E run \in 1..(runs + 1) : MakeMLFlow(l, name, run)
         \/ Log(l) \/ LogToRun(l)
         \/ \E rows \in 1..2 : LogToFile(l, rows)
         \/ \E handlersToo \in BOOLEAN : Close(l, handlersToo)
    \/ Tick

TrackSpec == TrackInit /\ [][TrackNext]_trackVars

-----------------------------------------------------------------------------
(* Properties.                                                             *)

\* However loggers of one name, or of MLflow, are made, refused, closed twice and
\* used after they were closed: a scalar of an open one lands in its own run, whose
\* end only it brings about, and a metrics file, whoever shares it, has its header
\* first and once (MLFlowLogger.end_run: "a second call is a no-op").
ScalarsLand ==
    /\ \A l \in Loggers : EndsRun(l) /\ loggers[l].is = "open" => active = loggers[l].run
    /\ scalar.by \in Loggers /\ loggers[scalar.by].is = "open" =>
         scalar.run = loggers[scalar.by].run
    /\ \A n \in LoggerNames, s \in 1..MaxSeconds :
         \A i \in DOMAIN files[n][s] : files[n][s][i] = "header" <=> i = 1

\* What an open logger says reaches stdout exactly once (logger.py:93).
LinesOnce == line.by \in Loggers /\ loggers[line.by].is = "open" => line.times = 1
=============================================================================
