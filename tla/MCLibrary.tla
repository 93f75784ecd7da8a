----------------------------- MODULE MCLibrary -----------------------------
(***************************************************************************)
(* The instance of Library for TLC: the values a configuration file cannot *)
(* write down.                                                             *)
(***************************************************************************)
EXTENDS Library

\* A function of a package and one of a subpackage of it; a call with a weight.
Starts(file, qualname) == [kind |-> "start", file |-> file, qualname |-> qualname]

MCItems == {Starts(<<"lib", "sub", "m">>, "sub:f"), Starts(<<"lib", "n">>, "lib:g"),
            [kind |-> "call", weights |-> [other |-> 2]]}
MCRaising == {Starts(<<"lib", "n">>, "lib:g")}
MCRoots == <<[path |-> <<"lib">>, package |-> "lib"], [path |-> <<"lib", "sub">>, package |-> "sub"]>>
MCSkipped == {<<"lib", "old">>}

\* Examples in directories inside one another, two of one dotted name, a private one.
MCScripts == {<<"ex", "a", "b">>, <<"ex", "a.b">>, <<"ex", "a", "_c", "d">>, <<"ex", "e", "f">>}
MCDotted == [s \in MCScripts |-> CASE s = <<"ex", "e", "f">> -> "ex.e.f"
                                   [] s = <<"ex", "a", "_c", "d">> -> "ex.a._c.d"
                                   [] OTHER -> "ex.a.b"]

Table(examples, commands, seconds, task_seconds, wrong) ==
    [examples |-> examples, commands |-> commands, timeout_seconds |-> seconds,
     task_timeout_seconds |-> task_seconds, wrong |-> wrong]

\* Tables that are right, and tables with one thing wrong.
MCTables == {Table(<<<<"ex", "a">>, <<"ex", "e">>, <<"ex", "a", "_c">>>>, {"b"}, 2, NoValue, FALSE),
             Table(<<>>, {"b"}, 2, 0, FALSE),
             Table(<<<<"ex", "a">>, <<"ex", "a">>>>, {}, 2, 1, FALSE),
             Table(<<<<"ex">>>>, {}, 2, 1, FALSE), Table(<<>>, {}, 2, 1, FALSE),
             Table(<<<<"ex", "e">>>>, {"ex.e.f"}, 2, 1, FALSE),
             Table(<<>>, {"b"}, 0, 0, FALSE), Table(<<>>, {"b"}, 2, -1, FALSE),
             Table(<<>>, {"b"}, 2, 100, FALSE), Table(<<>>, {"b"}, 2, 1, TRUE)}

\* The plateau classes share the keys of their states.
MCStateKeys == [c \in Classes |-> IF c = "EarlyStoppingCallback" THEN {"stopper", "stopped_epoch"}
                                  ELSE {"best", "num_bad_epochs"}]

\* "a.b" lies under "a" in logging's hierarchy.
MCParents == [n \in LoggerNames |-> IF n = "a.b" THEN {"a"} ELSE {}]

\* Settings of each kind: those a shell, a process and a caller may differ in.
With(given) == [f \in Settings |-> IF f \in DOMAIN given THEN given[f] ELSE Unset]
MCRuntimes == {With([x64 |-> "on", fraction |-> "0.75"]), With([devices |-> "8"]),
               With([count |-> "2"]), With([platforms |-> "gpu"])}

Exports(given) == [v \in Variables |-> IF v \in DOMAIN given THEN given[v] ELSE Unset]
MCEnvironments == {Exports([old |-> "0.5", x64 |-> "on"]),
                   Exports([platforms |-> "gpu", fraction |-> "0.5", count |-> "8"])}
MCUpdates == [x64 |-> {"on"}, devices |-> {"8"}, platforms |-> {"cpu"}]
=============================================================================
