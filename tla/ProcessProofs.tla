--------------------------- MODULE ProcessProofs ----------------------------
(***************************************************************************)
(* Proofs about a caller's own processes. Runtime, for any runtimes,       *)
(* environments and updates and any depth of blocks: jax goes by what was  *)
(* asked for, and a child by what its caller chose. CallRecorder, for any  *)
(* threads, items, roots, nested blocks and tools: the counts are exact,   *)
(* and nothing is left behind. CommandLine, for any shells, runs and job   *)
(* tables: no job runs a script twice, what was printed is found, and a    *)
(* run that exits with 0 is true.                                          *)
(***************************************************************************)
EXTENDS Runtime, CallRecorder, CommandLine, Induction

-----------------------------------------------------------------------------
(* Runtime: settings, options and children.                                *)

Block == [before: [Options -> Values], asked: [Settings -> Values]]
Child ==
    [at: {"running", "exited"}, runtime: [Settings -> Values], env: [Variables -> Values],
     environ: [Variables -> Values], said: BOOLEAN, file: {"absent", "beside", "whole"},
     report: {"none", "whole"}]

RuntimeTypeOK ==
    /\ python \in BOOLEAN /\ jax \in {"absent", "imported", "started"}
    /\ environ \in [Variables -> Values]
    /\ config \in [Options -> Values]
    /\ jax = "started" => client \in [Settings -> Values]
    /\ blocks \in Seq(Block)
    /\ asked \in [Settings -> Values] /\ late \in BOOLEAN
    /\ child = NoChild \/ child \in Child

\* What was asked for, read where jax keeps it: each setting by itself.
Kept ==
    /\ ~python => jax = "absent"
    /\ \A f \in AtStart : environ[f] = asked[f]
    /\ \A o \in Options : (IF jax = "absent" THEN environ[o] ELSE config[o]) = asked[o]
    /\ jax = "started" => \A f \in AtStart \union {"devices"} : client[f] = asked[f]
    /\ jax = "started" /\ ~late => client["platforms"] = asked["platforms"]

\* The two names of the memory fraction.
OneFraction(env) == env["fraction"] = Unset \/ env["old"] = Unset

\* What a block sets back is what was asked for as it was entered, and it was
\* entered with jax.
BlocksKept ==
    /\ blocks # <<>> => jax # "absent"
    /\ \A i \in DOMAIN blocks : \A o \in Options : blocks[i].before[o] = blocks[i].asked[o]

\* A child's report is there once, and only once, the child's call of report returned.
RuntimeIInv ==
    /\ RuntimeTypeOK /\ Kept /\ BlocksKept
    /\ OneFraction(environ)
    /\ ChildAsAsked
    /\ child.at # "none" => (child.file = "whole" <=> child.said)

LEMMA ValuesThere ==
    /\ Unset \in Values /\ "cpu" \in Values /\ "gpu" \in Values /\ "on" \in Values
    /\ "off" \in Values /\ "0.75" \in Values /\ "8" \in Values /\ "0" \in Values
  BY RuntimeAssumption

LEMMA RuntimeInitIInv == RuntimeInit => RuntimeIInv
<1> SUFFICES ASSUME RuntimeInit PROVE RuntimeIInv
  OBVIOUS
<1>1. environ \in [Variables -> Values] /\ OneFraction(environ)
  BY RuntimeAssumption DEF RuntimeInit, OneFraction
<1>2. RuntimeTypeOK
  <2>1. config \in [Options -> Values] /\ blocks \in Seq(Block)
    BY ValuesThere DEF RuntimeInit
  <2>2. asked \in [Settings -> Values]
    BY <1>1 DEF RuntimeInit, Variables
  <2>3. QED
    BY <1>1, <2>1, <2>2 DEF RuntimeInit, RuntimeTypeOK
<1>3. Kept /\ BlocksKept
  BY DEF RuntimeInit, Kept, BlocksKept, Settings
<1>4. ChildAsAsked /\ child.at = "none"
  BY DEF RuntimeInit, ChildAsAsked, NoChild
<1>5. QED
  BY <1>1, <1>2, <1>3, <1>4 DEF RuntimeIInv

\* A runtime over settings is what it sets and, for the rest, what they were.
LEMMA OverIsTyped ==
    ASSUME NEW D \in SUBSET Variables, NEW base \in [D -> Values], NEW runtime \in [Settings -> Values]
    PROVE  /\ Over(base, runtime) \in [D -> Values]
           /\ \A f \in D : Over(base, runtime)[f] =
                IF f \in Settings /\ runtime[f] # Unset THEN runtime[f] ELSE base[f]
  BY DEF Over

\* The parent's steps while it has no child.
LEMMA ParentStep ==
    ASSUME RuntimeIInv, child' = child, child.at = "none", RuntimeTypeOK', Kept', BlocksKept', OneFraction(environ')
    PROVE  RuntimeIInv'
  BY DEF RuntimeIInv, ChildAsAsked, OneFraction

LEMMA SourceIInv ==
    ASSUME RuntimeIInv, NEW backend \in Accelerators \union {"cpu"}, Source(backend)
    PROVE  RuntimeIInv'
<1>1. ~python /\ jax = "absent" /\ UNCHANGED <<python, jax, config, client, blocks, late, child>>
  BY DEF RuntimeIInv, Kept, Source
<1>2. environ' \in [Variables -> Values] /\ environ'["old"] = Unset
  BY ValuesThere DEF RuntimeIInv, RuntimeTypeOK, Source, Managed, Variables, Settings, Options, AtStart, Flags
<1>3. asked' = [f \in Settings |-> environ'[f]]
  BY DEF Source
<1>4. RuntimeTypeOK'
  BY <1>1, <1>2, <1>3 DEF RuntimeIInv, RuntimeTypeOK, Variables
<1>5. Kept' /\ BlocksKept'
  BY <1>1, <1>3 DEF RuntimeIInv, Kept, BlocksKept, Settings
<1>6. QED
  BY <1>1, <1>2, <1>4, <1>5 DEF RuntimeIInv, ChildAsAsked, OneFraction

LEMMA ApplyIInv ==
    ASSUME RuntimeIInv, NEW runtime \in [Settings -> Values], Apply(runtime)
    PROVE  RuntimeIInv'
<1>1. /\ python /\ child.at = "none" /\ ~Raises(runtime)
      /\ environ' = IF jax = "absent" THEN Over(environ, runtime) ELSE environ
      /\ config' = IF jax = "absent" THEN config ELSE Over(config, runtime)
      /\ asked' = Over(asked, runtime)
      /\ UNCHANGED <<python, jax, client, blocks, late, child>>
  BY DEF Apply, Ready
<1>2. Options \subseteq Variables /\ Settings \subseteq Variables
  BY DEF Variables, Settings
<1>3. /\ asked' \in [Settings -> Values]
      /\ \A f \in Settings : asked'[f] = IF runtime[f] # Unset THEN runtime[f] ELSE asked[f]
  <2>1. asked \in [Settings -> Values]
    BY DEF RuntimeIInv, RuntimeTypeOK
  <2>2. QED
    BY <1>1, <1>2, <2>1, OverIsTyped
<1>4. CASE jax = "absent"
  <2>1. /\ environ' \in [Variables -> Values]
        /\ \A v \in Variables : environ'[v] =
             IF v \in Settings /\ runtime[v] # Unset THEN runtime[v] ELSE environ[v]
    <3>1. environ \in [Variables -> Values] /\ environ' = Over(environ, runtime)
      BY <1>1, <1>4 DEF RuntimeIInv, RuntimeTypeOK
    <3>2. QED
      BY <3>1, OverIsTyped
  <2>2. OneFraction(environ')
    <3>1. runtime["fraction"] = Unset \/ environ["old"] = Unset
      BY <1>1, <1>4 DEF Raises, RefusesEnvironment
    <3>2. "fraction" \in Settings /\ "old" \in Variables /\ "old" \notin Settings
          /\ "fraction" \in Variables
      BY DEF Settings, Options, AtStart, Flags, Variables
    <3>3. QED
      BY <2>1, <3>1, <3>2 DEF RuntimeIInv, OneFraction
  <2>3. RuntimeTypeOK'
    BY <1>1, <1>3, <1>4, <2>1 DEF RuntimeIInv, RuntimeTypeOK
  <2>4. Kept' /\ BlocksKept'
    BY <1>1, <1>2, <1>3, <1>4, <2>1 DEF RuntimeIInv, Kept, BlocksKept, Settings
  <2>5. QED
    BY <1>1, <2>2, <2>3, <2>4, ParentStep
<1>5. CASE jax # "absent"
  <2>1. /\ config' \in [Options -> Values] /\ environ' = environ
        /\ \A o \in Options : config'[o] = IF runtime[o] # Unset THEN runtime[o] ELSE config[o]
    <3>1. config \in [Options -> Values] /\ config' = Over(config, runtime) /\ environ' = environ
      BY <1>1, <1>5 DEF RuntimeIInv, RuntimeTypeOK
    <3>2. Options \subseteq Settings
      BY DEF Settings
    <3>3. QED
      BY <1>2, <3>1, <3>2, OverIsTyped
  <2>2. /\ \A f \in AtStart : runtime[f] = Unset
        /\ runtime["platforms"] = Unset
        /\ jax = "started" => runtime["devices"] = Unset
    BY <1>1, <1>5 DEF Raises, RefusesLate
  <2>3. RuntimeTypeOK'
    BY <1>1, <1>3, <1>5, <2>1 DEF RuntimeIInv, RuntimeTypeOK
  <2>4. Kept'
    <3>1. "devices" \in Settings /\ "platforms" \in Settings /\ AtStart \subseteq Settings /\ Options \subseteq Settings
      BY DEF Settings, Options
    <3>2. QED
      BY <1>1, <1>3, <1>5, <2>1, <2>2, <3>1 DEF RuntimeIInv, Kept
  <2>5. BlocksKept' /\ OneFraction(environ')
    BY <1>1, <2>1 DEF RuntimeIInv, BlocksKept
  <2>6. QED
    BY <1>1, <2>3, <2>4, <2>5, ParentStep
<1>6. QED
  BY <1>4, <1>5

LEMMA TestRuntimeType ==
    ASSUME RuntimeIInv, NEW requested, NEW count \in {Unset, "0", "8"}
    PROVE  TestRuntime(requested, count) \in [Settings -> Values]
  BY ValuesThere DEF TestRuntime, NoSettings, Settings, Options

\* Importing jax reads its own variables.
LEMMA ImportIInv == ASSUME RuntimeIInv, Import PROVE RuntimeIInv'
<1>1. /\ python /\ child.at = "none" /\ jax = "absent" /\ jax' = "imported"
      /\ config' = [o \in Options |-> environ[o]]
      /\ UNCHANGED <<python, environ, client, blocks, asked, late, child>>
  BY DEF Import, Ready
<1>2. RuntimeTypeOK'
  BY <1>1 DEF RuntimeIInv, RuntimeTypeOK, Variables, Settings
<1>3. Kept' /\ BlocksKept' /\ OneFraction(environ')
  BY <1>1 DEF RuntimeIInv, Kept, BlocksKept
<1>4. QED
  BY <1>1, <1>2, <1>3, ParentStep

LEMMA StartBackendsIInv == ASSUME RuntimeIInv, StartBackends PROVE RuntimeIInv'
<1>1. /\ python /\ child.at = "none" /\ jax = "imported" /\ jax' = "started"
      /\ client' = [f \in Settings |-> IF f \in Options THEN config[f] ELSE environ[f]]
      /\ UNCHANGED <<python, environ, config, blocks, asked, late, child>>
  BY DEF StartBackends, Ready
<1>2. RuntimeTypeOK'
  BY <1>1 DEF RuntimeIInv, RuntimeTypeOK, Variables, Settings
<1>3. Kept'
  BY <1>1 DEF RuntimeIInv, Kept, Settings, Options, AtStart, Flags
<1>4. BlocksKept' /\ OneFraction(environ')
  BY <1>1 DEF RuntimeIInv, BlocksKept
<1>5. QED
  BY <1>1, <1>2, <1>3, <1>4, ParentStep

LEMMA UpdateIInv ==
    ASSUME RuntimeIInv, NEW option \in Options, NEW value \in Values, Update(option, value)
    PROVE  RuntimeIInv'
<1>1. /\ child.at = "none" /\ python /\ jax # "absent" /\ ~(option = "devices" /\ jax = "started")
      /\ config' = [config EXCEPT ![option] = value]
      /\ asked' = [asked EXCEPT ![option] = value]
      /\ late' = (late \/ (jax = "started" /\ option = "platforms"))
      /\ UNCHANGED <<python, environ, jax, client, blocks, child>>
  BY DEF Update, Ready
<1>2. RuntimeTypeOK'
  BY <1>1 DEF RuntimeIInv, RuntimeTypeOK
<1>3. Kept'
  <2>1. option \notin AtStart /\ option \in Settings
    BY DEF Options, AtStart, Flags, Settings
  <2>2. QED
    BY <1>1, <2>1 DEF RuntimeIInv, RuntimeTypeOK, Kept, Settings, Options
<1>4. BlocksKept' /\ OneFraction(environ')
  BY <1>1 DEF RuntimeIInv, BlocksKept
<1>5. QED
  BY <1>1, <1>2, <1>3, <1>4, ParentStep

-----------------------------------------------------------------------------
(* Blocks.                                                                 *)

LEMMA EnterIInv == ASSUME RuntimeIInv, EnterBlock PROVE RuntimeIInv'
<1> DEFINE block == [before |-> config', asked |-> asked]
<1>1. /\ python /\ child.at = "none"
      /\ jax' = IF jax = "absent" THEN "imported" ELSE jax
      /\ config' = IF jax = "absent" THEN [o \in Options |-> environ[o]] ELSE config
      /\ blocks' = Append(blocks, block)
      /\ UNCHANGED <<python, environ, client, asked, late, child>>
  BY DEF EnterBlock, Ready
<1>2. config' \in [Options -> Values] /\ jax' \in {"imported", "started"}
  BY <1>1 DEF RuntimeIInv, RuntimeTypeOK, Variables, Settings
<1>3. block \in Block
  BY <1>2 DEF Block, RuntimeIInv, RuntimeTypeOK
<1>4. RuntimeTypeOK'
  BY <1>1, <1>2, <1>3 DEF RuntimeIInv, RuntimeTypeOK
<1>5. Kept'
  BY <1>1 DEF RuntimeIInv, Kept
<1>6. BlocksKept'
  <2>1. \A o \in Options : block.before[o] = block.asked[o]
    BY <1>1, <1>2, <1>5 DEF Kept
  <2> HIDE DEF block
  <2>2. \A i \in DOMAIN blocks' : blocks'[i] = IF i = Len(blocks) + 1 THEN block ELSE blocks[i]
    BY <1>1, <1>3 DEF RuntimeIInv, RuntimeTypeOK
  <2>3. \A i \in DOMAIN blocks' : i = Len(blocks) + 1 \/ i \in DOMAIN blocks
    BY <1>1, <1>3 DEF RuntimeIInv, RuntimeTypeOK
  <2>4. QED
    BY <1>2, <2>1, <2>2, <2>3 DEF RuntimeIInv, BlocksKept
<1>7. QED
  BY <1>1, <1>4, <1>5, <1>6, ParentStep DEF RuntimeIInv

LEMMA LeaveIInv == ASSUME RuntimeIInv, LeaveBlock PROVE RuntimeIInv'
<1> DEFINE block == blocks[Len(blocks)]
           changed == {o \in Options : config[o] # block.before[o]}
           whole == SetBack(changed) = changed
<1>1. /\ python /\ child.at = "none" /\ blocks # <<>>
      /\ config' = [o \in Options |-> IF o \in SetBack(changed) THEN block.before[o] ELSE config[o]]
      /\ asked' = [f \in Settings |->
                     IF f \in AtStart \/ (~whole /\ f # "x64") THEN asked[f] ELSE block.asked[f]]
      /\ late' = (late \/ (jax = "started" /\ "platforms" \in SetBack(changed)))
      /\ blocks' = SubSeq(blocks, 1, Len(blocks) - 1)
      /\ UNCHANGED <<python, environ, jax, client, child>>
  BY DEF LeaveBlock, Ready
<1>2. block \in Block /\ jax # "absent" /\ Len(blocks) \in DOMAIN blocks
  BY <1>1 DEF RuntimeIInv, RuntimeTypeOK, BlocksKept
<1>3. \A o \in Options : block.before[o] = block.asked[o]
  BY <1>2 DEF RuntimeIInv, BlocksKept
<1>4. blocks' \in Seq(Block) /\ \A i \in DOMAIN blocks' : i \in DOMAIN blocks /\ blocks'[i] = blocks[i]
  BY <1>1 DEF RuntimeIInv, RuntimeTypeOK
<1>5. changed \subseteq Options
  OBVIOUS
<1>6. \A o \in Options : o \notin changed => config[o] = block.before[o]
  OBVIOUS
<1>7. ~whole => jax = "started" /\ "devices" \in changed /\ SetBack(changed) = changed \intersect {"x64"}
  BY DEF SetBack
<1>8. jax = "started" /\ "devices" \in changed => ~whole
  BY DEF SetBack
<1> HIDE DEF block, changed, whole
<1>9. RuntimeTypeOK'
  <2>1. config' \in [Options -> Values] /\ asked' \in [Settings -> Values]
    BY <1>1, <1>2 DEF RuntimeIInv, RuntimeTypeOK, Block, Settings
  <2>2. QED
    BY <1>1, <1>4, <2>1 DEF RuntimeIInv, RuntimeTypeOK
<1>10. \A f \in AtStart : asked'[f] = asked[f]
  BY <1>1 DEF Settings
<1>11. \A o \in Options : config'[o] = asked'[o]
  <2> SUFFICES ASSUME NEW o \in Options PROVE config'[o] = asked'[o]
    OBVIOUS
  <2>1. o \in Settings /\ o \notin AtStart /\ config[o] = asked[o]
    BY <1>2 DEF Settings, Options, AtStart, Flags, RuntimeIInv, Kept
  <2>2. CASE whole
    <3>1. SetBack(changed) = changed
      BY <2>2 DEF whole
    <3>2. QED
      BY <1>1, <1>3, <1>6, <2>1, <2>2, <3>1
  <2>3. CASE ~whole
    BY <1>1, <1>3, <1>6, <1>7, <2>1, <2>3
  <2>4. QED
    BY <2>2, <2>3
<1>12. jax = "started" => asked'["devices"] = asked["devices"]
  <2>1. "devices" \in Options /\ "devices" \in Settings
    BY DEF Options, Settings
  <2>2. CASE jax = "started" /\ "devices" \in changed
    BY <1>1, <1>8, <2>1, <2>2
  <2>3. CASE jax = "started" /\ "devices" \notin changed
    <3>1. config["devices"] = asked["devices"]
      BY <1>2, <2>1 DEF RuntimeIInv, Kept
    <3>2. config["devices"] = block.asked["devices"]
      BY <1>3, <1>6, <2>1, <2>3
    <3>3. QED
      BY <1>1, <2>1, <3>1, <3>2
  <2>4. QED
    BY <2>2, <2>3
<1>125. jax = "started" /\ ~late' => ~late /\ asked'["platforms"] = asked["platforms"]
  <2> SUFFICES ASSUME jax = "started", ~late' PROVE ~late /\ asked'["platforms"] = asked["platforms"]
    OBVIOUS
  <2>1. "platforms" \in Options /\ ~late /\ "platforms" \notin SetBack(changed)
    BY <1>1 DEF Options
  <2>2. config'["platforms"] = config["platforms"] /\ config["platforms"] = asked["platforms"]
    BY <1>1, <1>2, <2>1 DEF RuntimeIInv, Kept
  <2>3. QED
    BY <1>11, <2>1, <2>2
<1>13. Kept'
  <2>1. ~python' => jax' = "absent"
    BY <1>1
  <2>2. \A f \in AtStart : environ'[f] = asked'[f]
    BY <1>1, <1>10 DEF RuntimeIInv, Kept
  <2>3. \A o \in Options : (IF jax' = "absent" THEN environ'[o] ELSE config'[o]) = asked'[o]
    BY <1>1, <1>2, <1>11
  <2>4. jax' = "started" => \A f \in AtStart \union {"devices"} : client'[f] = asked'[f]
    BY <1>1, <1>10, <1>12 DEF RuntimeIInv, Kept
  <2>45. jax' = "started" /\ ~late' => client'["platforms"] = asked'["platforms"]
    BY <1>1, <1>125 DEF RuntimeIInv, Kept
  <2>5. QED
    BY <2>1, <2>2, <2>3, <2>4, <2>45 DEF Kept
<1>14. BlocksKept' /\ OneFraction(environ')
  BY <1>1, <1>2, <1>4 DEF RuntimeIInv, BlocksKept
<1>15. QED
  BY <1>1, <1>9, <1>13, <1>14, ParentStep

-----------------------------------------------------------------------------
(* Children.                                                               *)

LEMMA RunChildIInv ==
    ASSUME RuntimeIInv, NEW runtime \in Runtimes, NEW env \in Environments, RunChild(runtime, env)
    PROVE  RuntimeIInv'
<1> DEFINE chosen == WithSafeDefaults(runtime, env)
           settings == Over(ChildBase(env), chosen)
<1>1. /\ ~RefusesEnvironment(chosen, env) /\ UNCHANGED <<processVars, asked, late>>
      /\ child' = [at |-> "running", runtime |-> runtime, env |-> env, environ |-> settings,
                   said |-> FALSE, file |-> "absent", report |-> "none"]
  BY DEF RunChild, ChildBase
<1>2. runtime \in [Settings -> Values] /\ env \in [Variables -> Values] /\ OneFraction(env)
  BY RuntimeAssumption DEF OneFraction
<1>3. chosen \in [Settings -> Values]
  BY <1>2, ValuesThere DEF WithSafeDefaults
<1>4. \A f \in Settings : chosen[f] =
        IF f = "platforms" THEN (IF runtime[f] = Unset /\ env[f] = Unset THEN "cpu" ELSE runtime[f])
        ELSE IF f = "preallocate" THEN (IF runtime[f] = Unset /\ env[f] = Unset THEN "off" ELSE runtime[f])
        ELSE runtime[f]
  BY <1>2 DEF WithSafeDefaults
<1> HIDE DEF chosen
<1>5. /\ settings \in [Variables -> Values]
      /\ \A v \in Variables : settings[v] = IF v \in Settings /\ chosen[v] # Unset THEN chosen[v] ELSE env[v]
  BY <1>2, <1>3, OverIsTyped DEF ChildBase
<1> HIDE DEF settings
<1>6. \A f \in Settings : settings[f] = IF runtime[f] # Unset THEN runtime[f]
                                        ELSE IF env[f] # Unset THEN env[f]
                                        ELSE IF f = "platforms" THEN "cpu"
                                        ELSE IF f = "preallocate" THEN "off" ELSE Unset
  <2>1. Settings \subseteq Variables /\ "cpu" # Unset /\ "off" # Unset
    BY DEF Variables, Unset
  <2>2. QED
    BY <1>4, <1>5, <2>1
<1>7. OneFraction(settings)
  <2>1. chosen["fraction"] = Unset \/ env["old"] = Unset
    BY <1>1 DEF RefusesEnvironment
  <2>2. "fraction" \in Settings /\ "old" \in Variables /\ "old" \notin Settings
        /\ "fraction" \in Variables
    BY DEF Settings, Options, AtStart, Flags, Variables
  <2>3. QED
    BY <1>2, <1>5, <2>1, <2>2 DEF OneFraction
<1>8. child' \in Child
  BY <1>1, <1>2, <1>5 DEF Child
<1>9. RuntimeTypeOK' /\ Kept' /\ BlocksKept' /\ OneFraction(environ')
  BY <1>1, <1>8 DEF processVars, RuntimeIInv, RuntimeTypeOK, Kept, BlocksKept
<1>10. ChildAsAsked' /\ ~child'.said /\ child'.file # "whole"
  BY <1>1, <1>6, <1>7 DEF ChildAsAsked, OneFraction
<1>11. QED
  BY <1>9, <1>10 DEF RuntimeIInv

\* A child that reports, ends or is over.
LEMMA ChildIInv == ASSUME RuntimeIInv, Report \/ ChildExits \/ ChildIsOver PROVE RuntimeIInv'
<1>1. UNCHANGED <<processVars, asked, late>>
  BY DEF Report, ChildExits, ChildIsOver
<1>2. Kept' /\ BlocksKept' /\ OneFraction(environ')
  BY <1>1 DEF processVars, RuntimeIInv, Kept, BlocksKept
<1>3. CASE ChildIsOver
  <2>1. child' = NoChild /\ child'.at = "none"
    BY <1>3 DEF ChildIsOver, NoChild
  <2>2. QED
    BY <1>1, <1>2, <2>1 DEF processVars, RuntimeIInv, RuntimeTypeOK, ChildAsAsked
<1>4. CASE Report \/ ChildExits
  <2>1. child.at = "running" /\ child \in Child
    BY <1>4 DEF Report, ChildExits, RuntimeIInv, RuntimeTypeOK, NoChild
  <2>2. /\ child' \in Child
        /\ child'.runtime = child.runtime /\ child'.env = child.env /\ child'.environ = child.environ
        /\ child'.file = "whole" <=> child'.said
        /\ child'.at = "exited" => child'.report = IF child'.said THEN "whole" ELSE "none"
    BY <1>4, <2>1 DEF Report, ChildExits, Child, RuntimeIInv
  <2>3. ChildAsAsked'
    BY <2>1, <2>2 DEF ChildAsAsked, RuntimeIInv
  <2>4. RuntimeTypeOK'
    BY <1>1, <2>2 DEF processVars, RuntimeIInv, RuntimeTypeOK
  <2>5. QED
    BY <1>2, <2>2, <2>3, <2>4 DEF RuntimeIInv
<1>5. QED
  BY <1>3, <1>4

LEMMA RuntimeStepIInv == RuntimeIInv /\ [RuntimeNext]_runtimeVars => RuntimeIInv'
<1> SUFFICES ASSUME RuntimeIInv, [RuntimeNext]_runtimeVars PROVE RuntimeIInv'
  OBVIOUS
<1>1. CASE UNCHANGED runtimeVars
  BY <1>1 DEF runtimeVars, processVars, RuntimeIInv, RuntimeTypeOK, Kept, BlocksKept, ChildAsAsked
<1>2. CASE StartPython
  <2>1. RuntimeTypeOK' /\ Kept' /\ BlocksKept'
    BY <1>2 DEF StartPython, RuntimeIInv, RuntimeTypeOK, Kept, BlocksKept
  <2>2. QED
    BY <1>2, <2>1 DEF StartPython, RuntimeIInv, ChildAsAsked
<1>3. ASSUME NEW runtime \in Runtimes, Apply(runtime) PROVE RuntimeIInv'
  BY <1>3, ApplyIInv, RuntimeAssumption
<1>4. ASSUME ApplyForTests PROVE RuntimeIInv'
  BY <1>4, ApplyIInv, TestRuntimeType DEF ApplyForTests
<1>5. ASSUME NEW option \in Options, NEW value \in Updates[option], Update(option, value) PROVE RuntimeIInv'
  BY <1>5, UpdateIInv, RuntimeAssumption
<1>6. ASSUME NEW runtime \in Runtimes, ApplyRaises(runtime) PROVE RuntimeIInv'
  BY <1>1, <1>6 DEF ApplyRaises
<1>7. QED
  BY <1>1, <1>2, <1>3, <1>4, <1>5, <1>6, SourceIInv, ImportIInv, StartBackendsIInv, EnterIInv,
     LeaveIInv, RunChildIInv, ChildIInv DEF RuntimeNext

\* The invariant behind the theorems below: each setting stands where jax reads it
\* next, as it was asked for, and every open block remembers what was asked for
\* (apply_runtime, restored_jax_config).
THEOREM RuntimeInvariance == RuntimeSpec => []RuntimeIInv
<1>1. QED
  BY RuntimeInitIInv, RuntimeStepIInv, PTL DEF RuntimeSpec

\* Jax and its options go by what was last asked for without an error; only platforms
\* that a caller or a block sets once the backends have started are not jax's
\* (apply_runtime, restored_jax_config, the managed file).
THEOREM SettingsAreAsAsked == RuntimeSpec => []AppliedAsAsked
<1>1. RuntimeIInv => AppliedAsAsked
  <2> SUFFICES ASSUME RuntimeIInv PROVE AppliedAsAsked
    OBVIOUS
  <2>1. ASSUME NEW f \in Settings PROVE Actual(f) = asked[f] \/ (f = "platforms" /\ late)
    BY DEF Actual, RuntimeIInv, RuntimeTypeOK, Kept, Settings, Options, AtStart, Flags
  <2>2. QED
    BY <2>1 DEF AppliedAsAsked, RuntimeIInv, Kept, OneFraction
<1>2. QED
  BY <1>1, RuntimeInvariance, PTL

\* A child's settings are its caller's whatever its parent's are, and its report is
\* read whole or not at all (run_python, report).
THEOREM ChildrenAreAsAsked == RuntimeSpec => []ChildAsAsked
<1>1. RuntimeIInv => ChildAsAsked
  BY DEF RuntimeIInv
<1>2. QED
  BY <1>1, RuntimeInvariance, PTL

-----------------------------------------------------------------------------
(* CallRecorder: what the blocks count.                                    *)

-----------------------------------------------------------------------------
(* The keys of an item, and what it should add.                            *)

LEMMA PrefixMeans ==
    ASSUME NEW s \in Seq(STRING), NEW t \in Seq(STRING)
    PROVE  IsPrefix(s, t) <=> Len(s) <= Len(t) /\ \A i \in 1..Len(s) : s[i] = t[i]
<1>1. Len(s) \in Nat /\ Len(t) \in Nat /\ DOMAIN s = 1..Len(s) /\ DOMAIN t = 1..Len(t)
  OBVIOUS
<1>2. ASSUME Len(s) <= Len(t)
      PROVE  SubSeq(s, 1, Len(s)) = SubSeq(t, 1, Len(s)) <=> \A i \in 1..Len(s) : s[i] = t[i]
  <2> DEFINE n == Len(s)
  <2>1. SubSeq(s, 1, n) = [i \in 1..n |-> s[i]]
    BY <1>1, <1>2
  <2>2. SubSeq(t, 1, n) = [i \in 1..n |-> t[i]]
    BY <1>1, <1>2
  <2> HIDE DEF n
  <2>3. [i \in 1..n |-> s[i]] = [i \in 1..n |-> t[i]] <=> \A i \in 1..n : s[i] = t[i]
    OBVIOUS
  <2>4. QED
    BY <2>1, <2>2, <2>3 DEF n
<1>3. QED
  BY <1>1, <1>2 DEF IsPrefix

\* Of two prefixes of a path the shorter is one of the longer.
LEMMA PrefixOfPrefix ==
    ASSUME NEW s \in Seq(STRING), NEW t \in Seq(STRING), NEW u \in Seq(STRING),
           IsPrefix(s, u), IsPrefix(t, u), Len(s) <= Len(t)
    PROVE  IsPrefix(s, t)
<1>1. \A i \in 1..Len(s) : s[i] = u[i]
  BY PrefixMeans
<1>2. \A i \in 1..Len(t) : t[i] = u[i]
  BY PrefixMeans
<1>3. \A i \in 1..Len(s) : s[i] = t[i]
  <2>1. Len(s) \in Nat /\ Len(t) \in Nat
    OBVIOUS
  <2>2. \A i \in 1..Len(s) : i \in 1..Len(t)
    BY <2>1
  <2>3. QED
    BY <1>1, <1>2, <2>2
<1>4. QED
  BY <1>3, PrefixMeans

LEMMA PrefixOfEach ==
    ASSUME NEW s \in Seq(STRING), NEW t \in Seq(STRING), IsPrefix(s, t), IsPrefix(t, s)
    PROVE  s = t
<1>1. Len(s) = Len(t) /\ \A i \in 1..Len(s) : s[i] = t[i]
  BY PrefixMeans
<1>2. QED
  BY <1>1

LEMMA RootsAre ==
    \A i \in DOMAIN Roots : i \in Nat /\ Roots[i].path \in Seq(STRING)
<1> DEFINE Root == [path : Seq(STRING), package : STRING]
<1>1. Roots \in Seq(Root)
  BY RecorderAssumption
<1> HIDE DEF Root
<1>2. \A i \in DOMAIN Roots : i \in Nat /\ Roots[i] \in Root
  BY <1>1
<1>3. \A r \in Root : r.path \in Seq(STRING)
  BY DEF Root
<1>4. QED
  BY <1>2, <1>3

Under(item) == {i \in DOMAIN Roots : IsPrefix(Roots[i].path, item.file)}

\* There is a first root: the longest, and of those the first listed.
LEMMA FirstRoot ==
    ASSUME NEW item \in Items, item.kind = "start", Under(item) # {}
    PROVE  \E i \in Under(item) : \A j \in Under(item) : RootBefore(i, j)
<1> DEFINE U == Under(item)
<1>1. /\ item.file \in Seq(STRING)
      /\ \A i \in U : i \in Nat /\ Roots[i].path \in Seq(STRING)
                      /\ Len(Roots[i].path) \in Nat /\ Len(Roots[i].path) <= Len(item.file)
  <2>1. item.file \in Seq(STRING)
    BY RecorderAssumption
  <2>2. \A i \in U : i \in Nat /\ Roots[i].path \in Seq(STRING)
    BY RootsAre DEF Under
  <2>3. \A i \in U : Len(Roots[i].path) <= Len(item.file)
    BY DEF Under, IsPrefix
  <2>4. QED
    BY <2>1, <2>2, <2>3
<1>2. U # {}
  OBVIOUS
<1> HIDE DEF U
<1> DEFINE n == Len(item.file)
<1> DEFINE T == {n - Len(Roots[i].path) : i \in U}
<1>3. n \in Nat
  BY <1>1
<1>4. PICK d \in T : \A e \in T : d <= e
  <2>1. \A i \in U : n - Len(Roots[i].path) \in Nat
    BY <1>1, <1>3
  <2>2. T \subseteq Nat /\ T # {}
    BY <1>2, <2>1
  <2> HIDE DEF T
  <2>3. QED
    BY <2>2, LeastNatural
<1> DEFINE L == {i \in U : n - Len(Roots[i].path) = d}
<1>5. PICK i \in L : \A j \in L : i <= j
  <2>1. L \subseteq Nat /\ L # {}
    BY <1>1, <1>4
  <2> HIDE DEF L
  <2>2. QED
    BY <2>1, LeastNatural
<1>6. \A j \in U : RootBefore(i, j)
  <2> TAKE j \in U
  <2>1. i \in U /\ n - Len(Roots[i].path) = d
    OBVIOUS
  <2>2. n - Len(Roots[i].path) <= n - Len(Roots[j].path)
    BY <1>4, <2>1
  <2>3. Len(Roots[i].path) = Len(Roots[j].path) => i <= j
    BY <1>5, <2>1
  <2>4. Len(Roots[i].path) \in Nat /\ Len(Roots[j].path) \in Nat
    BY <1>1, <2>1
  <2>5. Len(Roots[i].path) >= Len(Roots[j].path)
    BY <1>3, <2>2, <2>4
  <2>6. QED
    BY <2>3, <2>4, <2>5 DEF RootBefore
<1>7. QED
  BY <1>6 DEF U

\* The longest root an item lies under is the innermost, and no other root is
\* unless it is the same directory.
LEMMA AmountIsExpected ==
    ASSUME NEW item \in Items
    PROVE  Amount(item) = Expected(item)
<1>1. CASE item.kind = "call"
  BY <1>1 DEF Expected
<1>2. CASE item.kind = "start"
  <2> DEFINE holds(r) == IsPrefix(r.path, item.file)
             Innermost(r) == holds(r) /\ \A s \in ToSet(Roots) : holds(s) => IsPrefix(s.path, r.path)
             excluded == \E p \in Skipped : IsPrefix(p, item.file)
             packages == {r.package : r \in {x \in ToSet(Roots) : Innermost(x)}}
             first == CHOOSE i \in Under(item) : \A j \in Under(item) : RootBefore(i, j)
  <2>1. /\ item.file \in Seq(STRING)
        /\ \A i \in DOMAIN Roots : Roots[i].path \in Seq(STRING)
        /\ ToSet(Roots) = {Roots[i] : i \in DOMAIN Roots}
    <3>1. item.file \in Seq(STRING)
      BY <1>2, RecorderAssumption
    <3>2. QED
      BY <3>1, RootsAre DEF ToSet
  <2>2. CASE Under(item) = {}
    <3>1. packages = {}
      BY <2>1, <2>2 DEF Under
    <3>2. KeysOf(item) = IF excluded THEN {} ELSE {"other"}
      BY <2>2 DEF KeysOf, Under
    <3> HIDE DEF packages, excluded
    <3>3. QED
      BY <1>2, <3>1, <3>2 DEF Amount, Expected, packages, excluded
  <2>3. CASE Under(item) # {}
    <3>1. first \in Under(item) /\ \A j \in Under(item) : RootBefore(first, j)
      BY <1>2, <2>3, FirstRoot
    <3> HIDE DEF first
    <3>2. first \in DOMAIN Roots /\ Roots[first] \in ToSet(Roots) /\ holds(Roots[first])
      BY <2>1, <3>1 DEF Under
    <3>3. \A j \in Under(item) : IsPrefix(Roots[j].path, Roots[first].path)
      <4> TAKE j \in Under(item)
      <4>1. j \in DOMAIN Roots /\ holds(Roots[j])
        BY DEF Under
      <4>2. Len(Roots[j].path) <= Len(Roots[first].path)
        <5>1. Len(Roots[j].path) \in Nat /\ Len(Roots[first].path) \in Nat
          BY <2>1, <3>2, <4>1
        <5>2. QED
          BY <3>1, <5>1 DEF RootBefore
      <4>3. QED
        BY <2>1, <3>2, <4>1, <4>2, PrefixOfPrefix
    <3>4. Innermost(Roots[first])
      BY <2>1, <3>2, <3>3 DEF Under
    <3>5. \A r \in ToSet(Roots) : Innermost(r) => r.package = Roots[first].package
      <4> TAKE r \in ToSet(Roots)
      <4> HAVE Innermost(r)
      <4>1. PICK j \in DOMAIN Roots : r = Roots[j]
        BY <2>1
      <4>2. IsPrefix(Roots[first].path, Roots[j].path) /\ IsPrefix(Roots[j].path, Roots[first].path)
        BY <3>2, <3>4, <4>1
      <4>3. Roots[j].path = Roots[first].path
        BY <2>1, <3>2, <4>2, PrefixOfEach
      <4>4. QED
        BY <3>2, <4>1, <4>3, RecorderAssumption
    <3>6. packages = {Roots[first].package}
      BY <3>2, <3>4, <3>5
    <3>7. KeysOf(item) = IF excluded THEN {}
                         ELSE IF Roots[first].package \in Named
                         THEN {Roots[first].package, item.qualname} ELSE {Roots[first].package}
      BY <2>3 DEF KeysOf, Under, first
    <3> HIDE DEF packages, excluded
    <3> DEFINE names == IF packages \intersect Named # {} THEN {item.qualname} ELSE {}
    <3>8. names = IF Roots[first].package \in Named THEN {item.qualname} ELSE {}
      BY <3>6
    <3>9. KeysOf(item) = IF excluded THEN {} ELSE packages \union names
      BY <3>6, <3>7, <3>8
    <3> HIDE DEF names
    <3>10. Expected(item) =
             [k \in Keys |->
                IF ~excluded /\ (\/ k \in packages \union names
                                 \/ k = "other" /\ packages = {}) THEN 1 ELSE 0]
      BY <1>2 DEF Expected, packages, excluded, names
    <3>11. Amount(item) = [k \in Keys |-> IF k \in KeysOf(item) THEN 1 ELSE 0]
      BY <1>2 DEF Amount
    <3>12. QED
      BY <3>6, <3>9, <3>10, <3>11
  <2>4. QED
    BY <2>2, <2>3
<1>3. QED
  BY <1>1, <1>2, RecorderAssumption

LEMMA AmountIsCounter == \A item \in Items : Amount(item) \in [Keys -> Int]
<1> TAKE item \in Items
<1>1. item.kind = "start" \/ \A k \in DOMAIN item.weights : item.weights[k] \in Int
  BY RecorderAssumption
<1>2. QED
  BY <1>1 DEF Amount

-----------------------------------------------------------------------------
(* The invariant.                                                          *)

RecStages == {"unopened", "looking", "claiming", "body", "last", "over"}
Counters == [Keys -> Int]

\* A thread that is telling the tools of an item.
IsEvent(e) ==
    /\ e = [item |-> e.item, todo |-> e.todo, at |-> e.at, seen |-> e.seen]
    /\ e.item \in Items /\ e.todo \subseteq Blocks /\ e.todo # {}
    /\ e.at \in {"deliver", "keys", "lock", "add"}

RecTypeOK ==
    /\ running \in SUBSET RecThreads
    /\ ident \in [RecThreads -> RecThreads \union {"none"}]
    /\ owner \in [1..ToolIds -> -1..Depth]
    /\ collecting \in BOOLEAN
    /\ stage \in [Blocks -> RecStages]
    /\ looking \in [Blocks -> 1..(ToolIds + 1)]
    /\ before \in [Blocks -> SUBSET RecThreads]
    /\ wasOn \in [Blocks -> BOOLEAN]
    /\ known \in [Blocks -> SUBSET Items]
    /\ failures \in [Blocks -> BOOLEAN]
    /\ counts \in [Blocks -> Counters]
    /\ lock \in [Blocks -> RecThreads \union {"free"}]
    /\ event = [t \in RecThreads |-> event[t]]
    /\ \A t \in RecThreads :
         IF event[t].at = "idle" THEN event[t] = NoEvent ELSE IsEvent(event[t])
    /\ done \in 0..MaxItems
    /\ due \in [Blocks -> Counters]

Open(b) == stage[b] \notin {"unopened", "over"}

\* A block that is not over is inside the bodies of those around it, and found the
\* collector off.
Nesting ==
    /\ \A b \in Blocks : Open(b) => \A c \in Blocks : c < b => stage[c] = "body"
    /\ \A b \in Blocks : b > 1 => ~wasOn[b]
    /\ (\E b \in Blocks : Open(b)) => ~collecting
    /\ stage[1] = "over" => collecting = wasOn[1]

\* The ids held are those of the blocks that run, the one each came to.
Holding ==
    /\ \A i \in 1..ToolIds : owner[i] > 0 => Delivers(owner[i]) /\ looking[owner[i]] = i
    /\ \A b \in Blocks : Delivers(b) => looking[b] <= ToolIds /\ owner[looking[b]] = b
    /\ \A b \in Blocks : stage[b] = "claiming" => looking[b] <= ToolIds

\* Only a block that got its id is told; a thread that adds has the lock of the block
\* it adds to, and has seen its counter.
Callbacks ==
    \A t \in RecThreads :
        /\ \A b \in event[t].todo : stage[b] \in {"body", "last", "over"}
        /\ event[t].at = "add" => /\ lock[Current(t)] = t
                                  /\ event[t].seen = counts[Current(t)]
RecIInv == RecTypeOK /\ Nesting /\ Holding /\ Callbacks /\ CountsExact

LEMMA InitOrder == RecInit => RecTypeOK /\ Nesting /\ Holding /\ Callbacks
<1> SUFFICES ASSUME RecInit PROVE RecTypeOK /\ Nesting /\ Holding /\ Callbacks
  OBVIOUS
<1>1. \A t \in RecThreads : event[t] = NoEvent /\ event[t].at = "idle" /\ event[t].todo = {}
  BY DEF RecInit, NoEvent
<1>2. RecTypeOK
  <2>1. ident \in [RecThreads -> RecThreads \union {"none"}] /\ running \in SUBSET RecThreads
    BY RecorderAssumption DEF RecInit
  <2>2. owner \in [1..ToolIds -> -1..Depth] /\ looking \in [Blocks -> 1..(ToolIds + 1)]
    BY RecorderAssumption DEF RecInit
  <2>3. counts \in [Blocks -> Counters] /\ due \in [Blocks -> Counters]
    BY DEF RecInit, Counters
  <2>4. event = [t \in RecThreads |-> event[t]]
    BY DEF RecInit
  <2>5. done \in 0..MaxItems
    BY RecorderAssumption DEF RecInit
  <2>6. QED
    BY <1>1, <2>1, <2>2, <2>3, <2>4, <2>5 DEF RecInit, RecTypeOK, RecStages
<1>3. \A b \in Blocks : stage[b] = "unopened" /\ ~wasOn[b]
  BY DEF RecInit
<1>4. 1 \in Blocks
  BY RecorderAssumption DEF Blocks
<1>5. \A i \in 1..ToolIds : ~(owner[i] > 0)
  BY DEF RecInit
<1>6. Nesting
  BY <1>3, <1>4 DEF Nesting, Open
<1>7. Holding
  <2>1. \A b \in Blocks : ~Delivers(b) /\ stage[b] # "claiming"
    BY <1>3 DEF Delivers
  <2>2. QED
    BY <1>5, <2>1 DEF Holding
<1>8. Callbacks
  BY <1>1 DEF Callbacks
<1>9. QED
  BY <1>2, <1>6, <1>7, <1>8

-----------------------------------------------------------------------------
(* The block a thread is telling.                                          *)

LEMMA CurrentIn ==
    ASSUME RecTypeOK, NEW t \in RecThreads, event[t].at # "idle"
    PROVE  Current(t) \in event[t].todo /\ Current(t) \in Blocks
<1>1. event[t].todo # {} /\ event[t].todo \subseteq Blocks
  <2>1. IsEvent(event[t])
    BY DEF RecTypeOK
  <2>2. QED
    BY <2>1 DEF IsEvent
<1>2. \A b \in Blocks : looking[b] \in Nat
  BY DEF RecTypeOK
<1> DEFINE T == {looking[b] : b \in event[t].todo}
<1>3. PICK n \in T : \A m \in T : n <= m
  <2>1. T \subseteq Nat /\ T # {}
    BY <1>1, <1>2
  <2> HIDE DEF T
  <2>2. QED
    BY <2>1, LeastNatural
<1>4. \E b \in event[t].todo : \A c \in event[t].todo : looking[b] <= looking[c]
  BY <1>3
<1>5. Current(t) \in event[t].todo
  BY <1>4 DEF Current
<1>6. QED
  BY <1>1, <1>5

\* It is another one only when the thread has turned to another.
LEMMA CurrentStays ==
    ASSUME NEW t \in RecThreads, event'[t].todo = event[t].todo,
           \A b \in event[t].todo : looking'[b] = looking[b]
    PROVE  Current(t)' = Current(t)
<1> DEFINE T == event[t].todo
<1>1. Current(t)' = CHOOSE b \in T : \A c \in T : looking'[b] <= looking'[c]
  BY DEF Current
<1>2. Current(t) = CHOOSE b \in T : \A c \in T : looking[b] <= looking[c]
  BY DEF Current
<1> HIDE DEF T
<1>3. \A b \in T : looking'[b] = looking[b]
  BY DEF T
<1>4. QED
  BY <1>1, <1>2, <1>3

-----------------------------------------------------------------------------
(* The steps keep the types.                                               *)

LEMMA ThreadTypes ==
    ASSUME RecTypeOK, NEW t \in RecThreads, StartThread(t) \/ EndThread(t)
    PROVE  RecTypeOK'
<1> USE DEF RecTypeOK, countVars, blockVars
<1>1. CASE StartThread(t)
  <2>1. running' \in SUBSET RecThreads
    BY <1>1 DEF StartThread
  <2>2. ident' \in [RecThreads -> RecThreads \union {"none"}]
    <3> DEFINE id == IF Early \subseteq running THEN t ELSE CHOOSE e \in Early : e \notin running
    <3>1. id \in RecThreads
      BY RecorderAssumption
    <3>2. ident' = [ident EXCEPT ![t] = id]
      BY <1>1 DEF StartThread
    <3> HIDE DEF id
    <3>3. QED
      BY <3>1, <3>2
  <2>3. QED
    BY <1>1, <2>1, <2>2 DEF StartThread
<1>2. CASE EndThread(t)
  BY <1>2 DEF EndThread
<1>3. QED
  BY <1>1, <1>2

LEMMA BlockTypes ==
    ASSUME RecTypeOK, Holding, NEW b \in Blocks,
           OpenBlock(b) \/ FindTool(b) \/ ClaimTool(b) \/ EndBody(b) \/ CloseBlock(b)
    PROVE  RecTypeOK'
<1> USE DEF RecTypeOK, threadVars, countVars, RecStages
<1>0. b \in 0..Depth /\ b \in -1..Depth /\ 0 \in -1..Depth
  BY RecorderAssumption DEF Blocks
<1>1. CASE OpenBlock(b)
  BY <1>1 DEF OpenBlock
<1>2. CASE FindTool(b)
  <2>1. looking[b] <= ToolIds => looking[b] + 1 \in 1..(ToolIds + 1)
    BY RecorderAssumption
  <2>2. looking' \in [Blocks -> 1..(ToolIds + 1)]
    BY <1>2, <2>1 DEF FindTool
  <2>3. collecting' \in BOOLEAN
    BY <1>2 DEF FindTool, Restore
  <2>4. stage' \in [Blocks -> RecStages]
    BY <1>2 DEF FindTool
  <2>5. QED
    BY <1>2, <2>2, <2>3, <2>4 DEF FindTool
<1>3. CASE ClaimTool(b) /\ looking[b] <= ToolIds
  <2>1. looking[b] + 1 \in 1..(ToolIds + 1) /\ looking[b] \in 1..ToolIds
    BY <1>3, RecorderAssumption
  <2>2. looking' \in [Blocks -> 1..(ToolIds + 1)]
    BY <1>3, <2>1 DEF ClaimTool
  <2>3. owner' \in [1..ToolIds -> -1..Depth]
    <3>1. owner' = owner \/ owner' = [owner EXCEPT ![looking[b]] = b]
      BY <1>3 DEF ClaimTool
    <3> DEFINE R == -1..Depth
    <3>2. owner \in [1..ToolIds -> R] /\ b \in R
      BY <1>0
    <3> HIDE DEF R, RecTypeOK
    <3>3. QED
      BY <3>1, <3>2 DEF R
  <2>4. stage' \in [Blocks -> RecStages]
    <3>1. \/ stage' = [stage EXCEPT ![b] = "body"]
          \/ stage' = [stage EXCEPT ![b] = "looking"]
      BY <1>3 DEF ClaimTool
    <3>2. QED
      BY <3>1
  <2>5. collecting' \in BOOLEAN /\ before' \in [Blocks -> SUBSET RecThreads]
        /\ wasOn' \in [Blocks -> BOOLEAN] /\ done' \in 0..MaxItems
    BY <1>3 DEF ClaimTool
  <2>6. UNCHANGED <<threadVars, countVars, event>>
    BY <1>3 DEF ClaimTool
  <2>7. QED
    BY <2>2, <2>3, <2>4, <2>5, <2>6
<1>4. CASE EndBody(b)
  BY <1>4 DEF EndBody
<1>5. CASE CloseBlock(b)
  <2>1. collecting' \in BOOLEAN
    BY <1>5 DEF CloseBlock, Restore
  <2>2. owner' \in [1..ToolIds -> -1..Depth]
    BY <1>0, <1>5 DEF CloseBlock
  <2>3. stage' \in [Blocks -> RecStages]
    BY <1>5 DEF CloseBlock
  <2>4. QED
    BY <1>5, <2>1, <2>2, <2>3 DEF CloseBlock
<1>6. ClaimTool(b) => looking[b] <= ToolIds
  BY DEF Holding, ClaimTool
<1>7. QED
  BY <1>1, <1>2, <1>3, <1>4, <1>5, <1>6

\* What Through leaves of a thread's event.
Rest(t) == event[t].todo \ {Current(t)}
EventAfter(t) == IF Rest(t) = {} THEN NoEvent
            ELSE [event[t] EXCEPT !.todo = Rest(t), !.at = "deliver"]

LEMMA Plain ==
    ASSUME RecTypeOK, NEW t \in RecThreads
    PROVE  /\ event[t].at = "idle" => event[t] = NoEvent
           /\ event[t].at # "idle" => IsEvent(event[t])
  BY DEF RecTypeOK

LEMMA IdleIsNoEvent == NoEvent.at = "idle" /\ NoEvent.todo = {} /\ ~(NoEvent.at \in {"keys", "lock", "add"})
  BY DEF NoEvent

LEMMA ThroughMeans ==
    ASSUME RecTypeOK, NEW t \in RecThreads, Through(t), event[t].at # "idle"
    PROVE  /\ event' = [event EXCEPT ![t] = EventAfter(t)]
           /\ EventAfter(t) = NoEvent \/ IsEvent(EventAfter(t))
           /\ EventAfter(t).at \in {"idle", "deliver"}
           /\ EventAfter(t).todo \subseteq event[t].todo
<1>1. event' = [event EXCEPT ![t] = EventAfter(t)]
  BY DEF Through, EventAfter, Rest, RecTypeOK
<1>2. IsEvent(event[t])
  BY Plain
<1>3. CASE Rest(t) = {}
  BY <1>1, <1>3, IdleIsNoEvent DEF EventAfter
<1>4. CASE Rest(t) # {}
  <2>1. EventAfter(t) = [event[t] EXCEPT !.todo = Rest(t), !.at = "deliver"]
    BY <1>4 DEF EventAfter
  <2>2. EventAfter(t) = [item |-> event[t].item, todo |-> Rest(t), at |-> "deliver", seen |-> event[t].seen]
    BY <1>2, <2>1 DEF IsEvent
  <2>3. Rest(t) \subseteq event[t].todo /\ event[t].todo \subseteq Blocks /\ event[t].item \in Items
    BY <1>2 DEF IsEvent, Rest
  <2>4. QED
    BY <1>1, <1>4, <2>2, <2>3 DEF IsEvent
<1>5. QED
  BY <1>3, <1>4

\* A callback's step is a step of one thread, whose new event is one.
LEMMA EventStep ==
    ASSUME RecTypeOK, NEW t \in RecThreads,
           \/ \E item \in Items : Begin(t, item)
           \/ Deliver(t) \/ Work(t) \/ EnterAdd(t) \/ Add(t)
    PROVE  \E e : /\ event' = [event EXCEPT ![t] = e]
                  /\ e = NoEvent \/ IsEvent(e)
                  /\ \A b \in e.todo : b \in event[t].todo \/ Delivers(b)
                  /\ e.at = "add" => EnterAdd(t) /\ e.seen = counts[Current(t)]
                  /\ e.at # "idle" /\ e.at # "deliver" => e.todo = event[t].todo
                                                          /\ e.item = event[t].item
<1> DEFINE Fits(e) ==
        /\ event' = [event EXCEPT ![t] = e]
        /\ e = NoEvent \/ IsEvent(e)
        /\ \A b \in e.todo : b \in event[t].todo \/ Delivers(b)
        /\ e.at = "add" => EnterAdd(t) /\ e.seen = counts[Current(t)]
        /\ e.at # "idle" /\ e.at # "deliver" => e.todo = event[t].todo
                                                /\ e.item = event[t].item
<1> SUFFICES \E e : Fits(e)
  OBVIOUS
<1>1. ASSUME NEW item \in Items, Begin(t, item)
      PROVE  \E e : Fits(e)
  <2> DEFINE e == [item |-> item, todo |-> {b \in Blocks : Delivers(b)}, at |-> "deliver", seen |-> 0]
  <2>1. event' = [event EXCEPT ![t] = e] /\ {b \in Blocks : Delivers(b)} # {}
    BY <1>1 DEF Begin
  <2>2. IsEvent(e)
    BY <2>1 DEF IsEvent
  <2>3. Fits(e)
    BY <2>1, <2>2
  <2>4. QED
    BY <2>3
<1>2. ASSUME Through(t), event[t].at # "idle"
      PROVE  Fits(EventAfter(t))
  <2>1. /\ event' = [event EXCEPT ![t] = EventAfter(t)]
        /\ EventAfter(t) = NoEvent \/ IsEvent(EventAfter(t))
        /\ EventAfter(t).at \in {"idle", "deliver"}
        /\ EventAfter(t).todo \subseteq event[t].todo
    BY <1>2, ThroughMeans
  <2>2. QED
    BY <2>1
<1>3. ASSUME event[t].at # "idle", NEW a \in {"keys", "lock"},
             event' = [event EXCEPT ![t].at = a]
      PROVE  Fits([event[t] EXCEPT !.at = a])
  <2> DEFINE e == [event[t] EXCEPT !.at = a]
  <2>1. IsEvent(event[t])
    BY <1>3, Plain
  <2>2. e = [item |-> event[t].item, todo |-> event[t].todo, at |-> a, seen |-> event[t].seen]
    BY <2>1 DEF IsEvent
  <2>3. event' = [event EXCEPT ![t] = e]
    BY <1>3
  <2> HIDE DEF e
  <2>4. e.item = event[t].item /\ e.todo = event[t].todo /\ e.at = a /\ e.seen = event[t].seen
    BY <2>2
  <2>5. IsEvent(e)
    BY <2>1, <2>2, <2>4 DEF IsEvent
  <2>6. Fits(e)
    BY <2>3, <2>4, <2>5
  <2>7. QED
    BY <2>6 DEF e
<1>4. CASE Deliver(t)
  <2>1. event[t].at # "idle"
    BY <1>4 DEF Deliver
  <2>2. Through(t) \/ \E a \in {"lock", "keys"} : event' = [event EXCEPT ![t].at = a]
    <3> DEFINE a == IF event[t].item.kind = "start" /\ event[t].item \in known[Current(t)]
                    THEN "lock" ELSE "keys"
    <3>1. Through(t) \/ event' = [event EXCEPT ![t].at = a]
      BY <1>4 DEF Deliver
    <3>2. a \in {"lock", "keys"}
      OBVIOUS
    <3> HIDE DEF a
    <3>3. QED
      BY <3>1, <3>2
  <2>3. QED
    BY <1>2, <1>3, <2>1, <2>2
<1>5. CASE Work(t)
  <2>1. event[t].at # "idle"
    BY <1>5 DEF Work
  <2>2. event' = [event EXCEPT ![t] = NoEvent] \/ event' = [event EXCEPT ![t].at = "lock"]
    BY <1>5 DEF Work
  <2>3. CASE event' = [event EXCEPT ![t] = NoEvent]
    <3>1. Fits(NoEvent)
      BY <2>3, IdleIsNoEvent
    <3>2. QED
      BY <3>1
  <2>4. QED
    BY <1>3, <2>1, <2>2, <2>3
<1>6. CASE EnterAdd(t)
  <2> DEFINE e == [item |-> event[t].item, todo |-> event[t].todo, at |-> "add", seen |-> counts[Current(t)]]
  <2>1. IsEvent(event[t])
    BY <1>6, Plain DEF EnterAdd
  <2>2. event' = [event EXCEPT ![t].at = "add", ![t].seen = counts[Current(t)]]
    BY <1>6 DEF EnterAdd
  <2>3. event' = [event EXCEPT ![t] = e]
    <3>1. event = [u \in RecThreads |-> event[u]]
      BY DEF RecTypeOK
    <3>2. event[t] = [item |-> event[t].item, todo |-> event[t].todo, at |-> event[t].at,
                      seen |-> event[t].seen]
      BY <2>1 DEF IsEvent
    <3>3. event'[t] = e
      BY <2>2, <3>1, <3>2
    <3>4. \A u \in RecThreads : u # t => event'[u] = event[u]
      BY <2>2, <3>1
    <3>5. event' = [u \in RecThreads |-> event'[u]]
      BY <2>2, <3>1
    <3> HIDE DEF e
    <3>6. QED
      BY <3>1, <3>3, <3>4, <3>5
  <2>4. IsEvent(e)
    BY <2>1 DEF IsEvent
  <2>5. e.item = event[t].item /\ e.todo = event[t].todo /\ e.at = "add" /\ e.seen = counts[Current(t)]
    OBVIOUS
  <2> HIDE DEF e
  <2>6. Fits(e)
    BY <1>6, <2>3, <2>4, <2>5
  <2>7. QED
    BY <2>6
<1>7. CASE Add(t)
  <2>1. event[t].at # "idle" /\ Through(t)
    BY <1>7 DEF Add
  <2>2. QED
    BY <1>2, <2>1
<1>8. QED
  BY <1>1, <1>4, <1>5, <1>6, <1>7

LEMMA EventTypes ==
    ASSUME RecTypeOK, Callbacks, NEW t \in RecThreads,
           \/ \E item \in Items : Begin(t, item)
           \/ Deliver(t) \/ Work(t) \/ EnterAdd(t) \/ Add(t)
    PROVE  RecTypeOK'
<1>1. PICK e : event' = [event EXCEPT ![t] = e] /\ (e = NoEvent \/ IsEvent(e))
  BY EventStep
<1>2. event' = [u \in RecThreads |-> event'[u]]
  BY <1>1 DEF RecTypeOK
<1>3. \A u \in RecThreads : IF event'[u].at = "idle" THEN event'[u] = NoEvent ELSE IsEvent(event'[u])
  <2>1. e.at = "idle" => e = NoEvent
    BY <1>1 DEF IsEvent
  <2>2. event'[t] = e /\ \A u \in RecThreads : u # t => event'[u] = event[u]
    BY <1>1 DEF RecTypeOK
  <2>3. QED
    BY <1>1, <2>1, <2>2, IdleIsNoEvent, Plain
<1>4. UNCHANGED <<threadVars, blockVars, owner>>
  BY DEF Begin, Deliver, Work, EnterAdd, Add
<1>5. done' \in 0..MaxItems
  <2>1. done' = done \/ (done < MaxItems /\ done' = done + 1)
    BY DEF Begin, Deliver, Work, EnterAdd, Add
  <2>2. done \in 0..MaxItems /\ MaxItems \in Nat
    BY RecorderAssumption DEF RecTypeOK
  <2>3. QED
    BY <2>1, <2>2
<1>6. event[t].at # "idle" => Current(t) \in Blocks /\ event[t].item \in Items
  BY CurrentIn, Plain DEF IsEvent
<1>7. known' \in [Blocks -> SUBSET Items] /\ failures' \in [Blocks -> BOOLEAN]
  <2>1. known \in [Blocks -> SUBSET Items] /\ failures \in [Blocks -> BOOLEAN]
    BY DEF RecTypeOK
  <2>2. CASE Work(t)
    <3>1. event[t].item \in Items /\ Current(t) \in Blocks
      BY <1>6, <2>2 DEF Work
    <3>2. known' = known \/ known' = [known EXCEPT ![Current(t)] = known[Current(t)] \union {event[t].item}]
      BY <2>1, <2>2 DEF Work
    <3>3. failures' = failures \/ failures' = [failures EXCEPT ![Current(t)] = TRUE]
      BY <2>2 DEF Work
    <3>4. QED
      BY <2>1, <3>1, <3>2, <3>3
  <2>3. CASE ~Work(t)
    BY <2>1, <2>3 DEF Begin, Deliver, EnterAdd, Add, countVars
  <2>4. QED
    BY <2>2, <2>3
<1>8. counts' \in [Blocks -> Counters] /\ lock' \in [Blocks -> RecThreads \union {"free"}]
  <2>1. counts \in [Blocks -> Counters] /\ lock \in [Blocks -> RecThreads \union {"free"}]
    BY DEF RecTypeOK
  <2>2. CASE Add(t)
    <3>1. event[t].item \in Items /\ Current(t) \in Blocks
      BY <1>6, <2>2 DEF Add
    <3>2. event[t].seen \in Counters
      BY <2>1, <2>2, <3>1 DEF Add, Callbacks
    <3>3. Plus(event[t].seen, Amount(event[t].item)) \in Counters
      BY <3>1, <3>2, AmountIsCounter DEF Plus, Counters
    <3>4. QED
      BY <2>1, <2>2, <3>3 DEF Add
  <2>3. CASE EnterAdd(t)
    BY <2>1, <2>3 DEF EnterAdd
  <2>4. CASE ~Add(t) /\ ~EnterAdd(t)
    BY <2>1, <2>4 DEF Begin, Deliver, Work, countVars
  <2>5. QED
    BY <2>2, <2>3, <2>4
<1>9. due' \in [Blocks -> Counters]
  <2>1. due \in [Blocks -> Counters]
    BY DEF RecTypeOK
  <2>2. CASE Deliver(t)
    <3>1. event[t].item \in Items /\ Current(t) \in Blocks
      BY <1>6, <2>2 DEF Deliver
    <3>2. Plus(due[Current(t)], Expected(event[t].item)) \in Counters
      BY <2>1, <3>1, AmountIsExpected, AmountIsCounter DEF Plus, Counters
    <3>3. due' = due \/ due' = [due EXCEPT ![Current(t)] = Plus(due[Current(t)], Expected(event[t].item))]
      BY <2>1, <2>2 DEF Deliver
    <3>4. QED
      BY <2>1, <3>2, <3>3
  <2>3. CASE ~Deliver(t)
    BY <2>1, <2>3 DEF Begin, Work, EnterAdd, Add, countVars
  <2>4. QED
    BY <2>2, <2>3
<1>10. QED
  BY <1>2, <1>3, <1>4, <1>5, <1>7, <1>8, <1>9 DEF RecTypeOK, threadVars, blockVars

-----------------------------------------------------------------------------
(* The steps keep the blocks nested and the ids held.                      *)

LEMMA BlocksNested ==
    ASSUME RecTypeOK, Nesting, NEW b \in Blocks,
           OpenBlock(b) \/ FindTool(b) \/ ClaimTool(b) \/ EndBody(b) \/ CloseBlock(b)
    PROVE  Nesting'
<1>0. 1 \in Blocks /\ \A c \in Blocks : c \in Nat /\ c >= 1 /\ (c > 1 => c - 1 \in Blocks)
  BY RecorderAssumption DEF Blocks
<1>a. stage \in [Blocks -> RecStages] /\ wasOn \in [Blocks -> BOOLEAN] /\ collecting \in BOOLEAN
  BY DEF RecTypeOK
\* Blocks inside an open one's body are not begun or over.
<1>b. \A c \in Blocks : b < c /\ stage[b] # "body" => ~Open(c)
  BY DEF Nesting
<1>1. CASE OpenBlock(b)
  <2>1. stage' = [stage EXCEPT ![b] = "looking"] /\ wasOn' = [wasOn EXCEPT ![b] = collecting]
        /\ ~collecting' /\ stage[b] = "unopened" /\ (b > 1 => stage[b - 1] = "body")
    BY <1>1 DEF OpenBlock
  <2>2. b > 1 => Open(b - 1) /\ ~collecting
    BY <1>0, <2>1 DEF Nesting, Open
  <2>3. \A c \in Blocks : c < b => stage[c] = "body"
    <3> TAKE c \in Blocks
    <3> HAVE c < b
    <3>1. c = b - 1 \/ c < b - 1
      BY <1>0
    <3>2. b > 1
      BY <1>0
    <3>3. QED
      BY <1>0, <2>1, <2>2, <3>1, <3>2 DEF Nesting
  <2>4. \A c \in Blocks : Open(c)' => \A d \in Blocks : d < c => stage'[d] = "body"
    <3> TAKE c \in Blocks
    <3> HAVE Open(c)'
    <3>1. c = b \/ Open(c)
      BY <1>a, <2>1 DEF Open
    <3>2. c # b => ~(b < c)
      BY <1>b, <2>1, <3>1
    <3>3. \A d \in Blocks : d < c => d # b /\ stage[d] = "body"
      BY <1>0, <2>3, <3>1, <3>2 DEF Nesting
    <3>4. QED
      BY <1>a, <2>1, <3>3
  <2>5. \A c \in Blocks : c > 1 => ~wasOn'[c]
    BY <1>a, <2>1, <2>2 DEF Nesting
  <2>6. stage'[1] # "over"
    BY <1>0, <1>a, <2>1, <2>3
  <2>7. QED
    BY <2>1, <2>4, <2>5, <2>6 DEF Nesting
<1>2. CASE \E s \in RecStages \ {"unopened", "over"} :
             /\ stage' = [stage EXCEPT ![b] = s]
             /\ UNCHANGED <<collecting, wasOn>>
             /\ Open(b)
             /\ stage[b] = "body" => \A c \in Blocks : b < c => ~Open(c)
  <2>1. PICK s \in RecStages \ {"unopened", "over"} : stage' = [stage EXCEPT ![b] = s]
    BY <1>2
  <2>2. \A c \in Blocks : Open(c)' => Open(c)
    BY <1>2, <1>a, <2>1 DEF Open
  <2>3. \A c \in Blocks : b < c => ~Open(c)
    BY <1>2, <1>b
  <2>4. \A c \in Blocks : Open(c)' => \A d \in Blocks : d < c => stage'[d] = "body"
    BY <1>a, <2>1, <2>2, <2>3 DEF Nesting
  <2>5. stage'[1] = "over" => stage[1] = "over"
    BY <1>0, <1>a, <2>1
  <2>6. QED
    BY <1>2, <2>2, <2>4, <2>5 DEF Nesting
<1>3. CASE /\ stage' = [stage EXCEPT ![b] = "over"]
           /\ collecting' = (collecting \/ wasOn[b])
           /\ Open(b) /\ stage[b] # "body" /\ UNCHANGED wasOn
  <2>1. \A c \in Blocks : Open(c)' => c < b /\ stage'[c] = "body"
    <3> TAKE c \in Blocks
    <3> HAVE Open(c)'
    <3>1. c # b /\ Open(c)
      BY <1>3, <1>a DEF Open
    <3>2. c < b
      BY <1>0, <1>3, <1>b, <3>1
    <3>3. stage[c] = "body"
      BY <1>3, <3>2 DEF Nesting
    <3>4. QED
      BY <1>3, <1>a, <3>1, <3>2, <3>3
  <2>2. ~collecting
    BY <1>3 DEF Nesting
  <2>3. b > 1 => ~collecting' /\ stage'[1] = "body"
    BY <1>0, <1>3, <1>a, <2>2 DEF Nesting
  <2>4. b = 1 => collecting' = wasOn[1]
    BY <1>3, <1>a, <2>2
  <2>5. b > 1 \/ b = 1
    BY <1>0
  <2>6. \A c \in Blocks : Open(c)' => \A d \in Blocks : d < c => stage'[d] = "body"
    <3> TAKE c \in Blocks
    <3> HAVE Open(c)'
    <3> TAKE d \in Blocks
    <3> HAVE d < c
    <3>1. d < b /\ d # b
      BY <1>0, <2>1
    <3>2. QED
      BY <1>3, <1>a, <3>1 DEF Nesting
  <2>7. (\E c \in Blocks : Open(c)') => ~collecting'
    BY <1>0, <2>1, <2>3, <2>5
  <2>8. stage'[1] = "over" => collecting' = wasOn'[1]
    BY <1>3, <2>3, <2>4, <2>5
  <2>9. QED
    BY <1>3, <2>6, <2>7, <2>8 DEF Nesting
<1>4. CASE FindTool(b)
  <2>1. Open(b) /\ stage[b] = "looking" /\ UNCHANGED wasOn
    BY <1>4 DEF FindTool, Open
  <2>2. CASE looking[b] > ToolIds
    <3>1. stage' = [stage EXCEPT ![b] = "over"] /\ collecting' = (collecting \/ wasOn[b])
      BY <1>4, <2>2, RecorderAssumption DEF FindTool, Restore, RecTypeOK
    <3>2. QED
      BY <1>3, <2>1, <3>1
  <2>3. CASE ~(looking[b] > ToolIds)
    <3>1. UNCHANGED collecting
          /\ (stage' = [stage EXCEPT ![b] = "claiming"] \/ stage' = [stage EXCEPT ![b] = "looking"])
      BY <1>4, <1>a, <2>1, <2>3, RecorderAssumption DEF FindTool
    <3>2. "claiming" \in RecStages \ {"unopened", "over"} /\ "looking" \in RecStages \ {"unopened", "over"}
      BY DEF RecStages
    <3>3. QED
      BY <1>2, <2>1, <3>1, <3>2
  <2>4. QED
    BY <2>2, <2>3
<1>5. CASE ClaimTool(b)
  <2>1. Open(b) /\ stage[b] = "claiming" /\ UNCHANGED <<wasOn, collecting>>
    BY <1>5 DEF ClaimTool, Open
  <2>2. stage' = [stage EXCEPT ![b] = "body"] \/ stage' = [stage EXCEPT ![b] = "looking"]
    BY <1>5 DEF ClaimTool
  <2>3. "body" \in RecStages \ {"unopened", "over"} /\ "looking" \in RecStages \ {"unopened", "over"}
    BY DEF RecStages
  <2>4. QED
    BY <1>2, <2>1, <2>2, <2>3
<1>6. CASE EndBody(b)
  <2>1. Open(b) /\ UNCHANGED <<wasOn, collecting>> /\ stage' = [stage EXCEPT ![b] = "last"]
        /\ (b < Depth => stage[b + 1] \in {"unopened", "over"})
    BY <1>6 DEF EndBody, Open
  <2>2. \A c \in Blocks : b < c => ~Open(c)
    <3> SUFFICES ASSUME NEW c \in Blocks, b < c, Open(c) PROVE FALSE
      OBVIOUS
    <3>1. b + 1 \in Blocks /\ b < Depth /\ (b + 1 = c \/ b + 1 < c)
      BY RecorderAssumption DEF Blocks
    <3>2. ~Open(b + 1) /\ stage[b + 1] # "body"
      BY <2>1, <3>1 DEF Open
    <3>3. QED
      BY <3>1, <3>2 DEF Nesting
  <2>3. "last" \in RecStages \ {"unopened", "over"}
    BY DEF RecStages
  <2>4. QED
    BY <1>2, <2>1, <2>2, <2>3
<1>7. CASE CloseBlock(b)
  <2>1. Open(b) /\ stage[b] # "body" /\ UNCHANGED wasOn /\ stage' = [stage EXCEPT ![b] = "over"]
        /\ collecting' = (collecting \/ wasOn[b])
    BY <1>7 DEF CloseBlock, Restore, Open
  <2>2. QED
    BY <1>3, <2>1
<1>8. QED
  BY <1>1, <1>4, <1>5, <1>6, <1>7

LEMMA IdsHeld ==
    ASSUME RecTypeOK, Holding, NEW b \in Blocks,
           OpenBlock(b) \/ FindTool(b) \/ ClaimTool(b) \/ EndBody(b) \/ CloseBlock(b)
    PROVE  Holding'
<1>0. b \in Nat /\ b > 0 /\ ToolIds \in Nat
  BY RecorderAssumption DEF Blocks
<1>a. /\ stage \in [Blocks -> RecStages] /\ looking \in [Blocks -> 1..(ToolIds + 1)]
      /\ owner \in [1..ToolIds -> -1..Depth]
  BY DEF RecTypeOK
<1>b. \A i \in 1..ToolIds : owner[i] > 0 => owner[i] \in Blocks
  BY <1>a, RecorderAssumption DEF Blocks
\* A block that does not run, before and after, may look elsewhere.
<1>1. ASSUME UNCHANGED owner, ~Delivers(b), ~Delivers(b)',
             \A c \in Blocks : c # b => stage'[c] = stage[c] /\ looking'[c] = looking[c],
             stage'[b] = "claiming" => looking'[b] <= ToolIds
      PROVE  Holding'
  <2>1. \A c \in Blocks : Delivers(c)' => c # b /\ Delivers(c)
    BY <1>1 DEF Delivers
  <2>2. \A c \in Blocks : Delivers(c) => c # b /\ Delivers(c)'
    BY <1>1 DEF Delivers
  <2>3. \A i \in 1..ToolIds : owner'[i] > 0 => Delivers(owner[i])' /\ looking'[owner'[i]] = i
    BY <1>1, <1>b, <2>2 DEF Holding
  <2>4. \A c \in Blocks : Delivers(c)' => looking'[c] <= ToolIds /\ owner'[looking'[c]] = c
    BY <1>1, <2>1 DEF Holding
  <2>5. \A c \in Blocks : stage'[c] = "claiming" => looking'[c] <= ToolIds
    BY <1>1 DEF Holding
  <2>6. QED
    BY <2>3, <2>4, <2>5 DEF Holding
<1>2. CASE OpenBlock(b)
  <2>1. stage[b] = "unopened" /\ stage' = [stage EXCEPT ![b] = "looking"] /\ UNCHANGED <<looking, owner>>
    BY <1>2 DEF OpenBlock
  <2>2. stage'[b] = "looking"
    BY <1>a, <2>1
  <2>3. QED
    BY <1>1, <1>a, <2>1, <2>2 DEF Delivers
<1>3. CASE FindTool(b)
  <2>1. stage[b] = "looking" /\ UNCHANGED owner
    BY <1>3 DEF FindTool
  <2>2. /\ \A c \in Blocks : c # b => stage'[c] = stage[c] /\ looking'[c] = looking[c]
        /\ stage'[b] \in {"over", "claiming", "looking"}
        /\ stage'[b] = "claiming" => looking[b] <= ToolIds /\ looking' = looking
    BY <1>3, <1>a DEF FindTool
  <2>3. QED
    BY <1>1, <2>1, <2>2 DEF Delivers
<1>4. CASE ClaimTool(b) /\ owner[looking[b]] = 0
  <2>1. /\ stage[b] = "claiming" /\ stage' = [stage EXCEPT ![b] = "body"]
        /\ UNCHANGED looking /\ owner' = [owner EXCEPT ![looking[b]] = b]
    BY <1>4 DEF ClaimTool
  <2>2. looking[b] \in 1..ToolIds
    BY <1>0, <1>a, <2>1 DEF Holding
  <2>3. \A c \in Blocks : c # b /\ Delivers(c) => looking[c] # looking[b]
    <3> TAKE c \in Blocks
    <3> HAVE c # b /\ Delivers(c)
    <3>1. owner[looking[c]] = c /\ c # 0
      BY RecorderAssumption DEF Holding, Blocks
    <3>2. QED
      BY <1>4, <3>1
  <2>4. \A c \in Blocks : Delivers(c)' <=> c = b \/ Delivers(c)
    BY <1>a, <2>1 DEF Delivers
  <2>5. \A i \in 1..ToolIds : owner'[i] > 0 => Delivers(owner[i])' /\ looking'[owner'[i]] = i
    <3> TAKE i \in 1..ToolIds
    <3>1. CASE i = looking[b]
      BY <1>a, <2>1, <2>2, <2>4, <3>1
    <3>2. CASE i # looking[b]
      BY <1>a, <1>b, <2>1, <2>2, <2>4, <3>2 DEF Holding
    <3>3. QED
      BY <3>1, <3>2
  <2>6. \A c \in Blocks : Delivers(c)' => looking'[c] <= ToolIds /\ owner'[looking'[c]] = c
    <3> TAKE c \in Blocks
    <3> HAVE Delivers(c)'
    <3>1. CASE c = b
      BY <1>0, <1>a, <2>1, <2>2, <3>1
    <3>2. CASE c # b
      <4>1. Delivers(c) /\ looking[c] # looking[b]
        BY <2>3, <2>4, <3>2
      <4>2. looking[c] <= ToolIds /\ owner[looking[c]] = c /\ looking[c] \in 1..ToolIds
        BY <1>0, <1>a, <4>1 DEF Holding
      <4>3. QED
        BY <1>a, <2>1, <4>1, <4>2
    <3>3. QED
      BY <3>1, <3>2
  <2>7. \A c \in Blocks : stage'[c] = "claiming" => looking'[c] <= ToolIds
    BY <1>a, <2>1 DEF Holding
  <2>8. QED
    BY <2>5, <2>6, <2>7 DEF Holding
<1>5. CASE ClaimTool(b) /\ owner[looking[b]] # 0
  <2>1. stage[b] = "claiming" /\ UNCHANGED owner /\ stage' = [stage EXCEPT ![b] = "looking"]
        /\ looking' = [looking EXCEPT ![b] = looking[b] + 1]
    BY <1>5 DEF ClaimTool
  <2>2. stage'[b] = "looking" /\ \A c \in Blocks : c # b => stage'[c] = stage[c] /\ looking'[c] = looking[c]
    BY <1>a, <2>1
  <2>3. QED
    BY <1>1, <2>1, <2>2 DEF Delivers
<1>6. CASE EndBody(b)
  <2>1. stage[b] = "body" /\ stage' = [stage EXCEPT ![b] = "last"] /\ UNCHANGED <<looking, owner>>
    BY <1>6 DEF EndBody
  <2>2. \A c \in Blocks : (Delivers(c)' <=> Delivers(c)) /\ (stage'[c] = "claiming" <=> stage[c] = "claiming")
    BY <1>a, <2>1 DEF Delivers
  <2>3. QED
    BY <1>b, <2>1, <2>2 DEF Holding
<1>7. CASE CloseBlock(b)
  <2>1. stage[b] = "last" /\ stage' = [stage EXCEPT ![b] = "over"] /\ UNCHANGED looking
        /\ owner' = [owner EXCEPT ![looking[b]] = 0]
    BY <1>7 DEF CloseBlock
  <2>2. Delivers(b) /\ looking[b] \in 1..ToolIds /\ owner[looking[b]] = b
    <3>1. Delivers(b)
      BY <2>1 DEF Delivers
    <3>2. looking[b] <= ToolIds /\ owner[looking[b]] = b
      BY <3>1 DEF Holding
    <3>3. QED
      BY <1>0, <1>a, <3>1, <3>2
  <2>3. \A c \in Blocks : Delivers(c)' <=> c # b /\ Delivers(c)
    BY <1>a, <2>1 DEF Delivers
  <2>4. \A i \in 1..ToolIds : owner'[i] > 0 => Delivers(owner[i])' /\ looking'[owner'[i]] = i
    <3> TAKE i \in 1..ToolIds
    <3> HAVE owner'[i] > 0
    <3>1. i # looking[b] /\ owner'[i] = owner[i]
      BY <1>a, <2>1, <2>2
    <3>2. owner[i] \in Blocks /\ Delivers(owner[i]) /\ looking[owner[i]] = i
      BY <1>b, <3>1 DEF Holding
    <3>3. owner[i] # b
      BY <3>1, <3>2
    <3>4. QED
      BY <2>1, <2>3, <3>1, <3>2, <3>3
  <2>5. \A c \in Blocks : Delivers(c)' => looking'[c] <= ToolIds /\ owner'[looking'[c]] = c
    <3> TAKE c \in Blocks
    <3> HAVE Delivers(c)'
    <3>1. c # b /\ Delivers(c)
      BY <2>3
    <3>2. looking[c] <= ToolIds /\ owner[looking[c]] = c
      BY <3>1 DEF Holding
    <3>3. looking[c] \in 1..ToolIds /\ looking[c] # looking[b]
      BY <1>0, <1>a, <2>2, <3>1, <3>2
    <3>4. QED
      BY <1>a, <2>1, <3>2, <3>3
  <2>6. \A c \in Blocks : stage'[c] = "claiming" => looking'[c] <= ToolIds
    BY <1>a, <2>1 DEF Holding
  <2>7. QED
    BY <2>4, <2>5, <2>6 DEF Holding
<1>8. QED
  BY <1>2, <1>3, <1>4, <1>5, <1>6, <1>7

LEMMA OtherToolHolds ==
    ASSUME RecTypeOK, Holding, NEW i \in 1..ToolIds, OtherTool(i)
    PROVE  RecTypeOK' /\ Holding'
<1>1. owner[i] \in {-1, 0} /\ owner' = [owner EXCEPT ![i] = -1 - owner[i]]
      /\ UNCHANGED <<threadVars, countVars, blockVars, event, done>>
  BY DEF OtherTool, RecTypeOK
<1>2. -1 - owner[i] \in {-1, 0}
  BY <1>1
<1>a. owner \in [1..ToolIds -> -1..Depth] /\ looking \in [Blocks -> 1..(ToolIds + 1)]
  BY DEF RecTypeOK
<1>3. owner' \in [1..ToolIds -> -1..Depth]
  <2>1. -1 - owner[i] \in -1..Depth
    BY <1>2, RecorderAssumption
  <2>2. QED
    BY <1>1, <1>a, <2>1
<1>4. RecTypeOK'
  BY <1>1, <1>3 DEF RecTypeOK, threadVars, countVars, blockVars
<1>5. \A b \in Blocks : Delivers(b)' <=> Delivers(b)
  BY <1>1 DEF Delivers, blockVars
<1>6. \A j \in 1..ToolIds : owner'[j] > 0 => owner'[j] = owner[j]
  BY <1>1, <1>2, <1>a
<1>7. \A b \in Blocks : Delivers(b) => looking[b] \in 1..ToolIds /\ looking[b] # i
  <2> TAKE b \in Blocks
  <2> HAVE Delivers(b)
  <2>1. looking[b] <= ToolIds /\ owner[looking[b]] = b
    BY DEF Holding
  <2>2. b > 0 /\ b \in Nat /\ ToolIds \in Nat
    BY RecorderAssumption DEF Blocks
  <2>3. QED
    BY <1>1, <1>a, <2>1, <2>2
<1>8. \A b \in Blocks : Delivers(b) => owner'[looking[b]] = owner[looking[b]]
  BY <1>1, <1>7, <1>a
<1>9. \A j \in 1..ToolIds : owner[j] > 0 => owner[j] \in Blocks
  BY <1>a, RecorderAssumption DEF Blocks
<1>10. QED
  BY <1>1, <1>4, <1>5, <1>6, <1>8, <1>9 DEF Holding, blockVars

-----------------------------------------------------------------------------
(* What is on its way.                                                     *)

Adding(b) == {t \in RecThreads : event[t].at \in {"keys", "lock", "add"} /\ Current(t) = b}
Amounts(A, ev, k) == [t \in A |-> Amount(ev[t].item)[k]]
Way(A, ev, k) == SumFunctionOnSet(Amounts(A, ev, k), A)

LEMMA AmountsAdd ==
    ASSUME NEW A, A \subseteq RecThreads, NEW ev, \A t \in A : ev[t].item \in Items, NEW k \in Keys
    PROVE  /\ Way(A, ev, k) \in Int
           /\ \A t \in A : Way(A, ev, k) = Amount(ev[t].item)[k] + Way(A \ {t}, ev, k)
<1>1. IsFiniteSet(A)
  BY RecorderAssumption, FS_Subset
<1>2. IntegerOn(Amounts(A, ev, k), A)
  BY AmountIsCounter DEF IntegerOn, Amounts
<1>3. ASSUME NEW t \in A
      PROVE  Way(A, ev, k) = Amount(ev[t].item)[k] + Way(A \ {t}, ev, k)
  <2> DEFINE f == Amounts(A, ev, k)
             f2 == Amounts(A \ {t}, ev, k)
  <2>1. \A u \in A \ {t} : f2[u] = f[u]
    BY DEF Amounts
  <2>2. f[t] = Amount(ev[t].item)[k]
    BY DEF Amounts
  <2> HIDE DEF f, f2
  <2>3. SumFunctionOnSet(f, A) = f[t] + SumFunctionOnSet(f2, A \ {t})
    BY <1>1, <1>2, <2>1, SumWithout DEF f
  <2>4. QED
    BY <2>2, <2>3 DEF Way, f, f2
<1>4. Way(A, ev, k) \in Int
  BY <1>1, <1>2, SumInteger DEF Way
<1>5. QED
  BY <1>3, <1>4

LEMMA SameAmounts ==
    ASSUME NEW A, NEW ev, NEW ev2, \A t \in A : ev2[t].item = ev[t].item, NEW k
    PROVE  Way(A, ev2, k) = Way(A, ev, k)
<1>1. Amounts(A, ev2, k) = Amounts(A, ev, k)
  BY DEF Amounts
<1>2. QED
  BY <1>1 DEF Way

LEMMA OnItsWayIs ==
    \A b, k : OnItsWay(b, k) = Way(Adding(b), event, k)
  BY DEF OnItsWay, Way, Amounts, Adding

\* Nothing moves while only Main is at work on its blocks.
LEMMA NothingMoves ==
    ASSUME UNCHANGED event, NEW b, NEW k,
           \A t \in RecThreads : \A c \in event[t].todo : looking'[c] = looking[c]
    PROVE  OnItsWay(b, k)' = OnItsWay(b, k)
<1>1. \A t \in RecThreads : Current(t)' = Current(t)
  <2> TAKE t \in RecThreads
  <2>1. event'[t].todo = event[t].todo
    OBVIOUS
  <2>2. QED
    BY <2>1, CurrentStays
<1>2. Adding(b)' = Adding(b)
  BY <1>1 DEF Adding
<1>3. OnItsWay(b, k)' = Way(Adding(b)', event', k)
  BY DEF OnItsWay, Way, Amounts, Adding
<1>4. QED
  BY <1>2, <1>3, OnItsWayIs

\* When one thread moves, only its share does.
Share(t, b, k) == IF t \in Adding(b) THEN Amount(event[t].item)[k] ELSE 0

LEMMA OneMoves ==
    ASSUME RecTypeOK, RecTypeOK', NEW t \in RecThreads, UNCHANGED looking,
           \A u \in RecThreads : u # t => event'[u] = event[u],
           NEW b \in Blocks, NEW k \in Keys
    PROVE  \E rest \in Int : /\ OnItsWay(b, k) = Share(t, b, k) + rest
                             /\ OnItsWay(b, k)' = Share(t, b, k)' + rest
<1> DEFINE A == Adding(b)
           B == Adding(b)'
           R == A \ {t}
<1>1. \A u \in RecThreads : u # t => Current(u)' = Current(u)
  <2> TAKE u \in RecThreads
  <2> HAVE u # t
  <2>1. event'[u].todo = event[u].todo
    OBVIOUS
  <2>2. QED
    BY <2>1, CurrentStays
<1>2. B \ {t} = R
  BY <1>1 DEF Adding
<1>3. A \subseteq RecThreads /\ B \subseteq RecThreads /\ R \subseteq RecThreads
  BY DEF Adding
<1>4. (\A u \in A : event[u].item \in Items) /\ (\A u \in B : event'[u].item \in Items)
  <2>1. \A u \in A : IsEvent(event[u])
    BY Plain DEF Adding
  <2>2. \A u \in B : IsEvent(event'[u])
    <3> SUFFICES ASSUME NEW u \in B PROVE IsEvent(event'[u])
      OBVIOUS
    <3>1. u \in RecThreads /\ event'[u].at # "idle"
      BY DEF Adding
    <3>2. QED
      BY <3>1 DEF RecTypeOK, IsEvent
  <2>3. QED
    BY <2>1, <2>2 DEF IsEvent
<1>5. OnItsWay(b, k) = Way(A, event, k) /\ OnItsWay(b, k)' = Way(B, event', k)
  BY DEF OnItsWay, Way, Amounts, Adding
<1>6. (\A u \in R : event[u].item \in Items) /\ (\A u \in R : event'[u].item = event[u].item)
  BY <1>3, <1>4
<1>7. Share(t, b, k) = IF t \in A THEN Amount(event[t].item)[k] ELSE 0
  BY DEF Share
<1>8. Share(t, b, k)' = IF t \in B THEN Amount(event'[t].item)[k] ELSE 0
  BY DEF Share
<1> HIDE DEF A, B, R
<1>9. Way(R, event, k) \in Int
  BY <1>3, <1>6, AmountsAdd
<1>10. Way(R, event', k) = Way(R, event, k)
  BY <1>6, SameAmounts
<1>11. Way(A, event, k) = Share(t, b, k) + Way(R, event, k)
  <2>1. CASE t \in A
    <3>1. Way(A, event, k) = Amount(event[t].item)[k] + Way(A \ {t}, event, k)
      BY <1>3, <1>4, <2>1, AmountsAdd
    <3>2. QED
      BY <1>7, <2>1, <3>1 DEF R
  <2>2. CASE t \notin A
    <3>1. R = A
      BY <2>2 DEF R
    <3>2. QED
      BY <1>7, <1>9, <2>2, <3>1
  <2>3. QED
    BY <2>1, <2>2
<1>12. Way(B, event', k) = Share(t, b, k)' + Way(R, event, k)
  <2>1. CASE t \in B
    <3>1. Way(B, event', k) = Amount(event'[t].item)[k] + Way(B \ {t}, event', k)
      BY <1>3, <1>4, <2>1, AmountsAdd
    <3>2. QED
      BY <1>2, <1>8, <1>10, <2>1, <3>1
  <2>2. CASE t \notin B
    <3>1. R = B
      BY <1>2, <2>2
    <3>2. QED
      BY <1>8, <1>9, <1>10, <2>2, <3>1
  <2>3. QED
    BY <2>1, <2>2
<1>13. QED
  BY <1>5, <1>9, <1>11, <1>12

-----------------------------------------------------------------------------
(* The steps keep the callbacks in order, and the counts exact.            *)

LEMMA CallbacksInOrder ==
    ASSUME RecTypeOK, Callbacks, NEW t \in RecThreads,
           \/ \E item \in Items : Begin(t, item)
           \/ Deliver(t) \/ Work(t) \/ EnterAdd(t) \/ Add(t)
    PROVE  Callbacks'
<1>1. PICK e : /\ event' = [event EXCEPT ![t] = e]
               /\ \A b \in e.todo : b \in event[t].todo \/ Delivers(b)
               /\ e.at = "add" => EnterAdd(t) /\ e.seen = counts[Current(t)]
               /\ e.at # "idle" /\ e.at # "deliver" => e.todo = event[t].todo
  BY EventStep
<1>2. UNCHANGED blockVars
  BY DEF Begin, Deliver, Work, EnterAdd, Add
<1>3. event'[t] = e /\ \A u \in RecThreads : u # t => event'[u] = event[u]
  BY <1>1 DEF RecTypeOK
<1>4. \A u \in RecThreads : u # t => Current(u)' = Current(u)
  <2> TAKE u \in RecThreads
  <2> HAVE u # t
  <2>1. event'[u].todo = event[u].todo
    BY <1>3
  <2>2. QED
    BY <1>2, <2>1, CurrentStays DEF blockVars
<1>5. ASSUME NEW u \in RecThreads, NEW b \in event'[u].todo
      PROVE  stage'[b] \in {"body", "last", "over"}
  <2>1. b \in event[u].todo \/ Delivers(b)
    BY <1>1, <1>3
  <2>2. stage[b] \in {"body", "last", "over"}
    BY <2>1 DEF Callbacks, Delivers
  <2>3. QED
    BY <1>2, <2>2 DEF blockVars
<1>6. ASSUME NEW u \in RecThreads, event'[u].at = "add"
      PROVE  lock'[Current(u)'] = u /\ event'[u].seen = counts'[Current(u)']
  <2>a. counts \in [Blocks -> Counters] /\ lock \in [Blocks -> RecThreads \union {"free"}]
    BY DEF RecTypeOK
  <2>1. CASE u = t
    <3>1. EnterAdd(t) /\ event'[t].seen = counts[Current(t)] /\ event'[t].todo = event[t].todo
      BY <1>1, <1>3, <1>6, <2>1
    <3>2. Current(t)' = Current(t)
      BY <1>2, <3>1, CurrentStays DEF blockVars
    <3>3. Current(t) \in Blocks
      BY <3>1, CurrentIn DEF EnterAdd
    <3>4. lock' = [lock EXCEPT ![Current(t)] = t] /\ UNCHANGED counts
      BY <3>1 DEF EnterAdd
    <3>5. lock'[Current(t)] = t
      BY <2>a, <3>3, <3>4
    <3>6. QED
      BY <2>1, <3>1, <3>2, <3>4, <3>5
  <2>2. CASE u # t
    <3>1. event[u].at = "add" /\ event'[u] = event[u] /\ Current(u)' = Current(u)
      BY <1>3, <1>4, <1>6, <2>2
    <3>2. lock[Current(u)] = u /\ event[u].seen = counts[Current(u)]
      BY <3>1 DEF Callbacks
    <3>3. CASE EnterAdd(t)
      <4>1. lock[Current(t)] = "free" /\ lock' = [lock EXCEPT ![Current(t)] = t] /\ UNCHANGED counts
        BY <3>3 DEF EnterAdd, MayEnter
      <4>2. Current(u) # Current(t)
        BY <3>2, <4>1, RecorderAssumption
      <4>3. lock'[Current(u)] = lock[Current(u)]
        BY <2>a, <4>1, <4>2
      <4>4. QED
        BY <3>1, <3>2, <4>1, <4>3
    <3>4. CASE Add(t)
      <4>1. lock[Current(t)] = t
        BY <3>4 DEF Add, Callbacks
      <4>2. Current(u) # Current(t)
        BY <2>2, <3>2, <4>1
      <4>3. /\ lock' = [lock EXCEPT ![Current(t)] = "free"]
            /\ counts' = [counts EXCEPT ![Current(t)] = Plus(event[t].seen, Amount(event[t].item))]
        BY <3>4 DEF Add
      <4>4. lock'[Current(u)] = lock[Current(u)] /\ counts'[Current(u)] = counts[Current(u)]
        BY <2>a, <4>2, <4>3
      <4>5. QED
        BY <3>1, <3>2, <4>4
    <3>5. CASE ~EnterAdd(t) /\ ~Add(t)
      <4>1. UNCHANGED <<lock, counts>>
        BY <3>5 DEF Begin, Deliver, Work, countVars
      <4>2. QED
        BY <3>1, <3>2, <4>1
    <3>6. QED
      BY <3>3, <3>4, <3>5
  <2>3. QED
    BY <2>1, <2>2
<1>7. QED
  BY <1>5, <1>6 DEF Callbacks

\* A callback's step moves as much as it owes, and as much as it adds.
LEMMA CountsStayExact ==
    ASSUME RecTypeOK, RecTypeOK', Callbacks, CountsExact, NEW t \in RecThreads,
           \/ \E item \in Items : Begin(t, item)
           \/ Deliver(t) \/ Work(t) \/ EnterAdd(t) \/ Add(t)
    PROVE  CountsExact'
<1> SUFFICES ASSUME NEW b \in Blocks, ~failures'[b], NEW k \in Keys
             PROVE  counts'[b][k] + OnItsWay(b, k)' = due'[b][k]
  BY DEF CountsExact
<1>1. PICK e : /\ event' = [event EXCEPT ![t] = e]
               /\ e.at = "add" => EnterAdd(t)
               /\ e.at # "idle" /\ e.at # "deliver" => e.todo = event[t].todo
                                                       /\ e.item = event[t].item
  BY EventStep
<1>2. UNCHANGED <<stage, looking, before>>
  BY DEF Begin, Deliver, Work, EnterAdd, Add, blockVars
<1>3. event'[t] = e /\ \A u \in RecThreads : u # t => event'[u] = event[u]
  BY <1>1 DEF RecTypeOK
<1> DEFINE Moving(stop) == stop \in {"keys", "lock", "add"}
<1>4. PICK rest \in Int : /\ OnItsWay(b, k) = Share(t, b, k) + rest
                          /\ OnItsWay(b, k)' = Share(t, b, k)' + rest
  BY <1>2, <1>3, OneMoves
<1>5. Share(t, b, k) = IF Moving(event[t].at) /\ Current(t) = b THEN Amount(event[t].item)[k] ELSE 0
  BY DEF Share, Adding
<1>6. Share(t, b, k)' = IF Moving(e.at) /\ Current(t) = b THEN Amount(event[t].item)[k] ELSE 0
  <2>1. Share(t, b, k)' = IF Moving(e.at) /\ Current(t)' = b THEN Amount(e.item)[k] ELSE 0
    BY <1>3 DEF Share, Adding
  <2>2. Moving(e.at) => e.item = event[t].item /\ event'[t].todo = event[t].todo
    BY <1>1, <1>3
  <2>3. Moving(e.at) => Current(t)' = Current(t)
    BY <1>2, <2>2, CurrentStays
  <2>4. QED
    BY <2>1, <2>2, <2>3
<1>7. failures \in [Blocks -> BOOLEAN] /\ counts \in [Blocks -> Counters] /\ due \in [Blocks -> Counters]
  BY DEF RecTypeOK
<1>8. counts[b][k] \in Int /\ due[b][k] \in Int
  BY <1>7 DEF Counters
<1>9. ~failures[b]
  <2>1. failures' = failures \/ (Work(t) /\ failures' = [failures EXCEPT ![Current(t)] = TRUE])
    BY DEF Begin, Deliver, Work, EnterAdd, Add, countVars
  <2>2. QED
    BY <1>7, <2>1
<1>10. counts[b][k] + OnItsWay(b, k) = due[b][k]
  BY <1>9 DEF CountsExact
<1>11. event[t].at # "idle" => /\ Current(t) \in Blocks /\ event[t].item \in Items
                               /\ Amount(event[t].item)[k] \in Int
                               /\ Expected(event[t].item) = Amount(event[t].item)
  <2> SUFFICES ASSUME event[t].at # "idle"
               PROVE  /\ Current(t) \in Blocks /\ event[t].item \in Items
                      /\ Amount(event[t].item)[k] \in Int
                      /\ Expected(event[t].item) = Amount(event[t].item)
    OBVIOUS
  <2>1. Current(t) \in Blocks /\ event[t].item \in Items
    BY CurrentIn, Plain DEF IsEvent
  <2>2. QED
    BY <2>1, AmountIsCounter, AmountIsExpected
\* Neither the counter, nor what is owed, nor the share.
<1>12. ASSUME counts'[b][k] = counts[b][k], due'[b][k] = due[b][k],
              Share(t, b, k)' = Share(t, b, k)
       PROVE  counts'[b][k] + OnItsWay(b, k)' = due'[b][k]
  BY <1>4, <1>10, <1>12
<1>13. ASSUME NEW item \in Items, Begin(t, item)
       PROVE  counts'[b][k] + OnItsWay(b, k)' = due'[b][k]
  <2>1. event[t].at = "idle" /\ event'[t].at = "deliver" /\ UNCHANGED <<counts, due>>
    BY <1>3, <1>13 DEF Begin, countVars, RecTypeOK
  <2>2. QED
    BY <1>3, <1>5, <1>6, <1>12, <2>1
<1>14. CASE Deliver(t)
  <2>1. event[t].at = "deliver" /\ UNCHANGED counts
    BY <1>14 DEF Deliver
  <2>2. Share(t, b, k) = 0
    BY <1>5, <2>1
  <2> DEFINE c == Current(t)
             owed == Delivers(c) /\ (t = Main \/ t \notin before[c])
             isKnown == event[t].item.kind = "start" /\ event[t].item \in known[c]
             counted == owed /\ (isKnown \/ ~failures[c])
             after == IF isKnown THEN "lock" ELSE "keys"
  <2>3. due' = [due EXCEPT ![c] = IF owed THEN Plus(due[c], Expected(event[t].item)) ELSE due[c]]
    BY <1>14 DEF Deliver
  <2>4. IF counted THEN event' = [event EXCEPT ![t].at = after] ELSE Through(t)
    BY <1>14 DEF Deliver, HasCurrent
  <2>5. Moving(after) /\ (b = c => ~failures[c])
    BY <1>9
  <2> HIDE DEF owed, isKnown, after, c
  <2>6. c \in Blocks /\ Amount(event[t].item)[k] \in Int /\ Expected(event[t].item) = Amount(event[t].item)
    BY <1>11, <2>1 DEF c
  <2>7. Moving(e.at) <=> counted
    <3>1. CASE counted
      <4>1. event' = [event EXCEPT ![t].at = after]
        BY <2>4, <3>1
      <4>2. IsEvent(event[t]) /\ event = [u \in RecThreads |-> event[u]]
        BY <2>1, Plain DEF RecTypeOK
      <4>3. event'[t].at = after
        BY <4>1, <4>2 DEF IsEvent
      <4>4. QED
        BY <1>3, <2>5, <3>1, <4>3
    <3>2. CASE ~counted
      <4>1. Through(t)
        BY <2>4, <3>2
      <4>2. event' = [event EXCEPT ![t] = EventAfter(t)] /\ EventAfter(t).at \in {"idle", "deliver"}
        BY <2>1, <4>1, ThroughMeans
      <4>3. event'[t] = EventAfter(t)
        BY <4>2 DEF RecTypeOK
      <4>4. QED
        BY <1>3, <3>2, <4>2, <4>3
    <3>3. QED
      BY <3>1, <3>2
  <2>8. CASE b # c
    <3>1. due'[b] = due[b]
      BY <1>7, <2>3, <2>8
    <3>2. Share(t, b, k)' = 0
      BY <1>6, <2>8 DEF c
    <3>3. QED
      BY <1>12, <2>1, <2>2, <3>1, <3>2
  <2>9. CASE b = c /\ owed
    <3>1. due'[b][k] = due[b][k] + Amount(event[t].item)[k]
      BY <1>7, <2>3, <2>6, <2>9 DEF Plus
    <3>2. Share(t, b, k)' = Amount(event[t].item)[k]
      BY <1>6, <2>5, <2>7, <2>9 DEF c
    <3>3. QED
      BY <1>4, <1>8, <1>10, <2>1, <2>2, <2>6, <3>1, <3>2
  <2>10. CASE b = c /\ ~owed
    <3>1. due'[b] = due[b]
      BY <1>7, <2>3, <2>10
    <3>2. Share(t, b, k)' = 0
      BY <1>6, <2>7, <2>10
    <3>3. QED
      BY <1>12, <2>1, <2>2, <3>1, <3>2
  <2>11. QED
    BY <2>8, <2>9, <2>10
<1>15. CASE Work(t)
  <2>1. event[t].at = "keys" /\ UNCHANGED <<counts, due>>
    BY <1>15 DEF Work
  <2>2. CASE event[t].item \in Raising
    <3>1. failures' = [failures EXCEPT ![Current(t)] = TRUE] /\ event' = [event EXCEPT ![t] = NoEvent]
      BY <1>15, <2>2 DEF Work
    <3>2. Current(t) # b
      BY <1>7, <1>11, <2>1, <3>1
    <3>3. QED
      BY <1>5, <1>6, <1>12, <2>1, <3>2
  <2>3. CASE event[t].item \notin Raising
    <3>1. event' = [event EXCEPT ![t].at = "lock"]
      BY <1>15, <2>3 DEF Work
    <3>2. IsEvent(event[t]) /\ event = [u \in RecThreads |-> event[u]]
      BY <2>1, Plain DEF RecTypeOK
    <3>3. event'[t].at = "lock"
      BY <3>1, <3>2 DEF IsEvent
    <3>4. QED
      BY <1>3, <1>5, <1>6, <1>12, <2>1, <3>3
  <2>4. QED
    BY <2>2, <2>3
<1>16. CASE EnterAdd(t)
  <2>1. event[t].at = "lock" /\ UNCHANGED <<counts, due>>
        /\ event' = [event EXCEPT ![t].at = "add", ![t].seen = counts[Current(t)]]
    BY <1>16 DEF EnterAdd
  <2>2. IsEvent(event[t]) /\ event = [u \in RecThreads |-> event[u]]
    BY <2>1, Plain DEF RecTypeOK
  <2>3. event'[t].at = "add"
    BY <2>1, <2>2 DEF IsEvent
  <2>4. QED
    BY <1>3, <1>5, <1>6, <1>12, <2>1, <2>3
<1>17. CASE Add(t)
  <2>1. /\ event[t].at = "add" /\ UNCHANGED due /\ Through(t)
        /\ counts' = [counts EXCEPT ![Current(t)] = Plus(event[t].seen, Amount(event[t].item))]
    BY <1>17 DEF Add
  <2>2. event' = [event EXCEPT ![t] = EventAfter(t)] /\ EventAfter(t).at \in {"idle", "deliver"}
    BY <2>1, ThroughMeans
  <2>3. event'[t] = EventAfter(t)
    BY <2>2 DEF RecTypeOK
  <2>4. Share(t, b, k)' = 0
    BY <1>3, <1>6, <2>2, <2>3
  <2>5. event[t].seen = counts[Current(t)]
    BY <2>1 DEF Callbacks
  <2>6. CASE Current(t) = b
    <3>1. counts'[b][k] = counts[b][k] + Amount(event[t].item)[k]
      BY <1>7, <2>1, <2>5, <2>6 DEF Plus
    <3>2. Share(t, b, k) = Amount(event[t].item)[k]
      BY <1>5, <2>1, <2>6
    <3>3. Amount(event[t].item)[k] \in Int
      BY <1>11, <2>1
    <3>4. QED
      BY <1>4, <1>8, <1>10, <2>1, <2>4, <3>1, <3>2, <3>3
  <2>7. CASE Current(t) # b
    <3>1. counts'[b] = counts[b]
      BY <1>7, <2>1, <2>7
    <3>2. Share(t, b, k) = 0
      BY <1>5, <2>7
    <3>3. QED
      BY <1>12, <2>1, <2>4, <3>1, <3>2
  <2>8. QED
    BY <2>6, <2>7
<1>18. QED
  BY <1>13, <1>14, <1>15, <1>16, <1>17

\* Nobody's callback moves while a thread starts or ends, a block goes its way or
\* another tool takes an id or gives it back.
LEMMA CountsStandStill ==
    ASSUME RecTypeOK, Callbacks, CountsExact, UNCHANGED <<event, countVars>>,
           \A c \in Blocks : stage[c] \in {"body", "last", "over"} =>
                /\ stage'[c] \in {"body", "last", "over"}
                /\ looking'[c] = looking[c]
    PROVE  Callbacks' /\ CountsExact'
<1>1. \A t \in RecThreads : \A c \in event[t].todo :
         stage[c] \in {"body", "last", "over"} /\ c \in Blocks
  <2> TAKE t \in RecThreads
  <2>1. \A c \in event[t].todo : stage[c] \in {"body", "last", "over"}
    BY DEF Callbacks
  <2>2. event[t].todo \subseteq Blocks
    <3>1. event[t] = NoEvent \/ IsEvent(event[t])
      BY Plain
    <3>2. QED
      BY <3>1, IdleIsNoEvent DEF IsEvent
  <2>3. QED
    BY <2>1, <2>2
<1>2. \A t \in RecThreads : \A c \in event[t].todo : looking'[c] = looking[c]
  BY <1>1
<1>3. \A t \in RecThreads : Current(t)' = Current(t)
  <2> TAKE t \in RecThreads
  <2>1. event'[t].todo = event[t].todo
    OBVIOUS
  <2>2. QED
    BY <1>2, <2>1, CurrentStays
<1>4. Callbacks'
  BY <1>1, <1>3 DEF Callbacks, countVars
<1>5. \A b \in Blocks, k \in Keys : OnItsWay(b, k)' = OnItsWay(b, k)
  BY <1>2, NothingMoves
<1>6. CountsExact'
  BY <1>5 DEF CountsExact, countVars
<1>7. QED
  BY <1>4, <1>6

-----------------------------------------------------------------------------
(* Every step.                                                             *)

LEMMA RecStepIInv ==
    ASSUME RecIInv, RecNext
    PROVE  RecIInv'
<1> USE DEF RecIInv
<1>1. ASSUME NEW t \in RecThreads, StartThread(t) \/ EndThread(t)
      PROVE  RecIInv'
  <2>1. UNCHANGED <<countVars, blockVars, owner, event>>
    BY <1>1 DEF StartThread, EndThread
  <2>2. RecTypeOK'
    BY <1>1, ThreadTypes
  <2>3. Nesting' /\ Holding'
    BY <2>1 DEF Nesting, Holding, Open, Delivers, blockVars
  <2>4. Callbacks' /\ CountsExact'
    BY <2>1, CountsStandStill DEF blockVars
  <2>5. QED
    BY <2>2, <2>3, <2>4
<1>2. ASSUME NEW t \in RecThreads,
             \/ \E item \in Items : Begin(t, item)
             \/ Deliver(t) \/ Work(t) \/ EnterAdd(t) \/ Add(t)
      PROVE  RecIInv'
  <2>1. UNCHANGED <<blockVars, owner>>
    BY <1>2 DEF Begin, Deliver, Work, EnterAdd, Add
  <2>2. RecTypeOK'
    BY <1>2, EventTypes
  <2>3. Nesting' /\ Holding'
    BY <2>1 DEF Nesting, Holding, Open, Delivers, blockVars
  <2>4. Callbacks' /\ CountsExact'
    BY <1>2, <2>2, CallbacksInOrder, CountsStayExact
  <2>5. QED
    BY <2>2, <2>3, <2>4
<1>3. ASSUME NEW i \in 1..ToolIds, OtherTool(i)
      PROVE  RecIInv'
  <2>1. UNCHANGED <<countVars, blockVars, event>>
    BY <1>3 DEF OtherTool
  <2>2. RecTypeOK' /\ Holding'
    BY <1>3, OtherToolHolds
  <2>3. Nesting'
    BY <2>1 DEF Nesting, Open, blockVars
  <2>4. Callbacks' /\ CountsExact'
    BY <2>1, CountsStandStill DEF blockVars
  <2>5. QED
    BY <2>2, <2>3, <2>4
<1>4. ASSUME NEW b \in Blocks,
             OpenBlock(b) \/ FindTool(b) \/ ClaimTool(b) \/ EndBody(b) \/ CloseBlock(b)
      PROVE  RecIInv'
  <2>1. UNCHANGED <<countVars, event>>
    BY <1>4 DEF OpenBlock, FindTool, ClaimTool, EndBody, CloseBlock
  <2>2. RecTypeOK' /\ Nesting' /\ Holding'
    BY <1>4, BlockTypes, BlocksNested, IdsHeld
  <2>a. stage \in [Blocks -> RecStages] /\ looking \in [Blocks -> 1..(ToolIds + 1)]
    BY DEF RecTypeOK
  <2>3. \A c \in Blocks : stage[c] \in {"body", "last", "over"} =>
          stage'[c] \in {"body", "last", "over"} /\ looking'[c] = looking[c]
    <3>1. CASE OpenBlock(b)
      BY <2>a, <3>1 DEF OpenBlock
    <3>2. CASE FindTool(b)
      BY <2>a, <3>2 DEF FindTool
    <3>3. CASE ClaimTool(b)
      BY <2>a, <3>3 DEF ClaimTool
    <3>4. CASE EndBody(b)
      BY <2>a, <3>4 DEF EndBody
    <3>5. CASE CloseBlock(b)
      BY <2>a, <3>5 DEF CloseBlock
    <3>6. QED
      BY <1>4, <3>1, <3>2, <3>3, <3>4, <3>5
  <2>4. Callbacks' /\ CountsExact'
    BY <2>1, <2>3, CountsStandStill
  <2>5. QED
    BY <2>2, <2>4
<1>5. QED
  BY <1>1, <1>2, <1>3, <1>4 DEF RecNext

LEMMA RecInitIInv == RecInit => RecIInv
<1> SUFFICES ASSUME RecInit PROVE RecIInv
  OBVIOUS
<1>1. RecTypeOK /\ Nesting /\ Holding /\ Callbacks
  BY InitOrder
<1>2. \A b \in Blocks, k \in Keys : OnItsWay(b, k) = 0
  <2> TAKE b \in Blocks, k \in Keys
  <2>1. Adding(b) = {}
    BY IdleIsNoEvent DEF Adding, RecInit
  <2>2. OnItsWay(b, k) = SumFunctionOnSet(Amounts(Adding(b), event, k), Adding(b))
    BY OnItsWayIs DEF Way
  <2>3. QED
    BY <2>1, <2>2, SumOfNone
<1>3. CountsExact
  BY <1>2 DEF CountsExact, RecInit
<1>4. QED
  BY <1>1, <1>3 DEF RecIInv

\* The invariant behind the theorems below: blocks nest and hold what they claimed, a
\* callback under way will add what its block was told of and nothing twice, and what
\* was counted and what is on its way is what is due (CallRecorder.started, called).
THEOREM RecInvariance == RecSpec => []RecIInv
<1>1. RecIInv /\ [RecNext]_recVars => RecIInv'
  <2> SUFFICES ASSUME RecIInv, [RecNext]_recVars PROVE RecIInv'
    OBVIOUS
  <2>1. CASE RecNext
    BY <2>1, RecStepIInv
  <2>2. CASE UNCHANGED recVars
    <3>1. UNCHANGED <<event, countVars, blockVars, owner, threadVars, done>>
      BY <2>2 DEF recVars
    <3>2. RecTypeOK' /\ Nesting' /\ Holding'
      BY <3>1 DEF RecIInv, RecTypeOK, Nesting, Holding, Open, Delivers, countVars, blockVars, threadVars
    <3>3. Callbacks' /\ CountsExact'
      BY <3>1, CountsStandStill DEF RecIInv, blockVars
    <3>4. QED
      BY <3>2, <3>3 DEF RecIInv
  <2>3. QED
    BY <2>1, <2>2
<1>2. QED
  BY <1>1, RecInitIInv, PTL DEF RecSpec

\* Every variable of the blocks and the threads keeps its type.
THEOREM RecTypeCorrect == RecSpec => []RecTypeOK
<1>1. RecIInv => RecTypeOK
  BY DEF RecIInv
<1>2. QED
  BY <1>1, RecInvariance, PTL

\* A block's counts and what callbacks under way will still add to them are exactly
\* what its threads did while it watched them, whatever other threads, blocks and
\* reused identifiers do, and in whatever order packages were given (CallRecorder._add,
\* by_package).
THEOREM CountsAreExact == RecSpec => []CountsExact
<1>1. RecIInv => CountsExact
  BY DEF RecIInv
<1>2. QED
  BY <1>1, RecInvariance, PTL

\* A block holds a tool id only while it delivers, the collector is off while a block
\* runs, and after the last it is as it was found (counted_calls, _claim_tool_id).
THEOREM NothingIsLeftBehind == RecSpec => []LeavesNothingBehind
<1>1. RecIInv => LeavesNothingBehind
  BY DEF RecIInv, Nesting, Holding, LeavesNothingBehind, Open
<1>2. QED
  BY <1>1, RecInvariance, PTL

-----------------------------------------------------------------------------
(* CommandLine: what the shells are told.                                  *)

States == {"none", "running"} \union Ended
Commands == {"run", "detached", "status", "logs", "fetch", "cancel"}

\* Where each command can be.
Points(name) ==
    CASE name = "none" -> {"none"}
      [] name = "run" -> {"config", "partial", "replace", "print", "logs", "status", "fetch"}
      [] name = "detached" -> {"config", "partial", "replace", "print"}
      [] name = "status" -> {"list", "load", "status"}
      [] name = "logs" -> {"load", "logs"}
      [] name = "fetch" -> {"load", "fetch"}
      [] name = "cancel" -> {"load", "cancel"}

Jobs == {Resolve(table) : table \in Tables} \union {{}}
Copies == UNION {[S -> BOOLEAN] : S \in SUBSET Files}

ShellTypeOK ==
    /\ command \in [Shells -> Commands \union {"none"}]
    /\ DOMAIN at = Shells /\ \A p \in Shells : at[p] \in Points(command[p])
    /\ about \in [Shells -> Runs \union {NoValue}]
    /\ told \in [Shells -> States]
    /\ copied \in [Shells -> Copies]
    /\ exit \in [Shells -> {0, 1, 2, NoValue}]
    /\ state \in [Runs -> States]
    /\ written \in [Runs -> 0..3]
    /\ job \in [Runs -> Jobs]
    /\ partial \subseteq Runs /\ printed \subseteq Runs
    /\ stored \in [Runs -> {"none", "old", "whole"}]

\* A shell names a run from submit or load on, and uses one that is recorded.
OfItsOwn(p) ==
    /\ at[p] \in {"partial", "replace", "load"} => about[p] \in Runs
    /\ at[p] \in {"partial", "replace"} => state[about[p]] # "none"
    /\ at[p] \in {"print", "logs", "status", "fetch", "cancel"} =>
           about[p] \in Runs /\ stored[about[p]] = "whole"

\* A record is put in its place for a run that was submitted.
Recorded == \A r \in Runs : stored[r] = "whole" => state[r] # "none"

\* A success follows the finished manifest.
SuccessIsFinished == \A r \in Runs : state[r] = "succeeded" => written[r] = 3

\* What run was told still holds while it copies, and it copies the finished outputs.
ToldTruly(p) ==
    /\ at[p] # "fetch" => DOMAIN copied[p] = {}
    /\ command[p] = "run" => exit[p] = NoValue
    /\ command[p] = "run" /\ at[p] = "fetch" /\ told[p] = "succeeded" =>
           /\ state[about[p]] \in {"succeeded", "cancelled"}
           /\ written[about[p]] = 3
           /\ \A f \in DOMAIN copied[p] : copied[p][f]

ShellIInv ==
    /\ ShellTypeOK /\ Recorded /\ SuccessIsFinished
    /\ \A p \in Shells : OfItsOwn(p) /\ ToldTruly(p)
    /\ PrintedIsFound
    /\ EachScriptOnce

-----------------------------------------------------------------------------

LEMMA NothingCopied == [f \in {} |-> FALSE] \in Copies
  BY DEF Copies

LEMMA ShellInitIInv == CliInit => ShellIInv
<1> SUFFICES ASSUME CliInit PROVE ShellIInv
  OBVIOUS
<1>1. ShellTypeOK
  BY NothingCopied DEF CliInit, ShellTypeOK, Points, Commands, States, Jobs
<1>2. Recorded /\ SuccessIsFinished /\ PrintedIsFound /\ EachScriptOnce
  BY DEF CliInit, Recorded, SuccessIsFinished, PrintedIsFound, EachScriptOnce
<1>3. \A p \in Shells : OfItsOwn(p) /\ ToldTruly(p)
  BY DEF CliInit, OfItsOwn, ToldTruly
<1>4. QED
  BY <1>1, <1>2, <1>3 DEF ShellIInv

-----------------------------------------------------------------------------
(* What a shell's step leaves alone.                                       *)

ShellTypes ==
    /\ command \in [Shells -> Commands \union {"none"}]
    /\ DOMAIN at = Shells /\ \A p \in Shells : at[p] \in Points(command[p])
    /\ about \in [Shells -> Runs \union {NoValue}]
    /\ told \in [Shells -> States]
    /\ copied \in [Shells -> Copies]
    /\ exit \in [Shells -> {0, 1, 2, NoValue}]

OnlyShell(p) ==
    \A q \in Shells \ {p} :
        /\ command'[q] = command[q] /\ at'[q] = at[q] /\ about'[q] = about[q]
        /\ told'[q] = told[q] /\ copied'[q] = copied[q] /\ exit'[q] = exit[q]

\* A step of one shell that neither the runs nor the records see.
LEMMA ShellStep ==
    ASSUME ShellIInv, NEW p \in Shells, OnlyShell(p), UNCHANGED <<backendVars, recordVars>>,
           ShellTypes', OfItsOwn(p)', ToldTruly(p)'
    PROVE  ShellIInv'
<1>1. ShellTypeOK'
  BY DEF ShellIInv, ShellTypeOK, ShellTypes, backendVars, recordVars
<1>2. (Recorded /\ SuccessIsFinished /\ PrintedIsFound /\ EachScriptOnce)'
  BY DEF ShellIInv, Recorded, SuccessIsFinished, PrintedIsFound, EachScriptOnce, backendVars,
         recordVars
<1>3. ASSUME NEW q \in Shells \ {p} PROVE (OfItsOwn(q) /\ ToldTruly(q))'
  BY <1>3 DEF ShellIInv, OfItsOwn, ToldTruly, OnlyShell, backendVars, recordVars
<1>4. QED
  BY <1>1, <1>2, <1>3 DEF ShellIInv

\* A command that is over is nowhere and holds no copy.
LEMMA Exiting ==
    ASSUME ShellIInv, NEW p \in Shells, NEW code \in {0, 1, 2, NoValue}, Exits(p, code),
           about' = about, told' \in [Shells -> States],
           \A q \in Shells \ {p} : told'[q] = told[q]
    PROVE  /\ OnlyShell(p) /\ ShellTypes' /\ OfItsOwn(p)' /\ ToldTruly(p)'
           /\ exit'[p] = code
<1>1. [f \in {} |-> FALSE] \in Copies
  BY NothingCopied
<1>2. /\ command'[p] = "none" /\ at'[p] = "none" /\ copied'[p] = [f \in {} |-> FALSE]
      /\ exit'[p] = code
  BY DEF ShellIInv, ShellTypeOK, Exits
<1>3. OnlyShell(p)
  BY DEF ShellIInv, ShellTypeOK, Exits, OnlyShell
<1>4. ShellTypes'
  <2>1. command' \in [Shells -> Commands \union {"none"}] /\ DOMAIN at' = Shells
    BY DEF ShellIInv, ShellTypeOK, Exits
  <2>2. ASSUME NEW q \in Shells PROVE at'[q] \in Points(command'[q])
    BY <1>2, <1>3 DEF ShellIInv, ShellTypeOK, OnlyShell, Points
  <2>3. copied' \in [Shells -> Copies] /\ exit' \in [Shells -> {0, 1, 2, NoValue}]
    BY <1>1 DEF ShellIInv, ShellTypeOK, Exits
  <2>4. QED
    BY <2>1, <2>2, <2>3 DEF ShellIInv, ShellTypeOK, ShellTypes
<1>5. OfItsOwn(p)' /\ ToldTruly(p)'
  BY <1>2 DEF OfItsOwn, ToldTruly
<1>6. QED
  BY <1>2, <1>3, <1>4, <1>5

\* A command that goes on to its next point.
LEMMA Going ==
    ASSUME ShellIInv, NEW p \in Shells, NEW next \in Points(command[p]), Goes(p, next),
           UNCHANGED <<command, exit>>, about' = about, told' \in [Shells -> States],
           copied' \in [Shells -> Copies],
           \A q \in Shells \ {p} : told'[q] = told[q] /\ copied'[q] = copied[q]
    PROVE  OnlyShell(p) /\ ShellTypes' /\ at'[p] = next
<1>1. at'[p] = next /\ DOMAIN at' = Shells
  BY DEF ShellIInv, ShellTypeOK, Goes
<1>2. OnlyShell(p)
  BY DEF ShellIInv, ShellTypeOK, Goes, OnlyShell
<1>3. ShellTypes'
  BY <1>1, <1>2 DEF ShellIInv, ShellTypeOK, OnlyShell, ShellTypes
<1>4. QED
  BY <1>1, <1>2, <1>3

-----------------------------------------------------------------------------
(* The commands.                                                           *)

\* Starting, listing and dying, which read the records at most.
LEMMA ReadingIInv ==
    ASSUME ShellIInv, NEW p \in Shells, Start(p) \/ ListRuns(p) \/ ShellDies(p) PROVE ShellIInv'
<1>1. CASE Start(p)
  <2>1. ASSUME NEW name \in Commands, NEW first \in {"config", "list", "load"},
               NEW run \in Runs \union {NoValue}, Asks(p, name, first, run),
               first \in Points(name), first = "load" => run \in Runs
        PROVE  ShellIInv'
    <3>1. UNCHANGED <<backendVars, recordVars>> /\ copied' = copied
      BY <2>1 DEF Asks
    <3>2. /\ command'[p] = name /\ at'[p] = first /\ about'[p] = run
          /\ told'[p] = "none" /\ exit'[p] = NoValue /\ command[p] = "none"
      BY <2>1 DEF ShellIInv, ShellTypeOK, Asks
    <3>3. OnlyShell(p)
      BY <2>1 DEF ShellIInv, ShellTypeOK, Asks, OnlyShell
    <3>4. ShellTypes'
      <4>1. \A q \in Shells : at'[q] \in Points(command'[q])
        BY <2>1, <3>2, <3>3 DEF ShellIInv, ShellTypeOK, OnlyShell
      <4>2. QED
        BY <2>1, <3>1, <4>1 DEF ShellIInv, ShellTypeOK, Asks, ShellTypes, States
    <3>5. at[p] = "none"
      BY <3>2 DEF ShellIInv, ShellTypeOK, Points
    <3>6. OfItsOwn(p)' /\ ToldTruly(p)'
      BY <2>1, <3>1, <3>2, <3>5 DEF ShellIInv, OfItsOwn, ToldTruly
    <3>7. QED
      BY <3>1, <3>3, <3>4, <3>6, ShellStep
  <2>2. QED
    BY <1>1, <2>1 DEF Start, Commands, Points
<1>2. CASE ListRuns(p) \/ ShellDies(p)
  <2>1. PICK code \in {0, 1, 2, NoValue} : Exits(p, code)
    BY <1>2 DEF ListRuns, ShellDies, Fails
  <2>2. UNCHANGED <<about, told, backendVars, recordVars>>
    BY <1>2 DEF ListRuns, ShellDies
  <2>3. told \in [Shells -> States]
    BY DEF ShellIInv, ShellTypeOK
  <2>4. QED
    BY <2>1, <2>2, <2>3, Exiting, ShellStep
<1>3. QED
  BY <1>1, <1>2

LEMMA LoadIInv == ASSUME ShellIInv, NEW p \in Shells, Load(p) PROVE ShellIInv'
<1>1. UNCHANGED <<about, told, backendVars, recordVars>> /\ at[p] = "load"
  BY DEF Load
<1>2. told \in [Shells -> States] /\ copied \in [Shells -> Copies]
  BY DEF ShellIInv, ShellTypeOK
<1>3. about[p] \in Runs
  BY <1>1 DEF ShellIInv, OfItsOwn
<1>4. CASE stored[about[p]] = "whole" /\ Goes(p, command[p]) /\ UNCHANGED <<command, copied, exit>>
  <2>1. Goes(p, command[p]) /\ UNCHANGED <<command, copied, exit>>
    BY <1>4
  <2>2. command[p] \in Commands \union {"none"} /\ "load" \in Points(command[p])
    BY <1>1 DEF ShellIInv, ShellTypeOK
  <2>3. command[p] \in Points(command[p]) /\ command[p] \in {"status", "logs", "fetch", "cancel"}
    BY <2>2 DEF Commands, Points
  <2>4. OnlyShell(p) /\ ShellTypes' /\ at'[p] = command[p]
    BY <1>1, <1>2, <2>1, <2>3, Going
  <2>5. OfItsOwn(p)'
    BY <1>1, <1>3, <1>4, <2>3, <2>4 DEF OfItsOwn, recordVars
  <2>6. ToldTruly(p)'
    BY <1>1, <2>1, <2>3, <2>4 DEF ShellIInv, ToldTruly
  <2>7. QED
    BY <1>1, <2>4, <2>5, <2>6, ShellStep
<1>5. CASE \E code \in {1, 2} : Exits(p, code)
  BY <1>1, <1>2, <1>5, Exiting, ShellStep
<1>6. QED
  BY <1>4, <1>5 DEF Load, Fails

LEMMA LogsIInv == ASSUME ShellIInv, NEW p \in Shells, Logs(p) PROVE ShellIInv'
<1>1. UNCHANGED <<about, told, backendVars, recordVars>> /\ at[p] = "logs"
  BY DEF Logs
<1>2. told \in [Shells -> States] /\ copied \in [Shells -> Copies]
  BY DEF ShellIInv, ShellTypeOK
<1>3. CASE command[p] = "run" /\ Goes(p, "status") /\ UNCHANGED <<command, copied, exit>>
  <2>1. "status" \in Points(command[p])
    BY <1>3 DEF Points
  <2>2. OnlyShell(p) /\ ShellTypes' /\ at'[p] = "status"
    BY <1>1, <1>2, <1>3, <2>1, Going
  <2>3. OfItsOwn(p)'
    BY <1>1, <2>2 DEF ShellIInv, OfItsOwn, recordVars
  <2>4. ToldTruly(p)'
    BY <1>1, <1>3, <2>2 DEF ShellIInv, ToldTruly
  <2>5. QED
    BY <1>1, <2>2, <2>3, <2>4, ShellStep
<1>4. CASE \E code \in {0, 1, 2} : Exits(p, code)
  BY <1>1, <1>2, <1>4, Exiting, ShellStep
<1>5. QED
  BY <1>3, <1>4 DEF Logs, Fails

\* What status answers holds at that moment, which is when run begins to copy.
LEMMA AskStatusIInv == ASSUME ShellIInv, NEW p \in Shells, AskStatus(p) PROVE ShellIInv'
<1>1. UNCHANGED <<about, backendVars, recordVars>> /\ at[p] = "status"
  BY DEF AskStatus
<1>2. about[p] \in Runs /\ stored[about[p]] = "whole" /\ told \in [Shells -> States]
      /\ state[about[p]] \in States /\ copied \in [Shells -> Copies]
  BY <1>1 DEF ShellIInv, ShellTypeOK, OfItsOwn
<1>3. CASE told' = [told EXCEPT ![p] = state[about[p]]] /\ AfterStatus(p)
  <2>1. told' \in [Shells -> States] /\ told'[p] = state[about[p]]
        /\ \A q \in Shells \ {p} : told'[q] = told[q]
    BY <1>2, <1>3
  <2>2. CASE command[p] = "run"
    <3>1. Goes(p, "fetch") /\ UNCHANGED <<command, copied, exit>>
      BY <1>3, <2>2 DEF AfterStatus
    <3>2. "fetch" \in Points(command[p])
      BY <2>2 DEF Points
    <3>3. OnlyShell(p) /\ ShellTypes' /\ at'[p] = "fetch"
      BY <1>1, <1>2, <2>1, <3>1, <3>2, Going
    <3>4. OfItsOwn(p)'
      BY <1>1, <1>2, <3>3 DEF OfItsOwn, recordVars
    <3>5. ToldTruly(p)'
      BY <1>1, <1>2, <2>1, <3>1, <3>3 DEF ShellIInv, ToldTruly, SuccessIsFinished, backendVars
    <3>6. QED
      BY <1>1, <3>3, <3>4, <3>5, ShellStep
  <2>3. CASE command[p] # "run"
    <3>1. Exits(p, 0)
      BY <1>3, <2>3 DEF AfterStatus
    <3>2. QED
      BY <1>1, <2>1, <3>1, Exiting, ShellStep
  <2>4. QED
    BY <2>2, <2>3
<1>4. CASE Fails(p) /\ UNCHANGED told
  BY <1>1, <1>2, <1>4, Exiting, ShellStep DEF Fails
<1>5. QED
  BY <1>3, <1>4 DEF AskStatus

LEMMA FetchIInv == ASSUME ShellIInv, NEW p \in Shells, Fetch(p) PROVE ShellIInv'
<1>1. UNCHANGED <<about, told, backendVars, recordVars>> /\ at[p] = "fetch"
  BY DEF Fetch
<1>2. about[p] \in Runs /\ told \in [Shells -> States] /\ copied \in [Shells -> Copies]
  BY <1>1 DEF ShellIInv, ShellTypeOK, OfItsOwn
<1>3. CASE \E code \in {0, 1, 2} : Exits(p, code)
  BY <1>1, <1>2, <1>3, Exiting, ShellStep
<1>4. ASSUME NEW f \in Files \ DOMAIN copied[p], UNCHANGED <<command, exit, at>>,
             copied' = [copied EXCEPT ![p] = [g \in DOMAIN @ \union {f} |->
                 IF g = f THEN written[about[p]] = 3 \/ (f = "output" /\ written[about[p]] = 2)
                 ELSE @[g]]]
      PROVE  ShellIInv'
  <2> DEFINE S == DOMAIN copied[p] \union {f}
             whole == written[about[p]] = 3 \/ (f = "output" /\ written[about[p]] = 2)
             now == [g \in S |-> IF g = f THEN whole ELSE copied[p][g]]
  <2>1. DOMAIN copied[p] \in SUBSET Files /\ copied[p] \in [DOMAIN copied[p] -> BOOLEAN]
    BY <1>2 DEF Copies
  <2>2. now \in Copies
    <3>1. whole \in BOOLEAN
      OBVIOUS
    <3>2. now \in [S -> BOOLEAN]
      BY <2>1, <3>1
    <3>3. S \in SUBSET Files
      BY <2>1
    <3>4. QED
      BY <3>2, <3>3 DEF Copies
  <2>3. copied' = [copied EXCEPT ![p] = now]
    BY <1>4
  <2>4. copied' \in [Shells -> Copies] /\ copied'[p] = now
        /\ \A q \in Shells \ {p} : copied'[q] = copied[q]
    BY <1>2, <2>2, <2>3
  <2>5. OnlyShell(p) /\ ShellTypes'
    BY <1>1, <1>4, <2>4 DEF ShellIInv, ShellTypeOK, OnlyShell, ShellTypes
  <2>6. OfItsOwn(p)'
    BY <1>1, <1>4 DEF ShellIInv, OfItsOwn, backendVars, recordVars
  <2>7. ToldTruly(p)'
    <3>1. ToldTruly(p)
      BY DEF ShellIInv
    <3>2. QED
      BY <1>1, <1>4, <2>1, <2>4, <3>1 DEF ToldTruly, backendVars
  <2>8. QED
    BY <1>1, <2>5, <2>6, <2>7, ShellStep
<1>5. QED
  BY <1>3, <1>4 DEF Fetch, FetchDone, Fails

-----------------------------------------------------------------------------
(* Steps that move the runs or the records.                                *)

\* What a shell relies on is never taken back.
Lasts ==
    \A r \in Runs :
        /\ stored[r] = "whole" => stored'[r] = "whole"
        /\ state[r] # "none" => state'[r] # "none"
        /\ state[r] \in {"succeeded", "cancelled"} => state'[r] \in {"succeeded", "cancelled"}
        /\ written[r] = 3 => written'[r] = 3

LEMMA OtherShell ==
    ASSUME ShellIInv, Lasts, NEW q \in Shells,
           command'[q] = command[q], at'[q] = at[q], about'[q] = about[q], told'[q] = told[q],
           copied'[q] = copied[q], exit'[q] = exit[q]
    PROVE  (OfItsOwn(q) /\ ToldTruly(q))'
<1>1. OfItsOwn(q) /\ ToldTruly(q)
  BY DEF ShellIInv
<1>2. OfItsOwn(q)'
  BY <1>1 DEF OfItsOwn, Lasts
<1>3. ToldTruly(q)'
  <2>1. at[q] = "fetch" => about[q] \in Runs
    BY <1>1 DEF OfItsOwn
  <2>2. QED
    BY <1>1, <2>1 DEF ToldTruly, Lasts
<1>4. QED
  BY <1>2, <1>3

\* The worker's own steps.
LEMMA RunMovesIInv == ASSUME ShellIInv, NEW r \in Runs, RunMoves(r) PROVE ShellIInv'
<1>1. UNCHANGED <<shellVars, job, recordVars>> /\ state[r] = "running"
  BY DEF RunMoves
<1>2. /\ state' \in [Runs -> States] /\ written' \in [Runs -> 0..3]
      /\ \A s \in Runs \ {r} : state'[s] = state[s] /\ written'[s] = written[s]
      /\ state'[r] \in {"running", "succeeded", "failed"}
      /\ state'[r] = "succeeded" => written'[r] = 3
      /\ written[r] = 3 => written'[r] = 3
  <2>1. written[r] \in 0..3
    BY DEF ShellIInv, ShellTypeOK
  <2>2. CASE written[r] < 2 /\ written' = [written EXCEPT ![r] = @ + 1] /\ UNCHANGED state
    <3>1. written[r] + 1 \in 0..3
      BY <2>1, <2>2
    <3>2. QED
      BY <1>1, <2>1, <2>2, <3>1 DEF ShellIInv, ShellTypeOK, States
  <2>3. CASE /\ written' = [written EXCEPT ![r] = 3]
             /\ state' \in {[state EXCEPT ![r] = s] : s \in {"succeeded", "failed"}}
    BY <2>3 DEF ShellIInv, ShellTypeOK, States, Ended
  <2>4. CASE state' = [state EXCEPT ![r] = "failed"] /\ UNCHANGED written
    BY <2>4 DEF ShellIInv, ShellTypeOK, States, Ended
  <2>5. QED
    BY <2>2, <2>3, <2>4 DEF RunMoves
<1>3. ShellTypeOK'
  BY <1>1, <1>2 DEF ShellIInv, ShellTypeOK, shellVars, recordVars
<1>4. Lasts
  BY <1>1, <1>2 DEF Lasts, recordVars
<1>5. \A q \in Shells : (OfItsOwn(q) /\ ToldTruly(q))'
  BY <1>1, <1>4, OtherShell DEF shellVars
<1>6. (Recorded /\ SuccessIsFinished)'
  BY <1>1, <1>2 DEF ShellIInv, Recorded, SuccessIsFinished, recordVars
<1>7. (PrintedIsFound /\ EachScriptOnce)'
  BY <1>1, <1>2 DEF ShellIInv, PrintedIsFound, EachScriptOnce, recordVars
<1>8. QED
  BY <1>3, <1>5, <1>6, <1>7 DEF ShellIInv

\* A script has one name, and a table that was not refused no two tasks of one name.
LEMMA Once ==
    ASSUME NEW table \in Tables, ~Refuses(table)
    PROVE  \A t, u \in Resolve(table) : t.script = u.script /\ t.script # NoValue => t = u
<1>1. ASSUME NEW t \in Resolve(table), t.script # NoValue PROVE t.name = Dotted[t.script]
  <2> DEFINE From(i) == {[from |-> i, script |-> script, name |-> Dotted[script]] :
                            script \in Discovered(table.examples[i])}
             Commanded == {[from |-> 0, script |-> NoValue, name |-> name] : name \in table.commands}
  <2>1. t \in (UNION {From(i) : i \in DOMAIN table.examples}) \union Commanded
    BY <1>1 DEF Resolve
  <2>2. t \notin Commanded
    BY <1>1
  <2> HIDE DEF Commanded, From
  <2>3. PICK S \in {From(i) : i \in DOMAIN table.examples} : t \in S
    BY <2>1, <2>2, Zenon
  <2>4. PICK i \in DOMAIN table.examples : S = From(i)
    BY <2>3, Zenon
  <2>5. QED
    BY <2>3, <2>4 DEF From
<1>2. \A t, u \in Resolve(table) : t.name = u.name => t = u
  BY DEF Refuses
<1>3. QED
  BY <1>1, <1>2

LEMMA SubmitIInv ==
    ASSUME ShellIInv, NEW p \in Shells, NEW table \in Tables, Submit(p, table) PROVE ShellIInv'
<1>1. UNCHANGED <<told, written, recordVars>> /\ at[p] = "config"
  BY DEF Submit
<1>2. told \in [Shells -> States] /\ copied \in [Shells -> Copies]
  BY DEF ShellIInv, ShellTypeOK
<1>3. CASE Fails(p) /\ UNCHANGED <<about, state, job>>
  BY <1>1, <1>2, <1>3, Exiting, ShellStep DEF Fails, backendVars
<1>4. ASSUME NEW r \in Runs, ~Refuses(table), state[r] = "none", stored[r] = "none",
             state' = [state EXCEPT ![r] = "running"],
             job' = [job EXCEPT ![r] = Resolve(table)],
             about' = [about EXCEPT ![p] = r],
             \/ Goes(p, "partial") /\ UNCHANGED <<exit, command, copied>>
             \/ Fails(p)
      PROVE  ShellIInv'
  <2>1. /\ state' \in [Runs -> States] /\ job' \in [Runs -> Jobs]
        /\ about' \in [Shells -> Runs \union {NoValue}]
    <3>1. Resolve(table) \in Jobs
      BY DEF Jobs
    <3>2. QED
      BY <1>4, <3>1 DEF ShellIInv, ShellTypeOK, States
  <2>2. state'[r] = "running" /\ job'[r] = Resolve(table) /\ about'[p] = r
        /\ \A s \in Runs \ {r} : state'[s] = state[s] /\ job'[s] = job[s]
    BY <1>4 DEF ShellIInv, ShellTypeOK
  <2>3. OnlyShell(p)
    BY <1>1, <1>4 DEF ShellIInv, ShellTypeOK, Fails, Exits, Goes, OnlyShell
  <2>4. \/ at'[p] = "partial" /\ command'[p] = command[p] /\ exit'[p] = exit[p]
           /\ copied'[p] = copied[p]
        \/ at'[p] = "none" /\ command'[p] = "none" /\ copied'[p] = [f \in {} |-> FALSE]
    BY <1>4 DEF ShellIInv, ShellTypeOK, Fails, Exits, Goes
  <2>5. ShellTypes'
    <3>1. command' \in [Shells -> Commands \union {"none"}] /\ DOMAIN at' = Shells
          /\ exit' \in [Shells -> {0, 1, 2, NoValue}]
      BY <1>4 DEF ShellIInv, ShellTypeOK, Fails, Exits, Goes
    <3>2. copied' \in [Shells -> Copies]
      BY <1>2, <1>4, NothingCopied DEF Fails, Exits
    <3>3. \A q \in Shells \ {p} : at'[q] \in Points(command'[q])
      BY <2>3 DEF ShellIInv, ShellTypeOK, OnlyShell
    <3>4. command[p] \in {"run", "detached"}
      BY <1>1 DEF ShellIInv, ShellTypeOK, Points, Commands
    <3>5. at'[p] \in Points(command'[p])
      BY <2>4, <3>4 DEF Points
    <3>6. QED
      BY <1>1, <1>2, <2>1, <3>1, <3>2, <3>3, <3>5 DEF ShellTypes
  <2>6. ShellTypeOK'
    BY <1>1, <2>1, <2>5 DEF ShellIInv, ShellTypeOK, ShellTypes, recordVars
  <2>7. Lasts
    BY <1>1, <1>4, <2>2 DEF Lasts, recordVars
  <2>8. OfItsOwn(p)' /\ ToldTruly(p)'
    BY <1>1, <2>2, <2>4 DEF ShellIInv, OfItsOwn, ToldTruly
  <2>9. \A q \in Shells : (OfItsOwn(q) /\ ToldTruly(q))'
    BY <2>3, <2>7, <2>8, OtherShell DEF OnlyShell
  <2>10. (Recorded /\ SuccessIsFinished /\ PrintedIsFound)'
    BY <1>1, <1>4, <2>2 DEF ShellIInv, Recorded, SuccessIsFinished, PrintedIsFound, recordVars
  <2>11. EachScriptOnce'
    BY <1>4, <2>2, Once DEF ShellIInv, EachScriptOnce
  <2>12. QED
    BY <2>6, <2>9, <2>10, <2>11 DEF ShellIInv
<1>5. QED
  BY <1>3, <1>4 DEF Submit

\* RunStore.save, and the line that names the run.
LEMMA SaveIInv ==
    ASSUME ShellIInv, NEW p \in Shells, WritePartial(p) \/ Replace(p) \/ PrintId(p) PROVE ShellIInv'
<1>1. UNCHANGED <<about, told, backendVars>>
      /\ told \in [Shells -> States] /\ copied \in [Shells -> Copies]
  BY DEF WritePartial, Replace, PrintId, ShellIInv, ShellTypeOK
<1>2. at[p] \in {"partial", "replace", "print"} /\ about[p] \in Runs
      /\ state[about[p]] # "none" /\ command[p] \in {"run", "detached"}
  <2>1. at[p] \in {"partial", "replace", "print"}
    BY DEF WritePartial, Replace, PrintId
  <2>2. command[p] \in {"run", "detached"}
    BY <2>1 DEF ShellIInv, ShellTypeOK, Points, Commands
  <2>3. QED
    BY <2>1, <2>2 DEF ShellIInv, OfItsOwn, Recorded
<1>3. OnlyShell(p) /\ ShellTypes'
      /\ \/ at'[p] = "none" /\ DOMAIN copied'[p] = {} /\ command'[p] = "none"
         \/ /\ at'[p] \in {"replace", "print", "logs"} /\ copied' = copied
            /\ command' = command /\ exit' = exit
            /\ at'[p] # "replace" => stored'[about[p]] = "whole"
  <2>1. CASE WritePartial(p)
    <3>1. "replace" \in Points(command[p])
      BY <1>2 DEF Points
    <3>2. QED
      BY <1>1, <2>1, <3>1, Going DEF WritePartial
  <2>2. CASE Replace(p)
    <3>1. "print" \in Points(command[p])
      BY <1>2 DEF Points
    <3>2. stored'[about[p]] = "whole"
      BY <1>2, <2>2 DEF Replace, ShellIInv, ShellTypeOK
    <3>3. QED
      BY <1>1, <2>2, <3>1, <3>2, Going DEF Replace
  <2>3. CASE PrintId(p) /\ command[p] = "detached"
    <3>1. Exits(p, 0)
      BY <2>3 DEF PrintId
    <3>2. DOMAIN copied'[p] = {} /\ command'[p] = "none" /\ at'[p] = "none"
      BY <3>1 DEF Exits, ShellIInv, ShellTypeOK
    <3>3. QED
      BY <1>1, <3>1, <3>2, Exiting
  <2>4. CASE PrintId(p) /\ command[p] # "detached"
    <3>1. Goes(p, "logs") /\ UNCHANGED <<command, copied, exit>>
      BY <2>4 DEF PrintId
    <3>2. "logs" \in Points(command[p])
      BY <1>2, <2>4 DEF Points
    <3>3. stored'[about[p]] = "whole"
      BY <2>4 DEF PrintId, ShellIInv, OfItsOwn
    <3>4. QED
      BY <1>1, <3>1, <3>2, <3>3, Going
  <2>5. QED
    BY <2>1, <2>2, <2>3, <2>4
<1>4. /\ \/ partial' = partial
         \/ partial' = partial \union {about[p]}
         \/ partial' = partial \ {about[p]}
      /\ \/ stored' = stored
         \/ stored' = [stored EXCEPT ![about[p]] = "whole"]
      /\ \/ printed' = printed
         \/ printed' = printed \union {about[p]} /\ stored[about[p]] = "whole"
  BY DEF WritePartial, Replace, PrintId, ShellIInv, OfItsOwn
<1>5. ShellTypeOK'
  BY <1>1, <1>2, <1>3, <1>4 DEF ShellIInv, ShellTypeOK, ShellTypes, backendVars
<1>6. Lasts
  BY <1>1, <1>2, <1>4 DEF ShellIInv, ShellTypeOK, Lasts, backendVars
<1>7. OfItsOwn(p)'
  BY <1>1, <1>2, <1>3 DEF OfItsOwn, backendVars
<1>8. ToldTruly(p)'
  BY <1>2, <1>3 DEF ShellIInv, ToldTruly
<1>9. \A q \in Shells : (OfItsOwn(q) /\ ToldTruly(q))'
  BY <1>3, <1>6, <1>7, <1>8, OtherShell DEF OnlyShell
<1>10. (Recorded /\ SuccessIsFinished /\ EachScriptOnce)'
  BY <1>1, <1>2, <1>4 DEF ShellIInv, ShellTypeOK, Recorded, SuccessIsFinished, EachScriptOnce,
                          backendVars
<1>11. PrintedIsFound'
  BY <1>1, <1>2, <1>4 DEF ShellIInv, ShellTypeOK, PrintedIsFound, backendVars
<1>12. QED
  BY <1>5, <1>9, <1>10, <1>11 DEF ShellIInv

LEMMA CancelIInv == ASSUME ShellIInv, NEW p \in Shells, Cancel(p) PROVE ShellIInv'
<1>1. UNCHANGED <<about, written, job, recordVars>> /\ at[p] = "cancel"
  BY DEF Cancel
<1>2. /\ about[p] \in Runs /\ stored[about[p]] = "whole" /\ state[about[p]] # "none"
      /\ told \in [Shells -> States] /\ state \in [Runs -> States]
      /\ command[p] = "cancel"
  <2>1. about[p] \in Runs /\ stored[about[p]] = "whole"
    BY <1>1 DEF ShellIInv, OfItsOwn
  <2>2. command[p] = "cancel"
    BY <1>1 DEF ShellIInv, ShellTypeOK, Points, Commands
  <2>3. QED
    BY <2>1, <2>2 DEF ShellIInv, ShellTypeOK, Recorded
<1>3. CASE /\ told' = [told EXCEPT ![p] = state[about[p]]]
           /\ UNCHANGED <<command, at, copied, exit, state>>
  <2>1. OnlyShell(p) /\ ShellTypes'
    BY <1>1, <1>2, <1>3 DEF ShellIInv, ShellTypeOK, OnlyShell, ShellTypes
  <2>2. OfItsOwn(p)' /\ ToldTruly(p)'
    BY <1>1, <1>2, <1>3 DEF ShellIInv, OfItsOwn, ToldTruly, recordVars
  <2>3. QED
    BY <1>1, <1>3, <2>1, <2>2, ShellStep DEF backendVars
<1>4. CASE /\ state' = [state EXCEPT ![about[p]] = IF told[p] \in Ended THEN @ ELSE "cancelled"]
           /\ Exits(p, 0) /\ UNCHANGED told
  <2>1. OnlyShell(p) /\ ShellTypes' /\ OfItsOwn(p)' /\ ToldTruly(p)'
    BY <1>1, <1>2, <1>4, Exiting
  <2>2. /\ state' \in [Runs -> States]
        /\ \A r \in Runs : state'[r] \in {state[r], "cancelled"}
        /\ \A r \in Runs : state[r] = "none" => state'[r] = "none"
    BY <1>2, <1>4 DEF States, Ended
  <2>3. ShellTypeOK'
    BY <1>1, <2>1, <2>2 DEF ShellIInv, ShellTypeOK, ShellTypes, recordVars
  <2>4. Lasts
    BY <1>1, <2>2 DEF Lasts, recordVars
  <2>5. \A q \in Shells : (OfItsOwn(q) /\ ToldTruly(q))'
    BY <2>1, <2>4, OtherShell DEF OnlyShell
  <2>6. (Recorded /\ SuccessIsFinished)'
    BY <1>1, <2>2 DEF ShellIInv, Recorded, SuccessIsFinished, recordVars
  <2>7. (PrintedIsFound /\ EachScriptOnce)'
    BY <1>1, <2>2 DEF ShellIInv, PrintedIsFound, EachScriptOnce, recordVars
  <2>8. QED
    BY <2>3, <2>5, <2>6, <2>7 DEF ShellIInv
<1>5. CASE Fails(p) /\ UNCHANGED <<told, state>>
  BY <1>1, <1>2, <1>5, Exiting, ShellStep DEF Fails, backendVars
<1>6. QED
  BY <1>3, <1>4, <1>5 DEF Cancel

-----------------------------------------------------------------------------
(* The theorems.                                                           *)

LEMMA ShellStepIInv == ShellIInv /\ [CliNext]_cliVars => ShellIInv'
<1> SUFFICES ASSUME ShellIInv, [CliNext]_cliVars PROVE ShellIInv'
  OBVIOUS
<1>1. CASE UNCHANGED cliVars
  BY <1>1 DEF ShellIInv, ShellTypeOK, Recorded, SuccessIsFinished, OfItsOwn, ToldTruly, PrintedIsFound,
             EachScriptOnce, cliVars, shellVars, backendVars, recordVars
<1>2. ASSUME NEW p \in Shells,
             \/ Start(p) \/ WritePartial(p) \/ Replace(p) \/ PrintId(p) \/ Logs(p)
             \/ AskStatus(p) \/ ListRuns(p) \/ Load(p) \/ Fetch(p) \/ Cancel(p) \/ ShellDies(p)
      PROVE  ShellIInv'
  BY <1>2, ReadingIInv, SaveIInv, LogsIInv, AskStatusIInv, LoadIInv, FetchIInv, CancelIInv
<1>3. ASSUME NEW p \in Shells, NEW table \in Tables, Submit(p, table) PROVE ShellIInv'
  BY <1>3, SubmitIInv
<1>4. ASSUME NEW r \in Runs, RunMoves(r) PROVE ShellIInv'
  BY <1>4, RunMovesIInv
<1>5. QED
  BY <1>1, <1>2, <1>3, <1>4 DEF CliNext

\* The invariant behind the theorems below: what a shell has been told, or has
\* printed, stays true while it acts on it (cli.py, RunStore).
THEOREM ShellInvariance == CliSpec => []ShellIInv
<1>1. QED
  BY ShellInitIInv, ShellStepIInv, PTL DEF CliSpec

\* A run whose id was printed is found by every later command, and no record is
\* ever half one (RunStore.save).
THEOREM PrintedRunsAreFound == CliSpec => []PrintedIsFound
<1>1. ShellIInv => PrintedIsFound
  BY DEF ShellIInv
<1>2. QED
  BY <1>1, ShellInvariance, PTL

\* No submitted job runs a script twice, wherever the configured directories lie and
\* whatever the scripts are called (resolve_job, example_tasks, JobSpec).
THEOREM ScriptsRunOnce == CliSpec => []EachScriptOnce
<1>1. ShellIInv => EachScriptOnce
  BY DEF ShellIInv
<1>2. QED
  BY <1>1, ShellInvariance, PTL

\* The one step that ends a run with 0.
LEMMA OnlyFetchEndsWithZero ==
    ASSUME ShellIInv, CliNext, NEW p \in Shells, command[p] = "run", exit'[p] = 0
    PROVE  Fetch(p) /\ FetchDone(p) /\ DOMAIN copied[p] = Files
<1>1. exit[p] # 0
  BY CommandLineAssumption DEF CommandLineAssumption, ShellIInv, ToldTruly
<1>2. exit' # exit /\ at[p] \in Points("run")
  BY <1>1 DEF ShellIInv, ShellTypeOK
<1>3. ASSUME NEW q \in Shells, NEW code, Exits(q, code) PROVE q = p /\ code = 0
  BY <1>1, <1>3 DEF Exits, ShellIInv, ShellTypeOK
<1>35. \A q \in Shells : ~Fails(q)
  BY <1>3 DEF Fails
<1>4. NoValue # 0
  BY CommandLineAssumption DEF CommandLineAssumption
<1>5. \A q \in Shells : ~Start(q)
  <2>1. ASSUME NEW q \in Shells, NEW name, NEW first, NEW run, Asks(q, name, first, run)
        PROVE  FALSE
    BY <1>1, <1>4, <2>1 DEF Asks, ShellIInv, ShellTypeOK
  <2>2. QED
    BY <2>1 DEF Start
<1>6. ASSUME NEW q \in Shells PROVE ~(WritePartial(q) \/ Replace(q))
  BY <1>2 DEF WritePartial, Replace
<1>7. ASSUME NEW q \in Shells, PrintId(q) \/ Logs(q) PROVE FALSE
  <2>1. CASE PrintId(q)
    BY <1>2, <1>3, <2>1 DEF PrintId
  <2>2. CASE Logs(q)
    <3>1. CASE command[q] = "run" /\ UNCHANGED exit
      BY <1>2, <3>1
    <3>2. CASE command[q] # "run" /\ Exits(q, 0)
      BY <1>3, <3>2
    <3>3. QED
      BY <1>35, <2>2, <3>1, <3>2 DEF Logs
  <2>3. QED
    BY <1>7, <2>1, <2>2
<1>8. ASSUME NEW q \in Shells, AskStatus(q) PROVE FALSE
  BY <1>2, <1>3, <1>35, <1>8 DEF AskStatus, AfterStatus
<1>9. ASSUME NEW q \in Shells, ListRuns(q) \/ Load(q) \/ Cancel(q) PROVE FALSE
  <2>1. at[q] \in {"list", "load", "cancel"}
    BY <1>9 DEF ListRuns, Load, Cancel
  <2>2. q # p
    BY <1>2, <2>1 DEF Points
  <2>3. \A code : ~Exits(q, code)
    BY <1>3, <2>2
  <2>4. QED
    BY <1>2, <1>35, <1>9, <2>3 DEF ListRuns, Load, Cancel
<1>10. ASSUME NEW q \in Shells, ShellDies(q) PROVE FALSE
  BY <1>3, <1>4, <1>10 DEF ShellDies
<1>11. ASSUME NEW q \in Shells, NEW table \in Tables, Submit(q, table) PROVE FALSE
  BY <1>2, <1>35, <1>11 DEF Submit
<1>12. ASSUME NEW r \in Runs, RunMoves(r) PROVE FALSE
  BY <1>2, <1>12 DEF RunMoves, shellVars
<1>13. PICK q \in Shells : Fetch(q)
  BY <1>5, <1>6, <1>7, <1>8, <1>9, <1>10, <1>11, <1>12 DEF CliNext
<1>15. DOMAIN copied[q] = Files /\ FetchDone(q)
  BY <1>2, <1>13, <1>35 DEF Fetch
<1>16. q = p
  BY <1>3, <1>15 DEF FetchDone
<1>17. QED
  BY <1>13, <1>15, <1>16

\* A run that exits with 0 had succeeded, and its copy is whole (_run, _finish).
THEOREM ZeroIsTrue == CliSpec => ExitZeroIsTrue
<1>1. ASSUME ShellIInv, CliNext, NEW p \in Shells, command[p] = "run", exit'[p] = 0
      PROVE  /\ state[about[p]] \notin {"running", "failed"}
             /\ DOMAIN copied[p] = Files
             /\ \A f \in Files : copied[p][f]
  <2>1. Fetch(p) /\ FetchDone(p) /\ DOMAIN copied[p] = Files
    BY <1>1, OnlyFetchEndsWithZero
  <2>2. exit'[p] = IF told[p] = "succeeded" THEN 0 ELSE 1
    BY <1>1, <2>1 DEF FetchDone, Exits, ShellIInv, ShellTypeOK
  <2>3. told[p] = "succeeded" /\ at[p] = "fetch"
    BY <1>1, <2>1, <2>2 DEF Fetch
  <2>4. ToldTruly(p)
    BY <1>1 DEF ShellIInv
  <2>5. QED
    BY <1>1, <2>1, <2>3, <2>4 DEF ToldTruly
<1>2. ASSUME ShellIInv, [CliNext]_cliVars
      PROVE  [\A p \in Shells : command[p] = "run" /\ exit'[p] = 0 =>
                 /\ state[about[p]] \notin {"running", "failed"}
                 /\ DOMAIN copied[p] = Files
                 /\ \A f \in Files : copied[p][f]]_cliVars
  BY <1>1, <1>2
<1>3. QED
  BY <1>2, ShellInvariance, PTL DEF CliSpec, ExitZeroIsTrue
=============================================================================
