---------------------------- MODULE CallRecorder ----------------------------
(***************************************************************************)
(* counted_calls (substrax/testing/calls.py, _recorder.py): blocks that    *)
(* count, through sys.monitoring, the functions their threads start and    *)
(* the calls they make. Main opens the blocks, nested; other threads start *)
(* and end at any time. A callback is several steps: on a free-threaded    *)
(* build, and between two bytecodes on the other, threads interleave.      *)
(***************************************************************************)
EXTENDS Integers, FiniteSets, SequencesExt

CONSTANTS
    RecThreads,  \* the threads of the process
    Main,        \* the one that opens the blocks
    Early,       \* the others that run Python from the beginning
    Items,       \* what a thread can do: [kind, file, qualname] or [kind, weights]
    Raising,     \* the items whose key function or weight raises
    Roots,       \* by_package's packages, as <<[path, package], ...>>
    Skipped,     \* the paths of its excluded modules
    Named,       \* the packages also counted by qualified name
    Keys,        \* every key there is
    Depth,       \* how many blocks, one inside the other
    ToolIds,     \* 1..ToolIds, in the order of TOOL_ID_ORDER
    MaxItems     \* bound: what the threads do altogether

ASSUME RecorderAssumption ==
    /\ Main \in RecThreads /\ Early \subseteq RecThreads \ {Main}
    /\ IsFiniteSet(RecThreads) /\ "free" \notin RecThreads
    /\ Raising \subseteq Items
    /\ \A item \in Items :
         \/ item.kind = "start" /\ item.file \in Seq(STRING)
         \/ item.kind = "call" /\ \A k \in DOMAIN item.weights : item.weights[k] \in Int
    /\ Roots \in Seq([path : Seq(STRING), package : STRING])
    \* A directory is one package's.
    /\ \A i, j \in DOMAIN Roots : Roots[i].path = Roots[j].path => Roots[i].package = Roots[j].package
    /\ Depth \in Nat \ {0} /\ ToolIds \in Nat /\ MaxItems \in Nat

Blocks == 1..Depth

VARIABLES
    running,     \* the threads that run Python now
    ident,       \* per thread: the id CPython gave it
    owner,       \* per tool id: the block that holds it, 0 nobody, -1 another tool
    collecting,  \* gc.isenabled()
    stage,       \* per block: where Main is in it
    looking,     \* per block: the tool id _claim_tool_id has come to
    before,      \* per block: BlockThreads._running
    wasOn,       \* per block: what _collector_paused is to restore
    known,       \* per block: the code objects whose keys are known
    failures,    \* per block: a key function or a weight raised
    counts,      \* per block: the counter
    lock,        \* per block: the thread that holds the recorder's lock
    event,       \* per thread: the item whose callbacks are running
    done,        \* how many items there were
    due          \* per block, ghost: what was delivered to it from its threads

threadVars == <<running, ident>>
countVars == <<known, failures, counts, lock, due>>
blockVars == <<collecting, stage, looking, before, wasOn>>
recVars == <<threadVars, countVars, blockVars, owner, event, done>>

NoEvent == [item |-> 0, todo |-> {}, at |-> "idle", seen |-> 0]

RecInit ==
    /\ running = Early \union {Main}
    /\ ident = [t \in RecThreads |-> IF t \in Early \union {Main} THEN t ELSE "none"]
    /\ owner = [i \in 1..ToolIds |-> 0]
    /\ collecting \in BOOLEAN
    /\ stage = [b \in Blocks |-> "unopened"]
    /\ looking = [b \in Blocks |-> 1]
    /\ before = [b \in Blocks |-> {}]
    /\ wasOn = [b \in Blocks |-> FALSE]
    /\ known = [b \in Blocks |-> {}]
    /\ failures = [b \in Blocks |-> FALSE]
    /\ counts = [b \in Blocks |-> [k \in Keys |-> 0]]
    /\ lock = [b \in Blocks |-> "free"]
    /\ event = [t \in RecThreads |-> NoEvent]
    /\ done = 0
    /\ due = [b \in Blocks |-> [k \in Keys |-> 0]]

-----------------------------------------------------------------------------
(* What an item adds.                                                      *)

\* sorted by length, in reverse: the longest root first, so that a subpackage takes
\* its own files from its parent; roots as long as each other stay as listed.
RootBefore(i, j) ==
    LET length(n) == Len(Roots[n].path)
    IN  length(i) > length(j) \/ (length(i) = length(j) /\ i <= j)

\* by_package(...).keys: the first root the file lies under.
KeysOf(item) ==
    LET under == {i \in DOMAIN Roots : IsPrefix(Roots[i].path, item.file)}
        package == Roots[CHOOSE i \in under : \A j \in under : RootBefore(i, j)].package
    IN  IF \E p \in Skipped : IsPrefix(p, item.file) THEN {}
        ELSE IF under = {} THEN {"other"}
        ELSE IF package \in Named THEN {package, item.qualname} ELSE {package}

\* What one recorder adds for an item: one per key of a start, each weight of a call.
Amount(item) ==
    [k \in Keys |-> IF item.kind = "start"
                    THEN IF k \in KeysOf(item) THEN 1 ELSE 0
                    ELSE IF k \in DOMAIN item.weights THEN item.weights[k] ELSE 0]

\* What a start should add, whatever the order of the roots.
Expected(item) ==
    LET holds(r) == IsPrefix(r.path, item.file)
        Innermost(r) == holds(r) /\ \A s \in ToSet(Roots) : holds(s) => IsPrefix(s.path, r.path)
        excluded == \E p \in Skipped : IsPrefix(p, item.file)
        packages == {r.package : r \in {x \in ToSet(Roots) : Innermost(x)}}
        names == IF packages \intersect Named # {} THEN {item.qualname} ELSE {}
    IN  IF item.kind = "call" THEN Amount(item)
        ELSE [k \in Keys |->
                IF ~excluded /\ (\/ k \in packages \union names
                                 \/ k = "other" /\ packages = {}) THEN 1 ELSE 0]

Plus(f, g) == [k \in Keys |-> f[k] + g[k]]

-----------------------------------------------------------------------------
(* Threads, and the other users of sys.monitoring.                         *)

\* CPython gives the id of a thread that ended to the next one it starts.
StartThread(t) ==
    /\ ident[t] = "none"
    /\ running' = running \union {t}
    /\ ident' = [ident EXCEPT ![t] = IF Early \subseteq running THEN t
                                     ELSE CHOOSE e \in Early : e \notin running]
    /\ UNCHANGED <<countVars, blockVars, owner, event, done>>

EndThread(t) ==
    /\ t \in running \ {Main} /\ event[t].at = "idle"
    /\ running' = running \ {t}
    /\ UNCHANGED <<ident, countVars, blockVars, owner, event, done>>

OtherTool(i) ==
    /\ owner[i] <= 0
    /\ owner' = [owner EXCEPT ![i] = -1 - @]
    /\ UNCHANGED <<threadVars, countVars, blockVars, event, done>>

-----------------------------------------------------------------------------
(* A block, from its with statement to its end.                            *)

Delivers(b) == stage[b] \in {"body", "last"}
MainIsFree == event[Main].at = "idle"

\* CallRecorder and BlockThreads are made, then the collector is paused.
OpenBlock(b) ==
    /\ stage[b] = "unopened" /\ MainIsFree
    /\ b > 1 => stage[b - 1] = "body"
    /\ before' = [before EXCEPT ![b] = running]
    /\ wasOn' = [wasOn EXCEPT ![b] = collecting]
    /\ collecting' = FALSE
    /\ stage' = [stage EXCEPT ![b] = "looking"]
    /\ UNCHANGED <<threadVars, countVars, looking, owner, event, done>>

\* _collector_paused's finally.
Restore(b) == collecting' = (collecting \/ wasOn[b])

\* get_tool(tool) is None, or the next id, or ToolIdsInUseError.
FindTool(b) ==
    /\ stage[b] = "looking"
    /\ \/ /\ looking[b] > ToolIds
          /\ stage' = [stage EXCEPT ![b] = "over"]
          /\ Restore(b)
          /\ UNCHANGED looking
       \/ /\ looking[b] <= ToolIds /\ owner[looking[b]] = 0
          /\ stage' = [stage EXCEPT ![b] = "claiming"]
          /\ UNCHANGED <<looking, collecting>>
       \/ /\ looking[b] <= ToolIds /\ owner[looking[b]] # 0
          /\ looking' = [looking EXCEPT ![b] = @ + 1]
          /\ UNCHANGED <<stage, collecting>>
    /\ UNCHANGED <<threadVars, countVars, before, wasOn, owner, event, done>>

\* use_tool_id, which raises when the id was taken since; then the callbacks are
\* registered and their events switched on.
ClaimTool(b) ==
    /\ stage[b] = "claiming"
    /\ IF owner[looking[b]] = 0
       THEN /\ owner' = [owner EXCEPT ![looking[b]] = b]
            /\ stage' = [stage EXCEPT ![b] = "body"]
            /\ UNCHANGED looking
       ELSE /\ looking' = [looking EXCEPT ![b] = @ + 1]
            /\ stage' = [stage EXCEPT ![b] = "looking"]
            /\ UNCHANGED owner
    /\ UNCHANGED <<threadVars, countVars, collecting, before, wasOn, event, done>>

\* The body returns, or raises, or CountingFailedError is raised for it: in each
\* case one collection, still counted, comes before the end.
EndBody(b) ==
    /\ stage[b] = "body" /\ MainIsFree
    /\ b < Depth => stage[b + 1] \in {"unopened", "over"}
    /\ stage' = [stage EXCEPT ![b] = "last"]
    /\ UNCHANGED <<threadVars, countVars, collecting, looking, before, wasOn, owner, event, done>>

\* A mutant of CloseBlock: the id is not given back.
CloseKeepsTool(b) ==
    /\ stage[b] = "last" /\ MainIsFree
    /\ stage' = [stage EXCEPT ![b] = "over"]
    /\ Restore(b)
    /\ UNCHANGED <<threadVars, countVars, looking, before, wasOn, owner, event, done>>

\* No events, no callbacks, the id given back, the collector as it was.
CloseBlock(b) ==
    /\ stage[b] = "last" /\ MainIsFree
    /\ stage' = [stage EXCEPT ![b] = "over"]
    /\ owner' = [owner EXCEPT ![looking[b]] = 0]
    /\ Restore(b)
    /\ UNCHANGED <<threadVars, countVars, looking, before, wasOn, event, done>>

-----------------------------------------------------------------------------
(* The callbacks.                                                          *)

\* A mutant of HasCurrent: threads told apart by their ids.
HasIdent(b, t) == t = Main \/ \A e \in before[b] : ident[e] # ident[t]

\* BlockThreads.has_current: the opener, or a thread not seen at the opening.
HasCurrent(b, t) == t = Main \/ t \notin before[b]

\* A thread starts a function or makes a call while some block gets events.
Begin(t, item) ==
    /\ t \in running /\ event[t].at = "idle" /\ done < MaxItems
    /\ \E b \in Blocks : Delivers(b)
    /\ event' = [event EXCEPT ![t] = [item |-> item, todo |-> {b \in Blocks : Delivers(b)},
                                      at |-> "deliver", seen |-> 0]]
    /\ done' = done + 1
    /\ UNCHANGED <<threadVars, countVars, blockVars, owner>>

\* The tools are told in the order of their ids.
Current(t) == CHOOSE b \in event[t].todo : \A c \in event[t].todo : looking[b] <= looking[c]

\* The thread is through with the block's callback and turns to the next block's.
Through(t) ==
    LET rest == event[t].todo \ {Current(t)}
    IN  event' = [event EXCEPT ![t] = IF rest = {} THEN NoEvent
                                      ELSE [@ EXCEPT !.todo = rest, !.at = "deliver"]]

\* started and called up to the key function or the weights.
Deliver(t) ==
    /\ event[t].at = "deliver"
    /\ LET b == Current(t)
           item == event[t].item
           isKnown == item.kind = "start" /\ item \in known[b]
           counted == Delivers(b) /\ HasCurrent(b, t)
                      /\ (isKnown \/ ~failures[b])
       IN  /\ due' = [due EXCEPT ![b] =
                        IF Delivers(b) /\ (t = Main \/ t \notin before[b])
                        THEN Plus(@, Expected(item)) ELSE @]
           /\ IF counted THEN event' = [event EXCEPT ![t].at = IF isKnown THEN "lock" ELSE "keys"]
                         ELSE Through(t)
    /\ UNCHANGED <<threadVars, known, failures, counts, lock, blockVars, owner, done>>

\* The key function or the weights, once per code object: what they raise is
\* raised at the item, and no further tool hears of it.
Work(t) ==
    /\ event[t].at = "keys"
    /\ LET b == Current(t)
           item == event[t].item
       IN  IF item \in Raising
           THEN /\ failures' = [failures EXCEPT ![b] = TRUE]
                /\ event' = [event EXCEPT ![t] = NoEvent]
                /\ UNCHANGED known
           ELSE /\ known' = [known EXCEPT ![b] = IF item.kind = "start" THEN @ \union {item} ELSE @]
                /\ event' = [event EXCEPT ![t].at = "lock"]
                /\ UNCHANGED failures
    /\ UNCHANGED <<threadVars, counts, lock, due, blockVars, owner, done>>

\* A mutant of MayEnter: _add without the lock.
NoLock(b) == TRUE

MayEnter(b) == lock[b] = "free"

\* with self._lock: the counter is read ...
EnterAdd(t) ==
    /\ event[t].at = "lock" /\ MayEnter(Current(t))
    /\ lock' = [lock EXCEPT ![Current(t)] = t]
    /\ event' = [event EXCEPT ![t].at = "add", ![t].seen = counts[Current(t)]]
    /\ UNCHANGED <<threadVars, known, failures, counts, due, blockVars, owner, done>>

\* ... and written.
Add(t) ==
    /\ event[t].at = "add"
    /\ counts' = [counts EXCEPT ![Current(t)] = Plus(event[t].seen, Amount(event[t].item))]
    /\ lock' = [lock EXCEPT ![Current(t)] = "free"]
    /\ Through(t)
    /\ UNCHANGED <<threadVars, known, failures, due, blockVars, owner, done>>

RecNext ==
    \/ \E t \in RecThreads :
         \/ StartThread(t) \/ EndThread(t) \/ Deliver(t) \/ Work(t) \/ EnterAdd(t) \/ Add(t)
         \/ \E item \in Items : Begin(t, item)
    \/ \E i \in 1..ToolIds : OtherTool(i)
    \/ \E b \in Blocks :
         OpenBlock(b) \/ FindTool(b) \/ ClaimTool(b) \/ EndBody(b) \/ CloseBlock(b)

RecSpec == RecInit /\ [][RecNext]_recVars

-----------------------------------------------------------------------------
(* Properties.                                                             *)

\* What is still on its way into a block's counter.
OnItsWay(b, k) ==
    LET adding == {t \in RecThreads : event[t].at \in {"keys", "lock", "add"} /\ Current(t) = b}
        values == [t \in adding |-> Amount(event[t].item)[k]]
    IN  SumFunctionOnSet(values, adding)

\* Whatever the threads do at once, and whichever ids CPython reuses, a block in
\* which nothing was raised has counted each start and each call of its own
\* threads once, under the innermost listed package, and none of any other's
\* (calls.py: "a lock guards the counts, so they stay exact").
CountsExact ==
    \A b \in Blocks : ~failures[b] =>
        \A k \in Keys : counts[b][k] + OnItsWay(b, k) = due[b][k]

\* However blocks are nested, refused an id or raced for one, they hold an id only
\* while they run, and the collector is off while one runs and on again after the
\* last, if it was on before (calls.py: "the collector's previous state is restored").
LeavesNothingBehind ==
    /\ \A i \in 1..ToolIds : owner[i] > 0 => Delivers(owner[i])
    /\ (\E b \in Blocks : stage[b] \notin {"unopened", "over"}) => ~collecting
    /\ stage[1] = "over" => collecting = wasOn[1]
=============================================================================
