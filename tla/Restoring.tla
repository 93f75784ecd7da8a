------------------------------ MODULE Restoring ------------------------------
(***************************************************************************)
(* A checkpoint taken back by another process than the one that wrote it:  *)
(* OrbaxCheckpointStore.restore (substrax/checkpoint/store.py) with its    *)
(* metadata record (metadata.py), then CallbackList.set_state              *)
(* (substrax/callbacks/base.py) on the item "extensions".                  *)
(*                                                                         *)
(* The writer may have had jax's x64 mode on when the reader has it off,   *)
(* or may use another format; the reader's callbacks may be others, or     *)
(* stand elsewhere. Of an array only its dtype is kept, of a callback its  *)
(* class and its state.                                                    *)
(***************************************************************************)
EXTENDS Integers, FiniteSets, Sequences

CONSTANTS
    ArrayItems,   \* the items that hold an array
    Classes,      \* the classes of stateful callbacks
    StateKeys,    \* the keys of each class's state
    MaxCallbacks  \* BOUND: the callbacks of a list

ASSUME RestoringAssumption == MaxCallbacks \in Nat /\ DOMAIN StateKeys = Classes

VARIABLES
    kept,       \* the checkpoint on disk
    x64,        \* jax's x64 mode in the process that runs
    call,       \* the restore that runs: where it is, its arguments, what it has read
    list,       \* the reader's callbacks: class and state, in dispatch order
    taking,     \* set_state: where it is and the next position
    listBefore      \* ghost: the list when set_state was called

restoreVars == <<kept, x64, call, list, taking, listBefore>>

Dtypes == {"float64", "float32", "key"}
Plain == "plain"                        \* the class of callbacks without state
ItemNames == {"model", "optimizer", "rng", "data_iterator", "extensions"}
ReservedKeys == {"format", "format_version", "step", "epoch", "items", "libraries",
                 "producer", "metrics", "extra", "created_at"}

NothingKept == [format |-> "none", arrays |-> [i \in {} |-> ""], states |-> [p \in {} |-> ""]]
NoCall == [at |-> "idle", templates |-> [i \in {} |-> ""], cast |-> FALSE,
           got |-> [i \in {} |-> ""], read |-> FALSE]
NotTaking == [at |-> "idle", next |-> 0]

\* Lists the callers build; a state names the process and the place it comes from.
ListsOf(process) ==
    UNION {{[i \in 1..n |-> [class |-> class[i], state |-> <<process, i>>]] :
                class \in [1..n -> Classes \union {Plain}]} : n \in 0..MaxCallbacks}

RestoreInit ==
    /\ kept = NothingKept
    /\ x64 \in BOOLEAN
    /\ call = NoCall
    /\ list = <<>>
    /\ taking = NotTaking /\ listBefore = <<>>

-----------------------------------------------------------------------------
(* The writer.                                                             *)

\* CallbackList._checkpointable: by position in dispatch order, from 0.
Checkpointable(callbacks) == {i - 1 : i \in {j \in DOMAIN callbacks : callbacks[j].class # Plain}}

\* CallbackList.get_state
StatesOf(callbacks) == [p \in Checkpointable(callbacks) |-> callbacks[p + 1]]

\* check_item_names and check_extra.
SaveRefuses(names, extra) == names = {} \/ ~(names \subseteq ItemNames) \/ extra \intersect ReservedKeys # {}

\* save: the arrays with their dtypes and the states of the writer's callbacks;
\* another writer has its own format or a newer version of it.
SaveItems(arrays, extra) ==
    /\ kept = NothingKept /\ ~SaveRefuses(DOMAIN arrays \union {"extensions"}, extra)
    /\ \A i \in DOMAIN arrays : x64 \/ arrays[i] # "float64"
    /\ \E format \in {"ours", "newer", "other"}, written \in ListsOf("writer") :
         kept' = [format |-> format, arrays |-> arrays, states |-> StatesOf(written)]
    /\ UNCHANGED <<x64, call, list, taking, listBefore>>

\* The reader starts, in either mode.
NewProcess ==
    /\ kept # NothingKept /\ call.at = "idle"
    /\ x64' \in BOOLEAN
    /\ call' = [NoCall EXCEPT !.at = "ready"]
    /\ UNCHANGED <<kept, list, taking, listBefore>>

-----------------------------------------------------------------------------
(* restore.                                                                *)

\* _dtype_name: a typed key goes by its data's.
DtypeName(dtype) == IF dtype = "key" THEN "uint32" ELSE dtype

\* What jax makes of a stored array in this process.
Created(dtype) == IF dtype = "float64" /\ ~x64 THEN "float32" ELSE dtype

\* _recorded_dtypes, or Orbax's metadata of every array.
SavedDtypes == [i \in DOMAIN kept.arrays |-> DtypeName(kept.arrays[i])]

\* _refuse_dtype_changes over the trees given.
Changes(trees) == \E i \in DOMAIN trees : SavedDtypes[i] # DtypeName(trees[i])

\* from_dict, the templates' names, and without cast_dtypes their dtypes, before any
\* array is read.
BeginRestore(templates, cast) ==
    /\ call.at = "ready"
    /\ call' = [at |-> IF \/ kept.format # "ours"
                          \/ ~(DOMAIN templates \subseteq DOMAIN kept.arrays)
                          \/ ~cast /\ Changes(templates)
                       THEN "refused" ELSE "reading",
                templates |-> templates, cast |-> cast, got |-> NoCall.got, read |-> FALSE]
    /\ UNCHANGED <<kept, x64, list, taking, listBefore>>

\* _read_items: Orbax casts to the template, jax creates what has none.
Read ==
    /\ call.at = "reading"
    /\ call' = [call EXCEPT !.at = IF call.cast THEN "done" ELSE "comparing",
                            !.read = TRUE,
                            !.got = [i \in DOMAIN kept.arrays |->
                                        IF i \in DOMAIN call.templates THEN call.templates[i]
                                        ELSE Created(kept.arrays[i])]]
    /\ UNCHANGED <<kept, x64, list, taking, listBefore>>

\* A mutant of Untemplated: when there are templates, they were compared.
UntemplatedIfAny ==
    IF DOMAIN call.templates # {} THEN {} ELSE DOMAIN call.got

Untemplated == DOMAIN call.got \ DOMAIN call.templates

\* What had no template is compared now.
CompareRead ==
    /\ call.at = "comparing"
    /\ call' = [call EXCEPT !.at = IF Changes([i \in Untemplated |-> call.got[i]])
                                   THEN "refused" ELSE "done"]
    /\ UNCHANGED <<kept, x64, list, taking, listBefore>>

-----------------------------------------------------------------------------
(* CallbackList.set_state.                                                 *)

\* The reader's callbacks: the positions are compared before anything is taken back.
BeginTaking ==
    /\ call.at = "done" /\ taking.at = "idle"
    /\ list' \in ListsOf("reader")
    /\ listBefore' = list'
    /\ taking' = IF DOMAIN kept.states # Checkpointable(list') THEN [at |-> "refused", next |-> 0]
                 ELSE [at |-> "taking", next |-> 0]
    /\ UNCHANGED <<kept, x64, call>>

\* All that check_state_keys knows of a callback.
KnownKeys(callback) == StateKeys[callback.class]

\* One callback after the other; a state with other keys is refused, when those before
\* it have taken theirs, and one of another class with the same keys is taken.
TakeBack ==
    /\ taking.at = "taking"
    /\ LET left == {p \in Checkpointable(list) : p >= taking.next}
           p == CHOOSE q \in left : \A r \in left : q <= r
       IN  IF left = {} THEN taking' = [taking EXCEPT !.at = "done"] /\ UNCHANGED list
           ELSE IF KnownKeys(kept.states[p]) # KnownKeys(list[p + 1])
           THEN taking' = [taking EXCEPT !.at = "refused"] /\ UNCHANGED list
           ELSE /\ list' = [list EXCEPT ![p + 1].state = kept.states[p].state]
                /\ taking' = [taking EXCEPT !.next = p + 1]
    /\ UNCHANGED <<kept, x64, call, listBefore>>

RestoreNext ==
    \/ \E names \in SUBSET ArrayItems : \E arrays \in [names -> Dtypes] :
         \E extra \in {{}, {"note"}, {"step"}} : SaveItems(arrays, extra)
    \/ NewProcess
    \/ \E names \in SUBSET ArrayItems, cast \in BOOLEAN :
         \E templates \in [names -> Dtypes \ (IF x64 THEN {} ELSE {"float64"})] :
            BeginRestore(templates, cast)
    \/ Read \/ CompareRead \/ BeginTaking \/ TakeBack

RestoreSpec == RestoreInit /\ [][RestoreNext]_restoreVars

-----------------------------------------------------------------------------
(* Properties.                                                             *)

\* Unless the caller asked for casts, no array comes back with another dtype than it
\* was saved with, whichever way its writer recorded them and whatever this process
\* can hold, and templates are refused before anything is read. Each stateful callback
\* has its own state or the one saved at its position, with the keys it knows: all of
\* them their own when the positions differ, all the saved ones when set_state returns,
\* and those before the one that refused when it does not. A list built the same way
\* as the writer's is not refused (restore, CallbackList.set_state, check_state_keys).
RestoredAsSaved ==
    /\ call.at = "done" /\ ~call.cast =>
         \A i \in DOMAIN kept.arrays : DtypeName(call.got[i]) = DtypeName(kept.arrays[i])
    /\ call.at = "refused" /\ Changes([i \in DOMAIN call.templates \intersect DOMAIN kept.arrays |->
                                         call.templates[i]]) => ~call.read
    /\ taking.at # "idle" =>
         LET Same(i) == list[i] = listBefore[i]
             Saved(i) == /\ i - 1 \in DOMAIN kept.states /\ list[i].class = listBefore[i].class
                         /\ list[i].state = kept.states[i - 1].state
                         /\ KnownKeys(list[i]) = KnownKeys(kept.states[i - 1])
             BuiltTheSameWay == /\ Checkpointable(listBefore) = DOMAIN kept.states
                                /\ \A p \in DOMAIN kept.states :
                                     listBefore[p + 1].class = kept.states[p].class
         IN  /\ \A i \in DOMAIN list : Same(i) \/ Saved(i)
             /\ Checkpointable(listBefore) # DOMAIN kept.states => list = listBefore
             /\ taking.at = "done" => \A i \in DOMAIN list : list[i].class = Plain \/ Saved(i)
             /\ taking.at = "refused" =>
                  /\ ~BuiltTheSameWay
                  /\ \A i, j \in DOMAIN list : i < j /\ ~Same(j) => list[i].class = Plain \/ Saved(i)
=============================================================================
