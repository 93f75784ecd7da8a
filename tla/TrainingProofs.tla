--------------------------- MODULE TrainingProofs ---------------------------
(***************************************************************************)
(* Proofs about the modules of a training: TrainingRun, for any metrics,   *)
(* patience, retention and number of epochs (a resumed training is where   *)
(* the uninterrupted one would be, the stopper counts what it should, a    *)
(* save that returned is on disk), Restoring, for any callbacks (what a    *)
(* checkpoint gives back is what was saved) and Tracking, for any number   *)
(* of loggers (what they write lands where it belongs).                    *)
(***************************************************************************)
EXTENDS TrainingRun, Restoring, Tracking, Induction, SequenceTheorems

-----------------------------------------------------------------------------
(* The recursive function.                                                 *)

\* One step of Uninterrupted, over a function of the epochs before.
After(g, e) == IF e = 0 THEN Fresh ELSE AfterEpoch(g[e - 1], logs[e], e)

\* Some function makes those steps up to any epoch.
LEMMA UnfoldsSoFar ==
    ASSUME NEW n \in Nat
    PROVE  \E g : g = [e \in 0..n |-> After(g, e)]
<1> DEFINE T == {i \in Nat : ~\E g : g = [e \in 0..i |-> After(g, e)]}
<1> SUFFICES ASSUME ~\E g : g = [e \in 0..n |-> After(g, e)] PROVE FALSE
  OBVIOUS
<1>0. n \in T
  OBVIOUS
<1>1. PICK i \in T : \A j \in T : i <= j
  BY <1>0, LeastNatural
<1>2. CASE i = 0
  <2>1. [e \in 0..0 |-> Fresh] = [e \in 0..0 |-> After([e1 \in 0..0 |-> Fresh], e)]
    BY DEF After
  <2>2. QED
    BY <1>1, <1>2, <2>1
<1>3. CASE i # 0
  <2>1. i - 1 \in Nat /\ i - 1 \notin T
    BY <1>1, <1>3
  <2>2. PICK g : g = [e \in 0..(i - 1) |-> After(g, e)]
    BY <2>1
  <2> DEFINE h == [e \in 0..i |-> IF e = i THEN AfterEpoch(g[i - 1], logs[i], i) ELSE g[e]]
  <2>3. \A e \in 0..i : h[e] = After(h, e)
    <3> TAKE e \in 0..i
    <3>1. CASE e = i
      BY <3>1, <1>3, <2>1 DEF After
    <3>2. CASE e # i
      <4>1. h[e] = After(g, e)
        BY <3>2, <2>1, <2>2
      <4>2. e # 0 => h[e - 1] = g[e - 1]
        BY <3>2, <2>1
      <4>3. QED
        BY <4>1, <4>2 DEF After
    <3>3. QED
      BY <3>1, <3>2
  <2>4. h = [e \in 0..i |-> After(h, e)]
    BY <2>3
  <2>5. QED
    BY <1>1, <2>4
<1>4. QED
  BY <1>2, <1>3

LEMMA UninterruptedUnfolds ==
    /\ Uninterrupted[0] = Fresh
    /\ \A e \in Epochs : Uninterrupted[e] = AfterEpoch(Uninterrupted[e - 1], logs[e], e)
<1>1. Uninterrupted = [e \in 0..MaxEpoch |-> After(Uninterrupted, e)]
  BY TrainingAssumption, UnfoldsSoFar DEF Uninterrupted, After
<1>2. \A e \in 0..MaxEpoch : Uninterrupted[e] = After(Uninterrupted, e)
  BY <1>1
<1>3. QED
  BY <1>2, TrainingAssumption DEF After, Epochs

-----------------------------------------------------------------------------
(* What the stopper remembers after some epochs.                           *)

Values == (-Infinity..Infinity) \union {NaN}
States == [best: -Infinity..Infinity, bad: Nat, stopped: Epochs \union {None}]

\* Better by more than nothing.
Beyond(a, b) == IF Minimise THEN Less(a, b) ELSE Less(b, a)

CountedTo(e) == {i \in 1..e : logs[i] # None /\ ~StopsImmediately(logs[i])}

\* The best value first came at epoch m, better than everything before, and the bad
\* epochs are those counted since.
BestSince(s, e, m) ==
    /\ logs[m] = s.best
    /\ \A i \in CountedTo(e) : i < m => logs[i] = NaN \/ Beyond(s.best, logs[i])
    /\ s.bad = Cardinality({i \in CountedTo(e) : i > m})

\* What holds of the callback after the epochs up to e.
Sound(s, e) ==
    /\ s \in States
    /\ \A i \in CountedTo(e) : ~Improves(logs[i], s.best)
    /\ IF s.best = Fresh.best
       THEN s.bad = Cardinality(CountedTo(e))
       ELSE \E m \in CountedTo(e) : BestSince(s, e, m)

LEMMA ConstantsTyped ==
    /\ Patience \in Nat /\ Patience > 0 /\ MinDelta \in Nat /\ Infinity \in Nat
    /\ MaxEpoch \in Nat /\ MaxToKeep \in Nat /\ MaxToKeep > 0
    /\ Minimise \in BOOLEAN
    /\ NaN \notin Int /\ None \notin Int /\ None # NaN
  BY EarlyStoppingAssumption, TrainingAssumption, StoreAssumption, MetricsAssumption

LEMMA ImprovesMeans ==
    ASSUME NEW v \in Values, NEW b \in Int
    PROVE  Improves(v, b) <=>
             v # NaN /\ IF Minimise THEN v < b - MinDelta ELSE b + MinDelta < v
  BY ConstantsTyped DEF Improves, Less, Values

LEMMA BeyondMeans ==
    ASSUME NEW a \in Int, NEW b \in Int
    PROVE  Beyond(a, b) <=> IF Minimise THEN a < b ELSE b < a
  BY ConstantsTyped DEF Beyond, Less

LEMMA FreshBest ==
    /\ Fresh \in States
    /\ Fresh.best = IF Minimise THEN Infinity ELSE -Infinity
    /\ Fresh.bad = 0 /\ Fresh.stopped = None
  BY ConstantsTyped DEF Fresh, States

\* What is counted: nothing of an epoch that reports nothing or stops, else the epoch.
LEMMA CountedNext ==
    ASSUME logs \in [Epochs -> Reported], NEW e \in Epochs
    PROVE  /\ IsFiniteSet(CountedTo(e - 1)) /\ CountedTo(e - 1) \subseteq 1..(e - 1)
           /\ \A i \in CountedTo(e) : i \in Epochs /\ logs[i] \in Values
           /\ \A i \in CountedTo(e - 1) : i < e
           /\ CountedTo(e) =
                IF logs[e] # None /\ ~StopsImmediately(logs[e])
                THEN CountedTo(e - 1) \union {e} ELSE CountedTo(e - 1)
<1>1. e \in Nat /\ e > 0 /\ 1..e = (1..(e - 1)) \union {e} /\ 1..e \subseteq Epochs
  BY ConstantsTyped DEF Epochs
<1>2. IsFiniteSet(1..(e - 1))
  BY <1>1, FS_Interval
<1>3. CountedTo(e - 1) \subseteq 1..(e - 1)
  BY DEF CountedTo
<1>4. IsFiniteSet(CountedTo(e - 1))
  BY <1>2, <1>3, FS_Subset
<1>5. \A i \in CountedTo(e) : i \in Epochs /\ logs[i] \in Values
  BY <1>1, TrainingAssumption DEF CountedTo, Values
<1>6. QED
  BY <1>1, <1>3, <1>4, <1>5 DEF CountedTo

\* An epoch that improves.
LEMMA SoundImproves ==
    ASSUME logs \in [Epochs -> Reported], NEW e \in Epochs, NEW s, Sound(s, e - 1),
           logs[e] # None, ~StopsImmediately(logs[e]), Improves(logs[e], s.best)
    PROVE  /\ Sound([s EXCEPT !.best = logs[e], !.bad = 0], e)
           /\ BestSince([s EXCEPT !.best = logs[e], !.bad = 0], e, e)
<1> DEFINE v == logs[e]
           r == [s EXCEPT !.best = v, !.bad = 0]
<1>1. s \in States /\ s.best \in Int
  BY ConstantsTyped DEF Sound, States
<1>2. v \in Values
  BY CountedNext, TrainingAssumption DEF Values
<1>3. v \in Int /\ v # NaN /\ IF Minimise THEN v < s.best - MinDelta ELSE s.best + MinDelta < v
  <2>1. v # NaN /\ IF Minimise THEN v < s.best - MinDelta ELSE s.best + MinDelta < v
    BY <1>1, <1>2, ImprovesMeans
  <2>2. QED
    BY <1>2, <2>1, ConstantsTyped DEF Values
<1>4. v \in -Infinity..Infinity
  BY <1>2, <1>3 DEF Values
<1>5. r \in States /\ r.best = v /\ r.bad = 0
  BY <1>1, <1>4 DEF States
<1>6. e \in CountedTo(e) /\ \A i \in CountedTo(e) : i \in 1..e /\ logs[i] \in Values
  <2>1. e \in 1..e
    BY ConstantsTyped DEF Epochs
  <2>2. \A i \in CountedTo(e) : i \in 1..e
    BY DEF CountedTo
  <2>3. QED
    BY <2>1, <2>2, CountedNext
<1>7. \A i \in CountedTo(e) : i < e => logs[i] = NaN \/ Beyond(v, logs[i])
  <2> SUFFICES ASSUME NEW i \in CountedTo(e), i < e, logs[i] # NaN PROVE Beyond(v, logs[i])
    OBVIOUS
  <2>1. i \in CountedTo(e - 1)
    BY <1>6, CountedNext
  <2>2. ~Improves(logs[i], s.best)
    BY <2>1 DEF Sound
  <2>3. logs[i] \in Int
    BY <1>6 DEF Values
  <2>4. IF Minimise THEN logs[i] >= s.best - MinDelta ELSE s.best + MinDelta >= logs[i]
    BY <1>1, <1>6, <2>2, <2>3, ImprovesMeans, ConstantsTyped
  <2>5. QED
    BY <1>1, <1>3, <2>3, <2>4, BeyondMeans, ConstantsTyped
<1>8. \A i \in CountedTo(e) : ~Improves(logs[i], v)
  <2> TAKE i \in CountedTo(e)
  <2>1. CASE logs[i] = NaN
    BY <1>3, <1>6, <2>1, ImprovesMeans
  <2>2. CASE i = e
    BY <1>2, <1>3, <2>2, ImprovesMeans, ConstantsTyped
  <2>3. CASE logs[i] # NaN /\ i < e
    <3>1. logs[i] \in Int
      BY <1>6, <2>3 DEF Values
    <3>2. IF Minimise THEN v < logs[i] ELSE logs[i] < v
      BY <1>3, <1>7, <2>3, <3>1, BeyondMeans
    <3>3. QED
      BY <1>3, <1>6, <3>1, <3>2, ImprovesMeans, ConstantsTyped
  <2>4. QED
    BY <1>6, <2>1, <2>2, <2>3, ConstantsTyped DEF Epochs
<1>9. v # Fresh.best
  BY <1>1, <1>3, FreshBest, ConstantsTyped DEF States
<1>10. {i \in CountedTo(e) : i > e} = {}
  BY <1>6, ConstantsTyped DEF Epochs
<1>11. BestSince(r, e, e)
  BY <1>5, <1>7, <1>10, FS_EmptySet DEF BestSince
<1>12. QED
  BY <1>5, <1>6, <1>8, <1>9, <1>11 DEF Sound

\* An epoch that does not.
LEMMA SoundBad ==
    ASSUME logs \in [Epochs -> Reported], NEW e \in Epochs, NEW s, Sound(s, e - 1),
           logs[e] # None, ~StopsImmediately(logs[e]), ~Improves(logs[e], s.best)
    PROVE  Sound([s EXCEPT !.bad = @ + 1], e)
<1> DEFINE r == [s EXCEPT !.bad = @ + 1]
<1>1. s \in States /\ r \in States /\ r.best = s.best /\ r.bad = s.bad + 1
  BY DEF Sound, States
<1>2. CountedTo(e) = CountedTo(e - 1) \union {e} /\ e \notin CountedTo(e - 1)
  BY CountedNext
<1>3. \A i \in CountedTo(e) : ~Improves(logs[i], r.best)
  BY <1>1, <1>2 DEF Sound
<1>4. CASE s.best = Fresh.best
  <2>1. s.bad = Cardinality(CountedTo(e - 1))
    BY <1>4 DEF Sound
  <2>2. Cardinality(CountedTo(e)) = s.bad + 1
    <3>1. IsFiniteSet(CountedTo(e - 1))
      BY CountedNext
    <3>2. QED
      BY <1>2, <2>1, <3>1, FS_AddElement
  <2>3. QED
    BY <1>1, <1>3, <1>4, <2>2 DEF Sound
<1>5. CASE s.best # Fresh.best
  <2>1. PICK m \in CountedTo(e - 1) : BestSince(s, e - 1, m)
    BY <1>5 DEF Sound
  <2> DEFINE Since(x) == {i \in CountedTo(x) : i > m}
  <2>2. Since(e) = Since(e - 1) \union {e} /\ e \notin Since(e - 1) /\ m < e
    BY <1>2, <2>1, CountedNext, ConstantsTyped DEF Epochs
  <2>3. IsFiniteSet(Since(e - 1))
    BY CountedNext, FS_Subset
  <2>4. Cardinality(Since(e)) = s.bad + 1
    <3>1. Cardinality(Since(e - 1)) = s.bad
      BY <2>1 DEF BestSince
    <3>2. QED
      BY <2>2, <2>3, <3>1, FS_AddElement
  <2>5. \A i \in CountedTo(e) : i < m => logs[i] = NaN \/ Beyond(r.best, logs[i])
    <3>1. \A i \in CountedTo(e) : i < m => i \in CountedTo(e - 1)
      <4>1. e \in Int /\ m \in Int /\ m < e
        BY <2>2, CountedNext, ConstantsTyped DEF Epochs, CountedTo
      <4>2. QED
        BY <1>2, <4>1
    <3>2. QED
      BY <1>1, <2>1, <3>1 DEF BestSince
  <2>6. BestSince(r, e, m) /\ m \in CountedTo(e)
    BY <1>1, <1>2, <2>1, <2>4, <2>5 DEF BestSince
  <2>7. QED
    BY <1>1, <1>3, <1>5, <2>6 DEF Sound
<1>6. QED
  BY <1>4, <1>5

\* Only the stopped epoch does not matter to what is remembered.
LEMMA SoundStopped ==
    ASSUME NEW e \in Epochs, NEW s, Sound(s, e)
    PROVE  Sound([s EXCEPT !.stopped = e], e)
<1> DEFINE r == [s EXCEPT !.stopped = e]
<1>1. r \in States /\ r.best = s.best /\ r.bad = s.bad
  BY DEF Sound, States
<1>2. QED
  BY <1>1 DEF Sound, BestSince

LEMMA SoundStep ==
    ASSUME logs \in [Epochs -> Reported], NEW e \in Epochs, NEW s, Sound(s, e - 1)
    PROVE  Sound(AfterEpoch(s, logs[e], e), e)
<1>1. CASE logs[e] = None \/ StopsImmediately(logs[e])
  <2>1. CountedTo(e) = CountedTo(e - 1)
    BY <1>1, CountedNext
  <2>2. Sound(s, e)
    BY <2>1 DEF Sound, BestSince
  <2>3. QED
    BY <1>1, <2>2, SoundStopped DEF AfterEpoch
<1>2. CASE logs[e] # None /\ ~StopsImmediately(logs[e])
  <2>1. Sound(Register(s, logs[e]), e)
    BY <1>2, SoundImproves, SoundBad DEF Register
  <2>2. QED
    BY <1>2, <2>1, SoundStopped DEF AfterEpoch
<1>3. QED
  BY <1>1, <1>2

\* What the uninterrupted training remembers is sound after every epoch.
LEMMA UninterruptedSound ==
    ASSUME logs \in [Epochs -> Reported]
    PROVE  \A e \in 0..MaxEpoch : Sound(Uninterrupted[e], e)
<1> DEFINE T == {e \in 0..MaxEpoch : ~Sound(Uninterrupted[e], e)}
<1> SUFFICES ASSUME T # {} PROVE FALSE
  OBVIOUS
<1>1. PICK e \in T : \A i \in T : e <= i
  <2> HIDE DEF T
  <2>1. T \subseteq Nat
    BY ConstantsTyped DEF T
  <2>2. QED
    BY <2>1, LeastNatural
<1>2. Sound(Fresh, 0)
  <2>1. CountedTo(0) = {}
    BY DEF CountedTo
  <2>2. QED
    BY <2>1, FreshBest, FS_EmptySet DEF Sound
<1>3. e \in Epochs /\ e - 1 \in 0..MaxEpoch
  BY <1>2, UninterruptedUnfolds, ConstantsTyped DEF Epochs
<1>4. e - 1 \notin T
  BY <1>1, <1>3
<1>5. Sound(Uninterrupted[e - 1], e - 1)
  BY <1>3, <1>4
<1>6. Sound(Uninterrupted[e], e)
  BY <1>3, <1>5, SoundStep, UninterruptedUnfolds
<1>7. QED
  BY <1>6

\* A training that goes on has patience left.
LEMMA UninterruptedPatient ==
    ASSUME logs \in [Epochs -> Reported]
    PROVE  \A e \in 0..MaxEpoch : ShouldStop(Uninterrupted[e]) \/ ~OutOfPatience(Uninterrupted[e])
<1> DEFINE T == {e \in 0..MaxEpoch : ~ShouldStop(Uninterrupted[e]) /\ OutOfPatience(Uninterrupted[e])}
<1> SUFFICES ASSUME T # {} PROVE FALSE
  OBVIOUS
<1>1. PICK e \in T : \A i \in T : e <= i
  <2> HIDE DEF T
  <2>1. T \subseteq Nat
    BY ConstantsTyped DEF T
  <2>2. QED
    BY <2>1, LeastNatural
<1>2. ~OutOfPatience(Fresh)
  BY FreshBest, ConstantsTyped DEF OutOfPatience
<1>3. e \in Epochs /\ e - 1 \in 0..MaxEpoch /\ None \notin Epochs
  BY <1>2, UninterruptedUnfolds, ConstantsTyped DEF Epochs
<1>4. e - 1 \notin T
  BY <1>1, <1>3
<1> DEFINE s == Uninterrupted[e - 1]
<1>5. Uninterrupted[e] = AfterEpoch(s, logs[e], e)
  BY <1>3, UninterruptedUnfolds
<1>6. CASE logs[e] = None
  BY <1>1, <1>3, <1>4, <1>5, <1>6 DEF AfterEpoch
<1>7. CASE logs[e] # None
  <2> HIDE DEF T
  <2> DEFINE r == Register(s, logs[e])
  <2>1. s \in States
    BY <1>3, UninterruptedSound DEF Sound
  <2>2. ~ShouldStop(Uninterrupted[e]) /\ OutOfPatience(Uninterrupted[e])
    BY <1>1 DEF T
  <2>3. \A x : DOMAIN x = DOMAIN s => ShouldStop([x EXCEPT !.stopped = e])
    BY <1>3, <2>1 DEF ShouldStop, States
  <2>4. DOMAIN r = DOMAIN s
    BY DEF Register
  <2>5. ~StopsImmediately(logs[e])
    BY <1>5, <1>7, <2>2, <2>3 DEF AfterEpoch
  <2>6. Uninterrupted[e] = IF OutOfPatience(r) THEN [r EXCEPT !.stopped = e] ELSE r
    BY <1>5, <1>7, <2>5 DEF AfterEpoch
  <2>7. QED
    BY <2>2, <2>3, <2>4, <2>6
<1>8. QED
  BY <1>6, <1>7

LEMMA LeastIsMin ==
    ASSUME NEW S, S \subseteq Int, NEW m \in S, \A i \in S : m <= i
    PROVE  Min(S) = m
<1>1. \A x \in S : (\A y \in S : x <= y) => x = m
  <2> SUFFICES ASSUME NEW x \in S, \A y \in S : x <= y PROVE x = m
    OBVIOUS
  <2>1. x \in Int /\ m \in Int /\ x <= m /\ m <= x
    OBVIOUS
  <2>2. QED
    BY <2>1
<1>2. QED
  BY <1>1 DEF Min

\* The properties of the stopper, of a callback that is as the uninterrupted one.
LEMMA BestAndBad ==
    ASSUME logs \in [Epochs -> Reported], epoch \in 0..MaxEpoch, callback = Uninterrupted[epoch]
    PROVE  BestAndBadEpochs
<1>1. Sound(callback, epoch) /\ Counted = CountedTo(epoch)
  BY UninterruptedSound DEF Counted, CountedTo
<1>2. CASE callback.best = Fresh.best
  BY <1>1, <1>2 DEF Sound, BestAndBadEpochs
<1>3. CASE callback.best # Fresh.best
  <2>1. PICK m \in CountedTo(epoch) : BestSince(callback, epoch, m)
    BY <1>1, <1>3 DEF Sound
  <2> DEFINE bestAt == {e \in Counted : logs[e] = callback.best}
  <2>2. m \in bestAt /\ bestAt \subseteq Int
    BY <1>1, <2>1 DEF BestSince, CountedTo
  <2>3. \A i \in bestAt : m <= i
    <3> SUFFICES ASSUME NEW i \in bestAt, i < m PROVE FALSE
      BY <2>2
    <3>1. callback.best \in Int
      BY <1>1, ConstantsTyped DEF Sound, States
    <3>2. Beyond(callback.best, callback.best)
      BY <1>1, <2>1, <3>1, ConstantsTyped DEF BestSince
    <3>3. QED
      BY <3>1, <3>2, BeyondMeans
  <2>4. Min(bestAt) = m
    <3> HIDE DEF bestAt
    <3>1. QED
      BY <2>2, <2>3, LeastIsMin
  <2>5. callback.bad = Cardinality({e \in Counted : e > Min(bestAt)})
    BY <1>1, <2>1, <2>4 DEF BestSince
  <2>6. QED
    BY <1>1, <1>3, <2>2, <2>5 DEF Sound, BestAndBadEpochs
<1>4. QED
  BY <1>2, <1>3

LEMMA StopDue ==
    ASSUME logs \in [Epochs -> Reported], epoch \in 0..MaxEpoch, callback = Uninterrupted[epoch],
           epoch # 0 => ~ShouldStop(Uninterrupted[epoch - 1])
    PROVE  StopIsDue
<1> DEFINE C == CountedTo(epoch)
           Later(e) == {f \in C : f > e}
           recent == {e \in Counted : Cardinality({f \in Counted : f > e}) < Patience}
           Before(e) == {f \in Counted : f < e /\ logs[f] # NaN}
<1> SUFFICES ASSUME phase # "dead", Cardinality(Counted) > Patience
             PROVE  IF ShouldStop(callback)
                    THEN \/ StopsImmediately(logs[epoch])
                         \/ \A e \in recent :
                              logs[e] = NaN \/ \E f \in Before(e) : ~Improves(logs[e], logs[f])
                    ELSE \E e \in recent : \A f \in Before(e) : Beyond(logs[e], logs[f])
  BY DEF StopIsDue, Beyond
<1>1. Sound(callback, epoch) /\ Counted = C
  BY UninterruptedSound DEF Counted, CountedTo
<1>2. epoch \in Epochs /\ epoch - 1 \in 0..MaxEpoch
  <2>1. epoch = 0 => C = {}
    BY DEF CountedTo
  <2>2. Cardinality({}) = 0 /\ Cardinality(C) > Patience
    BY <1>1, FS_EmptySet
  <2>3. epoch # 0
    BY <2>1, <2>2, ConstantsTyped
  <2>4. QED
    BY <2>3, ConstantsTyped DEF Epochs
<1>3. callback.bad # Cardinality(C) => callback.best # Fresh.best
  BY <1>1 DEF Sound
<1>4. CASE ~ShouldStop(callback)
  <2>1. callback.bad < Patience
    BY <1>1, <1>4, UninterruptedPatient, ConstantsTyped DEF OutOfPatience, Sound, States
  <2>2. PICK m \in C : BestSince(callback, epoch, m)
    BY <1>1, <1>3, <2>1, ConstantsTyped DEF Sound, States
  <2>3. m \in recent
    BY <1>1, <2>1, <2>2 DEF BestSince
  <2>4. \A f \in Before(m) : Beyond(logs[m], logs[f])
    BY <1>1, <2>2 DEF BestSince
  <2>5. QED
    BY <1>4, <2>3, <2>4
<1>5. CASE ShouldStop(callback) /\ ~StopsImmediately(logs[epoch])
  <2> DEFINE s == Uninterrupted[epoch - 1]
             r == Register(s, logs[epoch])
  <2>1. Sound(s, epoch - 1) /\ s \in States /\ ~ShouldStop(s) /\ s.bad < Patience
    BY <1>2, UninterruptedSound, UninterruptedPatient, ConstantsTyped
       DEF Sound, States, OutOfPatience, Epochs
  <2>2. callback = AfterEpoch(s, logs[epoch], epoch)
    BY <1>2, UninterruptedUnfolds
  <2>3. logs[epoch] # None
    BY <1>5, <2>1, <2>2 DEF AfterEpoch
  <2>4. callback = IF OutOfPatience(r) THEN [r EXCEPT !.stopped = epoch] ELSE r
    BY <1>5, <2>2, <2>3 DEF AfterEpoch
  <2>5. r.stopped = s.stopped /\ callback.bad = r.bad /\ callback.best = r.best
    BY <2>1, <2>4 DEF Register, States
  <2>6. OutOfPatience(r)
    BY <1>5, <2>1, <2>4, <2>5 DEF ShouldStop
  <2>7. ~Improves(logs[epoch], s.best)
    BY <2>1, <2>6, ConstantsTyped DEF Register, OutOfPatience, States
  <2>8. callback.bad = Patience
    BY <2>1, <2>5, <2>6, <2>7, ConstantsTyped DEF Register, OutOfPatience, States
  <2>9. PICK m \in C : BestSince(callback, epoch, m)
    BY <1>1, <1>3, <2>8, ConstantsTyped DEF Sound
  <2>10. ASSUME NEW e \in recent, logs[e] # NaN
         PROVE  \E f \in Before(e) : ~Improves(logs[e], logs[f])
    <3>1. e \in C /\ C \subseteq Int /\ IsFiniteSet(Later(e))
      <4>1. IsFiniteSet(C) /\ C \subseteq Int
        <5>1. IsFiniteSet(1..epoch) /\ C \subseteq 1..epoch
          BY FS_Interval, ConstantsTyped DEF CountedTo
        <5>2. QED
          BY <5>1, FS_Subset
      <4>2. QED
        BY <1>1, <4>1, FS_Subset
    <3>2. m < e
      <4> SUFFICES ASSUME e <= m PROVE FALSE
        BY <3>1
      <4>1. Later(m) \subseteq Later(e)
        BY <3>1
      <4>2. Cardinality(Later(m)) <= Cardinality(Later(e))
        BY <3>1, <4>1, FS_Subset
      <4>3. Cardinality(Later(m)) = Patience
        BY <2>8, <2>9 DEF BestSince
      <4>4. Cardinality(Later(e)) < Patience /\ Cardinality(Later(e)) \in Nat
        BY <1>1, <3>1, FS_CardinalityType
      <4>5. QED
        BY <4>2, <4>3, <4>4, ConstantsTyped
    <3>3. callback.best \in Int /\ logs[m] = callback.best
      BY <1>1, <2>9, ConstantsTyped DEF Sound, States, BestSince
    <3>4. m \in Before(e)
      BY <1>1, <3>2, <3>3, ConstantsTyped
    <3>5. ~Improves(logs[e], logs[m])
      BY <1>1, <3>1, <3>3 DEF Sound
    <3>6. QED
      BY <3>4, <3>5
  <2>11. QED
    BY <1>5, <2>10
<1>6. QED
  BY <1>4, <1>5

-----------------------------------------------------------------------------
(* The training.                                                           *)

\* An epoch the training can come to: it did not stop before.
Reached(e) == \A i \in 0..(e - 1) : ~ShouldStop(Uninterrupted[i])

\* What is saved after an epoch.
Entry(e) == [metric |-> logs[e], state |-> Uninterrupted[e]]

\* The steps held are of such epochs, and no more of them than are retained.
DiskKept ==
    /\ Held \subseteq Epochs
    /\ Cardinality(Held) <= MaxToKeep
    /\ \A s \in Held : disk[s] = Entry(s) /\ Reached(s)

\* A save under way is the current epoch's, and retention has room for its step.
SaveKept ==
    IF phase # "saving" THEN save = Idle
    ELSE /\ epoch \in Epochs
         /\ save.at \in {"writing", "saved", "refused"}
         /\ save.at # "refused" => /\ DOMAIN save = {"at", "step", "entry", "before"}
                                   /\ save.step = epoch /\ save.entry = Entry(epoch)
         /\ save.at = "writing" => Cardinality({t \in Held : t > epoch}) < MaxToKeep
         /\ save.at = "saved" => epoch \in Held

IInv ==
    /\ logs \in [Epochs -> Reported]
    /\ phase \in {"training", "reporting", "saving", "dead"}
    /\ epoch \in 0..MaxEpoch
    /\ callback = Uninterrupted[epoch] /\ Reached(epoch)
    /\ phase = "reporting" => epoch \in Epochs
    /\ DiskKept /\ SaveKept

LEMMA SameLogs ==
    ASSUME logs' = logs
    PROVE  /\ Uninterrupted' = Uninterrupted
           /\ \A e : Entry(e)' = Entry(e) /\ (Reached(e)' <=> Reached(e))
<1>1. Uninterrupted' = Uninterrupted
  BY DEF Uninterrupted
<1>2. QED
  BY <1>1 DEF Entry, Reached

LEMMA StepsFinite ==
    /\ IsFiniteSet(Epochs) /\ Epochs \subseteq Nat
    /\ \A S \in SUBSET Epochs : IsFiniteSet(S) /\ Cardinality(S) \in Nat
<1>1. IsFiniteSet(Epochs) /\ Epochs \subseteq Nat
  BY FS_Interval, ConstantsTyped DEF Epochs
<1>2. QED
  BY <1>1, FS_Subset, FS_CardinalityType

\* Retention leaves no more steps than there are to be, those with fewer above them.
LEMMA RetainedFew ==
    ASSUME NEW D \in SUBSET Epochs
    PROVE  Cardinality({s \in D : Cardinality({t \in D : t > s}) < MaxToKeep}) <= MaxToKeep
<1> DEFINE Above(s) == {t \in D : t > s}
           R == {s \in D : Cardinality(Above(s)) < MaxToKeep}
<1>1. R \subseteq Nat /\ R \subseteq D /\ IsFiniteSet(R) /\ Cardinality(R) \in Nat
  BY StepsFinite
<1> SUFFICES ASSUME Cardinality(R) > MaxToKeep PROVE FALSE
  <2> HIDE DEF R
  <2>1. Cardinality(R) <= MaxToKeep \/ Cardinality(R) > MaxToKeep
    BY <1>1, ConstantsTyped
  <2>2. QED
    BY <2>1 DEF R
<1>2. R # {}
  <2> HIDE DEF R
  <2>1. Cardinality({}) = 0
    BY FS_EmptySet
  <2>2. QED
    BY <2>1, ConstantsTyped
<1>3. PICK m \in R : \A s \in R : m <= s
  <2> HIDE DEF R
  <2>1. QED
    BY <1>1, <1>2, LeastNatural
<1>4. Cardinality(R \ {m}) = Cardinality(R) - 1
  <2> HIDE DEF R
  <2>1. QED
    BY <1>1, <1>3, FS_RemoveElement
<1>5. R \ {m} \subseteq Above(m)
  <2> SUFFICES ASSUME NEW s \in R, s # m PROVE s > m
    BY <1>1
  <2>1. s \in Nat /\ m \in Nat /\ m <= s
    BY <1>1, <1>3
  <2>2. QED
    BY <2>1
<1>6. IsFiniteSet(Above(m)) /\ Cardinality(Above(m)) \in Nat
  BY StepsFinite
<1>7. Cardinality(R \ {m}) <= Cardinality(Above(m))
  <2> HIDE DEF R, Above
  <2>1. QED
    BY <1>5, <1>6, FS_Subset
<1>8. QED
  BY <1>1, <1>3, <1>4, <1>6, <1>7, ConstantsTyped

\* A save is admitted where nothing is held above, or the step itself is replaced.
LEMMA AdmittedHasRoom ==
    ASSUME DiskKept, NEW step \in Epochs, NEW overwrite, Admits(step, overwrite)
    PROVE  Cardinality({t \in Held \ {step} : t > step}) < MaxToKeep
<1> DEFINE Above == {t \in Held \ {step} : t > step}
<1>1. Held \in SUBSET Epochs /\ IsFiniteSet(Held) /\ Cardinality(Held) \in Nat
  BY StepsFinite DEF DiskKept
<1>2. CASE step \in Held
  <2>1. Cardinality(Held \ {step}) = Cardinality(Held) - 1 /\ IsFiniteSet(Held \ {step})
    BY <1>1, <1>2, FS_RemoveElement
  <2>2. Cardinality(Above) <= Cardinality(Held \ {step}) /\ Cardinality(Above) \in Nat
    BY <2>1, FS_Subset, FS_CardinalityType
  <2>3. QED
    BY <1>1, <2>1, <2>2, ConstantsTyped DEF DiskKept
<1>3. CASE step \notin Held
  <2>1. Above = {}
    <3> SUFFICES ASSUME NEW t \in Held, t > step PROVE FALSE
      OBVIOUS
    <3>1. \E m \in Held : \A s \in Held : m >= s
      <4>1. Held \subseteq 0..MaxEpoch /\ Held # {}
        BY <1>1, ConstantsTyped DEF Epochs
      <4>2. PICK m \in Held : \A s \in Held : s <= m
        BY <4>1, GreatestNatural, ConstantsTyped
      <4>3. \A s \in Held : m >= s
        BY <4>1, <4>2
      <4>4. QED
        BY <4>3
    <3>2. Latest \in Held /\ \A s \in Held : Latest >= s
      BY <3>1 DEF Latest, Max
    <3>3. step > Latest
      BY <1>3 DEF Admits
    <3>4. step \in Nat /\ t \in Nat /\ Latest \in Nat /\ Latest >= t
      BY <1>1, <3>2, StepsFinite
    <3>5. QED
      BY <3>3, <3>4
  <2>2. QED
    BY <2>1, FS_EmptySet, ConstantsTyped
<1>4. QED
  BY <1>2, <1>3

\* A disk that lost steps, or none.
LEMMA DiskLess ==
    ASSUME DiskKept, logs' = logs, DOMAIN disk' \subseteq Held, \A s \in DOMAIN disk' : disk'[s] = disk[s]
    PROVE  DiskKept'
<1>1. Cardinality(Held') <= MaxToKeep
  <2>1. Held \in SUBSET Epochs /\ Held' \in SUBSET Epochs /\ Held' \subseteq Held
    BY DEF DiskKept, Held
  <2>2. Cardinality(Held') <= Cardinality(Held)
    BY <2>1, StepsFinite, FS_Subset
  <2>3. QED
    BY <2>1, <2>2, StepsFinite, ConstantsTyped DEF DiskKept
<1>2. QED
  BY <1>1, SameLogs DEF DiskKept, Held, Epochs

LEMMA InitIInv == Init => IInv
<1> SUFFICES ASSUME Init PROVE IInv
  OBVIOUS
<1>1. disk = << >> /\ Held = {} /\ save = Idle
  BY DEF Init, StoreInit, Held
<1>2. DiskKept
  BY <1>1, FS_EmptySet, ConstantsTyped DEF DiskKept
<1>3. epoch = 0 /\ phase = "training" /\ callback = Uninterrupted[epoch] /\ logs \in [Epochs -> Reported]
  BY UninterruptedUnfolds DEF Init
<1>4. Reached(epoch)
  BY <1>3 DEF Reached
<1>5. QED
  BY <1>1, <1>2, <1>3, <1>4, ConstantsTyped DEF IInv, SaveKept

LEMMA TrainEpochIInv == ASSUME IInv, TrainEpoch PROVE IInv'
<1>1. /\ phase = "training" /\ ~ShouldStop(callback) /\ epoch' = epoch + 1 /\ phase' = "reporting"
      /\ callback' = AfterEpoch(callback, logs[epoch'], epoch') /\ logs' = logs
      /\ disk' = disk /\ save' = save
  BY DEF TrainEpoch, storeVars
<1>2. epoch' \in Epochs /\ epoch' \in 0..MaxEpoch /\ epoch' - 1 = epoch /\ epoch \in Nat
  BY <1>1, ConstantsTyped DEF IInv, TrainEpoch, Epochs
<1>3. callback' = Uninterrupted'[epoch']
  BY <1>1, <1>2, UninterruptedUnfolds, SameLogs DEF IInv
<1>4. Reached(epoch')
  <2> SUFFICES ASSUME NEW i \in 0..(epoch' - 1) PROVE ~ShouldStop(Uninterrupted[i])
    BY DEF Reached
  <2>1. CASE i = epoch
    BY <1>1, <2>1 DEF IInv
  <2>2. CASE i # epoch
    <3>1. i \in Nat /\ i <= epoch' - 1 /\ epoch \in Nat /\ epoch' = epoch + 1
      BY <1>1, <1>2
    <3>2. i \in 0..(epoch - 1)
      BY <2>2, <3>1
    <3>3. QED
      BY <3>2 DEF IInv, Reached
  <2>3. QED
    BY <2>1, <2>2
<1>5. Reached(epoch)'
  BY <1>1, <1>4, SameLogs DEF Reached
<1>6. DiskKept'
  BY <1>1, DiskLess DEF IInv, Held
<1>7. SaveKept'
  BY <1>1 DEF IInv, SaveKept, Idle
<1>8. QED
  BY <1>1, <1>2, <1>3, <1>5, <1>6, <1>7 DEF IInv, Epochs

\* Steps that leave the epoch and the callback alone.
LEMMA SameEpoch ==
    ASSUME IInv, UNCHANGED <<logs, epoch, callback>>, DiskKept', SaveKept',
           phase' \in {"training", "saving", "dead"}
    PROVE  IInv'
<1>1. logs' \in [Epochs' -> Reported] /\ epoch' \in 0..MaxEpoch
  BY DEF IInv, Epochs
<1>2. (callback = Uninterrupted[epoch])' /\ Reached(epoch)'
  BY SameLogs DEF IInv, Reached
<1>3. QED
  BY <1>1, <1>2 DEF IInv

LEMMA SaveEpochIInv == ASSUME IInv, NEW overwrite \in BOOLEAN, SaveEpoch(overwrite) PROVE IInv'
<1> DEFINE entry == [metric |-> logs[epoch], state |-> callback]
<1>1. /\ epoch \in Epochs /\ phase' = "saving" /\ UNCHANGED <<logs, epoch, callback>>
      /\ BeginSave(epoch, entry, overwrite)
  BY DEF IInv, SaveEpoch
<1>2. entry = Entry(epoch) /\ Entry(epoch)' = entry
  BY <1>1, SameLogs DEF IInv, Entry
<1>3. CASE Admits(epoch, overwrite)
  <2>1. /\ save' = [at |-> "writing", step |-> epoch, entry |-> entry, before |-> disk]
        /\ Held' = Held \ {epoch} /\ \A s \in Held' : disk'[s] = disk[s]
    BY <1>1, <1>3 DEF BeginSave, Restrict, Held
  <2>2. DiskKept'
    BY <1>1, <2>1, DiskLess DEF IInv, Held
  <2>3. Cardinality({t \in Held' : t > epoch}) < MaxToKeep
    <3>1. Cardinality({t \in Held \ {epoch} : t > epoch}) < MaxToKeep
      BY <1>1, <1>3, AdmittedHasRoom DEF IInv
    <3>2. QED
      BY <2>1, <3>1
  <2>4. SaveKept'
    BY <1>1, <1>2, <2>1, <2>3 DEF SaveKept, Epochs
  <2>5. QED
    BY <1>1, <2>2, <2>4, SameEpoch
<1>4. CASE ~Admits(epoch, overwrite)
  <2>1. save' = [at |-> "refused", step |-> epoch, before |-> disk] /\ disk' = disk
    BY <1>1, <1>4 DEF BeginSave
  <2>2. DiskKept'
    BY <1>1, <2>1, DiskLess DEF IInv, Held
  <2>3. SaveKept'
    BY <1>1, <2>1 DEF SaveKept, Epochs
  <2>4. QED
    BY <1>1, <2>2, <2>3, SameEpoch
<1>5. QED
  BY <1>3, <1>4

LEMMA SaveStepIInv == ASSUME IInv, SaveStep PROVE IInv'
<1>1. phase = "saving" /\ phase' = phase /\ UNCHANGED <<logs, epoch, callback>> /\ epoch \in Epochs
  BY DEF SaveStep, trainVars, IInv, SaveKept
<1>2. save.at = "writing" /\ save.step = epoch /\ save.entry = Entry(epoch)
      /\ DOMAIN save = {"at", "step", "entry", "before"}
      /\ Cardinality({t \in Held : t > epoch}) < MaxToKeep
  BY <1>1 DEF SaveStep, WriteStep, DeclineWrite, IInv, SaveKept
<1>3. CASE WriteStep
  <2> DEFINE all == Held \union {epoch}
             written == [s \in all |-> IF s = epoch THEN save.entry ELSE disk[s]]
             survivors == {s \in all : Cardinality({t \in all : t > s}) < MaxToKeep}
  <2>1. disk' = Restrict(written, survivors)
    BY <1>2, <1>3 DEF WriteStep, Retained
  <2>2. Held' = survivors /\ \A s \in survivors : disk'[s] = IF s = epoch THEN save.entry ELSE disk[s]
    BY <2>1 DEF Restrict, Held
  <2>3. all \in SUBSET Epochs
    BY <1>1 DEF IInv, DiskKept
  <2>4. Cardinality(survivors) <= MaxToKeep
    BY <2>3, RetainedFew
  <2>5. epoch \in survivors
    <3>1. {t \in all : t > epoch} = {t \in Held : t > epoch}
      BY <1>1, StepsFinite
    <3>2. QED
      BY <1>2, <3>1
  <2>6. \A s \in survivors : disk'[s] = Entry(s) /\ Reached(s)
    BY <1>2, <2>2 DEF IInv, DiskKept
  <2>7. DiskKept'
    <3>1. survivors \subseteq Epochs
      BY <2>3
    <3>2. \A s \in Held' : disk'[s] = Entry(s)' /\ Reached(s)'
      BY <1>1, <2>2, <2>6, SameLogs
    <3>3. QED
      BY <2>2, <2>4, <3>1, <3>2 DEF DiskKept, Epochs
  <2>8. SaveKept'
    <3>1. /\ save'.at = "saved" /\ save'.step = save.step /\ save'.entry = save.entry
          /\ DOMAIN save' = DOMAIN save
      BY <1>2, <1>3 DEF WriteStep
    <3>2. save'.entry = Entry(epoch)'
      BY <1>1, <1>2, <3>1, SameLogs DEF Entry
    <3>3. QED
      BY <1>1, <1>2, <2>2, <2>5, <3>1, <3>2 DEF SaveKept, Epochs
  <2>9. QED
    BY <1>1, <2>7, <2>8, SameEpoch
<1>4. CASE DeclineWrite
  <2>1. save'.at = "refused" /\ disk' = disk
    BY <1>2, <1>4 DEF DeclineWrite
  <2>2. DiskKept'
    BY <1>1, <2>1, DiskLess DEF IInv, Held
  <2>3. SaveKept'
    BY <1>1, <2>1 DEF SaveKept, Epochs
  <2>4. QED
    BY <1>1, <2>2, <2>3, SameEpoch
<1>5. QED
  BY <1>3, <1>4 DEF SaveStep

LEMMA SaveEndsIInv == ASSUME IInv, SaveEnds PROVE IInv'
<1>1. phase' = "training" /\ save' = Idle /\ UNCHANGED <<logs, epoch, callback, disk>>
  BY DEF SaveEnds
<1>2. DiskKept' /\ SaveKept'
  BY <1>1, DiskLess DEF IInv, Held, SaveKept, Idle
<1>3. QED
  BY <1>1, <1>2, SameEpoch

LEMMA SkipSaveIInv == ASSUME IInv, SkipSave PROVE IInv'
<1>1. phase = "reporting" /\ phase' = "training" /\ UNCHANGED <<logs, epoch, callback, disk, save>>
  BY DEF SkipSave, storeVars
<1>2. DiskKept' /\ SaveKept'
  BY <1>1, DiskLess DEF IInv, Held, SaveKept, Idle
<1>3. QED
  BY <1>1, <1>2, SameEpoch

LEMMA DeleteStepIInv == ASSUME IInv, NEW step \in Held, DeleteStep(step) PROVE IInv'
<1>1. /\ phase = "training" /\ phase' = phase /\ save' = Idle /\ UNCHANGED <<logs, epoch, callback>>
      /\ DOMAIN disk' \subseteq Held /\ \A s \in DOMAIN disk' : disk'[s] = disk[s]
  BY DEF DeleteStep, Delete, trainVars, Restrict
<1>2. DiskKept' /\ SaveKept'
  BY <1>1, DiskLess DEF IInv, SaveKept, Idle
<1>3. QED
  BY <1>1, <1>2, SameEpoch

\* A process that died, and one that starts over, have seen no epoch.
LEMMA DieIInv == ASSUME IInv, Die PROVE IInv'
<1>1. phase' = "dead" /\ save' = Idle /\ disk' = disk /\ epoch' = 0 /\ callback' = Fresh /\ logs' = logs
  BY DEF Die, AbandonSave
<1>2. DiskKept' /\ SaveKept'
  BY <1>1, DiskLess DEF IInv, Held, SaveKept, Idle
<1>3. (callback = Uninterrupted[epoch])' /\ Reached(epoch)'
  BY <1>1, SameLogs, UninterruptedUnfolds DEF Reached
<1>4. QED
  BY <1>1, <1>2, <1>3, ConstantsTyped DEF IInv, Epochs

LEMMA StartOverIInv == ASSUME IInv, StartOver PROVE IInv'
<1>1. phase = "dead" /\ phase' = "training" /\ UNCHANGED <<logs, epoch, callback, disk, save>>
  BY DEF StartOver, storeVars
<1>2. DiskKept' /\ SaveKept'
  BY <1>1, DiskLess DEF IInv, Held, SaveKept, Idle
<1>3. QED
  BY <1>1, <1>2, SameEpoch

LEMMA ResumeFromIInv == ASSUME IInv, NEW step, ResumeFrom(step) PROVE IInv'
<1>1. /\ step \in Held /\ phase = "dead" /\ phase' = "training" /\ epoch' = step
      /\ callback' = disk[step].state /\ UNCHANGED <<logs, disk, save>>
  BY DEF ResumeFrom, SetState, storeVars
<1>2. step \in Epochs /\ disk[step].state = Uninterrupted[step] /\ Reached(step)
  <2>1. step \in Epochs /\ disk[step] = Entry(step) /\ Reached(step)
    BY <1>1 DEF IInv, DiskKept
  <2>2. QED
    BY <2>1 DEF Entry
<1>3. DiskKept' /\ SaveKept'
  BY <1>1, DiskLess DEF IInv, Held, SaveKept, Idle
<1>4. (callback = Uninterrupted[epoch])' /\ Reached(epoch)'
  BY <1>1, <1>2, SameLogs DEF Reached
<1>5. epoch' \in 0..MaxEpoch
  BY <1>1, <1>2, ConstantsTyped DEF Epochs
<1>6. QED
  BY <1>1, <1>3, <1>4, <1>5 DEF IInv, Epochs

LEMMA Stutter == ASSUME IInv, UNCHANGED vars PROVE IInv'
<1>1. UNCHANGED <<logs, epoch, callback, phase, disk, save>>
  BY DEF vars, trainVars, storeVars
<1>2. DiskKept'
  BY <1>1, DiskLess DEF IInv, Held
<1>3. SaveKept'
  BY <1>1, SameLogs DEF IInv, SaveKept, Held, Idle, Epochs, Entry
<1>4. (callback = Uninterrupted[epoch])' /\ Reached(epoch)'
  BY <1>1, SameLogs DEF IInv, Reached
<1>5. QED
  BY <1>1, <1>2, <1>3, <1>4 DEF IInv, Epochs

LEMMA NextIInv == IInv /\ [Next]_vars => IInv'
<1> SUFFICES ASSUME IInv, [Next]_vars PROVE IInv'
  OBVIOUS
<1>1. CASE UNCHANGED vars \/ TrainingOver
  BY <1>1, Stutter DEF TrainingOver
<1>2. QED
  BY <1>1, TrainEpochIInv, SkipSaveIInv, SaveStepIInv, SaveEndsIInv, DieIInv, StartOverIInv,
     SaveEpochIInv, DeleteStepIInv, ResumeFromIInv DEF Next

LEMMA Invariance == Spec => []IInv
  BY InitIInv, NextIInv, PTL DEF Spec

-----------------------------------------------------------------------------
(* The results.                                                            *)

\* The callback's counts stay within patience, the store within what it retains
\* (EarlyStopping, OrbaxCheckpointStore).
THEOREM TypeCorrect == Spec => []TypeOK
<1>1. IInv => TypeOK
  <2> SUFFICES ASSUME IInv PROVE TypeOK
    OBVIOUS
  <2>1. callback \in States
    BY UninterruptedSound DEF IInv, Sound
  <2>2. callback.bad \in 0..Patience
    <3>1. CASE epoch = 0
      BY <3>1, UninterruptedUnfolds, FreshBest, ConstantsTyped DEF IInv
    <3>2. CASE epoch # 0
      <4> DEFINE s == Uninterrupted[epoch - 1]
      <4>1. epoch \in Epochs /\ epoch - 1 \in 0..MaxEpoch /\ epoch - 1 \in 0..(epoch - 1)
        BY <3>2, ConstantsTyped DEF IInv, Epochs
      <4>2. s \in States /\ s.bad < Patience
        BY <4>1, UninterruptedSound, UninterruptedPatient, ConstantsTyped
           DEF IInv, Sound, States, Reached, OutOfPatience
      <4>3. callback = AfterEpoch(s, logs[epoch], epoch)
        BY <4>1, UninterruptedUnfolds DEF IInv
      <4>4. callback.bad \in {s.bad, 0, s.bad + 1}
        BY <4>2, <4>3 DEF AfterEpoch, Register, States
      <4>5. QED
        BY <4>2, <4>4, ConstantsTyped DEF States
    <3>3. QED
      BY <3>1, <3>2
  <2>3. Held \subseteq Steps /\ Cardinality(Held) <= MaxToKeep
    BY TrainingAssumption DEF IInv, DiskKept, Epochs
  <2>4. save.at \in {"idle", "writing", "saved", "refused"}
    BY DEF IInv, SaveKept, Idle
  <2>5. QED
    BY <2>1, <2>2, <2>3, <2>4 DEF TypeOK, States, IInv
<1>2. QED
  BY <1>1, Invariance, PTL

\* A resumed training is where one that never died would be (EarlyStopping.get_state,
\* set_state; OrbaxCheckpointStore.save, restore).
THEOREM ResumesLikeUninterrupted == Spec => []ResumedLikeUninterrupted
<1>1. IInv => ResumedLikeUninterrupted
  BY DEF IInv, ResumedLikeUninterrupted
<1>2. QED
  BY <1>1, Invariance, PTL

\* Its best value is one that came, beaten by none, and its bad epochs are those since
\* (EarlyStopping.on_epoch_end).
THEOREM CountsBestAndBad == Spec => []BestAndBadEpochs
<1>1. IInv => BestAndBadEpochs
  BY BestAndBad DEF IInv
<1>2. QED
  BY <1>1, Invariance, PTL

\* It stops when patience ran out, and never while an epoch still improved
\* (EarlyStopping.on_epoch_end, should_stop).
THEOREM StopsWhenDue == Spec => []StopIsDue
<1>1. IInv => StopIsDue
  <2> SUFFICES ASSUME IInv PROVE StopIsDue
    OBVIOUS
  <2>1. epoch # 0 => epoch - 1 \in 0..(epoch - 1)
    BY ConstantsTyped DEF IInv
  <2>2. QED
    BY <2>1, StopDue DEF IInv, Reached
<1>2. QED
  BY <1>1, Invariance, PTL

\* Retention never removes the step a save just returned for
\* (OrbaxCheckpointStore.save, max_to_keep).
THEOREM SavedIsKept == Spec => []SavedIsThere
<1>1. IInv => SavedIsThere
  <2> SUFFICES ASSUME IInv, save.at = "saved" PROVE save.step \in Held /\ disk[save.step] = save.entry
    BY DEF SavedIsThere
  <2>1. phase = "saving"
    BY DEF IInv, SaveKept, Idle
  <2>2. epoch \in Held /\ save.step = epoch /\ save.entry = Entry(epoch)
    BY <2>1 DEF IInv, SaveKept
  <2>3. QED
    BY <2>2 DEF IInv, DiskKept
<1>2. QED
  BY <1>1, Invariance, PTL

-----------------------------------------------------------------------------
(* best_step.                                                              *)

\* One step of BestUpTo, over a function of the steps before.
BestAfter(g, s) ==
    LET earlier == {t \in Scored : t < s}
        best == g[Max(earlier)]
    IN  IF earlier = {} \/ Better(disk[s].metric, disk[best].metric) THEN s ELSE best

ScoredTo(n) == {s \in Scored : s <= n}

\* The step with the metric that comes before another, if any does.
LEMMA PreviousIs ==
    ASSUME NEW n \in Nat, NEW s \in ScoredTo(n), \A t \in Scored : t \in Nat, {t \in Scored : t < s} # {}
    PROVE  LET p == Max({t \in Scored : t < s})
           IN  p \in Scored /\ p < s /\ \A t \in Scored : t < s => t <= p
<1> DEFINE earlier == {t \in Scored : t < s}
<1>1. s \in Nat
  BY DEF ScoredTo
<1>2. earlier \subseteq 0..s
  BY <1>1
<1>3. PICK p \in earlier : \A t \in earlier : t <= p
  <2> HIDE DEF earlier
  <2>1. QED
    BY <1>1, <1>2, GreatestNatural DEF earlier
<1>4. \A x \in earlier : (\A t \in earlier : x >= t) => x = p
  <2> SUFFICES ASSUME NEW x \in earlier, \A t \in earlier : x >= t PROVE x = p
    OBVIOUS
  <2>1. x >= p /\ x <= p /\ x \in Nat /\ p \in Nat
    BY <1>2, <1>3
  <2>2. QED
    BY <2>1
<1>5. \A t \in earlier : p >= t
  BY <1>2, <1>3
<1>6. Max(earlier) = p
  <2> HIDE DEF earlier
  <2>1. QED
    BY <1>3, <1>4, <1>5 DEF Max
<1>7. QED
  BY <1>3, <1>6

\* Some function makes those steps up to any step.
LEMMA BestSoFar ==
    ASSUME \A t \in Scored : t \in Nat, NEW n \in Nat
    PROVE  \E g : g = [s \in ScoredTo(n) |-> BestAfter(g, s)]
<1> DEFINE T == {i \in Nat : ~\E g : g = [s \in ScoredTo(i) |-> BestAfter(g, s)]}
<1> SUFFICES ASSUME ~\E g : g = [s \in ScoredTo(n) |-> BestAfter(g, s)] PROVE FALSE
  OBVIOUS
<1>0. n \in T
  OBVIOUS
<1>1. PICK i \in T : \A j \in T : i <= j
  BY <1>0, LeastNatural
<1>2. CASE i = 0
  <2> DEFINE g == [s \in ScoredTo(0) |-> s]
  <2>1. \A s \in ScoredTo(0) : {t \in Scored : t < s} = {}
    BY DEF ScoredTo
  <2>2. g = [s \in ScoredTo(0) |-> BestAfter(g, s)]
    BY <2>1 DEF BestAfter
  <2>3. QED
    BY <1>1, <1>2, <2>2
<1>3. CASE i # 0
  <2>1. i - 1 \in Nat /\ i - 1 \notin T
    BY <1>1, <1>3
  <2>2. PICK g : g = [s \in ScoredTo(i - 1) |-> BestAfter(g, s)]
    BY <2>1
  <2> DEFINE h == [s \in ScoredTo(i) |-> IF s = i THEN BestAfter(g, i) ELSE g[s]]
  <2>3. \A s \in ScoredTo(i) : h[s] = BestAfter(h, s)
    <3> TAKE s \in ScoredTo(i)
    <3> DEFINE earlier == {t \in Scored : t < s}
    <3>0. s \in Nat /\ s <= i /\ (s # i => s \in ScoredTo(i - 1))
      BY DEF ScoredTo
    <3>1. h[s] = BestAfter(g, s)
      BY <2>2, <3>0
    <3>2. earlier # {} => h[Max(earlier)] = g[Max(earlier)]
      <4> SUFFICES ASSUME earlier # {} PROVE h[Max(earlier)] = g[Max(earlier)]
        OBVIOUS
      <4>1. Max(earlier) \in Scored /\ Max(earlier) < s
        BY <1>1, PreviousIs
      <4>2. Max(earlier) \in ScoredTo(i) /\ Max(earlier) # i
        <5> HIDE DEF earlier
        <5>1. Max(earlier) \in Nat /\ i \in Nat
          BY <1>1, <4>1
        <5>2. QED
          BY <3>0, <4>1, <5>1 DEF ScoredTo
      <4>3. QED
        BY <4>2
    <3>3. BestAfter(g, s) = BestAfter(h, s)
      BY <3>2 DEF BestAfter
    <3>4. QED
      BY <3>1, <3>3
  <2>4. h = [s \in ScoredTo(i) |-> BestAfter(h, s)]
    BY <2>3
  <2>5. QED
    BY <1>1, <2>4
<1>4. QED
  BY <1>2, <1>3

LEMMA BestUnfolds ==
    ASSUME NEW n \in Nat, \A t \in Scored : t \in 0..n
    PROVE  BestUpTo = [s \in Scored |-> BestAfter(BestUpTo, s)]
<1>1. ScoredTo(n) = Scored /\ \A t \in Scored : t \in Nat
  BY DEF ScoredTo
<1>2. PICK g : g = [s \in Scored |-> BestAfter(g, s)]
  BY <1>1, BestSoFar
<1>3. QED
  BY <1>2 DEF BestUpTo, BestAfter

\* What a step is the best of: no step up to it compares as better.
IsBestTo(b, s) ==
    /\ b \in Scored /\ disk[b].metric \in Int
    /\ \A t \in Scored : t <= s => ~Better(disk[t].metric, disk[b].metric)

\* A first metric that is a number is only replaced by better ones.
LEMMA BestIsBest ==
    ASSUME NEW n \in Nat, \A t \in Scored : t \in 0..n, \A s \in Scored : disk[s].metric \in Int \union {NaN},
           NEW first \in Scored, \A s \in Scored : first <= s, disk[first].metric # NaN,
           NEW s \in Scored
    PROVE  IsBestTo(BestUpTo[s], s)
<1> DEFINE T == {t \in Scored : ~IsBestTo(BestUpTo[t], t)}
<1> SUFFICES ASSUME T # {} PROVE FALSE
  OBVIOUS
<1>1. T \subseteq Nat
  <2>1. \A t \in T : t \in Nat
    OBVIOUS
  <2>2. QED
    BY <2>1
<1>2. PICK t \in T : \A u \in T : t <= u
  <2> HIDE DEF T
  <2>1. QED
    BY <1>1, LeastNatural
<1> DEFINE earlier == {u \in Scored : u < t}
           p == Max(earlier)
<1>3. t \in Scored /\ t \in Nat /\ ScoredTo(n) = Scored
  BY DEF ScoredTo
<1>4. BestUpTo[t] = BestAfter(BestUpTo, t)
  BY <1>3, BestUnfolds
<1>5. CASE earlier = {}
  <2>1. t = first
    BY <1>3, <1>5
  <2>2. BestUpTo[t] = t
    BY <1>4, <1>5 DEF BestAfter
  <2>3. \A u \in Scored : u <= t => u = t
    BY <1>3, <1>5
  <2>4. IsBestTo(t, t)
    BY <2>1, <2>3 DEF IsBestTo, Better, Less
  <2>5. QED
    BY <1>2, <2>2, <2>4
<1>6. CASE earlier # {}
  <2>1. p \in Scored /\ p < t /\ \A u \in Scored : u < t => u <= p
    BY <1>3, <1>6, PreviousIs
  <2> HIDE DEF p
  <2>2. p \notin T
    <3> SUFFICES ASSUME p \in T PROVE FALSE
      OBVIOUS
    <3>1. t <= p
      BY <1>2
    <3>2. p \in Nat /\ p < t
      BY <2>1
    <3>3. QED
      BY <1>3, <3>1, <3>2
  <2> DEFINE b == BestUpTo[p]
  <2>3. IsBestTo(b, p)
    BY <2>1, <2>2
  <2>4. BestUpTo[t] = IF Better(disk[t].metric, disk[b].metric) THEN t ELSE b
    BY <1>4, <1>6 DEF BestAfter, p
  <2> HIDE DEF b
  <2>5. \A u \in Scored : u <= t => u <= p \/ u = t
    BY <1>3, <2>1
  <2>6. CASE Better(disk[t].metric, disk[b].metric)
    <3>1. BestUpTo[t] = t
      BY <2>4, <2>6
    <3>2. disk[t].metric \in Int /\ disk[b].metric \in Int
      BY <1>3, <2>3, <2>6 DEF Better, Less, IsBestTo
    <3>3. ASSUME NEW u \in Scored, u <= t PROVE ~Better(disk[u].metric, disk[t].metric)
      <4>1. CASE u = t
        BY <3>2, <4>1 DEF Better, Less
      <4>2. CASE u <= p
        <5>1. ~Better(disk[u].metric, disk[b].metric)
          BY <2>3, <4>2 DEF IsBestTo
        <5>2. disk[u].metric \in Int \union {NaN}
          OBVIOUS
        <5>3. QED
          BY <2>6, <3>2, <5>1, <5>2 DEF Better, Less
      <4>3. QED
        BY <2>5, <3>3, <4>1, <4>2
    <3>4. QED
      BY <1>2, <1>3, <3>1, <3>2, <3>3 DEF IsBestTo
  <2>7. CASE ~Better(disk[t].metric, disk[b].metric)
    <3>1. BestUpTo[t] = b
      BY <2>4, <2>7
    <3>2. IsBestTo(b, t)
      BY <2>3, <2>5, <2>7 DEF IsBestTo
    <3>3. QED
      BY <1>2, <3>1, <3>2
  <2>8. QED
    BY <2>6, <2>7
<1>7. QED
  BY <1>5, <1>6

\* Where the first step that has the metric has a number, best_step answers with one
\* that no other beats, NaN included (OrbaxCheckpointStore.best_step).
THEOREM BestStepIsBest == Spec => []BestUnlessNaN
<1>1. IInv => BestUnlessNaN
  <2> SUFFICES ASSUME IInv, Scored # {}, disk[Min(Scored)].metric # NaN, NEW s \in Scored
               PROVE  ~Better(disk[s].metric, disk[BestStep].metric)
    BY DEF BestUnlessNaN, Better
  <2>1. MaxEpoch \in Nat /\ \A t \in Scored : t \in 0..MaxEpoch
    BY ConstantsTyped DEF IInv, DiskKept, Scored, Epochs
  <2>2. \A t \in Scored : disk[t].metric \in Int \union {NaN}
    <3> SUFFICES ASSUME NEW t \in Scored PROVE disk[t].metric \in Int \union {NaN}
      OBVIOUS
    <3>1. t \in Held /\ disk[t].metric # None
      BY DEF Scored
    <3>2. t \in Epochs /\ disk[t] = Entry(t)
      BY <3>1 DEF IInv, DiskKept
    <3>3. disk[t].metric = logs[t] /\ logs[t] \in Reported
      BY <3>2 DEF IInv, Entry
    <3>4. logs[t] \in (-Infinity..Infinity) \union {NaN, None}
      BY <3>3, TrainingAssumption
    <3>5. QED
      BY <3>1, <3>3, <3>4, ConstantsTyped
  <2>21. Scored \subseteq Nat /\ Scored \subseteq Int /\ Scored \subseteq 0..MaxEpoch
    BY <2>1
  <2>3. PICK first \in Scored : \A t \in Scored : first <= t
    BY <2>21, LeastNatural
  <2>4. Min(Scored) = first
    BY <2>21, <2>3, LeastIsMin
  <2>5. PICK last \in Scored : \A t \in Scored : t <= last
    BY <2>1, <2>21, GreatestNatural
  <2>6. Max(Scored) = last
    <3>1. \A x \in Scored : (\A y \in Scored : x >= y) => x = last
      <4> SUFFICES ASSUME NEW x \in Scored, \A y \in Scored : x >= y PROVE x = last
        OBVIOUS
      <4>1. x >= last /\ x <= last /\ x \in Nat /\ last \in Nat
        BY <2>1, <2>5
      <4>2. QED
        BY <4>1
    <3>2. \A y \in Scored : last >= y
      BY <2>1, <2>5
    <3>3. QED
      BY <3>1, <3>2 DEF Max
  <2>7. IsBestTo(BestUpTo[last], last)
    BY <2>1, <2>2, <2>3, <2>4, BestIsBest
  <2>8. BestStep = BestUpTo[last]
    BY <2>6 DEF BestStep
  <2>9. QED
    BY <2>5, <2>7, <2>8 DEF IsBestTo
<1>2. QED
  BY <1>1, Invariance, PTL

-----------------------------------------------------------------------------
(* Restoring: what a checkpoint gives back.                                *)

Callbacks == [class: Classes \union {Plain}, state: {"writer", "reader"} \X Nat]
CallbackLists == UNION {[1..n -> Callbacks] : n \in Nat}

\* No array given has another dtype than it was saved with.
SameDtypes(trees) == \A i \in DOMAIN trees : DtypeName(trees[i]) = DtypeName(kept.arrays[i])

\* What restore knows where it is: what it compared had the dtypes saved.
CallKept ==
    /\ call.at \in {"idle", "ready", "reading", "comparing", "done", "refused"}
    /\ DOMAIN call = DOMAIN NoCall /\ call.cast \in BOOLEAN
    /\ call.at \in {"reading", "comparing"} =>
         /\ DOMAIN call.templates \subseteq DOMAIN kept.arrays
         /\ call.cast \/ SameDtypes(call.templates)
    /\ call.at = "comparing" =>
         /\ ~call.cast /\ DOMAIN call.got = DOMAIN kept.arrays
         /\ \A i \in DOMAIN call.templates : call.got[i] = call.templates[i]
    /\ call.at = "done" /\ ~call.cast =>
         \A i \in DOMAIN kept.arrays : DtypeName(call.got[i]) = DtypeName(kept.arrays[i])
    /\ call.at = "refused" /\ call.read => SameDtypes(call.templates) /\ DOMAIN call.templates \subseteq DOMAIN kept.arrays

Saved(i) ==
    /\ i - 1 \in DOMAIN kept.states
    /\ list[i].state = kept.states[i - 1].state /\ KnownKeys(list[i]) = KnownKeys(kept.states[i - 1])

\* The callbacks before the next position have their saved states, the others their own.
TakingKept ==
    /\ taking.at \in {"idle", "taking", "done", "refused"}
    /\ taking.at # "idle" =>
         /\ call.at = "done"
         /\ DOMAIN taking = {"at", "next"} /\ taking.next \in Nat
         /\ list \in CallbackLists /\ listBefore \in CallbackLists
         /\ DOMAIN list = DOMAIN listBefore
         /\ \A i \in DOMAIN list :
              /\ list[i].class = listBefore[i].class
              /\ i <= taking.next => (list[i].class = Plain /\ list[i] = listBefore[i]) \/ Saved(i)
              /\ i > taking.next => list[i] = listBefore[i]
         /\ taking.at \in {"taking", "done"} => Checkpointable(list) = DOMAIN kept.states
         /\ Checkpointable(list) # DOMAIN kept.states => list = listBefore
         /\ taking.at = "done" => \A p \in Checkpointable(list) : p < taking.next
         /\ taking.at = "refused" =>
              \/ Checkpointable(list) # DOMAIN kept.states
              \/ \E p \in Checkpointable(list) : KnownKeys(kept.states[p]) # KnownKeys(list[p + 1])

RestoreIInv ==
    /\ kept = NothingKept => call.at = "idle"
    /\ \E D \in SUBSET Nat : kept.states \in [D -> Callbacks]
    /\ CallKept /\ TakingKept

LEMMA RestoreInitIInv == RestoreInit => RestoreIInv
<1> SUFFICES ASSUME RestoreInit PROVE RestoreIInv
  OBVIOUS
<1>1. {} \in SUBSET Nat /\ kept.states \in [{} -> Callbacks]
  BY DEF RestoreInit, NothingKept
<1>2. call.at = "idle" /\ DOMAIN call = DOMAIN NoCall /\ call.cast \in BOOLEAN
  BY DEF RestoreInit, NoCall
<1>3. taking.at = "idle"
  BY DEF RestoreInit, NotTaking
<1>4. QED
  BY <1>1, <1>2, <1>3 DEF RestoreIInv, CallKept, TakingKept

\* The lists of callbacks callers build.
LEMMA ListsTyped ==
    ASSUME NEW process \in {"writer", "reader"}, NEW callbacks \in ListsOf(process)
    PROVE  /\ callbacks \in CallbackLists
           /\ Checkpointable(callbacks) \subseteq Nat
           /\ StatesOf(callbacks) \in [Checkpointable(callbacks) -> Callbacks]
<1>1. PICK n \in 0..MaxCallbacks : \E class \in [1..n -> Classes \union {Plain}] :
        callbacks = [i \in 1..n |-> [class |-> class[i], state |-> <<process, i>>]]
  BY DEF ListsOf
<1>2. n \in Nat /\ 1..n \subseteq Nat
  BY RestoringAssumption
<1>3. callbacks \in [1..n -> Callbacks]
  BY <1>1, <1>2 DEF Callbacks
<1>4. \A p \in Checkpointable(callbacks) : p \in Nat /\ p + 1 \in 1..n
  BY <1>2, <1>3 DEF Checkpointable
<1>5. StatesOf(callbacks) \in [Checkpointable(callbacks) -> Callbacks]
  BY <1>3, <1>4 DEF StatesOf
<1>6. QED
  BY <1>2, <1>3, <1>4, <1>5 DEF CallbackLists

\* Positions count from 0, and name the callbacks that have state.
LEMMA Positions ==
    ASSUME NEW callbacks \in CallbackLists
    PROVE  /\ Checkpointable(callbacks) \subseteq Nat
           /\ \A p \in Checkpointable(callbacks) : p + 1 \in DOMAIN callbacks /\ callbacks[p + 1].class # Plain
           /\ \A i \in DOMAIN callbacks :
                i \in Nat /\ i > 0 /\ (callbacks[i].class # Plain => i - 1 \in Checkpointable(callbacks))
<1>1. PICK n \in Nat : callbacks \in [1..n -> Callbacks]
  BY DEF CallbackLists
<1>2. \A p \in Checkpointable(callbacks) : \E i \in 1..n : p = i - 1 /\ callbacks[i].class # Plain
  BY <1>1 DEF Checkpointable
<1>3. \A i \in 1..n : callbacks[i].class # Plain => i - 1 \in Checkpointable(callbacks)
  BY <1>1 DEF Checkpointable
<1>4. QED
  BY <1>1, <1>2, <1>3

LEMMA SaveItemsIInv ==
    ASSUME RestoreIInv, NEW arrays, NEW extra, SaveItems(arrays, extra)
    PROVE  RestoreIInv'
<1>1. call.at = "idle" /\ taking.at = "idle" /\ UNCHANGED <<call, taking>>
  BY DEF RestoreIInv, SaveItems, TakingKept
<1>2. PICK format \in {"ours", "newer", "other"}, written \in ListsOf("writer") :
        kept' = [format |-> format, arrays |-> arrays, states |-> StatesOf(written)]
  BY DEF SaveItems
<1>3. \E D \in SUBSET Nat : kept'.states \in [D -> Callbacks]
  BY <1>2, ListsTyped
<1>4. CallKept' /\ TakingKept'
  BY <1>1 DEF RestoreIInv, CallKept, TakingKept
<1>5. QED
  BY <1>1, <1>3, <1>4 DEF RestoreIInv

LEMMA NewProcessIInv == ASSUME RestoreIInv, NewProcess PROVE RestoreIInv'
<1>1. kept' = kept /\ kept # NothingKept /\ taking' = taking /\ taking.at = "idle"
  BY DEF RestoreIInv, NewProcess, TakingKept
<1>2. call'.at = "ready" /\ DOMAIN call' = DOMAIN NoCall /\ call'.cast \in BOOLEAN
  BY DEF NewProcess, NoCall
<1>3. QED
  BY <1>1, <1>2 DEF RestoreIInv, CallKept, TakingKept

\* What Changes compares, of arrays that are there.
LEMMA ChangesMeans ==
    ASSUME NEW trees, DOMAIN trees \subseteq DOMAIN kept.arrays
    PROVE  Changes(trees) <=> ~SameDtypes(trees)
  BY DEF Changes, SameDtypes, SavedDtypes

LEMMA BeginRestoreIInv ==
    ASSUME RestoreIInv, NEW templates, NEW cast \in BOOLEAN, BeginRestore(templates, cast)
    PROVE  RestoreIInv'
<1>1. kept' = kept /\ kept # NothingKept /\ taking' = taking /\ taking.at = "idle"
  BY DEF RestoreIInv, BeginRestore, TakingKept
<1>2. /\ call'.templates = templates /\ call'.cast = cast /\ call'.read = FALSE
      /\ DOMAIN call' = DOMAIN NoCall /\ call'.at \in {"refused", "reading"}
  BY DEF BeginRestore, NoCall
<1>3. call'.at = "reading" => /\ DOMAIN templates \subseteq DOMAIN kept.arrays
                              /\ cast \/ ~Changes(templates)
  BY DEF BeginRestore
<1>4. call'.at = "reading" => cast \/ SameDtypes(templates)
  BY <1>3, ChangesMeans
<1>5. SameDtypes(templates)' <=> SameDtypes(templates)
  BY <1>1 DEF SameDtypes
<1>6. CallKept'
  BY <1>1, <1>2, <1>3, <1>4, <1>5 DEF CallKept, SameDtypes
<1>7. QED
  BY <1>1, <1>6 DEF RestoreIInv, TakingKept

LEMMA ReadIInv == ASSUME RestoreIInv, Read PROVE RestoreIInv'
<1> DEFINE got == [i \in DOMAIN kept.arrays |-> IF i \in DOMAIN call.templates THEN call.templates[i]
                                                ELSE Created(kept.arrays[i])]
<1>1. kept' = kept /\ kept # NothingKept /\ taking' = taking /\ taking.at = "idle" /\ call.at = "reading"
  BY DEF RestoreIInv, Read, TakingKept
<1>2. DOMAIN call = DOMAIN NoCall /\ call.cast \in BOOLEAN /\ DOMAIN call.templates \subseteq DOMAIN kept.arrays
      /\ (call.cast \/ SameDtypes(call.templates))
  BY <1>1 DEF RestoreIInv, CallKept
<1>3. /\ call'.at = (IF call.cast THEN "done" ELSE "comparing") /\ call'.got = got
      /\ call'.templates = call.templates /\ call'.cast = call.cast /\ DOMAIN call' = DOMAIN NoCall
  BY <1>2 DEF Read, NoCall
<1>4. CallKept'
  BY <1>1, <1>2, <1>3 DEF CallKept, SameDtypes
<1>5. QED
  BY <1>1, <1>4 DEF RestoreIInv, TakingKept

LEMMA CompareReadIInv == ASSUME RestoreIInv, CompareRead PROVE RestoreIInv'
<1>1. kept' = kept /\ kept # NothingKept /\ taking' = taking /\ taking.at = "idle" /\ call.at = "comparing"
  BY DEF RestoreIInv, CompareRead, TakingKept
<1>2. DOMAIN call = DOMAIN NoCall /\ ~call.cast /\ DOMAIN call.templates \subseteq DOMAIN kept.arrays
      /\ SameDtypes(call.templates) /\ DOMAIN call.got = DOMAIN kept.arrays
      /\ \A i \in DOMAIN call.templates : call.got[i] = call.templates[i]
  BY <1>1 DEF RestoreIInv, CallKept
<1> DEFINE untemplated == [i \in Untemplated |-> call.got[i]]
<1>3. /\ call'.at = (IF Changes(untemplated) THEN "refused" ELSE "done")
      /\ call'.templates = call.templates /\ call'.cast = call.cast /\ call'.got = call.got
      /\ DOMAIN call' = DOMAIN NoCall
  BY <1>2 DEF CompareRead, NoCall
<1>4. ~Changes(untemplated) =>
        \A i \in DOMAIN kept.arrays : DtypeName(call.got[i]) = DtypeName(kept.arrays[i])
  <2>1. DOMAIN untemplated = DOMAIN kept.arrays \ DOMAIN call.templates
    BY <1>2 DEF Untemplated
  <2>2. ~Changes(untemplated) => SameDtypes(untemplated)
    BY <2>1, ChangesMeans
  <2>3. QED
    BY <1>2, <2>1, <2>2 DEF SameDtypes
<1>5. SameDtypes(call.templates)'
  BY <1>1, <1>2, <1>3 DEF SameDtypes
<1>6. call'.at \in {"refused", "done"} /\ call'.cast = FALSE
  BY <1>2, <1>3 DEF RestoreIInv, CallKept
<1>7. CallKept'
  <2>1. \A i \in DOMAIN kept'.arrays :
          call'.at = "done" => DtypeName(call'.got[i]) = DtypeName(kept'.arrays[i])
    BY <1>1, <1>3, <1>4
  <2>2. DOMAIN call'.templates \subseteq DOMAIN kept'.arrays
    BY <1>1, <1>2, <1>3
  <2>3. QED
    BY <1>3, <1>5, <1>6, <2>1, <2>2 DEF CallKept
<1>8. QED
  BY <1>1, <1>7 DEF RestoreIInv, TakingKept

LEMMA BeginTakingIInv == ASSUME RestoreIInv, BeginTaking PROVE RestoreIInv'
<1>1. /\ UNCHANGED <<kept, call>> /\ call.at = "done" /\ list' \in ListsOf("reader") /\ listBefore' = list'
      /\ taking'.at = (IF DOMAIN kept.states # Checkpointable(list') THEN "refused" ELSE "taking")
      /\ taking'.next = 0 /\ DOMAIN taking' = {"at", "next"}
  BY DEF BeginTaking
<1>2. list' \in CallbackLists
  BY <1>1, ListsTyped
<1>3. \A i \in DOMAIN list' : i \in Nat /\ i > 0
  BY <1>2, Positions
<1>4. TakingKept'
  BY <1>1, <1>2, <1>3 DEF TakingKept
<1>5. CallKept'
  BY <1>1 DEF RestoreIInv, CallKept, SameDtypes
<1>6. QED
  BY <1>1, <1>4, <1>5 DEF RestoreIInv

\* What a callback that took a state back becomes.
LEMMA TakenBack ==
    ASSUME NEW mine \in Callbacks, NEW theirs \in Callbacks
    PROVE  /\ [mine EXCEPT !.state = theirs.state] \in Callbacks
           /\ [mine EXCEPT !.state = theirs.state].class = mine.class
           /\ [mine EXCEPT !.state = theirs.state].state = theirs.state
  BY DEF Callbacks

LEMMA TakeBackIInv == ASSUME RestoreIInv, TakeBack PROVE RestoreIInv'
<1> DEFINE left == {p \in Checkpointable(list) : p >= taking.next}
           p == CHOOSE q \in left : \A r \in left : q <= r
<1>1. taking.at = "taking" /\ UNCHANGED <<kept, call, listBefore>>
  BY DEF TakeBack
<1>2. /\ call.at = "done" /\ DOMAIN taking = {"at", "next"} /\ taking.next \in Nat
      /\ list \in CallbackLists /\ listBefore \in CallbackLists /\ DOMAIN list = DOMAIN listBefore
      /\ Checkpointable(list) = DOMAIN kept.states
      /\ \A i \in DOMAIN list :
           /\ list[i].class = listBefore[i].class
           /\ i <= taking.next => (list[i].class = Plain /\ list[i] = listBefore[i]) \/ Saved(i)
           /\ i > taking.next => list[i] = listBefore[i]
  BY <1>1 DEF RestoreIInv, TakingKept
<1>3. CallKept'
  BY <1>1 DEF RestoreIInv, CallKept, SameDtypes
<1>4. CASE left = {}
  <2>1. taking' = [taking EXCEPT !.at = "done"] /\ list' = list
    BY <1>1, <1>4 DEF TakeBack
  <2>2. taking'.at = "done" /\ taking'.next = taking.next /\ DOMAIN taking' = DOMAIN taking
    BY <1>2, <2>1
  <2>3. \A q \in Checkpointable(list) : q < taking.next
    BY <1>2, <1>4, Positions
  <2>4. TakingKept'
    BY <1>1, <1>2, <2>1, <2>2, <2>3 DEF TakingKept, Saved, Checkpointable, KnownKeys
  <2>5. QED
    BY <1>1, <1>3, <2>4 DEF RestoreIInv
<1>5. CASE left # {}
  <2>1. p \in left /\ \A r \in left : p <= r
    <3>1. left \subseteq Nat
      BY <1>2, Positions
    <3>2. \E q \in left : \A r \in left : q <= r
      <4> HIDE DEF left
      <4>1. QED
        BY <1>5, <3>1, LeastNatural
    <3>3. QED
      BY <3>2
  <2> HIDE DEF p
  <2>2. p \in Nat /\ p >= taking.next /\ p \in DOMAIN kept.states /\ p + 1 \in DOMAIN list
        /\ list[p + 1].class # Plain
    BY <1>2, <2>1, Positions
  <2>3. CASE KnownKeys(kept.states[p]) # KnownKeys(list[p + 1])
    <3>1. taking' = [taking EXCEPT !.at = "refused"] /\ list' = list
      BY <1>1, <1>5, <2>3 DEF TakeBack, p
    <3>2. taking'.at = "refused" /\ taking'.next = taking.next /\ DOMAIN taking' = DOMAIN taking
      BY <1>2, <3>1
    <3>25. p \in Checkpointable(list)
      BY <1>2, <2>2
    <3>3. TakingKept'
      BY <1>1, <1>2, <2>3, <3>1, <3>2, <3>25 DEF TakingKept, Saved, Checkpointable, KnownKeys
    <3>4. QED
      BY <1>1, <1>3, <3>3 DEF RestoreIInv
  <2>4. CASE KnownKeys(kept.states[p]) = KnownKeys(list[p + 1])
    <3>1. taking' = [taking EXCEPT !.next = p + 1]
          /\ list' = [list EXCEPT ![p + 1].state = kept.states[p].state]
      BY <1>1, <1>5, <2>4 DEF TakeBack, p
    <3>2. taking'.at = "taking" /\ taking'.next = p + 1 /\ DOMAIN taking' = DOMAIN taking
      BY <1>1, <1>2, <3>1
    <3>3. kept.states[p] \in Callbacks /\ list[p + 1] \in Callbacks
      BY <1>2, <2>2 DEF RestoreIInv, CallbackLists
    <3> DEFINE taker == [list[p + 1] EXCEPT !.state = kept.states[p].state]
    <3>35. list' = [list EXCEPT ![p + 1] = taker]
      BY <3>1
    <3>4. /\ DOMAIN list' = DOMAIN list /\ list'[p + 1] = taker
          /\ \A i \in DOMAIN list : i # p + 1 => list'[i] = list[i]
      BY <2>2, <3>35
    <3>45. taker \in Callbacks /\ taker.class = list[p + 1].class /\ taker.state = kept.states[p].state
      BY <3>3, TakenBack
    <3> HIDE DEF taker
    <3>5. list' \in CallbackLists
      <4>1. PICK n \in Nat : list \in [1..n -> Callbacks]
        BY <1>2 DEF CallbackLists
      <4>2. list' \in [1..n -> Callbacks]
        BY <3>35, <3>45, <4>1
      <4>3. QED
        BY <4>2 DEF CallbackLists
    <3>6. \A i \in DOMAIN list : list'[i].class = list[i].class
      BY <3>4, <3>45
    <3>65. Checkpointable(list') = Checkpointable(list)
      BY <3>4, <3>6 DEF Checkpointable
    <3>7. \A i \in DOMAIN list' :
           /\ list'[i].class = listBefore[i].class
           /\ i <= p + 1 => (list'[i].class = Plain /\ list'[i] = listBefore[i]) \/ Saved(i)'
           /\ i > p + 1 => list'[i] = listBefore[i]
      <4> SUFFICES ASSUME NEW i \in DOMAIN list
                   PROVE  /\ list'[i].class = listBefore[i].class
                          /\ i <= p + 1 => (list'[i].class = Plain /\ list'[i] = listBefore[i]) \/ Saved(i)'
                          /\ i > p + 1 => list'[i] = listBefore[i]
        BY <3>4
      <4>1. i \in Nat /\ i > 0
        BY <1>2, Positions
      <4>2. CASE i = p + 1
        BY <1>1, <1>2, <2>2, <2>4, <3>4, <3>45, <3>6, <4>2 DEF Saved, KnownKeys
      <4>3. CASE i > p + 1
        BY <1>2, <2>2, <3>4, <4>1, <4>3
      <4>4. CASE i <= p
        <5>1. list'[i] = list[i] /\ (Saved(i)' <=> Saved(i))
          BY <1>1, <2>2, <3>4, <4>1, <4>4 DEF Saved, KnownKeys
        <5>2. CASE i <= taking.next
          BY <1>2, <2>2, <4>1, <4>4, <5>1, <5>2
        <5>3. CASE i > taking.next
          <6>1. list[i].class = Plain
            <7>1. i - 1 \notin left
              BY <2>1, <2>2, <4>1, <4>4
            <7>2. i - 1 \notin Checkpointable(list)
              BY <1>2, <4>1, <5>3, <7>1
            <7>3. QED
              BY <1>2, <7>2, Positions
          <6>2. QED
            BY <1>2, <2>2, <4>1, <4>4, <5>1, <5>3, <6>1
        <5>4. QED
          BY <1>2, <4>1, <5>2, <5>3
      <4>5. QED
        BY <2>2, <4>1, <4>2, <4>3, <4>4
    <3>8. TakingKept'
      BY <1>1, <1>2, <2>2, <3>2, <3>4, <3>5, <3>65, <3>7 DEF TakingKept
    <3>9. QED
      BY <1>1, <1>3, <3>8 DEF RestoreIInv
  <2>5. QED
    BY <2>3, <2>4
<1>6. QED
  BY <1>4, <1>5

LEMMA RestoreNextIInv == RestoreIInv /\ [RestoreNext]_restoreVars => RestoreIInv'
<1> SUFFICES ASSUME RestoreIInv, [RestoreNext]_restoreVars PROVE RestoreIInv'
  OBVIOUS
<1>1. CASE UNCHANGED restoreVars
  BY <1>1 DEF restoreVars, RestoreIInv, CallKept, TakingKept, SameDtypes, Saved, Checkpointable, KnownKeys
<1>2. CASE RestoreNext
  BY <1>2, SaveItemsIInv, NewProcessIInv, BeginRestoreIInv, ReadIInv, CompareReadIInv,
     BeginTakingIInv, TakeBackIInv DEF RestoreNext
<1>3. QED
  BY <1>1, <1>2

\* Arrays come back with the dtypes they were saved with, callbacks with their own
\* state or one saved at their position with their keys, and a list built the same way
\* as the writer's is never refused, whatever classes share their keys
\* (OrbaxCheckpointStore.restore, CallbackList.set_state, check_state_keys).
THEOREM RestoresAsSaved == RestoreSpec => []RestoredAsSaved
<1>1. RestoreIInv => RestoredAsSaved
  <2> SUFFICES ASSUME RestoreIInv PROVE RestoredAsSaved
    OBVIOUS
  <2> DEFINE shared == [i \in DOMAIN call.templates \intersect DOMAIN kept.arrays |-> call.templates[i]]
  <2>1. call.at = "done" /\ ~call.cast =>
          \A i \in DOMAIN kept.arrays : DtypeName(call.got[i]) = DtypeName(kept.arrays[i])
    BY DEF RestoreIInv, CallKept
  <2>2. call.at = "refused" /\ Changes(shared) => ~call.read
    <3>1. Changes(shared) => ~SameDtypes(shared)
      BY ChangesMeans
    <3>2. call.at = "refused" /\ call.read => SameDtypes(shared)
      BY DEF RestoreIInv, CallKept, SameDtypes
    <3>3. QED
      BY <3>1, <3>2
  <2>3. ASSUME taking.at # "idle"
        PROVE  /\ \A i \in DOMAIN list : list[i].class = listBefore[i].class
               /\ \A i \in DOMAIN list : list[i] = listBefore[i] \/ Saved(i)
               /\ Checkpointable(listBefore) # DOMAIN kept.states => list = listBefore
               /\ taking.at = "refused" =>
                    ~(/\ Checkpointable(listBefore) = DOMAIN kept.states
                      /\ \A p \in DOMAIN kept.states : listBefore[p + 1].class = kept.states[p].class)
               /\ taking.at = "done" => \A i \in DOMAIN list : list[i].class = Plain \/ Saved(i)
               /\ \A i, j \in DOMAIN list :
                    i < j /\ list[j] # listBefore[j] => list[i].class = Plain \/ Saved(i)
    <3>1. /\ list \in CallbackLists /\ taking.next \in Nat /\ DOMAIN list = DOMAIN listBefore
          /\ \A i \in DOMAIN list :
               /\ list[i].class = listBefore[i].class
               /\ i <= taking.next => (list[i].class = Plain /\ list[i] = listBefore[i]) \/ Saved(i)
               /\ i > taking.next => list[i] = listBefore[i]
          /\ Checkpointable(list) # DOMAIN kept.states => list = listBefore
          /\ taking.at = "done" => \A p \in Checkpointable(list) : p < taking.next
          /\ taking.at = "refused" =>
               \/ Checkpointable(list) # DOMAIN kept.states
               \/ \E p \in Checkpointable(list) : KnownKeys(kept.states[p]) # KnownKeys(list[p + 1])
      BY <2>3 DEF RestoreIInv, TakingKept
    <3>2. \A i \in DOMAIN list : i \in Nat
      BY <3>1, Positions
    <3>3. \A i \in DOMAIN list : list[i] = listBefore[i] \/ Saved(i)
      BY <3>1, <3>2
    <3>4. taking.at = "done" => \A i \in DOMAIN list : list[i].class = Plain \/ Saved(i)
      <4> SUFFICES ASSUME taking.at = "done", NEW i \in DOMAIN list, list[i].class # Plain PROVE Saved(i)
        OBVIOUS
      <4>1. i - 1 \in Checkpointable(list)
        BY <3>1, Positions
      <4>2. i - 1 < taking.next
        BY <3>1, <4>1
      <4>3. i <= taking.next
        BY <3>1, <3>2, <4>2
      <4>4. QED
        BY <3>1, <4>3
    <3>5. \A i, j \in DOMAIN list :
            i < j /\ list[j] # listBefore[j] => list[i].class = Plain \/ Saved(i)
      <4> SUFFICES ASSUME NEW i \in DOMAIN list, NEW j \in DOMAIN list, i < j, list[j] # listBefore[j]
                   PROVE  list[i].class = Plain \/ Saved(i)
        OBVIOUS
      <4>1. i <= taking.next
        BY <3>1, <3>2
      <4>2. QED
        BY <3>1, <4>1
    <3>6. Checkpointable(listBefore) = Checkpointable(list)
      BY <3>1 DEF Checkpointable
    <3>7. ASSUME taking.at = "refused", Checkpointable(listBefore) = DOMAIN kept.states
          PROVE  \E p \in DOMAIN kept.states : listBefore[p + 1].class # kept.states[p].class
      <4>1. PICK p \in Checkpointable(list) : KnownKeys(kept.states[p]) # KnownKeys(list[p + 1])
        BY <3>1, <3>6, <3>7
      <4>2. listBefore[p + 1].class = list[p + 1].class
        BY <3>1, Positions
      <4>3. QED
        BY <3>6, <3>7, <4>1, <4>2 DEF KnownKeys
    <3>8. QED
      BY <3>1, <3>3, <3>4, <3>5, <3>6, <3>7
  <2>4. QED
    BY <2>1, <2>2, <2>3 DEF RestoredAsSaved, Saved
<1>2. QED
  BY <1>1, RestoreInitIInv, RestoreNextIInv, PTL DEF RestoreSpec

-----------------------------------------------------------------------------
(* Tracking: what open loggers write.                                      *)

Rows == Seq({"header"} \union Loggers)

TrackTypeOK ==
    /\ loggers \in [Loggers -> [kind: {"none", "console", "file", "mlflow"},
                                name: LoggerNames \union {"none"},
                                is: {"unmade", "open", "closed", "failed"},
                                second: 0..MaxSeconds, run: Nat]]
    /\ handlers \in [LoggerNames -> SUBSET ({"console", "file"} \X Loggers)]
    /\ second \in 1..MaxSeconds
    /\ files \in [LoggerNames -> [1..MaxSeconds -> Rows]]
    /\ active \in Nat /\ runs \in Nat
    /\ scalar \in [by: Loggers \union {"none"}, run: Nat]

\* What a made logger is.
Formed ==
    \A l \in Loggers : IsMade(l) =>
        /\ loggers[l].name \in LoggerNames
        /\ loggers[l].second \in 1..MaxSeconds

\* MLflow's active run is that of the one open logger there may be.
OneRun ==
    /\ \A l \in Loggers : EndsRun(l) => loggers[l].run = active /\ active # 0
    /\ \A l, m \in Loggers : EndsRun(l) /\ EndsRun(m) => l = m

\* The last scalar came from a logger of MLflow.
ScalarStands ==
    scalar.by \in Loggers =>
        /\ IsMade(scalar.by) /\ loggers[scalar.by].kind = "mlflow"
        /\ loggers[scalar.by].is = "open" => scalar.run = loggers[scalar.by].run

HeaderFirst(file) == \A i \in DOMAIN file : file[i] = "header" <=> i = 1
FilesStand == \A n \in LoggerNames, s \in 1..MaxSeconds : HeaderFirst(files[n][s])

TrackIInv == TrackTypeOK /\ Formed /\ OneRun /\ ScalarStands /\ FilesStand

LEMMA TrackInitIInv == TrackInit => TrackIInv
<1> SUFFICES ASSUME TrackInit PROVE TrackIInv
  OBVIOUS
<1>1. TrackTypeOK
  <2>1. 0 \in 0..MaxSeconds /\ 1 \in 1..MaxSeconds
    BY TrackingAssumption DEF TrackingAssumption
  <2>2. <<>> \in Rows
    BY DEF Rows
  <2>3. QED
    BY <2>1, <2>2 DEF TrackInit, TrackTypeOK, Unmade
<1>2. Formed /\ OneRun /\ ScalarStands
  BY TrackingAssumption DEF TrackingAssumption, TrackInit, Formed, OneRun, ScalarStands, IsMade,
     EndsRun, Unmade
<1>3. FilesStand
  BY DEF TrackInit, FilesStand, HeaderFirst
<1>4. QED
  BY <1>1, <1>2, <1>3 DEF TrackIInv

\* A logger's line, and the clock, touch none of this.
LEMMA TrackQuietStep ==
    ASSUME TrackIInv, UNCHANGED <<loggers, handlers, files, active, runs, scalar>>,
           second' \in 1..MaxSeconds
    PROVE  TrackIInv'
<1>1. TrackTypeOK'
  BY DEF TrackIInv, TrackTypeOK
<1>2. Formed' /\ OneRun' /\ ScalarStands' /\ FilesStand'
  BY DEF TrackIInv, Formed, OneRun, ScalarStands, FilesStand, IsMade, EndsRun
<1>3. QED
  BY <1>1, <1>2 DEF TrackIInv

LEMMA HandlersType ==
    ASSUME NEW l \in Loggers, NEW kind \in {"console", "file", "mlflow"}, NEW name
    PROVE  Handlers(l, kind, name) \in SUBSET ({"console", "file"} \X Loggers)
  BY DEF Handlers

LEMMA MakeIInv ==
    ASSUME TrackIInv, NEW l \in Loggers, NEW kind \in {"console", "file"}, NEW name \in LoggerNames,
           Make(l, kind, name)
    PROVE  TrackIInv'
<1>1. /\ loggers[l].is = "unmade"
      /\ loggers' = [loggers EXCEPT ![l] = [kind |-> kind, name |-> name, is |-> "open",
                                            second |-> second, run |-> 0]]
      /\ handlers' = [handlers EXCEPT ![name] = Handlers(l, kind, name)]
      /\ UNCHANGED <<second, files, active, runs, scalar>>
  BY DEF Make
<1>2. TrackTypeOK'
  BY <1>1, HandlersType DEF TrackIInv, TrackTypeOK
<1>3. Formed'
  BY <1>1 DEF TrackIInv, TrackTypeOK, Formed, IsMade
<1>4. OneRun' /\ ScalarStands'
  BY <1>1 DEF TrackIInv, TrackTypeOK, OneRun, ScalarStands, IsMade, EndsRun
<1>5. FilesStand'
  BY <1>1 DEF TrackIInv, FilesStand
<1>6. QED
  BY <1>2, <1>3, <1>4, <1>5 DEF TrackIInv

LEMMA MakeMLFlowIInv ==
    ASSUME TrackIInv, NEW l \in Loggers, NEW name \in LoggerNames, NEW run \in 1..(runs + 1),
           MakeMLFlow(l, name, run)
    PROVE  TrackIInv'
<1> DEFINE refused == active # 0
<1>1. /\ loggers[l].is = "unmade"
      /\ loggers' = [loggers EXCEPT ![l] = [kind |-> "mlflow", name |-> name,
                            is |-> IF refused THEN "failed" ELSE "open",
                            second |-> second, run |-> IF refused THEN 0 ELSE run]]
      /\ handlers' = [handlers EXCEPT ![name] = Handlers(l, "mlflow", name)]
      /\ active' = IF refused THEN active ELSE run
      /\ runs' = IF ~refused /\ run > runs THEN run ELSE runs
      /\ UNCHANGED <<second, files, scalar>>
  BY DEF MakeMLFlow
<1>2. run \in Nat \ {0}
  BY DEF TrackIInv, TrackTypeOK
<1>3. TrackTypeOK'
  BY <1>1, <1>2, HandlersType DEF TrackIInv, TrackTypeOK
<1>4. Formed'
  BY <1>1 DEF TrackIInv, TrackTypeOK, Formed, IsMade
<1>5. CASE refused
  <2>1. OneRun' /\ ScalarStands'
    BY <1>1, <1>5 DEF TrackIInv, TrackTypeOK, OneRun, ScalarStands, IsMade, EndsRun
  <2>2. QED
    BY <1>1, <1>3, <1>4, <2>1 DEF TrackIInv, FilesStand
<1>6. CASE ~refused
  <2>1. \A m \in Loggers : ~EndsRun(m)
    BY <1>6 DEF TrackIInv, OneRun
  <2>2. OneRun' /\ ScalarStands'
    BY <1>1, <1>2, <1>6, <2>1 DEF TrackIInv, TrackTypeOK, OneRun, ScalarStands, IsMade, EndsRun
  <2>3. QED
    BY <1>1, <1>3, <1>4, <2>2 DEF TrackIInv, FilesStand
<1>7. QED
  BY <1>5, <1>6

LEMMA LogToRunIInv ==
    ASSUME TrackIInv, NEW l \in Loggers, LogToRun(l)
    PROVE  TrackIInv'
<1>1. /\ IsMade(l) /\ loggers[l].kind = "mlflow"
      /\ UNCHANGED <<loggers, handlers, second, files>>
      /\ scalar' = [by |-> l, run |-> active']
      /\ \/ active # 0 /\ UNCHANGED <<active, runs>>
         \/ active = 0 /\ runs' = runs + 1 /\ active' = runs + 1
  BY DEF LogToRun
<1>2. TrackTypeOK'
  BY <1>1 DEF TrackIInv, TrackTypeOK
<1>3. OneRun' /\ ScalarStands'
  BY <1>1 DEF TrackIInv, TrackTypeOK, OneRun, ScalarStands, IsMade, EndsRun
<1>4. Formed' /\ FilesStand'
  BY <1>1 DEF TrackIInv, Formed, FilesStand, IsMade
<1>5. QED
  BY <1>2, <1>3, <1>4 DEF TrackIInv

LEMMA CloseIInv ==
    ASSUME TrackIInv, NEW l \in Loggers, NEW handlersToo \in BOOLEAN, Close(l, handlersToo)
    PROVE  TrackIInv'
<1>1. /\ IsMade(l)
      /\ active' = IF EndsRun(l) THEN 0 ELSE active
      /\ loggers' = [loggers EXCEPT ![l].is = "closed"]
      /\ handlers' = IF handlersToo THEN [handlers EXCEPT ![loggers[l].name] = {}] ELSE handlers
      /\ UNCHANGED <<second, files, runs, scalar>>
  BY DEF Close
<1>2. TrackTypeOK'
  BY <1>1 DEF TrackIInv, TrackTypeOK
<1>3. Formed' /\ FilesStand'
  BY <1>1 DEF TrackIInv, TrackTypeOK, Formed, FilesStand, IsMade
<1>4. OneRun' /\ ScalarStands'
  BY <1>1 DEF TrackIInv, TrackTypeOK, OneRun, ScalarStands, IsMade, EndsRun
<1>5. QED
  BY <1>2, <1>3, <1>4 DEF TrackIInv

\* A header, if the file is new, and rows leave the header first and once.
LEMMA RowsBelowHeader ==
    ASSUME NEW file \in Rows, HeaderFirst(file), NEW l \in Loggers, NEW n \in Nat
    PROVE  LET new == file \o (IF file = <<>> THEN <<"header">> ELSE <<>>) \o [i \in 1..n |-> l]
           IN  new \in Rows /\ HeaderFirst(new)
<1> DEFINE header == IF file = <<>> THEN <<"header">> ELSE <<>>
           top == file \o header
           rows == [i \in 1..n |-> l]
<1>1. header \in Rows /\ rows \in Rows /\ Len(rows) = n
  BY DEF Rows
<1>2. top \in Rows /\ HeaderFirst(top) /\ Len(top) > 0
  <2>1. CASE file = <<>>
    <3>1. top = <<"header">>
      BY <2>1
    <3> HIDE DEF top
    <3>2. /\ <<"header">> \in Rows /\ Len(<<"header">>) = 1
          /\ DOMAIN <<"header">> = {1} /\ <<"header">>[1] = "header"
      BY DEF Rows
    <3>3. HeaderFirst(<<"header">>)
      BY <3>2 DEF HeaderFirst
    <3>4. QED
      BY <3>1, <3>2, <3>3
  <2>2. CASE file # <<>>
    <3>1. top = file
      BY <2>2 DEF Rows
    <3>2. QED
      BY <2>2, <3>1 DEF Rows
  <2>3. QED
    BY <2>1, <2>2
<1> HIDE DEF top, header
<1>3. top \o rows \in Rows /\ Len(top \o rows) = Len(top) + n
  BY <1>1, <1>2 DEF Rows
<1>4. ASSUME NEW i \in 1..(Len(top) + n) PROVE (top \o rows)[i] = "header" <=> i = 1
  <2>1. CASE i <= Len(top)
    <3>1. (top \o rows)[i] = top[i] /\ i \in DOMAIN top
      BY <1>1, <1>2, <2>1 DEF Rows
    <3>2. QED
      BY <1>2, <3>1 DEF HeaderFirst
  <2>2. CASE i > Len(top)
    <3>1. (top \o rows)[i] = rows[i - Len(top)] /\ i - Len(top) \in 1..n
      BY <1>1, <1>2, <2>2 DEF Rows
    <3>2. (top \o rows)[i] = l
      BY <3>1
    <3>3. QED
      BY <1>2, <2>2, <3>2, TrackingAssumption DEF TrackingAssumption
  <2>3. QED
    BY <1>2, <2>1, <2>2 DEF Rows
<1>5. QED
  BY <1>3, <1>4 DEF HeaderFirst, top, header, Rows

LEMMA LogToFileIInv ==
    ASSUME TrackIInv, NEW l \in Loggers, NEW rows \in 1..2, LogToFile(l, rows)
    PROVE  TrackIInv'
<1> DEFINE n == loggers[l].name
           s == loggers[l].second
           file == files[n][s]
           new == file \o (IF file = <<>> THEN <<"header">> ELSE <<>>) \o [i \in 1..rows |-> l]
<1>1. n \in LoggerNames /\ s \in 1..MaxSeconds /\ file \in Rows /\ HeaderFirst(file)
  BY DEF TrackIInv, TrackTypeOK, Formed, FilesStand, LogToFile
<1>2. files' = [files EXCEPT ![n][s] = new] /\ UNCHANGED <<loggers, handlers, second, active, runs, scalar>>
  BY DEF LogToFile
<1>3. new \in Rows /\ HeaderFirst(new)
  BY <1>1, RowsBelowHeader
<1> HIDE DEF n, s, file, new
<1>4. TrackTypeOK'
  BY <1>1, <1>2, <1>3 DEF TrackIInv, TrackTypeOK
<1>5. FilesStand'
  BY <1>1, <1>2, <1>3 DEF TrackIInv, TrackTypeOK, FilesStand
<1>6. Formed' /\ OneRun' /\ ScalarStands'
  BY <1>2 DEF TrackIInv, Formed, OneRun, ScalarStands, IsMade, EndsRun
<1>7. QED
  BY <1>4, <1>5, <1>6 DEF TrackIInv

LEMMA TrackStepIInv == TrackIInv /\ [TrackNext]_trackVars => TrackIInv'
<1> SUFFICES ASSUME TrackIInv, [TrackNext]_trackVars PROVE TrackIInv'
  OBVIOUS
<1>1. CASE UNCHANGED trackVars
  <2>1. second' \in 1..MaxSeconds
    BY <1>1 DEF trackVars, TrackIInv, TrackTypeOK
  <2>2. QED
    BY <1>1, <2>1, TrackQuietStep DEF trackVars
<1>2. CASE Tick
  <2>1. second' \in 1..MaxSeconds
    BY <1>2, TrackingAssumption DEF TrackingAssumption, Tick, TrackIInv, TrackTypeOK
  <2>2. QED
    BY <1>2, <2>1, TrackQuietStep DEF Tick
<1>3. ASSUME NEW l \in Loggers, Log(l) PROVE TrackIInv'
  <2>1. second' \in 1..MaxSeconds
    BY <1>3 DEF Log, TrackIInv, TrackTypeOK
  <2>2. QED
    BY <1>3, <2>1, TrackQuietStep DEF Log
<1>4. QED
  BY <1>1, <1>2, <1>3, MakeIInv, MakeMLFlowIInv, LogToRunIInv, LogToFileIInv, CloseIInv
     DEF TrackNext

\* The invariant behind the theorem below: one open logger of MLflow at a time, and
\* its run is the active one (MLFlowLogger.__init__, end_run).
THEOREM TrackInvariance == TrackSpec => []TrackIInv
<1>1. QED
  BY TrackInitIInv, TrackStepIInv, PTL DEF TrackSpec

\* What an open logger writes lands in its own run, and every metrics file has its
\* header first and once (MLFlowLogger, FileLogger.log_scalars).
THEOREM ScalarsAlwaysLand == TrackSpec => []ScalarsLand
<1>1. TrackIInv => ScalarsLand
  BY DEF TrackIInv, ScalarsLand, OneRun, ScalarStands, FilesStand, HeaderFirst
<1>2. QED
  BY <1>1, TrackInvariance, PTL
=============================================================================
