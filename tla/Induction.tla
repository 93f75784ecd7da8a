----------------------------- MODULE Induction ------------------------------
(***************************************************************************)
(* Facts the other proofs share. What a recursive function computes is     *)
(* proved by least counterexamples: the induction theorems of the library  *)
(* take an operator as a parameter, but WFMin, that a well-founded         *)
(* relation has minimal elements, takes a set.                             *)
(***************************************************************************)
EXTENDS Integers, FiniteSets, Functions, FiniteSetTheorems, TLAPS

-----------------------------------------------------------------------------
(* Numbers.                                                                *)

\* A set of natural numbers that is not empty has a least one.
LEMMA LeastNatural ==
    ASSUME NEW T, T \subseteq Nat, T # {}
    PROVE  \E n \in T : \A m \in T : n <= m
<1> DEFINE R == {ss \in Nat \X Nat : ss[1] < ss[2]}
<1>1. IsWellFoundedOn(R, Nat)
  BY NatLessThanWellFounded, Zenon DEF OpToRel
<1>2. PICK n \in T : \A m \in T : ~(<<m, n>> \in R)
  <2> HIDE DEF R
  <2>1. QED
    BY <1>1, WFMin
<1>3. \A m \in T : n <= m
  <2> TAKE m \in T
  <2>1. m \in Nat /\ n \in Nat
    OBVIOUS
  <2>2. ~(m < n)
    BY <1>2, <2>1
  <2>3. QED
    BY <2>1, <2>2
<1>4. QED
  BY <1>3

\* One below a bound has a greatest.
LEMMA GreatestNatural ==
    ASSUME NEW n \in Nat, NEW S, S \subseteq 0..n, S # {}
    PROVE  \E m \in S : \A s \in S : s <= m
<1> DEFINE T == {k \in Nat : n - k \in S}
<1>1. T # {}
  <2>1. PICK s \in S : TRUE
    OBVIOUS
  <2>2. n - s \in Nat /\ n - (n - s) = s
    OBVIOUS
  <2>3. QED
    BY <2>2
<1>2. PICK k \in T : \A j \in T : k <= j
  <2> HIDE DEF T
  <2>1. T \subseteq Nat
    BY DEF T
  <2>2. QED
    BY <1>1, <2>1, LeastNatural
<1>3. \A s \in S : s <= n - k
  <2> TAKE s \in S
  <2>1. n - s \in Nat /\ n - (n - s) = s
    OBVIOUS
  <2>2. QED
    BY <1>2, <2>1
<1>4. QED
  BY <1>3

-----------------------------------------------------------------------------
(* The sum of a function over a finite set, as module Functions folds it.  *)

\* The fold takes an element of a set, and then those of the rest.
Some(s) == CHOOSE x \in s : TRUE
Taking(f, g, s) == IF s = {} THEN 0 ELSE f[Some(s)] + g[s \ {Some(s)}]

IntegerOn(f, S) == \A x \in S : f[x] \in Int
IsSum(g, f, S) == \A s \in SUBSET S : g[s] = Taking(f, g, s)

UpTo(n, S) == {u \in SUBSET S : Cardinality(u) <= n}
SumsUpTo(g, f, n, S) == g = [s \in UpTo(n, S) |-> Taking(f, g, s)]

\* Some function makes those steps, on the subsets of at most n elements ...
LEMMA SumsSoFar ==
    ASSUME NEW f, NEW S, IsFiniteSet(S), NEW n \in Nat
    PROVE  \E g : SumsUpTo(g, f, n, S)
<1> DEFINE Few(i) == {u \in SUBSET S : Cardinality(u) <= i}
<1> DEFINE T == {i \in Nat : ~\E g : g = [s \in Few(i) |-> Taking(f, g, s)]}
<1> SUFFICES ASSUME n \in T PROVE FALSE
  BY DEF SumsUpTo, UpTo
<1>1. PICK i \in T : \A j \in T : i <= j
  <2> HIDE DEF T
  <2>1. T \subseteq Nat
    BY DEF T
  <2>2. QED
    BY <2>1, LeastNatural
<1>2. \A u \in SUBSET S : IsFiniteSet(u) /\ Cardinality(u) \in Nat /\ (Cardinality(u) = 0 <=> u = {})
  BY FS_Subset, FS_CardinalityType, FS_EmptySet
<1>3. CASE i = 0
  <2>1. \A s \in Few(0) : s = {}
    BY <1>2
  <2> DEFINE h == [s \in Few(0) |-> 0]
  <2>2. h = [s \in Few(0) |-> Taking(f, h, s)]
    BY <2>1 DEF Taking
  <2>3. QED
    BY <1>1, <1>3, <2>2
<1>4. CASE i # 0
  <2>1. i - 1 \in Nat /\ i - 1 \notin T
    <3>1. i \in Nat
      OBVIOUS
    <3> HIDE DEF T
    <3>2. QED
      BY <1>1, <1>4, <3>1
  <2>2. PICK g : g = [s \in Few(i - 1) |-> Taking(f, g, s)]
    BY <2>1
  <2> DEFINE h == [s \in Few(i) |-> Taking(f, g, s)]
  <2>3. \A s \in Few(i) : s # {} => s \ {Some(s)} \in Few(i - 1)
    <3> TAKE s \in Few(i)
    <3> HAVE s # {}
    <3>1. Some(s) \in s
      BY DEF Some
    <3>2. Cardinality(s \ {Some(s)}) = Cardinality(s) - 1
      BY <1>2, <3>1, FS_RemoveElement
    <3>3. QED
      BY <1>2, <2>1, <3>2
  <2>4. \A s \in Few(i - 1) : s \in Few(i) /\ h[s] = g[s]
    <3> TAKE s \in Few(i - 1)
    <3>1. s \in Few(i)
      BY <1>2, <2>1
    <3>2. g[s] = Taking(f, g, s)
      BY <2>2
    <3>3. QED
      BY <3>1, <3>2
  <2>5. \A s \in Few(i) : h[s] = Taking(f, h, s)
    BY <2>3, <2>4 DEF Taking
  <2>6. h = [s \in Few(i) |-> Taking(f, h, s)]
    BY <2>5
  <2>7. QED
    BY <1>1, <2>6
<1>5. QED
  BY <1>3, <1>4

\* ... and so on all of them.
LEMMA SumTakes ==
    ASSUME NEW f, NEW S, IsFiniteSet(S)
    PROVE  \E g : IsSum(g, f, S) /\ SumFunctionOnSet(f, S) = g[S]
<1> DEFINE g == CHOOSE h : h = [s \in SUBSET S |-> Taking(f, h, s)]
<1>1. SumFunctionOnSet(f, S) = g[S]
  BY DEF SumFunctionOnSet, FoldFunctionOnSet, MapThenFoldSet, Taking, Some
<1>2. \E h : h = [s \in SUBSET S |-> Taking(f, h, s)]
  <2>1. UpTo(Cardinality(S), S) = SUBSET S
    BY FS_Subset DEF UpTo
  <2>2. PICK h : SumsUpTo(h, f, Cardinality(S), S)
    <3>1. Cardinality(S) \in Nat
      BY FS_CardinalityType
    <3>2. QED
      BY <3>1, SumsSoFar
  <2>3. QED
    BY <2>1, <2>2 DEF SumsUpTo
<1>3. g = [s \in SUBSET S |-> Taking(f, g, s)]
  BY <1>2
<1>4. QED
  <2> HIDE DEF g
  <2>1. IsSum(g, f, S)
    BY <1>3 DEF IsSum
  <2>2. QED
    BY <1>1, <2>1

LEMMA SumOfNone == ASSUME NEW f PROVE SumFunctionOnSet(f, {}) = 0
<1>1. IsFiniteSet({})
  BY FS_EmptySet
<1>2. PICK g : IsSum(g, f, {}) /\ SumFunctionOnSet(f, {}) = g[{}]
  BY <1>1, SumTakes
<1>3. QED
  BY <1>2 DEF IsSum, Taking

\* Whichever element is taken first.
LEMMA AnyFirst ==
    ASSUME NEW f, NEW S, IsFiniteSet(S), IntegerOn(f, S),
           NEW g, IsSum(g, f, S), NEW s0 \in SUBSET S, NEW x0 \in s0
    PROVE  g[s0] \in Int /\ g[s0] = f[x0] + g[s0 \ {x0}]
<1> DEFINE Good(s) == g[s] \in Int /\ \A x \in s : g[s] = f[x] + g[s \ {x}]
<1> DEFINE T == {n \in Nat : \E s \in SUBSET S : Cardinality(s) = n /\ ~Good(s)}
<1>1. \A u \in SUBSET S : IsFiniteSet(u) /\ Cardinality(u) \in Nat /\ (Cardinality(u) = 0 <=> u = {})
  BY FS_Subset, FS_CardinalityType, FS_EmptySet
<1>2. SUFFICES ASSUME T # {} PROVE FALSE
  <2>1. Cardinality(s0) \notin T => Good(s0)
    BY <1>1
  <2>2. QED
    BY <2>1
<1>3. PICK n \in T : \A m \in T : n <= m
  <2> HIDE DEF T
  <2>1. T \subseteq Nat
    BY DEF T
  <2>2. QED
    BY <1>2, <2>1, LeastNatural
<1>4. PICK s \in SUBSET S : Cardinality(s) = n /\ ~Good(s)
  BY <1>3
<1>5. \A x \in s : s \ {x} \in SUBSET S /\ Cardinality(s \ {x}) = n - 1 /\ Good(s \ {x})
  <2> TAKE x \in s
  <2>1. s \ {x} \in SUBSET S /\ Cardinality(s \ {x}) = n - 1
    BY <1>1, <1>4, FS_RemoveElement
  <2>2. Cardinality(s \ {x}) \notin T
    <3> HIDE DEF T
    <3>1. n \in Nat
      BY <1>3 DEF T
    <3>2. n - 1 \notin T
      BY <1>3, <3>1
    <3>3. QED
      BY <2>1, <3>2
  <2>3. Cardinality(s \ {x}) \in Nat
    BY <1>1, <2>1
  <2>4. QED
    BY <2>1, <2>2, <2>3
<1> HIDE DEF T
<1>6. CASE s = {}
  <2>1. g[s] = 0
    BY <1>6 DEF IsSum, Taking
  <2>2. QED
    BY <1>4, <1>6, <2>1
<1>7. CASE s # {}
  <2> DEFINE c == Some(s)
  <2>1. c \in s
    BY <1>7 DEF Some
  <2> HIDE DEF c
  <2>2. g[s] = f[c] + g[s \ {c}]
    BY <1>7 DEF IsSum, Taking, c
  <2>3. f[c] \in Int /\ g[s \ {c}] \in Int
    BY <1>4, <1>5, <2>1 DEF IntegerOn
  <2>4. g[s] \in Int
    BY <2>2, <2>3
  <2>5. ASSUME NEW x \in s PROVE g[s] = f[x] + g[s \ {x}]
    <3>1. CASE x = c
      BY <2>2, <3>1
    <3>2. CASE x # c
      <4>1. g[s \ {c}] = f[x] + g[(s \ {c}) \ {x}]
        BY <1>5, <2>1, <3>2
      <4>2. g[s \ {x}] = f[c] + g[(s \ {x}) \ {c}]
        BY <1>5, <2>1, <3>2
      <4>3. (s \ {c}) \ {x} = (s \ {x}) \ {c}
        OBVIOUS
      <4>4. (s \ {c}) \ {x} \in SUBSET S /\ (s \ {c}) \ {x} # s
        BY <2>1
      <4>5. g[(s \ {c}) \ {x}] \in Int
        <5> DEFINE u == s \ {c}
        <5>1. u \in SUBSET S /\ Cardinality(u) = n - 1 /\ x \in u
          BY <1>5, <2>1, <3>2
        <5>2. Cardinality(u \ {x}) = n - 1 - 1
          <6> HIDE DEF u
          <6>1. IsFiniteSet(u)
            BY <1>1, <5>1
          <6>2. QED
            BY <5>1, <6>1, FS_RemoveElement
        <5>3. n \in Nat
          BY <1>3 DEF T
        <5>4. n - 1 - 1 \notin T
          BY <1>3, <5>3
        <5>5. Cardinality(u \ {x}) \in Nat
          BY <1>1, <4>4
        <5>6. QED
          BY <4>4, <5>2, <5>4, <5>5 DEF T
      <4>6. f[x] \in Int /\ f[c] \in Int
        <5>1. x \in S /\ c \in S
          BY <1>4, <2>1, <2>5
        <5>2. QED
          BY <5>1 DEF IntegerOn
      <4>7. g[s \ {x}] = f[c] + g[(s \ {c}) \ {x}]
        BY <4>2, <4>3
      <4> DEFINE rest == g[(s \ {c}) \ {x}]
      <4>8. g[s] = f[c] + (f[x] + rest) /\ g[s \ {x}] = f[c] + rest /\ rest \in Int
        BY <2>2, <4>1, <4>5, <4>7
      <4> HIDE DEF rest
      <4>9. QED
        BY <4>6, <4>8
    <3>3. QED
      BY <3>1, <3>2
  <2>6. QED
    BY <1>4, <2>4, <2>5
<1>8. QED
  BY <1>6, <1>7

LEMMA SumInteger ==
    ASSUME NEW f, NEW S, IsFiniteSet(S), IntegerOn(f, S)
    PROVE  SumFunctionOnSet(f, S) \in Int
<1>1. CASE S = {}
  BY <1>1, SumOfNone
<1>2. CASE S # {}
  <2>1. PICK g : IsSum(g, f, S) /\ SumFunctionOnSet(f, S) = g[S]
    BY SumTakes
  <2>2. PICK x \in S : TRUE
    BY <1>2
  <2>3. S \in SUBSET S
    OBVIOUS
  <2>4. g[S] \in Int /\ g[S] = f[x] + g[S \ {x}]
    BY <2>1, <2>2, <2>3, AnyFirst
  <2>5. QED
    BY <2>1, <2>4
<1>3. QED
  BY <1>1, <1>2

\* The sum over a set is one summand and the sum over the rest, of whatever
\* function has the same values there.
LEMMA SumWithout ==
    ASSUME NEW f, NEW S, IsFiniteSet(S), IntegerOn(f, S), NEW x \in S,
           NEW f2, \A y \in S \ {x} : f2[y] = f[y]
    PROVE  SumFunctionOnSet(f, S) = f[x] + SumFunctionOnSet(f2, S \ {x})
<1> DEFINE R == S \ {x}
<1>0. IsFiniteSet(R) /\ R \subseteq S
  BY FS_Subset
<1> HIDE DEF R
<1>1. PICK g : IsSum(g, f, S) /\ SumFunctionOnSet(f, S) = g[S]
  BY SumTakes
<1>2. PICK g2 : IsSum(g2, f2, R) /\ SumFunctionOnSet(f2, R) = g2[R]
  BY <1>0, SumTakes
<1> USE DEF R
<1>3. g[S] = f[x] + g[R]
  <2>1. S \in SUBSET S
    OBVIOUS
  <2> HIDE DEF R
  <2>2. g[S] = f[x] + g[S \ {x}]
    BY <1>1, <2>1, AnyFirst
  <2>3. QED
    BY <2>2 DEF R
<1>4. g[R] = g2[R]
  <2> DEFINE T == {n \in Nat : \E s \in SUBSET R : Cardinality(s) = n /\ g[s] # g2[s]}
  <2>1. \A u \in SUBSET R : IsFiniteSet(u) /\ Cardinality(u) \in Nat
    BY <1>0, FS_Subset, FS_CardinalityType
  <2>2. SUFFICES ASSUME T # {} PROVE FALSE
    BY <2>1
  <2>3. PICK n \in T : \A m \in T : n <= m
    <3> HIDE DEF T
    <3>1. T \subseteq Nat
      BY DEF T
    <3>2. QED
      BY <2>2, <3>1, LeastNatural
  <2>4. PICK s \in SUBSET R : Cardinality(s) = n /\ g[s] # g2[s]
    BY <2>3
  <2>5. g[s] = Taking(f, g, s) /\ g2[s] = Taking(f2, g2, s)
    BY <1>0, <1>1, <1>2 DEF IsSum
  <2>6. CASE s = {}
    BY <2>4, <2>5, <2>6 DEF Taking
  <2>7. CASE s # {}
    <3> DEFINE c == Some(s)
    <3>1. c \in s
      BY <2>7 DEF Some
    <3>2. g[s] = f[c] + g[s \ {c}] /\ g2[s] = f2[c] + g2[s \ {c}]
      BY <2>5, <2>7 DEF Taking
    <3> HIDE DEF c
    <3>3. Cardinality(s \ {c}) = n - 1
      BY <2>1, <2>4, <3>1, FS_RemoveElement
    <3>4. n \in Nat /\ Cardinality(s \ {c}) \in Nat
      BY <2>1, <2>3
    <3>5. Cardinality(s \ {c}) \notin T
      <4> HIDE DEF T
      <4>1. n - 1 \notin T
        BY <2>3, <3>4
      <4>2. QED
        BY <3>3, <4>1
    <3>6. g[s \ {c}] = g2[s \ {c}]
      BY <3>4, <3>5
    <3>7. f[c] = f2[c]
      BY <3>1
    <3>8. QED
      BY <2>4, <3>2, <3>6, <3>7
  <2>8. QED
    BY <2>6, <2>7
<1>5. QED
  BY <1>1, <1>2, <1>3, <1>4
=============================================================================
