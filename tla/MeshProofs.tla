----------------------------- MODULE MeshProofs -----------------------------
(***************************************************************************)
(* Proofs about module Meshes, for any number of devices and layers, any   *)
(* axes and names, and any number of strategies, dimensions and leaves: a  *)
(* plan fits the devices it is for, combined specs are settled whichever   *)
(* way they are merged, and a batch is placed as its shardings ask.        *)
(***************************************************************************)
EXTENDS Meshes, Induction, SequenceTheorems

-----------------------------------------------------------------------------
(* Arithmetic and products.                                                *)

Positive == Nat \ {0}

LEMMA RootIs ==
    ASSUME NEW count \in Nat
    PROVE  /\ Root(count) \in 0..count
           /\ Root(count) * Root(count) <= count
           /\ (Root(count) + 1) * (Root(count) + 1) > count
<1> DEFINE T == {r \in Nat : (r + 1) * (r + 1) > count}
<1>1. count \in T
  <2>1. (count + 1) * (count + 1) = count * count + 2 * count + 1 /\ count * count \in Nat
    OBVIOUS
  <2>2. QED
    BY <2>1
<1>2. PICK r \in T : \A q \in T : r <= q
  <2> HIDE DEF T
  <2>1. T \subseteq Nat
    BY DEF T
  <2>2. QED
    BY <1>1, <2>1, LeastNatural
<1>3. r \in Nat /\ r <= count /\ (r + 1) * (r + 1) > count
  BY <1>1, <1>2
<1>4. r * r <= count
  <2>1. CASE r = 0
    BY <1>3, <2>1
  <2>2. CASE r # 0
    <3> DEFINE q == r - 1
    <3>1. q \in Nat /\ q + 1 = r /\ ~(r <= q)
      BY <1>3, <2>2
    <3>2. q \notin T
      BY <1>2, <3>1
    <3>3. ~((q + 1) * (q + 1) > count)
      BY <3>1, <3>2
    <3>4. r * r \in Nat /\ ~(r * r > count)
      BY <1>3, <3>1, <3>3
    <3>5. QED
      BY <3>4
  <2>3. QED
    BY <2>1, <2>2
<1>5. \E q \in 0..count : q * q <= count /\ (q + 1) * (q + 1) > count
  <2>1. r \in 0..count
    BY <1>3
  <2>2. QED
    BY <2>1, <1>3, <1>4
<1>6. QED
  BY <1>5 DEF Root

LEMMA Division ==
    ASSUME NEW a \in Nat, NEW b \in Positive
    PROVE  /\ a \div b \in Nat /\ a % b \in 0..(b - 1)
           /\ a % b = a - b * (a \div b)
<1>1. b \in Nat /\ b > 0
  BY DEF Positive
<1>2. a \div b \in Nat /\ a % b \in 0..(b - 1)
  BY <1>1
<1>3. a % b = a - b * (a \div b)
  BY <1>1, SMTT(60)
<1>4. QED
  BY <1>2, <1>3

\* Short sequences.
LEMMA Two == ASSUME NEW T, NEW s \in Seq(T), Len(s) = 2 PROVE s = <<s[1], s[2]>>
<1> DEFINE t == <<s[1], s[2]>>
<1>1. t \in Seq(T) /\ Len(t) = 2 /\ t[1] = s[1] /\ t[2] = s[2]
  OBVIOUS
<1>2. \A i \in 1..Len(s) : i = 1 \/ i = 2
  OBVIOUS
<1> HIDE DEF t
<1>3. \A i \in 1..Len(s) : s[i] = t[i]
  BY <1>1, <1>2
<1>4. QED
  BY <1>1, <1>3, SeqEqual DEF t

LEMMA Three == ASSUME NEW T, NEW s \in Seq(T), Len(s) = 3 PROVE s = <<s[1], s[2], s[3]>>
<1> DEFINE t == <<s[1], s[2], s[3]>>
<1>1. t \in Seq(T) /\ Len(t) = 3 /\ t[1] = s[1] /\ t[2] = s[2] /\ t[3] = s[3]
  OBVIOUS
<1>2. \A i \in 1..Len(s) : i = 1 \/ i = 2 \/ i = 3
  OBVIOUS
<1> HIDE DEF t
<1>3. \A i \in 1..Len(s) : s[i] = t[i]
  BY <1>1, <1>2
<1>4. QED
  BY <1>1, <1>3, SeqEqual DEF t

\* A function on the first numbers is a sequence.
LEMMA SequenceOf ==
    ASSUME NEW T, NEW n \in Nat, NEW s \in [1..n -> T]
    PROVE  s \in Seq(T) /\ Len(s) = n
<1>1. Seq(T) = UNION {[1..k -> T] : k \in Nat}
  BY SeqDef
<1>2. s \in Seq(T)
  BY <1>1, Zenon
<1>3. Len(s) \in Nat /\ 1..Len(s) = 1..n
  BY <1>2, LenProperties
<1> DEFINE k == Len(s)
<1> HIDE DEF k
<1>4. k \in Nat /\ \A i \in Nat : i \in 1..k <=> i \in 1..n
  BY <1>3 DEF k
<1>5. ~(k < n) /\ ~(n < k)
  <2>1. n \in 1..k <=> n \in 1..n
    BY <1>4
  <2>2. k \in 1..k <=> k \in 1..n
    BY <1>4
  <2>3. QED
    BY <1>4, <2>1, <2>2
<1>6. QED
  BY <1>2, <1>4, <1>5 DEF k

LEMMA JoinOne ==
    ASSUME NEW T, NEW x \in T, NEW y \in T
    PROVE  <<x>> \o <<y>> = <<x, y>>
<1>1. <<x>> \in Seq(T) /\ <<y>> \in Seq(T)
  OBVIOUS
<1>2. Len(<<x>>) = 1 /\ Len(<<y>>) = 1 /\ <<x>>[1] = x /\ <<y>>[1] = y
  OBVIOUS
<1> DEFINE s == <<x>> \o <<y>>
<1>3. s \in Seq(T) /\ Len(s) = 2 /\ s[1] = x /\ s[2] = y
  BY <1>1, <1>2, ConcatProperties
<1> HIDE DEF s
<1>4. QED
  BY <1>3, Two DEF s

LEMMA JoinTwo ==
    ASSUME NEW T, NEW x \in T, NEW y \in T, NEW z \in T
    PROVE  <<x, y>> \o <<z>> = <<x, y, z>>
<1>1. <<x, y>> \in Seq(T) /\ <<z>> \in Seq(T)
  OBVIOUS
<1>2. Len(<<x, y>>) = 2 /\ Len(<<z>>) = 1 /\ <<x, y>>[1] = x /\ <<x, y>>[2] = y /\ <<z>>[1] = z
  OBVIOUS
<1> DEFINE s == <<x, y>> \o <<z>>
<1>3. s \in Seq(T) /\ Len(s) = 3 /\ s[1] = x /\ s[2] = y /\ s[3] = z
  BY <1>1, <1>2, ConcatProperties
<1> HIDE DEF s
<1>4. QED
  BY <1>3, Three DEF s

\* A product of up to three axes.
LEMMA ProductOf ==
    ASSUME NEW shape \in Seq(Axes), Len(shape) \in 1..3
    PROVE  Product(shape) = IF Len(shape) = 1 THEN shape[1].size
                            ELSE IF Len(shape) = 2 THEN shape[1].size * shape[2].size
                            ELSE shape[1].size * shape[2].size * shape[3].size
<1>0. Len(shape) \in Nat /\ (Len(shape) = 1 \/ Len(shape) = 2 \/ Len(shape) = 3)
  OBVIOUS
<1> DEFINE a == shape[1].size
           b == shape[2].size
           c == shape[3].size
           Step(g, n) == IF n = 0 THEN 1 ELSE g[n - 1] * shape[n].size
           h == [n \in 0..Len(shape) |-> IF n = 0 THEN 1 ELSE IF n = 1 THEN a
                                         ELSE IF n = 2 THEN a * b ELSE a * b * c]
           f == CHOOSE g : g = [n \in 0..Len(shape) |-> Step(g, n)]
<1>1. \A n \in 1..Len(shape) : shape[n].size \in Nat
  <2>1. \A n \in 1..Len(shape) : shape[n] \in Axes
    OBVIOUS
  <2>2. QED
    BY <2>1 DEF Axes
<1>2. h = [n \in 0..Len(shape) |-> Step(h, n)]
  <2> SUFFICES ASSUME NEW n \in 0..Len(shape) PROVE h[n] = Step(h, n)
    OBVIOUS
  <2>1. n = 0 \/ n = 1 \/ n = 2 \/ n = 3
    <3> HIDE DEF a, b, c, h, f, Step
    <3>1. n \in Nat /\ n <= Len(shape)
      BY <1>0
    <3>2. CASE Len(shape) = 1
      BY <3>1, <3>2
    <3>3. CASE Len(shape) = 2
      BY <3>1, <3>3
    <3>4. CASE Len(shape) = 3
      BY <3>1, <3>4
    <3>5. QED
      BY <1>0, <3>2, <3>3, <3>4
  <2>2. CASE n = 0
    BY <2>2
  <2>3. CASE n = 1
    <3>1. h[0] = 1 /\ h[1] = a /\ 1 * a = a
      BY <1>1, <2>3
    <3>2. QED
      BY <2>3, <3>1
  <2>4. CASE n = 2
    <3>1. h[1] = a /\ h[2] = a * b
      BY <2>4
    <3>2. QED
      BY <2>4, <3>1
  <2>5. CASE n = 3
    <3>1. h[2] = a * b /\ h[3] = a * b * c
      BY <2>5
    <3>2. QED
      BY <2>5, <3>1
  <2>6. QED
    BY <2>1, <2>2, <2>3, <2>4, <2>5
<1>3. f = [n \in 0..Len(shape) |-> Step(f, n)]
  <2> HIDE DEF h, Step
  <2>1. QED
    BY <1>2
<1>4. Product(shape) = f[Len(shape)]
  BY DEF Product
<1>5. f[0] = 1
  <2> HIDE DEF f
  <2>1. QED
    BY <1>3
<1>6. f[1] = a
  <2> HIDE DEF f
  <2>1. f[1] = f[0] * a
    BY <1>3
  <2>2. QED
    BY <1>1, <1>5, <2>1
<1>7. Len(shape) > 1 => f[2] = a * b
  <2> HIDE DEF f
  <2>1. Len(shape) > 1 => f[2] = f[1] * b
    BY <1>3
  <2>2. QED
    BY <1>6, <2>1
<1>8. Len(shape) > 2 => f[3] = a * b * c
  <2> HIDE DEF f
  <2>1. Len(shape) > 2 => f[3] = f[2] * c
    BY <1>3
  <2>2. QED
    BY <1>7, <2>1
<1>9. QED
  <2> HIDE DEF a, b, c, f
  <2>1. CASE Len(shape) = 1
    BY <1>4, <1>6, <2>1 DEF a
  <2>2. CASE Len(shape) = 2
    BY <1>4, <1>7, <2>2 DEF a, b
  <2>3. CASE Len(shape) = 3
    BY <1>4, <1>8, <2>3 DEF a, b, c
  <2>4. QED
    BY <1>0, <2>1, <2>2, <2>3

LEMMA ProductsOf ==
    ASSUME NEW x \in Axes, NEW y \in Axes, NEW z \in Axes
    PROVE  /\ <<x>> \in Seq(Axes) /\ Len(<<x>>) = 1 /\ Product(<<x>>) = x.size
           /\ <<x, y>> \in Seq(Axes) /\ Len(<<x, y>>) = 2 /\ Product(<<x, y>>) = x.size * y.size
           /\ <<x, y, z>> \in Seq(Axes) /\ Len(<<x, y, z>>) = 3
           /\ Product(<<x, y, z>>) = x.size * y.size * z.size
<1>1. <<x>> \in Seq(Axes) /\ <<x, y>> \in Seq(Axes) /\ <<x, y, z>> \in Seq(Axes)
  OBVIOUS
<1>2. Len(<<x>>) = 1 /\ Len(<<x, y>>) = 2 /\ Len(<<x, y, z>>) = 3
  OBVIOUS
<1>3. Product(<<x>>) = x.size
  <2> DEFINE s == <<x>>
  <2>1. s \in Seq(Axes) /\ Len(s) = 1 /\ s[1] = x
    BY <1>1, <1>2
  <2> HIDE DEF s
  <2>2. Product(s) = x.size
    BY <2>1, ProductOf
  <2>3. QED
    BY <2>2 DEF s
<1>4. Product(<<x, y>>) = x.size * y.size
  <2> DEFINE s == <<x, y>>
  <2>1. s \in Seq(Axes) /\ Len(s) = 2 /\ s[1] = x /\ s[2] = y
    BY <1>1, <1>2
  <2> HIDE DEF s
  <2>2. Product(s) = x.size * y.size
    BY <2>1, ProductOf
  <2>3. QED
    BY <2>2 DEF s
<1>5. Product(<<x, y, z>>) = x.size * y.size * z.size
  <2> DEFINE s == <<x, y, z>>
  <2>1. s \in Seq(Axes) /\ Len(s) = 3 /\ s[1] = x /\ s[2] = y /\ s[3] = z
    BY <1>1, <1>2
  <2> HIDE DEF s
  <2>2. Product(s) = x.size * y.size * z.size
    BY <2>1, ProductOf
  <2>3. QED
    BY <2>2 DEF s
<1>6. QED
  BY <1>1, <1>2, <1>3, <1>4, <1>5

\* The shape of a configuration has as many devices as its sizes multiply to.
LEMMA ShapeIs ==
    ASSUME NEW d \in Positive, NEW t \in Positive, NEW p \in Positive
    PROVE  LET shape == ShapeOf(Sizes(d, t, p))
           IN  /\ shape \in Seq(Axes) /\ Len(shape) \in 1..3
               /\ Product(shape) = d * t * p /\ Product(shape) \in Nat
<1> DEFINE x == [name |-> "data", size |-> d]
           y == [name |-> "model", size |-> t]
           z == [name |-> "pipeline", size |-> p]
           one == [name |-> "data", size |-> 1]
           shape == ShapeOf(Sizes(d, t, p))
<1>1. d \in Nat /\ t \in Nat /\ p \in Nat /\ d >= 1 /\ t >= 1 /\ p >= 1
  BY DEF Positive
<1>2. x \in Axes /\ y \in Axes /\ z \in Axes /\ one \in Axes
  BY <1>1 DEF Axes
<1>3. shape = LET kept == (IF d > 1 THEN <<x>> ELSE <<>>) \o (IF t > 1 THEN <<y>> ELSE <<>>)
                          \o (IF p > 1 THEN <<z>> ELSE <<>>)
              IN  IF kept = <<>> THEN <<one>> ELSE kept
  BY DEF ShapeOf, Sizes
<1>4. x.size = d /\ y.size = t /\ z.size = p /\ one.size = 1
  OBVIOUS
<1> HIDE DEF x, y, z, one, shape
<1>5. \/ d = 1 /\ t = 1 /\ p = 1 /\ shape = <<one>>
      \/ d > 1 /\ t = 1 /\ p = 1 /\ shape = <<x>>
      \/ d = 1 /\ t > 1 /\ p = 1 /\ shape = <<y>>
      \/ d = 1 /\ t = 1 /\ p > 1 /\ shape = <<z>>
      \/ d > 1 /\ t > 1 /\ p = 1 /\ shape = <<x, y>>
      \/ d > 1 /\ t = 1 /\ p > 1 /\ shape = <<x, z>>
      \/ d = 1 /\ t > 1 /\ p > 1 /\ shape = <<y, z>>
      \/ d > 1 /\ t > 1 /\ p > 1 /\ shape = <<x, y, z>>
  <2>0. <<>> \o <<>> = <<>> /\ <<x>> \o <<>> = <<x>> /\ <<>> \o <<y>> = <<y>> /\ <<>> \o <<z>> = <<z>>
        /\ <<y>> \o <<>> = <<y>> /\ <<x, y>> \o <<>> = <<x, y>>
    OBVIOUS
  <2>1. <<x>> \o <<y>> = <<x, y>> /\ <<x>> \o <<z>> = <<x, z>> /\ <<y>> \o <<z>> = <<y, z>>
        /\ <<x, y>> \o <<z>> = <<x, y, z>>
    BY <1>2, JoinOne, JoinTwo
  <2>2. <<x>> # <<>> /\ <<y>> # <<>> /\ <<z>> # <<>> /\ <<x, y>> # <<>> /\ <<x, z>> # <<>>
        /\ <<y, z>> # <<>> /\ <<x, y, z>> # <<>>
    OBVIOUS
  <2>3. (d = 1 \/ d > 1) /\ (t = 1 \/ t > 1) /\ (p = 1 \/ p > 1)
    BY <1>1
  <2>4. QED
    BY <1>3, <2>0, <2>1, <2>2, <2>3
<1>6. shape \in Seq(Axes) /\ Len(shape) \in 1..3
  <2>1. \A u, v, w \in Axes : /\ <<u>> \in Seq(Axes) /\ <<u, v>> \in Seq(Axes) /\ <<u, v, w>> \in Seq(Axes)
                             /\ Len(<<u>>) = 1 /\ Len(<<u, v>>) = 2 /\ Len(<<u, v, w>>) = 3
    BY ProductsOf
  <2>2. QED
    BY <1>2, <1>5, <2>1
<1>7. Product(shape) = d * t * p
  <2>1. 1 = 1 * 1 * 1 /\ d = d * 1 * 1 /\ t = 1 * t * 1 /\ p = 1 * 1 * p
        /\ d * t = d * t * 1 /\ d * p = d * 1 * p /\ t * p = 1 * t * p
    BY <1>1
  <2>2. /\ \A u \in Axes : Product(<<u>>) = u.size
        /\ \A u, v \in Axes : Product(<<u, v>>) = u.size * v.size
        /\ \A u, v, w \in Axes : Product(<<u, v, w>>) = u.size * v.size * w.size
    BY ProductsOf
  <2>3. QED
    BY <1>2, <1>4, <1>5, <2>1, <2>2
<1>8. d * t * p \in Nat
  BY <1>1
<1>9. QED
  BY <1>6, <1>7, <1>8 DEF shape

-----------------------------------------------------------------------------
(* Plans, meshes, pipelines and advice.                                    *)

\* A mesh is never what a call that raises returns.
LEMMA MeshIs ==
    ASSUME NEW shape \in Seq(Axes), NEW count \in Nat, NEW types \in Int, Product(shape) \in Nat
    PROVE  LET got == CreateDeviceMesh(shape, count, types)
           IN  /\ got = Refused <=> (types # -1 /\ types # Len(shape)) \/ count < Product(shape)
               /\ got # Refused => got.devices = 1..Product(shape)
<1> DEFINE mesh == [axes |-> shape, devices |-> 1..Product(shape)]
<1>1. mesh \in [axes : Seq(Axes), devices : SUBSET Nat]
  <2>1. 1..Product(shape) \in SUBSET Nat
    OBVIOUS
  <2>2. QED
    BY <2>1
<1>2. mesh # Refused
  BY <1>1, MeshesAssumption
<1>3. QED
  BY <1>2 DEF CreateDeviceMesh

\* The plan for any number of devices leaves fewer idle than one group has.
LEMMA PlanIs ==
    ASSUME NEW count \in Nat, count > 0
    PROVE  \E d, t \in Positive : /\ FromDeviceCount(count) = Sizes(d, t, 1)
                                  /\ d * t <= count /\ count - d * t < t
<1> DEFINE t == IF Root(count) > 8 THEN 8 ELSE Root(count)
<1>1. CASE count <= 4
  <2>1. count \in Positive /\ 1 \in Positive /\ count * 1 = count
    BY DEF Positive
  <2>2. FromDeviceCount(count) = Sizes(count, 1, 1)
    BY <1>1 DEF FromDeviceCount
  <2>3. QED
    BY <2>1, <2>2
<1>2. CASE count = 8
  <2>1. 2 \in Positive /\ 4 \in Positive /\ 2 * 4 = 8
    BY DEF Positive
  <2>2. FromDeviceCount(count) = Sizes(2, 4, 1)
    BY <1>2 DEF FromDeviceCount
  <2>3. QED
    BY <1>2, <2>1, <2>2
<1>3. CASE count > 4 /\ count # 8
  <2>1. Root(count) \in 0..count /\ (Root(count) + 1) * (Root(count) + 1) > count
    BY RootIs
  <2>2. Root(count) # 0
    BY <1>3, <2>1
  <2>3. t \in Positive /\ t <= count
    BY <1>3, <2>1, <2>2 DEF Positive
  <2> HIDE DEF t
  <2> DEFINE d == count \div t
  <2>4. d \in Nat /\ count % t \in 0..(t - 1) /\ count % t = count - t * d
    BY <2>3, Division
  <2> HIDE DEF d
  <2>5. t \in Nat /\ t * d = d * t /\ d * t \in Nat
    BY <2>3, <2>4 DEF Positive
  <2>6. d # 0
    BY <2>3, <2>4, <2>5 DEF Positive
  <2>7. d \in Positive /\ d * t <= count /\ count - d * t < t
    BY <2>4, <2>5, <2>6 DEF Positive
  <2>8. FromDeviceCount(count) = Sizes(d, t, 1)
    BY <1>3 DEF FromDeviceCount, t, d
  <2>9. QED
    BY <2>3, <2>7, <2>8
<1>4. QED
  BY <1>1, <1>2, <1>3

LEMMA PlanDevicesFits == ASSUME PlanDevices PROVE PlanFitsDevices'
<1>1. PICK count \in 1..MaxDevices :
        made' = LET config == FromDeviceCount(count)
                    shape == ShapeOf(config)
                IN  [call |-> "plan", count |-> count, config |-> config, shape |-> shape,
                     got |-> CreateDeviceMesh(shape, count, -1)]
  BY DEF PlanDevices, Calls
<1>2. count \in Nat /\ count > 0
  BY MeshesAssumption
<1>3. PICK d \in Positive, t \in Positive :
        /\ FromDeviceCount(count) = Sizes(d, t, 1)
        /\ d * t <= count /\ count - d * t < t
  BY <1>2, PlanIs
<1> DEFINE config == Sizes(d, t, 1)
           shape == ShapeOf(config)
<1>4. config.data = d /\ config.tensor = t /\ config.pipeline = 1
  BY DEF Sizes
<1>5. shape \in Seq(Axes) /\ Product(shape) = d * t * 1 /\ Product(shape) \in Nat
  <2>1. 1 \in Positive
    BY DEF Positive
  <2>2. QED
    BY <2>1, ShapeIs
<1>6. d * t \in Nat /\ d * t * 1 = d * t
  BY DEF Positive
<1>7. CreateDeviceMesh(shape, count, -1) # Refused
  <2> HIDE DEF shape
  <2>1. ~(count < Product(shape))
    BY <1>2, <1>3, <1>5, <1>6
  <2>2. QED
    BY <1>2, <1>5, <2>1, MeshIs
<1>8. count - Product(shape) \in 0..(t - 1)
  <2> HIDE DEF shape
  <2>1. t \in Nat
    BY DEF Positive
  <2>2. QED
    BY <1>2, <1>3, <1>5, <1>6, <2>1
<1> HIDE DEF config, shape
<1>9. /\ made'.call = "plan" /\ made'.count = count /\ made'.config = config /\ made'.shape = shape
      /\ made'.got = CreateDeviceMesh(shape, count, -1)
  BY <1>1, <1>3 DEF config, shape
<1>10. QED
  BY <1>4, <1>5, <1>7, <1>8, <1>9 DEF PlanFitsDevices, Made, IsValid

LEMMA PlanByHandFits == ASSUME PlanByHand PROVE PlanFitsDevices'
<1>1. PICK count \in 1..3, d \in 1..3, t \in 1..3, p \in 1..3, types \in {-1, 1, 2} :
        made' = LET config == Sizes(d, t, p)
                    shape == ShapeOf(config)
                IN  [call |-> "byhand", count |-> 3 * count, config |-> config, shape |-> shape,
                     types |-> types, got |-> CreateDeviceMesh(shape, 3 * count, types)]
  BY DEF PlanByHand, Calls
<1> DEFINE config == Sizes(d, t, p)
           shape == ShapeOf(config)
           got == CreateDeviceMesh(shape, 3 * count, types)
<1>2. d \in Positive /\ t \in Positive /\ p \in Positive /\ 3 * count \in Nat /\ types \in Int
  BY DEF Positive
<1>3. shape \in Seq(Axes) /\ Product(shape) = d * t * p /\ Product(shape) \in Nat
  BY <1>2, ShapeIs
<1>4. config.data = d /\ config.tensor = t /\ config.pipeline = p
  BY DEF Sizes
<1> HIDE DEF config, shape
<1>5. got = Refused <=> (types # -1 /\ types # Len(shape)) \/ 3 * count < Product(shape)
  BY <1>2, <1>3, MeshIs
<1>6. 3 * count < Product(shape) <=> Product(shape) > 3 * count
  BY <1>2, <1>3
<1> HIDE DEF got
<1>7. /\ made'.call = "byhand" /\ made'.count = 3 * count /\ made'.config = config
      /\ made'.shape = shape /\ made'.types = types /\ made'.got = got
  BY <1>1 DEF config, shape, got
<1>8. QED
  BY <1>3, <1>4, <1>5, <1>6, <1>7 DEF PlanFitsDevices, Made, IsValid

\* A ready-made mesh with one or two axes.
LEMMA ReadyMade ==
    ASSUME NEW shape \in Seq(Axes), NEW count \in Nat, Product(shape) = count
    PROVE  LET got == CreateDeviceMesh(shape, count, -1)
           IN  got.devices = 1..count /\ Cardinality(got.devices) = count
<1>1. ~(count < Product(shape))
  OBVIOUS
<1>2. CreateDeviceMesh(shape, count, -1).devices = 1..count
  BY <1>1, MeshIs
<1>3. Cardinality(1..count) = count
  BY FS_Interval
<1>4. QED
  BY <1>2, <1>3

LEMMA MakeMeshFits == ASSUME MakeMesh PROVE PlanFitsDevices'
<1>1. PICK visible \in 1..3, data \in 1..3, model \in 1..3 :
        \/ made' = [call |-> "mesh", count |-> visible, asked |-> data, got |-> DataMesh(data, visible)]
        \/ made' = [call |-> "mesh", count |-> visible, asked |-> model, got |-> ModelMesh(model, visible)]
        \/ made' = [call |-> "mesh", count |-> visible, asked |-> data * model,
                    got |-> HybridMesh(data, model, visible)]
  BY DEF MakeMesh, Calls
<1> DEFINE Fits(got, asked) ==
             got # Refused => got.devices \subseteq 1..visible /\ Cardinality(got.devices) <= asked
<1>2. visible \in Nat /\ data \in Nat /\ model \in Nat /\ data * model \in Nat
  OBVIOUS
<1>3. Fits(DataMesh(data, visible), data)
  <2> DEFINE taken == IF data < visible THEN data ELSE visible
             x == [name |-> "data", size |-> taken]
  <2>1. taken \in Nat /\ taken <= data /\ taken <= visible
    BY <1>2
  <2>2. x \in Axes /\ x.size = taken
    BY <2>1 DEF Axes
  <2>3. DataMesh(data, visible) = CreateDeviceMesh(<<x>>, taken, -1)
    BY DEF DataMesh
  <2> HIDE DEF x, taken
  <2>4. <<x>> \in Seq(Axes) /\ Product(<<x>>) = taken
    BY <2>2, ProductsOf
  <2>5. DataMesh(data, visible).devices = 1..taken /\ Cardinality(DataMesh(data, visible).devices) = taken
    BY <2>1, <2>3, <2>4, ReadyMade
  <2>6. 1..taken \subseteq 1..visible
    BY <1>2, <2>1
  <2>7. QED
    BY <2>1, <2>5, <2>6
<1>4. Fits(ModelMesh(model, visible), model)
  <2> DEFINE x == [name |-> "model", size |-> model]
  <2> SUFFICES ASSUME ModelMesh(model, visible) # Refused
               PROVE  /\ ModelMesh(model, visible).devices \subseteq 1..visible
                      /\ Cardinality(ModelMesh(model, visible).devices) <= model
    OBVIOUS
  <2>1. ModelMesh(model, visible) = CreateDeviceMesh(<<x>>, model, -1) /\ ~(visible < model)
    BY DEF ModelMesh
  <2>2. x \in Axes /\ x.size = model
    BY <1>2 DEF Axes
  <2> HIDE DEF x
  <2>3. <<x>> \in Seq(Axes) /\ Product(<<x>>) = model
    BY <2>2, ProductsOf
  <2>4. ModelMesh(model, visible).devices = 1..model /\ Cardinality(ModelMesh(model, visible).devices) = model
    BY <1>2, <2>1, <2>3, ReadyMade
  <2>5. 1..model \subseteq 1..visible
    BY <1>2, <2>1
  <2>6. QED
    BY <1>2, <2>4, <2>5
<1>5. Fits(HybridMesh(data, model, visible), data * model)
  <2> DEFINE x == [name |-> "data", size |-> data]
             y == [name |-> "model", size |-> model]
             got == HybridMesh(data, model, visible)
             asked == data * model
  <2> SUFFICES ASSUME got # Refused
               PROVE  got.devices \subseteq 1..visible /\ Cardinality(got.devices) <= asked
    OBVIOUS
  <2>1. got = CreateDeviceMesh(<<x, y>>, asked, -1) /\ ~(visible < asked)
    BY DEF HybridMesh
  <2>2. x \in Axes /\ y \in Axes /\ x.size = data /\ y.size = model
    BY <1>2 DEF Axes
  <2> HIDE DEF x, y, got
  <2>3. <<x, y>> \in Seq(Axes) /\ Product(<<x, y>>) = asked
    BY <2>2, ProductsOf
  <2>4. asked \in Nat
    BY <1>2
  <2> HIDE DEF asked
  <2>5. got.devices = 1..asked /\ Cardinality(got.devices) = asked
    BY <2>1, <2>3, <2>4, ReadyMade
  <2>6. 1..asked \subseteq 1..visible
    BY <1>2, <2>1, <2>4
  <2>7. QED
    BY <2>4, <2>5, <2>6
<1>6. made'.call = "mesh" /\ made'.count = visible /\ Fits(made'.got, made'.asked)
  BY <1>1, <1>3, <1>4, <1>5
<1>7. QED
  BY <1>6 DEF PlanFitsDevices, Made

\* Over its first stages a pipeline's assignment adds up to a quotient each, and one
\* more for each of those that take what is over.
LEMMA AssignedSoFar ==
    ASSUME NEW layers \in Nat, NEW stages \in Positive, NEW n \in 0..stages
    PROVE  SumFunctionOnSet(AssignLayers(layers, stages), 1..n) =
             n * (layers \div stages) + (IF n <= layers % stages THEN n ELSE layers % stages)
<1> DEFINE got == AssignLayers(layers, stages)
           q == layers \div stages
           r == layers % stages
           Total(m) == m * q + (IF m <= r THEN m ELSE r)
           T == {m \in 0..stages : SumFunctionOnSet(got, 1..m) # Total(m)}
<1>1. stages \in Nat /\ q \in Nat /\ r \in Nat
  <2>1. q \in Nat /\ r \in 0..(stages - 1) /\ stages \in Nat
    BY Division DEF Positive
  <2>2. QED
    BY <2>1
<1>2. \A i \in 1..stages : got[i] = q + IF i <= r THEN 1 ELSE 0
  BY DEF AssignLayers
<1> HIDE DEF got, q, r
<1> SUFFICES ASSUME T # {} PROVE FALSE
  BY DEF got, q, r
<1>3. PICK m \in T : \A k \in T : m <= k
  <2>1. \A k \in T : k \in Nat
    BY <1>1
  <2> HIDE DEF T
  <2>2. T \subseteq Nat
    BY <2>1
  <2>3. QED
    BY <2>2, LeastNatural
<1>4. m \in Nat /\ m <= stages /\ SumFunctionOnSet(got, 1..m) # Total(m)
  BY <1>1, <1>3
<1>5. CASE m = 0
  <2>1. 1..m = {}
    BY <1>5
  <2>2. SumFunctionOnSet(got, 1..m) = 0
    BY <2>1, SumOfNone
  <2>3. Total(m) = 0
    BY <1>1, <1>5
  <2>4. QED
    BY <1>4, <2>2, <2>3
<1>6. CASE m # 0
  <2> DEFINE k == m - 1
  <2>1. k \in Nat /\ k + 1 = m /\ k \in 0..stages /\ ~(m <= k)
    BY <1>1, <1>4, <1>6
  <2>2. k \notin T
    BY <1>3, <2>1
  <2>3. SumFunctionOnSet(got, 1..k) = Total(k)
    BY <2>1, <2>2
  <2>4. IntegerOn(got, 1..m)
    <3> SUFFICES ASSUME NEW i \in 1..m PROVE got[i] \in Int
      BY DEF IntegerOn
    <3>1. i \in 1..stages
      BY <1>1, <1>4
    <3>2. QED
      BY <1>1, <1>2, <3>1
  <2>5. (1..m) \ {m} = 1..k /\ m \in 1..m /\ IsFiniteSet(1..m) /\ m \in 1..stages
    <3>1. \A i \in 1..m : i # m <=> i \in 1..k
      BY <1>1, <1>4, <2>1
    <3>2. \A i \in 1..k : i \in 1..m
      BY <1>1, <1>4, <2>1
    <3>3. IsFiniteSet(1..m)
      BY FS_Interval
    <3>4. m \in 1..m /\ m \in 1..stages
      BY <1>1, <1>4, <1>6
    <3>5. QED
      BY <3>1, <3>2, <3>3, <3>4
  <2>6. SumFunctionOnSet(got, 1..m) = got[m] + SumFunctionOnSet(got, 1..k)
    BY <2>4, <2>5, SumWithout
  <2>7. got[m] = q + IF m <= r THEN 1 ELSE 0
    BY <1>2, <2>5
  <2>8. Total(m) = q + (IF m <= r THEN 1 ELSE 0) + Total(k)
    <3>1. m * q = q + k * q /\ k * q \in Nat
      BY <1>1, <2>1
    <3>2. QED
      BY <1>1, <2>1, <3>1
  <2>9. QED
    BY <1>1, <1>4, <2>1, <2>3, <2>6, <2>7, <2>8
<1>7. QED
  BY <1>5, <1>6

LEMMA PipelineFits == ASSUME Pipeline PROVE PlanFitsDevices'
<1>1. PICK layers \in 0..MaxLayers, stages \in 1..MaxLayers :
        made' = [call |-> "pipeline", layers |-> layers, stages |-> stages,
                 got |-> AssignLayers(layers, stages)]
  BY DEF Pipeline, Calls
<1> DEFINE got == AssignLayers(layers, stages)
           q == layers \div stages
           r == layers % stages
<1>2. layers \in Nat /\ stages \in Positive /\ stages \in Nat
  BY MeshesAssumption DEF Positive
<1>3. q \in Nat /\ r \in 0..(stages - 1) /\ r = layers - stages * q
  BY <1>2, Division
<1>4. DOMAIN got = 1..stages /\ \A i \in 1..stages : got[i] = q + IF i <= r THEN 1 ELSE 0
  BY DEF AssignLayers
<1>5. SumFunction(got) = layers
  <2>1. SumFunctionOnSet(got, 1..stages) = stages * q + (IF stages <= r THEN stages ELSE r)
    BY <1>2, AssignedSoFar
  <2>2. SumFunction(got) = SumFunctionOnSet(got, 1..stages)
    BY <1>4 DEF SumFunction
  <2> HIDE DEF got, q, r
  <2>3. ~(stages <= r) /\ stages * q \in Nat /\ r \in Nat
    BY <1>2, <1>3
  <2>4. QED
    BY <1>2, <1>3, <2>1, <2>2, <2>3
<1> HIDE DEF q, r
<1>6. \A i, j \in DOMAIN got : i <= j => got[i] - got[j] \in {0, 1}
  <2> HIDE DEF got
  <2> SUFFICES ASSUME NEW i \in 1..stages, NEW j \in 1..stages, i <= j PROVE got[i] - got[j] \in {0, 1}
    BY <1>4
  <2>1. i \in Nat /\ j \in Nat /\ r \in Nat
    BY <1>2, <1>3
  <2>2. CASE j <= r
    <3>1. i <= r
      BY <2>1, <2>2
    <3>2. got[i] = q + 1 /\ got[j] = q + 1
      BY <1>4, <2>2, <3>1
    <3>3. QED
      BY <1>3, <3>2
  <2>3. CASE ~(j <= r)
    <3>1. got[j] = q /\ (got[i] = q + 1 \/ got[i] = q)
      BY <1>3, <1>4, <2>3
    <3>2. QED
      BY <1>3, <3>1
  <2>4. QED
    BY <2>2, <2>3
<1>7. Forward(stages) = [i \in DOMAIN Backward(stages) |-> Reverse(Backward(stages)[i])]
  <2>1. ASSUME NEW i \in 1..(stages - 1) PROVE Reverse(<<i, i - 1>>) = <<i - 1, i>>
    <3> DEFINE s == <<i, i - 1>>
    <3>1. Len(s) = 2 /\ s[1] = i /\ s[2] = i - 1
      OBVIOUS
    <3> HIDE DEF s
    <3>2. Reverse(s) = [k \in 1..2 |-> s[(2 - k) + 1]]
      BY <3>1 DEF Reverse
    <3>3. Reverse(s)[1] = i - 1 /\ Reverse(s)[2] = i
      BY <3>1, <3>2
    <3>4. Reverse(s) \in Seq({i, i - 1}) /\ Len(Reverse(s)) = 2
      <4>1. \A k \in 1..2 : s[(2 - k) + 1] \in {i, i - 1}
        <5> TAKE k \in 1..2
        <5>1. k = 1 \/ k = 2
          OBVIOUS
        <5>2. QED
          BY <3>1, <5>1
      <4>2. Reverse(s) \in [1..2 -> {i, i - 1}]
        BY <3>2, <4>1
      <4>3. QED
        BY <4>2, SequenceOf
    <3>5. QED
      BY <3>3, <3>4, Two DEF s
  <2>2. DOMAIN Backward(stages) = 1..(stages - 1)
        /\ \A i \in 1..(stages - 1) : Backward(stages)[i] = <<i, i - 1>>
    BY DEF Backward
  <2>3. QED
    BY <2>1, <2>2 DEF Forward
<1> HIDE DEF got
<1>8. /\ made'.call = "pipeline" /\ made'.layers = layers /\ made'.stages = stages
      /\ made'.got = got
  BY <1>1 DEF got
<1>9. QED
  BY <1>5, <1>6, <1>7, <1>8 DEF PlanFitsDevices, Made

\* A larger batch is never less advisable, and least of all with its warnings off.
LEMMA LargerIsNoWorse ==
    ASSUME NEW hardware \in DOMAIN Advice, NEW size \in Nat, NEW larger \in Nat, size <= larger,
           NEW warn \in BOOLEAN, NEW warns \in {warn, FALSE}
    PROVE  ValidateBatchSize(hardware, size, warn) <= ValidateBatchSize(hardware, larger, warns)
<1> DEFINE a == Advice[hardware][1]
           b == Advice[hardware][2]
           c == Advice[hardware][3]
<1>1. a \in Nat /\ b \in Nat /\ c \in Nat /\ a <= b /\ b <= c
  <2>1. hardware \in {"tpu_v5e", "tpu_v5p", "tpu_v4", "h100", "a100", "v100", "cpu", "unknown"}
    BY DEF Advice
  <2>2. QED
    BY <2>1 DEF Advice
<1>2. \A n \in Nat, w \in BOOLEAN :
        ValidateBatchSize(hardware, n, w) =
          IF n < a THEN 0 ELSE IF n < b /\ w THEN 1 ELSE IF n >= c THEN 3 ELSE 2
  BY DEF ValidateBatchSize
<1> HIDE DEF a, b, c
<1>3. ValidateBatchSize(hardware, size, warn) =
        IF size < a THEN 0 ELSE IF size < b /\ warn THEN 1 ELSE IF size >= c THEN 3 ELSE 2
  BY <1>2
<1>4. ValidateBatchSize(hardware, larger, warns) =
        IF larger < a THEN 0 ELSE IF larger < b /\ warns THEN 1 ELSE IF larger >= c THEN 3 ELSE 2
  BY <1>2
<1>5. (larger < a => size < a) /\ (larger < b /\ warns => size < b /\ warn) /\ (size >= c => larger >= c)
  <2>1. warns => warn
    BY Zenon
  <2>2. (larger < a => size < a) /\ (larger < b => size < b) /\ (size >= c => larger >= c)
    BY <1>1
  <2>3. QED
    BY <2>1, <2>2
<1>6. QED
  BY <1>1, <1>3, <1>4, <1>5

LEMMA AdviseFits == ASSUME Advise PROVE PlanFitsDevices'
<1>1. PICK platform \in {"tpu", "gpu", "cuda", "cpu", "rocm"}, warn \in BOOLEAN,
           says \in SUBSET {"v5e", "v5p", "h100", "v100"}, size \in {32 * i : i \in 0..16} :
        made' = [call |-> "advise", warn |-> warn, size |-> size,
                 hardware |-> HardwareOf(platform, says),
                 got |-> ValidateBatchSize(HardwareOf(platform, says), size, warn)]
  BY DEF Advise, Calls
<1> DEFINE hardware == HardwareOf(platform, says)
<1>2. hardware \in DOMAIN Advice
  BY DEF HardwareOf, Advice
<1>3. size \in Nat
  OBVIOUS
<1> HIDE DEF hardware
<1>4. \A larger \in {size, size + 1, 2 * size}, warns \in {warn, FALSE} :
        ValidateBatchSize(hardware, size, warn) <= ValidateBatchSize(hardware, larger, warns)
  <2> TAKE larger \in {size, size + 1, 2 * size}, warns \in {warn, FALSE}
  <2>1. larger \in Nat /\ size <= larger
    BY <1>3
  <2>2. QED
    BY <1>2, <1>3, <2>1, LargerIsNoWorse
<1>5. /\ made'.call = "advise" /\ made'.warn = warn /\ made'.size = size
      /\ made'.hardware = hardware /\ made'.got = ValidateBatchSize(hardware, size, warn)
  BY <1>1 DEF hardware
<1>6. QED
  BY <1>4, <1>5 DEF PlanFitsDevices, Made

\* Which call an action is.
LEMMA OtherCalls ==
    /\ PlanDevices => made'.call = "plan"
    /\ PlanByHand => made'.call = "byhand"
    /\ MakeMesh => made'.call = "mesh"
    /\ Pipeline => made'.call = "pipeline"
    /\ CombineSpecs => made'.call = "combine"
    /\ ApplySharding => made'.call = "apply"
    /\ LookUpNames => made'.call = "names"
    /\ Place => made'.call = "place"
    /\ ShardBatchDim => made'.call = "shard"
    /\ Reduce => made'.call = "reduce"
    /\ Advise => made'.call = "advise"
<1>1. PlanDevices => made'.call = "plan"
  BY DEF PlanDevices, Calls
<1>2. PlanByHand => made'.call = "byhand"
  BY DEF PlanByHand, Calls
<1>3. MakeMesh => made'.call = "mesh"
  BY DEF MakeMesh, Calls
<1>4. Pipeline => made'.call = "pipeline"
  BY DEF Pipeline, Calls
<1>5. CombineSpecs => made'.call = "combine"
  BY DEF CombineSpecs, Calls
<1>6. ApplySharding => made'.call = "apply"
  BY DEF ApplySharding, Calls
<1>7. LookUpNames => made'.call = "names"
  BY DEF LookUpNames, Calls
<1>8. Place => made'.call = "place"
  BY DEF Place, Calls
<1>9. ShardBatchDim => made'.call = "shard"
  BY DEF ShardBatchDim, Calls
<1>10. Reduce => made'.call = "reduce"
  BY DEF Reduce, Calls
<1>11. Advise => made'.call = "advise"
  BY DEF Advise, Calls
<1>12. QED
  BY <1>1, <1>2, <1>3, <1>4, <1>5, <1>6, <1>7, <1>8, <1>9, <1>10, <1>11

\* The other calls are not about plans.
LEMMA OthersFit ==
    ASSUME CombineSpecs \/ ApplySharding \/ LookUpNames \/ Place \/ ShardBatchDim \/ Reduce
    PROVE  PlanFitsDevices'
<1>1. made'.call \in {"combine", "apply", "names", "place", "shard", "reduce"}
  BY OtherCalls
<1>2. QED
  BY <1>1 DEF PlanFitsDevices, Made

\* A plan fits the devices it is for, a mesh is no larger than asked, a pipeline's
\* layers are all assigned, and advice only improves with size (from_device_count,
\* create_device_mesh, assign_layers_to_stages, validate_batch_size).
THEOREM PlansFitDevices == MeshSpec => []PlanFitsDevices
<1>1. MeshInit => PlanFitsDevices
  BY DEF MeshInit, PlanFitsDevices, Made
<1>2. PlanFitsDevices /\ [MeshNext]_meshVars => PlanFitsDevices'
  <2>1. CASE UNCHANGED meshVars
    BY <2>1 DEF meshVars, PlanFitsDevices, Made, IsValid
  <2>2. CASE MeshNext
    BY <2>2, PlanDevicesFits, PlanByHandFits, MakeMeshFits, PipelineFits, AdviseFits, OthersFit
    DEF MeshNext
  <2>3. QED
    BY <2>1, <2>2
<1>3. QED
  BY <1>1, <1>2, PTL DEF MeshSpec

-----------------------------------------------------------------------------
(* Batches and metrics.                                                    *)

LEMMA AtMostOne ==
    ASSUME NEW S, \A x, y \in S : x = y
    PROVE  Cardinality(S) <= 1
<1>1. CASE S = {}
  BY <1>1, FS_EmptySet
<1>2. CASE S # {}
  <2>1. PICK x \in S : TRUE
    BY <1>2
  <2>2. S = {x}
    BY <2>1
  <2>3. QED
    BY <2>2, FS_Singleton
<1>3. QED
  BY <1>1, <1>2

Below(i, A) == {j \in A : j < i}
Rank(i, A) == Cardinality(Below(i, A))
Listed(A) == [k \in 1..Cardinality(A) |-> CHOOSE i \in A : Rank(i, A) = k - 1]

\* A later element has more below it.
LEMMA RankGrows ==
    ASSUME NEW n \in Nat, NEW A \in SUBSET (1..n)
    PROVE  /\ IsFiniteSet(A) /\ Cardinality(A) \in Nat
           /\ \A i \in A : Rank(i, A) \in Nat /\ Rank(i, A) + 1 <= Cardinality(A)
           /\ \A i, k \in A : i < k => Rank(i, A) < Rank(k, A)
<1>1. IsFiniteSet(A) /\ Cardinality(A) \in Nat
  <2>1. IsFiniteSet(1..n)
    BY FS_Interval
  <2>2. QED
    BY <2>1, FS_Subset, FS_CardinalityType
<1>2. \A k \in 1..n : IsFiniteSet(Below(k, A)) /\ Rank(k, A) \in Nat
  <2> TAKE k \in 1..n
  <2>1. Below(k, A) \in SUBSET A
    BY DEF Below
  <2>2. QED
    BY <1>1, <2>1, FS_Subset, FS_CardinalityType DEF Rank
<1>3. ASSUME NEW i \in A PROVE Rank(i, A) + 1 <= Cardinality(A)
  <2>1. i \in 1..n /\ i \notin Below(i, A) /\ Below(i, A) \union {i} \in SUBSET A
    BY DEF Below
  <2>2. Cardinality(Below(i, A) \union {i}) = Rank(i, A) + 1
    BY <1>2, <2>1, FS_AddElement DEF Rank
  <2>3. QED
    BY <1>1, <2>1, <2>2, FS_Subset
<1>4. ASSUME NEW i \in A, NEW k \in A, i < k PROVE Rank(i, A) < Rank(k, A)
  <2>1. i \in 1..n /\ k \in 1..n
    OBVIOUS
  <2>2. i \notin Below(i, A) /\ Below(i, A) \union {i} \in SUBSET Below(k, A)
    <3>1. \A j \in A : j \in Nat
      OBVIOUS
    <3>2. \A j \in A : j < i => j < k
      BY <1>4, <2>1, <3>1
    <3>3. ~(i < i)
      BY <2>1
    <3>4. QED
      BY <1>4, <3>2, <3>3 DEF Below
  <2>3. Cardinality(Below(i, A) \union {i}) = Rank(i, A) + 1
    BY <1>2, <2>1, <2>2, FS_AddElement DEF Rank
  <2>4. Cardinality(Below(i, A) \union {i}) <= Cardinality(Below(k, A))
    BY <1>2, <2>1, <2>2, FS_Subset
  <2>5. QED
    BY <1>2, <2>1, <2>3, <2>4 DEF Rank
<1>5. \A i \in A : i \in 1..n
  OBVIOUS
<1>6. QED
  BY <1>1, <1>2, <1>3, <1>4, <1>5

\* The elements in order: every position has one, and every element a position.
LEMMA ListedAll ==
    ASSUME NEW n \in Nat, NEW A \in SUBSET (1..n)
    PROVE  /\ \A k \in 1..Cardinality(A) : Listed(A)[k] \in A
           /\ \A i \in A : \E k \in 1..Cardinality(A) : Listed(A)[k] = i
<1>1. /\ IsFiniteSet(A) /\ Cardinality(A) \in Nat
      /\ \A i \in A : Rank(i, A) \in Nat /\ Rank(i, A) + 1 <= Cardinality(A)
      /\ \A i, k \in A : i < k => Rank(i, A) < Rank(k, A)
  BY RankGrows
<1>2. \A i, k \in A : Rank(i, A) = Rank(k, A) => i = k
  <2> SUFFICES ASSUME NEW i \in A, NEW k \in A, Rank(i, A) = Rank(k, A) PROVE i = k
    OBVIOUS
  <2>1. i \in Nat /\ k \in Nat
    OBVIOUS
  <2>2. ~(i < k) /\ ~(k < i)
    BY <1>1
  <2>3. QED
    BY <2>1, <2>2
<1> DEFINE N == 1..Cardinality(A)
           f == [i \in A |-> Rank(i, A) + 1]
<1>3. \A i \in A : Rank(i, A) + 1 \in N
  BY <1>1
<1>4. f \in Injection(A, N)
  <2>1. f \in [A -> N]
    BY <1>3
  <2>2. \A i, k \in A : f[i] = f[k] => i = k
    BY <1>1, <1>2
  <2>3. QED
    BY <2>1, <2>2 DEF Injection, IsInjective
<1>5. IsFiniteSet(N) /\ Cardinality(N) = Cardinality(A)
  BY <1>1, FS_Interval
<1>6. f \in Surjection(A, N)
  <2> HIDE DEF f, N
  <2>1. QED
    BY <1>4, <1>5, FS_Injection
<1>7. \A k \in N : \E i \in A : Rank(i, A) = k - 1
  <2>1. \A k \in N : \E i \in A : f[i] = k
    <3> HIDE DEF f, N
    <3>1. QED
      BY <1>6 DEF Surjection
  <2> TAKE k \in N
  <2>2. PICK i \in A : f[i] = k
    BY <2>1
  <2>3. Rank(i, A) + 1 = k /\ Rank(i, A) \in Nat
    BY <1>1, <2>2
  <2>4. QED
    BY <2>3
<1>8. \A k \in N : Listed(A)[k] \in A /\ Rank(Listed(A)[k], A) = k - 1
  BY <1>7 DEF Listed
<1>9. \A i \in A : Listed(A)[Rank(i, A) + 1] = i
  <2> TAKE i \in A
  <2> DEFINE k == Rank(i, A) + 1
  <2>1. k \in N /\ k - 1 = Rank(i, A)
    BY <1>1, <1>3
  <2>2. Listed(A)[k] \in A /\ Rank(Listed(A)[k], A) = Rank(i, A)
    BY <1>8, <2>1
  <2>3. QED
    BY <1>2, <2>2
<1>10. QED
  BY <1>3, <1>8, <1>9

\* A batch is refused exactly when an array has too few dimensions, and is otherwise
\* placed leaf by leaf.
IsPlaced(n, leaves, prefix, got) ==
    LET arrays == {i \in 1..n : IsArray(leaves[i])}
        asked(i) == prefix[leaves[i].under]
    IN  IF \E i \in arrays : leaves[i].ndim < asked(i) THEN got = Refused
        ELSE got = [i \in 1..n |-> IF i \in arrays THEN <<"on", asked(i)>> ELSE <<"as it was">>]

LEMMA BatchPlaced ==
    ASSUME NEW n \in Nat, NEW leaves \in [1..n -> Leaves],
           NEW first \in Shardings, NEW second \in Shardings
    PROVE  IsPlaced(n, leaves, <<first, second>>, PlaceBatch(leaves, <<first, second>>))
<1> DEFINE prefix == <<first, second>>
           arrays == {i \in 1..n : IsArray(leaves[i])}
           shardings == LeafShardings(leaves, prefix)
           positions == Listed(arrays)
           asked(i) == prefix[leaves[i].under]
           PlaceOf(i) == CHOOSE k \in DOMAIN positions : positions[k] = i
<1>1. DOMAIN leaves = 1..n /\ \A i \in 1..n : leaves[i] \in Leaves
  OBVIOUS
<1>2. \A i \in 1..n : shardings[i] = asked(i) /\ asked(i) \in Int /\ leaves[i].ndim \in Int
  <2> TAKE i \in 1..n
  <2>1. shardings[i] = asked(i)
    BY <1>1 DEF LeafShardings
  <2>2. leaves[i].under \in {1, 2} /\ leaves[i].ndim \in Int
    BY <1>1 DEF Leaves
  <2>3. first \in Int /\ second \in Int /\ prefix[1] = first /\ prefix[2] = second
    BY DEF Shardings
  <2>4. QED
    BY <2>1, <2>2, <2>3
<1>3. arrays \in SUBSET (1..n)
  OBVIOUS
<1>4. DOMAIN positions = 1..Cardinality(arrays)
  BY DEF Listed
<1> HIDE DEF prefix, arrays, shardings
<1>5. /\ \A k \in DOMAIN positions : positions[k] \in arrays
      /\ \A i \in arrays : \E k \in DOMAIN positions : positions[k] = i
  BY <1>3, <1>4, ListedAll
<1>6. PlaceBatch(leaves, prefix) =
        IF \E k \in DOMAIN positions : ~Holds(leaves[positions[k]], shardings[positions[k]])
        THEN Refused
        ELSE [i \in 1..n |-> IF IsArray(leaves[i])
                             THEN [k \in DOMAIN positions |-> <<"on", shardings[positions[k]]>>][PlaceOf(i)]
                             ELSE <<"as it was">>]
  BY <1>1 DEF PlaceBatch, Listed, Rank, Below, arrays, shardings
<1> HIDE DEF positions
<1>7. (\E k \in DOMAIN positions : ~Holds(leaves[positions[k]], shardings[positions[k]]))
        <=> \E i \in arrays : leaves[i].ndim < asked(i)
  <2>1. \A i \in arrays : ~Holds(leaves[i], shardings[i]) <=> leaves[i].ndim < asked(i)
    <3> TAKE i \in arrays
    <3>1. i \in 1..n
      BY <1>3
    <3>2. QED
      BY <1>2, <3>1 DEF Holds
  <2>2. QED
    BY <1>5, <2>1
<1>8. \A i \in arrays : [k \in DOMAIN positions |-> <<"on", shardings[positions[k]]>>][PlaceOf(i)] = <<"on", asked(i)>>
  <2> TAKE i \in arrays
  <2>1. PlaceOf(i) \in DOMAIN positions /\ positions[PlaceOf(i)] = i
    BY <1>5
  <2>2. shardings[i] = asked(i)
    BY <1>2, <1>3
  <2>3. QED
    BY <2>1, <2>2
<1>9. \A i \in 1..n : i \in arrays <=> IsArray(leaves[i])
  BY DEF arrays
<1>10. CASE \E i \in arrays : leaves[i].ndim < asked(i)
  BY <1>6, <1>7, <1>10 DEF prefix, arrays, IsPlaced
<1>11. CASE ~\E i \in arrays : leaves[i].ndim < asked(i)
  <2>1. PlaceBatch(leaves, prefix) =
          [i \in 1..n |-> IF i \in arrays THEN <<"on", asked(i)>> ELSE <<"as it was">>]
    <3> DEFINE there == [k \in DOMAIN positions |-> <<"on", shardings[positions[k]]>>]
    <3>1. PlaceBatch(leaves, prefix) =
            [i \in 1..n |-> IF IsArray(leaves[i]) THEN there[PlaceOf(i)] ELSE <<"as it was">>]
      BY <1>6, <1>7, <1>11
    <3>2. \A i \in arrays : there[PlaceOf(i)] = <<"on", asked(i)>>
      BY <1>8
    <3> HIDE DEF there, PlaceOf, asked
    <3>3. QED
      BY <1>9, <3>1, <3>2
  <2>2. QED
    BY <1>11, <2>1 DEF prefix, arrays, IsPlaced
<1>12. QED
  BY <1>10, <1>11

LEMMA PlaceAsAsked == ASSUME Place PROVE PlacedAsAsked'
<1>1. PICK leaves \in BoundedSeq(Leaves, MaxTogether), first \in Shardings, second \in Shardings :
        made' = [call |-> "place", leaves |-> leaves, prefix |-> <<first, second>>,
                 got |-> PlaceBatch(leaves, <<first, second>>)]
  BY DEF Place, Calls
<1>2. PICK n \in Nat : leaves \in [1..n -> Leaves]
  BY MeshesAssumption DEF BoundedSeq, SeqOf
<1> DEFINE prefix == <<first, second>>
           got == PlaceBatch(leaves, prefix)
           arrays == {i \in DOMAIN leaves : IsArray(leaves[i])}
           asked(i) == prefix[leaves[i].under]
<1>3. IF \E i \in arrays : leaves[i].ndim < asked(i) THEN got = Refused
      ELSE got = [i \in 1..n |-> IF i \in arrays THEN <<"on", asked(i)>> ELSE <<"as it was">>]
  <2> DEFINE among == {i \in 1..n : IsArray(leaves[i])}
  <2>1. arrays = among
    BY <1>2
  <2>2. IF \E i \in among : leaves[i].ndim < asked(i) THEN got = Refused
        ELSE got = [i \in 1..n |-> IF i \in among THEN <<"on", asked(i)>> ELSE <<"as it was">>]
    <3>1. IsPlaced(n, leaves, prefix, got)
      BY <1>2, BatchPlaced
    <3>2. QED
      BY <3>1 DEF IsPlaced
  <2> HIDE DEF among, arrays, got, asked
  <2>3. QED
    BY <2>1, <2>2
<1>4. DOMAIN leaves = 1..n
  BY <1>2
<1> HIDE DEF got, prefix
<1>5. IF \E i \in arrays : leaves[i].ndim < asked(i) THEN got = Refused
      ELSE \A i \in DOMAIN leaves : got[i] = IF i \in arrays THEN <<"on", asked(i)>> ELSE <<"as it was">>
  BY <1>3, <1>4
<1>6. made'.call = "place" /\ made'.leaves = leaves /\ made'.prefix = prefix /\ made'.got = got
  BY <1>1 DEF got, prefix
<1>7. QED
  BY <1>5, <1>6 DEF PlacedAsAsked, Made

LEMMA ShardAsAsked == ASSUME ShardBatchDim PROVE PlacedAsAsked'
<1>1. PICK leaf \in Leaves, axis \in -2..2 :
        made' = [call |-> "shard", leaf |-> leaf, axis |-> axis, got |-> BatchSpec(leaf, axis)]
  BY DEF ShardBatchDim, Calls
<1> DEFINE got == BatchSpec(leaf, axis)
           at == IF axis < 0 THEN leaf.ndim + axis + 1 ELSE axis + 1
<1>2. leaf.ndim \in 0..2 /\ leaf.under \in {1, 2}
  BY DEF Leaves
<1>3. ASSUME got \notin {Refused, <<"as it was">>}
      PROVE  /\ UsesOnce(got, "data")
             /\ axis = 0 /\ PlaceBatch(<<leaf>>, <<1, 1>>) # Refused => got[1] = "data"
  <2>1. leaf.kind = "jax" /\ got = [i \in 1..leaf.ndim |-> IF i = at THEN "data" ELSE Replicated]
    BY <1>3 DEF BatchSpec
  <2>2. UsesOnce(got, "data")
    <3> DEFINE S == {i \in DOMAIN got : got[i] = "data"}
    <3>1. \A i \in S : i = at
      BY <2>1 DEF Replicated
    <3> HIDE DEF S
    <3>2. QED
      BY <3>1, AtMostOne DEF UsesOnce, S
  <2>3. ASSUME axis = 0, leaf.ndim = 0 PROVE PlaceBatch(<<leaf>>, <<1, 1>>) = Refused
    <3> DEFINE leaves == <<leaf>>
               prefix == <<1, 1>>
               arrays == {i \in 1..1 : IsArray(leaves[i])}
    <3>1. leaves \in [1..1 -> Leaves] /\ leaves[1] = leaf /\ 1 \in Nat /\ 1 \in Shardings
      BY DEF Shardings
    <3>2. prefix[leaf.under] = 1
      BY <1>2
    <3>3. 1 \in arrays /\ leaves[1].ndim < prefix[leaves[1].under]
      BY <2>1, <2>3, <3>1, <3>2 DEF IsArray
    <3> HIDE DEF leaves
    <3>4. PlaceBatch(leaves, prefix) = Refused
      <4>1. IsPlaced(1, leaves, prefix, PlaceBatch(leaves, prefix))
        BY <3>1, BatchPlaced
      <4>2. QED
        BY <3>3, <4>1 DEF IsPlaced
    <3>5. QED
      BY <3>4 DEF leaves
  <2>4. ASSUME axis = 0, leaf.ndim # 0 PROVE got[1] = "data"
    BY <1>2, <2>1, <2>4
  <2>5. QED
    BY <2>2, <2>3, <2>4
<1> HIDE DEF got
<1>4. made'.call = "shard" /\ made'.leaf = leaf /\ made'.axis = axis /\ made'.got = got
  BY <1>1 DEF got
<1>5. QED
  BY <1>3, <1>4 DEF PlacedAsAsked, Made

LEMMA ReduceAsAsked == ASSUME Reduce PROVE PlacedAsAsked'
<1>1. PICK leaves \in BoundedSeq({l \in Leaves : l.under = 1}, 2) :
        \E ops \in [DOMAIN leaves -> {"unset", "mean", "sum", "None", "median"}] :
            made' = [call |-> "reduce", leaves |-> leaves, ops |-> ops, got |-> ReduceCustom(leaves, ops)]
  BY DEF Reduce, Calls
<1>2. PICK ops \in [DOMAIN leaves -> {"unset", "mean", "sum", "None", "median"}] :
        made' = [call |-> "reduce", leaves |-> leaves, ops |-> ops, got |-> ReduceCustom(leaves, ops)]
  BY <1>1
<1>3. ASSUME \A i \in DOMAIN ops : ops[i] \in {"unset", "mean"}
      PROVE  ReduceCustom(leaves, ops) = ReduceMean(leaves)
  <2>1. \A i \in DOMAIN leaves : ops[i] = "unset" \/ ops[i] = "mean"
    BY <1>3
  <2>2. QED
    BY <2>1 DEF ReduceCustom, ReduceMean
<1>4. /\ made'.call = "reduce" /\ made'.leaves = leaves /\ made'.ops = ops
      /\ made'.got = ReduceCustom(leaves, ops)
  BY <1>2
<1>5. QED
  BY <1>3, <1>4 DEF PlacedAsAsked, Made

\* Batches are placed leaf by leaf as asked or not at all, whatever lies between their
\* arrays (place_batch_on_shards, shard_batch_dim, reduce_custom).
THEOREM BatchesPlacedAsAsked == MeshSpec => []PlacedAsAsked
<1>1. MeshInit => PlacedAsAsked
  BY DEF MeshInit, PlacedAsAsked, Made
<1>2. PlacedAsAsked /\ [MeshNext]_meshVars => PlacedAsAsked'
  <2>1. CASE UNCHANGED meshVars
    BY <2>1 DEF meshVars, PlacedAsAsked, Made, UsesOnce
  <2>2. CASE MeshNext
    <3>1. ASSUME PlanDevices \/ PlanByHand \/ MakeMesh \/ Pipeline \/ CombineSpecs \/ ApplySharding
                 \/ LookUpNames \/ Advise
          PROVE  PlacedAsAsked'
      <4>1. made'.call \notin {"place", "shard", "reduce"}
        BY <3>1, OtherCalls
      <4>2. QED
        BY <4>1 DEF PlacedAsAsked, Made
    <3>2. QED
      BY <2>2, <3>1, PlaceAsAsked, ShardAsAsked, ReduceAsAsked DEF MeshNext
  <2>3. QED
    BY <2>1, <2>2
<1>3. QED
  BY <1>1, <1>2, PTL DEF MeshSpec

-----------------------------------------------------------------------------
(* Specs.                                                                  *)

\* One step of MergeAll, over a function of the steps before.
MergeAfter(g, start, specs, k) == IF k = 0 THEN start ELSE Merge(g[k - 1], specs[k])
Merging(g, start, specs, n) == g = [k \in 0..n |-> MergeAfter(g, start, specs, k)]

\* Some function makes those steps up to any one.
LEMMA MergedSoFar ==
    ASSUME NEW start, NEW specs, NEW n \in Nat
    PROVE  \E g : Merging(g, start, specs, n)
<1> DEFINE T == {i \in Nat : ~\E g : g = [k \in 0..i |-> MergeAfter(g, start, specs, k)]}
<1> SUFFICES ASSUME ~\E g : g = [k \in 0..n |-> MergeAfter(g, start, specs, k)] PROVE FALSE
  BY DEF Merging
<1>0. n \in T
  OBVIOUS
<1>1. PICK i \in T : \A j \in T : i <= j
  BY <1>0, LeastNatural
<1>2. CASE i = 0
  <2> DEFINE g == [k \in 0..0 |-> start]
  <2>1. g = [k \in 0..0 |-> MergeAfter(g, start, specs, k)]
    BY DEF MergeAfter
  <2>2. QED
    BY <1>1, <1>2, <2>1
<1>3. CASE i # 0
  <2>1. i - 1 \in Nat /\ i - 1 \notin T
    BY <1>1, <1>3
  <2>2. PICK g : g = [k \in 0..(i - 1) |-> MergeAfter(g, start, specs, k)]
    BY <2>1
  <2> DEFINE h == [k \in 0..i |-> MergeAfter(g, start, specs, k)]
  <2>3. \A k \in 0..(i - 1) : h[k] = g[k]
    BY <2>1, <2>2
  <2>4. \A k \in 0..i : h[k] = MergeAfter(h, start, specs, k)
    <3> TAKE k \in 0..i
    <3>1. k # 0 => k - 1 \in 0..(i - 1)
      BY <2>1
    <3>2. h[k] = MergeAfter(g, start, specs, k)
      OBVIOUS
    <3> HIDE DEF h
    <3>3. QED
      BY <2>3, <3>1, <3>2 DEF MergeAfter
  <2>5. h = [k \in 0..i |-> MergeAfter(h, start, specs, k)]
    BY <2>4
  <2>6. QED
    BY <1>1, <2>5
<1>4. QED
  BY <1>2, <1>3

LEMMA MergeUnfolds ==
    ASSUME NEW T, NEW n \in Nat, NEW specs \in [1..n -> T], NEW start
    PROVE  \E g : Merging(g, start, specs, n) /\ MergeAll(start, specs) = g[n]
<1>1. Len(specs) = n
  BY SequenceOf
<1> DEFINE g == CHOOSE h : h = [k \in 0..n |-> IF k = 0 THEN start ELSE Merge(h[k - 1], specs[k])]
<1>2. MergeAll(start, specs) = g[n]
  BY <1>1 DEF MergeAll
<1>3. \E h : h = [k \in 0..n |-> IF k = 0 THEN start ELSE Merge(h[k - 1], specs[k])]
  <2>1. PICK h : Merging(h, start, specs, n)
    BY MergedSoFar
  <2>2. h = [k \in 0..n |-> IF k = 0 THEN start ELSE Merge(h[k - 1], specs[k])]
    BY <2>1 DEF Merging, MergeAfter
  <2>3. QED
    BY <2>2
<1>4. g = [k \in 0..n |-> IF k = 0 THEN start ELSE Merge(g[k - 1], specs[k])]
  BY <1>3
<1>5. Merging(g, start, specs, n)
  BY <1>4 DEF Merging, MergeAfter
<1>6. QED
  BY <1>2, <1>5

\* The axis a dimension claimed by these gets: one of them, model before fsdp before
\* the others.
Settled(claims, axis) ==
    /\ axis \in IF claims = {} THEN {Replicated} ELSE claims
    /\ "model" \in claims => axis = "model"
    /\ "model" \notin claims /\ "fsdp" \in claims => axis = "fsdp"

ClaimsTo(specs, n, i) == {specs[k][i] : k \in 1..n} \ {Replicated}

\* _resolve_spec_conflict settles one more claim.
LEMMA SettlesOneMore ==
    ASSUME NEW claims, Replicated \notin claims, NEW axis, Settled(claims, axis), NEW new
    PROVE  Settled((claims \union {new}) \ {Replicated},
                   IF new = Replicated THEN axis ELSE ResolveConflict(axis, new))
<1>1. CASE new = Replicated
  <2>1. (claims \union {new}) \ {Replicated} = claims
    BY <1>1
  <2>2. QED
    BY <1>1, <2>1
<1>2. CASE new # Replicated
  <2> DEFINE more == claims \union {new}
  <2>1. (claims \union {new}) \ {Replicated} = more
    BY <1>2
  <2>2. Settled(more, ResolveConflict(axis, new))
    <3>1. CASE claims = {}
      BY <3>1 DEF Settled, ResolveConflict
    <3>2. CASE claims # {}
      <4>1. axis \in claims /\ axis # Replicated
        BY <3>2 DEF Settled
      <4>2. ResolveConflict(axis, new) \in {axis, new, "model", "fsdp"}
        BY DEF ResolveConflict
      <4>3. "model" \in more => axis = "model" \/ new = "model"
        BY DEF Settled
      <4>4. "model" \notin more /\ "fsdp" \in more => axis = "fsdp" \/ new = "fsdp"
        BY DEF Settled
      <4>5. CASE "model" \in {axis, new}
        BY <4>1, <4>5 DEF Settled, ResolveConflict
      <4>6. CASE "model" \notin {axis, new} /\ "fsdp" \in {axis, new}
        BY <4>1, <4>3, <4>6 DEF Settled, ResolveConflict
      <4>7. CASE "model" \notin {axis, new} /\ "fsdp" \notin {axis, new}
        BY <4>1, <4>3, <4>4, <4>7 DEF Settled, ResolveConflict
      <4>8. QED
        BY <4>5, <4>6, <4>7
    <3>3. QED
      BY <3>1, <3>2
  <2>3. QED
    BY <1>2, <2>1, <2>2
<1>3. QED
  BY <1>1, <1>2

\* Merging any number of specs settles every dimension.
LEMMA MergeSettles ==
    ASSUME NEW T, NEW n \in Nat, NEW specs \in [1..n -> T], NEW D
    PROVE  LET got == MergeAll([i \in D |-> Replicated], specs)
           IN  got = [i \in D |-> got[i]] /\ \A i \in D : Settled(ClaimsTo(specs, n, i), got[i])
<1> DEFINE start == [i \in D |-> Replicated]
<1>1. PICK g : Merging(g, start, specs, n) /\ MergeAll(start, specs) = g[n]
  BY MergeUnfolds
<1> DEFINE Fine(k) == /\ g[k] = [i \in D |-> g[k][i]]
                      /\ \A i \in D : Settled(ClaimsTo(specs, k, i), g[k][i])
           Bad == {k \in 0..n : ~Fine(k)}
<1>2. SUFFICES ASSUME Bad # {} PROVE FALSE
  <2>1. Bad = {} => Fine(n)
    OBVIOUS
  <2>2. QED
    BY <1>1, <2>1
<1>3. PICK k \in Bad : \A j \in Bad : k <= j
  <2>1. Bad \subseteq Nat
    OBVIOUS
  <2> HIDE DEF Bad
  <2>2. QED
    BY <1>2, <2>1, LeastNatural
<1>4. k \in 0..n /\ ~Fine(k)
  OBVIOUS
<1>5. g[k] = MergeAfter(g, start, specs, k)
  <2> HIDE DEF start, Bad
  <2>1. QED
    BY <1>1, <1>4 DEF Merging
<1>6. CASE k = 0
  <2>1. g[0] = start
    BY <1>5, <1>6 DEF MergeAfter
  <2>2. \A i \in D : ClaimsTo(specs, 0, i) = {}
    BY DEF ClaimsTo
  <2>3. Fine(0)
    BY <2>1, <2>2 DEF Settled
  <2>4. QED
    BY <1>4, <1>6, <2>3
<1>7. CASE k # 0
  <2>1. k - 1 \in 0..n /\ k - 1 \notin Bad /\ k \in 1..n
    <3> HIDE DEF Bad
    <3>1. QED
      BY <1>3, <1>4, <1>7
  <2>2. Fine(k - 1)
    BY <2>1
  <2> DEFINE before == g[k - 1]
  <2>3. g[k] = Merge(before, specs[k])
    BY <1>5, <1>7 DEF MergeAfter
  <2>4. before = [i \in D |-> before[i]] /\ \A i \in D : Settled(ClaimsTo(specs, k - 1, i), before[i])
    BY <2>2
  <2> HIDE DEF before
  <2>5. g[k] = [i \in D |-> IF specs[k][i] = Replicated THEN before[i]
                            ELSE ResolveConflict(before[i], specs[k][i])]
    BY <2>3, <2>4 DEF Merge
  <2>6. \A i \in D : Settled(ClaimsTo(specs, k, i), g[k][i])
    <3> TAKE i \in D
    <3> DEFINE new == specs[k][i]
               claims == ClaimsTo(specs, k - 1, i)
    <3>1. ClaimsTo(specs, k, i) = (claims \union {new}) \ {Replicated}
      <4>1. 1..k = (1..(k - 1)) \union {k}
        BY <2>1
      <4>2. QED
        BY <4>1 DEF ClaimsTo
    <3>2. Replicated \notin claims
      BY DEF ClaimsTo
    <3>3. g[k][i] = IF new = Replicated THEN before[i] ELSE ResolveConflict(before[i], new)
      BY <2>5
    <3> HIDE DEF new, claims
    <3>4. Settled((claims \union {new}) \ {Replicated},
                  IF new = Replicated THEN before[i] ELSE ResolveConflict(before[i], new))
      BY <2>4, <3>2, SettlesOneMore DEF claims
    <3>5. QED
      BY <3>1, <3>3, <3>4
  <2>7. g[k] = [i \in D |-> g[k][i]]
    BY <2>5
  <2>8. QED
    BY <1>4, <2>6, <2>7
<1>8. QED
  BY <1>6, <1>7

\* Starting from the first proposal makes no difference.
LEMMA ResolvedIsMerged ==
    ASSUME NEW T, NEW n \in Nat, n # 0, NEW specs \in [1..n -> T], NEW D,
           NEW first, first = specs[1], first = [i \in D |-> first[i]]
    PROVE  Resolved(specs) = MergeAll([i \in D |-> Replicated], specs)
<1> DEFINE start == [i \in D |-> Replicated]
<1>0. \A s : \E g : Merging(g, s, specs, n) /\ MergeAll(s, specs) = g[n]
  BY MergeUnfolds
<1>1. PICK g : Merging(g, start, specs, n) /\ MergeAll(start, specs) = g[n]
  BY <1>0
<1>2. PICK h : Merging(h, first, specs, n) /\ MergeAll(first, specs) = h[n]
  BY <1>0
<1>3. Resolved(specs) = h[n]
  <2>1. Len(specs) = n /\ Len(<<>>) = 0
    BY SequenceOf
  <2>2. QED
    BY <1>2, <2>1 DEF Resolved
<1>4. g[0] = start /\ h[0] = first
  <2>1. 0 \in 0..n
    OBVIOUS
  <2> HIDE DEF start
  <2>2. QED
    BY <1>1, <1>2, <2>1 DEF Merging, MergeAfter
<1>5. \A k \in 1..n : g[k] = Merge(g[k - 1], specs[k]) /\ h[k] = Merge(h[k - 1], specs[k])
  <2> TAKE k \in 1..n
  <2>1. k \in 0..n /\ k # 0
    OBVIOUS
  <2> HIDE DEF start
  <2>2. QED
    BY <1>1, <1>2, <2>1 DEF Merging, MergeAfter
<1>6. g[1] = h[1]
  <2>1. 1 \in 1..n /\ 1 - 1 = 0
    OBVIOUS
  <2>2. g[1] = Merge(start, first) /\ h[1] = Merge(first, first)
    <3> HIDE DEF start
    <3>1. QED
      BY <1>4, <1>5, <2>1
  <2>3. first = [i \in D |-> first[i]]
    OBVIOUS
  <2>4. Merge(start, first) = [i \in D |-> IF first[i] = Replicated THEN Replicated ELSE first[i]]
    BY DEF Merge, ResolveConflict
  <2>5. DOMAIN first = D
    BY <2>3
  <2>6. Merge(first, first) = [i \in D |-> first[i]]
    BY <2>5 DEF Merge, ResolveConflict
  <2>7. QED
    BY <2>2, <2>4, <2>6
<1> DEFINE Bad == {k \in 1..n : g[k] # h[k]}
<1>7. Bad = {}
  <2> SUFFICES ASSUME Bad # {} PROVE FALSE
    OBVIOUS
  <2>1. PICK k \in Bad : \A j \in Bad : k <= j
    <3>1. Bad \subseteq Nat
      OBVIOUS
    <3> HIDE DEF Bad
    <3>2. QED
      BY <3>1, LeastNatural
  <2>2. k \in 1..n /\ g[k] # h[k] /\ k # 1
    BY <1>6
  <2>3. k - 1 \in 1..n /\ k - 1 \notin Bad
    <3> HIDE DEF Bad
    <3>1. QED
      BY <2>1, <2>2
  <2>4. g[k - 1] = h[k - 1]
    BY <2>3
  <2>5. QED
    BY <1>5, <2>2, <2>4
<1>8. g[n] = h[n]
  BY <1>7
<1>9. QED
  BY <1>1, <1>3, <1>8

SpecsOf(strategies, tensor) == [k \in DOMAIN strategies |-> SpecOf(strategies[k], tensor)]

LEMMA CombinedIs ==
    ASSUME NEW n \in Nat, NEW strategies \in [1..n -> Strategies], NEW tensor
    PROVE  LET got == Combined(strategies, tensor)
           IN  /\ got = [i \in DOMAIN tensor |-> got[i]]
               /\ \A i \in DOMAIN tensor : Settled(ClaimsTo(SpecsOf(strategies, tensor), n, i), got[i])
               /\ n # 0 => Resolved(SpecsOf(strategies, tensor)) = got
<1> DEFINE specs == SpecsOf(strategies, tensor)
           D == DOMAIN tensor
           T == {specs[k] : k \in 1..n}
           start == [i \in D |-> Replicated]
<1>1. Combined(strategies, tensor) = MergeAll(start, specs)
  BY DEF Combined, SpecsOf
<1>2. specs \in [1..n -> T]
  BY DEF SpecsOf
<1>3. n # 0 => specs[1] = [i \in D |-> specs[1][i]]
  <2>1. n # 0 => specs[1] = SpecOf(strategies[1], tensor)
    BY DEF SpecsOf
  <2>2. \A s : SpecOf(s, tensor) = [i \in D |-> SpecOf(s, tensor)[i]]
    BY DEF SpecOf
  <2> HIDE DEF specs, D
  <2>3. QED
    BY <2>1, <2>2
<1> HIDE DEF specs, T, D
<1>4. n # 0 => Resolved(specs) = MergeAll(start, specs)
  BY <1>2, <1>3, ResolvedIsMerged
<1>5. LET got == MergeAll(start, specs)
      IN  got = [i \in D |-> got[i]] /\ \A i \in D : Settled(ClaimsTo(specs, n, i), got[i])
  BY <1>2, MergeSettles
<1> HIDE DEF start
<1>6. QED
  BY <1>1, <1>4, <1>5 DEF specs, D

\* On the three axes with a rank the strategies may come in any order.
LEMMA AnyOrder ==
    ASSUME NEW n \in Nat, NEW strategies \in [1..n -> Strategies], NEW tensor,
           \A k \in 1..n : strategies[k].axis \in {"data", "fsdp", "model"}
    PROVE  Combined(Reverse(strategies), tensor) = Combined(strategies, tensor)
<1> DEFINE back == Reverse(strategies)
           D == DOMAIN tensor
           one == Combined(strategies, tensor)
           other == Combined(back, tensor)
           Claimed(i) == ClaimsTo(SpecsOf(strategies, tensor), n, i)
<1>1. back = [k \in 1..n |-> strategies[n - k + 1]]
  <2>1. Len(strategies) = n
    BY SequenceOf
  <2>2. QED
    BY <2>1 DEF Reverse
<1>2. back \in [1..n -> Strategies]
  BY <1>1
<1>3. \A k \in 1..n : n - k + 1 \in 1..n /\ back[k] = strategies[n - k + 1] /\ strategies[k] = back[n - k + 1]
  <2> TAKE k \in 1..n
  <2>1. n - k + 1 \in 1..n /\ n - (n - k + 1) + 1 = k
    OBVIOUS
  <2> HIDE DEF back
  <2>2. QED
    BY <1>1, <2>1
<1> HIDE DEF back
<1>4. \A i : ClaimsTo(SpecsOf(back, tensor), n, i) = Claimed(i)
  <2> TAKE i
  <2>1. DOMAIN strategies = 1..n /\ DOMAIN back = 1..n
    BY <1>2
  <2> DEFINE at(s, k) == SpecOf(s[k], tensor)[i]
  <2>2. ClaimsTo(SpecsOf(back, tensor), n, i) = {at(back, k) : k \in 1..n} \ {Replicated}
    BY <2>1 DEF ClaimsTo, SpecsOf
  <2>3. Claimed(i) = {at(strategies, k) : k \in 1..n} \ {Replicated}
    BY <2>1 DEF ClaimsTo, SpecsOf
  <2>4. \A k \in 1..n : \E m \in 1..n : at(back, k) = at(strategies, m)
    BY <1>3
  <2>5. \A k \in 1..n : \E m \in 1..n : at(strategies, k) = at(back, m)
    BY <1>3
  <2> HIDE DEF at
  <2>6. {at(back, k) : k \in 1..n} = {at(strategies, k) : k \in 1..n}
    BY <2>4, <2>5
  <2>7. QED
    BY <2>2, <2>3, <2>6
<1>5. /\ one = [i \in D |-> one[i]] /\ other = [i \in D |-> other[i]]
      /\ \A i \in D : Settled(Claimed(i), one[i]) /\ Settled(Claimed(i), other[i])
  BY <1>2, <1>4, CombinedIs
<1>6. \A i \in D : Claimed(i) \subseteq {"data", "fsdp", "model"}
  <2> TAKE i \in D
  <2>1. \A k \in 1..n : SpecsOf(strategies, tensor)[k][i] \in {Replicated, strategies[k].axis}
    BY DEF SpecsOf, SpecOf
  <2>2. QED
    BY <2>1 DEF ClaimsTo
<1> HIDE DEF D, one, other, Claimed
<1>7. \A i \in D : one[i] = other[i]
  BY <1>5, <1>6 DEF Settled
<1>8. QED
  BY <1>5, <1>7 DEF one, other, back

\* A dimension that has an axis was claimed by a strategy with that axis.
LEMMA ClaimedBy ==
    ASSUME NEW n \in Nat, NEW strategies \in [1..n -> Strategies], NEW tensor,
           NEW axis \in MeshAxes, NEW i \in DOMAIN tensor, Combined(strategies, tensor)[i] = axis
    PROVE  \E k \in 1..n : strategies[k].axis = axis /\ Claims(strategies[k], tensor, i)
<1> DEFINE specs == SpecsOf(strategies, tensor)
<1>1. axis # Replicated
  BY MeshesAssumption
<1>2. Settled(ClaimsTo(specs, n, i), axis)
  BY CombinedIs
<1>3. axis \in ClaimsTo(specs, n, i)
  <2> HIDE DEF specs
  <2>1. QED
    BY <1>1, <1>2 DEF Settled
<1>4. PICK k \in 1..n : specs[k][i] = axis
  BY <1>3 DEF ClaimsTo
<1>5. specs[k][i] = IF Claims(strategies[k], tensor, i) THEN strategies[k].axis ELSE Replicated
  BY DEF SpecsOf, SpecOf
<1>6. QED
  BY <1>1, <1>4, <1>5

\* Strategies that may be combined use an axis once for a tensor whose batch comes first.
LEMMA AxesOnce ==
    ASSUME NEW n \in Nat, NEW strategies \in [1..n -> Strategies], Compatible(strategies),
           NEW tensor, IsInjective(tensor), \A i \in DOMAIN tensor : tensor[i] = "batch" => i = 1,
           NEW axis \in MeshAxes
    PROVE  UsesOnce(Combined(strategies, tensor), axis)
<1> DEFINE got == Combined(strategies, tensor)
           S == {i \in DOMAIN got : got[i] = axis}
<1>1. DOMAIN got = DOMAIN tensor
  <2>1. got = [i \in DOMAIN tensor |-> got[i]]
    BY CombinedIs
  <2> HIDE DEF got
  <2>2. QED
    BY <2>1
<1>2. \A x, y \in S : x = y
  <2> SUFFICES ASSUME NEW x \in S, NEW y \in S PROVE x = y
    OBVIOUS
  <2>1. x \in DOMAIN tensor /\ y \in DOMAIN tensor /\ got[x] = axis /\ got[y] = axis
    BY <1>1
  <2>2. PICK k \in 1..n : strategies[k].axis = axis /\ Claims(strategies[k], tensor, x)
    BY <2>1, ClaimedBy
  <2>3. PICK m \in 1..n : strategies[m].axis = axis /\ Claims(strategies[m], tensor, y)
    BY <2>1, ClaimedBy
  <2>4. \A s \in Strategies : s.kind \in {"data", "fsdp", "tensor", "pipeline"}
    BY DEF Strategies
  <2>5. strategies[k].kind \in {"data", "fsdp", "tensor", "pipeline"}
    BY <2>4
  <2>6. \A s, i : s.kind \in {"data", "fsdp"} /\ Claims(s, tensor, i) /\ i \in DOMAIN tensor => i = 1
    BY DEF Claims
  <2>7. CASE k = m
    <3>1. CASE strategies[k].kind \in {"data", "fsdp"}
      BY <2>1, <2>2, <2>3, <2>6, <2>7, <3>1
    <3>2. CASE strategies[k].kind = "tensor"
      <4>1. tensor[x] = tensor[y]
        BY <2>2, <2>3, <2>7, <3>2 DEF Claims
      <4>2. QED
        BY <2>1, <4>1 DEF IsInjective
    <3>3. CASE strategies[k].kind = "pipeline"
      BY <2>2, <3>3 DEF Claims
    <3>4. QED
      BY <2>5, <3>1, <3>2, <3>3
  <2>8. CASE k # m
    <3>1. {strategies[k].kind, strategies[m].kind} = {"data", "fsdp"}
      BY <2>2, <2>3, <2>8 DEF Compatible
    <3>2. strategies[k].kind \in {"data", "fsdp"} /\ strategies[m].kind \in {"data", "fsdp"}
      BY <3>1
    <3>3. QED
      BY <2>1, <2>2, <2>3, <2>6, <3>2
  <2>9. QED
    BY <2>7, <2>8
<1> HIDE DEF S, got
<1>3. QED
  BY <1>2, AtMostOne DEF UsesOnce, S, got

LEMMA CombineSettled == ASSUME CombineSpecs PROVE SpecsSettled'
<1>1. PICK strategies \in BoundedSeq(Strategies, MaxTogether), tensor \in Tensors :
        made' = [call |-> "combine", strategies |-> strategies, tensor |-> tensor,
                 got |-> IF Compatible(strategies) THEN Combined(strategies, tensor) ELSE Refused]
  BY DEF CombineSpecs, Calls
<1>2. PICK n \in Nat : strategies \in [1..n -> Strategies]
  BY MeshesAssumption DEF BoundedSeq, SeqOf
<1>3. IsInjective(tensor)
  BY DEF Tensors
<1> DEFINE specs == [k \in DOMAIN strategies |-> SpecOf(strategies[k], tensor)]
           got == Combined(strategies, tensor)
<1>4. /\ made'.call = "combine" /\ made'.strategies = strategies /\ made'.tensor = tensor
      /\ made'.got # Refused => Compatible(strategies) /\ made'.got = got
  BY <1>1
<1>5. specs = SpecsOf(strategies, tensor) /\ DOMAIN specs = 1..n /\ (specs # <<>> => n # 0)
  <2>1. n = 0 => Len(specs) = 0 /\ specs = <<>>
    BY <1>2
  <2>2. QED
    BY <1>2, <2>1 DEF SpecsOf
<1> HIDE DEF specs, got
<1>6. \A i \in DOMAIN tensor :
        LET claims == {specs[k][i] : k \in DOMAIN specs} \ {Replicated}
        IN  got[i] \in IF claims = {} THEN {Replicated} ELSE claims
  <2> TAKE i \in DOMAIN tensor
  <2>1. Settled(ClaimsTo(specs, n, i), got[i])
    BY <1>2, <1>5, CombinedIs DEF got
  <2>2. QED
    BY <1>5, <2>1 DEF Settled, ClaimsTo
<1>7. specs # <<>> => Resolved(specs) = got
  BY <1>2, <1>5, CombinedIs DEF got
<1>8. (\A k \in DOMAIN specs : strategies[k].axis \in {"data", "fsdp", "model"}) =>
        Combined(Reverse(strategies), tensor) = got
  BY <1>2, <1>5, AnyOrder DEF got
<1>9. Compatible(strategies) /\ (\A i \in DOMAIN tensor : tensor[i] = "batch" => i = 1) =>
        \A axis \in MeshAxes : UsesOnce(got, axis)
  BY <1>2, <1>3, AxesOnce DEF got
<1>10. Compatible(strategies) => SettledFor(got, strategies, tensor)
  BY <1>6, <1>7, <1>8, <1>9 DEF SettledFor, specs
<1>11. QED
  BY <1>4, <1>10 DEF SpecsSettled, Made

LEMMA ApplySettled == ASSUME ApplySharding PROVE SpecsSettled'
<1>1. PICK strategy \in Strategies, ndim \in 0..MaxTogether, large \in BOOLEAN :
        made' = [call |-> "apply", strategy |-> strategy, ndim |-> ndim,
                 got |-> ApplySpec(strategy, ndim, large)]
  BY DEF ApplySharding, Calls
<1> DEFINE got == ApplySpec(strategy, ndim, large)
           Only(at) == [i \in 1..ndim |-> IF i = at THEN strategy.axis ELSE Replicated]
<1>2. ndim \in Nat /\ strategy.kind \in {"data", "fsdp", "tensor", "pipeline"} /\ strategy.axis # Replicated
  <2>1. strategy.axis \in MeshAxes /\ strategy.kind \in {"data", "fsdp", "tensor", "pipeline"}
    BY DEF Strategies
  <2>2. QED
    BY <2>1, MeshesAssumption
<1>3. got # Refused => \E at \in Int : got = Only(at)
  <2>1. CASE strategy.kind = "pipeline"
    <3>1. got = Only(0)
      BY <2>1 DEF ApplySpec
    <3> HIDE DEF got, Only
    <3>2. QED
      BY <3>1
  <2>2. CASE strategy.kind # "pipeline" /\ ndim = 0
    BY <2>2 DEF ApplySpec
  <2>3. CASE ndim # 0 /\ strategy.kind = "data"
    <3>1. got = Only(1)
      BY <1>2, <2>3 DEF ApplySpec
    <3> HIDE DEF got, Only
    <3>2. QED
      BY <3>1
  <2>4. CASE ndim # 0 /\ strategy.kind = "fsdp"
    <3>1. got = Only(IF large THEN 1 ELSE 0)
      BY <1>2, <2>4 DEF ApplySpec
    <3> HIDE DEF got, Only
    <3>2. QED
      BY <3>1
  <2>5. CASE ndim = 2 /\ strategy.kind = "tensor"
    <3>1. got = Only(IF strategy.dim = "in_features" THEN 2 ELSE 1)
      BY <1>2, <2>5 DEF ApplySpec
    <3> HIDE DEF got, Only
    <3>2. QED
      BY <3>1
  <2>6. CASE ndim \notin {0, 2} /\ strategy.kind = "tensor"
    <3>1. got = Only(ndim)
      BY <1>2, <2>6 DEF ApplySpec
    <3>2. QED
      BY <1>2, <3>1
  <2>7. QED
    BY <1>2, <2>1, <2>2, <2>3, <2>4, <2>5, <2>6
<1>4. ASSUME NEW at \in Int PROVE Len(Only(at)) = ndim /\ UsesOnce(Only(at), strategy.axis)
  <2> DEFINE spec == Only(at)
             S == {i \in DOMAIN spec : spec[i] = strategy.axis}
  <2>1. spec \in [1..ndim -> {strategy.axis, Replicated}]
    OBVIOUS
  <2>2. \A x \in S : x = at
    BY <1>2
  <2> HIDE DEF spec, S
  <2>3. Len(spec) = ndim
    BY <1>2, <2>1, SequenceOf
  <2>4. Cardinality(S) <= 1
    BY <2>2, AtMostOne
  <2>5. UsesOnce(spec, strategy.axis)
    BY <2>4 DEF UsesOnce, S
  <2>6. QED
    BY <2>3, <2>5 DEF spec
<1>5. /\ made'.call = "apply" /\ made'.strategy = strategy /\ made'.ndim = ndim /\ made'.got = got
  BY <1>1
<1> HIDE DEF got, Only
<1>6. QED
  BY <1>3, <1>4, <1>5 DEF SpecsSettled, Made

LEMMA NamesSettled == ASSUME LookUpNames PROVE SpecsSettled'
<1>1. PICK rules \in DOMAIN Rules, names \in BoundedSeq({"data", "embed", "mlp", "heads"}, MaxTogether) :
        made' = [call |-> "names", rules |-> rules, names |-> names,
                 got |-> [i \in DOMAIN names |-> Rules[rules][names[i]]]]
  BY DEF LookUpNames, Calls
<1>2. PICK n \in Nat : names \in [1..n -> {"data", "embed", "mlp", "heads"}]
  BY MeshesAssumption DEF BoundedSeq, SeqOf
<1> DEFINE got == [i \in DOMAIN names |-> Rules[rules][names[i]]]
           model == {i \in DOMAIN names : names[i] # "data"}
<1>3. made'.call = "names" /\ made'.rules = rules /\ made'.names = names /\ made'.got = got
  BY <1>1
<1>4. rules \in {"data", "fsdp"}
  BY DEF Rules
<1>5. \A i \in DOMAIN names : names[i] \in {"data", "embed", "mlp", "heads"}
  BY <1>2
<1>6. /\ \A i \in DOMAIN names : got[i] = "data" <=> names[i] = "data"
      /\ \A i \in DOMAIN names : got[i] = "model" <=> rules = "fsdp" /\ names[i] # "data"
  BY <1>4, <1>5 DEF Rules, Replicated
<1>7. DOMAIN got = DOMAIN names
  OBVIOUS
<1> HIDE DEF got
<1>8. ASSUME IsInjective(names), rules = "fsdp" => Cardinality(model) <= 1, NEW axis \in {"data", "model"}
      PROVE  UsesOnce(got, axis)
  <2> DEFINE S == {i \in DOMAIN got : got[i] = axis}
  <2>1. CASE axis = "data"
    <3>1. \A x, y \in S : x = y
      BY <1>6, <1>7, <1>8, <2>1 DEF IsInjective
    <3> HIDE DEF S
    <3>2. QED
      BY <3>1, AtMostOne DEF UsesOnce, S
  <2>2. CASE axis = "model" /\ rules = "fsdp"
    <3>1. S = model
      BY <1>6, <1>7, <2>2
    <3> HIDE DEF model
    <3>2. QED
      BY <1>8, <2>2, <3>1 DEF UsesOnce
  <2>3. CASE axis = "model" /\ rules # "fsdp"
    <3>1. \A x, y \in S : x = y
      BY <1>6, <1>7, <2>3
    <3> HIDE DEF S
    <3>2. QED
      BY <3>1, AtMostOne DEF UsesOnce, S
  <2>4. QED
    BY <2>1, <2>2, <2>3
<1>9. QED
  BY <1>3, <1>8 DEF SpecsSettled, Made

\* Strategies that may be combined give every dimension to an axis some strategy
\* claimed, whichever way and in whichever order the specs are merged, and use an axis
\* once (get_combined_partition_spec, resolve_sharding_conflicts, apply_sharding).
THEOREM SpecsAlwaysSettled == MeshSpec => []SpecsSettled
<1>1. MeshInit => SpecsSettled
  BY DEF MeshInit, SpecsSettled, Made
<1>2. SpecsSettled /\ [MeshNext]_meshVars => SpecsSettled'
  <2>1. CASE UNCHANGED meshVars
    BY <2>1 DEF meshVars, SpecsSettled, Made
  <2>2. CASE MeshNext
    <3>1. ASSUME PlanDevices \/ PlanByHand \/ MakeMesh \/ Pipeline \/ Place \/ ShardBatchDim \/ Reduce
                 \/ Advise
          PROVE  SpecsSettled'
      <4>1. made'.call \notin {"combine", "apply", "names"}
        BY <3>1, OtherCalls
      <4>2. QED
        BY <4>1 DEF SpecsSettled, Made
    <3>2. QED
      BY <2>2, <3>1, CombineSettled, ApplySettled, NamesSettled DEF MeshNext
  <2>3. QED
    BY <2>1, <2>2
<1>3. QED
  BY <1>1, <1>2, PTL DEF MeshSpec
=============================================================================
