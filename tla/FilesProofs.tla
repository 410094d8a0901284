----------------------------- MODULE FilesProofs ----------------------------
(***************************************************************************)
(* What every step of Doc::open(), filetype(), ZDataFile and saveAsLocal() *)
(* keeps, for any servers, paths, contents, chunk sizes and generator.     *)
(* The files alone are not a specification that runs for long: the dialog  *)
(* of ConnectDlg starts calls too, so the theorems about reachable states  *)
(* are in SessionProofs, which takes FilesInv and a lemma per action from  *)
(* here.                                                                   *)
(***************************************************************************)
EXTENDS Files, SequenceTheorems, WellFoundedInduction, TLAPS

(***************************************************************************)
(* Numbers.  Induction is over a set of numbers, and a function that is    *)
(* defined by recursion on Nat exists.                                     *)
(***************************************************************************)
LEMMA LeastNumber ==
  ASSUME NEW T, T \subseteq Nat, T # {}
  PROVE  \E x \in T : \A y \in T : x <= y
  <1> DEFINE R == OpToRel(<, Nat)
  <1>1. IsWellFoundedOn(R, Nat)
    BY NatLessThanWellFounded
  <1> HIDE DEF R
  <1>2. PICK x \in T : \A y \in T : ~ (<<y, x>> \in R)
    BY <1>1, WFMin
  <1>3. ASSUME NEW y \in T PROVE x <= y
    <2>1. <<y, x>> \notin R
      BY <1>2
    <2>2. x \in Nat /\ y \in Nat
      OBVIOUS
    <2>3. ~(y < x)
      BY <2>1, <2>2 DEF R, OpToRel
    <2> QED BY <2>2, <2>3
  <1> QED BY <1>3

LEMMA Induction ==
  ASSUME NEW S, 0 \in S, \A n \in Nat : n \in S => n + 1 \in S
  PROVE  \A n \in Nat : n \in S
  <1> SUFFICES ASSUME Nat \ S # {} PROVE FALSE
    OBVIOUS
  <1>1. PICK x \in Nat \ S : \A y \in Nat \ S : x <= y
    BY LeastNumber
  <1>2. x # 0 /\ x - 1 \in Nat
    BY <1>1
  <1>3. x - 1 \in S
    BY <1>1, <1>2
  <1> QED BY <1>1, <1>2, <1>3

LEMMA Recursion ==
  ASSUME NEW T, NEW a \in T, NEW G \in [T -> T]
  PROVE  \E f \in [Nat -> T] : f[0] = a /\ \A n \in Nat : f[n + 1] = G[f[n]]
  <1> DEFINE Part(n) == {g \in [0 .. n -> T] : g[0] = a /\ \A i \in 0 .. n - 1 : g[i + 1] = G[g[i]]}
             S == {n \in Nat : Part(n) # {}}
  <1>1. 0 \in S
    <2>1. [i \in 0 .. 0 |-> a] \in Part(0)
      OBVIOUS
    <2> QED BY <2>1
  <1>2. ASSUME NEW n \in Nat, n \in S PROVE n + 1 \in S
    <2>1. PICK g \in Part(n) : TRUE
      BY <1>2
    <2> DEFINE h == [i \in 0 .. n + 1 |-> IF i = n + 1 THEN G[g[n]] ELSE g[i]]
    <2>2. g \in [0 .. n -> T] /\ g[n] \in T /\ G[g[n]] \in T
      BY <2>1
    <2>3. h \in [0 .. n + 1 -> T] /\ h[0] = a
      BY <2>1, <2>2
    <2>4. ASSUME NEW i \in 0 .. n PROVE h[i + 1] = G[h[i]]
      <3>1. CASE i = n
        BY <3>1
      <3>2. CASE i # n
        BY <2>1, <3>2
      <3> QED BY <3>1, <3>2
    <2>5. (n + 1) - 1 = n
      OBVIOUS
    <2> HIDE DEF h
    <2> QED BY <2>3, <2>4, <2>5
  <1>3. ASSUME NEW n \in Nat PROVE Part(n) # {}
    <2> HIDE DEF S
    <2>1. n \in S
      BY <1>1, <1>2, Induction
    <2> QED BY <2>1 DEF S
  <1>4. ASSUME NEW m \in Nat, NEW n \in Nat, NEW g \in Part(m), NEW h \in Part(n)
        PROVE  \A i \in Nat : i <= m /\ i <= n => g[i] = h[i]
    <2> DEFINE A == {i \in Nat : i <= m /\ i <= n => g[i] = h[i]}
    <2>1. 0 \in A
      OBVIOUS
    <2>2. ASSUME NEW i \in Nat, i \in A PROVE i + 1 \in A
      BY <2>2
    <2>3. \A i \in Nat : i \in A
      <3> HIDE DEF A
      <3> QED BY <2>1, <2>2, Induction
    <2> QED BY <2>3
  <1> DEFINE pick(n) == CHOOSE g : g \in Part(n)
             f == [n \in Nat |-> pick(n)[n]]
  <1>5. ASSUME NEW n \in Nat PROVE pick(n) \in Part(n)
    BY <1>3
  <1> HIDE DEF pick
  <1>6. f \in [Nat -> T]
    BY <1>5
  <1>7. f[0] = a
    BY <1>5
  <1>8. ASSUME NEW n \in Nat PROVE f[n + 1] = G[f[n]]
    <2>1. pick(n + 1) \in Part(n + 1) /\ pick(n) \in Part(n)
      BY <1>5
    <2>2. pick(n + 1)[n + 1] = G[pick(n + 1)[n]]
      BY <2>1
    <2> HIDE DEF Part
    <2>3. pick(n + 1)[n] = pick(n)[n]
      BY <2>1, <1>4
    <2> QED BY <2>2, <2>3
  <1> QED BY <1>6, <1>7, <1>8

LEMMA Division ==
  ASSUME NEW x \in Int, NEW w \in Nat \ {0}
  PROVE  /\ x \div w \in Int /\ x % w \in 0 .. w - 1
         /\ x = w * (x \div w) + (x % w)
  OBVIOUS

\* A quotient and a remainder are unique.
LEMMA OneRemainder ==
  ASSUME NEW w \in Nat \ {0}, NEW a \in Int, NEW b \in Int,
         NEW r \in 0 .. w - 1, NEW s \in 0 .. w - 1, w * a + r = w * b + s
  PROVE  r = s
  <1>1. \A k \in Int : k >= 1 => w * k >= w
    OBVIOUS
  <1>2. a - b \in Int /\ b - a \in Int /\ w * (a - b) = s - r /\ w * (b - a) = r - s
    OBVIOUS
  <1>3. ~(a - b >= 1) /\ ~(b - a >= 1)
    BY <1>1, <1>2
  <1>4. a = b
    BY <1>3
  <1> QED BY <1>4

LEMMA RemainderShift ==
  ASSUME NEW w \in Nat \ {0}, NEW k \in Int, NEW v \in Int
  PROVE  (w * k + v) % w = v % w
  <1> DEFINE x == w * k + v
  <1>1. x \in Int
    OBVIOUS
  <1>2. x = w * (x \div w) + (x % w) /\ x \div w \in Int /\ x % w \in 0 .. w - 1
    <2> HIDE DEF x
    <2> QED BY <1>1, Division
  <1>3. v = w * (v \div w) + (v % w) /\ v \div w \in Int /\ v % w \in 0 .. w - 1
    BY Division
  <1>4. \A q \in Int : w * (k + q) = w * k + w * q
    OBVIOUS
  <1>5. x = w * (k + (v \div w)) + (v % w)
    <2> DEFINE q == v \div w
               r == v % w
    <2>1. q \in Int /\ r \in Int /\ v = w * q + r
      BY <1>3
    <2> HIDE DEF q, r
    <2>2. w * q \in Int /\ w * k \in Int
      BY <2>1
    <2>3. w * k + v = w * (k + q) + r
      BY <1>4, <2>1, <2>2
    <2> QED BY <2>3 DEF q, r
  <1> HIDE DEF x
  <1>6. x % w = v % w
    <2> DEFINE a == x \div w
               b == k + (v \div w)
               r == x % w
               s == v % w
    <2>1. /\ a \in Int /\ b \in Int /\ r \in 0 .. w - 1 /\ s \in 0 .. w - 1
          /\ w * a + r = w * b + s
      BY <1>2, <1>3, <1>5
    <2> HIDE DEF a, b, r, s
    <2>2. r = s
      BY <2>1, OneRemainder
    <2> QED BY <2>2 DEF r, s
  <1> QED BY <1>6 DEF x

LEMMA RemainderTimes ==
  ASSUME NEW w \in Nat \ {0}, NEW x \in Int, NEW y \in Int, NEW z \in Int
  PROVE  ((x % w) * y + z) % w = (x * y + z) % w
  <1> DEFINE q == x \div w
             r == x % w
  <1>1. q \in Int /\ r \in Int /\ x = w * q + r
    BY Division
  <1> HIDE DEF q, r
  <1>2. x * y + z = w * (q * y) + (r * y + z)
    <2>1. x * y = (w * q) * y + r * y
      BY <1>1
    <2>2. (w * q) * y = w * (q * y)
      BY <1>1
    <2>3. r * y \in Int /\ w * (q * y) \in Int
      BY <1>1
    <2> QED BY <2>1, <2>2, <2>3
  <1>3. q * y \in Int /\ r * y + z \in Int
    BY <1>1
  <1>4. (w * (q * y) + (r * y + z)) % w = (r * y + z) % w
    BY <1>3, RemainderShift
  <1> QED BY <1>2, <1>4 DEF r
-----------------------------------------------------------------------------
(***************************************************************************)
(* The generator of ZDataFile.hpp: Seeds(s)[n] is s after n steps of the   *)
(* loop in read(), and seedAfter() is the loop over the bits of a count.   *)
(***************************************************************************)
LEMMA StepWord ==
  ASSUME NEW s \in Words
  PROVE  Step(s) \in Words
  <1>1. s * Mul + Inc \in Int /\ Word \in Nat \ {0}
    BY WordAssumption DEF Words
  <1>2. \A k \in Int : \A w \in Nat \ {0} : k % w \in 0 .. w - 1
    OBVIOUS
  <1> QED BY <1>1, <1>2 DEF Step, Words

LEMMA SeedsStep ==
  ASSUME NEW s \in Words
  PROVE  /\ Seeds(s) \in [Nat -> Words] /\ Seeds(s)[0] = s
         /\ \A n \in Nat : Seeds(s)[n + 1] = Step(Seeds(s)[n])
  <1> DEFINE g == Seeds(s)
             G == [w \in Words |-> Step(w)]
  <1>1. G \in [Words -> Words]
    BY StepWord
  <1>2. PICK f \in [Nat -> Words] : f[0] = s /\ \A n \in Nat : f[n + 1] = G[f[n]]
    <2> HIDE DEF G
    <2> QED BY <1>1, Recursion
  <1>3. f = [n \in Nat |-> IF n = 0 THEN s ELSE Step(f[n - 1])]
    <2>1. ASSUME NEW n \in Nat PROVE f[n] = IF n = 0 THEN s ELSE Step(f[n - 1])
      <3>1. CASE n = 0
        BY <1>2, <3>1
      <3>2. CASE n # 0
        <4>1. n - 1 \in Nat /\ (n - 1) + 1 = n
          BY <3>2
        <4>2. f[(n - 1) + 1] = G[f[n - 1]]
          BY <1>2, <4>1
        <4>3. f[n - 1] \in Words
          BY <4>1
        <4> QED BY <3>2, <4>1, <4>2, <4>3
      <3> QED BY <3>1, <3>2
    <2> QED BY <2>1
  <1>4. g = [n \in Nat |-> IF n = 0 THEN s ELSE Step(g[n - 1])]
    BY <1>3, Zenon DEF Seeds
  <1> HIDE DEF g
  <1>5. g[0] = s /\ \A n \in Nat : g[n + 1] = Step(g[n])
    <2>1. ASSUME NEW n \in Nat PROVE g[n] = IF n = 0 THEN s ELSE Step(g[n - 1])
      BY <1>4, Zenon
    <2>2. ASSUME NEW n \in Nat PROVE g[n + 1] = Step(g[n])
      <3>1. n + 1 \in Nat /\ n + 1 # 0 /\ (n + 1) - 1 = n
        OBVIOUS
      <3> QED BY <3>1, <2>1
    <2> QED BY <2>1, <2>2
  <1>6. \A n \in Nat : g[n] \in Words
    <2> DEFINE S == {n \in Nat : g[n] \in Words}
    <2>1. 0 \in S
      BY <1>5
    <2>2. ASSUME NEW n \in Nat, n \in S PROVE n + 1 \in S
      BY <1>5, <2>2, StepWord
    <2>3. \A n \in Nat : n \in S
      <3> HIDE DEF S
      <3> QED BY <2>1, <2>2, Induction
    <2> QED BY <2>3
  <1>7. g \in [Nat -> Words]
    <2>1. DOMAIN g = Nat /\ g = [n \in DOMAIN g |-> g[n]]
      BY <1>4, Zenon
    <2> QED BY <1>6, <2>1
  <1> QED BY <1>5, <1>7 DEF g

LEMMA SeedsAdd ==
  ASSUME NEW s \in Words, NEW m \in Nat, NEW n \in Nat
  PROVE  Seeds(Seeds(s)[m])[n] = Seeds(s)[m + n]
  <1> DEFINE w == Seeds(s)[m]
             S == {k \in Nat : Seeds(w)[k] = Seeds(s)[m + k]}
  <1>1. w \in Words
    BY SeedsStep
  <1> HIDE DEF w
  <1>2. 0 \in S
    <2>1. Seeds(w)[0] = w /\ m + 0 = m
      BY <1>1, SeedsStep
    <2> QED BY <2>1 DEF w
  <1>3. ASSUME NEW k \in Nat, k \in S PROVE k + 1 \in S
    <2>1. Seeds(w)[k + 1] = Step(Seeds(w)[k])
      BY <1>1, SeedsStep
    <2>2. m + k \in Nat /\ (m + k) + 1 = m + (k + 1)
      OBVIOUS
    <2>3. Seeds(s)[(m + k) + 1] = Step(Seeds(s)[m + k])
      BY <2>2, SeedsStep
    <2> QED BY <1>3, <2>1, <2>2, <2>3
  <1>4. \A k \in Nat : k \in S
    <2> HIDE DEF S
    <2> QED BY <1>2, <1>3, Induction
  <1> QED BY <1>4 DEF w

(* p steps are the map mul * x + add. *)
AreSteps(mul, add, p) == \A x \in Words : Seeds(x)[p] = (mul * x + add) % Word

LEMMA RemainderInt ==
  ASSUME NEW x \in Int
  PROVE  x % Word \in Words
  BY Division, WordAssumption DEF Words

LEMMA RemainderPlus ==
  ASSUME NEW w \in Nat \ {0}, NEW x \in Int, NEW z \in Int
  PROVE  ((x % w) + z) % w = (x + z) % w
  <1>1. ((x % w) * 1 + z) % w = (x * 1 + z) % w
    <2>1. 1 \in Int
      OBVIOUS
    <2> QED BY <2>1, RemainderTimes, Zenon
  <1>2. (x % w) * 1 = x % w /\ x * 1 = x
    BY Division
  <1> QED BY <1>1, <1>2

(* A map after a map, with the factor and the summand taken modulo w. *)
LEMMA Composed ==
  ASSUME NEW w \in Nat \ {0}, NEW m \in Int, NEW a \in Int, NEW k \in Int, NEW b \in Int,
         NEW x \in Int
  PROVE  (m * ((k * x + b) % w) + a) % w = (((k * m) % w) * x + ((b * m + a) % w)) % w
  <1> DEFINE u == k * x + b
             v == b * m + a
             c == k * m
  <1>1. u \in Int /\ v \in Int /\ c \in Int /\ (u % w) \in Int /\ (v % w) \in Int /\ (c % w) \in Int
    BY Division
  <1>a. \A p, q, r \in Int : ((p % w) * q + r) % w = (p * q + r) % w
    BY RemainderTimes
  <1>2. u * m + a = c * x + v
    <2>1. u * m = (k * x) * m + b * m
      OBVIOUS
    <2>2. (k * x) * m = (k * m) * x
      OBVIOUS
    <2>3. (k * m) * x \in Int /\ b * m \in Int
      OBVIOUS
    <2> QED BY <2>1, <2>2, <2>3
  <1> HIDE DEF u, v, c
  <1>3. m * (u % w) = (u % w) * m
    BY <1>1
  <1>4. ((u % w) * m + a) % w = (u * m + a) % w
    <2>1. u \in Int
      BY <1>1
    <2> QED BY <1>a, <2>1, Zenon
  <1>5. ((c % w) * x + (v % w)) % w = (c * x + (v % w)) % w
    <2>1. c \in Int /\ (v % w) \in Int
      BY <1>1
    <2>2. \A q, r \in Int : ((c % w) * q + r) % w = (c * q + r) % w
      BY <1>a, <2>1, Zenon
    <2> QED BY <2>1, <2>2, Zenon
  <1>6. (c * x + (v % w)) % w = (c * x + v) % w
    <2>1. c * x \in Int
      BY <1>1
    <2>2. ((v % w) + c * x) % w = (v + c * x) % w
      BY <1>1, <2>1, RemainderPlus
    <2>3. (v % w) + c * x = c * x + (v % w) /\ v + c * x = c * x + v
      BY <1>1, <2>1
    <2> QED BY <2>2, <2>3
  <1>7. (m * (u % w) + a) % w = ((c % w) * x + (v % w)) % w
    BY <1>2, <1>3, <1>4, <1>5, <1>6
  <1> QED BY <1>7 DEF u, v, c

LEMMA ComposedWord ==
  \A m, a, k, b, x \in Int :
    (m * ((k * x + b) % Word) + a) % Word = (((k * m) % Word) * x + ((b * m + a) % Word)) % Word
  <1>1. Word \in Nat \ {0}
    BY WordAssumption
  <1> QED BY <1>1, Composed, Zenon

LEMMA Squared ==
  ASSUME NEW m \in Words, NEW a \in Words, NEW p \in Nat, AreSteps(m, a, p)
  PROVE  AreSteps((m * m) % Word, (a * (m + 1)) % Word, 2 * p)
  <1>1. Word \in Nat \ {0} /\ m \in Int /\ a \in Int
    BY WordAssumption DEF Words
  <1>2. ASSUME NEW x \in Words
        PROVE  Seeds(x)[2 * p] = (((m * m) % Word) * x + ((a * (m + 1)) % Word)) % Word
    <2>1. x \in Int
      BY <1>1 DEF Words
    <2>2. Seeds(x)[p] = (m * x + a) % Word /\ Seeds(x)[p] \in Words
      BY SeedsStep DEF AreSteps
    <2>3. Seeds(Seeds(x)[p])[p] = (m * Seeds(x)[p] + a) % Word
      BY <2>2 DEF AreSteps
    <2>4. Seeds(Seeds(x)[p])[p] = Seeds(x)[p + p]
      BY SeedsAdd
    <2>5. p + p = 2 * p /\ a * m + a = a * (m + 1)
      BY <1>1
    <2>6. (m * ((m * x + a) % Word) + a) % Word =
            (((m * m) % Word) * x + ((a * m + a) % Word)) % Word
      <3>1. m \in Int /\ a \in Int
        BY <1>1
      <3>2. \A k, b, y \in Int : (m * ((k * y + b) % Word) + a) % Word =
                                 (((k * m) % Word) * y + ((b * m + a) % Word)) % Word
        BY <3>1, ComposedWord, Zenon
      <3> QED BY <2>1, <3>1, <3>2, Zenon
    <2> QED BY <2>2, <2>3, <2>4, <2>5, <2>6
  <1> QED BY <1>2 DEF AreSteps

LEMMA Appended ==
  ASSUME NEW m \in Words, NEW a \in Words, NEW p \in Nat, AreSteps(m, a, p),
         NEW k \in Words, NEW b \in Words, NEW d \in Nat,
         Seeds(Seed0)[d] = (k * Seed0 + b) % Word
  PROVE  Seeds(Seed0)[d + p] = (((k * m) % Word) * Seed0 + ((b * m + a) % Word)) % Word
  <1>1. /\ Word \in Nat \ {0} /\ m \in Int /\ a \in Int /\ k \in Int /\ b \in Int
        /\ Seed0 \in Int /\ Seed0 \in Words
    BY WordAssumption DEF Words
  <1>2. Seeds(Seed0)[d] \in Words
    BY <1>1, SeedsStep
  <1>3. Seeds(Seeds(Seed0)[d])[p] = (m * Seeds(Seed0)[d] + a) % Word
    BY <1>2 DEF AreSteps
  <1>4. Seeds(Seeds(Seed0)[d])[p] = Seeds(Seed0)[d + p]
    BY <1>1, SeedsAdd
  <1>5. (m * ((k * Seed0 + b) % Word) + a) % Word =
            (((k * m) % Word) * Seed0 + ((b * m + a) % Word)) % Word
    <2>1. m \in Int /\ a \in Int
      BY <1>1
    <2>2. \A k1, b1, x \in Int : (m * ((k1 * x + b1) % Word) + a) % Word =
                                 (((k1 * m) % Word) * x + ((b1 * m + a) % Word)) % Word
      BY <2>1, ComposedWord, Zenon
    <2>3. k \in Int /\ b \in Int /\ Seed0 \in Int
      BY <1>1
    <2> QED BY <2>2, <2>3, Zenon
  <1> QED BY <1>3, <1>4, <1>5

Loop == [count : Nat, mul : Words, add : Words, accMul : Words, accAdd : Words]

LEMMA TurnType ==
  ASSUME NEW t \in Loop
  PROVE  Turn(t) \in Loop
  <1>1. /\ t.count \in Nat /\ t.mul \in Words /\ t.add \in Words
        /\ t.accMul \in Words /\ t.accAdd \in Words
    BY DEF Loop
  <1>2. /\ t.mul \in Int /\ t.add \in Int /\ t.accMul \in Int /\ t.accAdd \in Int
    BY <1>1, WordAssumption DEF Words
  <1>3. /\ (t.mul * t.mul) % Word \in Words /\ (t.add * (t.mul + 1)) % Word \in Words
        /\ (t.accMul * t.mul) % Word \in Words /\ (t.accAdd * t.mul + t.add) % Word \in Words
    <2>1. /\ t.mul * t.mul \in Int /\ t.add * (t.mul + 1) \in Int
          /\ t.accMul * t.mul \in Int /\ t.accAdd * t.mul + t.add \in Int
      BY <1>2
    <2> QED BY <2>1, RemainderInt
  <1>4. t.count \div 2 \in Nat
    BY <1>1
  <1> QED BY <1>1, <1>3, <1>4 DEF Turn, Loop

LEMMA BeforeType ==
  ASSUME NEW n \in Nat
  PROVE  Before(n) \in Loop
  <1>1. Mul \in Int /\ Inc \in Int /\ Word \in Nat \ {0}
    BY WordAssumption
  <1>2. Mul % Word \in Words /\ Inc % Word \in Words /\ 1 % Word \in Words
    BY <1>1, RemainderInt
  <1>3. 0 \in Words
    BY <1>1 DEF Words
  <1> QED BY <1>2, <1>3 DEF Before, Loop

LEMMA TurnsStep ==
  ASSUME NEW n \in Nat
  PROVE  /\ Turns(n)[0] = Before(n)
         /\ \A k \in Nat : Turns(n)[k] \in Loop /\ Turns(n)[k + 1] = Turn(Turns(n)[k])
  <1> DEFINE t == Turns(n)
             G == [u \in Loop |-> Turn(u)]
  <1>1. G \in [Loop -> Loop]
    BY TurnType
  <1>2. PICK f \in [Nat -> Loop] : f[0] = Before(n) /\ \A k \in Nat : f[k + 1] = G[f[k]]
    <2> HIDE DEF G
    <2>1. Before(n) \in Loop
      BY BeforeType
    <2>2. \A a \in Loop : \E f \in [Nat -> Loop] :
            f[0] = a /\ \A k \in Nat : f[k + 1] = G[f[k]]
      BY <1>1, Recursion
    <2> QED BY <2>1, <2>2, Zenon
  <1>3. f = [k \in Nat |-> IF k = 0 THEN Before(n) ELSE Turn(f[k - 1])]
    <2>1. ASSUME NEW k \in Nat PROVE f[k] = IF k = 0 THEN Before(n) ELSE Turn(f[k - 1])
      <3>1. CASE k = 0
        BY <1>2, <3>1
      <3>2. CASE k # 0
        <4>1. k - 1 \in Nat /\ (k - 1) + 1 = k
          BY <3>2
        <4>2. f[(k - 1) + 1] = G[f[k - 1]] /\ f[k - 1] \in Loop
          BY <1>2, <4>1
        <4> QED BY <3>2, <4>1, <4>2
      <3> QED BY <3>1, <3>2
    <2> QED BY <2>1
  <1>4. t = [k \in Nat |-> IF k = 0 THEN Before(n) ELSE Turn(t[k - 1])]
    BY <1>3, Zenon DEF Turns
  <1> HIDE DEF t
  <1>5. t[0] = Before(n) /\ \A k \in Nat : t[k + 1] = Turn(t[k])
    <2>1. ASSUME NEW k \in Nat PROVE t[k] = IF k = 0 THEN Before(n) ELSE Turn(t[k - 1])
      BY <1>4, Zenon
    <2>2. ASSUME NEW k \in Nat PROVE t[k + 1] = Turn(t[k])
      <3>1. k + 1 \in Nat /\ k + 1 # 0 /\ (k + 1) - 1 = k
        OBVIOUS
      <3> QED BY <3>1, <2>1
    <2> QED BY <2>1, <2>2
  <1>6. \A k \in Nat : t[k] \in Loop
    <2> DEFINE S == {k \in Nat : t[k] \in Loop}
    <2>1. 0 \in S
      BY <1>5, BeforeType
    <2>2. ASSUME NEW k \in Nat, k \in S PROVE k + 1 \in S
      BY <1>5, <2>2, TurnType
    <2>3. \A k \in Nat : k \in S
      <3> HIDE DEF S
      <3> QED BY <2>1, <2>2, Induction
    <2> QED BY <2>3
  <1> QED BY <1>5, <1>6 DEF t

(* The invariant of the loop: acc is the map of d steps, (mul, add) that   *)
(* of p steps, and d + count * p steps are wanted.                         *)
OnTheWay(n, t) ==
  \E d, p \in Nat :
    /\ d + t.count * p = n /\ AreSteps(t.mul, t.add, p)
    /\ Seeds(Seed0)[d] = (t.accMul * Seed0 + t.accAdd) % Word

LEMMA TurnOnTheWay ==
  ASSUME NEW n \in Nat, NEW t \in Loop, OnTheWay(n, t)
  PROVE  OnTheWay(n, Turn(t))
  <1>1. CASE t.count = 0
    BY <1>1 DEF Turn
  <1>2. CASE t.count # 0
    <2> DEFINE u == Turn(t)
               c == t.count \div 2
    <2>1. PICK d \in Nat, p \in Nat :
            /\ d + t.count * p = n /\ AreSteps(t.mul, t.add, p)
            /\ Seeds(Seed0)[d] = (t.accMul * Seed0 + t.accAdd) % Word
      BY DEF OnTheWay
    <2>2. /\ t.count \in Nat /\ t.mul \in Words /\ t.add \in Words
          /\ t.accMul \in Words /\ t.accAdd \in Words
      BY DEF Loop
    <2>3. c \in Nat /\ (t.count = 2 * c \/ (t.count % 2 = 1 /\ t.count = 2 * c + 1))
          /\ (t.count % 2 = 1 => t.count = 2 * c + 1)
      BY <2>2
    <2>4. u.count = c /\ u.mul = (t.mul * t.mul) % Word /\ u.add = (t.add * (t.mul + 1)) % Word
      BY <1>2 DEF Turn
    <2>5. AreSteps(u.mul, u.add, 2 * p) /\ 2 * p \in Nat
      BY <2>1, <2>2, <2>4, Squared
    <2>6. CASE t.count % 2 = 1
      <3>1. /\ u.accMul = (t.accMul * t.mul) % Word
            /\ u.accAdd = (t.accAdd * t.mul + t.add) % Word
        BY <1>2, <2>6 DEF Turn
      <3>2. Seeds(Seed0)[d + p] = (u.accMul * Seed0 + u.accAdd) % Word
        BY <2>1, <2>2, <3>1, Appended
      <3>3. (d + p) + u.count * (2 * p) = n
        <4> HIDE DEF u, c
        <4>1. t.count * p = (2 * c) * p + p
          BY <2>3, <2>6
        <4>2. (2 * c) * p = c * (2 * p) /\ c * (2 * p) \in Nat
          BY <2>3
        <4> QED BY <2>1, <2>4, <4>1, <4>2
      <3> QED BY <2>5, <3>2, <3>3 DEF OnTheWay
    <2>7. CASE t.count % 2 # 1
      <3>1. u.accMul = t.accMul /\ u.accAdd = t.accAdd
        BY <1>2, <2>7 DEF Turn
      <3>2. d + u.count * (2 * p) = n
        <4> HIDE DEF u, c
        <4>1. t.count * p = (2 * c) * p /\ (2 * c) * p = c * (2 * p)
          BY <2>3, <2>7
        <4> QED BY <2>1, <2>4, <4>1
      <3> QED BY <2>1, <2>5, <3>1, <3>2 DEF OnTheWay
    <2> QED BY <2>6, <2>7
  <1> QED BY <1>1, <1>2

LEMMA TimesWord ==
  \A a, b, c \in Int : ((a % Word) * b + c) % Word = (a * b + c) % Word
  <1>1. Word \in Nat \ {0}
    BY WordAssumption
  <1> QED BY <1>1, RemainderTimes, Zenon

LEMMA Products == \A a, b \in Int : a * b \in Int /\ 1 * a + 0 = a
  OBVIOUS

(* ZDataFile::seedAfter() jumps, in as many turns as the count has bits, to *)
(* the state that as many steps of the loop in read() give: for every count *)
(* and every multiplier, increment and word.                                *)
THEOREM JumpsAreSteps ==
  ASSUME NEW n \in Nat
  PROVE  SeedAfter(n) = Seeds(Seed0)[n]
  <1> DEFINE t == Turns(n)
             S == {k \in Nat : OnTheWay(n, t[k]) /\ t[k].count <= IF k < n THEN n - k ELSE 0}
  <1>1. OnTheWay(n, Before(n))
    <2>1. Word \in Nat \ {0} /\ Mul \in Int /\ Inc \in Int /\ Seed0 \in Words /\ Seed0 \in Int
      BY WordAssumption DEF Words
    <2>2. AreSteps(Mul % Word, Inc % Word, 1)
      <3>1. ASSUME NEW x \in Words
            PROVE  Seeds(x)[1] = ((Mul % Word) * x + (Inc % Word)) % Word
        <4>0. x \in Int
          BY <2>1 DEF Words
        <4>1. Seeds(x)[0 + 1] = Step(Seeds(x)[0]) /\ Seeds(x)[0] = x /\ 0 + 1 = 1
          BY SeedsStep
        <4>2. ((Mul % Word) * x + (Inc % Word)) % Word = (Mul * x + (Inc % Word)) % Word
          <5>1. Inc % Word \in Int
            BY <2>1, Division
          <5> QED BY <2>1, <4>0, <5>1, TimesWord, Zenon
        <4>3. ((Inc % Word) + Mul * x) % Word = (Inc + Mul * x) % Word
          <5>1. Mul * x \in Int
            BY <2>1, <4>0, Products, Zenon
          <5> HIDE DEF t, S
          <5> QED BY <2>1, <5>1, RemainderPlus, Zenon
        <4>4. Mul * x + (Inc % Word) = (Inc % Word) + Mul * x /\ x * Mul + Inc = Inc + Mul * x
          <5>1. Inc % Word \in Int
            BY <2>1, Division
          <5> QED BY <2>1, <4>0, <5>1
        <4> QED BY <4>1, <4>2, <4>3, <4>4 DEF Step
      <3> QED BY <3>1 DEF AreSteps
    <2>3. Seeds(Seed0)[0] = ((1 % Word) * Seed0 + 0) % Word
      <3>0. 1 \in Int /\ 0 \in Int
        OBVIOUS
      <3>1. ((1 % Word) * Seed0 + 0) % Word = (1 * Seed0 + 0) % Word
        BY <2>1, <3>0, TimesWord, Zenon
      <3>2. 1 * Seed0 + 0 = Seed0
        BY <2>1, Products, Zenon
      <3>3. Seed0 % Word = Seed0
        BY <2>1 DEF Words
      <3> QED BY <2>1, <3>1, <3>2, <3>3, SeedsStep
    <2>4. 0 + n * 1 = n
      OBVIOUS
    <2> QED BY <2>2, <2>3, <2>4 DEF OnTheWay, Before
  <1>2. 0 \in S
    <2>1. t[0] = Before(n) /\ Before(n).count = n
      BY TurnsStep DEF Before
    <2> HIDE DEF t
    <2> QED BY <1>1, <2>1
  <1>3. ASSUME NEW k \in Nat, k \in S PROVE k + 1 \in S
    <2>1. t[k] \in Loop /\ t[k + 1] = Turn(t[k])
      BY TurnsStep
    <2> HIDE DEF t
    <2>2. OnTheWay(n, t[k + 1])
      BY <1>3, <2>1, TurnOnTheWay
    <2>3. t[k].count \in Nat
      BY <2>1 DEF Loop
    <2>4. t[k + 1].count = t[k].count \div 2
      BY <2>1, <2>3 DEF Turn
    <2>5. \A c \in Nat : c \div 2 \in Nat /\ c \div 2 <= c /\ (c > 0 => c \div 2 <= c - 1)
      OBVIOUS
    <2> QED BY <1>3, <2>2, <2>3, <2>4, <2>5
  <1>4. n \in S
    <2> HIDE DEF S
    <2> QED BY <1>2, <1>3, Induction
  <1>5. t[n] \in Loop
    BY TurnsStep
  <1> HIDE DEF t
  <1>6. t[n].count = 0
    BY <1>4, <1>5 DEF Loop
  <1>7. PICK d \in Nat, p \in Nat :
          d + 0 * p = n /\ Seeds(Seed0)[d] = (t[n].accMul * Seed0 + t[n].accAdd) % Word
    BY <1>4, <1>6 DEF OnTheWay
  <1>8. d = n
    BY <1>7
  <1> QED BY <1>7, <1>8 DEF SeedAfter, t
-----------------------------------------------------------------------------
(***************************************************************************)
(* Bytes: parts of the contents of a file, and their text.                 *)
(***************************************************************************)
LEMMA MaskBit ==
  ASSUME NEW s \in Words
  PROVE  Mask(s) \in Bit
  <1>1. Shift \in Nat \ {0} /\ s \in Nat
    BY WordAssumption DEF Words
  <1>2. s \div Shift \in Int
    BY <1>1, Division
  <1> QED BY <1>2 DEF Mask, Bit

LEMMA BytesOf ==
  ASSUME NEW b \in Contents
  PROVE  /\ Len(b) \in Nat /\ DOMAIN b = 1 .. Len(b)
         /\ \A i \in 1 .. Len(b) : b[i] \in Bit
  BY DEF Contents

LEMMA IsContents ==
  ASSUME NEW n \in Nat, NEW b, b \in [1 .. n -> Bit]
  PROVE  b \in Contents /\ Len(b) = n
  BY SeqDef DEF Contents

LEMMA DecodeBytes ==
  ASSUME NEW s \in Words, NEW data \in Contents
  PROVE  /\ Decode(s, data) \in Contents /\ Len(Decode(s, data)) = Len(data)
         /\ \A i \in 1 .. Len(data) : Decode(s, data)[i] = (data[i] + Mask(Seeds(s)[i])) % 2
  <1>1. /\ Len(data) \in Nat /\ DOMAIN data = 1 .. Len(data)
        /\ \A i \in 1 .. Len(data) : data[i] \in Bit
    BY BytesOf
  <1>2. ASSUME NEW i \in 1 .. Len(data)
        PROVE  (data[i] + Mask(Seeds(s)[i])) % 2 \in Bit
    <2>1. i \in Nat /\ Seeds(s)[i] \in Words
      <3>1. i \in Nat
        BY <1>1
      <3> QED BY <3>1, SeedsStep
    <2>2. Mask(Seeds(s)[i]) \in Bit
      BY <2>1, MaskBit
    <2> QED BY <1>1, <2>2 DEF Bit
  <1>3. Decode(s, data) = [i \in 1 .. Len(data) |-> (data[i] + Mask(Seeds(s)[i])) % 2]
    BY <1>1, Zenon DEF Decode
  <1>4. Decode(s, data) \in [1 .. Len(data) -> Bit]
    BY <1>2, <1>3, Zenon
  <1>5. \A i \in 1 .. Len(data) : Decode(s, data)[i] = (data[i] + Mask(Seeds(s)[i])) % 2
    BY <1>3, Zenon
  <1> QED BY <1>1, <1>4, <1>5, IsContents

LEMMA Part ==
  ASSUME NEW b \in Contents, NEW m \in Nat, NEW n \in Nat, m + n <= Len(b)
  PROVE  /\ SubSeq(b, m + 1, m + n) \in Contents /\ Len(SubSeq(b, m + 1, m + n)) = n
         /\ \A i \in 1 .. n : SubSeq(b, m + 1, m + n)[i] = b[m + i]
  <1>1. \A i \in m + 1 .. m + n : b[i] \in Bit
    BY BytesOf
  <1>2. /\ SubSeq(b, m + 1, m + n) \in Seq(Bit)
        /\ Len(SubSeq(b, m + 1, m + n)) = IF m + 1 <= m + n THEN (m + n) - (m + 1) + 1 ELSE 0
        /\ \A i \in 1 .. (m + n) - (m + 1) + 1 : SubSeq(b, m + 1, m + n)[i] = b[(m + 1) + i - 1]
    BY <1>1, SubSeqProperties
  <1>3. \A i \in 1 .. n : (m + 1) + i - 1 = m + i
    OBVIOUS
  <1> QED BY <1>2, <1>3 DEF Contents

LEMMA FirstPart ==
  ASSUME NEW b \in Contents, NEW n \in Nat, n <= Len(b)
  PROVE  /\ SubSeq(b, 1, n) \in Contents /\ Len(SubSeq(b, 1, n)) = n
         /\ \A i \in 1 .. n : SubSeq(b, 1, n)[i] = b[i]
  <1>1. 0 + n <= Len(b) /\ 0 + 1 = 1 /\ 0 + n = n /\ \A i \in 1 .. n : 0 + i = i
    BY BytesOf
  <1>2. /\ SubSeq(b, 0 + 1, 0 + n) \in Contents /\ Len(SubSeq(b, 0 + 1, 0 + n)) = n
        /\ \A i \in 1 .. n : SubSeq(b, 0 + 1, 0 + n)[i] = b[0 + i]
    BY <1>1, Part
  <1> QED BY <1>1, <1>2

LEMMA SameBytes ==
  ASSUME NEW b \in Contents, NEW c \in Contents, Len(b) = Len(c),
         \A i \in 1 .. Len(b) : b[i] = c[i]
  PROVE  b = c
  BY SeqEqual DEF Contents

LEMMA WholePart ==
  ASSUME NEW b \in Contents
  PROVE  SubSeq(b, 1, Len(b)) = b
  <1>1. Len(b) \in Nat
    BY BytesOf
  <1>2. /\ SubSeq(b, 1, Len(b)) \in Contents /\ Len(SubSeq(b, 1, Len(b))) = Len(b)
        /\ \A i \in 1 .. Len(b) : SubSeq(b, 1, Len(b))[i] = b[i]
    BY <1>1, FirstPart
  <1> QED BY <1>2, SameBytes

\* c is what b has from position pos on.
Lies(c, b, pos) == \A i \in 1 .. Len(c) : c[i] = b[pos + i]

LEMMA PartsJoin ==
  ASSUME NEW b \in Contents, NEW m \in Nat, NEW n \in Nat, m + n <= Len(b),
         NEW c \in Contents, Len(c) = n, Lies(c, b, m)
  PROVE  SubSeq(b, 1, m) \o c = SubSeq(b, 1, m + n)
  <1>0. Len(b) \in Nat /\ m <= Len(b) /\ m + n \in Nat
    BY BytesOf
  <1> DEFINE p == SubSeq(b, 1, m)
             q == SubSeq(b, 1, m + n)
  <1>1. p \in Contents /\ Len(p) = m /\ \A i \in 1 .. m : p[i] = b[i]
    BY <1>0, FirstPart
  <1>2. q \in Contents /\ Len(q) = m + n /\ \A i \in 1 .. m + n : q[i] = b[i]
    BY <1>0, FirstPart
  <1> HIDE DEF p, q
  <1>3. /\ p \o c \in Contents /\ Len(p \o c) = m + n
        /\ \A i \in 1 .. m + n : (p \o c)[i] = IF i <= m THEN p[i] ELSE c[i - m]
    BY <1>1, ConcatProperties DEF Contents
  <1>4. ASSUME NEW i \in 1 .. m + n PROVE (p \o c)[i] = q[i]
    <2>1. CASE i <= m
      BY <1>1, <1>2, <1>3, <2>1
    <2>2. CASE ~(i <= m)
      <3>1. i - m \in 1 .. n /\ m + (i - m) = i
        BY <2>2
      <3>2. c[i - m] = b[m + (i - m)]
        BY <3>1 DEF Lies
      <3> QED BY <1>2, <1>3, <2>2, <3>1, <3>2
    <2> QED BY <2>1, <2>2
  <1>5. p \o c = q
    BY <1>2, <1>3, <1>4, SameBytes
  <1> QED BY <1>5 DEF p, q

LEMMA TextBytes ==
  ASSUME NEW file, NEW b \in Contents
  PROVE  /\ Text(file, b) \in Contents /\ Len(Text(file, b)) = Len(b)
         /\ \A i \in 1 .. Len(b) :
              Text(file, b)[i] = IF Ext[PathOf(file)] = "zdata"
                                 THEN (b[i] + Mask(Seeds(Seed0)[i])) % 2 ELSE b[i]
  <1>1. Seed0 \in Words
    BY WordAssumption
  <1> QED BY <1>1, DecodeBytes DEF Text, Plain

(* What is read from position pos on, decoded with the state of pos. *)
LEMMA ReadsOn ==
  ASSUME NEW file, NEW b \in Contents, NEW pos \in Nat, NEW n \in Nat, pos + n <= Len(b),
         Ext[PathOf(file)] = "zdata"
  PROVE  /\ Decode(SeedAfter(pos), SubSeq(b, pos + 1, pos + n)) \in Contents
         /\ Len(Decode(SeedAfter(pos), SubSeq(b, pos + 1, pos + n))) = n
         /\ Lies(Decode(SeedAfter(pos), SubSeq(b, pos + 1, pos + n)), Text(file, b), pos)
  <1> DEFINE d == SubSeq(b, pos + 1, pos + n)
             s == SeedAfter(pos)
  <1>1. d \in Contents /\ Len(d) = n /\ \A i \in 1 .. n : d[i] = b[pos + i]
    BY Part
  <1>2. Seed0 \in Words
    BY WordAssumption
  <1>3. s = Seeds(Seed0)[pos] /\ s \in Words
    <2>1. s = Seeds(Seed0)[pos]
      BY JumpsAreSteps
    <2>2. Seeds(Seed0)[pos] \in Words
      BY <1>2, SeedsStep
    <2> QED BY <2>1, <2>2
  <1> HIDE DEF d, s
  <1>4. /\ Decode(s, d) \in Contents /\ Len(Decode(s, d)) = n
        /\ \A i \in 1 .. n : Decode(s, d)[i] = (d[i] + Mask(Seeds(s)[i])) % 2
    BY <1>1, <1>3, DecodeBytes
  <1>5. ASSUME NEW i \in 1 .. n PROVE Decode(s, d)[i] = Text(file, b)[pos + i]
    <2>1. i \in Nat /\ pos + i \in 1 .. Len(b)
      BY BytesOf
    <2>2. Seeds(s)[i] = Seeds(Seed0)[pos + i]
      BY <1>2, <1>3, <2>1, SeedsAdd
    <2>3. Text(file, b)[pos + i] = (b[pos + i] + Mask(Seeds(Seed0)[pos + i])) % 2
      BY <2>1, TextBytes
    <2> QED BY <1>1, <1>4, <2>2, <2>3
  <1>6. Lies(Decode(s, d), Text(file, b), pos)
    BY <1>4, <1>5 DEF Lies
  <1> QED BY <1>4, <1>6 DEF d, s
-----------------------------------------------------------------------------
(***************************************************************************)
(* The invariant.  Which points of a call go with which requests, what is  *)
(* open there, and that a handle is known to the connection it is on.      *)
(***************************************************************************)
Trying == {"rewind", "end", "size", "begin", "read", "decode"}
Typing == {"tell", "look", "peek", "back"}
Loading == Trying \union Typing \union {"opened"}
SavePoints == {"create", "copy", "write", "flush"}
Alive == uf.conn \in up \union {Disk}

Stands ==
  /\ ~At("idle") => call.op # "none"
  /\ call.op # "none" => call.file \in Stored
  /\ call.op = "save" => call.to \in Stored
  /\ call.at \in Loading \union {"rescan", "reconnect"} => call.op = "load"
  /\ call.at \in SavePoints => call.op = "save"
  /\ At("reconnect") => call.fs \in Fs
  /\ call.at \in {"idle", "open"} => uf = Closed
  /\ call.at \in Loading \union SavePoints \union {"rescan"} => uf # Closed

FileRead ==
  /\ uf = Closed => src = Closed
  /\ uf # Closed => /\ src # Closed <=> Alive
                    /\ store[call.file] \in Contents
                    /\ call.op = "load" /\ ~At("opened") =>
                         (uf.z <=> Ext[PathOf(call.file)] = "zdata")
                    /\ call.op = "save" \/ At("opened") => ~uf.z
  /\ src # Closed => src.conn = uf.conn /\ src.file = call.file

FileWritten ==
  call.at \in {"copy", "write", "flush"} =>
    dst # Closed /\ dst.file = call.to /\ store[call.to] \in Contents

\* Before bytes are decoded the generator is where the file is.
InStep ==
  (At("read") \/ At("peek")) /\ src # Closed =>
    /\ At("peek") => src.pos = 0
    /\ uf.z => uf.seed = SeedAfter(src.pos)

\* As long as no other program writes: the size is that of the file, what was
\* read is the beginning of its text, and an image that is kept is all of it.
Whole == Text(call.file, call.orig)
BytesLoaded ==
  call.op = "load" /\ ~call.touched =>
    /\ uf # Closed => call.orig = store[call.file]
    /\ At("size") /\ src # Closed => src.pos = Len(call.orig)
    /\ call.at \in {"begin", "read", "decode"} => call.size = Len(call.orig) /\ call.size > 0
    /\ At("read") => src # Closed /\ src.pos = Len(call.got)
    /\ call.at \in {"read", "decode"} => call.got = SubSeq(Whole, 1, Len(call.got))
    /\ At("rescan") \/ (At("reconnect") /\ uf # Closed) \/ (call.at \in {"close", "idle"} /\ call.ok)
         => doc.image.data = Whole

\* Which attempt it is, and which codec it tries.
Attempts ==
  /\ At("open") \/ (At("reconnect") /\ uf = Closed) => call.orig = <<>> /\ call.first
  /\ At("reconnect") => call.failed
  /\ call.at \in Trying /\ call.first => call.codec = Ext[PathOf(call.file)]
  /\ call.at \in {"read", "decode"} => Len(call.got) <= call.size
  /\ call.at \in {"opened", "tell"} => call.first
  /\ call.at \in {"look", "peek", "back"} => ~call.first

\* No request has failed: the handle lives, and the second attempt has the codec
\* that knows the bytes.
Healthy ==
  call.op = "load" /\ ~call.touched /\ ~call.failed /\ call.orig # <<>> =>
    /\ call.at \in Loading => src # Closed
    /\ call.at \in Typing => Kind[Whole[1]] # Ext[PathOf(call.file)]
    /\ (call.at \in Trying /\ ~call.first) \/ At("back") => call.codec = Kind[Whole[1]]
    /\ At("decode") => Len(call.got) = call.size
    /\ call.at \in {"close", "idle"} => call.ok

\* A copy: what is written is the beginning of the file, and what is in the
\* buffer goes on from there.
Copied(n) == n <= Len(call.orig) /\ store[call.to] = SubSeq(call.orig, 1, n)
BytesSaved ==
  call.op = "save" /\ ~call.touched /\ call.to # call.file =>
    /\ call.at \in SavePoints => store[call.file] = call.orig
    /\ At("create") /\ src # Closed => src.pos = 0
    /\ call.at \in {"copy", "write", "flush"} => Copied(dst.pos)
    /\ At("copy") /\ src # Closed => src.pos = dst.pos
    /\ At("write") => /\ dst.pos + Len(call.got) <= Len(call.orig)
                      /\ call.got = SubSeq(call.orig, dst.pos + 1, dst.pos + Len(call.got))
                      /\ src # Closed => src.pos = dst.pos + Len(call.got)
    /\ At("flush") /\ ~call.failed => dst.pos = Len(call.orig)
    /\ call.at \in {"close", "idle"} /\ call.ok =>
         /\ IsPrefix(store[call.to], call.orig)
         /\ ~call.failed => store[call.to] = call.orig

Placed == TypeOK /\ Stands /\ FileRead /\ FileWritten
Bytes == InStep /\ BytesLoaded /\ Attempts /\ Healthy /\ BytesSaved
FilesInv == Placed /\ Bytes
-----------------------------------------------------------------------------
(* The fields of a call. *)
CallTyped ==
  /\ call.n \in 0 .. MaxCalls /\ call.op \in {"none", "load", "save"} /\ call.at \in Points
  /\ call.ok \in BOOLEAN /\ call.fs \in Fs \union {Disk} /\ call.file \in Stored \union {None}
  /\ call.to \in Stored \union {None} /\ call.codec \in Types \union {None}
  /\ call.first \in BOOLEAN /\ call.size \in Nat /\ call.got \in Contents
  /\ call.pos \in Nat \union {-1} /\ call.retried \in BOOLEAN /\ call.orig \in Contents
  /\ call.touched \in BOOLEAN /\ call.failed \in BOOLEAN

LEMMA CallFields ==
  ASSUME call \in CallRecord
  PROVE  CallTyped
  BY DEF CallRecord, CallTyped

\* The file, the copy and the contents that the call is about.
SameRequest ==
  /\ call'.n = call.n /\ call'.op = call.op /\ call'.fs = call.fs /\ call'.file = call.file
  /\ call'.to = call.to /\ call'.orig = call.orig /\ call'.touched = call.touched

\* A field of the record changes.
LEMMA PutAt ==
  ASSUME NEW c \in CallRecord, NEW point \in Points, NEW failed \in BOOLEAN
  PROVE  [c EXCEPT !.at = point, !.failed = failed] \in CallRecord
  BY DEF CallRecord

LEMMA PutOk ==
  ASSUME NEW c \in CallRecord, NEW ok \in BOOLEAN
  PROVE  [c EXCEPT !.ok = ok] \in CallRecord
  BY DEF CallRecord

LEMMA ThenFields ==
  ASSUME call \in CallRecord, NEW point \in Points, NEW r, Then(point, r)
  PROVE  /\ call' \in CallRecord /\ SameRequest /\ call'.at = point
         /\ call'.failed = (call.failed \/ r # "ok")
         /\ call'.ok = call.ok /\ call'.codec = call.codec /\ call'.first = call.first
         /\ call'.size = call.size /\ call'.got = call.got /\ call'.pos = call.pos
         /\ call'.retried = call.retried
  <1> DEFINE f == call.failed \/ r # "ok"
  <1>1. f \in BOOLEAN
    OBVIOUS
  <1>2. call' = [call EXCEPT !.at = point, !.failed = f]
    BY DEF Then
  <1> HIDE DEF f
  <1>3. call' \in CallRecord
    BY <1>1, <1>2, PutAt
  <1>4. DOMAIN call = {"n", "op", "at", "ok", "fs", "file", "to", "codec", "first", "size",
                      "got", "pos", "retried", "orig", "touched", "failed"}
    BY DEF CallRecord
  <1>5. SameRequest /\ call'.at = point
    BY <1>2, <1>4 DEF SameRequest
  <1>6. call'.failed = f
    BY <1>2, <1>4
  <1>7. /\ call'.ok = call.ok /\ call'.codec = call.codec /\ call'.first = call.first
        /\ call'.size = call.size /\ call'.got = call.got /\ call'.pos = call.pos
        /\ call'.retried = call.retried
    BY <1>2, <1>4
  <1> QED BY <1>3, <1>5, <1>6, <1>7 DEF f

LEMMA EndsFields ==
  ASSUME call \in CallRecord, NEW ok \in BOOLEAN, NEW r, Ends(ok, r)
  PROVE  /\ call' \in CallRecord /\ SameRequest /\ call'.at = "close" /\ call'.ok = ok
         /\ call'.failed = (call.failed \/ r # "ok")
         /\ call'.codec = call.codec /\ call'.first = call.first
         /\ call'.size = call.size /\ call'.got = call.got /\ call'.pos = call.pos
         /\ call'.retried = call.retried
  <1> DEFINE f == call.failed \/ r # "ok"
  <1>1. f \in BOOLEAN /\ "close" \in Points
    BY DEF Points
  <1>2. DOMAIN call = {"n", "op", "at", "ok", "fs", "file", "to", "codec", "first", "size",
                      "got", "pos", "retried", "orig", "touched", "failed"}
    BY DEF CallRecord
  <1>3. call' = [call EXCEPT !.at = "close", !.ok = ok, !.failed = f]
    BY DEF Ends
  <1> HIDE DEF f
  <1>4. call' = [[call EXCEPT !.ok = ok] EXCEPT !.at = "close", !.failed = f]
    BY <1>3
  <1>5. [call EXCEPT !.ok = ok] \in CallRecord
    BY PutOk
  <1>6. call' \in CallRecord
    BY <1>1, <1>4, <1>5, PutAt
  <1>7. SameRequest /\ call'.at = "close"
    BY <1>2, <1>3 DEF SameRequest
  <1>8. call'.failed = f /\ call'.ok = ok
    BY <1>2, <1>3
  <1>9. /\ call'.codec = call.codec /\ call'.first = call.first
        /\ call'.size = call.size /\ call'.got = call.got /\ call'.pos = call.pos
        /\ call'.retried = call.retried
    BY <1>2, <1>3
  <1> QED BY <1>6, <1>7, <1>8, <1>9 DEF f

LEMMA ReplyKinds ==
  ASSUME NEW c, NEW r \in Replies(c)
  PROVE  /\ r \in Answers
         /\ r # "lost" => c \in up \union {Disk}
         /\ r = "lost" => c # Disk
         /\ c \in up \union {Disk} => "ok" \in Replies(c)
  BY DEF Replies, Answers

(* After a request: the handle stands where it stood or where it was put,  *)
(* or the connection is gone and the handle with it.                       *)
LEMMA Requested ==
  ASSUME TypeOK, FileRead, uf # Closed,
         NEW r, r # "lost" => Alive, r = "lost" => uf.conn # Disk,
         NEW handle, NEW n \in Nat,
         src # Closed => /\ handle \in Handles(Conns \union {Disk}) /\ handle.conn = src.conn
                         /\ handle.file = src.file /\ handle.pos = n,
         Survives(uf.conn, r), Keeps(r, handle), uf'.conn = uf.conn
  PROVE  /\ up' \subseteq Conns
         /\ src' = Closed \/ src' \in Handles(Conns \union {Disk})
         /\ src' # Closed <=> Alive'
         /\ r # "lost" => src # Closed /\ src' # Closed
         /\ src' # Closed => /\ r # "lost" /\ src # Closed
                             /\ src'.conn = uf.conn /\ src'.file = call.file /\ src'.pos = n
  <1> QED BY DEF TypeOK, FileRead, Survives, Keeps, Alive, Handles, Closed
-----------------------------------------------------------------------------
(***************************************************************************)
(* Seeks.  A handle goes where it was put or is lost, and the generator    *)
(* with it (ZDataFile::seek()).                                            *)
(***************************************************************************)
UfType == [conn : Conns \union {Disk}, z : BOOLEAN, seed : Words]

LEMMA SeedAfterWord ==
  ASSUME NEW n \in Nat
  PROVE  SeedAfter(n) \in Words
  <1>1. Seed0 \in Words
    BY WordAssumption
  <1>2. Seeds(Seed0)[n] \in Words
    BY <1>1, SeedsStep
  <1>3. SeedAfter(n) = Seeds(Seed0)[n]
    BY JumpsAreSteps
  <1> QED BY <1>2, <1>3

UfKept == uf' # Closed /\ uf' \in UfType /\ uf'.conn = uf.conn /\ uf'.z = uf.z
SrcSound ==
  /\ up' \subseteq Conns
  /\ src' = Closed \/ src' \in Handles(Conns \union {Disk})
  /\ src' # Closed <=> Alive'
  /\ src' # Closed => src # Closed /\ src'.conn = uf.conn /\ src'.file = call.file

LEMMA SeekEffect ==
  ASSUME TypeOK, FileRead, uf # Closed, NEW target, src # Closed => target \in Nat,
         NEW answer, Seek(target, answer)
  PROVE  /\ answer \in Answers /\ SrcSound /\ UfKept
         /\ answer # "lost" => src # Closed /\ src' # Closed
         /\ answer = "ok" => src'.pos = target /\ (uf.z => uf'.seed = SeedAfter(target))
  <1>1. PICK r \in Replies(uf.conn) :
          /\ answer \in IF uf.z /\ r = "ok" THEN Replies(uf.conn) ELSE {r}
          /\ Survives(uf.conn, answer)
          /\ Keeps(answer, IF r = "ok" THEN [src EXCEPT !.pos = target] ELSE src)
          /\ uf' = IF uf.z /\ answer = "ok" THEN [uf EXCEPT !.seed = SeedAfter(target)] ELSE uf
    BY DEF Seek
  <1>2. /\ answer \in Replies(uf.conn) /\ (answer = "ok" => r = "ok")
    BY <1>1
  <1>3. /\ answer \in Answers /\ (answer # "lost" => Alive) /\ (answer = "lost" => uf.conn # Disk)
        /\ (r = "ok" => Alive)
    BY <1>2, ReplyKinds DEF Alive
  <1>4. uf \in UfType
    BY DEF TypeOK, UfType
  <1>5. answer # "lost" => src # Closed
    BY <1>3 DEF FileRead
  <1>6. UfKept /\ (answer = "ok" /\ uf.z => uf'.seed = SeedAfter(target))
    <2>1. CASE uf.z /\ answer = "ok"
      <3>1. SeedAfter(target) \in Words
        BY <1>5, <2>1, SeedAfterWord
      <3> QED BY <1>1, <1>4, <2>1, <3>1 DEF UfKept, UfType, Closed
    <2>2. CASE ~(uf.z /\ answer = "ok")
      BY <1>1, <1>4, <2>2 DEF UfKept
    <2> QED BY <2>1, <2>2
  <1> DEFINE handle == IF r = "ok" THEN [src EXCEPT !.pos = target] ELSE src
             n == IF src # Closed THEN IF r = "ok" THEN target ELSE src.pos ELSE 0
  <1>7. n \in Nat
    BY DEF TypeOK, Handles
  <1>8. src # Closed => /\ handle \in Handles(Conns \union {Disk}) /\ handle.conn = src.conn
                        /\ handle.file = src.file /\ handle.pos = n
    BY DEF TypeOK, Handles
  <1>9. Survives(uf.conn, answer) /\ Keeps(answer, handle) /\ uf'.conn = uf.conn
    BY <1>1, <1>6 DEF UfKept
  <1> HIDE DEF handle, n
  <1>10. /\ SrcSound /\ (answer # "lost" => src # Closed /\ src' # Closed)
         /\ src' # Closed => src'.pos = n
    BY <1>3, <1>7, <1>8, <1>9, Requested DEF SrcSound
  <1>11. answer = "ok" => n = target
    BY <1>2, <1>5 DEF n
  <1> QED BY <1>3, <1>6, <1>10, <1>11

(* A step of open() while it reads or guesses the type. *)
LoadStep ==
  /\ call.at \in Trying \union Typing /\ UNCHANGED <<store, edits, fsys, dst, doc>>
  /\ SrcSound /\ UfKept
  /\ call' \in CallRecord /\ SameRequest /\ call'.at \in Trying \union Typing \union {"close"}

LEMMA LoadStepPlaced ==
  ASSUME Placed, LoadStep
  PROVE  /\ Placed' /\ BytesSaved'
         /\ call.op = "load" /\ call'.op = "load" /\ uf # Closed /\ uf' # Closed
         /\ Whole' = Whole
  <1>1. call.op = "load" /\ uf # Closed /\ call.at # "opened" /\ call.file \in Stored
    BY DEF Placed, Stands, LoadStep, Loading, At, Trying, Typing
  <1>2. TypeOK'
    BY DEF Placed, TypeOK, LoadStep, SrcSound, UfKept, UfType
  <1>3. Stands'
    BY <1>1 DEF Stands, LoadStep, SameRequest, UfKept, At, Trying, Typing, Loading, SavePoints
  <1>4. FileRead'
    BY <1>1 DEF Placed, FileRead, LoadStep, SrcSound, UfKept, SameRequest, At, Trying, Typing
  <1>5. FileWritten'
    BY DEF FileWritten, LoadStep, Trying, Typing
  <1> QED BY <1>1, <1>2, <1>3, <1>4, <1>5
          DEF Placed, BytesSaved, LoadStep, SameRequest, Whole, UfKept

LEMMA RewindsInv ==
  ASSUME FilesInv, Rewinds
  PROVE  FilesInv'
  <1>1. PICK r \in Answers : Seek(0, r) /\ Then("end", r)
    BY DEF Rewinds
  <1>2. At("rewind") /\ UNCHANGED <<store, edits, fsys, dst, doc>>
    BY DEF Rewinds
  <1>3. call \in CallRecord /\ CallTyped /\ TypeOK /\ FileRead /\ Placed /\ uf # Closed /\ "end" \in Points
    BY <1>2, CallFields DEF FilesInv, Placed, TypeOK, Stands, Loading, Trying, At, Points
  <1>4. /\ SrcSound /\ UfKept /\ (r # "lost" => src' # Closed)
    BY <1>1, <1>3, SeekEffect
  <1>5. /\ call' \in CallRecord /\ SameRequest /\ call'.at = "end"
        /\ call'.failed = (call.failed \/ r # "ok")
        /\ call'.ok = call.ok /\ call'.codec = call.codec /\ call'.first = call.first
    BY <1>1, <1>3, ThenFields
  <1>6. LoadStep
    BY <1>2, <1>4, <1>5 DEF LoadStep, Trying, At
  <1>7. /\ Placed' /\ BytesSaved' /\ call.op = "load" /\ call'.op = "load" /\ uf' # Closed
        /\ Whole' = Whole
    BY <1>3, <1>6, LoadStepPlaced
  <1>8. InStep'
    BY <1>5 DEF InStep, At
  <1>11. Attempts'
    BY <1>2, <1>5 DEF FilesInv, Bytes, Attempts, At, Trying, SameRequest
  <1>9. BytesLoaded'
    BY <1>2, <1>3, <1>5, <1>7 DEF FilesInv, Bytes, BytesLoaded, SameRequest, At
  <1>10. Healthy'
    BY <1>2, <1>4, <1>5, <1>7 DEF FilesInv, Bytes, Healthy, SameRequest, At, Loading, Trying, Typing
  <1> QED BY <1>7, <1>8, <1>9, <1>10, <1>11 DEF FilesInv, Bytes

\* A load may fail for what another program or a request did, or an empty file.
Excused(r) == call.touched \/ call.failed \/ r # "ok" \/ call.orig = <<>>

\* A request of open(): the handle and the generator move, nothing else but the call.
Request ==
  /\ call.at \in Trying \union Typing /\ UNCHANGED <<store, edits, fsys, dst, doc>>
  /\ SrcSound /\ UfKept

LEMMA LoadContext ==
  ASSUME FilesInv, call.at \in Trying \union Typing
  PROVE  /\ call \in CallRecord /\ CallTyped /\ TypeOK /\ FileRead /\ Placed
         /\ uf # Closed /\ call.op = "load" /\ call.file \in Stored
         /\ InStep /\ BytesLoaded /\ Attempts /\ Healthy
  <1>1. call \in CallRecord /\ TypeOK /\ FileRead /\ Placed
    BY DEF FilesInv, Placed, TypeOK
  <1>2. CallTyped
    BY <1>1, CallFields
  <1>3. uf # Closed /\ call.op = "load" /\ call.file \in Stored
    BY DEF FilesInv, Placed, Stands, Trying, Typing, Loading, At
  <1> QED BY <1>1, <1>2, <1>3 DEF FilesInv, Bytes

LEMMA LoadEnds ==
  ASSUME FilesInv, Request, NEW r, Ends(FALSE, r), Excused(r)
  PROVE  FilesInv'
  <1>1. call \in CallRecord /\ CallTyped /\ Placed /\ BytesLoaded
    BY LoadContext DEF Request
  <1>2. /\ call' \in CallRecord /\ SameRequest /\ call'.at = "close" /\ call'.ok = FALSE
        /\ call'.failed = (call.failed \/ r # "ok")
    BY <1>1, EndsFields
  <1>3. LoadStep
    BY <1>2 DEF LoadStep, Request
  <1>4. /\ Placed' /\ BytesSaved' /\ call.op = "load" /\ call'.op = "load" /\ uf # Closed
        /\ uf' # Closed /\ Whole' = Whole
    BY <1>1, <1>3, LoadStepPlaced
  <1>5. InStep' /\ Attempts'
    BY <1>2 DEF InStep, Attempts, At, Trying
  <1>6. BytesLoaded'
    BY <1>1, <1>2, <1>4 DEF BytesLoaded, SameRequest, At, Request
  <1>7. Healthy'
    BY <1>1, <1>2 DEF Healthy, SameRequest, Excused, CallTyped
  <1> QED BY <1>4, <1>5, <1>6, <1>7 DEF FilesInv, Bytes

LEMMA LoadFails ==
  ASSUME FilesInv, Request, call.at \in Trying, NEW r, AttemptFails(r),
         \/ Excused(r)
         \/ call.first /\ src' # Closed /\ Kind[Whole[1]] # Ext[PathOf(call.file)]
  PROVE  FilesInv'
  <1>1. call \in CallRecord /\ CallTyped /\ Placed /\ BytesLoaded /\ Attempts
    BY LoadContext DEF Request
  <1>2. CASE call.first
    <2>1. Then("tell", r) /\ "tell" \in Points
      BY <1>2 DEF AttemptFails, Points
    <2>2. /\ call' \in CallRecord /\ SameRequest /\ call'.at = "tell"
          /\ call'.failed = (call.failed \/ r # "ok") /\ call'.first
      BY <1>1, <1>2, <2>1, ThenFields
    <2>3. LoadStep
      BY <2>2 DEF LoadStep, Request, Typing
    <2>4. /\ Placed' /\ BytesSaved' /\ call.op = "load" /\ call'.op = "load" /\ uf # Closed
          /\ uf' # Closed /\ Whole' = Whole
      BY <1>1, <2>3, LoadStepPlaced
    <2>5. InStep' /\ Attempts'
      BY <2>2 DEF InStep, Attempts, At, Trying
    <2>6. BytesLoaded'
      BY <1>1, <2>2, <2>4 DEF BytesLoaded, SameRequest, At, Request
    <2>7. Healthy'
      BY <1>1, <2>2, <2>4 DEF Healthy, SameRequest, Excused, CallTyped, Trying, At
    <2> QED BY <2>4, <2>5, <2>6, <2>7 DEF FilesInv, Bytes
  <1>3. CASE ~call.first
    BY <1>3, LoadEnds DEF AttemptFails
  <1> QED BY <1>2, <1>3

LEMMA GoesOn ==
  ASSUME FilesInv, Request, call' \in CallRecord, SameRequest,
         call'.at \in Trying \union Typing,
         InStep', Attempts',
         Whole' = Whole /\ uf' # Closed => BytesLoaded' /\ Healthy'
  PROVE  FilesInv'
  <1>1. LoadStep
    BY DEF LoadStep, Request
  <1>2. Placed' /\ BytesSaved' /\ uf' # Closed /\ Whole' = Whole
    BY <1>1, LoadStepPlaced, LoadContext DEF Request
  <1> QED BY <1>2 DEF FilesInv, Bytes

LEMMA SeeksEndInv ==
  ASSUME FilesInv, SeeksEnd
  PROVE  FilesInv'
  <1>1. PICK r \in Answers :
          /\ Seek(Len(store[src.file]), r)
          /\ IF r = "ok" THEN Then("size", r) ELSE AttemptFails(r)
    BY DEF SeeksEnd
  <1>2. At("end") /\ UNCHANGED <<store, edits, fsys, dst, doc>> /\ call.at \in Trying
    BY DEF SeeksEnd, At, Trying
  <1>3. /\ call \in CallRecord /\ CallTyped /\ TypeOK /\ FileRead /\ uf # Closed
        /\ call.op = "load" /\ BytesLoaded /\ Attempts /\ Healthy
    BY <1>2, LoadContext
  <1>4. src # Closed => src.file = call.file /\ Len(store[src.file]) \in Nat
    BY <1>3, BytesOf DEF FileRead
  <1>5. /\ SrcSound /\ UfKept /\ (r # "lost" => src' # Closed)
        /\ r = "ok" => src # Closed /\ src'.pos = Len(store[src.file])
    BY <1>1, <1>3, <1>4, SeekEffect
  <1>6. Request
    BY <1>2, <1>5 DEF Request
  <1>7. CASE r = "ok"
    <2>1. Then("size", r) /\ "size" \in Points
      BY <1>1, <1>7 DEF Points
    <2>2. /\ call' \in CallRecord /\ SameRequest /\ call'.at = "size"
          /\ call'.failed = (call.failed \/ r # "ok")
          /\ call'.codec = call.codec /\ call'.first = call.first
      BY <1>3, <2>1, ThenFields
    <2>3. InStep'
      BY <2>2 DEF InStep, At
    <2>4. Attempts'
      BY <1>2, <1>3, <2>2 DEF Attempts, At, Trying, SameRequest
    <2>5. ASSUME Whole' = Whole, uf' # Closed PROVE BytesLoaded'
      BY <1>2, <1>3, <1>4, <1>5, <1>7, <2>2 DEF BytesLoaded, SameRequest, At
    <2>6. ASSUME Whole' = Whole PROVE Healthy'
      BY <1>2, <1>3, <1>5, <1>7, <2>2, <2>6 DEF Healthy, SameRequest, At, Loading, Trying, Typing
    <2> QED BY <1>6, <2>2, <2>3, <2>4, <2>5, <2>6, GoesOn DEF Trying
  <1>8. CASE r # "ok"
    BY <1>1, <1>2, <1>6, <1>8, LoadFails DEF Excused
  <1> QED BY <1>7, <1>8

LEMMA PutSize ==
  ASSUME NEW c \in CallRecord, NEW point \in Points, NEW size \in Nat
  PROVE  [c EXCEPT !.at = point, !.size = size] \in CallRecord
  BY DEF CallRecord

LEMMA SizeFields ==
  ASSUME NEW size \in Nat, call \in CallRecord,
         call' = [call EXCEPT !.at = "begin", !.size = size]
  PROVE  /\ call' \in CallRecord /\ SameRequest /\ call'.at = "begin" /\ call'.size = size
         /\ call'.failed = call.failed /\ call'.codec = call.codec /\ call'.first = call.first
  <1>1. "begin" \in Points
    BY DEF Points
  <1>2. call' \in CallRecord
    BY <1>1, PutSize
  <1>3. DOMAIN call = {"n", "op", "at", "ok", "fs", "file", "to", "codec", "first", "size",
                      "got", "pos", "retried", "orig", "touched", "failed"}
    BY DEF CallRecord
  <1>4. SameRequest
    BY <1>3 DEF SameRequest
  <1> QED BY <1>2, <1>3, <1>4

LEMMA AnswerEffect ==
  ASSUME TypeOK, FileRead, uf # Closed, NEW r \in Replies(uf.conn),
         Survives(uf.conn, r), Keeps(r, src), uf'.conn = uf.conn
  PROVE  /\ SrcSound /\ (r # "lost" => src # Closed /\ src' = src)
         /\ src' # Closed => src' = src
  <1>1. /\ (r # "lost" => Alive) /\ (r = "lost" => uf.conn # Disk)
    BY ReplyKinds DEF Alive
  <1>2. up' \subseteq Conns
    BY DEF TypeOK, Survives
  <1>3. CASE r = "lost"
    BY <1>1, <1>2, <1>3 DEF SrcSound, Survives, Keeps, Alive
  <1>4. CASE r # "lost"
    BY <1>1, <1>2, <1>4 DEF SrcSound, TypeOK, FileRead, Survives, Keeps, Alive
  <1> QED BY <1>3, <1>4

LEMMA TellsSizeInv ==
  ASSUME FilesInv, TellsSize
  PROVE  FilesInv'
  <1>1. PICK r \in Replies(uf.conn) :
          /\ Survives(uf.conn, r) /\ Keeps(r, src)
          /\ IF r = "ok" /\ src.pos > 0
             THEN call' = [call EXCEPT !.at = "begin", !.size = src.pos] ELSE AttemptFails(r)
    BY DEF TellsSize
  <1>2. At("size") /\ UNCHANGED <<store, edits, fsys, uf, dst, doc>> /\ call.at \in Trying
    BY DEF TellsSize, At, Trying
  <1>3. /\ call \in CallRecord /\ CallTyped /\ TypeOK /\ FileRead /\ uf # Closed
        /\ call.op = "load" /\ BytesLoaded /\ Attempts /\ Healthy
    BY <1>2, LoadContext
  <1>4. /\ SrcSound /\ (r # "lost" => src # Closed /\ src' = src)
    BY <1>1, <1>2, <1>3, AnswerEffect
  <1>5. Request
    BY <1>2, <1>3, <1>4 DEF Request, UfKept, TypeOK, UfType
  <1>6. CASE r = "ok" /\ src.pos > 0
    <2>1. call' = [call EXCEPT !.at = "begin", !.size = src.pos] /\ src.pos \in Nat /\ src' = src
      BY <1>1, <1>3, <1>4, <1>6 DEF TypeOK, Handles
    <2>2. /\ call' \in CallRecord /\ SameRequest /\ call'.at = "begin" /\ call'.size = src.pos
          /\ call'.failed = call.failed /\ call'.codec = call.codec /\ call'.first = call.first
      BY <1>3, <2>1, SizeFields
    <2>3. InStep'
      BY <2>2 DEF InStep, At
    <2>4. Attempts'
      BY <1>2, <1>3, <2>2 DEF Attempts, At, Trying, SameRequest
    <2>5. ASSUME Whole' = Whole, uf' # Closed PROVE BytesLoaded'
      BY <1>2, <1>3, <1>4, <1>6, <2>2 DEF BytesLoaded, SameRequest, At
    <2>6. ASSUME Whole' = Whole PROVE Healthy'
      BY <1>2, <1>3, <1>4, <1>6, <2>2, <2>6 DEF Healthy, SameRequest, At, Loading, Trying, Typing
    <2> QED BY <1>5, <2>2, <2>3, <2>4, <2>5, <2>6, GoesOn DEF Trying
  <1>7. CASE ~(r = "ok" /\ src.pos > 0)
    <2>1. Excused(r)
      <3>1. CASE r = "ok" /\ ~call.touched
        <4>1. src # Closed /\ src.pos = Len(call.orig) /\ ~(src.pos > 0) /\ call.orig \in Contents
          BY <1>2, <1>3, <1>4, <1>7, <3>1 DEF BytesLoaded, CallTyped
        <4>2. Len(call.orig) = 0
          BY <4>1, BytesOf
        <4> QED BY <4>1, <4>2 DEF Excused, Contents
      <3> QED BY <3>1 DEF Excused
    <2> QED BY <1>1, <1>2, <1>5, <1>7, <2>1, LoadFails
  <1> QED BY <1>6, <1>7
-----------------------------------------------------------------------------
(***************************************************************************)
(* Reads.  What a server may send, and what is decoded of it.              *)
(***************************************************************************)
LEMMA MinOfTwo ==
  ASSUME NEW a \in Int, NEW b \in Int
  PROVE  Min({a, b}) = IF a <= b THEN a ELSE b
  <1>1. CASE a <= b
    <2>1. a \in {a, b} /\ \A y \in {a, b} : a <= y
      BY <1>1
    <2>2. \A x \in {a, b} : (\A y \in {a, b} : x <= y) => x = a
      BY <1>1
    <2> QED BY <1>1, <2>1, <2>2 DEF Min
  <1>2. CASE ~(a <= b)
    <2>1. b \in {a, b} /\ \A y \in {a, b} : b <= y
      BY <1>2
    <2>2. \A x \in {a, b} : (\A y \in {a, b} : x <= y) => x = b
      BY <1>2
    <2> QED BY <1>2, <2>1, <2>2 DEF Min
  <1> QED BY <1>1, <1>2

(* A part that begins past the end is empty. *)
LEMMA EmptyPart ==
  ASSUME NEW b \in Contents, NEW m \in Int, NEW n \in Int, m > n
  PROVE  SubSeq(b, m, n) = <<>>
  <1>1. \A i \in m .. n : b[i] \in Bit
    OBVIOUS
  <1>2. SubSeq(b, m, n) \in Seq(Bit) /\ Len(SubSeq(b, m, n)) = 0
    BY <1>1, SubSeqProperties
  <1>3. <<>> \in Seq(Bit) /\ Len(<<>>) = 0
    OBVIOUS
  <1> QED BY <1>2, <1>3, SeqEqual

(* What can be read from pos on, and the part of it that is. *)
LEMMA RestBytes ==
  ASSUME NEW b \in Contents, NEW pos \in Nat, NEW limit \in Nat,
         NEW n \in Nat, n <= Len(SubSeq(b, pos + 1, Min({Len(b), pos + limit})))
  PROVE  /\ SubSeq(SubSeq(b, pos + 1, Min({Len(b), pos + limit})), 1, n) = SubSeq(b, pos + 1, pos + n)
         /\ SubSeq(b, pos + 1, pos + n) \in Contents
         /\ Len(SubSeq(b, pos + 1, pos + n)) = n
         /\ n <= limit /\ (n > 0 => pos + n <= Len(b))
         /\ n = Len(SubSeq(b, pos + 1, Min({Len(b), pos + limit}))) =>
              n = limit \/ pos + n >= Len(b)
  <1> DEFINE end == Min({Len(b), pos + limit})
             rest == SubSeq(b, pos + 1, end)
  <1> SUFFICES /\ SubSeq(rest, 1, n) = SubSeq(b, pos + 1, pos + n)
               /\ SubSeq(b, pos + 1, pos + n) \in Contents
               /\ Len(SubSeq(b, pos + 1, pos + n)) = n
               /\ n <= limit /\ (n > 0 => pos + n <= Len(b))
               /\ n = Len(rest) => n = limit \/ pos + n >= Len(b)
    OBVIOUS
  <1>1. Len(b) \in Nat
    BY BytesOf
  <1>2. end = (IF Len(b) <= pos + limit THEN Len(b) ELSE pos + limit) /\ end \in Nat
    BY <1>1, MinOfTwo
  <1>0. n <= Len(rest)
    OBVIOUS
  <1> HIDE DEF end
  <1>3. CASE pos <= end
    <2> DEFINE k == end - pos
    <2>1. k \in Nat /\ pos + k = end /\ pos + k <= Len(b)
      BY <1>1, <1>2, <1>3
    <2> HIDE DEF k
    <2>2. /\ rest \in Contents /\ Len(rest) = k
          /\ \A i \in 1 .. k : rest[i] = b[pos + i]
      BY <2>1, Part
    <2> HIDE DEF rest
    <2>3. n <= k
      BY <1>0, <2>2
    <2>4. pos + n <= Len(b)
      BY <1>1, <2>1, <2>3
    <2>5. /\ SubSeq(rest, 1, n) \in Contents /\ Len(SubSeq(rest, 1, n)) = n
          /\ \A i \in 1 .. n : SubSeq(rest, 1, n)[i] = rest[i]
      BY <2>2, <2>3, FirstPart
    <2>6. /\ SubSeq(b, pos + 1, pos + n) \in Contents /\ Len(SubSeq(b, pos + 1, pos + n)) = n
          /\ \A i \in 1 .. n : SubSeq(b, pos + 1, pos + n)[i] = b[pos + i]
      BY <2>4, Part
    <2>7. ASSUME NEW i \in 1 .. n
          PROVE  SubSeq(rest, 1, n)[i] = SubSeq(b, pos + 1, pos + n)[i]
      <3>1. i \in 1 .. k
        BY <2>1, <2>3
      <3>2. SubSeq(rest, 1, n)[i] = rest[i]
        BY <2>5
      <3>3. rest[i] = b[pos + i]
        BY <2>2, <3>1
      <3>4. SubSeq(b, pos + 1, pos + n)[i] = b[pos + i]
        BY <2>6
      <3> QED BY <3>2, <3>3, <3>4
    <2>8. SubSeq(rest, 1, n) = SubSeq(b, pos + 1, pos + n)
      BY <2>5, <2>6, <2>7, SameBytes
    <2>9. n <= limit /\ (n = k => n = limit \/ pos + n >= Len(b))
      BY <1>1, <1>2, <2>1, <2>3
    <2> QED BY <2>2, <2>4, <2>6, <2>8, <2>9
  <1>4. CASE ~(pos <= end)
    <2>1. rest = <<>>
      BY <1>1, <1>2, <1>4, EmptyPart
    <2> HIDE DEF rest
    <2>2. Len(rest) = 0 /\ rest \in Contents
      BY <2>1 DEF Contents
    <2>3. n = 0
      BY <1>0, <2>2
    <2>4. SubSeq(b, pos + 1, pos + n) = rest
      BY <2>1, <2>3, EmptyPart
    <2>5. SubSeq(rest, 1, n) = rest
      BY <2>1, <2>2, <2>3, EmptyPart
    <2>6. pos + n >= Len(b)
      BY <1>1, <1>2, <1>4, <2>3
    <2>7. n <= limit /\ ~(n > 0)
      BY <2>3
    <2>8. SubSeq(rest, 1, n) = SubSeq(b, pos + 1, pos + n)
      BY <2>4, <2>5
    <2>9. SubSeq(b, pos + 1, pos + n) \in Contents /\ Len(SubSeq(b, pos + 1, pos + n)) = n
      BY <2>2, <2>3, <2>4
    <2> QED BY <2>6, <2>7, <2>8, <2>9, Zenon
  <1> QED BY <1>2, <1>3, <1>4

LEMMA RestType ==
  ASSUME NEW b \in Contents, NEW pos \in Nat, NEW limit \in Nat
  PROVE  Len(SubSeq(b, pos + 1, Min({Len(b), pos + limit}))) \in Nat
  <1> DEFINE end == Min({Len(b), pos + limit})
  <1>1. Len(b) \in Nat
    BY BytesOf
  <1>2. end = (IF Len(b) <= pos + limit THEN Len(b) ELSE pos + limit) /\ end \in Nat
    BY <1>1, MinOfTwo
  <1> HIDE DEF end
  <1>3. \A i \in pos + 1 .. end : b[i] \in Bit
    BY <1>1, <1>2, BytesOf
  <1>4. Len(SubSeq(b, pos + 1, end)) = IF pos + 1 <= end THEN end - (pos + 1) + 1 ELSE 0
    BY <1>2, <1>3, SubSeqProperties
  <1>5. Len(SubSeq(b, pos + 1, end)) \in Nat
    BY <1>2, <1>4
  <1> QED BY <1>5 DEF end

LEMMA ReadKinds ==
  ASSUME TypeOK, FileRead, uf # Closed, NEW limit, src # Closed => limit \in Nat,
         NEW x \in Reads(limit)
  PROVE  /\ x.data \in Contents /\ Len(x.data) \in Nat
         /\ x.reply # "lost" => Alive
         /\ x.reply = "lost" => uf.conn # Disk
         /\ x.reply \notin {"ok", "short"} => x.data = <<>>
         /\ x.reply \in {"ok", "short"} =>
              /\ src # Closed
              /\ x.data = SubSeq(store[call.file], src.pos + 1, src.pos + Len(x.data))
              /\ Len(x.data) <= limit
              /\ Len(x.data) > 0 => src.pos + Len(x.data) <= Len(store[call.file])
         /\ x.reply = "ok" => Len(x.data) = limit \/ src.pos + Len(x.data) >= Len(store[call.file])
  <1>1. CASE \E r \in Replies(uf.conn) \ {"ok"} : x = [reply |-> r, data |-> <<>>]
    <2>1. PICK r \in Replies(uf.conn) \ {"ok"} : x = [reply |-> r, data |-> <<>>]
      BY <1>1
    <2>2. x.reply = r /\ x.data = <<>> /\ r # "ok"
      BY <2>1
    <2>3. r \in Answers /\ (r # "lost" => Alive) /\ (r = "lost" => uf.conn # Disk)
      BY <2>1, ReplyKinds DEF Alive
    <2> QED BY <2>2, <2>3 DEF Answers, Contents
  <1>2. CASE \E n \in IF "ok" \notin Replies(uf.conn) THEN {}
                      ELSE IF uf.conn = Disk THEN {Len(Rest(limit))} ELSE 0 .. Len(Rest(limit)) :
               x = [reply |-> IF n = Len(Rest(limit)) THEN "ok" ELSE "short",
                    data |-> SubSeq(Rest(limit), 1, n)]
    <2>1. PICK n \in IF "ok" \notin Replies(uf.conn) THEN {}
                     ELSE IF uf.conn = Disk THEN {Len(Rest(limit))} ELSE 0 .. Len(Rest(limit)) :
               x = [reply |-> IF n = Len(Rest(limit)) THEN "ok" ELSE "short",
                    data |-> SubSeq(Rest(limit), 1, n)]
      BY <1>2
    <2>2. "ok" \in Replies(uf.conn) /\ n \in {Len(Rest(limit))} \union (0 .. Len(Rest(limit)))
      BY <2>1
    <2>3. Alive /\ src # Closed
      BY <2>2, ReplyKinds DEF Alive, FileRead
    <2> DEFINE b == store[call.file]
               rest == Rest(limit)
    <2>4. b \in Contents /\ src.pos \in Nat /\ limit \in Nat /\ Len(b) \in Nat
      BY <2>3, BytesOf DEF FileRead, TypeOK, Handles
    <2>5. rest = SubSeq(b, src.pos + 1, Min({Len(b), src.pos + limit}))
      BY <2>3 DEF Rest, FileRead
    <2>6. x.reply = (IF n = Len(rest) THEN "ok" ELSE "short") /\ x.data = SubSeq(rest, 1, n)
      BY <2>1
    <2> HIDE DEF b, rest
    <2>7. Len(rest) \in Nat
      BY <2>4, <2>5, RestType
    <2>8. n \in Nat /\ n <= Len(rest)
      BY <2>2, <2>7 DEF rest
    <2>9. /\ SubSeq(rest, 1, n) = SubSeq(b, src.pos + 1, src.pos + n)
          /\ SubSeq(b, src.pos + 1, src.pos + n) \in Contents
          /\ Len(SubSeq(b, src.pos + 1, src.pos + n)) = n
          /\ n <= limit /\ (n > 0 => src.pos + n <= Len(b))
          /\ n = Len(rest) => n = limit \/ src.pos + n >= Len(b)
      <3> DEFINE e == SubSeq(b, src.pos + 1, Min({Len(b), src.pos + limit}))
      <3>1. n <= Len(e)
        BY <2>5, <2>8
      <3>2. /\ SubSeq(e, 1, n) = SubSeq(b, src.pos + 1, src.pos + n)
            /\ SubSeq(b, src.pos + 1, src.pos + n) \in Contents
            /\ Len(SubSeq(b, src.pos + 1, src.pos + n)) = n
            /\ n <= limit /\ (n > 0 => src.pos + n <= Len(b))
            /\ n = Len(e) => n = limit \/ src.pos + n >= Len(b)
        BY <2>4, <2>8, <3>1, RestBytes, Zenon
      <3> QED BY <2>5, <3>2, Zenon
    <2>10. Len(x.data) = n /\ x.data \in Contents /\ x.data = SubSeq(b, src.pos + 1, src.pos + n)
      BY <2>6, <2>9
    <2>11. x.reply \in {"ok", "short"} /\ x.reply # "lost" /\ (x.reply = "ok" => n = Len(rest))
      BY <2>6
    <2> QED BY <2>3, <2>8, <2>9, <2>10, <2>11 DEF b
  <1> QED BY <1>1, <1>2 DEF Reads

LEMMA ReadEffect ==
  ASSUME TypeOK, FileRead, uf # Closed, NEW limit, src # Closed => limit \in Nat,
         NEW x \in Reads(limit), Moves(x)
  PROVE  /\ SrcSound /\ UfKept
         /\ x.reply # "lost" => src # Closed /\ src' # Closed
         /\ src' # Closed => src'.pos = src.pos + Len(x.data)
         /\ uf.z => uf'.seed = Seeds(uf.seed)[Len(x.data)] /\ uf.seed \in Words
  <1>1. /\ x.data \in Contents /\ Len(x.data) \in Nat
        /\ x.reply # "lost" => Alive
        /\ x.reply = "lost" => uf.conn # Disk
    BY ReadKinds
  <1>2. /\ Survives(uf.conn, x.reply)
        /\ Keeps(x.reply, [src EXCEPT !.pos = @ + Len(x.data)])
        /\ uf' = IF uf.z THEN [uf EXCEPT !.seed = Seeds(@)[Len(x.data)]] ELSE uf
    BY DEF Moves
  <1>3. uf \in UfType /\ uf.seed \in Words
    BY DEF TypeOK, UfType
  <1>4. UfKept /\ (uf.z => uf'.seed = Seeds(uf.seed)[Len(x.data)])
    <2>1. CASE uf.z
      <3>1. Seeds(uf.seed)[Len(x.data)] \in Words
        BY <1>1, <1>3, SeedsStep
      <3> QED BY <1>2, <1>3, <2>1, <3>1 DEF UfKept, UfType, Closed
    <2>2. CASE ~uf.z
      BY <1>2, <1>3, <2>2 DEF UfKept
    <2> QED BY <2>1, <2>2
  <1> DEFINE handle == [src EXCEPT !.pos = @ + Len(x.data)]
             n == IF src # Closed THEN src.pos + Len(x.data) ELSE 0
  <1>5. n \in Nat
    BY <1>1 DEF TypeOK, Handles
  <1>6. src # Closed => /\ handle \in Handles(Conns \union {Disk}) /\ handle.conn = src.conn
                        /\ handle.file = src.file /\ handle.pos = n
    BY <1>1 DEF TypeOK, Handles
  <1>7. Survives(uf.conn, x.reply) /\ Keeps(x.reply, handle) /\ uf'.conn = uf.conn
    BY <1>2, <1>4 DEF UfKept
  <1>8. src # Closed => n = src.pos + Len(x.data)
    OBVIOUS
  <1> HIDE DEF handle, n
  <1>9. /\ SrcSound /\ (x.reply # "lost" => src # Closed /\ src' # Closed)
        /\ src' # Closed => src # Closed /\ src'.pos = n
    BY <1>1, <1>5, <1>6, <1>7, Requested DEF SrcSound
  <1> QED BY <1>3, <1>4, <1>8, <1>9

LEMMA PutGot ==
  ASSUME NEW c \in CallRecord, NEW point \in Points, NEW got \in Contents, NEW failed \in BOOLEAN
  PROVE  [c EXCEPT !.got = got, !.failed = failed, !.at = point] \in CallRecord
  BY DEF CallRecord

LEMMA GotFields ==
  ASSUME call \in CallRecord, NEW point \in Points, NEW got \in Contents, NEW failed \in BOOLEAN,
         call' = [call EXCEPT !.got = got, !.failed = failed, !.at = point]
  PROVE  /\ call' \in CallRecord /\ SameRequest /\ call'.at = point /\ call'.got = got
         /\ call'.failed = failed /\ call'.codec = call.codec /\ call'.first = call.first
         /\ call'.size = call.size /\ call'.ok = call.ok
  <1>1. call' \in CallRecord
    BY PutGot
  <1>2. DOMAIN call = {"n", "op", "at", "ok", "fs", "file", "to", "codec", "first", "size",
                      "got", "pos", "retried", "orig", "touched", "failed"}
    BY DEF CallRecord
  <1>3. SameRequest
    BY <1>2 DEF SameRequest
  <1>4. call'.at = point /\ call'.got = got /\ call'.failed = failed
    BY <1>2
  <1>5. /\ call'.codec = call.codec /\ call'.first = call.first
        /\ call'.size = call.size /\ call'.ok = call.ok
    BY <1>2
  <1> QED BY <1>1, <1>3, <1>4, <1>5

LEMMA EmptyBytes ==
  <<>> \in Contents /\ Len(<<>>) = 0
  BY DEF Contents

LEMMA SameFailed ==
  ASSUME NEW c, NEW point, NEW got
  PROVE  [c EXCEPT !.at = point, !.got = got] =
         [c EXCEPT !.got = got, !.failed = c.failed, !.at = point]
  OBVIOUS

LEMMA SeeksBeginInv ==
  ASSUME FilesInv, SeeksBegin
  PROVE  FilesInv'
  <1>1. PICK r \in Answers :
          /\ Seek(0, r)
          /\ IF r = "ok" THEN call' = [call EXCEPT !.at = "read", !.got = <<>>] ELSE AttemptFails(r)
    BY DEF SeeksBegin
  <1>2. At("begin") /\ UNCHANGED <<store, edits, fsys, dst, doc>> /\ call.at \in Trying
    BY DEF SeeksBegin, At, Trying
  <1>3. /\ call \in CallRecord /\ CallTyped /\ TypeOK /\ FileRead /\ uf # Closed
        /\ call.op = "load" /\ BytesLoaded /\ Attempts /\ Healthy
    BY <1>2, LoadContext
  <1>4. /\ SrcSound /\ UfKept /\ (r # "lost" => src' # Closed)
        /\ r = "ok" => src'.pos = 0 /\ (uf.z => uf'.seed = SeedAfter(0))
    BY <1>1, <1>3, SeekEffect
  <1>5. Request
    BY <1>2, <1>4 DEF Request
  <1>6. CASE r = "ok"
    <2>1. call' = [call EXCEPT !.got = <<>>, !.failed = call.failed, !.at = "read"]
      BY <1>1, <1>6, SameFailed
    <2>2. "read" \in Points /\ call.failed \in BOOLEAN
      BY <1>3 DEF Points, CallTyped
    <2>3. /\ call' \in CallRecord /\ SameRequest /\ call'.at = "read" /\ call'.got = <<>>
          /\ call'.failed = call.failed /\ call'.codec = call.codec /\ call'.first = call.first
          /\ call'.size = call.size
      BY <1>3, <2>1, <2>2, EmptyBytes, GotFields
    <2>4. InStep'
      BY <1>4, <1>6, <2>3 DEF InStep, At, UfKept
    <2>5. Attempts'
      BY <1>2, <1>3, <2>3, EmptyBytes DEF Attempts, At, Trying, SameRequest, CallTyped
    <2>6. ASSUME Whole' = Whole, uf' # Closed PROVE BytesLoaded'
      <3>1. SubSeq(Whole, 1, 0) = <<>>
        <4>1. Whole \in Contents
          BY <1>3, TextBytes DEF Whole, CallTyped
        <4> QED BY <4>1, EmptyPart
      <3> QED BY <1>2, <1>3, <1>4, <1>6, <2>3, <2>6, <3>1, EmptyBytes DEF BytesLoaded, SameRequest, At
    <2>7. ASSUME Whole' = Whole PROVE Healthy'
      BY <1>2, <1>3, <1>4, <1>6, <2>3, <2>7 DEF Healthy, SameRequest, At, Loading, Trying, Typing
    <2> QED BY <1>5, <2>3, <2>4, <2>5, <2>6, <2>7, GoesOn DEF Trying
  <1>7. CASE r # "ok"
    BY <1>1, <1>2, <1>5, <1>7, LoadFails DEF Excused
  <1> QED BY <1>6, <1>7

(* What is read at pos of the file is there in the text. *)
LEMMA DecodedPart ==
  ASSUME NEW x, NEW pos \in Nat, call.orig \in Contents, x.data \in Contents,
         Len(x.data) \in Nat, pos + Len(x.data) <= Len(call.orig),
         x.data = SubSeq(call.orig, pos + 1, pos + Len(x.data)),
         uf.z => uf.seed = SeedAfter(pos), uf.z <=> Ext[PathOf(call.file)] = "zdata"
  PROVE  /\ Decoded(x) \in Contents /\ Len(Decoded(x)) = Len(x.data)
         /\ Lies(Decoded(x), Whole, pos)
  <1> DEFINE n == Len(x.data)
  <1> HIDE DEF n
  <1>1. n \in Nat /\ pos + n <= Len(call.orig) /\ x.data = SubSeq(call.orig, pos + 1, pos + n)
    BY DEF n
  <1>2. CASE uf.z
    <2>1. Ext[PathOf(call.file)] = "zdata" /\ uf.seed = SeedAfter(pos)
      BY <1>2
    <2>2. Decoded(x) = Decode(SeedAfter(pos), SubSeq(call.orig, pos + 1, pos + n))
      BY <1>1, <1>2, <2>1, Zenon DEF Decoded
    <2>3. /\ Decoded(x) \in Contents /\ Len(Decoded(x)) = n
          /\ Lies(Decoded(x), Text(call.file, call.orig), pos)
      <3>1. /\ Decode(SeedAfter(pos), SubSeq(call.orig, pos + 1, pos + n)) \in Contents
            /\ Len(Decode(SeedAfter(pos), SubSeq(call.orig, pos + 1, pos + n))) = n
            /\ Lies(Decode(SeedAfter(pos), SubSeq(call.orig, pos + 1, pos + n)), Text(call.file, call.orig), pos)
        BY <1>1, <2>1, ReadsOn
      <3> QED BY <2>2, <3>1, Zenon
    <2> QED BY <2>3 DEF Whole, n
  <1>3. CASE ~uf.z
    <2>1. Decoded(x) = x.data /\ Text(call.file, call.orig) = call.orig
      BY <1>3 DEF Decoded, Text
    <2>2. \A i \in 1 .. n : x.data[i] = call.orig[pos + i]
      BY <1>1, Part
    <2>3. Lies(x.data, call.orig, pos)
      BY <2>2 DEF Lies, n
    <2> QED BY <2>1, <2>3 DEF Whole
  <1> QED BY <1>2, <1>3

LEMMA NoDecoded ==
  ASSUME NEW x, x.data = <<>>
  PROVE  Decoded(x) = <<>>
  <1>1. Decode(uf.seed, <<>>) = <<>>
    <2>1. [i \in {} |-> (<<>>[i] + Mask(Seeds(uf.seed)[i])) % 2] = <<>>
      OBVIOUS
    <2> QED BY <2>1 DEF Decode
  <1> QED BY <1>1 DEF Decoded

LEMMA DecodedType ==
  ASSUME NEW x, x.data \in Contents, uf.z => uf.seed \in Words
  PROVE  Decoded(x) \in Contents /\ Len(Decoded(x)) = Len(x.data)
  BY DecodeBytes DEF Decoded

(* The generator keeps up with what is read. *)
LEMMA StepsOn ==
  ASSUME NEW pos \in Nat, NEW n \in Nat
  PROVE  Seeds(SeedAfter(pos))[n] = SeedAfter(pos + n)
  <1>1. Seed0 \in Words /\ pos + n \in Nat
    BY WordAssumption
  <1>2. SeedAfter(pos) = Seeds(Seed0)[pos] /\ SeedAfter(pos + n) = Seeds(Seed0)[pos + n]
    BY <1>1, JumpsAreSteps
  <1>3. Seeds(Seeds(Seed0)[pos])[n] = Seeds(Seed0)[pos + n]
    BY <1>1, SeedsAdd
  <1> QED BY <1>2, <1>3

LEMMA ReadsChunkInv ==
  ASSUME FilesInv, ReadsChunk
  PROVE  FilesInv'
  <1> DEFINE want == call.size - Len(call.got)
             limit == IF uf.conn = Disk THEN want ELSE Min({want, Chunk})
  <1>1. PICK x \in Reads(limit) :
          /\ Moves(x)
          /\ call' = [call EXCEPT !.got = @ \o Decoded(x), !.failed = @ \/ x.reply # "ok",
                         !.at = IF Len(x.data) = limit /\ limit < want THEN "read" ELSE "decode"]
    BY DEF ReadsChunk
  <1>2. At("read") /\ UNCHANGED <<store, edits, fsys, dst, doc>> /\ call.at \in Trying
    BY DEF ReadsChunk, At, Trying
  <1>3. /\ call \in CallRecord /\ CallTyped /\ TypeOK /\ FileRead /\ uf # Closed
        /\ call.op = "load" /\ InStep /\ BytesLoaded /\ Attempts /\ Healthy
    BY <1>2, LoadContext
  <1>4. /\ call.got \in Contents /\ Len(call.got) \in Nat /\ call.size \in Nat
        /\ Len(call.got) <= call.size
    BY <1>2, <1>3, BytesOf DEF CallTyped, Attempts, At
  <1>5. want \in Nat /\ limit \in Nat /\ limit <= want /\ (limit = 0 => want = 0)
    BY <1>4, MinOfTwo, FilesAssumption DEF FilesAssumption
  <1> DEFINE n == Len(x.data)
             got == call.got \o Decoded(x)
             failed == call.failed \/ x.reply # "ok"
             point == IF n = limit /\ limit < want THEN "read" ELSE "decode"
  <1>6. call' = [call EXCEPT !.got = got, !.failed = failed, !.at = point]
    BY <1>1
  <1> HIDE DEF want, limit
  <1>7. /\ x.data \in Contents /\ n \in Nat
        /\ x.reply \notin {"ok", "short"} => x.data = <<>>
        /\ x.reply \in {"ok", "short"} =>
             /\ src # Closed
             /\ x.data = SubSeq(store[call.file], src.pos + 1, src.pos + n)
             /\ n <= limit
             /\ n > 0 => src.pos + n <= Len(store[call.file])
        /\ x.reply = "ok" => n = limit \/ src.pos + n >= Len(store[call.file])
    BY <1>1, <1>3, <1>5, ReadKinds
  <1>8. /\ SrcSound /\ UfKept /\ (x.reply # "lost" => src # Closed /\ src' # Closed)
        /\ src' # Closed => src'.pos = src.pos + n
        /\ uf.z => uf'.seed = Seeds(uf.seed)[n] /\ uf.seed \in Words
    BY <1>1, <1>3, <1>5, ReadEffect
  <1>9. Decoded(x) \in Contents /\ Len(Decoded(x)) = n
    BY <1>7, <1>8, DecodedType
  <1>10. got \in Contents /\ Len(got) = Len(call.got) + n
    <2>1. /\ call.got \o Decoded(x) \in Seq(Bit)
          /\ Len(call.got \o Decoded(x)) = Len(call.got) + Len(Decoded(x))
      BY <1>4, <1>9, ConcatProperties DEF Contents
    <2> QED BY <1>9, <2>1 DEF Contents
  <1>11. n <= limit
    BY <1>5, <1>7, EmptyBytes
  <1>23. n \in Nat
    BY <1>7
  <1>12. failed \in BOOLEAN /\ point \in Points
    BY DEF Points
  <1> HIDE DEF n, got, failed, point
  <1>13. /\ call' \in CallRecord /\ SameRequest /\ call'.at = point /\ call'.got = got
         /\ call'.failed = failed /\ call'.codec = call.codec /\ call'.first = call.first
         /\ call'.size = call.size
    BY <1>3, <1>6, <1>10, <1>12, GotFields
  <1>14. point \in {"read", "decode"} /\ (point = "read" => n = limit /\ limit < want)
    BY DEF point
  <1>15. Request
    BY <1>2, <1>8 DEF Request
  <1>16. InStep'
    <2> SUFFICES ASSUME point = "read", src' # Closed, uf.z PROVE uf'.seed = SeedAfter(src'.pos)
      BY <1>8, <1>13, <1>14 DEF InStep, At, UfKept
    <2>1. src # Closed /\ uf.seed = SeedAfter(src.pos) /\ src.pos \in Nat
      BY <1>2, <1>3, <1>8 DEF SrcSound, InStep, At, TypeOK, Handles
    <2>2. Seeds(SeedAfter(src.pos))[n] = SeedAfter(src.pos + n)
      BY <1>7, <2>1, StepsOn
    <2> QED BY <1>8, <2>1, <2>2
  <1>17. Len(got) <= call.size
    BY <1>4, <1>5, <1>10, <1>11, <1>23 DEF want
  <1>18. Attempts'
    BY <1>2, <1>3, <1>13, <1>14, <1>17 DEF Attempts, At, Trying, SameRequest
  <1>19. ASSUME ~call.touched
         PROVE  /\ call.orig = store[call.file] /\ call.size = Len(call.orig) /\ call.size > 0
                /\ src # Closed /\ src.pos = Len(call.got)
                /\ call.got = SubSeq(Whole, 1, Len(call.got)) /\ call.orig \in Contents
    BY <1>2, <1>3, <1>19 DEF BytesLoaded, At, CallTyped
  <1>20. ASSUME ~call.touched
         PROVE  got = SubSeq(Whole, 1, Len(got))
    <2>1. CASE n = 0
      <3>1. x.data = <<>>
        BY <1>7, <2>1, EmptySeq DEF Contents, n
      <3>2. got = call.got
        BY <1>4, <3>1, NoDecoded, ConcatEmptySeq DEF got, Contents
      <3> QED BY <1>19, <1>20, <3>2
    <2>2. CASE n # 0
      <3>1. /\ x.data = SubSeq(call.orig, src.pos + 1, src.pos + n)
            /\ src.pos + n <= Len(call.orig) /\ src.pos \in Nat
        <4>1. x.reply \in {"ok", "short"}
          BY <1>7, <2>2, EmptyBytes DEF n
        <4>2. n > 0
          BY <1>23, <2>2
        <4>3. call.orig = store[call.file] /\ src.pos = Len(call.got)
          BY <1>19, <1>20
        <4> QED BY <1>4, <1>7, <4>1, <4>2, <4>3
      <3>2. /\ uf.z => uf.seed = SeedAfter(src.pos)
            /\ uf.z <=> Ext[PathOf(call.file)] = "zdata"
        BY <1>2, <1>3, <1>19, <1>20 DEF InStep, FileRead, At
      <3>3. Lies(Decoded(x), Whole, src.pos)
        BY <1>7, <1>19, <1>20, <3>1, <3>2, DecodedPart DEF n
      <3>4. Whole \in Contents /\ Len(Whole) = Len(call.orig)
        BY <1>19, <1>20, TextBytes DEF Whole
      <3>5. SubSeq(Whole, 1, src.pos) \o Decoded(x) = SubSeq(Whole, 1, src.pos + n)
        BY <1>7, <1>9, <3>1, <3>3, <3>4, PartsJoin
      <3> QED BY <1>10, <1>19, <1>20, <3>5 DEF got
    <2> QED BY <2>1, <2>2
  <1>21. ASSUME Whole' = Whole, uf' # Closed PROVE BytesLoaded'
    <2> SUFFICES ASSUME ~call.touched PROVE BytesLoaded'
      BY <1>13 DEF BytesLoaded, SameRequest
    <2>1. point = "read" => src' # Closed /\ src'.pos = Len(got)
      <3> SUFFICES ASSUME point = "read" PROVE src' # Closed /\ src'.pos = Len(got)
        OBVIOUS
      <3>1. n # 0
        BY <1>5, <1>14
      <3>2. x.reply \in {"ok", "short"}
        BY <1>7, <3>1, EmptyBytes DEF n
      <3> QED BY <1>8, <1>10, <1>19, <3>2
    <2> QED BY <1>2, <1>13, <1>14, <1>19, <1>20, <1>21, <2>1 DEF BytesLoaded, SameRequest, At
  <1>22. ASSUME Whole' = Whole PROVE Healthy'
    <2> SUFFICES ASSUME ~call.touched, ~failed, call.orig # <<>> PROVE Healthy'
      BY <1>13 DEF Healthy, SameRequest
    <2>1. x.reply = "ok" /\ ~call.failed
      BY DEF failed
    <2>2. src' # Closed
      BY <1>8, <2>1
    <2>3. point = "decode" => Len(got) = call.size
      <3> SUFFICES ASSUME point = "decode" PROVE Len(got) = call.size
        OBVIOUS
      <3>1. ~(n = limit /\ limit < want)
        BY DEF point
      <3>2. CASE n = limit
        <4>1. limit = want
          BY <1>5, <3>1, <3>2
        <4> QED BY <1>4, <1>10, <3>2, <4>1 DEF want
      <3>3. CASE n # limit
        <4>1. src.pos + n >= Len(store[call.file])
          BY <1>7, <2>1, <3>3
        <4>2. Len(call.got) + n >= call.size
          BY <1>19, <4>1
        <4> QED BY <1>4, <1>10, <1>17, <1>23, <4>2
      <3> QED BY <3>2, <3>3
    <2> QED BY <1>2, <1>3, <1>13, <1>14, <1>22, <2>1, <2>2, <2>3
            DEF Healthy, SameRequest, At, Loading, Trying, Typing
  <1> QED BY <1>13, <1>14, <1>15, <1>16, <1>18, <1>21, <1>22, GoesOn DEF Trying
-----------------------------------------------------------------------------
(***************************************************************************)
(* filetype(), and the outcome of an attempt.                              *)
(***************************************************************************)
LEMMA NoRequest ==
  ASSUME TypeOK, FileRead, uf # Closed, UNCHANGED <<up, src, uf>>
  PROVE  SrcSound /\ UfKept
  BY DEF TypeOK, FileRead, SrcSound, UfKept, UfType, Alive

(* The text of a file that is not empty. *)
LEMMA WholeBytes ==
  ASSUME call.orig \in Contents
  PROVE  /\ Whole \in Contents /\ Len(Whole) = Len(call.orig)
         /\ SubSeq(Whole, 1, Len(Whole)) = Whole
         /\ call.orig # <<>> => /\ Len(call.orig) > 0 /\ Whole[1] \in Bit
                                /\ Kind[Whole[1]] \in Types
  <1>1. Whole \in Contents /\ Len(Whole) = Len(call.orig)
    BY TextBytes DEF Whole
  <1>2. SubSeq(Whole, 1, Len(Whole)) = Whole
    BY <1>1, WholePart
  <1>3. ASSUME call.orig # <<>>
        PROVE  Len(call.orig) > 0 /\ Whole[1] \in Bit /\ Kind[Whole[1]] \in Types
    <2>1. Len(call.orig) > 0
      <3>1. Len(call.orig) \in Nat /\ Len(call.orig) # 0
        BY <1>3, BytesOf, EmptySeq DEF Contents
      <3> QED BY <3>1
    <2>2. Whole[1] \in Bit
      BY <1>1, <2>1, BytesOf
    <2>3. Kind \in [Bit -> Types]
      BY FilesAssumption DEF FilesAssumption
    <2> QED BY <2>1, <2>2, <2>3
  <1> QED BY <1>1, <1>2, <1>3

LEMMA DecodeFailsInv ==
  ASSUME FilesInv, DecodeFails
  PROVE  FilesInv'
  <1>1. At("decode") /\ ~Decodable /\ AttemptFails("ok") /\ UNCHANGED <<up, src, uf>>
    BY DEF DecodeFails
  <1>2. UNCHANGED <<store, edits, fsys, dst, doc>> /\ call.at \in Trying
    BY DEF DecodeFails, At, Trying
  <1>3. /\ call \in CallRecord /\ CallTyped /\ TypeOK /\ FileRead /\ uf # Closed
        /\ call.op = "load" /\ BytesLoaded /\ Attempts /\ Healthy
    BY <1>2, LoadContext
  <1>4. Request
    BY <1>1, <1>2, <1>3, NoRequest DEF Request
  <1>5. ASSUME ~Excused("ok")
        PROVE  call.first /\ src' # Closed /\ Kind[Whole[1]] # Ext[PathOf(call.file)]
    <2>1. ~call.touched /\ ~call.failed /\ call.orig # <<>> /\ call.orig \in Contents
      BY <1>3, <1>5 DEF Excused, CallTyped
    <2>2. src # Closed /\ Len(call.got) = call.size
      BY <1>1, <1>2, <1>3, <2>1 DEF Healthy, Loading, At
    <2>3. call.size = Len(call.orig) /\ call.got = SubSeq(Whole, 1, Len(call.got))
      BY <1>1, <1>3, <2>1 DEF BytesLoaded, At
    <2>4. call.got = Whole
      BY <2>1, <2>2, <2>3, WholeBytes
    <2>5. Kind[Whole[1]] # call.codec
      BY <1>1, <2>2, <2>4 DEF Decodable
    <2>6. call.first
      BY <1>2, <1>3, <2>1, <2>5 DEF Healthy
    <2>7. call.codec = Ext[PathOf(call.file)]
      BY <1>2, <1>3, <2>6 DEF Attempts
    <2> QED BY <1>1, <2>2, <2>5, <2>6, <2>7
  <1> QED BY <1>1, <1>2, <1>4, <1>5, LoadFails

LEMMA PutLook ==
  ASSUME NEW c \in CallRecord, NEW point \in Points, NEW pos \in Nat \union {-1},
         NEW failed \in BOOLEAN
  PROVE  [c EXCEPT !.at = point, !.pos = pos, !.first = FALSE, !.failed = failed] \in CallRecord
  BY DEF CallRecord

LEMMA TellsInv ==
  ASSUME FilesInv, Tells
  PROVE  FilesInv'
  <1>1. PICK r \in Replies(uf.conn) :
          /\ Survives(uf.conn, r) /\ Keeps(r, src)
          /\ call' = [call EXCEPT !.at = "look", !.pos = IF r = "ok" THEN src.pos ELSE -1,
                                  !.first = FALSE, !.failed = r # "ok" \/ @]
    BY DEF Tells
  <1>2. /\ At("tell") /\ UNCHANGED <<store, edits, fsys, uf, dst, doc>>
        /\ call.at \in Trying \union Typing /\ call.at \in Typing
    BY DEF Tells, At, Typing
  <1>3. /\ call \in CallRecord /\ CallTyped /\ TypeOK /\ FileRead /\ uf # Closed
        /\ call.op = "load" /\ BytesLoaded /\ Attempts /\ Healthy
    BY <1>2, LoadContext
  <1>4. /\ SrcSound /\ (r # "lost" => src # Closed /\ src' = src)
    BY <1>1, <1>2, <1>3, AnswerEffect
  <1>5. Request
    BY <1>2, <1>3, <1>4 DEF Request, UfKept, TypeOK, UfType
  <1> DEFINE pos == IF r = "ok" THEN src.pos ELSE -1
             failed == r # "ok" \/ call.failed
  <1>6. pos \in Nat \union {-1} /\ failed \in BOOLEAN /\ "look" \in Points
    BY <1>3, <1>4 DEF TypeOK, Handles, Points
  <1>7. call' = [call EXCEPT !.at = "look", !.pos = pos, !.first = FALSE, !.failed = failed]
    BY <1>1
  <1>8. failed = (call.failed \/ r # "ok")
    BY <1>3 DEF CallTyped
  <1> HIDE DEF pos, failed
  <1>9. call' \in CallRecord
    BY <1>3, <1>6, <1>7, PutLook
  <1>10. DOMAIN call = {"n", "op", "at", "ok", "fs", "file", "to", "codec", "first", "size",
                      "got", "pos", "retried", "orig", "touched", "failed"}
    BY <1>3 DEF CallRecord
  <1>11. SameRequest
    BY <1>7, <1>10 DEF SameRequest
  <1>12. call'.at = "look" /\ call'.failed = failed /\ call'.first = FALSE
    BY <1>7, <1>10
  <1>13. InStep' /\ Attempts'
    BY <1>12 DEF InStep, Attempts, At, Trying
  <1>14. ASSUME Whole' = Whole, uf' # Closed PROVE BytesLoaded'
    BY <1>2, <1>3, <1>11, <1>12, <1>14 DEF BytesLoaded, SameRequest, At
  <1>15. ASSUME Whole' = Whole PROVE Healthy'
    BY <1>2, <1>3, <1>4, <1>8, <1>11, <1>12, <1>15
       DEF Healthy, SameRequest, At, Loading, Trying, Typing
  <1> QED BY <1>5, <1>9, <1>11, <1>12, <1>13, <1>14, <1>15, GoesOn DEF Typing

LEMMA LooksInv ==
  ASSUME FilesInv, Looks
  PROVE  FilesInv'
  <1>1. PICK r \in Answers : Seek(0, r) /\ IF r = "ok" THEN Then("peek", r) ELSE Ends(FALSE, r)
    BY DEF Looks
  <1>2. /\ At("look") /\ UNCHANGED <<store, edits, fsys, dst, doc>>
        /\ call.at \in Trying \union Typing
    BY DEF Looks, At, Typing
  <1>3. /\ call \in CallRecord /\ CallTyped /\ TypeOK /\ FileRead /\ uf # Closed
        /\ call.op = "load" /\ BytesLoaded /\ Attempts /\ Healthy
    BY <1>2, LoadContext
  <1>4. /\ SrcSound /\ UfKept /\ (r # "lost" => src' # Closed)
        /\ r = "ok" => src'.pos = 0 /\ (uf.z => uf'.seed = SeedAfter(0))
    BY <1>1, <1>3, SeekEffect
  <1>5. Request
    BY <1>2, <1>4 DEF Request
  <1>6. CASE r = "ok"
    <2>1. Then("peek", r) /\ "peek" \in Points
      BY <1>1, <1>6 DEF Points
    <2>2. /\ call' \in CallRecord /\ SameRequest /\ call'.at = "peek"
          /\ call'.failed = (call.failed \/ r # "ok") /\ call'.first = call.first
      BY <1>3, <2>1, ThenFields
    <2>3. InStep'
      BY <1>4, <1>6, <2>2 DEF InStep, At, UfKept
    <2>4. Attempts'
      BY <1>2, <1>3, <2>2 DEF Attempts, At, Trying, SameRequest
    <2>5. ASSUME Whole' = Whole, uf' # Closed PROVE BytesLoaded'
      BY <1>2, <1>3, <2>2, <2>5 DEF BytesLoaded, SameRequest, At
    <2>6. ASSUME Whole' = Whole PROVE Healthy'
      BY <1>2, <1>3, <1>4, <1>6, <2>2, <2>6 DEF Healthy, SameRequest, At, Loading, Trying, Typing
    <2> QED BY <1>5, <2>2, <2>3, <2>4, <2>5, <2>6, GoesOn DEF Typing
  <1>7. CASE r # "ok"
    BY <1>1, <1>5, <1>7, LoadEnds DEF Excused
  <1> QED BY <1>6, <1>7

LEMMA PutCodec ==
  ASSUME NEW c \in CallRecord, NEW point \in Points, NEW codec \in Types \union {None},
         NEW failed \in BOOLEAN
  PROVE  [c EXCEPT !.at = point, !.failed = failed, !.codec = codec] \in CallRecord
  BY DEF CallRecord

LEMMA PeeksInv ==
  ASSUME FilesInv, Peeks
  PROVE  FilesInv'
  <1>1. PICK x \in Reads(1) :
          /\ Moves(x)
          /\ call' = [call EXCEPT !.at = "back", !.failed = @ \/ x.reply # "ok",
                        !.codec = IF x.data = <<>> THEN None ELSE Kind[Decoded(x)[1]]]
    BY DEF Peeks
  <1>2. /\ At("peek") /\ UNCHANGED <<store, edits, fsys, dst, doc>>
        /\ call.at \in Trying \union Typing
    BY DEF Peeks, At, Typing
  <1>3. /\ call \in CallRecord /\ CallTyped /\ TypeOK /\ FileRead /\ uf # Closed
        /\ call.op = "load" /\ InStep /\ BytesLoaded /\ Attempts /\ Healthy
    BY <1>2, LoadContext
  <1> DEFINE n == Len(x.data)
             failed == call.failed \/ x.reply # "ok"
             codec == IF x.data = <<>> THEN None ELSE Kind[Decoded(x)[1]]
  <1>4. call' = [call EXCEPT !.at = "back", !.failed = failed, !.codec = codec]
    BY <1>1
  <1>5. /\ x.data \in Contents /\ n \in Nat
        /\ x.reply = "ok" =>
             /\ src # Closed
             /\ x.data = SubSeq(store[call.file], src.pos + 1, src.pos + n)
             /\ n <= 1
             /\ n > 0 => src.pos + n <= Len(store[call.file])
             /\ n = 1 \/ src.pos + n >= Len(store[call.file])
    BY <1>1, <1>3, ReadKinds
  <1>6. /\ SrcSound /\ UfKept /\ (x.reply # "lost" => src # Closed /\ src' # Closed)
        /\ uf.z => uf.seed \in Words
    BY <1>1, <1>3, ReadEffect
  <1>7. Request
    BY <1>2, <1>6 DEF Request
  <1>8. Decoded(x) \in Contents /\ Len(Decoded(x)) = n
    BY <1>5, <1>6, DecodedType
  <1>9. codec \in Types \union {None}
    <2>1. CASE x.data = <<>>
      BY <2>1
    <2>2. CASE x.data # <<>>
      <3>1. n # 0
        BY <1>5, <2>2, EmptySeq DEF Contents
      <3>2. 1 \in 1 .. Len(Decoded(x))
        BY <1>5, <1>8, <3>1
      <3>3. Decoded(x)[1] \in Bit
        BY <1>8, <3>2, BytesOf
      <3> QED BY <2>2, <3>3, FilesAssumption DEF FilesAssumption
    <2> QED BY <2>1, <2>2
  <1>10. failed \in BOOLEAN /\ "back" \in Points
    BY DEF Points
  <1> HIDE DEF n, failed, codec
  <1>11. ASSUME ~call.touched, ~failed, call.orig # <<>>
         PROVE  codec = Kind[Whole[1]] /\ src' # Closed
    <2>1. x.reply = "ok" /\ ~call.failed /\ src' # Closed /\ src # Closed
      BY <1>6, <1>11 DEF failed
    <2>2. src.pos = 0 /\ (uf.z => uf.seed = SeedAfter(0))
      BY <1>2, <1>3, <2>1 DEF InStep, At
    <2>3. call.orig = store[call.file] /\ call.orig \in Contents
      BY <1>3, <1>11 DEF BytesLoaded, CallTyped
    <2>4. Len(call.orig) > 0 /\ Len(call.orig) \in Nat
      BY <1>11, <2>3, WholeBytes, BytesOf
    <2>5. n = 1 /\ n \in Nat
      <3>1. n \in Nat /\ n <= 1 /\ (n = 1 \/ n >= Len(call.orig))
        BY <1>5, <2>1, <2>2, <2>3
      <3> QED BY <2>4, <3>1
    <2>6. /\ src.pos + n <= Len(call.orig) /\ src.pos \in Nat
          /\ x.data = SubSeq(call.orig, src.pos + 1, src.pos + n)
      BY <1>5, <2>1, <2>2, <2>3, <2>5
    <2>7. /\ uf.z <=> Ext[PathOf(call.file)] = "zdata"
          /\ uf.z => uf.seed = SeedAfter(src.pos)
      BY <1>2, <1>3, <2>2 DEF FileRead, At
    <2>8. Lies(Decoded(x), Whole, src.pos)
      BY <1>5, <2>3, <2>6, <2>7, DecodedPart DEF n
    <2>9. 1 \in 1 .. Len(Decoded(x)) /\ src.pos + 1 = 1
      BY <1>8, <2>2, <2>5
    <2>10. Decoded(x)[1] = Whole[1]
      BY <2>8, <2>9 DEF Lies
    <2>11. x.data # <<>>
      <3> SUFFICES ASSUME x.data = <<>> PROVE FALSE
        OBVIOUS
      <3>1. n = 0
        BY EmptyBytes DEF n
      <3> QED BY <2>5, <3>1
    <2> QED BY <2>1, <2>10, <2>11 DEF codec
  <1>12. call' \in CallRecord
    BY <1>3, <1>4, <1>9, <1>10, PutCodec
  <1>13. DOMAIN call = {"n", "op", "at", "ok", "fs", "file", "to", "codec", "first", "size",
                      "got", "pos", "retried", "orig", "touched", "failed"}
    BY <1>3 DEF CallRecord
  <1>14. SameRequest
    BY <1>4, <1>13 DEF SameRequest
  <1>15. /\ call'.at = "back" /\ call'.failed = failed /\ call'.codec = codec
         /\ call'.first = call.first
    BY <1>4, <1>13
  <1>16. InStep'
    BY <1>15 DEF InStep, At
  <1>17. Attempts'
    BY <1>2, <1>3, <1>15 DEF Attempts, At, Trying
  <1>18. ASSUME Whole' = Whole, uf' # Closed PROVE BytesLoaded'
    BY <1>2, <1>3, <1>14, <1>15, <1>18 DEF BytesLoaded, SameRequest, At
  <1>19. ASSUME Whole' = Whole PROVE Healthy'
    <2> SUFFICES ASSUME ~call.touched, ~failed, call.orig # <<>> PROVE Healthy'
      BY <1>14, <1>15 DEF Healthy, SameRequest
    <2>1. ~call.failed
      BY DEF failed
    <2> QED BY <1>2, <1>3, <1>11, <1>14, <1>15, <1>19, <2>1
            DEF Healthy, SameRequest, At, Loading, Trying, Typing
  <1> QED BY <1>7, <1>12, <1>14, <1>15, <1>16, <1>17, <1>18, <1>19, GoesOn DEF Typing

LEMMA TypeFoundInv ==
  ASSUME FilesInv, At("back"), Request, NEW r, r = "ok" /\ src # Closed => src' # Closed,
         TypeFound(r)
  PROVE  FilesInv'
  <1>1. call.at \in Trying \union Typing /\ call.at = "back"
    BY DEF At, Typing
  <1>2. /\ call \in CallRecord /\ CallTyped /\ TypeOK /\ FileRead /\ uf # Closed
        /\ call.op = "load" /\ BytesLoaded /\ Attempts /\ Healthy
    BY <1>1, LoadContext
  <1>3. UNCHANGED <<store, edits, fsys, dst, doc>>
    BY DEF Request
  <1>4. CASE Then("rewind", r)
    <2>1. Then("rewind", r) /\ "rewind" \in Points
      BY <1>4 DEF Points
    <2>2. /\ call' \in CallRecord /\ SameRequest /\ call'.at = "rewind"
          /\ call'.failed = (call.failed \/ r # "ok") /\ call'.first = call.first
          /\ call'.codec = call.codec
      BY <1>2, <2>1, ThenFields
    <2>3. InStep'
      BY <2>2 DEF InStep, At
    <2>4. Attempts'
      BY <1>1, <1>2, <2>2 DEF Attempts, At, Trying
    <2>5. ASSUME Whole' = Whole, uf' # Closed PROVE BytesLoaded'
      BY <1>1, <1>2, <1>3, <2>2, <2>5 DEF BytesLoaded, SameRequest, At
    <2>6. ASSUME Whole' = Whole PROVE Healthy'
      BY <1>1, <1>2, <1>3, <2>2, <2>6 DEF Healthy, SameRequest, At, Loading, Trying, Typing
    <2> QED BY <2>2, <2>3, <2>4, <2>5, <2>6, GoesOn DEF Trying
  <1>5. CASE call.codec \notin Types \ {Ext[PathOf(call.file)]} /\ Ends(FALSE, r)
    <2>1. Ends(FALSE, r)
      BY <1>5
    <2>2. Excused(r)
      <3> SUFFICES ASSUME ~Excused(r) PROVE FALSE
        OBVIOUS
      <3>1. ~call.touched /\ ~call.failed /\ call.orig # <<>> /\ call.orig \in Contents
        BY <1>2 DEF Excused, CallTyped
      <3>2. Kind[Whole[1]] \in Types
        BY <3>1, WholeBytes
      <3>3. call.codec = Kind[Whole[1]] /\ Kind[Whole[1]] # Ext[PathOf(call.file)]
        BY <1>1, <1>2, <3>1 DEF Healthy, At, Typing
      <3> QED BY <1>5, <3>2, <3>3
    <2> QED BY <2>1, <2>2, LoadEnds
  <1> QED BY <1>4, <1>5 DEF TypeFound

LEMMA GoesBackInv ==
  ASSUME FilesInv, GoesBack
  PROVE  FilesInv'
  <1>1. /\ At("back") /\ UNCHANGED <<store, edits, fsys, dst, doc>>
        /\ call.at \in Trying \union Typing
    BY DEF GoesBack, At, Typing
  <1>2. /\ call \in CallRecord /\ CallTyped /\ TypeOK /\ FileRead /\ uf # Closed
    BY <1>1, LoadContext
  <1>3. CASE call.pos >= 0 /\ \E r \in Answers : Seek(call.pos, r) /\ TypeFound(r)
    <2>1. PICK r \in Answers : Seek(call.pos, r) /\ TypeFound(r)
      BY <1>3
    <2>2. call.pos \in Nat
      BY <1>2, <1>3 DEF CallTyped
    <2>3. SrcSound /\ UfKept /\ (r # "lost" => src' # Closed)
      BY <1>2, <2>1, <2>2, SeekEffect
    <2>4. Request
      BY <1>1, <2>3 DEF Request
    <2> QED BY <1>1, <2>1, <2>3, <2>4, TypeFoundInv
  <1>4. CASE call.pos < 0 /\ TypeFound("ok") /\ UNCHANGED <<up, src, uf>>
    <2>1. Request
      BY <1>1, <1>2, <1>4, NoRequest DEF Request
    <2> QED BY <1>1, <1>4, <2>1, TypeFoundInv
  <1> QED BY <1>3, <1>4 DEF GoesBack
-----------------------------------------------------------------------------
(***************************************************************************)
(* The other steps of open().                                              *)
(***************************************************************************)
LEMMA CallContext ==
  ASSUME FilesInv
  PROVE  /\ call \in CallRecord /\ CallTyped /\ TypeOK /\ Stands /\ FileRead /\ FileWritten
         /\ InStep /\ BytesLoaded /\ Attempts /\ Healthy /\ BytesSaved
  <1>1. call \in CallRecord
    BY DEF FilesInv, Placed, TypeOK
  <1>2. CallTyped
    BY <1>1, CallFields
  <1> QED BY <1>1, <1>2 DEF FilesInv, Placed, Bytes

LEMMA Fields ==
  ASSUME call \in CallRecord
  PROVE  DOMAIN call = {"n", "op", "at", "ok", "fs", "file", "to", "codec", "first", "size",
                        "got", "pos", "retried", "orig", "touched", "failed"}
  BY DEF CallRecord

LEMMA ShowsInv ==
  ASSUME FilesInv, Shows
  PROVE  FilesInv'
  <1>1. /\ At("decode") /\ Decodable /\ Then("rescan", "ok")
        /\ doc' = [doc EXCEPT !.path = PathOf(call.file),
                              !.image = [file |-> call.file, data |-> call.got]]
        /\ UNCHANGED <<store, edits, fsys, up, src, uf, dst>>
    BY DEF Shows
  <1>2. /\ call \in CallRecord /\ CallTyped /\ TypeOK /\ Stands /\ FileRead
        /\ BytesLoaded /\ Attempts
    BY CallContext
  <1>3. "rescan" \in Points
    BY DEF Points
  <1>4. /\ call' \in CallRecord /\ SameRequest /\ call'.at = "rescan"
        /\ call'.failed = (call.failed \/ "ok" # "ok")
    BY <1>1, <1>2, <1>3, ThenFields
  <1>5. call.op = "load" /\ uf # Closed /\ call.file \in Stored
    BY <1>1, <1>2 DEF Stands, At, Loading, Trying
  <1>6. PathOf(call.file) \in Paths /\ call.got \in Contents
    BY <1>2, <1>5 DEF Stored, PathOf, CallTyped
  <1>7. doc' \in [fs : Fs \union {Disk, None}, path : Paths \union {None},
                  image : [file : Stored, data : Contents] \union {None}]
        /\ doc'.image.data = call.got
    BY <1>1, <1>2, <1>5, <1>6 DEF TypeOK
  <1>8. TypeOK'
    BY <1>1, <1>2, <1>4, <1>7 DEF TypeOK
  <1>9. Stands'
    BY <1>1, <1>4, <1>5 DEF Stands, SameRequest, At, Loading, Trying, Typing, SavePoints
  <1>10. FileRead'
    BY <1>1, <1>2, <1>4, <1>5 DEF FileRead, SameRequest, At, Alive
  <1>11. FileWritten' /\ InStep' /\ Attempts'
    BY <1>4 DEF FileWritten, InStep, Attempts, At, Trying
  <1>12. ASSUME ~call.touched PROVE call.got = Whole
    <2>1. /\ call.size = Len(call.orig) /\ call.got = SubSeq(Whole, 1, Len(call.got))
          /\ call.orig \in Contents
      BY <1>1, <1>2, <1>5, <1>12 DEF BytesLoaded, At, CallTyped
    <2>2. Len(call.got) = call.size
      BY <1>1 DEF Decodable
    <2> QED BY <2>1, <2>2, WholeBytes
  <1>13. BytesLoaded'
    BY <1>1, <1>2, <1>4, <1>5, <1>7, <1>12 DEF BytesLoaded, SameRequest, At, Whole
  <1>14. Healthy' /\ BytesSaved'
    BY <1>4, <1>5 DEF Healthy, BytesSaved, SameRequest, At, Loading, Trying, Typing
  <1> QED BY <1>8, <1>9, <1>10, <1>11, <1>13, <1>14 DEF FilesInv, Placed, Bytes

LEMMA OpenedInv ==
  ASSUME FilesInv, Opened
  PROVE  FilesInv'
  <1> DEFINE ext == Ext[PathOf(call.file)]
             z == ext = "zdata"
             codec == IF z THEN None ELSE ext
             point == IF z THEN "tell" ELSE "rewind"
  <1>1. /\ At("opened") /\ UNCHANGED <<store, edits, fsys, dst>>
        /\ doc' = [doc EXCEPT !.fs = call.fs, !.image = None]
        /\ uf' = [uf EXCEPT !.z = z]
    BY DEF Opened
  <1>2. PICK r \in IF z THEN Replies(uf.conn) ELSE {"ok"} :
          /\ Survives(uf.conn, r) /\ Keeps(r, src)
          /\ call' = [call EXCEPT !.at = point, !.failed = r # "ok" \/ @, !.codec = codec]
    BY DEF Opened
  <1>3. /\ call \in CallRecord /\ CallTyped /\ TypeOK /\ Stands /\ FileRead
        /\ BytesLoaded /\ Attempts /\ Healthy
    BY CallContext
  <1>4. call.op = "load" /\ uf # Closed /\ call.file \in Stored
    BY <1>1, <1>3 DEF Stands, At, Loading
  <1>5. PathOf(call.file) \in Paths
    BY <1>4 DEF Stored, PathOf
  <1>6. Ext \in [Paths -> Exts]
    BY FilesAssumption DEF FilesAssumption
  <1>7. codec \in Types \union {None} /\ ext \in Exts
    BY <1>5, <1>6 DEF Exts
  <1>8. uf' # Closed /\ uf' \in UfType /\ uf'.conn = uf.conn /\ uf'.z = z
    <2>1. uf \in UfType
      BY <1>3, <1>4 DEF TypeOK, UfType
    <2> HIDE DEF z
    <2>2. z \in BOOLEAN
      BY DEF z
    <2> QED BY <1>1, <2>1, <2>2 DEF UfType, Closed
  <1>9. /\ SrcSound /\ (r # "lost" => (src # Closed <=> src' # Closed))
    <2>1. CASE z
      BY <1>2, <1>3, <1>4, <1>8, <2>1, AnswerEffect
    <2>2. CASE ~z
      <3>1. up' = up /\ src' = src
        BY <1>2, <2>2 DEF Survives, Keeps
      <3> QED BY <1>3, <1>4, <1>8, <3>1 DEF SrcSound, TypeOK, FileRead, Alive
    <2> QED BY <2>1, <2>2
  <1> DEFINE failed == call.failed \/ r # "ok"
  <1>10. failed \in BOOLEAN /\ point \in Points
    BY DEF Points
  <1>11. call' = [call EXCEPT !.at = point, !.failed = failed, !.codec = codec]
    BY <1>2
  <1>12. point \in {"tell", "rewind"} /\ (point = "tell" => ext = "zdata")
         /\ (point = "rewind" => codec = ext)
    OBVIOUS
  <1> HIDE DEF ext, z, codec, point, failed
  <1>13. call' \in CallRecord
    BY <1>3, <1>7, <1>10, <1>11, PutCodec
  <1>14. SameRequest
    BY <1>3, <1>11, Fields DEF SameRequest
  <1>15. /\ call'.at = point /\ call'.failed = failed /\ call'.codec = codec
         /\ call'.first = call.first
    BY <1>3, <1>11, Fields
  <1>16. doc' \in [fs : Fs \union {Disk, None}, path : Paths \union {None},
                   image : [file : Stored, data : Contents] \union {None}]
    BY <1>1, <1>3 DEF TypeOK, CallTyped
  <1>17. TypeOK'
    BY <1>1, <1>3, <1>8, <1>9, <1>13, <1>16 DEF TypeOK, SrcSound, UfType
  <1>18. Stands'
    BY <1>3, <1>4, <1>8, <1>12, <1>14, <1>15
       DEF Stands, SameRequest, At, Loading, Trying, Typing, SavePoints
  <1>19. FileRead'
    BY <1>1, <1>3, <1>4, <1>8, <1>9, <1>12, <1>14, <1>15
       DEF FileRead, SameRequest, SrcSound, At, ext, z
  <1>20. FileWritten' /\ InStep'
    BY <1>12, <1>15 DEF FileWritten, InStep, At
  <1>21. Attempts'
    BY <1>1, <1>3, <1>12, <1>14, <1>15 DEF Attempts, SameRequest, At, Trying, ext
  <1>22. BytesLoaded'
    BY <1>1, <1>3, <1>4, <1>8, <1>12, <1>14, <1>15 DEF BytesLoaded, SameRequest, At
  <1>23. Whole' = Whole
    BY <1>14 DEF Whole, SameRequest
  <1>24. Healthy'
    <2> SUFFICES ASSUME ~call.touched, ~failed, call.orig # <<>> PROVE Healthy'
      BY <1>14, <1>15 DEF Healthy, SameRequest
    <2>1. r = "ok" /\ ~call.failed
      BY DEF failed
    <2>2. src' # Closed
      BY <1>1, <1>3, <1>4, <1>9, <2>1 DEF Healthy, Loading, At
    <2>3. point = "tell" => Kind[Whole[1]] # ext
      <3>1. Kind[Whole[1]] \in Types
        BY <1>3, WholeBytes DEF CallTyped
      <3> QED BY <1>12, <3>1 DEF Types
    <2>4. call'.first
      BY <1>1, <1>3, <1>15 DEF Attempts, At
    <2> QED BY <1>12, <1>14, <1>15, <1>23, <2>2, <2>3, <2>4
            DEF Healthy, SameRequest, At, Loading, Trying, Typing, ext
  <1>25. BytesSaved'
    BY <1>4, <1>14 DEF BytesSaved, SameRequest
  <1> QED BY <1>17, <1>18, <1>19, <1>20, <1>21, <1>22, <1>24, <1>25 DEF FilesInv, Placed, Bytes

LEMMA PutOrig ==
  ASSUME NEW c \in CallRecord, NEW point \in Points, NEW orig \in Contents
  PROVE  [c EXCEPT !.at = point, !.orig = orig, !.touched = FALSE] \in CallRecord
  BY DEF CallRecord

LEMMA OpensInv ==
  ASSUME FilesInv, Opens
  PROVE  FilesInv'
  <1> DEFINE c == ConnOf(call.fs)
             orig == store[call.file]
             point == IF call.op = "load" THEN "opened" ELSE "create"
  <1>1. /\ At("open") /\ orig # Missing /\ "ok" \in Replies(c)
        /\ src' = [conn |-> c, file |-> call.file, pos |-> 0]
        /\ uf' = [conn |-> c, z |-> FALSE, seed |-> Seed0]
        /\ call' = [call EXCEPT !.at = point, !.orig = orig, !.touched = FALSE]
        /\ UNCHANGED <<store, edits, fsys, up, dst, doc>>
    BY DEF Opens
  <1>2. /\ call \in CallRecord /\ CallTyped /\ TypeOK /\ Stands /\ FileRead /\ Attempts
    BY CallContext
  <1>3. call.op \in {"load", "save"} /\ call.file \in Stored /\ uf = Closed
    BY <1>1, <1>2 DEF Stands, At, CallTyped
  <1>4. c \in up \union {Disk} /\ c \in Conns \union {Disk}
    BY <1>1, <1>2 DEF Replies, TypeOK
  <1>5. orig \in Contents
    BY <1>1, <1>2, <1>3 DEF TypeOK
  <1>6. point \in Points /\ (call.op = "load" => point = "opened") /\ (call.op = "save" => point = "create")
    BY <1>3 DEF Points
  <1> HIDE DEF c, orig, point
  <1>7. call' \in CallRecord
    BY <1>1, <1>2, <1>5, <1>6, PutOrig
  <1>8. /\ call'.at = point /\ call'.op = call.op /\ call'.fs = call.fs /\ call'.file = call.file
        /\ call'.to = call.to /\ call'.orig = orig /\ call'.touched = FALSE
        /\ call'.failed = call.failed /\ call'.first = call.first
    BY <1>1, <1>2, Fields
  <1>9. /\ uf' # Closed /\ uf' \in UfType /\ uf'.conn = c /\ uf'.z = FALSE
        /\ src' # Closed /\ src' \in Handles(Conns \union {Disk})
        /\ src'.conn = c /\ src'.file = call.file /\ src'.pos = 0
    BY <1>1, <1>3, <1>4, WordAssumption DEF UfType, Handles, Closed
  <1>10. TypeOK'
    BY <1>1, <1>2, <1>7, <1>9 DEF TypeOK, UfType
  <1>11. Stands'
    BY <1>1, <1>2, <1>3, <1>6, <1>8, <1>9 DEF Stands, At, Loading, Trying, Typing, SavePoints
  <1>12. FileRead'
    BY <1>1, <1>3, <1>4, <1>5, <1>6, <1>8, <1>9 DEF FileRead, At, Alive, orig
  <1>13. FileWritten' /\ InStep'
    BY <1>3, <1>6, <1>8 DEF FileWritten, InStep, At
  <1>14. Attempts'
    BY <1>1, <1>2, <1>3, <1>6, <1>8 DEF Attempts, At, Trying
  <1>15. BytesLoaded'
    BY <1>1, <1>3, <1>6, <1>8 DEF BytesLoaded, At, orig
  <1>16. Healthy'
    BY <1>3, <1>6, <1>8, <1>9 DEF Healthy, At, Loading, Trying, Typing
  <1>17. BytesSaved'
    BY <1>1, <1>3, <1>6, <1>8, <1>9 DEF BytesSaved, At, SavePoints, orig
  <1> QED BY <1>10, <1>11, <1>12, <1>13, <1>14, <1>15, <1>16, <1>17 DEF FilesInv, Placed, Bytes

(* A call that ends without a result, or goes to reconnect. *)
LEMMA OpenFailsInv ==
  ASSUME FilesInv, OpenFails
  PROVE  FilesInv'
  <1> DEFINE c == ConnOf(call.fs)
  <1>1. At("open") /\ UNCHANGED <<store, edits, fsys, src, uf, dst, doc>>
    BY DEF OpenFails
  <1>2. PICK r \in Replies(c) :
          /\ r = "ok" => store[call.file] = Missing
          /\ Survives(c, r)
          /\ IF call.op = "load" /\ c # Disk /\ ~call.retried /\ r # "ok"
             THEN Then("reconnect", r) ELSE Ends(FALSE, r)
    BY DEF OpenFails
  <1>3. /\ call \in CallRecord /\ CallTyped /\ TypeOK /\ Stands /\ FileRead /\ Attempts
    BY CallContext
  <1>4. call.op \in {"load", "save"} /\ call.file \in Stored /\ uf = Closed /\ src = Closed
    BY <1>1, <1>3 DEF Stands, At, CallTyped, FileRead
  <1>5. up' \subseteq Conns
    BY <1>2, <1>3 DEF TypeOK, Survives
  <1>6. CASE call.op = "load" /\ c # Disk /\ ~call.retried /\ r # "ok"
    <2>1. Then("reconnect", r) /\ "reconnect" \in Points
      BY <1>2, <1>6 DEF Points
    <2>2. /\ call' \in CallRecord /\ SameRequest /\ call'.at = "reconnect"
          /\ call'.failed = (call.failed \/ r # "ok") /\ call'.first = call.first
      BY <1>3, <2>1, ThenFields
    <2>3. call.fs \in Fs
      BY <1>3, <1>6 DEF ConnOf, CallTyped
    <2>4. TypeOK'
      BY <1>1, <1>3, <1>5, <2>2 DEF TypeOK
    <2>5. Stands'
      BY <1>1, <1>3, <1>4, <1>6, <2>2, <2>3
         DEF Stands, SameRequest, At, Loading, Trying, Typing, SavePoints
    <2>6. FileRead' /\ FileWritten' /\ InStep'
      BY <1>1, <1>4, <2>2 DEF FileRead, FileWritten, InStep, At
    <2>7. BytesLoaded'
      BY <1>1, <1>4, <2>2 DEF BytesLoaded, At
    <2>8. Attempts'
      BY <1>1, <1>3, <1>6, <2>2 DEF Attempts, SameRequest, At, Trying
    <2>9. Healthy' /\ BytesSaved'
      BY <1>6, <2>2 DEF Healthy, BytesSaved, SameRequest, At, Loading, Trying, Typing, SavePoints
    <2> QED BY <2>4, <2>5, <2>6, <2>7, <2>8, <2>9 DEF FilesInv, Placed, Bytes
  <1>7. CASE ~(call.op = "load" /\ c # Disk /\ ~call.retried /\ r # "ok")
    <2>1. Ends(FALSE, r)
      BY <1>2, <1>7
    <2>2. /\ call' \in CallRecord /\ SameRequest /\ call'.at = "close" /\ call'.ok = FALSE
          /\ call'.failed = (call.failed \/ r # "ok")
      BY <1>3, <2>1, EndsFields
    <2>3. TypeOK'
      BY <1>1, <1>3, <1>5, <2>2 DEF TypeOK
    <2>4. Stands'
      BY <1>1, <1>3, <1>4, <2>2 DEF Stands, SameRequest, At, Loading, Trying, Typing, SavePoints
    <2>5. FileRead' /\ FileWritten' /\ InStep' /\ Attempts'
      BY <1>1, <1>4, <2>2 DEF FileRead, FileWritten, InStep, Attempts, At, Trying
    <2>6. BytesLoaded'
      BY <1>1, <1>4, <2>2 DEF BytesLoaded, At
    <2>7. Healthy'
      BY <1>1, <1>3, <2>2 DEF Healthy, Attempts, SameRequest, At, Loading, Trying, Typing
    <2>8. BytesSaved'
      BY <2>2 DEF BytesSaved, At, SavePoints
    <2> QED BY <2>3, <2>4, <2>5, <2>6, <2>7, <2>8 DEF FilesInv, Placed, Bytes
  <1> QED BY <1>6, <1>7

(* There is a connection that neither file system nor the open file has. *)
LEMMA NewConn ==
  ASSUME NEW a, NEW b, NEW d
  PROVE  Min(Conns \ {a, b, d}) \in Conns \ {a, b, d}
  <1> DEFINE T == Conns \ {a, b, d}
  <1>1. T \subseteq Nat
    BY DEF Conns
  <1>2. T # {}
    <2>1. 1 \in Conns /\ 2 \in Conns /\ 3 \in Conns /\ 4 \in Conns
      BY DEF Conns
    <2> QED BY <2>1
  <1> HIDE DEF T
  <1>3. \E m \in T : \A k \in T : m <= k
    BY <1>1, <1>2, LeastNumber
  <1>4. Min(T) \in T
    BY <1>3 DEF Min
  <1> QED BY <1>4 DEF T

ConnType == [server : Servers \union {None}, conn : Conns \union {None}]

LEMMA ConnectsEffect ==
  ASSUME fsys \in [Fs -> ConnType], up \subseteq Conns,
         NEW o \in Fs, NEW server \in Servers \union {None}, Connects(o, server)
  PROVE  /\ fsys' \in [Fs -> ConnType] /\ up' \subseteq Conns
         /\ uf.conn \in up' <=> uf.conn \in up
  <1> DEFINE S == {fsys[p].conn : p \in Fs} \union {uf.conn}
             c == Min(Conns \ S)
  <1>1. /\ fsys' = [fsys EXCEPT ![o] = [server |-> server, conn |-> c]]
        /\ up' = (up \ ({fsys[o].conn} \ {uf.conn})) \union {c}
    BY DEF Connects
  <1>2. S = {fsys[1].conn, fsys[2].conn, uf.conn}
    BY DEF Fs
  <1>3. c \in Conns \ S
    BY <1>2, NewConn
  <1> HIDE DEF c
  <1>4. c \in Conns /\ c # uf.conn
    BY <1>3
  <1> HIDE DEF S
  <1>5. [server |-> server, conn |-> c] \in ConnType
    BY <1>4 DEF ConnType
  <1>6. fsys' \in [Fs -> ConnType]
    BY <1>1, <1>5
  <1>7. up' \subseteq Conns /\ (uf.conn \in up' <=> uf.conn \in up)
    BY <1>1, <1>4
  <1> QED BY <1>6, <1>7

LEMMA PutRetried ==
  ASSUME NEW c \in CallRecord, NEW point \in Points
  PROVE  [c EXCEPT !.at = point, !.retried = TRUE] \in CallRecord
  BY DEF CallRecord

LEMMA ReconnectsInv ==
  ASSUME FilesInv, Reconnects
  PROVE  FilesInv'
  <1> DEFINE point == IF uf = Closed THEN "open" ELSE "rescan"
  <1>1. /\ At("reconnect") /\ Connects(call.fs, fsys[call.fs].server)
        /\ call' = [call EXCEPT !.at = point, !.retried = TRUE]
        /\ UNCHANGED <<store, edits, src, uf, dst, doc>>
    BY DEF Reconnects
  <1>2. /\ call \in CallRecord /\ CallTyped /\ TypeOK /\ Stands /\ FileRead
        /\ BytesLoaded /\ Attempts
    BY CallContext
  <1>3. call.op = "load" /\ call.fs \in Fs /\ call.file \in Stored
    BY <1>1, <1>2 DEF Stands, At
  <1>4. fsys \in [Fs -> ConnType] /\ up \subseteq Conns /\ fsys[call.fs].server \in Servers \union {None}
    BY <1>2, <1>3 DEF TypeOK, ConnType
  <1>5. fsys' \in [Fs -> ConnType] /\ up' \subseteq Conns /\ (uf.conn \in up' <=> uf.conn \in up)
    BY <1>1, <1>3, <1>4, ConnectsEffect
  <1>6. point \in Points /\ point \in {"open", "rescan"} /\ (point = "open" <=> uf = Closed)
    BY DEF Points
  <1> HIDE DEF point
  <1>7. call' \in CallRecord
    BY <1>1, <1>2, <1>6, PutRetried
  <1>8. SameRequest
    BY <1>1, <1>2, Fields DEF SameRequest
  <1>9. call'.at = point /\ call'.failed = call.failed /\ call'.first = call.first
    BY <1>1, <1>2, Fields
  <1>10. TypeOK'
    BY <1>1, <1>2, <1>5, <1>7 DEF TypeOK, ConnType
  <1>11. Stands'
    BY <1>1, <1>2, <1>3, <1>6, <1>8, <1>9
       DEF Stands, SameRequest, At, Loading, Trying, Typing, SavePoints
  <1>12. FileRead'
    BY <1>1, <1>2, <1>3, <1>5, <1>6, <1>8, <1>9 DEF FileRead, SameRequest, At, Alive
  <1>13. FileWritten' /\ InStep'
    BY <1>6, <1>9 DEF FileWritten, InStep, At
  <1>14. Attempts'
    BY <1>1, <1>2, <1>6, <1>8, <1>9 DEF Attempts, SameRequest, At, Trying
  <1>15. Whole' = Whole
    BY <1>8 DEF Whole, SameRequest
  <1>16. BytesLoaded'
    BY <1>1, <1>2, <1>3, <1>6, <1>8, <1>9, <1>15 DEF BytesLoaded, SameRequest, At
  <1>17. Healthy' /\ BytesSaved'
    BY <1>3, <1>6, <1>8, <1>9 DEF Healthy, BytesSaved, SameRequest, At, Loading, Trying, Typing
  <1> QED BY <1>10, <1>11, <1>12, <1>13, <1>14, <1>16, <1>17 DEF FilesInv, Placed, Bytes

LEMMA NoDocType ==
  NoDoc \in [fs : Fs \union {Disk, None}, path : Paths \union {None},
             image : [file : Stored, data : Contents] \union {None}]
  BY DEF NoDoc

(* A load fails for good: nothing is shown. *)
LEMMA GivesUp ==
  ASSUME FilesInv, call.op = "load", uf' = uf, FileRead', up' \subseteq Conns,
         src' = Closed \/ src' \in Handles(Conns \union {Disk}),
         UNCHANGED <<store, edits, fsys, dst>>, doc' = NoDoc,
         NEW r, r # "ok", Ends(FALSE, r), ~At("idle")
  PROVE  FilesInv'
  <1>1. /\ call \in CallRecord /\ CallTyped /\ TypeOK /\ Stands /\ BytesLoaded
    BY CallContext
  <1>2. /\ call' \in CallRecord /\ SameRequest /\ call'.at = "close" /\ call'.ok = FALSE
        /\ call'.failed = (call.failed \/ r # "ok")
    BY <1>1, EndsFields
  <1>3. TypeOK'
    BY <1>1, <1>2, NoDocType DEF TypeOK
  <1>4. Stands'
    BY <1>1, <1>2 DEF Stands, SameRequest, At, Loading, Trying, Typing, SavePoints
  <1>5. FileWritten' /\ InStep' /\ Attempts'
    BY <1>2 DEF FileWritten, InStep, Attempts, At, Trying
  <1>6. BytesLoaded'
    BY <1>1, <1>2 DEF BytesLoaded, SameRequest, At
  <1>7. Healthy' /\ BytesSaved'
    BY <1>2 DEF Healthy, BytesSaved, SameRequest
  <1> QED BY <1>3, <1>4, <1>5, <1>6, <1>7 DEF FilesInv, Placed, Bytes

LEMMA ReconnectFailsInv ==
  ASSUME FilesInv, ReconnectFails
  PROVE  FilesInv'
  <1>1. /\ At("reconnect") /\ doc' = NoDoc /\ Ends(FALSE, "lost")
        /\ UNCHANGED <<store, edits, fsys, up, src, uf, dst>>
    BY DEF ReconnectFails
  <1>2. /\ call \in CallRecord /\ TypeOK /\ Stands /\ FileRead
    BY CallContext
  <1>3. call.op = "load"
    BY <1>1, <1>2 DEF Stands, At
  <1>4. SameRequest /\ call'.at = "close"
    BY <1>1, <1>2, EndsFields
  <1>5. FileRead'
    BY <1>1, <1>2, <1>3, <1>4 DEF FileRead, SameRequest, At, Alive
  <1>6. up' \subseteq Conns /\ (src' = Closed \/ src' \in Handles(Conns \union {Disk}))
    BY <1>1, <1>2 DEF TypeOK
  <1>7. ~At("idle")
    BY <1>1 DEF At
  <1> QED BY <1>1, <1>3, <1>5, <1>6, <1>7, GivesUp

LEMMA RescansInv ==
  ASSUME FilesInv, Rescans
  PROVE  FilesInv'
  <1> DEFINE c == ConnOf(call.fs)
  <1>1. At("rescan") /\ UNCHANGED <<store, edits, fsys, uf, dst>>
    BY DEF Rescans
  <1>2. PICK r \in Replies(c) :
          /\ Survives(c, r)
          /\ src' = IF src.conn \in {Disk, None} \union up' THEN src ELSE Closed
          /\ \/ r = "ok" /\ Ends(TRUE, r) /\ doc' = doc
             \/ /\ r # "ok" /\ c # Disk /\ ~call.retried
                /\ Then("reconnect", r) /\ doc' = doc
             \/ /\ r = "error" \/ (r = "lost" /\ call.retried)
                /\ Ends(FALSE, r) /\ doc' = NoDoc
    BY DEF Rescans
  <1>3. /\ call \in CallRecord /\ CallTyped /\ TypeOK /\ Stands /\ FileRead
        /\ BytesLoaded /\ Attempts
    BY CallContext
  <1>4. call.op = "load" /\ uf # Closed /\ call.file \in Stored
    BY <1>1, <1>3 DEF Stands, At
  <1>5. up' \subseteq up /\ up' \subseteq Conns
    BY <1>2, <1>3 DEF TypeOK, Survives
  <1>6. /\ src' = Closed \/ src' \in Handles(Conns \union {Disk})
        /\ src' # Closed <=> Alive'
        /\ src' # Closed => src' = src
    <2>1. uf.conn \in Conns \union {Disk} /\ None \notin Conns \union {Disk}
      BY <1>3, <1>4, FilesAssumption DEF TypeOK, FilesAssumption
    <2>2. CASE src = Closed
      <3>1. src' = Closed
        BY <1>2, <2>2
      <3>2. uf.conn \notin up' \union {Disk}
        BY <1>3, <1>4, <1>5, <2>2 DEF FileRead, Alive
      <3> QED BY <1>1, <3>1, <3>2 DEF Alive
    <2>3. CASE src # Closed
      <3>1. src.conn = uf.conn /\ src \in Handles(Conns \union {Disk})
        BY <1>3, <2>3 DEF FileRead, TypeOK
      <3>2. src.conn # None
        BY <2>1, <3>1
      <3> QED BY <1>1, <1>2, <2>3, <3>1, <3>2 DEF Alive
    <2> QED BY <2>2, <2>3
  <1> HIDE DEF c
  <1>7. ASSUME call'.at \in {"close", "reconnect"}, SameRequest
        PROVE  FileRead'
    BY <1>1, <1>3, <1>4, <1>6, <1>7 DEF FileRead, SameRequest, At
  <1>8. CASE r = "ok" /\ Ends(TRUE, r) /\ doc' = doc
    <2>1. /\ call' \in CallRecord /\ SameRequest /\ call'.at = "close" /\ call'.ok = TRUE
      BY <1>3, <1>8, EndsFields
    <2>2. TypeOK'
      BY <1>1, <1>3, <1>5, <1>6, <1>8, <2>1 DEF TypeOK
    <2>3. Stands'
      BY <1>3, <1>4, <2>1 DEF Stands, SameRequest, At, Loading, Trying, Typing, SavePoints
    <2>4. FileWritten' /\ InStep' /\ Attempts'
      BY <2>1 DEF FileWritten, InStep, Attempts, At, Trying
    <2>5. Whole' = Whole
      BY <2>1 DEF Whole, SameRequest
    <2>6. BytesLoaded'
      BY <1>1, <1>3, <1>4, <1>8, <2>1, <2>5 DEF BytesLoaded, SameRequest, At
    <2>7. Healthy' /\ BytesSaved'
      BY <1>4, <2>1 DEF Healthy, BytesSaved, SameRequest, At, Loading, Trying, Typing
    <2> QED BY <1>7, <2>1, <2>2, <2>3, <2>4, <2>6, <2>7 DEF FilesInv, Placed, Bytes
  <1>9. CASE r # "ok" /\ c # Disk /\ ~call.retried /\ Then("reconnect", r) /\ doc' = doc
    <2>1. "reconnect" \in Points
      BY DEF Points
    <2>2. /\ call' \in CallRecord /\ SameRequest /\ call'.at = "reconnect"
          /\ call'.failed = (call.failed \/ r # "ok") /\ call'.first = call.first
      BY <1>3, <1>9, <2>1, ThenFields
    <2>3. call.fs \in Fs
      BY <1>3, <1>9 DEF ConnOf, CallTyped, c
    <2>4. TypeOK'
      BY <1>1, <1>3, <1>5, <1>6, <1>9, <2>2 DEF TypeOK
    <2>5. Stands'
      BY <1>3, <1>4, <2>2, <2>3 DEF Stands, SameRequest, At, Loading, Trying, Typing, SavePoints
    <2>6. FileWritten' /\ InStep'
      BY <2>2 DEF FileWritten, InStep, At
    <2>7. Attempts'
      BY <1>1, <1>4, <1>9, <2>2 DEF Attempts, At, Trying
    <2>8. Whole' = Whole
      BY <2>2 DEF Whole, SameRequest
    <2>9. BytesLoaded'
      BY <1>1, <1>3, <1>4, <1>9, <2>2, <2>8 DEF BytesLoaded, SameRequest, At
    <2>10. Healthy' /\ BytesSaved'
      BY <1>4, <2>2 DEF Healthy, BytesSaved, SameRequest, At, Loading, Trying, Typing
    <2> QED BY <1>7, <2>2, <2>4, <2>5, <2>6, <2>7, <2>9, <2>10 DEF FilesInv, Placed, Bytes
  <1>10. CASE (r = "error" \/ (r = "lost" /\ call.retried)) /\ Ends(FALSE, r) /\ doc' = NoDoc
    <2>1. r # "ok" /\ ~At("idle")
      BY <1>1, <1>10 DEF At
    <2>2. SameRequest /\ call'.at = "close"
      BY <1>3, <1>10, EndsFields
    <2> QED BY <1>1, <1>4, <1>5, <1>6, <1>7, <1>10, <2>1, <2>2, GivesUp
  <1> QED BY <1>2, <1>8, <1>9, <1>10

LEMMA PutReading ==
  ASSUME NEW c \in CallRecord, NEW got \in Contents
  PROVE  [c EXCEPT !.size = 0, !.got = got, !.pos = 0, !.retried = FALSE] \in CallRecord
  BY DEF CallRecord

LEMMA PutIdle ==
  ASSUME NEW c \in CallRecord
  PROVE  [c EXCEPT !.at = "idle", !.fs = Disk, !.codec = None, !.first = TRUE,
                   !.size = 0, !.got = <<>>, !.pos = 0, !.retried = FALSE] \in CallRecord
  <1> DEFINE d == [c EXCEPT !.at = "idle", !.fs = Disk, !.codec = None, !.first = TRUE]
  <1>1. "idle" \in Points
    BY DEF Points
  <1>2. d \in CallRecord
    BY <1>1 DEF CallRecord
  <1> HIDE DEF d
  <1>3. [d EXCEPT !.size = 0, !.got = <<>>, !.pos = 0, !.retried = FALSE] \in CallRecord
    BY <1>2, EmptyBytes, PutReading
  <1> QED BY <1>3 DEF d

LEMMA ClosesInv ==
  ASSUME FilesInv, Closes
  PROVE  FilesInv'
  <1>1. /\ At("close") /\ src' = Closed /\ uf' = Closed /\ dst' = Closed
        /\ fsys' = [o \in Fs |-> IF o = doc.fs THEN fsys[o] ELSE Free]
        /\ up' = up \intersect {fsys[o].conn : o \in Fs \intersect {doc.fs}}
        /\ call' = [call EXCEPT !.at = "idle", !.fs = Disk, !.codec = None, !.first = TRUE,
                                !.size = 0, !.got = <<>>, !.pos = 0, !.retried = FALSE]
        /\ UNCHANGED <<store, edits, doc>>
    BY DEF Closes
  <1>2. /\ call \in CallRecord /\ CallTyped /\ TypeOK /\ Stands
        /\ BytesLoaded /\ Healthy /\ BytesSaved
    BY CallContext
  <1>3. call' \in CallRecord
    BY <1>1, <1>2, PutIdle
  <1>4. /\ call'.op = call.op /\ call'.file = call.file /\ call'.to = call.to
        /\ call'.orig = call.orig /\ call'.touched = call.touched
    BY <1>1, <1>2, Fields
  <1>5. call'.at = "idle" /\ call'.ok = call.ok /\ call'.failed = call.failed
    BY <1>1, <1>2, Fields
  <1>6. fsys' \in [Fs -> ConnType] /\ up' \subseteq Conns
    <2>1. Free \in ConnType
      BY DEF Free, ConnType
    <2>2. fsys \in [Fs -> ConnType]
      BY <1>2 DEF TypeOK, ConnType
    <2>3. up' \subseteq Conns
      BY <1>1, <1>2 DEF TypeOK
    <2> QED BY <1>1, <2>1, <2>2, <2>3
  <1>7. TypeOK'
    BY <1>1, <1>2, <1>3, <1>6 DEF TypeOK, ConnType
  <1>8. Stands'
    BY <1>1, <1>2, <1>4, <1>5 DEF Stands, At, Loading, Trying, Typing, SavePoints
  <1>9. FileRead' /\ FileWritten' /\ InStep' /\ Attempts'
    BY <1>1, <1>5 DEF FileRead, FileWritten, InStep, Attempts, At, Trying
  <1>10. Whole' = Whole
    BY <1>4 DEF Whole
  <1>11. BytesLoaded'
    BY <1>1, <1>2, <1>4, <1>5, <1>10 DEF BytesLoaded, At
  <1>12. Healthy'
    BY <1>1, <1>2, <1>4, <1>5 DEF Healthy, At, Loading, Trying, Typing
  <1>13. BytesSaved'
    BY <1>1, <1>2, <1>4, <1>5 DEF BytesSaved, At, SavePoints
  <1> QED BY <1>7, <1>8, <1>9, <1>11, <1>12, <1>13 DEF FilesInv, Placed, Bytes
-----------------------------------------------------------------------------
(***************************************************************************)
(* saveAsLocal().                                                          *)
(***************************************************************************)
LEMMA MaxOfTwo ==
  ASSUME NEW a \in Int, NEW b \in Int
  PROVE  Max({a, b}) = IF a >= b THEN a ELSE b
  <1>1. CASE a >= b
    <2>1. a \in {a, b} /\ \A y \in {a, b} : a >= y
      BY <1>1
    <2>2. \A x \in {a, b} : (\A y \in {a, b} : x >= y) => x = a
      BY <1>1
    <2> QED BY <1>1, <2>1, <2>2 DEF Max
  <1>2. CASE ~(a >= b)
    <2>1. b \in {a, b} /\ \A y \in {a, b} : b >= y
      BY <1>2
    <2>2. \A x \in {a, b} : (\A y \in {a, b} : x >= y) => x = b
      BY <1>2
    <2> QED BY <1>2, <2>1, <2>2 DEF Max
  <1> QED BY <1>1, <1>2

LEMMA WrittenBytes ==
  ASSUME NEW old \in Contents, NEW pos \in Nat, NEW data \in Contents
  PROVE  /\ Written(old, pos, data) \in Contents
         /\ Len(Written(old, pos, data)) =
              IF Len(old) >= pos + Len(data) THEN Len(old) ELSE pos + Len(data)
         /\ \A i \in 1 .. Len(Written(old, pos, data)) :
              Written(old, pos, data)[i] =
                IF i \in pos + 1 .. pos + Len(data) THEN data[i - pos]
                ELSE IF i <= Len(old) THEN old[i] ELSE 0
  <1> DEFINE top == Max({Len(old), pos + Len(data)})
             byte(i) == IF i \in pos + 1 .. pos + Len(data) THEN data[i - pos]
                        ELSE IF i <= Len(old) THEN old[i] ELSE 0
  <1>1. /\ Len(old) \in Nat /\ \A i \in 1 .. Len(old) : old[i] \in Bit
        /\ Len(data) \in Nat /\ \A i \in 1 .. Len(data) : data[i] \in Bit
    BY BytesOf
  <1>2. top = (IF Len(old) >= pos + Len(data) THEN Len(old) ELSE pos + Len(data)) /\ top \in Nat
    BY <1>1, MaxOfTwo
  <1>3. Written(old, pos, data) = [i \in 1 .. top |-> byte(i)]
    BY DEF Written
  <1> HIDE DEF top
  <1>4. ASSUME NEW i \in 1 .. top PROVE byte(i) \in Bit
    <2>1. CASE i \in pos + 1 .. pos + Len(data)
      <3>1. i - pos \in 1 .. Len(data)
        BY <1>1, <2>1
      <3> QED BY <1>1, <2>1, <3>1
    <2>2. CASE i \notin pos + 1 .. pos + Len(data)
      <3>1. i <= Len(old) => i \in 1 .. Len(old)
        BY <1>1, <1>2
      <3> QED BY <1>1, <2>2, <3>1 DEF Bit
    <2> QED BY <2>1, <2>2
  <1>5. \A i \in 1 .. top : Written(old, pos, data)[i] = byte(i)
    BY <1>3
  <1> HIDE DEF byte
  <1>6. Written(old, pos, data) \in [1 .. top -> Bit]
    BY <1>3, <1>4
  <1>7. Written(old, pos, data) \in Contents /\ Len(Written(old, pos, data)) = top
    BY <1>2, <1>6, IsContents
  <1> QED BY <1>2, <1>5, <1>7 DEF byte

(* What is written behind a part of b and goes on with it. *)
LEMMA WritesOn ==
  ASSUME NEW b \in Contents, NEW pos \in Nat, NEW n \in Nat, pos + n <= Len(b)
  PROVE  Written(SubSeq(b, 1, pos), pos, SubSeq(b, pos + 1, pos + n)) = SubSeq(b, 1, pos + n)
  <1> DEFINE old == SubSeq(b, 1, pos)
             data == SubSeq(b, pos + 1, pos + n)
             new == SubSeq(b, 1, pos + n)
  <1>0. Len(b) \in Nat /\ pos <= Len(b) /\ pos + n \in Nat
    BY BytesOf
  <1>1. old \in Contents /\ Len(old) = pos /\ \A i \in 1 .. pos : old[i] = b[i]
    BY <1>0, FirstPart
  <1>2. new \in Contents /\ Len(new) = pos + n /\ \A i \in 1 .. pos + n : new[i] = b[i]
    BY <1>0, FirstPart
  <1>3. data \in Contents /\ Len(data) = n /\ \A i \in 1 .. n : data[i] = b[pos + i]
    BY Part
  <1> HIDE DEF old, new, data
  <1>4. /\ Written(old, pos, data) \in Contents
        /\ Len(Written(old, pos, data)) = IF Len(old) >= pos + Len(data) THEN Len(old) ELSE pos + Len(data)
        /\ \A i \in 1 .. Len(Written(old, pos, data)) :
             Written(old, pos, data)[i] =
               IF i \in pos + 1 .. pos + Len(data) THEN data[i - pos]
               ELSE IF i <= Len(old) THEN old[i] ELSE 0
    BY <1>1, <1>3, WrittenBytes
  <1>5. Len(Written(old, pos, data)) = pos + n
    BY <1>1, <1>3, <1>4
  <1>6. ASSUME NEW i \in 1 .. pos + n PROVE Written(old, pos, data)[i] = new[i]
    <2>1. CASE i <= pos
      <3>1. i \notin pos + 1 .. pos + Len(data) /\ i <= Len(old) /\ i \in 1 .. pos
        BY <1>1, <1>3, <2>1
      <3>2. Written(old, pos, data)[i] = old[i]
        BY <1>4, <1>5, <3>1
      <3> QED BY <1>1, <1>2, <3>1, <3>2
    <2>2. CASE ~(i <= pos)
      <3>1. i \in pos + 1 .. pos + Len(data) /\ i - pos \in 1 .. n /\ pos + (i - pos) = i
        BY <1>3, <2>2
      <3>2. Written(old, pos, data)[i] = data[i - pos]
        BY <1>4, <1>5, <3>1
      <3> QED BY <1>2, <1>3, <3>1, <3>2
    <2> QED BY <2>1, <2>2
  <1>7. Written(old, pos, data) = new
    BY <1>2, <1>4, <1>5, <1>6, SameBytes
  <1> QED BY <1>7 DEF old, new, data

LEMMA SaveContext ==
  ASSUME FilesInv, call.at \in SavePoints
  PROVE  /\ call \in CallRecord /\ CallTyped /\ TypeOK /\ FileRead /\ FileWritten /\ BytesSaved
         /\ call.op = "save" /\ uf # Closed /\ ~uf.z /\ call.file \in Stored /\ call.to \in Stored
         /\ store[call.file] \in Contents
  <1>1. /\ call \in CallRecord /\ CallTyped /\ TypeOK /\ Stands /\ FileRead /\ FileWritten
        /\ BytesSaved
    BY CallContext
  <1>2. call.op = "save" /\ uf # Closed
    BY <1>1 DEF Stands
  <1>3. call.file \in Stored /\ call.to \in Stored
    BY <1>1, <1>2 DEF Stands
  <1> QED BY <1>1, <1>2, <1>3 DEF FileRead

(* What is left to show of a step of saveAsLocal(). *)
LEMMA SaveStep ==
  ASSUME FilesInv, call.at \in SavePoints, call' \in CallRecord, SameRequest,
         call'.at \in SavePoints \union {"close"}, TypeOK', FileRead', FileWritten',
         uf' # Closed, BytesSaved'
  PROVE  FilesInv'
  <1>1. call.op = "save" /\ call.file \in Stored /\ call.to \in Stored
    BY SaveContext
  <1>2. Stands'
    BY <1>1 DEF Stands, SameRequest, At, Loading, Trying, Typing, SavePoints
  <1>3. InStep' /\ Attempts'
    BY DEF InStep, Attempts, At, Trying, SavePoints
  <1>4. BytesLoaded' /\ Healthy'
    BY <1>1 DEF BytesLoaded, Healthy, SameRequest
  <1> QED BY <1>2, <1>3, <1>4 DEF FilesInv, Placed, Bytes

LEMMA NothingCopied ==
  ASSUME NEW b \in Contents
  PROVE  0 <= Len(b) /\ <<>> = SubSeq(b, 1, 0)
  BY BytesOf, EmptyPart

LEMMA CreatesInv ==
  ASSUME FilesInv, Creates
  PROVE  FilesInv'
  <1>1. At("create") /\ UNCHANGED <<edits, fsys, up, src, uf, doc>> /\ call.at \in SavePoints
    BY DEF Creates, At, SavePoints
  <1>2. /\ call \in CallRecord /\ CallTyped /\ TypeOK /\ FileRead /\ BytesSaved
        /\ call.op = "save" /\ uf # Closed /\ ~uf.z /\ call.file \in Stored /\ call.to \in Stored
        /\ store[call.file] \in Contents
    BY <1>1, SaveContext
  <1>3. CASE /\ store' = [store EXCEPT ![call.to] = <<>>]
             /\ dst' = [conn |-> Disk, file |-> call.to, pos |-> 0]
             /\ Then("copy", "ok")
    <2>1. "copy" \in Points
      BY DEF Points
    <2>2. call' \in CallRecord /\ SameRequest /\ call'.at = "copy"
      BY <1>2, <1>3, <2>1, ThenFields
    <2>3. /\ store' \in [Stored -> Contents \union {Missing}] /\ store'[call.to] = <<>>
          /\ store'[call.file] \in Contents
          /\ call.to # call.file => store'[call.file] = store[call.file]
      BY <1>2, <1>3, EmptyBytes DEF TypeOK
    <2>4. dst' # Closed /\ dst' \in Handles({Disk}) /\ dst'.file = call.to /\ dst'.pos = 0
      BY <1>2, <1>3 DEF Handles, Closed
    <2>5. TypeOK'
      BY <1>1, <1>2, <2>2, <2>3, <2>4 DEF TypeOK
    <2>6. FileRead'
      BY <1>1, <1>2, <2>2, <2>3 DEF FileRead, SameRequest, At, Alive
    <2>7. FileWritten'
      BY <2>2, <2>3, <2>4, EmptyBytes DEF FileWritten, SameRequest
    <2>8. ASSUME ~call.touched, call.to # call.file
          PROVE  /\ store'[call.file] = call.orig /\ (src' # Closed => src'.pos = 0)
                 /\ 0 <= Len(call.orig) /\ store'[call.to] = SubSeq(call.orig, 1, 0)
      <3>1. store[call.file] = call.orig /\ (src # Closed => src.pos = 0) /\ call.orig \in Contents
        BY <1>1, <1>2, <2>8 DEF BytesSaved, At, SavePoints, CallTyped
      <3> QED BY <1>1, <2>3, <2>8, <3>1, NothingCopied
    <2>9. BytesSaved'
      BY <2>2, <2>4, <2>8 DEF BytesSaved, SameRequest, At, Copied
    <2> QED BY <1>1, <1>2, <2>2, <2>5, <2>6, <2>7, <2>9, SaveStep DEF SavePoints
  <1>4. CASE Ends(FALSE, "error") /\ UNCHANGED <<store, dst>>
    <2>1. call' \in CallRecord /\ SameRequest /\ call'.at = "close" /\ call'.ok = FALSE
      BY <1>2, <1>4, EndsFields
    <2>2. TypeOK'
      BY <1>1, <1>2, <1>4, <2>1 DEF TypeOK
    <2>3. FileRead'
      BY <1>1, <1>2, <1>4, <2>1 DEF FileRead, SameRequest, At, Alive
    <2>4. FileWritten' /\ BytesSaved'
      BY <2>1 DEF FileWritten, BytesSaved, At, SavePoints
    <2> QED BY <1>1, <1>2, <2>1, <2>2, <2>3, <2>4, SaveStep
  <1> QED BY <1>3, <1>4 DEF Creates

LEMMA FlushesInv ==
  ASSUME FilesInv, Flushes
  PROVE  FilesInv'
  <1>1. /\ At("flush") /\ UNCHANGED <<store, edits, fsys, up, src, uf, dst, doc>>
        /\ call.at \in SavePoints
    BY DEF Flushes, At, SavePoints
  <1>2. PICK ok \in BOOLEAN : Ends(ok, IF ok THEN "ok" ELSE "error")
    BY DEF Flushes
  <1>3. /\ call \in CallRecord /\ CallTyped /\ TypeOK /\ FileRead /\ BytesSaved
        /\ call.op = "save" /\ uf # Closed /\ ~uf.z
    BY <1>1, SaveContext
  <1>4. /\ call' \in CallRecord /\ SameRequest /\ call'.at = "close" /\ call'.ok = ok
        /\ call'.failed = (call.failed \/ (IF ok THEN "ok" ELSE "error") # "ok")
    BY <1>2, <1>3, EndsFields
  <1>5. TypeOK'
    BY <1>1, <1>3, <1>4 DEF TypeOK
  <1>6. FileRead'
    BY <1>1, <1>3, <1>4 DEF FileRead, SameRequest, At, Alive
  <1>7. FileWritten'
    BY <1>4 DEF FileWritten
  <1>8. ASSUME ~call.touched, call.to # call.file
        PROVE  /\ IsPrefix(store[call.to], call.orig)
               /\ ~call.failed => store[call.to] = call.orig
    <2>1. /\ Copied(dst.pos) /\ (~call.failed => dst.pos = Len(call.orig))
          /\ call.orig \in Contents
      BY <1>1, <1>3, <1>8 DEF BytesSaved, At, CallTyped
    <2>2. dst.pos \in Nat
      BY <1>1, <1>3, SaveContext DEF FileWritten, At, TypeOK, Handles
    <2>3. Len(store[call.to]) = dst.pos /\ store[call.to] \in Contents
      BY <2>1, <2>2, FirstPart DEF Copied
    <2>4. SubSeq(store[call.to], 1, Len(store[call.to])) = store[call.to]
      BY <2>3, WholePart
    <2>5. IsPrefix(store[call.to], call.orig)
      BY <2>1, <2>3, <2>4 DEF IsPrefix, Copied
    <2> QED BY <2>1, <2>5, WholePart DEF Copied
  <1>9. BytesSaved'
    BY <1>1, <1>3, <1>4, <1>8 DEF BytesSaved, SameRequest, At, SavePoints
  <1> QED BY <1>1, <1>3, <1>4, <1>5, <1>6, <1>7, <1>9, SaveStep

LEMMA CopiesInv ==
  ASSUME FilesInv, Copies
  PROVE  FilesInv'
  <1>1. At("copy") /\ UNCHANGED <<store, edits, fsys, dst, doc>> /\ call.at \in SavePoints
    BY DEF Copies, At, SavePoints
  <1>2. PICK x \in Reads(SaveBuf) :
          /\ Moves(x)
          /\ IF x.data = <<>> THEN Then("flush", x.reply)
             ELSE call' = [call EXCEPT !.at = "write", !.got = x.data]
    BY DEF Copies
  <1>3. /\ call \in CallRecord /\ CallTyped /\ TypeOK /\ FileRead /\ FileWritten /\ BytesSaved
        /\ call.op = "save" /\ uf # Closed /\ ~uf.z /\ call.file \in Stored
    BY <1>1, SaveContext
  <1>4. SaveBuf \in Nat /\ SaveBuf # 0
    BY FilesAssumption DEF FilesAssumption
  <1> DEFINE n == Len(x.data)
  <1>5. /\ x.data \in Contents /\ n \in Nat
        /\ x.reply \notin {"ok", "short"} => x.data = <<>>
        /\ x.reply \in {"ok", "short"} =>
             /\ src # Closed
             /\ x.data = SubSeq(store[call.file], src.pos + 1, src.pos + n)
             /\ n > 0 => src.pos + n <= Len(store[call.file])
        /\ x.reply = "ok" => n = SaveBuf \/ src.pos + n >= Len(store[call.file])
    BY <1>2, <1>3, <1>4, ReadKinds
  <1>6. /\ SrcSound /\ UfKept
        /\ src' # Closed => src'.pos = src.pos + n
    BY <1>2, <1>3, <1>4, ReadEffect
  <1>7. dst # Closed /\ dst.file = call.to /\ store[call.to] \in Contents /\ dst.pos \in Nat
    BY <1>1, <1>3 DEF FileWritten, At, TypeOK, Handles
  <1>8. x.data = <<>> <=> n = 0
    BY <1>5, EmptyBytes, EmptySeq DEF Contents
  <1> HIDE DEF n
  <1>9. ASSUME call' \in CallRecord PROVE TypeOK'
    BY <1>1, <1>3, <1>6, <1>9 DEF TypeOK, SrcSound, UfKept, UfType
  <1>10. ASSUME SameRequest, call'.at \in SavePoints PROVE FileRead' /\ FileWritten'
    <2>1. FileRead'
      BY <1>1, <1>3, <1>6, <1>10 DEF FileRead, SameRequest, SrcSound, UfKept, At, SavePoints
    <2>2. FileWritten'
      BY <1>1, <1>7, <1>10 DEF FileWritten, SameRequest
    <2> QED BY <2>1, <2>2
  <1>11. ASSUME ~call.touched, call.to # call.file
         PROVE  /\ store[call.file] = call.orig /\ Copied(dst.pos) /\ call.orig \in Contents
                /\ dst.pos <= Len(call.orig) /\ (src # Closed => src.pos = dst.pos)
    BY <1>1, <1>3, <1>11 DEF BytesSaved, At, SavePoints, CallTyped, Copied
  <1>12. CASE x.data = <<>>
    <2>1. Then("flush", x.reply) /\ "flush" \in Points
      BY <1>2, <1>12 DEF Points
    <2>2. /\ call' \in CallRecord /\ SameRequest /\ call'.at = "flush"
          /\ call'.failed = (call.failed \/ x.reply # "ok")
      BY <1>3, <2>1, ThenFields
    <2>3. ASSUME ~call.touched, call.to # call.file, x.reply = "ok" PROVE dst.pos = Len(call.orig)
      <3>1. n = 0 /\ src # Closed /\ src.pos + n >= Len(store[call.file])
        BY <1>4, <1>5, <1>8, <1>12, <2>3
      <3>2. src.pos = dst.pos /\ dst.pos <= Len(call.orig) /\ store[call.file] = call.orig
        BY <1>11, <2>3, <3>1
      <3>3. Len(call.orig) \in Nat
        BY <1>11, <2>3, BytesOf
      <3> QED BY <1>7, <3>1, <3>2, <3>3
    <2>4. BytesSaved'
      BY <1>1, <1>3, <1>11, <2>2, <2>3 DEF BytesSaved, SameRequest, At, SavePoints, Copied
    <2> QED BY <1>1, <1>6, <1>9, <1>10, <2>2, <2>4, SaveStep DEF SavePoints, UfKept
  <1>13. CASE x.data # <<>>
    <2>1. call' = [call EXCEPT !.got = x.data, !.failed = call.failed, !.at = "write"]
      BY <1>2, <1>13, SameFailed
    <2>2. "write" \in Points /\ call.failed \in BOOLEAN
      BY <1>3 DEF Points, CallTyped
    <2>3. /\ call' \in CallRecord /\ SameRequest /\ call'.at = "write" /\ call'.got = x.data
      BY <1>3, <1>5, <2>1, <2>2, GotFields
    <2>4. ASSUME ~call.touched, call.to # call.file
          PROVE  /\ dst.pos + n <= Len(call.orig)
                 /\ x.data = SubSeq(call.orig, dst.pos + 1, dst.pos + n)
                 /\ src' # Closed => src'.pos = dst.pos + n
      <3>1. x.reply \in {"ok", "short"} /\ n > 0
        BY <1>5, <1>8, <1>13
      <3>2. src # Closed /\ src.pos = dst.pos /\ store[call.file] = call.orig
        BY <1>5, <1>11, <2>4, <3>1
      <3> QED BY <1>5, <1>6, <3>1, <3>2
    <2>5. BytesSaved'
      BY <1>1, <1>3, <1>11, <2>3, <2>4 DEF BytesSaved, SameRequest, At, SavePoints, Copied, n
    <2> QED BY <1>1, <1>6, <1>9, <1>10, <2>3, <2>5, SaveStep DEF SavePoints, UfKept
  <1> QED BY <1>12, <1>13

LEMMA WritesInv ==
  ASSUME FilesInv, Writes
  PROVE  FilesInv'
  <1>1. At("write") /\ UNCHANGED <<edits, fsys, up, src, uf, doc>> /\ call.at \in SavePoints
    BY DEF Writes, At, SavePoints
  <1>2. PICK n \in 0 .. Len(call.got) :
          /\ store' = [store EXCEPT ![dst.file] = Written(@, dst.pos, SubSeq(call.got, 1, n))]
          /\ dst' = [dst EXCEPT !.pos = @ + n]
          /\ IF n = Len(call.got) THEN Then("copy", "ok") ELSE Ends(FALSE, "error")
    BY DEF Writes
  <1>3. /\ call \in CallRecord /\ CallTyped /\ TypeOK /\ FileRead /\ FileWritten /\ BytesSaved
        /\ call.op = "save" /\ uf # Closed /\ ~uf.z /\ call.file \in Stored /\ call.to \in Stored
        /\ store[call.file] \in Contents
    BY <1>1, SaveContext
  <1>4. /\ dst # Closed /\ dst \in Handles({Disk}) /\ dst.file = call.to
        /\ store[call.to] \in Contents /\ dst.pos \in Nat
    BY <1>1, <1>3 DEF FileWritten, At, TypeOK, Handles
  <1>5. call.got \in Contents /\ Len(call.got) \in Nat /\ n \in Nat /\ n <= Len(call.got)
    BY <1>3, BytesOf DEF CallTyped
  <1> DEFINE new == Written(store[call.to], dst.pos, SubSeq(call.got, 1, n))
  <1>6. new \in Contents
    <2>1. SubSeq(call.got, 1, n) \in Contents
      BY <1>5, FirstPart
    <2> QED BY <1>4, <2>1, WrittenBytes
  <1>7. store' = [store EXCEPT ![call.to] = new]
    BY <1>2, <1>4
  <1>8. ASSUME n = Len(call.got), ~call.touched, call.to # call.file
        PROVE  /\ dst.pos + n <= Len(call.orig) /\ new = SubSeq(call.orig, 1, dst.pos + n)
               /\ src # Closed => src.pos = dst.pos + n
               /\ store[call.file] = call.orig
    <2>1. /\ dst.pos + Len(call.got) <= Len(call.orig)
          /\ call.got = SubSeq(call.orig, dst.pos + 1, dst.pos + Len(call.got))
          /\ src # Closed => src.pos = dst.pos + Len(call.got)
          /\ store[call.file] = call.orig /\ store[call.to] = SubSeq(call.orig, 1, dst.pos)
          /\ call.orig \in Contents
      BY <1>1, <1>3, <1>8 DEF BytesSaved, At, SavePoints, CallTyped, Copied
    <2>2. SubSeq(call.got, 1, n) = call.got
      BY <1>5, <1>8, WholePart
    <2>3. Written(SubSeq(call.orig, 1, dst.pos), dst.pos,
                  SubSeq(call.orig, dst.pos + 1, dst.pos + Len(call.got))) =
          SubSeq(call.orig, 1, dst.pos + Len(call.got))
      BY <1>4, <1>5, <2>1, WritesOn
    <2>4. new = Written(SubSeq(call.orig, 1, dst.pos), dst.pos,
                        SubSeq(call.orig, dst.pos + 1, dst.pos + Len(call.got)))
      BY <2>1, <2>2, Zenon
    <2> QED BY <1>8, <2>1, <2>3, <2>4
  <1> HIDE DEF new
  <1>9. /\ store' \in [Stored -> Contents \union {Missing}] /\ store'[call.to] = new
        /\ store'[call.file] \in Contents
        /\ call.to # call.file => store'[call.file] = store[call.file]
    BY <1>3, <1>6, <1>7 DEF TypeOK
  <1>10. dst' # Closed /\ dst' \in Handles({Disk}) /\ dst'.file = call.to /\ dst'.pos = dst.pos + n
    BY <1>2, <1>4, <1>5 DEF Handles, Closed
  <1>11. ASSUME call' \in CallRecord, SameRequest, call'.at \in {"copy", "close"}
         PROVE  TypeOK' /\ FileRead' /\ FileWritten'
    <2>1. TypeOK'
      BY <1>1, <1>3, <1>9, <1>10, <1>11 DEF TypeOK
    <2>2. FileRead'
      BY <1>1, <1>3, <1>9, <1>11 DEF FileRead, SameRequest, At, Alive
    <2>3. FileWritten'
      BY <1>6, <1>9, <1>10, <1>11 DEF FileWritten, SameRequest
    <2> QED BY <2>1, <2>2, <2>3
  <1>12. CASE n = Len(call.got)
    <2>1. Then("copy", "ok") /\ "copy" \in Points
      BY <1>2, <1>12 DEF Points
    <2>2. call' \in CallRecord /\ SameRequest /\ call'.at = "copy"
      BY <1>3, <2>1, ThenFields
    <2>3. BytesSaved'
      BY <1>1, <1>8, <1>9, <1>10, <1>12, <2>2 DEF BytesSaved, SameRequest, At, SavePoints, Copied
    <2> QED BY <1>1, <1>3, <1>11, <2>2, <2>3, SaveStep DEF SavePoints
  <1>13. CASE n # Len(call.got)
    <2>1. Ends(FALSE, "error")
      BY <1>2, <1>13
    <2>2. call' \in CallRecord /\ SameRequest /\ call'.at = "close" /\ call'.ok = FALSE
      BY <1>3, <2>1, EndsFields
    <2>3. BytesSaved'
      BY <2>2 DEF BytesSaved, At, SavePoints
    <2> QED BY <1>1, <1>3, <1>11, <2>2, <2>3, SaveStep
  <1> QED BY <1>12, <1>13
-----------------------------------------------------------------------------
(***************************************************************************)
(* Every step of a call, other programs, and what lies between calls.      *)
(***************************************************************************)
LEMMA CallsInv ==
  ASSUME FilesInv, Calls
  PROVE  FilesInv'
  <1>1. CASE Step1
    BY <1>1, OpensInv, OpenFailsInv, ReconnectsInv, ReconnectFailsInv DEF Step1
  <1>2. CASE Decoding
    BY <1>2, OpenedInv, RewindsInv, SeeksEndInv, TellsSizeInv, SeeksBeginInv, ReadsChunkInv,
       ShowsInv, DecodeFailsInv DEF Decoding
  <1>3. CASE Filetype
    BY <1>3, TellsInv, LooksInv, PeeksInv, GoesBackInv DEF Filetype
  <1>4. CASE Saving
    BY <1>4, CreatesInv, CopiesInv, WritesInv, FlushesInv DEF Saving
  <1>5. CASE Rescans \/ Closes
    BY <1>5, RescansInv, ClosesInv
  <1> QED BY <1>1, <1>2, <1>3, <1>4, <1>5 DEF Calls

LEMMA PutTouched ==
  ASSUME NEW c \in CallRecord
  PROVE  [c EXCEPT !.touched = TRUE] \in CallRecord
  BY DEF CallRecord

(* Another program writes: only what does not speak of bytes is kept. *)
LEMMA OthersInv ==
  ASSUME FilesInv, Others
  PROVE  FilesInv'
  <1>1. PICK file \in Stored, contents \in Edits : Rewrite(file, contents)
    BY DEF Others
  <1>2. /\ edits < MaxEdits /\ edits' = edits + 1
        /\ store' = [store EXCEPT ![file] = contents]
        /\ call' = [call EXCEPT !.touched = TRUE]
        /\ UNCHANGED <<fsys, up, src, uf, dst, doc>>
    BY <1>1 DEF Rewrite
  <1>3. contents \in Contents
    BY FilesAssumption DEF FilesAssumption
  <1>4. /\ call \in CallRecord /\ CallTyped /\ TypeOK /\ Stands /\ FileRead /\ FileWritten
        /\ InStep /\ Attempts
    BY CallContext
  <1>5. call' \in CallRecord
    BY <1>2, <1>4, PutTouched
  <1>6. /\ call'.op = call.op /\ call'.at = call.at /\ call'.file = call.file
        /\ call'.to = call.to /\ call'.fs = call.fs /\ call'.touched = TRUE
        /\ call'.orig = call.orig /\ call'.first = call.first /\ call'.failed = call.failed
        /\ call'.codec = call.codec /\ call'.size = call.size /\ call'.got = call.got
    BY <1>2, <1>4, Fields
  <1>7. /\ store' \in [Stored -> Contents \union {Missing}]
        /\ \A f \in Stored : store[f] \in Contents => store'[f] \in Contents
    BY <1>2, <1>3, <1>4 DEF TypeOK
  <1>8. edits' \in 0 .. MaxEdits
    BY <1>2, <1>4, FilesAssumption DEF TypeOK, FilesAssumption
  <1>9. TypeOK'
    BY <1>2, <1>4, <1>5, <1>7, <1>8 DEF TypeOK
  <1>10. Stands'
    BY <1>2, <1>4, <1>6 DEF Stands, At
  <1>11. FileRead'
    <2>1. uf # Closed => call.file \in Stored
      BY <1>4 DEF Stands, FileRead, At, CallTyped
    <2> QED BY <1>2, <1>4, <1>6, <1>7, <2>1 DEF FileRead, Alive, At
  <1>12. FileWritten'
    <2>1. call.at \in {"copy", "write", "flush"} => call.to \in Stored
      BY <1>4 DEF Stands, SavePoints
    <2> QED BY <1>2, <1>4, <1>6, <1>7, <2>1 DEF FileWritten
  <1>13. InStep' /\ Attempts'
    BY <1>2, <1>4, <1>6 DEF InStep, Attempts, At
  <1>14. BytesLoaded' /\ Healthy' /\ BytesSaved'
    BY <1>6 DEF BytesLoaded, Healthy, BytesSaved
  <1> QED BY <1>9, <1>10, <1>11, <1>12, <1>13, <1>14 DEF FilesInv, Placed, Bytes

-----------------------------------------------------------------------------
(* What the window and the dialog do between two calls. *)
LEMMA QuietInv ==
  ASSUME FilesInv, At("idle"), fsys' \in [Fs -> ConnType], up' \subseteq Conns,
         UNCHANGED <<store, edits, src, uf, dst, doc, call>>
  PROVE  FilesInv'
  <1>1. TypeOK'
    BY DEF FilesInv, Placed, TypeOK, ConnType
  <1>2. Stands'
    BY DEF FilesInv, Placed, Stands, At
  <1>3. FileRead' /\ FileWritten'
    BY DEF FilesInv, Placed, Stands, FileRead, FileWritten, At
  <1>4. InStep' /\ Attempts'
    BY DEF FilesInv, Bytes, InStep, Attempts, At
  <1>5. BytesLoaded'
    BY DEF FilesInv, Bytes, BytesLoaded, Whole, At
  <1>6. Healthy'
    BY DEF FilesInv, Bytes, Healthy, Whole, At
  <1>7. BytesSaved'
    BY DEF FilesInv, Bytes, BytesSaved, Copied, At
  <1> QED BY <1>1, <1>2, <1>3, <1>4, <1>5, <1>6, <1>7 DEF FilesInv, Placed, Bytes

LEMMA StutterInv ==
  ASSUME FilesInv, UNCHANGED vars
  PROVE  FilesInv'
  <1>0. UNCHANGED <<store, edits, fsys, up, src, uf, dst, doc, call>>
    BY DEF vars
  <1>1. TypeOK'
    BY <1>0 DEF FilesInv, Placed, TypeOK
  <1>2. Stands'
    BY <1>0 DEF FilesInv, Placed, Stands, At
  <1>3. FileRead' /\ FileWritten'
    BY <1>0 DEF FilesInv, Placed, FileRead, FileWritten, At, Alive
  <1>4. InStep' /\ Attempts'
    BY <1>0 DEF FilesInv, Bytes, InStep, Attempts, At
  <1>5. BytesLoaded'
    BY <1>0 DEF FilesInv, Bytes, BytesLoaded, Whole, At
  <1>6. Healthy'
    BY <1>0 DEF FilesInv, Bytes, Healthy, Whole, At
  <1>7. BytesSaved'
    BY <1>0 DEF FilesInv, Bytes, BytesSaved, Copied, At
  <1> QED BY <1>1, <1>2, <1>3, <1>4, <1>5, <1>6, <1>7 DEF FilesInv, Placed, Bytes

NewCall(n, op, fs, file, to) ==
  [NoCall EXCEPT !.n = n, !.op = op, !.at = "open", !.fs = fs, !.file = file, !.to = to]

LEMMA PutNew ==
  ASSUME NEW c \in CallRecord, NEW n \in 0 .. MaxCalls, NEW op \in {"load", "save"},
         NEW point \in Points
  PROVE  [c EXCEPT !.n = n, !.op = op, !.at = point] \in CallRecord
  BY DEF CallRecord

LEMMA PutFile ==
  ASSUME NEW c \in CallRecord, NEW fs \in Fs \union {Disk},
         NEW file \in Stored, NEW to \in Stored \union {None}
  PROVE  [c EXCEPT !.fs = fs, !.file = file, !.to = to] \in CallRecord
  BY DEF CallRecord

IsNewCall(c, op, file, to) ==
  /\ c \in CallRecord /\ c.op = op /\ c.at = "open" /\ c.file = file /\ c.to = to
  /\ c.orig = <<>> /\ c.first = TRUE

LEMMA NewCallType ==
  ASSUME NEW n \in 0 .. MaxCalls, NEW op \in {"load", "save"}, NEW fs \in Fs \union {Disk},
         NEW file \in Stored, NEW to \in Stored \union {None}
  PROVE  IsNewCall(NewCall(n, op, fs, file, to), op, file, to)
  <1> DEFINE d == [NoCall EXCEPT !.n = n, !.op = op, !.at = "open"]
             c == [d EXCEPT !.fs = fs, !.file = file, !.to = to]
  <1>1. "open" \in Points /\ d \in CallRecord
    <2>1. NoCall \in CallRecord /\ "open" \in Points
      BY EmptyBytes, FilesAssumption DEF CallRecord, NoCall, Points, FilesAssumption
    <2> QED BY <2>1, PutNew
  <1>2. /\ DOMAIN NoCall = {"n", "op", "at", "ok", "fs", "file", "to", "codec", "first", "size",
                           "got", "pos", "retried", "orig", "touched", "failed"}
        /\ NoCall.orig = <<>> /\ NoCall.first = TRUE
    BY DEF NoCall
  <1>3. /\ c.op = op /\ c.at = "open" /\ c.file = file /\ c.to = to
        /\ c.orig = <<>> /\ c.first = TRUE
    BY <1>2
  <1>4. NewCall(n, op, fs, file, to) = c
    BY DEF NewCall
  <1> HIDE DEF d
  <1>5. c \in CallRecord
    BY <1>1, PutFile
  <1> HIDE DEF c
  <1> QED BY <1>3, <1>4, <1>5 DEF IsNewCall

LEMMA StartInv ==
  ASSUME FilesInv, At("idle"), NEW op \in {"load", "save"}, NEW fs \in Fs \union {Disk},
         NEW file \in Stored, NEW to \in Stored \union {None}, op = "save" => to \in Stored,
         Start(op, fs, file, to), fsys' \in [Fs -> ConnType], up' \subseteq Conns,
         UNCHANGED <<store, edits, src, uf, dst, doc>>
  PROVE  FilesInv'
  <1>1. TypeOK /\ call \in CallRecord /\ CallTyped /\ Stands /\ FileRead
    BY CallContext
  <1>2. call.n + 1 \in 0 .. MaxCalls
    BY <1>1, FilesAssumption DEF CallTyped, Start, FilesAssumption
  <1>3. call' = NewCall(call.n + 1, op, fs, file, to)
    BY DEF Start, NewCall
  <1>4. IsNewCall(call', op, file, to)
    BY <1>2, <1>3, NewCallType, Zenon
  <1>5. TypeOK'
    BY <1>1, <1>4 DEF TypeOK, ConnType, IsNewCall
  <1>6. uf = Closed /\ uf' = Closed /\ src' = Closed
    BY <1>1 DEF Stands, FileRead, At
  <1>7. Stands'
    BY <1>4, <1>6 DEF IsNewCall, Stands, At, Loading, Trying, Typing, SavePoints
  <1>8. FileRead' /\ FileWritten' /\ InStep' /\ Attempts'
    BY <1>4, <1>6 DEF IsNewCall, FileRead, FileWritten, InStep, Attempts, At, Trying
  <1>9. BytesLoaded' /\ Healthy' /\ BytesSaved'
    BY <1>4, <1>6 DEF IsNewCall, BytesLoaded, Healthy, BytesSaved, At, Loading, Trying, Typing, SavePoints
  <1> QED BY <1>5, <1>7, <1>8, <1>9 DEF FilesInv, Placed, Bytes
=============================================================================
