---------------------------- MODULE IdRadixProofs ----------------------------
(***************************************************************************)
(* Proofs about IdRadix, for every number of sorts, sizes, ids, traits,    *)
(* chunk width and thresholds: the counters of the workspace, which no     *)
(* pass resets before it counts, are as new whenever a pass starts; the    *)
(* waiting ranges separate the entries; every sort ends with the entries   *)
(* by id, equal ids as they came in.                                       *)
(*                                                                         *)
(* However a chunk is read, by chunk_msb_first, byte by byte, from the     *)
(* cached chunks or as half of one, it is the same part of the id (first   *)
(* half).  A counting pass moves every entry to its rank among the entries *)
(* by digit, equal digits in turn.  The stack of ranges then stays such    *)
(* that of two entries either some range has both, and they agree in all   *)
(* chunks before its own, or they are in their final order.                *)
(***************************************************************************)
EXTENDS IdRadix, Functions, FiniteSetTheorems, SequenceTheorems, WellFoundedInduction, TLAPS

(* Numbers *)

\* Every non-empty set of natural numbers has a least element.
LEMMA LeastElement ==
  ASSUME NEW S \in SUBSET Nat, S # {}
  PROVE  \E m \in S : \A x \in S : m <= x
<1>1. PICK m \in S : \A x \in S : ~(<<x, m>> \in OpToRel(<, Nat))
  BY NatLessThanWellFounded, WFMin
<1>2. \A x \in S : ~(x < m)
  BY <1>1 DEF OpToRel
<1>. QED  BY <1>2

\* And of those up to a number, a greatest one.
LEMMA GreatestElement ==
  ASSUME NEW m \in Nat, NEW S \in SUBSET (0 .. m), S # {}
  PROVE  \E x \in S : \A y \in S : y <= x
<1> DEFINE T == {m - x : x \in S}
<1>1. T \in SUBSET Nat /\ T # {}
  <2>1. \A x \in S : m - x \in Nat
    OBVIOUS
  <2> QED
    BY <2>1
<1>2. PICK t \in T : \A x \in T : t <= x
  BY <1>1, LeastElement
<1>3. PICK x \in S : t = m - x
  OBVIOUS
<1>4. \A y \in S : m - x <= m - y
  BY <1>2, <1>3
<1> QED
  BY <1>4

\* What holds of zero, and of the next number whenever of one, holds of all.
LEMMA Climb ==
  ASSUME NEW S, 0 \in S, \A k \in Nat : k \in S => k + 1 \in S
  PROVE  \A k \in Nat : k \in S
<1> SUFFICES ASSUME NEW b \in Nat, b \notin S
             PROVE  FALSE
  OBVIOUS
<1> DEFINE missing == {k \in Nat : k \notin S}
<1>1. missing \in SUBSET Nat /\ missing # {}
  OBVIOUS
<1>2. PICK l \in missing : \A k \in missing : l <= k
  BY <1>1, LeastElement
<1>3. l # 0 /\ l - 1 \in Nat
  OBVIOUS
<1>4. l - 1 \in S
  BY <1>2, <1>3
<1> QED
  BY <1>3, <1>4

\* A value for each number, each made from the one before.
IsSteps(w, T, base, step, v) ==
  v \in [0 .. w -> T] /\ v[0] = base /\ \A n \in 1 .. w : v[n] = step[n][v[n - 1]]

\* A value built step by step from the one before it exists.
LEMMA StepByStep ==
  ASSUME NEW w \in Nat, NEW T, NEW base \in T, NEW step \in [1 .. w -> [T -> T]]
  PROVE  \E v : IsSteps(w, T, base, step, v)
<1> DEFINE IsMade(n, v) == v \in [0 .. n -> T] /\ v[0] = base /\ \A k \in 1 .. n : v[k] = step[k][v[k - 1]]
           S == {n \in Nat : n <= w => \E v : IsMade(n, v)}
<1>1. 0 \in S
  <2>1. IsMade(0, [n \in 0 .. 0 |-> base])
    OBVIOUS
  <2> QED
    BY <2>1
<1>2. ASSUME NEW k \in Nat, k \in S
      PROVE  k + 1 \in S
  <2> SUFFICES ASSUME k + 1 <= w
               PROVE  \E v : IsMade(k + 1, v)
    OBVIOUS
  <2>1. PICK v : IsMade(k, v)
    BY <1>2
  <2> DEFINE u == [n \in 0 .. k + 1 |-> IF n = k + 1 THEN step[k + 1][v[k]] ELSE v[n]]
  <2>2. k + 1 \in 1 .. w /\ v[k] \in T
    BY <2>1
  <2>3. step[k + 1][v[k]] \in T
    BY <2>2
  <2>4. u \in [0 .. k + 1 -> T]
    BY <2>1, <2>3
  <2>5. u[0] = base
    BY <2>1
  <2>6. \A n \in 1 .. k + 1 : u[n] = step[n][u[n - 1]]
    <3> SUFFICES ASSUME NEW n \in 1 .. k + 1
                 PROVE  u[n] = step[n][u[n - 1]]
      OBVIOUS
    <3>1. CASE n = k + 1
      BY <3>1
    <3>2. CASE n # k + 1
      <4>1. n \in 1 .. k /\ u[n] = v[n] /\ u[n - 1] = v[n - 1]
        BY <3>2
      <4> QED
        BY <2>1, <4>1
    <3> QED
      BY <3>1, <3>2
  <2>7. IsMade(k + 1, u)
    BY <2>4, <2>5, <2>6
  <2> QED
    BY <2>7
<1>3. w \in S
  <2> HIDE DEF S
  <2> QED
    BY <1>1, <1>2, Climb
<1> QED
  BY <1>3 DEF IsSteps

\* Division with remainder, composed.
LEMMA QuotientIs ==
  ASSUME NEW c \in Nat \ {0}, NEW q \in Nat, NEW r \in 0 .. c - 1
  PROVE  (c * q + r) \div c = q /\ (c * q + r) % c = r
<1>0. c * q \in Nat
  OBVIOUS
<1> PICK y \in Nat : y = c * q + r
  BY <1>0
<1> PICK d \in Nat : d = y \div c
  OBVIOUS
<1> PICK rest \in 0 .. c - 1 : rest = y % c
  OBVIOUS
<1>1. y = c * d + rest
  OBVIOUS
<1>2. CASE d < q
  <2>1. PICK j \in Nat : q = d + 1 + j
    <3>1. q - d - 1 \in Nat
      BY <1>2
    <3> QED  BY <3>1
  <2>2. c * q = c * d + c + c * j /\ c * j \in Nat
    BY <2>1
  <2> QED
    BY <1>1, <2>2
<1>3. CASE q < d
  <2>1. PICK j \in Nat : d = q + 1 + j
    <3>1. d - q - 1 \in Nat
      BY <1>3
    <3> QED  BY <3>1
  <2>2. c * d = c * q + c + c * j /\ c * j \in Nat
    BY <2>1
  <2> QED
    BY <1>1, <2>2
<1>4. CASE d = q
  BY <1>1, <1>4
<1> QED
  BY <1>2, <1>3, <1>4

\* Division with remainder, decomposed.
LEMMA QuotientOf ==
  ASSUME NEW x \in Nat, NEW c \in Nat \ {0}
  PROVE  /\ x \div c \in Nat /\ x % c \in 0 .. c - 1 /\ x = c * (x \div c) + (x % c)
OBVIOUS

\* Dividing twice is dividing by the product.
LEMMA QuotientOfQuotient ==
  ASSUME NEW x \in Nat, NEW a \in Nat \ {0}, NEW b \in Nat \ {0}
  PROVE  (x \div a) \div b = x \div (a * b)
<1>1. PICK q \in Nat, r \in 0 .. a - 1 : q = x \div a /\ x = a * q + r
  BY QuotientOf
<1>2. PICK p \in Nat, s \in 0 .. b - 1 : p = q \div b /\ q = b * p + s
  <2>1. q \in Nat
    BY <1>1
  <2>2. q \div b \in Nat /\ q % b \in 0 .. b - 1 /\ q = b * (q \div b) + (q % b)
    BY <2>1, QuotientOf
  <2> QED
    BY <2>2, Zenon
<1>3. PICK ab \in Nat \ {0} : ab = a * b
  OBVIOUS
<1>4. a * q = ab * p + a * s
  <2>1. PICK bp \in Nat : bp = b * p
    BY <1>2
  <2>2. a * (bp + s) = a * bp + a * s
    BY <1>2, <2>1
  <2>3. a * (b * p) = (a * b) * p
    BY <1>2
  <2> QED
    BY <1>2, <1>3, <2>1, <2>2, <2>3
<1>5. PICK rest \in 0 .. ab - 1 : rest = a * s + r
  <2>1. PICK j \in Nat : b = s + 1 + j
    <3>1. b - s - 1 \in Nat
      BY <1>2
    <3> QED  BY <1>2, <3>1
  <2>2. a * b = a * s + a + a * j /\ a * j \in Nat /\ a * s \in Nat
    BY <1>2, <2>1
  <2>3. a * s + r \in 0 .. ab - 1
    BY <1>1, <1>3, <2>2
  <2> QED
    BY <2>3
<1>6. x = ab * p + rest
  <2>1. ab * p \in Nat /\ a * s \in Nat
    BY <1>2, <1>3
  <2> QED
    BY <1>1, <1>4, <1>5, <2>1
<1>7. (ab * p + rest) \div ab = p
  BY <1>2, <1>3, <1>5, QuotientIs
<1> QED
  BY <1>1, <1>2, <1>3, <1>6, <1>7, Zenon

-----------------------------------------------------------------------------
(* The powers of the radix *)

\* Power is what its recursive definition says.
LEMMA PowerSteps == Power[0] = 1 /\ \A n \in Nat : Power[n + 1] = Radix * Power[n]
<1> USE RadixAssumption
<1> DEFINE step(n) == [k \in 1 .. n |-> [x \in Nat |-> Radix * x]]
           IsMade(n, g) == g \in [0 .. n -> Nat] /\ g[0] = 1 /\ \A k \in 1 .. n : g[k] = Radix * g[k - 1]
           made(n) == CHOOSE g : IsMade(n, g)
           f == [n \in Nat |-> made(n)[n]]
<1>1. ASSUME NEW n \in Nat
      PROVE  IsMade(n, made(n))
  <2>0. \A x \in Nat : Radix * x \in Nat
    OBVIOUS
  <2>1. step(n) \in [1 .. n -> [Nat -> Nat]]
    BY <2>0
  <2> PICK s \in [1 .. n -> [Nat -> Nat]] : s = step(n)
    BY <2>1
  <2>2. PICK g \in [0 .. n -> Nat] : g[0] = 1 /\ \A k \in 1 .. n : g[k] = s[k][g[k - 1]]
    <3> HIDE DEF step
    <3>1. 1 \in Nat
      OBVIOUS
    <3>2. \E v : IsSteps(n, Nat, 1, s, v)
      BY <3>1, StepByStep
    <3> QED
      BY <3>2 DEF IsSteps
  <2>3. \A k \in 1 .. n : g[k - 1] \in Nat
    OBVIOUS
  <2>4. IsMade(n, g)
    BY <2>2, <2>3
  <2> HIDE DEF IsMade
  <2> QED
    BY <2>4
<1> HIDE DEF made
<1>2. ASSUME NEW n \in Nat
      PROVE  \A k \in Nat : k <= n => made(n + 1)[k] = made(n)[k]
  <2> DEFINE S == {k \in Nat : k <= n => made(n + 1)[k] = made(n)[k]}
  <2>1. 0 \in S
    <3>1. n + 1 \in Nat
      OBVIOUS
    <3>2. made(n + 1)[0] = 1 /\ made(n)[0] = 1
      BY <1>1, <3>1
    <3> QED
      BY <3>2
  <2>2. ASSUME NEW k \in Nat, k \in S
        PROVE  k + 1 \in S
    <3> SUFFICES ASSUME k + 1 <= n
                 PROVE  made(n + 1)[k + 1] = made(n)[k + 1]
      OBVIOUS
    <3>1. made(n + 1)[k] = made(n)[k]
      BY <2>2
    <3>2. k + 1 \in 1 .. n /\ k + 1 \in 1 .. n + 1 /\ n + 1 \in Nat
      OBVIOUS
    <3>3. made(n + 1)[k + 1] = Radix * made(n + 1)[(k + 1) - 1] /\ made(n)[k + 1] = Radix * made(n)[(k + 1) - 1]
      BY <1>1, <3>2
    <3> QED
      BY <3>1, <3>3
  <2> HIDE DEF S
  <2>3. \A k \in Nat : k \in S
    BY <2>1, <2>2, Climb
  <2> QED
    BY <2>3 DEF S
<1>3. f[0] = 1
  BY <1>1
<1>4. ASSUME NEW n \in Nat
      PROVE  f[n + 1] = Radix * f[n]
  <2>1. n + 1 \in Nat /\ n + 1 \in 1 .. n + 1
    OBVIOUS
  <2>2. made(n + 1)[n + 1] = Radix * made(n + 1)[(n + 1) - 1]
    BY <1>1, <2>1
  <2>3. made(n + 1)[n] = made(n)[n]
    BY <1>2
  <2> QED
    BY <2>1, <2>2, <2>3
<1> HIDE DEF f
<1>5. f = [bytes \in Nat |-> IF bytes = 0 THEN 1 ELSE Radix * f[bytes - 1]]
  <2>1. f = [bytes \in Nat |-> f[bytes]]
    BY DEF f
  <2>2. ASSUME NEW bytes \in Nat, bytes # 0
        PROVE  f[bytes] = Radix * f[bytes - 1]
    <3>1. bytes - 1 \in Nat /\ (bytes - 1) + 1 = bytes
      BY <2>2
    <3> QED
      BY <1>4, <3>1
  <2> QED
    BY <1>3, <2>1, <2>2
<1>6. Power = [bytes \in Nat |-> IF bytes = 0 THEN 1 ELSE Radix * Power[bytes - 1]]
  BY <1>5 DEF Power
<1>7. Power[0] = 1
  BY <1>6
<1>8. ASSUME NEW n \in Nat
      PROVE  Power[n + 1] = Radix * Power[n]
  <2>1. n + 1 \in Nat /\ n + 1 # 0 /\ (n + 1) - 1 = n
    OBVIOUS
  <2> QED
    BY <1>6, <2>1
<1> QED
  BY <1>7, <1>8

\* No power of the radix is zero.
LEMMA PowersArePositive == \A n \in Nat : Power[n] \in Nat \ {0}
<1> DEFINE S == {n \in Nat : Power[n] \in Nat \ {0}}
<1>1. 0 \in S
  BY PowerSteps
<1>2. ASSUME NEW n \in Nat, n \in S
      PROVE  n + 1 \in S
  <2>1. Radix * Power[n] \in Nat \ {0}
    BY <1>2, RadixAssumption
  <2> QED
    BY <2>1, PowerSteps
<1> HIDE DEF S
<1>3. \A n \in Nat : n \in S
  BY <1>1, <1>2, Climb
<1> QED
  BY <1>3 DEF S

\* Exponents add up.
LEMMA PowerOfSum ==
  ASSUME NEW m \in Nat, NEW n \in Nat
  PROVE  Power[m + n] = Power[m] * Power[n]
<1> DEFINE S == {k \in Nat : Power[m + k] = Power[m] * Power[k]}
<1>1. 0 \in S
  BY PowerSteps, PowersArePositive
<1>2. ASSUME NEW k \in Nat, k \in S
      PROVE  k + 1 \in S
  <2>1. m + (k + 1) = (m + k) + 1 /\ m + k \in Nat
    OBVIOUS
  <2>2. Power[m + (k + 1)] = Radix * Power[m + k] /\ Power[k + 1] = Radix * Power[k]
    BY <2>1, PowerSteps
  <2>3. Power[m] \in Nat /\ Power[k] \in Nat /\ Radix \in Nat
    BY PowersArePositive, RadixAssumption
  <2>4. Radix * (Power[m] * Power[k]) = Power[m] * (Radix * Power[k])
    BY <2>3
  <2> QED
    BY <1>2, <2>2, <2>4
<1> HIDE DEF S
<1>3. \A k \in Nat : k \in S
  BY <1>1, <1>2, Climb
<1> QED
  BY <1>3 DEF S

-----------------------------------------------------------------------------
(* The bytes of an id *)

\* The digit of a byte, zero where the id has none.
Digit(t, i, byte) == IF byte < t.idBytes THEN ByteMsbFirst(t, i, byte) ELSE 0

\* What the leading bytes of an id spell is a number.
LEMMA LeadingIsNatural ==
  ASSUME NEW t \in ForestTraits, NEW i \in Nat, NEW b \in Nat
  PROVE  Leading(t, i, b) \in Nat /\ t.idBytes \in Nat \ {0}
<1>1. t.idBytes \in Nat \ {0}
  BY DEF ForestTraits
<1>2. CASE b <= t.idBytes
  <2>1. t.idBytes - b \in Nat
    BY <1>1, <1>2
  <2>2. Power[t.idBytes - b] \in Nat \ {0}
    BY <2>1, PowersArePositive
  <2> QED
    BY <1>1, <1>2, <2>2, QuotientOf DEF Leading
<1>3. CASE ~(b <= t.idBytes)
  <2>1. b - t.idBytes \in Nat
    BY <1>1, <1>3
  <2>2. Power[b - t.idBytes] \in Nat
    BY <2>1, PowersArePositive
  <2> QED
    BY <1>1, <1>3, <2>2 DEF Leading
<1> QED
  BY <1>2, <1>3

\* No bytes spell zero.
LEMMA NothingLeads ==
  ASSUME NEW t \in ForestTraits, NEW i \in 0 .. Power[t.idBytes] - 1
  PROVE  Leading(t, i, 0) = 0
<1>1. t.idBytes \in Nat /\ t.idBytes - 0 = t.idBytes /\ 0 <= t.idBytes
  BY DEF ForestTraits
<1> PICK c \in Nat \ {0} : c = Power[t.idBytes]
  BY <1>1, PowersArePositive
<1>2. i \in 0 .. c - 1 /\ c * 0 + i = i
  OBVIOUS
<1>3. (c * 0 + i) \div c = 0
  BY <1>2, QuotientIs
<1> QED
  BY <1>1, <1>2, <1>3 DEF Leading

\* One byte more.
LEMMA LeadingStep ==
  ASSUME NEW t \in ForestTraits, NEW i \in Nat, NEW b \in Nat
  PROVE  /\ Digit(t, i, b) \in 0 .. Radix - 1
         /\ Leading(t, i, b + 1) = Radix * Leading(t, i, b) + Digit(t, i, b)
<1>r. Radix \in Nat \ {0}
  BY RadixAssumption
<1>t. PICK m \in Nat \ {0} : m = t.idBytes
  BY DEF ForestTraits
<1>1. CASE b < m
  <2>e. PICK e \in Nat : e = m - 1 - b
    BY <1>1, <1>t
  <2>1. m - (b + 1) = e /\ m - b = e + 1
    BY <1>t, <2>e
  <2>c. PICK c \in Nat \ {0} : c = Power[e]
    BY <2>e, PowersArePositive
  <2>2. Power[e + 1] = c * Radix
    BY <1>r, <2>e, <2>c, PowerSteps
  <2>x. PICK x \in Nat : x = i \div c
    BY <2>c, QuotientOf
  <2>3. Leading(t, i, b + 1) = x /\ Digit(t, i, b) = x % Radix
    <3>0. m \in Int
      BY <1>t
    <3>1. b + 1 <= m /\ m - (b + 1) = e /\ m - 1 - b = e
      BY <1>1, <2>e, <3>0
    <3> QED
      BY <1>1, <1>t, <2>c, <2>x, <3>1 DEF Leading, Digit, ByteMsbFirst
  <2>4. Leading(t, i, b) = x \div Radix
    <3>2. (i \div c) \div Radix = i \div (c * Radix)
      BY <1>r, <2>c, QuotientOfQuotient
    <3>3. Leading(t, i, b) = i \div (c * Radix)
      <4>1. b <= m
        BY <1>1, <1>t
      <4> QED
        BY <1>t, <2>1, <2>2, <4>1, Zenon DEF Leading
    <3> QED
      BY <2>x, <3>2, <3>3, Zenon
  <2>5. x % Radix \in 0 .. Radix - 1 /\ x = Radix * (x \div Radix) + (x % Radix)
    BY <1>r, <2>x, QuotientOf
  <2> QED
    BY <2>3, <2>4, <2>5, Zenon
<1>2. CASE ~(b < m)
  <2>e. PICK e \in Nat : e = b - m
    BY <1>2, <1>t
  <2>1. (b + 1) - m = e + 1 /\ ~(b + 1 <= m)
    BY <1>2, <1>t, <2>e
  <2>c. PICK c \in Nat \ {0} : c = Power[e]
    BY <2>e, PowersArePositive
  <2>2. Power[e + 1] = Radix * c
    BY <2>e, <2>c, PowerSteps
  <2>3. Leading(t, i, b + 1) = i * (Radix * c) /\ Digit(t, i, b) = 0
    BY <1>2, <1>t, <2>1, <2>2, Zenon DEF Leading, Digit
  <2>4. Leading(t, i, b) = i * c
    <3>1. CASE b = m
      <4>1. e = 0 /\ m - b = 0
        BY <1>t, <2>e, <3>1
      <4>2. c = 1
        BY <2>c, <4>1, PowerSteps
      <4>3. Leading(t, i, b) = i \div 1
        BY <1>t, <2>c, <3>1, <4>1, <4>2 DEF Leading
      <4> QED
        BY <4>2, <4>3
    <3>2. CASE b # m
      <4>1. ~(b <= m)
        BY <1>2, <1>t, <3>2
      <4> QED
        BY <1>t, <2>e, <2>c, <4>1, Zenon DEF Leading
    <3> QED
      BY <3>1, <3>2
  <2>5. i * (Radix * c) = Radix * (i * c) /\ i * c \in Nat /\ Radix * (i * c) \in Nat
    BY <1>r, <2>c
  <2>6. 0 \in 0 .. Radix - 1 /\ Radix * (i * c) = Radix * (i * c) + 0
    BY <1>r, <2>5
  <2> QED
    BY <2>3, <2>4, <2>5, <2>6, Zenon
<1> QED
  BY <1>1, <1>2

\* Products of the same factor are a factor apart.
LEMMA ProductsRise ==
  ASSUME NEW c \in Nat, NEW x \in Nat, NEW y \in Nat, x < y
  PROVE  x * c \in Nat /\ y * c \in Nat /\ x * c + c <= y * c
<1>1. PICK k \in Nat : y = x + 1 + k
  <2>1. y - x - 1 \in Nat
    OBVIOUS
  <2> QED  BY <2>1
<1>2. y * c = x * c + c + k * c /\ k * c \in Nat /\ x * c \in Nat
  BY <1>1
<1> QED
  BY <1>2

\* A digit more after a number of so many digits.
LEMMA AppendDigit ==
  ASSUME NEW c \in Nat \ {0}, NEW x \in Nat, NEW rest \in 0 .. c - 1, NEW d \in 0 .. Radix - 1
  PROVE  /\ rest * Radix + d \in 0 .. Radix * c - 1
         /\ Radix * (c * x + rest) + d = (Radix * c) * x + (rest * Radix + d)
<1> USE RadixAssumption
<1>1. rest * Radix + Radix <= c * Radix /\ rest * Radix \in Nat /\ c * Radix \in Nat
  BY ProductsRise
<1>2. rest * Radix + d \in 0 .. Radix * c - 1
  BY <1>1
<1> PICK cx \in Nat : cx = c * x
  OBVIOUS
<1>3. Radix * (cx + rest) = Radix * cx + rest * Radix /\ Radix * cx \in Nat
  OBVIOUS
<1>4. Radix * (c * x) = (Radix * c) * x
  OBVIOUS
<1> QED
  BY <1>1, <1>2, <1>3, <1>4

\* The n bytes of i from byte b on spell q.
Spells(t, i, b, n, q) ==
  q \in 0 .. Power[n] - 1 /\ Leading(t, i, b + n) = Power[n] * Leading(t, i, b) + q

\* What bytes spell grows by one byte.
LEMMA OneMoreByte ==
  ASSUME NEW t \in ForestTraits, NEW i \in Nat, NEW b \in Nat, NEW k \in Nat, NEW rest, Spells(t, i, b, k, rest)
  PROVE  Spells(t, i, b, k + 1, rest * Radix + Digit(t, i, b + k))
<1> PICK c \in Nat \ {0} : c = Power[k]
  BY PowersArePositive
<1> PICK x \in Nat : x = Leading(t, i, b)
  BY LeadingIsNatural
<1>1. rest \in 0 .. c - 1 /\ Leading(t, i, b + k) = c * x + rest
  BY DEF Spells
<1>2. b + k \in Nat /\ b + (k + 1) = (b + k) + 1
  OBVIOUS
<1> PICK d \in 0 .. Radix - 1 : d = Digit(t, i, b + k)
  BY <1>2, LeadingStep
<1>3. Leading(t, i, b + (k + 1)) = Radix * (c * x + rest) + d
  <2>1. Leading(t, i, (b + k) + 1) = Radix * Leading(t, i, b + k) + d
    BY <1>2, LeadingStep
  <2> QED
    BY <1>1, <1>2, <2>1
<1>4. rest * Radix + d \in 0 .. Radix * c - 1 /\ Radix * (c * x + rest) + d = (Radix * c) * x + (rest * Radix + d)
  BY <1>1, AppendDigit, RadixAssumption
<1>5. Power[k + 1] = Radix * c
  BY PowerSteps
<1> QED
  BY <1>3, <1>4, <1>5 DEF Spells

\* What more bytes spell begins with what fewer do.
LEMMA LeadingSplits ==
  ASSUME NEW t \in ForestTraits, NEW i \in Nat, NEW b \in Nat, NEW n \in Nat
  PROVE  \E rest : Spells(t, i, b, n, rest)
<1> DEFINE S == {k \in Nat : \E rest : Spells(t, i, b, k, rest)}
<1>1. 0 \in S
  <2> PICK x \in Nat : x = Leading(t, i, b)
    BY LeadingIsNatural
  <2>1. b + 0 = b /\ 1 * x + 0 = x /\ 0 \in 0 .. 1 - 1
    OBVIOUS
  <2>2. Spells(t, i, b, 0, 0)
    BY <2>1, PowerSteps DEF Spells
  <2> QED
    BY <2>2
<1>2. ASSUME NEW k \in Nat, k \in S
      PROVE  k + 1 \in S
  BY <1>2, OneMoreByte
<1>3. \A k \in Nat : k \in S
  <2> HIDE DEF S
  <2> QED
    BY <1>1, <1>2, Climb
<1> QED
  BY <1>3

\* Division keeps the order.
LEMMA QuotientsRise ==
  ASSUME NEW c \in Nat \ {0}, NEW x \in Nat, NEW y \in Nat, x <= y
  PROVE  x \div c <= y \div c
<1>x. x \div c \in Nat /\ x % c \in 0 .. c - 1 /\ x = c * (x \div c) + (x % c)
  BY QuotientOf
<1>y. y \div c \in Nat /\ y % c \in 0 .. c - 1 /\ y = c * (y \div c) + (y % c)
  BY QuotientOf
<1> PICK p \in Nat, r \in 0 .. c - 1 : p = x \div c /\ x = c * p + r
  BY <1>x, Zenon
<1> PICK q \in Nat, s \in 0 .. c - 1 : q = y \div c /\ y = c * q + s
  BY <1>y, Zenon
<1> SUFFICES ASSUME q < p PROVE FALSE
  OBVIOUS
<1>1. PICK j \in Nat : p = q + 1 + j
  <2>1. p - q - 1 \in Nat
    OBVIOUS
  <2> QED  BY <2>1
<1>2. c * p = c * q + c + c * j /\ c * j \in Nat /\ c * q \in Nat
  BY <1>1
<1> QED
  BY <1>2

\* The bytes order the ids.
LEMMA LeadingOrders ==
  ASSUME NEW t \in ForestTraits, NEW i \in Nat, NEW j \in Nat, NEW b \in Nat
  PROVE  /\ Leading(t, i, b) < Leading(t, j, b) => i < j
         /\ Leading(t, i, b) = Leading(t, j, b) /\ t.idBytes <= b => i = j
<1> PICK m \in Nat \ {0} : m = t.idBytes
  BY DEF ForestTraits
<1>1. CASE b <= m
  <2> PICK e \in Nat : e = m - b
    BY <1>1
  <2> PICK c \in Nat \ {0} : c = Power[e]
    BY PowersArePositive
  <2>1. Leading(t, i, b) = i \div c /\ Leading(t, j, b) = j \div c
    BY <1>1 DEF Leading
  <2>2. j <= i => j \div c <= i \div c
    BY QuotientsRise
  <2>3. i \div c \in Nat /\ j \div c \in Nat
    BY QuotientOf
  <2>4. m <= b => c = 1
    BY <1>1, PowerSteps
  <2>5. c = 1 => i \div c = i /\ j \div c = j
    OBVIOUS
  <2> QED
    BY <2>1, <2>2, <2>3, <2>4, <2>5
<1>2. CASE ~(b <= m)
  <2> PICK e \in Nat : e = b - m
    BY <1>2
  <2> PICK c \in Nat \ {0} : c = Power[e]
    BY PowersArePositive
  <2>1. Leading(t, i, b) = i * c /\ Leading(t, j, b) = j * c
    BY <1>2 DEF Leading
  <2>2. i < j => i * c + c <= j * c
    BY ProductsRise
  <2>3. j < i => j * c + c <= i * c
    BY ProductsRise
  <2>4. i * c \in Nat /\ j * c \in Nat
    OBVIOUS
  <2> QED
    BY <2>1, <2>2, <2>3, <2>4
<1> QED
  BY <1>1, <1>2
-----------------------------------------------------------------------------
(* Chunks *)

\* q is the chunk number c of an id in chunks of so many bytes.
IsChunk(t, i, width, c, q) == Spells(t, i, c * width, width, q)

\* How many parts of one size, the last of them perhaps incomplete.
LEMMA PartsOf ==
  ASSUME NEW width \in Nat \ {0}, NEW k \in Nat, NEW r \in 0 .. width - 1, NEW c \in Nat
  PROVE  c * width < width * k + r <=> c < (IF r # 0 THEN k + 1 ELSE k)
<1> PICK kw \in Nat : kw = k * width
  OBVIOUS
<1> PICK cw \in Nat : cw = c * width
  OBVIOUS
<1>1. width * k = kw
  OBVIOUS
<1>2. c < k => cw + width <= kw
  BY ProductsRise
<1>3. k < c => kw + width <= cw
  BY ProductsRise
<1>4. c = k => cw = kw
  OBVIOUS
<1>5. cw < kw + r <=> c < (IF r # 0 THEN k + 1 ELSE k)
  BY <1>2, <1>3, <1>4
<1> QED
  BY <1>1, <1>5

\* The chunks chunk_count promises are those that begin inside the id.
LEMMA ChunkNumbers ==
  ASSUME NEW t \in ForestTraits, NEW width \in Nat \ {0}
  PROVE  /\ ChunkCount(t, width) \in Nat \ {0}
         /\ \A c \in Nat : c < ChunkCount(t, width) <=> c * width < t.idBytes
<1> PICK m \in Nat \ {0} : m = t.idBytes
  BY DEF ForestTraits
<1>0. m \in Nat /\ width \in Nat \ {0}
  OBVIOUS
<1>1. PICK k \in Nat, r \in 0 .. width - 1 : k = m \div width /\ r = m % width /\ m = width * k + r
  <2>1. /\ m \div width \in Nat /\ m % width \in 0 .. width - 1
        /\ m = width * (m \div width) + (m % width)
    BY <1>0, QuotientOf, Zenon
  <2> QED
    BY <2>1, Zenon
<1> PICK n \in Nat : n = IF r # 0 THEN k + 1 ELSE k
  OBVIOUS
<1>2. ChunkCount(t, width) = n
  <2> PICK rest \in {0, 1} : rest = IF r # 0 THEN 1 ELSE 0
    OBVIOUS
  <2>1. ChunkCount(t, width) = k + rest
    BY <1>1, Zenon DEF ChunkCount
  <2>2. k + rest = n
    OBVIOUS
  <2> QED
    BY <2>1, <2>2, Zenon
<1>3. ASSUME NEW c \in Nat
      PROVE  c * width < m <=> c < n
  <2>1. c * width < width * k + r <=> c < (IF r # 0 THEN k + 1 ELSE k)
    BY PartsOf, Zenon
  <2> QED
    BY <1>1, <2>1, Zenon
<1>4. 0 * width = 0
  OBVIOUS
<1>5. 0 < n
  BY <1>3, <1>4
<1>6. n \in Nat \ {0}
  BY <1>5
<1> QED
  BY <1>2, <1>3, <1>6, Zenon

\* Packing bytes one after the other gives the number they spell.
LEMMA PackedIsChunk ==
  ASSUME NEW t \in ForestTraits, NEW i \in Nat, NEW width \in Nat, NEW c \in Nat, NEW bytes,
         \A b \in 0 .. t.idBytes - 1 : bytes[b] = ByteMsbFirst(t, i, b)
  PROVE  IsChunk(t, i, width, c, Packed(t, width, c, bytes))
<1> USE RadixAssumption
<1> PICK first \in Nat : first = c * width
  OBVIOUS
<1> DEFINE next(n) == IF c * width + n - 1 < t.idBytes THEN bytes[c * width + n - 1] ELSE 0
           IsPacked(v) == v = [n \in 0 .. width |-> IF n = 0 THEN 0 ELSE v[n - 1] * Radix + next(n)]
           value == CHOOSE v : IsPacked(v)
<1>1. Packed(t, width, c, bytes) = value[width]
  BY DEF Packed
<1>2. ASSUME NEW n \in 1 .. width
      PROVE  next(n) = Digit(t, i, first + n - 1) /\ next(n) \in 0 .. Radix - 1
  <2>1. t.idBytes \in Nat
    BY DEF ForestTraits
  <2>2. first + n - 1 \in Nat
    OBVIOUS
  <2>3. next(n) = Digit(t, i, first + n - 1)
    BY <2>1, <2>2 DEF Digit
  <2>4. Digit(t, i, first + n - 1) \in 0 .. Radix - 1
    <3> PICK b \in Nat : b = first + n - 1
      BY <2>2
    <3>1. Digit(t, i, b) \in 0 .. Radix - 1
      BY LeadingStep
    <3> QED
      BY <3>1, Zenon
  <2> HIDE DEF next
  <2> QED
    BY <2>3, <2>4, Zenon
<1> HIDE DEF next
<1>3. \E v : IsPacked(v)
  <2> PICK s \in [1 .. width -> [Nat -> Nat]] : s = [n \in 1 .. width |-> [x \in Nat |-> x * Radix + next(n)]]
    <3>1. \A n \in 1 .. width : \A x \in Nat : x * Radix + next(n) \in Nat
      BY <1>2
    <3> QED
      BY <3>1
  <2>1. PICK v \in [0 .. width -> Nat] : v[0] = 0 /\ \A n \in 1 .. width : v[n] = s[n][v[n - 1]]
    <3>1. 0 \in Nat
      OBVIOUS
    <3>2. \E v : IsSteps(width, Nat, 0, s, v)
      BY <3>1, StepByStep
    <3> QED
      BY <3>2 DEF IsSteps
  <2>2. \A n \in 1 .. width : v[n - 1] \in Nat /\ v[n] = v[n - 1] * Radix + next(n)
    <3> SUFFICES ASSUME NEW n \in 1 .. width
                 PROVE  v[n - 1] \in Nat /\ v[n] = v[n - 1] * Radix + next(n)
      OBVIOUS
    <3>1. v[n - 1] \in Nat
      <4>1. n - 1 \in 0 .. width
        OBVIOUS
      <4> QED
        BY <4>1
    <3>2. v[n] = s[n][v[n - 1]]
      BY <2>1
    <3>3. \A y \in Nat : s[n][y] = y * Radix + next(n)
      OBVIOUS
    <3> QED
      BY <3>1, <3>2, <3>3
  <2>3. \A n \in 0 .. width : n # 0 => n \in 1 .. width
    OBVIOUS
  <2>4. IsPacked(v)
    BY <2>1, <2>2, <2>3
  <2> HIDE DEF IsPacked
  <2> QED
    BY <2>4
<1>4. IsPacked(value)
  BY <1>3
<1> HIDE DEF value
<1>5. value[0] = 0
  BY <1>4
<1>6. \A n \in 1 .. width : value[n] = value[n - 1] * Radix + next(n)
  BY <1>4
<1> DEFINE S == {n \in Nat : n <= width => Spells(t, i, first, n, value[n])}
<1>7. 0 \in S
  <2> PICK x \in Nat : x = Leading(t, i, first)
    BY LeadingIsNatural
  <2>1. first + 0 = first /\ 1 * x + 0 = x /\ 0 \in 0 .. 1 - 1
    OBVIOUS
  <2> QED
    BY <1>5, <2>1, PowerSteps DEF Spells
<1>8. ASSUME NEW n \in Nat, n \in S
      PROVE  n + 1 \in S
  <2> SUFFICES ASSUME n + 1 <= width
               PROVE  Spells(t, i, first, n + 1, value[n + 1])
    OBVIOUS
  <2>1. Spells(t, i, first, n, value[n])
    BY <1>8
  <2>2. (first + (n + 1)) - 1 = first + n /\ n + 1 \in 1 .. width /\ (n + 1) - 1 = n
    OBVIOUS
  <2>3. next(n + 1) = Digit(t, i, first + n)
    BY <1>2, <2>2
  <2>4. value[n + 1] = value[n] * Radix + Digit(t, i, first + n)
    BY <1>6, <2>2, <2>3
  <2> QED
    BY <2>1, <2>4, OneMoreByte
<1>9. \A n \in Nat : n \in S
  <2> HIDE DEF S
  <2> QED
    BY <1>7, <1>8, Climb
<1>10. width \in S
  BY <1>9
<1> QED
  BY <1>1, <1>10 DEF IsChunk

\* Shifting and truncating gives the number the bytes spell.
LEMMA HookedIsChunk ==
  ASSUME NEW t \in ForestTraits, NEW i \in Nat, NEW width \in t.chunkHooks, NEW c \in Nat
  PROVE  IsChunk(t, i, width, c, HookedChunk(t, i, width, c))
<1>1. width \in Nat
  BY DEF ForestTraits
<1>2. PICK b \in Nat : b = c * width
  BY <1>1
<1>3. width * (c + 1) = b + width
  BY <1>1, <1>2
<1>4. PICK rest : Spells(t, i, b, width, rest)
  BY <1>1, LeadingSplits
<1>5. PICK p \in Nat \ {0} : p = Power[width]
  BY <1>1, PowersArePositive
<1>6. PICK x \in Nat : x = Leading(t, i, b)
  BY LeadingIsNatural
<1>7. rest \in 0 .. p - 1 /\ Leading(t, i, b + width) = p * x + rest
  BY <1>4, <1>5, <1>6 DEF Spells
<1>8. (p * x + rest) % p = rest
  BY <1>7, QuotientIs
<1>9. HookedChunk(t, i, width, c) = rest
  BY <1>3, <1>5, <1>7, <1>8, Zenon DEF HookedChunk
<1> QED
  BY <1>2, <1>4, <1>9, Zenon DEF IsChunk

\* chunk_msb_first or the bytes of an id.
LEMMA DirectChunkIs ==
  ASSUME NEW t \in ForestTraits, NEW i \in Nat, NEW width \in Nat \ {0}, NEW c \in Nat,
         c < ChunkCount(t, width)
  PROVE  IsChunk(t, i, width, c, ChunkMsbFirst(t, i, width, c))
<1>1. CASE width \in t.chunkHooks
  BY <1>1, HookedIsChunk DEF ChunkMsbFirst
<1>2. CASE width \notin t.chunkHooks
  <2> DEFINE bytes == [byte \in 0 .. t.idBytes - 1 |-> ByteMsbFirst(t, i, byte)]
  <2>1. \A b \in 0 .. t.idBytes - 1 : bytes[b] = ByteMsbFirst(t, i, b)
    OBVIOUS
  <2>2. ChunkMsbFirst(t, i, width, c) = Packed(t, width, c, bytes)
    BY <1>2 DEF ChunkMsbFirst
  <2> HIDE DEF bytes
  <2>3. IsChunk(t, i, width, c, Packed(t, width, c, bytes))
    BY <2>1, PackedIsChunk
  <2> QED
    BY <2>2, <2>3
<1> QED
  BY <1>1, <1>2
-----------------------------------------------------------------------------
(* Chunks of cached ids *)

\* Bytes read together are those read one part after the other.
AddUpTo(m, n, w) == w = m + n

\* What bytes spell falls into what its two parts spell.
LEMMA TwoParts ==
  ASSUME NEW t \in ForestTraits, NEW i \in Nat, NEW b \in Nat, NEW m \in Nat, NEW n \in Nat, NEW w, AddUpTo(m, n, w),
         NEW chunk, Spells(t, i, b, w, chunk)
  PROVE  \E r, s : /\ Spells(t, i, b, m, r) /\ Spells(t, i, b + m, n, s)
                   /\ r \in Nat /\ s \in 0 .. Power[n] - 1 /\ chunk = Power[n] * r + s
<1>0. w = m + n
  BY DEF AddUpTo
<1>1. b + m \in Nat /\ b + w = (b + m) + n
  BY <1>0
<1>2. PICK r : Spells(t, i, b, m, r)
  BY LeadingSplits
<1>3. PICK s : Spells(t, i, b + m, n, s)
  BY <1>1, LeadingSplits
<1>4. PICK p \in Nat \ {0} : p = Power[m]
  BY PowersArePositive
<1>5. PICK q \in Nat \ {0} : q = Power[n]
  BY PowersArePositive
<1>6. PICK x \in Nat : x = Leading(t, i, b)
  BY LeadingIsNatural
<1>7. Power[w] = q * p
  <2>1. p * q = q * p
    OBVIOUS
  <2> QED
    BY <1>0, <1>4, <1>5, <2>1, PowerOfSum
<1>8. (q * p) * x + chunk = q * (p * x + r) + s
  BY <1>1, <1>2, <1>3, <1>4, <1>5, <1>6, <1>7 DEF Spells
<1>9. r \in Nat /\ s \in 0 .. q - 1 /\ chunk \in Nat
  <2>1. r \in 0 .. p - 1 /\ s \in 0 .. q - 1
    BY <1>2, <1>3, <1>4, <1>5 DEF Spells
  <2>2. w \in Nat /\ Power[w] \in Nat
    BY <1>0, PowersArePositive
  <2>3. chunk \in Nat
    BY <2>2 DEF Spells
  <2> QED
    BY <2>1, <2>3
<1>10. chunk = q * r + s
  <2>1. PICK px \in Nat : px = p * x
    OBVIOUS
  <2>2. PICK qpx \in Nat : qpx = q * px
    OBVIOUS
  <2>3. (q * p) * x = qpx
    BY <2>1, <2>2
  <2>4. PICK qr \in Nat : qr = q * r
    BY <1>9
  <2>5. q * (px + r) = qpx + qr
    BY <1>9, <2>2, <2>4
  <2>6. qpx + chunk = qpx + qr + s
    BY <1>8, <2>1, <2>3, <2>5
  <2> QED
    BY <1>9, <2>4, <2>6
<1> QED
  BY <1>2, <1>3, <1>5, <1>9, <1>10

\* The half of a chunk twice as wide that chunk_as reads is the chunk.
LEMMA HalfIsChunk ==
  ASSUME NEW t \in ForestTraits, NEW i \in Nat, NEW width \in Nat \ {0}, NEW c \in Nat, NEW chunk,
         IsChunk(t, i, 2 * width, c \div 2, chunk)
  PROVE  IsChunk(t, i, width, c, Half(chunk, width, c))
<1>1. PICK k \in Nat : k = c \div 2 /\ c \in {2 * k, 2 * k + 1}
  OBVIOUS
<1>2. PICK b \in Nat : b = k * (2 * width)
  OBVIOUS
<1>3. PICK p \in Nat \ {0} : p = Power[width]
  BY PowersArePositive
<1>4. Spells(t, i, b, 2 * width, chunk) /\ AddUpTo(width, width, 2 * width)
  BY <1>1, <1>2 DEF IsChunk, AddUpTo
<1>5. PICK r, s : /\ Spells(t, i, b, width, r) /\ Spells(t, i, b + width, width, s)
                  /\ r \in Nat /\ s \in 0 .. p - 1 /\ chunk = p * r + s
  <2>1. width \in Nat
    OBVIOUS
  <2> QED
    BY <1>3, <1>4, <2>1, TwoParts
<1>6. chunk \div p = r /\ chunk % p = s
  <2>1. (p * r + s) \div p = r /\ (p * r + s) % p = s
    BY <1>3, <1>5, QuotientIs
  <2> QED
    BY <1>5, <2>1, Zenon
<1>7. CASE c = 2 * k
  <2>1. Half(chunk, width, c) = r
    <3>1. c % 2 = 0
      BY <1>7
    <3> QED
      BY <1>3, <1>6, <3>1, Zenon DEF Half
  <2>2. c * width = b
    BY <1>2, <1>7
  <2> QED
    BY <1>5, <2>1, <2>2, Zenon DEF IsChunk
<1>8. CASE c = 2 * k + 1
  <2>1. Half(chunk, width, c) = s
    <3>1. c % 2 # 0
      BY <1>8
    <3> QED
      BY <1>3, <1>6, <3>1, Zenon DEF Half
  <2>2. c * width = b + width
    BY <1>2, <1>8
  <2> QED
    BY <1>5, <2>1, <2>2, Zenon DEF IsChunk
<1> QED
  BY <1>1, <1>7, <1>8

\* An entry of a cached id is that chunk of the id.
LEMMA CachedEntry ==
  ASSUME NEW t \in ForestTraits, NEW i \in Nat, NEW k \in Nat, k * CachedBytes < t.idBytes
  PROVE  IsChunk(t, i, CachedBytes, k, CachedId(t, i)[k])
<1>1. CachedBytes \in Nat \ {0}
  BY CachedAssumption
<1>2. k < ChunkCount(t, CachedBytes) /\ ChunkCount(t, CachedBytes) \in Nat
  BY <1>1, ChunkNumbers
<1>3. CachedId(t, i)[k] = ChunkMsbFirst(t, i, CachedBytes, k)
  BY <1>2 DEF CachedId
<1> QED
  BY <1>1, <1>2, <1>3, DirectChunkIs

\* A byte of a cached id is the byte of the id.
LEMMA CachedByteIs ==
  ASSUME NEW t \in ForestTraits, NEW i \in Nat, NEW byte \in 0 .. t.idBytes - 1
  PROVE  CachedByte(CachedId(t, i), byte) = ByteMsbFirst(t, i, byte)
<1>1. CachedBytes \in Nat \ {0} /\ t.idBytes \in Nat /\ byte \in Nat /\ byte < t.idBytes
  BY CachedAssumption DEF ForestTraits
<1>2. PICK w \in Nat \ {0} : w = CachedBytes
  BY <1>1
<1>3. PICK k \in Nat, j \in 0 .. w - 1 : k = byte \div w /\ j = byte % w /\ byte = w * k + j
  <2>1. byte \div w \in Nat /\ byte % w \in 0 .. w - 1 /\ byte = w * (byte \div w) + (byte % w)
    BY <1>1, QuotientOf
  <2> QED
    BY <2>1
<1>4. PICK b \in Nat : b = k * w
  OBVIOUS
<1>5. byte = b + j
  <2>1. w * k = b
    BY <1>4
  <2> QED
    BY <1>3, <2>1
<1>6. PICK e \in Nat : e = w - 1 - j
  BY <1>3
<1>7. PICK chunk : chunk = CachedId(t, i)[k]
  OBVIOUS
<1>8. IsChunk(t, i, w, k, chunk)
  <2>1. k * CachedBytes < t.idBytes
    BY <1>1, <1>2, <1>3, <1>4, <1>5
  <2> QED
    BY <1>2, <1>7, <2>1, CachedEntry
<1>9. w = (j + 1) + e /\ j + 1 \in Nat /\ j \in Nat /\ 1 \in Nat
  BY <1>3, <1>6
<1>10. Power[e] \in Nat \ {0}
  BY <1>9, PowersArePositive
<1>11. Spells(t, i, b, w, chunk)
  BY <1>4, <1>8 DEF IsChunk
<1>l. PICK l \in Nat : l = j + 1
  BY <1>9
<1>o. PICK one \in Nat : one = 1
  OBVIOUS
<1>12. PICK r, s : Spells(t, i, b, l, r) /\ r \in Nat /\ s \in 0 .. Power[e] - 1 /\ chunk = Power[e] * r + s
  <2>1. AddUpTo(l, e, w)
    BY <1>9, <1>l DEF AddUpTo
  <2> QED
    BY <1>l, <1>4, <1>6, <1>11, <2>1, TwoParts
<1>13. r \in Nat
  BY <1>12
<1>14. PICK r1, s1 : r1 \in Nat /\ Spells(t, i, b + j, 1, s1) /\ r = Power[1] * r1 + s1
  <2>1. AddUpTo(j, one, l) /\ j \in Nat
    BY <1>9, <1>l, <1>o DEF AddUpTo
  <2>2. \E r1, s1 : r1 \in Nat /\ Spells(t, i, b + j, one, s1) /\ r = Power[one] * r1 + s1
    BY <1>4, <1>o, <1>12, <2>1, TwoParts
  <2> QED
    BY <1>o, <2>2
<1>15. Power[1] = Radix
  <2>1. Power[0 + 1] = Radix * Power[0] /\ Power[0] = 1
    BY PowerSteps
  <2> QED
    BY <2>1, RadixAssumption
<1>16. Radix \in Nat \ {0}
  BY RadixAssumption
<1>17. r1 \in Nat /\ s1 \in 0 .. Radix - 1 /\ Leading(t, i, (b + j) + 1) = Radix * Leading(t, i, b + j) + s1
  BY <1>14, <1>15 DEF Spells
<1>18. s1 = ByteMsbFirst(t, i, byte)
  <2>0. /\ Digit(t, i, byte) \in 0 .. Radix - 1
        /\ Leading(t, i, byte + 1) = Radix * Leading(t, i, byte) + Digit(t, i, byte)
    <3>1. byte \in Nat
      BY <1>1
    <3> QED
      BY <3>1, LeadingStep
  <2>1. PICK d \in 0 .. Radix - 1 : d = Digit(t, i, byte) /\ Leading(t, i, byte + 1) = Radix * Leading(t, i, byte) + d
    BY <2>0, Zenon
  <2>2. PICK y \in Nat : y = Leading(t, i, byte)
    BY <1>1, LeadingIsNatural
  <2>3. Radix * y + d = Radix * y + s1
    BY <1>5, <1>17, <2>1, <2>2
  <2>4. PICK ry \in Nat : ry = Radix * y
    BY <1>16
  <2>5. d = s1
    BY <1>17, <2>1, <2>3, <2>4
  <2> QED
    BY <1>1, <2>1, <2>5 DEF Digit
<1>19. r % Radix = s1
  <2>1. (Radix * r1 + s1) % Radix = s1
    BY <1>16, <1>17, QuotientIs
  <2> QED
    BY <1>14, <1>15, <2>1, Zenon
<1>20. chunk \div Power[e] = r
  <2>1. (Power[e] * r + s) \div Power[e] = r
    BY <1>10, <1>12, <1>13, QuotientIs
  <2> QED
    BY <1>12, <2>1, Zenon
<1>21. CachedByte(CachedId(t, i), byte) = (chunk \div Power[e]) % Radix
  BY <1>2, <1>3, <1>6, <1>7, Zenon DEF CachedByte
<1> QED
  BY <1>18, <1>19, <1>20, <1>21, Zenon

\* A chunk read from the cached id is that chunk of the id.
LEMMA CachedChunkIs ==
  ASSUME NEW t \in ForestTraits, NEW i \in Nat, NEW width \in Nat \ {0}, NEW c \in Nat,
         c < ChunkCount(t, width)
  PROVE  IsChunk(t, i, width, c, CachedChunk(t, CachedId(t, i), width, c))
<1>1. CachedBytes \in Nat \ {0} /\ t.idBytes \in Nat
  BY CachedAssumption DEF ForestTraits
<1>2. c * width < t.idBytes
  BY ChunkNumbers
<1>3. CASE width = CachedBytes
  <2>1. IsChunk(t, i, CachedBytes, c, CachedId(t, i)[c])
    BY <1>2, <1>3, CachedEntry
  <2> QED
    BY <1>3, <2>1 DEF CachedChunk
<1>4. CASE width # CachedBytes /\ 2 * width = CachedBytes
  <2>1. PICK k \in Nat : k = c \div 2 /\ c \in {2 * k, 2 * k + 1}
    OBVIOUS
  <2>2. k * (2 * width) \in Nat /\ k * (2 * width) <= c * width
    <3>1. PICK kw \in Nat : kw = k * width
      OBVIOUS
    <3>2. k * (2 * width) = 2 * kw
      BY <3>1
    <3>3. (2 * k) * width = 2 * kw /\ (2 * k + 1) * width = 2 * kw + width
      BY <3>1
    <3> QED
      BY <2>1, <3>2, <3>3
  <2>3. k * CachedBytes < t.idBytes
    <3>1. c * width \in Nat
      OBVIOUS
    <3> QED
      BY <1>1, <1>2, <1>4, <2>2, <3>1
  <2>4. IsChunk(t, i, 2 * width, c \div 2, CachedId(t, i)[c \div 2])
    BY <1>4, <2>1, <2>3, CachedEntry
  <2>5. IsChunk(t, i, width, c, Half(CachedId(t, i)[c \div 2], width, c))
    BY <2>4, HalfIsChunk
  <2>6. CachedChunk(t, CachedId(t, i), width, c) = Half(CachedId(t, i)[c \div 2], width, c)
    BY <1>4 DEF CachedChunk
  <2> QED
    BY <2>5, <2>6
<1>5. CASE width # CachedBytes /\ 2 * width # CachedBytes
  <2> DEFINE bytes == [byte \in 0 .. t.idBytes - 1 |-> CachedByte(CachedId(t, i), byte)]
  <2>1. \A b \in 0 .. t.idBytes - 1 : bytes[b] = ByteMsbFirst(t, i, b)
    BY CachedByteIs
  <2>2. CachedChunk(t, CachedId(t, i), width, c) = Packed(t, width, c, bytes)
    BY <1>5 DEF CachedChunk
  <2> HIDE DEF bytes
  <2>3. IsChunk(t, i, width, c, Packed(t, width, c, bytes))
    BY <2>1, PackedIsChunk
  <2> QED
    BY <2>2, <2>3
<1> QED
  BY <1>3, <1>4, <1>5
-----------------------------------------------------------------------------
(* Comparing ids *)

IdsOf(t) == 0 .. Power[t.idBytes] - 1

\* Ids of the traits are numbers.
LEMMA IdsAreNatural ==
  ASSUME NEW t \in ForestTraits
  PROVE  t.idBytes \in Nat /\ \A i \in IdsOf(t) : i \in Nat
<1>1. t.idBytes \in Nat
  BY DEF ForestTraits
<1>2. Power[t.idBytes] \in Nat
  BY <1>1, PowersArePositive
<1> QED
  BY <1>1, <1>2 DEF IdsOf

\* Of two ids with equal bytes so far, the next chunk decides.
LEMMA ChunkDecides ==
  ASSUME NEW t \in ForestTraits, NEW i \in Nat, NEW j \in Nat, NEW width \in Nat, NEW c \in Nat,
         NEW p, NEW q, IsChunk(t, i, width, c, p), IsChunk(t, j, width, c, q),
         Leading(t, i, c * width) = Leading(t, j, c * width)
  PROVE  /\ p \in Nat /\ q \in Nat
         /\ p < q => Leading(t, i, (c + 1) * width) < Leading(t, j, (c + 1) * width)
         /\ p = q => Leading(t, i, (c + 1) * width) = Leading(t, j, (c + 1) * width)
<1>1. PICK b \in Nat : b = c * width
  OBVIOUS
<1>2. (c + 1) * width = b + width
  BY <1>1
<1>4. Power[width] \in Nat
  BY PowersArePositive
<1>3. PICK x \in Nat : x = Power[width] * Leading(t, i, b)
  <2>1. Leading(t, i, b) \in Nat
    BY <1>1, LeadingIsNatural
  <2>2. Power[width] * Leading(t, i, b) \in Nat
    BY <1>4, <2>1
  <2> QED
    BY <2>2
<1>5. p \in Nat /\ q \in Nat
  BY <1>4 DEF IsChunk, Spells
<1>6. Leading(t, i, b + width) = x + p /\ Leading(t, j, b + width) = x + q
  BY <1>1, <1>3 DEF IsChunk, Spells
<1> QED
  BY <1>2, <1>3, <1>5, <1>6

\* Ids with the same chunk after the same bytes have the same bytes after it.
LEMMA ChunkKeeps ==
  ASSUME NEW t \in ForestTraits, NEW i \in Nat, NEW j \in Nat, NEW width \in Nat, NEW c \in Nat,
         NEW q, IsChunk(t, i, width, c, q), IsChunk(t, j, width, c, q),
         Leading(t, i, c * width) = Leading(t, j, c * width)
  PROVE  Leading(t, i, (c + 1) * width) = Leading(t, j, (c + 1) * width)
BY ChunkDecides

\* The first n chunks of two ids are equal.
HaveSame(t, i, j, width, n) ==
  \A c \in 0 .. n - 1 : \E x : IsChunk(t, i, width, c, x) /\ IsChunk(t, j, width, c, x)

\* Ids with the same chunks so far have the same bytes so far.
LEMMA SameChunks ==
  ASSUME NEW t \in ForestTraits, NEW i \in IdsOf(t), NEW j \in IdsOf(t), NEW width \in Nat, NEW n \in Nat,
         HaveSame(t, i, j, width, n)
  PROVE  Leading(t, i, n * width) = Leading(t, j, n * width)
<1>1. i \in Nat /\ j \in Nat
  BY IdsAreNatural
<1> DEFINE S == {k \in Nat : k <= n => Leading(t, i, k * width) = Leading(t, j, k * width)}
<1>2. 0 \in S
  <2>1. 0 * width = 0
    OBVIOUS
  <2>2. Leading(t, i, 0) = 0 /\ Leading(t, j, 0) = 0
    BY NothingLeads DEF IdsOf
  <2> QED
    BY <2>1, <2>2
<1>3. ASSUME NEW k \in Nat, k \in S
      PROVE  k + 1 \in S
  <2> SUFFICES ASSUME k + 1 <= n
               PROVE  Leading(t, i, (k + 1) * width) = Leading(t, j, (k + 1) * width)
    OBVIOUS
  <2>1. k \in 0 .. n - 1 /\ Leading(t, i, k * width) = Leading(t, j, k * width)
    BY <1>3
  <2>2. PICK x : IsChunk(t, i, width, k, x) /\ IsChunk(t, j, width, k, x)
    BY <2>1 DEF HaveSame
  <2>3. k * width \in Nat
    OBVIOUS
  <2> QED
    BY <1>1, <2>1, <2>2, ChunkKeeps
<1>4. \A k \in Nat : k \in S
  <2> HIDE DEF S
  <2> QED
    BY <1>2, <1>3, Climb
<1>5. n \in S
  BY <1>4
<1> QED
  BY <1>5

\* Cached ids compare as the ids they are cached of.
LEMMA CachedCompare ==
  ASSUME NEW t \in ForestTraits, NEW i \in IdsOf(t), NEW j \in IdsOf(t)
  PROVE  CompareChunkSequence(CachedId(t, i), CachedId(t, j)) = IF i = j THEN 0 ELSE IF i < j THEN -1 ELSE 1
<1>1. i \in Nat /\ j \in Nat /\ t.idBytes \in Nat
  BY IdsAreNatural
<1>2. CachedBytes \in Nat \ {0}
  BY CachedAssumption
<1> PICK n \in Nat : n = ChunkCount(t, CachedBytes)
  BY <1>2, ChunkNumbers
<1> PICK p : p = CachedId(t, i)
  OBVIOUS
<1> PICK q : q = CachedId(t, j)
  OBVIOUS
<1>3. /\ p = [c \in 0 .. n - 1 |-> p[c]] /\ q = [c \in 0 .. n - 1 |-> q[c]]
      /\ DOMAIN p = 0 .. n - 1
  BY DEF CachedId
<1>4. \A c \in 0 .. n - 1 : IsChunk(t, i, CachedBytes, c, p[c]) /\ IsChunk(t, j, CachedBytes, c, q[c])
  <2> SUFFICES ASSUME NEW c \in 0 .. n - 1
               PROVE  IsChunk(t, i, CachedBytes, c, p[c]) /\ IsChunk(t, j, CachedBytes, c, q[c])
    OBVIOUS
  <2>1. c \in Nat /\ c < ChunkCount(t, CachedBytes)
    OBVIOUS
  <2>2. c * CachedBytes < t.idBytes
    BY <1>2, <2>1, ChunkNumbers
  <2> QED
    BY <1>1, <2>1, <2>2, CachedEntry
<1>5. CASE i = j
  <2>1. p = q
    BY <1>5
  <2> QED
    BY <1>5, <2>1 DEF CompareChunkSequence
<1>6. CASE i # j
  <2>1. PICK k \in 0 .. n - 1 : p[k] # q[k] /\ \A c \in 0 .. n - 1 : c < k => p[c] = q[c]
    <3> DEFINE differ == {c \in 0 .. n - 1 : p[c] # q[c]}
    <3>1. differ # {}
      <4> SUFFICES ASSUME \A c \in 0 .. n - 1 : p[c] = q[c]
                   PROVE  FALSE
        OBVIOUS
      <4>1. Leading(t, i, n * CachedBytes) = Leading(t, j, n * CachedBytes)
        <5>1. HaveSame(t, i, j, CachedBytes, n)
          BY <1>4 DEF HaveSame
        <5> QED
          BY <1>2, <5>1, SameChunks
      <4>2. ~(n * CachedBytes < t.idBytes) /\ n * CachedBytes \in Nat
        BY <1>2, ChunkNumbers
      <4>3. PICK b \in Nat : b = n * CachedBytes
        BY <4>2
      <4>4. Leading(t, i, b) = Leading(t, j, b) /\ t.idBytes <= b
        BY <1>1, <4>1, <4>2, <4>3
      <4> QED
        BY <1>1, <1>6, <4>4, LeadingOrders
    <3>2. differ \in SUBSET Nat
      OBVIOUS
    <3>3. PICK k \in differ : \A c \in differ : k <= c
      BY <3>1, <3>2, LeastElement
    <3> QED
      BY <3>3
  <2>2. k \in Nat /\ \A c \in 0 .. k - 1 : c \in 0 .. n - 1 /\ p[c] = q[c]
    BY <2>1
  <2>3. Leading(t, i, k * CachedBytes) = Leading(t, j, k * CachedBytes)
    BY <1>2, <1>4, <2>2, SameChunks DEF HaveSame
  <2>4. IsChunk(t, i, CachedBytes, k, p[k]) /\ IsChunk(t, j, CachedBytes, k, q[k])
    BY <1>4
  <2>5. PICK b \in Nat : b = (k + 1) * CachedBytes
    BY <1>2, <2>2
  <2>6. /\ p[k] \in Nat /\ q[k] \in Nat
        /\ p[k] < q[k] => Leading(t, i, b) < Leading(t, j, b)
    BY <1>1, <1>2, <2>2, <2>3, <2>4, <2>5, ChunkDecides
  <2>7. q[k] < p[k] => Leading(t, j, b) < Leading(t, i, b)
    BY <1>1, <1>2, <2>2, <2>3, <2>4, <2>5, ChunkDecides
  <2>8. (p[k] < q[k] => i < j) /\ (q[k] < p[k] => j < i)
    BY <1>1, <2>5, <2>6, <2>7, LeadingOrders
  <2>9. p[k] < q[k] <=> i < j
    BY <1>1, <1>6, <2>1, <2>6, <2>8
  <2>10. \A c \in 0 .. n - 1 : (p[c] # q[c] /\ \A d \in 0 .. n - 1 : d < c => p[d] = q[d]) => c = k
    BY <2>1
  <2>11. CompareChunkSequence(p, q) = IF p[k] < q[k] THEN -1 ELSE 1
    BY <1>3, <2>1, <2>10 DEF CompareChunkSequence
  <2> QED
    BY <1>6, <2>9, <2>11
<1> QED
  BY <1>5, <1>6

\* less and the comparison of bytes are the order of the ids.
LEMMA IdLessIs ==
  ASSUME NEW t \in ForestTraits, NEW i \in IdsOf(t), NEW j \in IdsOf(t)
  PROVE  IdLess(t, i, j) <=> i < j
<1>1. i \in Nat /\ j \in Nat
  BY IdsAreNatural
<1>2. CASE t.less
  BY <1>2 DEF IdLess
<1>3. CASE ~t.less
  <2>1. CompareNodeIds(t, i, j) = IF i = j THEN 0 ELSE IF i < j THEN -1 ELSE 1
    BY <1>3, CachedCompare DEF CompareNodeIds, CompareIdsMsbFirst
  <2> QED
    BY <1>1, <1>3, <2>1 DEF IdLess
<1> QED
  BY <1>2, <1>3
-----------------------------------------------------------------------------
(* Places by digit *)

\* Where a stable sort by D puts the numbers below n.
Sooner(D, o, p) == D[o] < D[p] \/ (D[o] = D[p] /\ o < p)
SoonerThan(D, n, p) == {o \in 0 .. n - 1 : Sooner(D, o, p)}
RankIn(D, n, p) == Cardinality(SoonerThan(D, n, p))

\* A rank is a place of the range.
LEMMA RankBound ==
  ASSUME NEW n \in Nat, NEW D \in [0 .. n - 1 -> Nat], NEW p \in 0 .. n - 1
  PROVE  IsFiniteSet(SoonerThan(D, n, p)) /\ RankIn(D, n, p) \in 0 .. n - 1
<1>1. IsFiniteSet(0 .. n - 1) /\ Cardinality(0 .. n - 1) = n
  BY FS_Interval
<1>2. SoonerThan(D, n, p) \in SUBSET (0 .. n - 1) /\ SoonerThan(D, n, p) # 0 .. n - 1
  <2>1. p \notin SoonerThan(D, n, p)
    BY DEF SoonerThan, Sooner
  <2> QED
    BY <2>1 DEF SoonerThan
<1>3. IsFiniteSet(SoonerThan(D, n, p)) /\ Cardinality(SoonerThan(D, n, p)) \in Nat
  BY <1>1, <1>2, FS_Subset, FS_CardinalityType
<1>4. Cardinality(SoonerThan(D, n, p)) < n
  <2>1. Cardinality(SoonerThan(D, n, p)) <= n /\ Cardinality(SoonerThan(D, n, p)) # n
    BY <1>1, <1>2, FS_Subset
  <2> QED
    BY <1>3, <2>1
<1> QED
  BY <1>3, <1>4 DEF RankIn

\* What comes sooner has the lower rank.
LEMMA RankRises ==
  ASSUME NEW n \in Nat, NEW D \in [0 .. n - 1 -> Nat], NEW o \in 0 .. n - 1, NEW p \in 0 .. n - 1, Sooner(D, o, p)
  PROVE  RankIn(D, n, o) < RankIn(D, n, p)
<1>1. SoonerThan(D, n, o) \in SUBSET SoonerThan(D, n, p)
  <2>1. SUFFICES ASSUME NEW k \in 0 .. n - 1, Sooner(D, k, o) PROVE Sooner(D, k, p)
    BY DEF SoonerThan
  <2>2. D[k] \in Nat /\ D[o] \in Nat /\ D[p] \in Nat
    OBVIOUS
  <2> QED
    BY <2>1, <2>2 DEF Sooner
<1>2. o \in SoonerThan(D, n, p) /\ o \notin SoonerThan(D, n, o)
  BY DEF SoonerThan, Sooner
<1>3. IsFiniteSet(SoonerThan(D, n, p)) /\ RankIn(D, n, o) \in Nat /\ RankIn(D, n, p) \in Nat
  <2>1. \A q \in 0 .. n - 1 : IsFiniteSet(SoonerThan(D, n, q)) /\ RankIn(D, n, q) \in 0 .. n - 1
    BY RankBound, Zenon
  <2>2. RankIn(D, n, o) \in 0 .. n - 1 /\ RankIn(D, n, p) \in 0 .. n - 1
    BY <2>1, Zenon
  <2> QED
    BY <2>1, <2>2
<1>4. RankIn(D, n, o) <= RankIn(D, n, p) /\ RankIn(D, n, o) # RankIn(D, n, p)
  BY <1>1, <1>2, <1>3, FS_Subset DEF RankIn
<1> QED
  BY <1>3, <1>4

\* Everything has its own place, places are taken in turn and none is left.
LEMMA Ranks ==
  ASSUME NEW n \in Nat, NEW D \in [0 .. n - 1 -> Nat]
  PROVE  /\ \A o, p \in 0 .. n - 1 : RankIn(D, n, o) < RankIn(D, n, p) <=> Sooner(D, o, p)
         /\ \A o, p \in 0 .. n - 1 : RankIn(D, n, o) = RankIn(D, n, p) => o = p
         /\ \A o \in 0 .. n - 1 : RankIn(D, n, o) \in 0 .. n - 1
         /\ \A r \in 0 .. n - 1 : \E o \in 0 .. n - 1 : RankIn(D, n, o) = r
<1>1. \A o \in 0 .. n - 1 : RankIn(D, n, o) \in 0 .. n - 1
  BY RankBound
<1>2. \A o, p \in 0 .. n - 1 : Sooner(D, o, p) => RankIn(D, n, o) < RankIn(D, n, p)
  BY RankRises
<1>3. \A o, p \in 0 .. n - 1 : o = p \/ Sooner(D, o, p) \/ Sooner(D, p, o)
  <2>1. \A o \in 0 .. n - 1 : D[o] \in Nat
    OBVIOUS
  <2> QED
    BY <2>1 DEF Sooner
<1>a. ASSUME NEW o \in 0 .. n - 1, NEW p \in 0 .. n - 1
      PROVE  (RankIn(D, n, o) < RankIn(D, n, p) <=> Sooner(D, o, p)) /\ (RankIn(D, n, o) = RankIn(D, n, p) => o = p)
  <2>1. RankIn(D, n, o) \in Nat /\ RankIn(D, n, p) \in Nat
    BY <1>1
  <2>2. Sooner(D, o, p) => RankIn(D, n, o) < RankIn(D, n, p)
    BY <1>2
  <2>3. Sooner(D, p, o) => RankIn(D, n, p) < RankIn(D, n, o)
    BY <1>2
  <2>4. o = p \/ Sooner(D, o, p) \/ Sooner(D, p, o)
    BY <1>3
  <2>5. ~Sooner(D, o, o)
    BY DEF Sooner
  <2> QED
    BY <2>1, <2>2, <2>3, <2>4, <2>5
<1>4. \A o, p \in 0 .. n - 1 : RankIn(D, n, o) < RankIn(D, n, p) <=> Sooner(D, o, p)
  BY <1>a
<1>5. \A o, p \in 0 .. n - 1 : RankIn(D, n, o) = RankIn(D, n, p) => o = p
  BY <1>a
<1> DEFINE T == 0 .. n - 1
           g == [o \in T |-> RankIn(D, n, o)]
<1>6. g \in [T -> T] /\ \A o, p \in T : g[o] = g[p] => o = p
  BY <1>1, <1>5
<1>7. \A r \in T : \E o \in T : g[o] = r
  <2>1. IsFiniteSet(T)
    BY FS_Interval
  <2> HIDE DEF T, g
  <2>2. g \in Injection(T, T)
    BY <1>6 DEF Injection, IsInjective
  <2>3. g \in Surjection(T, T)
    BY <2>1, <2>2, FS_Injection
  <2> QED
    BY <2>3 DEF Surjection
<1>8. \A r \in 0 .. n - 1 : \E o \in 0 .. n - 1 : RankIn(D, n, o) = r
  BY <1>7
<1> QED
  BY <1>1, <1>4, <1>5, <1>8

\* The numbers with a smaller digit, and with one.
Below(D, n, d) == {o \in 0 .. n - 1 : D[o] < d}
With(D, n, d) == {o \in 0 .. n - 1 : D[o] = d}

\* Sets of offsets are finite.
LEMMA FiniteParts ==
  ASSUME NEW n \in Nat, NEW T, T \subseteq 0 .. n - 1
  PROVE  IsFiniteSet(T) /\ Cardinality(T) \in Nat
<1>1. IsFiniteSet(0 .. n - 1)
  BY FS_Interval
<1> QED
  BY <1>1, FS_Subset, FS_CardinalityType

\* The digits below the next digit are those below this one and those equal to
\* it.
LEMMA BelowGrows ==
  ASSUME NEW n \in Nat, NEW D \in [0 .. n - 1 -> Nat], NEW d \in Nat
  PROVE  /\ Cardinality(Below(D, n, 0)) = 0
         /\ Cardinality(Below(D, n, d)) \in Nat /\ Cardinality(With(D, n, d)) \in Nat
         /\ Cardinality(Below(D, n, d + 1)) = Cardinality(Below(D, n, d)) + Cardinality(With(D, n, d))
<1>1. Below(D, n, 0) = {}
  BY DEF Below
<1>2. /\ IsFiniteSet(Below(D, n, d)) /\ Cardinality(Below(D, n, d)) \in Nat
      /\ IsFiniteSet(With(D, n, d)) /\ Cardinality(With(D, n, d)) \in Nat
  <2>1. Below(D, n, d) \subseteq 0 .. n - 1 /\ With(D, n, d) \subseteq 0 .. n - 1
    BY DEF Below, With
  <2> QED
    BY <2>1, FiniteParts
<1>3. Below(D, n, d + 1) = Below(D, n, d) \cup With(D, n, d)
  BY DEF Below, With
<1>4. Below(D, n, d) \cap With(D, n, d) = {}
  BY DEF Below, With
<1>5. Cardinality(Below(D, n, d) \cap With(D, n, d)) = 0 /\ Cardinality(Below(D, n, 0)) = 0
  BY <1>1, <1>4, FS_EmptySet
<1>6. Cardinality(Below(D, n, d) \cup With(D, n, d))
        = Cardinality(Below(D, n, d)) + Cardinality(With(D, n, d)) - Cardinality(Below(D, n, d) \cap With(D, n, d))
  BY <1>2, FS_Union
<1>7. Cardinality(Below(D, n, d + 1)) = Cardinality(Below(D, n, d)) + Cardinality(With(D, n, d))
  <2>1. Cardinality(Below(D, n, d) \cup With(D, n, d)) = Cardinality(Below(D, n, d)) + Cardinality(With(D, n, d)) - 0
    BY <1>5, <1>6, Zenon
  <2>2. Cardinality(Below(D, n, d) \cup With(D, n, d)) = Cardinality(Below(D, n, d)) + Cardinality(With(D, n, d))
    BY <1>2, <2>1
  <2> QED
    BY <1>3, <2>2, Zenon
<1> QED
  BY <1>2, <1>5, <1>7

\* A rank is a bucket's start plus how many equal digits came before.
LEMMA RankByCounts ==
  ASSUME NEW n \in Nat, NEW D \in [0 .. n - 1 -> Nat], NEW o \in 0 .. n - 1
  PROVE  RankIn(D, n, o) = Cardinality(Below(D, n, D[o])) + Cardinality({p \in 0 .. o - 1 : D[p] = D[o]})
<1> DEFINE same == {p \in 0 .. o - 1 : D[p] = D[o]}
<1>1. SoonerThan(D, n, o) = Below(D, n, D[o]) \cup same
  BY DEF SoonerThan, Sooner, Below
<1>2. Below(D, n, D[o]) \cap same = {}
  BY DEF Below
<1>3. same \subseteq 0 .. n - 1 /\ Below(D, n, D[o]) \subseteq 0 .. n - 1
  BY DEF Below
<1>4. IsFiniteSet(same) /\ IsFiniteSet(Below(D, n, D[o]))
  BY <1>3, FiniteParts
<1>5. /\ Cardinality(same) \in Nat /\ Cardinality(Below(D, n, D[o])) \in Nat
      /\ Cardinality(Below(D, n, D[o]) \cap same) = 0
  BY <1>2, <1>3, FiniteParts, FS_EmptySet
<1>6. Cardinality(Below(D, n, D[o]) \cup same)
        = Cardinality(Below(D, n, D[o])) + Cardinality(same) - Cardinality(Below(D, n, D[o]) \cap same)
  <2> HIDE DEF same
  <2> QED  BY <1>4, FS_Union
<1> QED
  BY <1>1, <1>5, <1>6 DEF RankIn
-----------------------------------------------------------------------------
(* The counting pass *)

DigitsOf == [o \in Offsets(range) |-> DigitAt(o)]

\* What counting leaves: how many entries have each digit.
Counted == Counts = [d \in Digits |-> Cardinality({o \in Offsets(range) : DigitAt(o) = d})]

\* The prefix sums are where the buckets start, also those that skip the
\* buckets no entry is in.
LEMMA WriteOffsetIs ==
  ASSUME NEW n \in Nat, NEW D \in [0 .. n - 1 -> Digits],
         Counts = [d \in Digits |-> Cardinality(With(D, n, d))], \A o \in 0 .. n - 1 : D[o] \in Buckets
  PROVE  \A d \in 0 .. Radix : WriteOffset[d] = Cardinality(Below(D, n, d))
<1> USE RadixAssumption
<1>1. D \in [0 .. n - 1 -> Nat]
  BY DEF Digits
<1> DEFINE IsOffsets(w) ==
             w = [d \in 0 .. Radix |->
                    IF d = 0 THEN 0 ELSE IF d - 1 \in Buckets THEN w[d - 1] + Counts[d - 1] ELSE w[d - 1]]
           f == [d \in 0 .. Radix |-> Cardinality(Below(D, n, d))]
<1>2. ASSUME NEW d \in 0 .. Radix
      PROVE  f[d] = IF d = 0 THEN 0 ELSE IF d - 1 \in Buckets THEN f[d - 1] + Counts[d - 1] ELSE f[d - 1]
  <2>1. CASE d = 0
    BY <1>1, <2>1, BelowGrows
  <2>2. CASE d # 0
    <3>1. d - 1 \in Nat /\ d - 1 \in Digits /\ d - 1 \in 0 .. Radix /\ (d - 1) + 1 = d
      BY <2>2 DEF Digits
    <3>2. PICK e \in Nat : e = d - 1
      BY <3>1
    <3>3. /\ Cardinality(Below(D, n, e)) \in Nat
          /\ Cardinality(Below(D, n, e + 1)) = Cardinality(Below(D, n, e)) + Cardinality(With(D, n, e))
      BY <1>1, BelowGrows
    <3>4. e + 1 = d /\ f[d] = Cardinality(Below(D, n, d)) /\ f[e] = Cardinality(Below(D, n, e))
      BY <3>1, <3>2
    <3>5. Counts[e] = Cardinality(With(D, n, e))
      BY <3>1, <3>2
    <3>6. CASE e \in Buckets
      <4>1. f[d] = f[e] + Counts[e]
        BY <3>3, <3>4, <3>5, Zenon
      <4> QED
        BY <4>1, <3>6, <2>2, <3>2
    <3>7. CASE e \notin Buckets
      <4>1. With(D, n, e) = {}
        BY <3>7 DEF With
      <4>2. Cardinality(With(D, n, e)) = 0
        BY <4>1, FS_EmptySet
      <4>3. f[d] = f[e]
        BY <3>3, <3>4, <4>2
      <4> QED
        BY <4>3, <3>7, <2>2, <3>2
    <3> QED
      BY <3>6, <3>7
  <2> QED
    BY <2>1, <2>2
<1>3. IsOffsets(f)
  <2> DEFINE g == [d \in 0 .. Radix |->
                     IF d = 0 THEN 0 ELSE IF d - 1 \in Buckets THEN f[d - 1] + Counts[d - 1] ELSE f[d - 1]]
  <2>1. \A d \in 0 .. Radix : f[d] = g[d]
    BY <1>2
  <2> QED
    BY <2>1
<1>4. IsOffsets(WriteOffset)
  <2>1. WriteOffset = CHOOSE w : IsOffsets(w)
    BY DEF WriteOffset
  <2> HIDE DEF IsOffsets
  <2> QED
    BY <1>3, <2>1
<1>5. \A d \in 0 .. Radix :
        WriteOffset[d] = IF d = 0 THEN 0
                         ELSE IF d - 1 \in Buckets THEN WriteOffset[d - 1] + Counts[d - 1] ELSE WriteOffset[d - 1]
  BY <1>4
<1> HIDE DEF IsOffsets, f
<1> DEFINE S == {k \in Nat : k <= Radix => WriteOffset[k] = f[k]}
<1>6. 0 \in S
  <2>1. 0 \in 0 .. Radix
    OBVIOUS
  <2> QED
    BY <1>2, <1>5, <2>1
<1>7. ASSUME NEW k \in Nat, k \in S
      PROVE  k + 1 \in S
  <2> SUFFICES ASSUME k + 1 <= Radix
               PROVE  WriteOffset[k + 1] = f[k + 1]
    OBVIOUS
  <2>1. k + 1 \in 0 .. Radix /\ k + 1 # 0 /\ (k + 1) - 1 = k /\ WriteOffset[k] = f[k]
    BY <1>7
  <2>2. WriteOffset[k + 1] = IF k \in Buckets THEN WriteOffset[k] + Counts[k] ELSE WriteOffset[k]
    BY <2>1, <1>5
  <2>3. f[k + 1] = IF k \in Buckets THEN f[k] + Counts[k] ELSE f[k]
    BY <2>1, <1>2
  <2> QED
    BY <2>1, <2>2, <2>3, Zenon
<1>8. \A k \in Nat : k \in S
  <2> HIDE DEF S
  <2> QED
    BY <1>6, <1>7, Climb
<1>9. \A d \in 0 .. Radix : WriteOffset[d] = f[d]
  BY <1>8
<1> QED
  BY <1>9 DEF f

\* Every entry goes where a stable sort by digit puts it.
LEMMA PositionIsRank ==
  ASSUME SizeOf(range) \in Nat, Counted,
         \A o \in Offsets(range) : DigitAt(o) \in Digits /\ DigitAt(o) \in Buckets
  PROVE  /\ DigitsOf \in [0 .. SizeOf(range) - 1 -> Nat]
         /\ \A o \in Offsets(range) : Position(o) = RankIn(DigitsOf, SizeOf(range), o)
<1> USE RadixAssumption
<1>1. PICK n \in Nat : n = SizeOf(range)
  OBVIOUS
<1>2. Offsets(range) = 0 .. n - 1
  BY <1>1 DEF Offsets
<1>3. PICK D \in [0 .. n - 1 -> Digits] : D = DigitsOf /\ \A o \in 0 .. n - 1 : D[o] = DigitAt(o)
  <2>1. DigitsOf = [o \in 0 .. n - 1 |-> DigitAt(o)]
    BY <1>2 DEF DigitsOf
  <2>2. \A o \in 0 .. n - 1 : DigitAt(o) \in Digits
    BY <1>2
  <2>3. DigitsOf \in [0 .. n - 1 -> Digits] /\ \A o \in 0 .. n - 1 : DigitsOf[o] = DigitAt(o)
    BY <2>1, <2>2
  <2> QED
    BY <2>3
<1>4. D \in [0 .. n - 1 -> Nat]
  BY DEF Digits
<1>5. Counts = [d \in Digits |-> Cardinality(With(D, n, d))]
  <2>1. \A d \in Digits : {o \in Offsets(range) : DigitAt(o) = d} = With(D, n, d)
    BY <1>2, <1>3 DEF With
  <2> QED
    BY <2>1 DEF Counted
<1>6. \A o \in 0 .. n - 1 : D[o] \in Buckets
  BY <1>2, <1>3
<1>7. \A d \in 0 .. Radix : WriteOffset[d] = Cardinality(Below(D, n, d))
  BY <1>5, <1>6, WriteOffsetIs
<1>8. ASSUME NEW o \in 0 .. n - 1
      PROVE  Position(o) = RankIn(D, n, o)
  <2>1. DigitAt(o) = D[o] /\ D[o] \in Buckets /\ D[o] \in 0 .. Radix
    BY <1>3, <1>6 DEF Digits
  <2>2. BucketStart(DigitAt(o)) = Cardinality(Below(D, n, D[o]))
    BY <2>1, <1>7 DEF BucketStart
  <2>3. {p \in 0 .. o - 1 : DigitAt(p) = DigitAt(o)} = {p \in 0 .. o - 1 : D[p] = D[o]}
    BY <1>3
  <2>4. SameDigitBefore(o) = Cardinality({p \in 0 .. o - 1 : D[p] = D[o]})
    BY <2>3 DEF SameDigitBefore
  <2>5. RankIn(D, n, o) = Cardinality(Below(D, n, D[o])) + Cardinality({p \in 0 .. o - 1 : D[p] = D[o]})
    BY <1>4, RankByCounts
  <2> QED
    BY <2>2, <2>4, <2>5, Zenon DEF Position
<1> QED
  BY <1>1, <1>2, <1>3, <1>4, <1>8

\* While a pass uses the workspace's counters, every bucket it has not marked
\* as touched is still zero, so that clearing the touched ones is enough.
UntouchedAreZero(counters) ==
  /\ counters = [counts |-> counters.counts, touched |-> counters.touched]
  /\ DOMAIN counters.counts = Digits
  /\ \A d \in Digits : d \in counters.touched \/ counters.counts[d] = 0

\* Between two passes they are clear, a pass with local counters leaves them
\* so, and what a pass is to scatter it has counted.
CountersInv ==
  /\ DOMAIN scratch = {"touched", "full"}
  /\ UntouchedAreZero(scratch["touched"])
  /\ CountersAreClear
  /\ Kind = "full" => scratch["touched"] = Clear
  /\ pc = "scatter" /\ Kind = "touched" =>
       \A o \in Offsets(range) : DigitAt(o) \in scratch["touched"].touched

\* New counters have counted nothing.
LEMMA ClearIsUntouched == UntouchedAreZero(Clear)
BY DEF UntouchedAreZero, Clear

\* The workspace starts with new counters.
LEMMA InitCountersInv == Init => CountersInv
<1> SUFFICES ASSUME Init PROVE CountersInv
  OBVIOUS
<1>1. scratch = [kind \in {"touched", "full"} |-> Clear]
  BY DEF Init
<1>0. pc = "ready"
  BY DEF Init
<1>2. DOMAIN scratch = {"touched", "full"} /\ scratch["touched"] = Clear
  BY <1>1
<1> QED
  BY <1>0, <1>2, ClearIsUntouched DEF CountersInv, CountersAreClear

\* Steps that leave the counters alone and count nothing.
LEMMA OtherStepsKeep ==
  ASSUME CountersInv, scratch' = scratch, pc \notin {"scatter", "clear"}, pc' # "scatter"
  PROVE  CountersInv'
<1>1. scratch["touched"] = Clear
  BY DEF CountersInv, CountersAreClear
<1> QED
  BY <1>1 DEF CountersInv, CountersAreClear, UntouchedAreZero, Clear, Digits

\* Counting marks every bucket it raises.
LEMMA CountDigitsKeeps ==
  ASSUME CountersInv, CountDigits
  PROVE  CountersInv'
<1>1. scratch["touched"] = Clear /\ DOMAIN scratch = {"touched", "full"}
  BY DEF CountersInv, CountersAreClear, CountDigits
<1>2. Kind' = Kind /\ pc' = "scatter"
  BY DEF CountDigits, Kind, UsesWorkspaceCounters, SizeOf
<1> DEFINE seen == {DigitAt(o) : o \in Offsets(range)}
           raised(d) == {o \in Offsets(range) : DigitAt(o) = d}
           after == [counts  |-> [d \in Digits |-> Reset.counts[d] + Cardinality(raised(d))],
                     touched |-> IF Kind = "full" THEN {} ELSE Reset.touched \cup seen]
<1>3. scratch' = [scratch EXCEPT ![Kind] = after]
  BY DEF CountDigits
<1>4. DOMAIN scratch' = {"touched", "full"}
  BY <1>1, <1>3
<1>5. CASE Kind = "full"
  <2>1. scratch'["touched"] = Clear
    BY <1>1, <1>3, <1>5
  <2> QED
    BY <2>1, <1>1, <1>2, <1>4, <1>5 DEF CountersInv, CountersAreClear, UntouchedAreZero, Digits, Clear
<1>6. CASE Kind = "touched"
  <2>1. Reset = Clear
    BY <1>1, <1>6 DEF Reset
  <2>2. scratch'["touched"] = after
    BY <1>1, <1>3, <1>6
  <2>3. DOMAIN after.counts = Digits /\ after.touched = seen
    BY <1>6, <2>1 DEF Clear
  <2>4. ASSUME NEW d \in Digits
        PROVE  d \in seen \/ after.counts[d] = 0
    <3>1. CASE d \notin seen
      <4>1. raised(d) = {}
        BY <3>1
      <4>2. after.counts[d] = Clear.counts[d] + 0
        BY <4>1, <2>1, FS_EmptySet
      <4> QED
        BY <4>2 DEF Clear
    <3> QED
      BY <3>1
  <2>5. UntouchedAreZero(after)
    BY <2>3, <2>4 DEF UntouchedAreZero
  <2>6. \A o \in Offsets(range) : DigitAt(o)' \in seen
    BY DEF CountDigits, DigitAt, WordByte
  <2>7. Offsets(range)' = Offsets(range)
    BY DEF CountDigits, Offsets, SizeOf
  <2> QED
    BY <2>2, <2>3, <2>5, <2>6, <2>7, <1>2, <1>4, <1>6 DEF CountersInv, CountersAreClear, UntouchedAreZero
<1> QED
  BY <1>5, <1>6 DEF Kind

\* Scattering moves only the offsets of buckets that were counted.
LEMMA ScatterPassKeeps ==
  ASSUME CountersInv, ScatterPass
  PROVE  CountersInv'
<1>1. Kind' = Kind /\ pc' = "clear"
  BY DEF ScatterPass, Kind, UsesWorkspaceCounters, SizeOf
<1> DEFINE counted(d) == {o \in Offsets(range) : DigitAt(o) = d}
           after == [d \in Digits |-> BucketStart(d) + Cardinality(counted(d))]
<1>2. scratch' = [scratch EXCEPT ![Kind].counts = after]
  BY DEF ScatterPass
<1>3. DOMAIN scratch' = {"touched", "full"}
  BY <1>2 DEF CountersInv
<1>4. CASE Kind = "full"
  <2>1. scratch'["touched"] = scratch["touched"]
    BY <1>2, <1>4 DEF CountersInv
  <2> QED
    BY <2>1, <1>1, <1>3, <1>4 DEF CountersInv, CountersAreClear, UntouchedAreZero, Digits
<1>5. CASE Kind = "touched"
  <2> DEFINE before == scratch["touched"]
  <2>1. scratch'["touched"] = [before EXCEPT !.counts = after]
    BY <1>2, <1>5 DEF CountersInv
  <2>2. before = [counts |-> before.counts, touched |-> before.touched]
    BY DEF CountersInv, UntouchedAreZero
  <2>3. scratch'["touched"] = [counts |-> after, touched |-> before.touched]
    BY <2>1, <2>2
  <2>4. ASSUME NEW d \in Digits, d \notin before.touched
        PROVE  after[d] = 0
    <3>1. counted(d) = {}
      BY <1>5, <2>4 DEF CountersInv, ScatterPass
    <3>2. Cardinality(counted(d)) = 0
      BY <3>1, FS_EmptySet
    <3>3. BucketStart(d) = before.counts[d]
      BY <1>5, <2>4 DEF BucketStart, Buckets, Counts
    <3>4. before.counts[d] = 0
      BY <2>4 DEF CountersInv, UntouchedAreZero
    <3> QED
      BY <3>2, <3>3, <3>4
  <2>5. UntouchedAreZero([counts |-> after, touched |-> before.touched])
    <3> HIDE DEF counted
    <3> QED  BY <2>4 DEF UntouchedAreZero
  <2> QED
    BY <2>3, <2>5, <1>1, <1>3, <1>5 DEF CountersInv, CountersAreClear, UntouchedAreZero, Digits
<1> QED
  BY <1>4, <1>5 DEF Kind

\* Clearing the touched buckets clears all.
LEMMA EndPassKeeps ==
  ASSUME CountersInv, EndPass
  PROVE  CountersInv'
<1>1. Kind' = Kind /\ pc' # "scatter" /\ scratch' = Cleared
  BY DEF EndPass, Kind, UsesWorkspaceCounters, SizeOf
<1>2. CASE Kind = "full"
  <2>1. scratch' = scratch
    BY <1>1, <1>2 DEF Cleared
  <2> QED
    BY <2>1, <1>1, <1>2 DEF CountersInv, CountersAreClear, UntouchedAreZero, Digits
<1>3. CASE Kind = "touched"
  <2> DEFINE before == scratch["touched"]
             after == [counts  |-> [d \in Digits |-> IF d \in before.touched THEN 0 ELSE before.counts[d]],
                       touched |-> {}]
  <2>1. DOMAIN scratch' = {"touched", "full"} /\ scratch'["touched"] = after
    BY <1>1, <1>3 DEF CountersInv, Cleared
  <2>2. \A d \in Digits : (IF d \in before.touched THEN 0 ELSE before.counts[d]) = 0
    BY DEF CountersInv, UntouchedAreZero
  <2>3. after = Clear
    BY <2>2 DEF Clear
  <2> QED
    BY <2>1, <2>3, <1>1, <1>3, ClearIsUntouched DEF CountersInv, CountersAreClear, UntouchedAreZero, Digits
<1> QED
  BY <1>2, <1>3 DEF Kind

\* New local counters are none of the workspace's.
LEMMA BeginPassesKeeps ==
  ASSUME CountersInv, BeginPasses
  PROVE  CountersInv'
<1>1. pc \notin {"scatter", "clear"} /\ pc' = "count"
  BY DEF BeginPasses
<1>2. scratch["touched"] = Clear
  BY <1>1 DEF CountersInv, CountersAreClear
<1>3. scratch'["touched"] = Clear /\ DOMAIN scratch' = {"touched", "full"}
  BY <1>2 DEF BeginPasses, CountersInv
<1> QED
  BY <1>1, <1>3, ClearIsUntouched DEF CountersInv, CountersAreClear, UntouchedAreZero, Digits

\* No step leaves counts behind that nothing clears.
LEMMA NextKeepsCountersInv ==
  ASSUME CountersInv, [Next]_vars
  PROVE  CountersInv'
<1>1. CASE BeginSort
  BY <1>1, OtherStepsKeep DEF BeginSort
<1>2. CASE SkipRange
  BY <1>2, OtherStepsKeep DEF SkipRange
<1>3. CASE BeginSmall
  BY <1>3, OtherStepsKeep DEF BeginSmall
<1>4. CASE InsertNext
  BY <1>4, OtherStepsKeep DEF InsertNext, workspace
<1>5. CASE EndSmall
  BY <1>5, OtherStepsKeep DEF EndSmall, workspace
<1>6. CASE PassRangeOn
  BY <1>6, OtherStepsKeep DEF PassRangeOn
<1>7. CASE BeginPasses
  BY <1>7, BeginPassesKeeps
<1>8. CASE CountDigits
  BY <1>8, CountDigitsKeeps
<1>9. CASE ScatterPass
  BY <1>9, ScatterPassKeeps
<1>10. CASE EndPass
  BY <1>10, EndPassKeeps
<1>11. CASE WriteOrder
  BY <1>11, OtherStepsKeep DEF WriteOrder
<1>12. CASE EndSort
  BY <1>12, OtherStepsKeep DEF EndSort, workspace
<1>13. CASE Return
  BY <1>13, OtherStepsKeep DEF Return, workspace
<1>14. CASE UNCHANGED vars
  BY <1>14 DEF vars, workspace, CountersInv, CountersAreClear, UntouchedAreZero, Kind, UsesWorkspaceCounters,
               SizeOf, Offsets, DigitAt, WordByte, Digits, Clear
<1> QED
  BY <1>1, <1>2, <1>3, <1>4, <1>5, <1>6, <1>7, <1>8, <1>9, <1>10, <1>11, <1>12, <1>13, <1>14
  DEF Next, Step, SmallStep, ChunkStep, AllSorted


-----------------------------------------------------------------------------
(* The inductive invariant *)

\* By id, and of equal ids the first.
Before(m, n) == id[m] < id[n] \/ (id[m] = id[n] /\ m < n)

Places == 0 .. size - 1
Within(r) == r.begin .. r.end - 1
Apart(r, s) == r.end <= s.begin \/ s.end <= r.begin

\* A range is what the chunks before have left together, in the order it came in.
Agree(list, r) ==
  \A i, j \in Within(r) :
    Leading(traits, id[list[i]], r.chunk * ChunkBytes) = Leading(traits, id[list[j]], r.chunk * ChunkBytes)
InTurn(list, r) == \A i, j \in Within(r) : i < j => list[i] < list[j]

\* Two entries are in place unless a range has both.
Settled(list, open, i, j) ==
  Before(list[i], list[j]) \/ \E k \in 1 .. Len(open) : i \in Within(open[k]) /\ j \in Within(open[k])
IsStack(list, open) ==
  /\ open \in Seq(Ranges)
  /\ \A k \in 1 .. Len(open) : Agree(list, open[k])
  /\ \A k, l \in 1 .. Len(open) : k # l => Apart(open[k], open[l])
  /\ \A i, j \in Places : i < j => Settled(list, open, i, j)

\* The waiting ranges and the one being sorted.
Open == IF pc = "pop" THEN pending ELSE Append(pending, range)

Passes == {"count", "scatter", "clear", "write"}
IsActive == pc \in {"pop", "small"} \cup Passes

StackInv ==
  /\ traits \in ForestTraits
  /\ size \in Nat /\ id \in [Places -> IdsOf(traits)] /\ order \in [Places -> Places]
  /\ pending \in Seq(Ranges) /\ (pc # "pop" => range \in Ranges)
  /\ IsStack(order, Open)
  /\ \A k \in 1 .. Len(pending) : InTurn(order, pending[k])

\* The entries inserted so far are in place among themselves, the others where
\* they were, and the cached keys beside their entries.
InsertionInv ==
  /\ rangeIdx \in range.begin + 1 .. range.end
  /\ \A i, j \in range.begin .. rangeIdx - 1 : i < j => Before(order[i], order[j])
  /\ \A i \in Within(range), j \in rangeIdx .. range.end - 1 : i < j => order[i] < order[j]
  /\ keys = IF ShouldCacheChunkIds(traits)
              THEN [o \in Offsets(range) |-> CachedId(traits, id[order[range.begin + o]])] ELSE <<>>

\* The entries of the range, sorted by the last so many bytes of their chunks.
Low(chunk, passes) == chunk % Power[passes]
InLine(x, y, passes) ==
  \/ Low(x.chunk, passes) < Low(y.chunk, passes)
  \/ Low(x.chunk, passes) = Low(y.chunk, passes) /\ x.index < y.index
IsEntry(r, x) ==
  /\ \E p \in Within(r) : x.index = order[p]
  /\ x.chunk = ChunkOf(id[x.index], r.chunk) /\ x.chunk \in 0 .. Power[ChunkBytes] - 1
IsArranged(r, entries, passes) ==
  /\ DOMAIN entries = Offsets(r)
  /\ \A o \in Offsets(r) : IsEntry(r, entries[o])
  /\ \A o, p \in Offsets(r) : o < p => InLine(entries[o], entries[p], passes)

PassInv ==
  /\ SizeOf(range) \in Nat
  /\ bytePass \in Nat /\ IF pc = "write" THEN bytePass = ChunkBytes ELSE bytePass < ChunkBytes
  /\ IsArranged(range, source, bytePass)
  /\ pc = "scatter" => Counted
  /\ pc = "clear" => IsArranged(range, destination, bytePass + 1)

SortInv ==
  /\ traits \in TraitsKinds
  /\ IsActive => StackInv
  /\ pc = "small" => InsertionInv
  /\ pc \in Passes => PassInv
  /\ SortedStably
-----------------------------------------------------------------------------
(* Stacks of ranges *)

\* The bounds of a range are places, its chunk one the ids have.
LEMMA RangeTypes ==
  ASSUME NEW r \in Ranges, size \in Nat, traits \in ForestTraits
  PROVE  /\ r.begin \in Nat /\ r.end \in Nat /\ r.end <= size /\ r.chunk \in Nat /\ r.chunk < Chunks
         /\ Within(r) \subseteq Places /\ \A i \in Within(r) : i \in Nat
<1>1. Chunks \in Nat
  BY WidthAssumption, ChunkNumbers DEF Chunks
<1>2. r.begin \in Nat /\ r.end \in Nat /\ r.end <= size /\ r.chunk \in Nat /\ r.chunk < Chunks
  BY <1>1 DEF Ranges
<1> QED
  BY <1>2 DEF Within, Places

\* What is inside a range is apart from what the range is apart from.
LEMMA RangesInside ==
  ASSUME NEW r \in Ranges, NEW s \in Ranges, NEW m \in Ranges, size \in Nat, traits \in ForestTraits,
         Apart(s, r), r.begin <= m.begin, m.end <= r.end
  PROVE  Apart(s, m) /\ Apart(m, s)
<1> PICK rb \in Nat, re \in Nat : rb = r.begin /\ re = r.end
  BY RangeTypes
<1> PICK sb \in Nat, se \in Nat : sb = s.begin /\ se = s.end
  BY RangeTypes
<1> PICK mb \in Nat, me \in Nat : mb = m.begin /\ me = m.end
  BY RangeTypes
<1>1. (se <= rb \/ re <= sb) /\ rb <= mb /\ me <= re
  BY DEF Apart
<1>2. (se <= mb \/ me <= sb)
  BY <1>1
<1> QED
  BY <1>2 DEF Apart

\* Ranges apart have no place in common.
LEMMA ApartShareNothing ==
  ASSUME NEW r \in Ranges, NEW s \in Ranges, size \in Nat, traits \in ForestTraits, Apart(s, r), NEW i \in Within(s)
  PROVE  i \in Places /\ i \notin Within(r)
<1> PICK rb \in Nat, re \in Nat : rb = r.begin /\ re = r.end
  BY RangeTypes
<1> PICK sb \in Nat, se \in Nat : sb = s.begin /\ se = s.end
  BY RangeTypes
<1>1. (se <= rb \/ re <= sb) /\ i \in sb .. se - 1
  BY DEF Apart, Within
<1>2. i \notin rb .. re - 1
  BY <1>1
<1> QED
  BY <1>2, RangeTypes DEF Within

\* Of a place in another range than its partner, every place of the range is on
\* the same side.
LEMMA SameSide ==
  ASSUME NEW r \in Ranges, size \in Nat, traits \in ForestTraits,
         NEW i \in Within(r), NEW m \in Within(r), NEW j \in Places, j \notin Within(r)
  PROVE  m \in Places /\ i \in Places /\ (i < j => m < j) /\ (j < i => j < m)
<1> PICK rb \in Nat, re \in Nat : rb = r.begin /\ re = r.end
  BY RangeTypes
<1>1. i \in rb .. re - 1 /\ m \in rb .. re - 1 /\ j \notin rb .. re - 1 /\ j \in Nat
  BY DEF Within, Places
<1>2. (i < j => m < j) /\ (j < i => j < m)
  BY <1>1
<1> QED
  BY <1>2, RangeTypes

\* The last range of the stack may give way to others within it.
LEMMA ReplaceLast ==
  ASSUME size \in Nat, traits \in ForestTraits,
         NEW list, NEW open \in Seq(Ranges), NEW r \in Ranges, IsStack(list, Append(open, r)),
         NEW more \in Seq(Ranges),
         \A k \in 1 .. Len(more) : r.begin <= more[k].begin /\ more[k].end <= r.end /\ Agree(list, more[k]),
         \A k, l \in 1 .. Len(more) : k # l => Apart(more[k], more[l]),
         \A i, j \in Within(r) : i < j => Settled(list, more, i, j)
  PROVE  IsStack(list, open \o more)
<1> DEFINE old == Append(open, r)
           new == open \o more
<1>1. /\ Len(open) \in Nat /\ Len(more) \in Nat /\ old \in Seq(Ranges) /\ new \in Seq(Ranges)
      /\ Len(old) = Len(open) + 1 /\ Len(new) = Len(open) + Len(more)
  OBVIOUS
<1>2. \A k \in 1 .. Len(open) : old[k] = open[k] /\ new[k] = open[k] /\ k \in 1 .. Len(old) /\ k \in 1 .. Len(new)
  OBVIOUS
<1>3. old[Len(open) + 1] = r /\ Len(open) + 1 \in 1 .. Len(old)
  OBVIOUS
<1>4. \A m \in 1 .. Len(more) : new[Len(open) + m] = more[m] /\ Len(open) + m \in 1 .. Len(new)
  OBVIOUS
<1>5. \A k \in 1 .. Len(new) : k \in 1 .. Len(open) \/ \E m \in 1 .. Len(more) : k = Len(open) + m
  <2>1. \A k \in 1 .. Len(new) : k \notin 1 .. Len(open) => k - Len(open) \in 1 .. Len(more) /\ k = Len(open) + (k - Len(open))
    BY <1>1
  <2> QED
    BY <2>1
<1>6. \A k \in 1 .. Len(old) : k \in 1 .. Len(open) \/ k = Len(open) + 1
  BY <1>1
<1>s. IsStack(list, old)
  OBVIOUS
<1> HIDE DEF old, new
<1>7. ASSUME NEW k \in 1 .. Len(new)
      PROVE  Agree(list, new[k])
  <2>1. CASE k \in 1 .. Len(open)
    BY <1>s, <1>2, <2>1 DEF IsStack
  <2>2. ASSUME NEW m \in 1 .. Len(more), k = Len(open) + m
        PROVE  Agree(list, new[k])
    BY <1>4, <2>2
  <2> QED
    BY <1>5, <2>1, <2>2
<1>8. \A k \in 1 .. Len(open) : Apart(open[k], r)
  <2>1. \A k \in 1 .. Len(open) : k # Len(open) + 1
    BY <1>1
  <2> QED
    BY <1>s, <1>2, <1>3, <2>1 DEF IsStack
<1>9. ASSUME NEW k \in 1 .. Len(open), NEW m \in 1 .. Len(more)
      PROVE  Apart(open[k], more[m])
  <2>1. open[k] \in Ranges /\ more[m] \in Ranges
    OBVIOUS
  <2>2. r.begin <= more[m].begin /\ more[m].end <= r.end /\ Apart(open[k], r)
    BY <1>8
  <2> QED
    BY <2>1, <2>2, RangesInside
<1>10. ASSUME NEW k \in 1 .. Len(new), NEW l \in 1 .. Len(new), k # l
       PROVE  Apart(new[k], new[l])
  <2>1. CASE k \in 1 .. Len(open) /\ l \in 1 .. Len(open)
    BY <1>s, <1>2, <1>10, <2>1 DEF IsStack
  <2>2. ASSUME NEW m \in 1 .. Len(more), l = Len(open) + m, k \in 1 .. Len(open)
        PROVE  Apart(new[k], new[l])
    BY <1>2, <1>4, <1>9, <2>2
  <2>3. ASSUME NEW m \in 1 .. Len(more), k = Len(open) + m, l \in 1 .. Len(open)
        PROVE  Apart(new[k], new[l])
    BY <1>2, <1>4, <1>9, <2>3 DEF Apart
  <2>4. ASSUME NEW m \in 1 .. Len(more), k = Len(open) + m, NEW n \in 1 .. Len(more), l = Len(open) + n
        PROVE  Apart(new[k], new[l])
    BY <1>4, <1>10, <2>4
  <2> QED
    BY <1>5, <2>1, <2>2, <2>3, <2>4
<1>11. ASSUME NEW i \in Places, NEW j \in Places, i < j
       PROVE  Settled(list, new, i, j)
  <2>1. CASE Before(list[i], list[j])
    BY <2>1 DEF Settled
  <2>2. ASSUME NEW k \in 1 .. Len(open), i \in Within(open[k]), j \in Within(open[k])
        PROVE  Settled(list, new, i, j)
    BY <1>2, <2>2 DEF Settled
  <2>3. CASE i \in Within(r) /\ j \in Within(r)
    <3>1. Settled(list, more, i, j)
      BY <1>11, <2>3
    <3>2. ASSUME NEW m \in 1 .. Len(more), i \in Within(more[m]), j \in Within(more[m])
          PROVE  Settled(list, new, i, j)
      BY <1>4, <3>2 DEF Settled
    <3> QED
      BY <3>1, <3>2, <2>1 DEF Settled
  <2>4. Settled(list, old, i, j)
    BY <1>s, <1>11 DEF IsStack
  <2>5. ASSUME NEW k \in 1 .. Len(old), i \in Within(old[k]), j \in Within(old[k])
        PROVE  Settled(list, new, i, j)
    BY <1>2, <1>3, <1>6, <2>2, <2>3, <2>5
  <2> QED
    BY <2>1, <2>4, <2>5 DEF Settled
<1>12. IsStack(list, new)
  BY <1>1, <1>7, <1>10, <1>11 DEF IsStack
<1> QED
  BY <1>12 DEF new

\* What is done within the last range disturbs no other.
LEMMA RearrangeLast ==
  ASSUME size \in Nat, traits \in ForestTraits, id \in [Places -> Nat],
         NEW list \in [Places -> Places], NEW after \in [Places -> Places],
         NEW open \in Seq(Ranges), NEW r \in Ranges, IsStack(list, Append(open, r)),
         \A k \in 1 .. Len(open) : InTurn(list, open[k]),
         \A i \in Places : i \notin Within(r) => after[i] = list[i],
         \A i \in Within(r) : \E j \in Within(r) : after[i] = list[j]
  PROVE  IsStack(after, Append(open, r)) /\ \A k \in 1 .. Len(open) : InTurn(after, open[k])
<1> DEFINE old == Append(open, r)
<1>1. Len(open) \in Nat /\ old \in Seq(Ranges) /\ Len(old) = Len(open) + 1
  OBVIOUS
<1>2. \A k \in 1 .. Len(open) : old[k] = open[k] /\ k \in 1 .. Len(old) /\ k # Len(old) /\ open[k] \in Ranges
  OBVIOUS
<1>3. old[Len(old)] = r /\ Len(old) \in 1 .. Len(old)
  OBVIOUS
<1>4. \A k \in 1 .. Len(old) : k \in 1 .. Len(open) \/ k = Len(old)
  BY <1>1
<1>s. IsStack(list, old)
  OBVIOUS
<1> HIDE DEF old
<1>5. ASSUME NEW k \in 1 .. Len(open)
      PROVE  \A i \in Within(open[k]) : i \in Places /\ i \notin Within(r) /\ after[i] = list[i]
  <2>1. Apart(open[k], r)
    BY <1>s, <1>2, <1>3 DEF IsStack
  <2>2. \A i \in Within(open[k]) : i \in Places /\ i \notin Within(r)
    BY <1>2, <2>1, ApartShareNothing
  <2> QED
    BY <2>2
<1>6. ASSUME NEW k \in 1 .. Len(old)
      PROVE  Agree(after, old[k])
  <2>1. Agree(list, old[k])
    BY <1>s DEF IsStack
  <2>2. \A i \in Within(old[k]) : \E j \in Within(old[k]) : after[i] = list[j]
    BY <1>2, <1>3, <1>4, <1>5
  <2> QED
    BY <2>1, <2>2 DEF Agree
<1>7. ASSUME NEW k \in 1 .. Len(open)
      PROVE  InTurn(after, open[k])
  BY <1>5 DEF InTurn
<1>8. ASSUME NEW i \in Places, NEW j \in Places, i < j
      PROVE  Settled(after, old, i, j)
  <2>2. \A m, n \in Places : m < n => Settled(list, old, m, n)
    BY <1>s DEF IsStack
  <2>3. ASSUME NEW m \in Places, NEW n \in Places, m < n, NEW k \in 1 .. Len(open),
               m \in Within(open[k]), n \in Within(open[k])
        PROVE  m \notin Within(r) /\ n \notin Within(r)
    BY <1>5, <2>3
  <2>4. CASE i \in Within(r) /\ j \in Within(r)
    BY <1>3, <2>4 DEF Settled
  <2>5. CASE i \in Within(r) /\ j \notin Within(r)
    <3>1. PICK m \in Within(r) : after[i] = list[m]
      BY <2>5
    <3>2. m \in Places /\ m < j
      BY <1>8, <2>5, SameSide
    <3>3. Settled(list, old, m, j)
      BY <2>2, <3>2
    <3>4. Before(list[m], list[j])
      BY <1>2, <1>3, <1>4, <2>3, <2>5, <3>1, <3>2, <3>3 DEF Settled
    <3>5. after[j] = list[j]
      BY <2>5
    <3> QED
      BY <3>1, <3>4, <3>5 DEF Settled
  <2>6. CASE i \notin Within(r) /\ j \in Within(r)
    <3>1. PICK m \in Within(r) : after[j] = list[m]
      BY <2>6
    <3>2. m \in Places /\ i < m
      BY <1>8, <2>6, SameSide
    <3>3. Settled(list, old, i, m)
      BY <2>2, <3>2
    <3>4. Before(list[i], list[m])
      BY <1>2, <1>3, <1>4, <2>3, <2>6, <3>1, <3>2, <3>3 DEF Settled
    <3>5. after[i] = list[i]
      BY <2>6
    <3> QED
      BY <3>1, <3>4, <3>5 DEF Settled
  <2>7. CASE i \notin Within(r) /\ j \notin Within(r)
    <3>1. after[i] = list[i] /\ after[j] = list[j]
      BY <2>7
    <3>2. Settled(list, old, i, j)
      BY <1>8, <2>2
    <3> QED
      BY <3>1, <3>2 DEF Settled
  <2> QED
    BY <2>4, <2>5, <2>6, <2>7
<1>9. IsStack(after, old)
  BY <1>s, <1>1, <1>6, <1>8 DEF IsStack
<1> QED
  BY <1>7, <1>9 DEF old
-----------------------------------------------------------------------------
(* Chunks of a range *)

\* The chunk an entry is made with is that chunk of its id, cached or not.
LEMMA ChunkOfIs ==
  ASSUME traits \in ForestTraits, NEW i \in Nat, NEW c \in Nat, c < Chunks
  PROVE  IsChunk(traits, i, ChunkBytes, c, ChunkOf(i, c))
<1>1. CASE joins /\ ShouldCacheChunkIds(traits)
  BY <1>1, WidthAssumption, CachedChunkIs DEF Chunks, ChunkOf
<1>2. CASE ~(joins /\ ShouldCacheChunkIds(traits))
  BY <1>2, WidthAssumption, DirectChunkIs DEF Chunks, ChunkOf
<1> QED
  BY <1>1, <1>2

\* Of two ids no chunk before has told apart, the next one may: what it leaves
\* together agrees in more bytes, in all of them when there is no next one.
LEMMA ChunksTellApart ==
  ASSUME traits \in ForestTraits, NEW x \in IdsOf(traits), NEW y \in IdsOf(traits), NEW c \in Nat, c < Chunks,
         Leading(traits, x, c * ChunkBytes) = Leading(traits, y, c * ChunkBytes)
  PROVE  /\ ChunkOf(x, c) \in 0 .. Power[ChunkBytes] - 1
         /\ ChunkOf(x, c) < ChunkOf(y, c) => x < y
         /\ ChunkOf(x, c) = ChunkOf(y, c) =>
              /\ Leading(traits, x, (c + 1) * ChunkBytes) = Leading(traits, y, (c + 1) * ChunkBytes)
              /\ ~(c + 1 < Chunks) => x = y
<1> USE WidthAssumption
<1>1. x \in Nat /\ y \in Nat /\ traits.idBytes \in Nat /\ c + 1 \in Nat
  BY IdsAreNatural
<1>2. /\ IsChunk(traits, x, ChunkBytes, c, ChunkOf(x, c))
      /\ IsChunk(traits, y, ChunkBytes, c, ChunkOf(y, c))
  BY <1>1, ChunkOfIs
<1>3. ChunkOf(x, c) \in 0 .. Power[ChunkBytes] - 1
  BY <1>2 DEF IsChunk, Spells
<1>4. (c + 1) * ChunkBytes \in Nat
  BY <1>1
<1>5. ChunkOf(x, c) < ChunkOf(y, c) => x < y
  <2>1. ChunkOf(x, c) < ChunkOf(y, c) =>
          Leading(traits, x, (c + 1) * ChunkBytes) < Leading(traits, y, (c + 1) * ChunkBytes)
    BY <1>1, <1>2, ChunkDecides
  <2>2. Leading(traits, x, (c + 1) * ChunkBytes) < Leading(traits, y, (c + 1) * ChunkBytes) => x < y
    BY <1>1, <1>4, LeadingOrders
  <2> QED
    BY <2>1, <2>2
<1>6. ChunkOf(x, c) = ChunkOf(y, c) =>
        Leading(traits, x, (c + 1) * ChunkBytes) = Leading(traits, y, (c + 1) * ChunkBytes)
  <2> SUFFICES ASSUME ChunkOf(x, c) = ChunkOf(y, c)
               PROVE  Leading(traits, x, (c + 1) * ChunkBytes) = Leading(traits, y, (c + 1) * ChunkBytes)
    OBVIOUS
  <2>1. IsChunk(traits, y, ChunkBytes, c, ChunkOf(x, c))
    BY <1>2
  <2> QED
    BY <2>1, <1>1, <1>2, ChunkKeeps
<1>7. ~(c + 1 < Chunks) => traits.idBytes <= (c + 1) * ChunkBytes
  <2>1. c + 1 < Chunks <=> (c + 1) * ChunkBytes < traits.idBytes
    BY <1>1, ChunkNumbers DEF Chunks
  <2> QED
    BY <2>1, <1>1, <1>4
<1>8. ASSUME Leading(traits, x, (c + 1) * ChunkBytes) = Leading(traits, y, (c + 1) * ChunkBytes),
             traits.idBytes <= (c + 1) * ChunkBytes
      PROVE  x = y
  <2> PICK b \in Nat : b = (c + 1) * ChunkBytes
    BY <1>4
  <2>1. Leading(traits, x, b) = Leading(traits, y, b) /\ traits.idBytes <= b
    BY <1>8
  <2> QED
    BY <2>1, <1>1, LeadingOrders
<1> QED
  BY <1>3, <1>5, <1>6, <1>7, <1>8

\* What one byte more adds to the last bytes of a chunk.
LEMMA LowStep ==
  ASSUME NEW x \in Nat, NEW b \in Nat
  PROVE  /\ WordByte(x, b) \in 0 .. Radix - 1 /\ Low(x, b) \in 0 .. Power[b] - 1 /\ Power[b] \in Nat \ {0}
         /\ Low(x, b + 1) = Power[b] * WordByte(x, b) + Low(x, b)
<1> USE RadixAssumption
<1>1. PICK p \in Nat \ {0} : p = Power[b]
  BY PowersArePositive
<1>2. Power[b + 1] = p * Radix
  BY <1>1, PowerSteps
<1>3. PICK q \in Nat : q = x \div p
  BY QuotientOf
<1>4. PICK rest \in 0 .. p - 1 : rest = x % p
  BY QuotientOf
<1>5. x = p * q + rest
  BY <1>3, <1>4, QuotientOf
<1>6. PICK u \in Nat : u = q \div Radix
  BY QuotientOf
<1>7. PICK d \in 0 .. Radix - 1 : d = q % Radix
  BY QuotientOf
<1>8. q = Radix * u + d
  BY <1>6, <1>7, QuotientOf
<1>9. WordByte(x, b) = d /\ Low(x, b) = rest
  BY <1>1, <1>3, <1>4, <1>7, Zenon DEF WordByte, Low
<1>10. p * d + rest \in 0 .. p * Radix - 1
  <2>1. d <= Radix - 1 /\ rest <= p - 1 /\ p * d \in Nat
    OBVIOUS
  <2>2. p * d <= p * (Radix - 1)
    BY <2>1
  <2> QED
    BY <2>1, <2>2
<1>11. x = (p * Radix) * u + (p * d + rest)
  BY <1>5, <1>8
<1>12. p * Radix \in Nat \ {0}
  OBVIOUS
<1>13. x % (p * Radix) = p * d + rest
  <2> PICK m \in Nat \ {0} : m = p * Radix
    BY <1>12
  <2> PICK s \in 0 .. m - 1 : s = p * d + rest
    BY <1>10
  <2>1. (m * u + s) % m = s
    BY QuotientIs
  <2>2. x = m * u + s
    BY <1>11
  <2> QED
    BY <2>1, <2>2, Zenon
<1>14. Low(x, b + 1) = p * d + rest
  BY <1>2, <1>13, Zenon DEF Low
<1>15. Low(x, b + 1) = Power[b] * WordByte(x, b) + Low(x, b)
  BY <1>1, <1>9, <1>14, Zenon
<1>16. WordByte(x, b) \in 0 .. Radix - 1 /\ Low(x, b) \in 0 .. Power[b] - 1 /\ Power[b] \in Nat \ {0}
  BY <1>1, <1>9
<1> QED
  BY <1>15, <1>16, Zenon

\* A pass goes by its byte, and by what the passes before went by where the
\* bytes are equal.
LEMMA ByteDecides ==
  ASSUME NEW x \in Nat, NEW y \in Nat, NEW b \in Nat
  PROVE  /\ WordByte(x, b) < WordByte(y, b) => Low(x, b + 1) < Low(y, b + 1)
         /\ WordByte(x, b) = WordByte(y, b) /\ Low(x, b) < Low(y, b) => Low(x, b + 1) < Low(y, b + 1)
         /\ WordByte(x, b) = WordByte(y, b) /\ Low(x, b) = Low(y, b) => Low(x, b + 1) = Low(y, b + 1)
<1>1. PICK p \in Nat \ {0} : p = Power[b]
  BY LowStep
<1>2. PICK d \in Nat, r \in 0 .. p - 1 : d = WordByte(x, b) /\ r = Low(x, b)
  <2>1. WordByte(x, b) \in 0 .. Radix - 1 /\ Low(x, b) \in 0 .. Power[b] - 1
    BY LowStep
  <2> QED
    BY <2>1, <1>1, RadixAssumption
<1>3. PICK e \in Nat, s \in 0 .. p - 1 : e = WordByte(y, b) /\ s = Low(y, b)
  <2>1. WordByte(y, b) \in 0 .. Radix - 1 /\ Low(y, b) \in 0 .. Power[b] - 1
    BY LowStep
  <2> QED
    BY <2>1, <1>1, RadixAssumption
<1>4. Low(x, b + 1) = p * d + r
  <2>1. Low(x, b + 1) = Power[b] * WordByte(x, b) + Low(x, b)
    BY LowStep
  <2> QED
    BY <2>1, <1>1, <1>2, Zenon
<1>5. Low(y, b + 1) = p * e + s
  <2>1. Low(y, b + 1) = Power[b] * WordByte(y, b) + Low(y, b)
    BY LowStep
  <2> QED
    BY <2>1, <1>1, <1>3, Zenon
<1>6. p * d \in Nat /\ p * e \in Nat
  OBVIOUS
<1>7. d < e => p * d + r < p * e + s
  <2> SUFFICES ASSUME d < e PROVE p * d + r < p * e + s
    OBVIOUS
  <2>1. d * p + p <= e * p
    BY ProductsRise
  <2> QED
    BY <2>1, <1>6
<1>8. d = e /\ r < s => p * d + r < p * e + s
  BY <1>6
<1> QED
  BY <1>2, <1>3, <1>4, <1>5, <1>7, <1>8, Zenon
-----------------------------------------------------------------------------
(* The passes *)

\* Entries stay arranged while nothing they depend on changes.
LEMMA ArrangedStays ==
  ASSUME UNCHANGED <<traits, joins, id, order>>, NEW r, NEW entries, NEW passes, IsArranged(r, entries, passes)
  PROVE  IsArranged(r, entries, passes)'
BY DEF IsArranged, IsEntry, InLine, Low, Within, Offsets, SizeOf, ChunkOf

\* Counting arranges nothing and counts every entry of the pass.
LEMMA CountDigitsCounts ==
  ASSUME CountersInv, PassInv, CountDigits
  PROVE  PassInv'
<1>1. scratch["touched"] = Clear /\ DOMAIN scratch = {"touched", "full"}
  BY DEF CountersInv, CountersAreClear, CountDigits
<1>2. Kind' = Kind /\ Kind \in {"touched", "full"} /\ pc = "count" /\ pc' = "scatter"
  BY DEF CountDigits, Kind, UsesWorkspaceCounters, SizeOf
<1>3. Reset = Clear
  BY <1>1, <1>2 DEF Reset
<1> DEFINE counted(d) == Cardinality({o \in Offsets(range) : DigitAt(o) = d})
<1>4. Counts' = [d \in Digits |-> Reset.counts[d] + counted(d)]
  BY <1>1, <1>2 DEF CountDigits, Counts
<1>5. \A d \in Digits : Reset.counts[d] + counted(d) = counted(d)
  <2>1. SUFFICES ASSUME NEW d \in Digits PROVE 0 + counted(d) = counted(d)
    BY <1>3 DEF Clear
  <2>2. SizeOf(range) \in Nat
    BY DEF PassInv
  <2>3. counted(d) \in Nat
    BY <2>2, FiniteParts DEF Offsets
  <2> QED
    BY <2>3
<1>6. Counts' = [d \in Digits |-> counted(d)]
  <2> HIDE DEF counted
  <2> QED
    BY <1>4, <1>5
<1>7. Counted'
  BY <1>6 DEF Counted, CountDigits, Digits, Offsets, SizeOf, DigitAt, WordByte
<1>8. IsArranged(range, source, bytePass)'
  <2>1. UNCHANGED <<traits, joins, id, order, range, source, bytePass>>
    BY DEF CountDigits, client
  <2>2. IsArranged(range, source, bytePass)
    BY DEF PassInv
  <2>3. PICK r, e, b : r = range /\ e = source /\ b = bytePass
    OBVIOUS
  <2>4. IsArranged(r, e, b)'
    BY <2>1, <2>2, <2>3, ArrangedStays
  <2> QED
    BY <2>1, <2>3, <2>4
<1> QED
  BY <1>2, <1>7, <1>8 DEF PassInv, CountDigits, SizeOf

\* Entries in line by so many bytes, and where a sort by the next byte puts them.
PutByRank(n, b, D, entries, after) ==
  /\ \A o \in 0 .. n - 1 : entries[o].chunk \in Nat /\ D[o] = WordByte(entries[o].chunk, b)
  /\ \A o, p \in 0 .. n - 1 : o < p => InLine(entries[o], entries[p], b)
  /\ \A o \in 0 .. n - 1 : after[RankIn(D, n, o)] = entries[o]

\* They are in line by one byte more.
LEMMA RankedIsArranged ==
  ASSUME NEW n \in Nat, NEW b \in Nat, NEW D \in [0 .. n - 1 -> Nat], NEW entries, NEW after,
         PutByRank(n, b, D, entries, after)
  PROVE  /\ \A o \in 0 .. n - 1 : \E p \in 0 .. n - 1 : after[o] = entries[p]
         /\ \A o, p \in 0 .. n - 1 : o < p => InLine(after[o], after[p], b + 1)
<1> USE DEF PutByRank
<1>1. ASSUME NEW x \in 0 .. n - 1, NEW y \in 0 .. n - 1, Sooner(D, x, y)
      PROVE  InLine(entries[x], entries[y], b + 1)
  <2>1. CASE D[x] < D[y]
    <3>1. Low(entries[x].chunk, b + 1) < Low(entries[y].chunk, b + 1)
      BY <2>1, ByteDecides
    <3> QED
      BY <3>1 DEF InLine
  <2>2. CASE D[x] = D[y] /\ x < y
    <3>1. WordByte(entries[x].chunk, b) = WordByte(entries[y].chunk, b)
      BY <2>2, Zenon
    <3>2. InLine(entries[x], entries[y], b)
      BY <2>2
    <3>3. /\ Low(entries[x].chunk, b) < Low(entries[y].chunk, b) =>
               Low(entries[x].chunk, b + 1) < Low(entries[y].chunk, b + 1)
          /\ Low(entries[x].chunk, b) = Low(entries[y].chunk, b) =>
               Low(entries[x].chunk, b + 1) = Low(entries[y].chunk, b + 1)
      BY <3>1, ByteDecides
    <3> QED
      BY <3>2, <3>3 DEF InLine
  <2> QED
    BY <1>1, <2>1, <2>2 DEF Sooner
<1>2. \A r \in 0 .. n - 1 : \E o \in 0 .. n - 1 : RankIn(D, n, o) = r /\ after[r] = entries[o]
  <2>1. \A r \in 0 .. n - 1 : \E o \in 0 .. n - 1 : RankIn(D, n, o) = r
    BY Ranks
  <2> QED
    BY <2>1
<1>3. ASSUME NEW o \in 0 .. n - 1, NEW p \in 0 .. n - 1, o < p
      PROVE  InLine(after[o], after[p], b + 1)
  <2>1. PICK x \in 0 .. n - 1 : RankIn(D, n, x) = o /\ after[o] = entries[x]
    BY <1>2
  <2>2. PICK y \in 0 .. n - 1 : RankIn(D, n, y) = p /\ after[p] = entries[y]
    BY <1>2
  <2>3. Sooner(D, x, y)
    BY <1>3, <2>1, <2>2, Ranks
  <2> QED
    BY <1>1, <2>1, <2>2, <2>3
<1> QED
  BY <1>2, <1>3

\* A scatter pass leaves the entries arranged by one byte more.
LEMMA ScatterPassArranges ==
  ASSUME CountersInv, PassInv, ScatterPass
  PROVE  PassInv'
<1>0. PICK n \in Nat : n = SizeOf(range)
  BY DEF PassInv
<1>1. Offsets(range) = 0 .. n - 1
  BY <1>0 DEF Offsets
<1>2. PICK b \in Nat : b = bytePass
  BY DEF PassInv
<1>3. pc = "scatter" /\ pc' = "clear" /\ IsArranged(range, source, b) /\ Counted /\ b < ChunkBytes
  BY <1>2 DEF ScatterPass, PassInv
<1>4. \A o \in 0 .. n - 1 : source[o].chunk \in Nat
  BY <1>1, <1>3, WidthAssumption, PowersArePositive DEF IsArranged, IsEntry
<1>5. \A o \in 0 .. n - 1 : DigitAt(o) = WordByte(source[o].chunk, b) /\ DigitAt(o) \in Digits
  BY <1>2, <1>4, LowStep DEF DigitAt, Digits
<1>6. \A o \in 0 .. n - 1 : DigitAt(o) \in Buckets
  BY <1>1, <1>3, <1>5 DEF CountersInv, Buckets, Kind
<1>7. PICK D \in [0 .. n - 1 -> Nat] : D = DigitsOf /\ \A o \in 0 .. n - 1 : Position(o) = RankIn(D, n, o)
  BY <1>0, <1>1, <1>3, <1>5, <1>6, PositionIsRank
<1>8. \A o \in 0 .. n - 1 : D[o] = WordByte(source[o].chunk, b)
  BY <1>1, <1>5, <1>7 DEF DigitsOf
<1>9. DOMAIN destination' = 0 .. n - 1 /\ \A o \in 0 .. n - 1 : destination'[RankIn(D, n, o)] = source[o]
  <2>1. destination' = [p \in {RankIn(D, n, o) : o \in 0 .. n - 1} |->
                          source[Max({o \in 0 .. n - 1 : RankIn(D, n, o) = p})]]
    <3>1. {Position(o) : o \in Offsets(range)} = {RankIn(D, n, o) : o \in 0 .. n - 1}
      BY <1>1, <1>7
    <3>2. \A p : {o \in Offsets(range) : Position(o) = p} = {o \in 0 .. n - 1 : RankIn(D, n, o) = p}
      BY <1>1, <1>7
    <3> QED
      BY <3>1, <3>2 DEF ScatterPass
  <2>2. {RankIn(D, n, o) : o \in 0 .. n - 1} = 0 .. n - 1
    <3>1. \A r \in 0 .. n - 1 : \E o \in 0 .. n - 1 : RankIn(D, n, o) = r
      BY Ranks
    <3>2. \A o \in 0 .. n - 1 : RankIn(D, n, o) \in 0 .. n - 1
      BY Ranks
    <3> QED
      BY <3>1, <3>2
  <2>3. ASSUME NEW o \in 0 .. n - 1
        PROVE  destination'[RankIn(D, n, o)] = source[o]
    <3>1. {x \in 0 .. n - 1 : RankIn(D, n, x) = RankIn(D, n, o)} = {o}
      BY Ranks
    <3>2. Max({o}) = o
      BY DEF Max
    <3>3. RankIn(D, n, o) \in 0 .. n - 1
      BY Ranks
    <3> QED
      BY <2>1, <2>2, <3>1, <3>2, <3>3
  <2> QED
    BY <2>1, <2>2, <2>3
<1>10. /\ \A o \in 0 .. n - 1 : \E p \in 0 .. n - 1 : destination'[o] = source[p]
       /\ \A o, p \in 0 .. n - 1 : o < p => InLine(destination'[o], destination'[p], b + 1)
  <2>1. \A o, p \in 0 .. n - 1 : o < p => InLine(source[o], source[p], b)
    BY <1>1, <1>3 DEF IsArranged
  <2>2. PutByRank(n, b, D, source, destination')
    BY <2>1, <1>4, <1>8, <1>9 DEF PutByRank
  <2> QED
    BY <2>2, RankedIsArranged
<1>11. IsArranged(range, destination', b + 1)
  BY <1>1, <1>3, <1>9, <1>10 DEF IsArranged
<1>12. UNCHANGED <<traits, joins, id, order, range, source, bytePass>>
  BY DEF ScatterPass, client
<1>13. IsArranged(range, source, bytePass)' /\ IsArranged(range, destination, bytePass + 1)'
  <2>1. PICK r, e, f, c : r = range /\ e = source /\ f = destination' /\ c = b + 1
    OBVIOUS
  <2>2. IsArranged(r, e, b)' /\ IsArranged(r, f, c)'
    BY <2>1, <1>3, <1>11, <1>12, ArrangedStays
  <2> QED
    BY <2>1, <2>2, <1>2, <1>12
<1> QED
  BY <1>2, <1>3, <1>13 DEF PassInv, ScatterPass, SizeOf

\* Swapping the buffers keeps what the pass has achieved.
LEMMA EndPassGoesOn ==
  ASSUME PassInv, EndPass
  PROVE  PassInv' /\ pc' \in {"count", "write"}
<1>1. UNCHANGED <<traits, joins, id, order, range>> /\ source' = destination /\ bytePass' = bytePass + 1
  BY DEF EndPass, client
<1>2. pc = "clear" /\ pc' = IF bytePass + 1 < ChunkBytes THEN "count" ELSE "write"
  BY DEF EndPass
<1>3. bytePass \in Nat /\ bytePass < ChunkBytes /\ IsArranged(range, destination, bytePass + 1)
  BY <1>2 DEF PassInv
<1>4. PICK r, e, c : r = range /\ e = destination /\ c = bytePass + 1
  OBVIOUS
<1>5. IsArranged(r, e, c)'
  BY <1>1, <1>3, <1>4, ArrangedStays
<1>6. IsArranged(range, source, bytePass)'
  BY <1>1, <1>4, <1>5
<1>7. IF pc' = "write" THEN bytePass' = ChunkBytes ELSE bytePass' < ChunkBytes
  BY <1>1, <1>2, <1>3, WidthAssumption
<1>8. pc' \in {"count", "write"} /\ bytePass' \in Nat /\ SizeOf(range)' \in Nat
  BY <1>1, <1>2, <1>3 DEF PassInv, SizeOf
<1> QED
  BY <1>6, <1>7, <1>8 DEF PassInv
-----------------------------------------------------------------------------
(* Steps between ranges *)

\* A stack stays one while traits and ids do.
LEMMA StackStays ==
  ASSUME UNCHANGED <<traits, size, id>>, NEW list, NEW open, IsStack(list, open)
  PROVE  IsStack(list, open)'
BY DEF IsStack, Agree, Apart, Within, Settled, Before, Places, Ranges, Chunks

\* What a step has to keep for the stack to stay as it should be.
LEMMA NextStack ==
  ASSUME StackInv, UNCHANGED <<traits, size, id>>, order' \in [Places -> Places],
         pending' \in Seq(Ranges), pc' # "pop" => range' \in Ranges, IsStack(order', Open'),
         \A k \in 1 .. Len(pending') : InTurn(order', pending'[k])
  PROVE  StackInv'
<1>1. PICK list, open : list = order' /\ open = Open'
  OBVIOUS
<1>2. IsStack(list, open)'
  BY <1>1, StackStays
<1>3. IsStack(order, Open)'
  BY <1>1, <1>2
<1>4. Places' = Places /\ Ranges' = Ranges /\ IdsOf(traits)' = IdsOf(traits)
  BY DEF Places, Ranges, Chunks
<1>5. \A k \in 1 .. Len(pending') : InTurn(order, pending[k])'
  BY DEF InTurn, Within
<1> QED
  BY <1>3, <1>4, <1>5 DEF StackInv

\* Steps that neither move an entry nor change the stack.
LEMMA SameStack ==
  ASSUME StackInv, UNCHANGED <<traits, size, id, order, pending>>, Open' = Open, pc' # "pop" => range' \in Ranges
  PROVE  StackInv'
BY NextStack DEF StackInv

\* A sequence is its front and its last element.
LEMMA LastOff ==
  ASSUME NEW S, NEW s \in Seq(S), s # << >>
  PROVE  /\ Len(s) \in Nat \ {0} /\ s[Len(s)] \in S
         /\ SubSeq(s, 1, Len(s) - 1) \in Seq(S) /\ Len(SubSeq(s, 1, Len(s) - 1)) = Len(s) - 1
         /\ \A k \in 1 .. Len(s) - 1 : SubSeq(s, 1, Len(s) - 1)[k] = s[k]
         /\ s = Append(SubSeq(s, 1, Len(s) - 1), s[Len(s)])
<1>1. PICK n \in Nat \ {0} : n = Len(s)
  BY EmptySeq
<1>2. \A k \in 1 .. n : s[k] \in S
  BY <1>1, LenProperties
<1> DEFINE front == SubSeq(s, 1, n - 1)
<1>3. front \in Seq(S) /\ Len(front) = n - 1 /\ \A k \in 1 .. n - 1 : front[k] = s[k]
  <2>1. \A k \in 1 .. n - 1 : s[k] \in S
    BY <1>2
  <2>2. n - 1 \in Int /\ 1 \in Int /\ (n - 1) - 1 + 1 = n - 1 /\ (1 <= n - 1 \/ n - 1 = 0)
    OBVIOUS
  <2>3. /\ front \in Seq(S) /\ Len(front) = IF 1 <= n - 1 THEN (n - 1) - 1 + 1 ELSE 0
        /\ \A k \in 1 .. (n - 1) - 1 + 1 : front[k] = s[1 + k - 1]
    BY <2>1, <2>2, SubSeqProperties
  <2> QED
    BY <2>2, <2>3
<1> HIDE DEF front
<1> DEFINE whole == Append(front, s[n])
<1>4. s[n] \in S
  BY <1>2
<1>5. whole \in Seq(S) /\ Len(whole) = n /\ \A k \in 1 .. n : whole[k] = s[k]
  <2>1. /\ whole \in Seq(S) /\ Len(whole) = Len(front) + 1 /\ whole[Len(front) + 1] = s[n]
        /\ \A k \in 1 .. Len(front) : whole[k] = front[k]
    BY <1>3, <1>4, AppendProperties
  <2>2. \A k \in 1 .. n : k = n \/ k \in 1 .. n - 1
    OBVIOUS
  <2> HIDE DEF whole
  <2> QED
    BY <1>3, <2>1, <2>2
<1>6. s = whole
  <2> HIDE DEF whole
  <2> QED
    BY <1>1, <1>5, SeqEqual
<1> QED
  BY <1>1, <1>3, <1>4, <1>6 DEF front

\* The ranges still open are the waiting ones and the one being sorted.
LEMMA Opened ==
  ASSUME StackInv
  PROVE  /\ pc # "pop" => Open = Append(pending, range)
         /\ pc = "pop" => Open = pending
         /\ pc = "pop" /\ pending # <<>> =>
              /\ Top \in Ranges /\ Popped \in Seq(Ranges) /\ pending = Append(Popped, Top)
              /\ InTurn(order, Top)
              /\ \A k \in 1 .. Len(Popped) : InTurn(order, Popped[k])
<1>1. SUFFICES ASSUME pending # <<>>
               PROVE  /\ Top \in Ranges /\ Popped \in Seq(Ranges) /\ pending = Append(Popped, Top)
                      /\ InTurn(order, Top)
                      /\ \A k \in 1 .. Len(Popped) : InTurn(order, Popped[k])
  BY DEF Open
<1>2. pending \in Seq(Ranges) /\ \A k \in 1 .. Len(pending) : InTurn(order, pending[k])
  BY DEF StackInv
<1>3. /\ Len(pending) \in Nat \ {0} /\ Top \in Ranges
      /\ Popped \in Seq(Ranges) /\ Len(Popped) = Len(pending) - 1
      /\ \A k \in 1 .. Len(pending) - 1 : Popped[k] = pending[k]
      /\ pending = Append(Popped, Top)
  BY <1>1, <1>2, LastOff DEF Popped, Top
<1>4. InTurn(order, Top)
  BY <1>2, <1>3 DEF Top
<1>5. \A k \in 1 .. Len(Popped) : k \in 1 .. Len(pending) /\ Popped[k] = pending[k]
  BY <1>3
<1> QED
  BY <1>2, <1>3, <1>4, <1>5

\* A range whose entries are in place leaves the stack.
LEMMA DropLast ==
  ASSUME size \in Nat, traits \in ForestTraits,
         NEW list, NEW open \in Seq(Ranges), NEW r \in Ranges, IsStack(list, Append(open, r)),
         \A i, j \in Within(r) : i < j => Before(list[i], list[j])
  PROVE  IsStack(list, open)
<1>1. << >> \in Seq(Ranges) /\ Len(<< >>) = 0 /\ open \o << >> = open
  OBVIOUS
<1>2. \A i, j \in Within(r) : i < j => Settled(list, << >>, i, j)
  BY DEF Settled
<1>3. IsStack(list, open \o << >>)
  <2>1. \A k \in 1 .. Len(<< >>) : FALSE
    BY <1>1
  <2> DEFINE none == << >>
  <2>2. none \in Seq(Ranges) /\ (\A k \in 1 .. Len(none) : FALSE) /\ \A i, j \in Within(r) : i < j => Settled(list, none, i, j)
    BY <1>1, <1>2, <2>1
  <2> HIDE DEF none
  <2>3. IsStack(list, open \o none)
    BY <2>2, ReplaceLast
  <2> QED
    BY <2>3 DEF none
<1> QED
  BY <1>1, <1>3

\* A range of less than two entries is sorted already.
LEMMA SkipRangeKeeps ==
  ASSUME StackInv, SkipRange
  PROVE  StackInv' /\ pc' = "pop"
<1>1. pc = "pop" /\ pc' = "pop" /\ pending # <<>> /\ UNCHANGED <<traits, size, id, order>> /\ pending' = Popped
  BY DEF SkipRange, client
<1>2. /\ Top \in Ranges /\ Popped \in Seq(Ranges) /\ pending = Append(Popped, Top) /\ Open = pending
      /\ \A k \in 1 .. Len(Popped) : InTurn(order, Popped[k])
  BY <1>1, Opened
<1>3. \A i, j \in Within(Top) : i < j => Before(order[i], order[j])
  <2>1. Top.begin \in Nat /\ Top.end \in Nat /\ Top.chunk \in Nat /\ Top.chunk < Chunks
    BY <1>2, RangeTypes DEF StackInv
  <2>2. Chunks \in Nat
    BY WidthAssumption, ChunkNumbers DEF StackInv, Chunks
  <2>3. SizeOf(Top) <= 1
    BY <2>1, <2>2 DEF SkipRange
  <2>4. PICK b \in Nat, e \in Nat : b = Top.begin /\ e = Top.end
    BY <2>1
  <2>5. e - b <= 1
    BY <2>3, <2>4 DEF SizeOf
  <2>6. \A i, j \in b .. e - 1 : ~(i < j)
    BY <2>5
  <2> QED
    BY <2>4, <2>6 DEF Within
<1>4. IsStack(order, Popped)
  BY <1>2, <1>3, DropLast DEF StackInv
<1>5. Open' = Popped
  BY <1>1 DEF Open
<1> QED
  BY <1>1, <1>2, <1>4, <1>5, NextStack DEF StackInv

\* All entries of a range have the same chunk: they go on together, or are equal.
LEMMA PassRangeOnKeeps ==
  ASSUME StackInv, PassRangeOn
  PROVE  StackInv' /\ pc' = "pop"
<1> USE DEF NextChunk
<1>1. pc = "pop" /\ pc' = "pop" /\ pending # <<>> /\ UNCHANGED <<traits, size, id, order>> /\ ~DifferingBits(Top)
  BY DEF PassRangeOn, client
<1>2. /\ Top \in Ranges /\ Popped \in Seq(Ranges) /\ pending = Append(Popped, Top) /\ Open = pending
      /\ InTurn(order, Top) /\ \A k \in 1 .. Len(Popped) : InTurn(order, Popped[k])
  BY <1>1, Opened
<1>3. size \in Nat /\ traits \in ForestTraits /\ id \in [Places -> IdsOf(traits)] /\ order \in [Places -> Places]
  BY DEF StackInv
<1>t. IsStack(order, Append(Popped, Top))
  BY <1>2 DEF StackInv
<1>4. PICK b \in Nat, e \in Nat, c \in Nat : b = Top.begin /\ e = Top.end /\ c = Top.chunk /\ c < Chunks /\ e <= size
  BY <1>2, <1>3, RangeTypes
<1>5. \A i \in Within(Top) : i \in Places /\ order[i] \in Places /\ id[order[i]] \in IdsOf(traits)
  BY <1>2, <1>3, RangeTypes
<1>6. \A i \in Within(Top) : ChunkOf(id[order[i]], c) = ChunkOf(id[order[b]], c)
  <2>1. ASSUME NEW i \in Within(Top)
        PROVE  ChunkOf(id[order[i]], c) = ChunkOf(id[order[b]], c)
    <3>1. i \in b .. e - 1
      BY <1>4 DEF Within
    <3>2. PICK o \in 0 .. e - b - 1 : i = b + o
      <4>1. i - b \in 0 .. e - b - 1 /\ i = b + (i - b)
        BY <3>1
      <4> QED
        BY <4>1
    <3>3. o \in Offsets(Top)
      BY <1>4 DEF Offsets, SizeOf
    <3> QED
      BY <1>1, <1>4, <3>2, <3>3 DEF DifferingBits
  <2> QED
    BY <2>1
<1>7. Len(Popped) \in Nat /\ Len(pending) = Len(Popped) + 1 /\ pending[Len(pending)] = Top /\ pending \in Seq(Ranges)
  BY <1>2, AppendProperties
<1>8. Agree(order, Top)
  BY <1>2, <1>7 DEF StackInv, IsStack
<1>9. ASSUME NEW i \in Within(Top), NEW j \in Within(Top)
      PROVE  /\ Leading(traits, id[order[i]], (c + 1) * ChunkBytes) = Leading(traits, id[order[j]], (c + 1) * ChunkBytes)
             /\ ~(c + 1 < Chunks) => id[order[i]] = id[order[j]]
  <2>1. PICK x \in IdsOf(traits), y \in IdsOf(traits) : x = id[order[i]] /\ y = id[order[j]]
    BY <1>5
  <2>2. Leading(traits, x, c * ChunkBytes) = Leading(traits, y, c * ChunkBytes)
    BY <1>4, <1>8, <2>1 DEF Agree
  <2>3. ChunkOf(x, c) = ChunkOf(y, c)
    BY <1>6, <2>1
  <2>4. /\ Leading(traits, x, (c + 1) * ChunkBytes) = Leading(traits, y, (c + 1) * ChunkBytes)
        /\ ~(c + 1 < Chunks) => x = y
    BY <1>3, <1>4, <2>2, <2>3, ChunksTellApart
  <2> QED
    BY <2>1, <2>4
<1>10. CASE HasNextRange(Top)
  <2>1. PICK r : r = [Top EXCEPT !.chunk = c + 1]
    OBVIOUS
  <2>2. r \in Ranges /\ r.begin = Top.begin /\ r.end = Top.end /\ r.chunk = c + 1 /\ Within(r) = Within(Top)
    <3>1. Chunks \in Nat /\ c + 1 \in 0 .. Chunks - 1
      <4>1. Chunks \in Nat
        BY <1>3, WidthAssumption, ChunkNumbers DEF Chunks
      <4>2. c + 1 < Chunks
        BY <1>4, <1>10 DEF HasNextRange
      <4> QED
        BY <4>1, <4>2
    <3>2. Top = [begin |-> Top.begin, end |-> Top.end, chunk |-> Top.chunk]
          /\ Top.begin \in 0 .. size /\ Top.end \in 0 .. size
      BY <1>2 DEF Ranges
    <3>3. r = [begin |-> Top.begin, end |-> Top.end, chunk |-> c + 1]
      BY <2>1, <3>2
    <3> QED
      BY <3>1, <3>2, <3>3 DEF Ranges, Within
  <2>3. Agree(order, r)
    BY <1>9, <2>2 DEF Agree
  <2>4. PICK more \in Seq(Ranges) : more = <<r>> /\ Len(more) = 1 /\ more[1] = r
    <3>1. <<r>> \in Seq(Ranges)
      <4>1. r \in Ranges
        BY <2>2
      <4> QED
        BY <4>1
    <3>2. Len(<<r>>) = 1 /\ <<r>>[1] = r
      OBVIOUS
    <3> QED
      BY <3>1, <3>2, Zenon
  <2>5. \A i, j \in Within(Top) : i < j => Settled(order, more, i, j)
    BY <2>2, <2>4 DEF Settled
  <2>6. \A k \in 1 .. Len(more) : Top.begin <= more[k].begin /\ more[k].end <= Top.end /\ Agree(order, more[k])
    BY <1>4, <2>2, <2>3, <2>4
  <2>7. \A k, l \in 1 .. Len(more) : k # l => Apart(more[k], more[l])
    BY <2>4
  <2>8. IsStack(order, Popped \o more)
    BY <1>2, <1>3, <1>t, <2>5, <2>6, <2>7, ReplaceLast
  <2>9. pending' = Append(Popped, r) /\ Append(Popped, r) = Popped \o more
    <3>1. Append(Popped, r) = Popped \o <<r>>
      BY <1>2, <2>2, AppendIsConcat
    <3> QED
      BY <1>4, <1>10, <2>1, <2>4, <3>1 DEF PassRangeOn
  <2>10. IsStack(order, pending') /\ pending' \in Seq(Ranges)
    BY <2>8, <2>9, <1>2, <2>2, AppendProperties
  <2>11. \A k \in 1 .. Len(pending') : InTurn(order, pending'[k])
    <3>1. InTurn(order, r)
      BY <1>2, <2>2 DEF InTurn
    <3>2. /\ Len(pending') = Len(Popped) + 1 /\ pending'[Len(Popped) + 1] = r
          /\ \A k \in 1 .. Len(Popped) : pending'[k] = Popped[k]
      BY <1>2, <2>2, <2>9, AppendProperties
    <3>3. \A k \in 1 .. Len(Popped) + 1 : k = Len(Popped) + 1 \/ k \in 1 .. Len(Popped)
      BY <1>7
    <3> QED
      BY <1>2, <3>1, <3>2, <3>3
  <2>12. Open' = pending'
    BY <1>1 DEF Open
  <2> QED
    BY <1>1, <1>3, <2>10, <2>11, <2>12, NextStack DEF StackInv
<1>11. CASE ~HasNextRange(Top)
  <2>1. \A i, j \in Within(Top) : i < j => Before(order[i], order[j])
    BY <1>2, <1>4, <1>9, <1>11 DEF HasNextRange, Before, InTurn
  <2>2. IsStack(order, Popped)
    BY <1>2, <1>3, <1>t, <2>1, DropLast
  <2>3. pending' = Popped /\ Open' = Popped
    BY <1>1, <1>11 DEF PassRangeOn, Open
  <2> QED
    BY <1>1, <1>2, <1>3, <2>2, <2>3, NextStack DEF StackInv
<1> QED
  BY <1>10, <1>11

\* A range is taken from the stack.
LEMMA TakeRange ==
  ASSUME StackInv, pc = "pop", pending # <<>>, pc' # "pop", UNCHANGED <<traits, size, id, order>>,
         pending' = Popped, range' = Top
  PROVE  StackInv'
<1>1. /\ Top \in Ranges /\ Popped \in Seq(Ranges) /\ pending = Append(Popped, Top) /\ Open = pending
      /\ \A k \in 1 .. Len(Popped) : InTurn(order, Popped[k])
  BY Opened
<1>2. Open' = pending
  BY <1>1 DEF Open
<1> QED
  BY <1>1, <1>2, NextStack DEF StackInv

\* With no pass done yet, the entries are in the order they came in.
LEMMA BeginPassesArranges ==
  ASSUME StackInv, BeginPasses
  PROVE  PassInv' /\ pc' = "count"
<1>1. /\ pc = "pop" /\ pc' = "count" /\ pending # <<>> /\ UNCHANGED <<traits, joins, size, id, order>>
      /\ range' = Top /\ source' = EntriesOf(Top) /\ bytePass' = 0
  BY DEF BeginPasses, client
<1>2. Top \in Ranges /\ InTurn(order, Top) /\ size \in Nat /\ traits \in ForestTraits
      /\ id \in [Places -> IdsOf(traits)] /\ order \in [Places -> Places]
  BY <1>1, Opened DEF StackInv
<1>3. PICK b \in Nat, e \in Nat, c \in Nat : b = Top.begin /\ e = Top.end /\ c = Top.chunk /\ c < Chunks /\ e <= size
  BY <1>2, RangeTypes
<1>4. SizeOf(Top) = e - b /\ Offsets(Top) = 0 .. e - b - 1 /\ Within(Top) = b .. e - 1
  BY <1>3 DEF SizeOf, Offsets, Within
<1>5. e - b > 1
  BY <1>4 DEF BeginPasses, IsLarge
<1> DEFINE entry(o) == [chunk |-> ChunkOf(id[order[b + o]], c), index |-> order[b + o]]
<1>6. EntriesOf(Top) = [o \in Offsets(Top) |-> entry(o)]
  BY <1>3 DEF EntriesOf
<1>7. ASSUME NEW o \in Offsets(Top)
      PROVE  IsEntry(Top, entry(o)) /\ entry(o).chunk \in Nat
  <2>1. b + o \in Within(Top) /\ Within(Top) \subseteq Places
    BY <1>2, <1>4, RangeTypes
  <2>2. order[b + o] \in Places /\ id[order[b + o]] \in IdsOf(traits)
    BY <2>1, <1>2
  <2>3. PICK x \in IdsOf(traits) : x = id[order[b + o]]
    BY <2>2
  <2>4. ChunkOf(x, c) \in 0 .. Power[ChunkBytes] - 1
    BY <1>2, <1>3, ChunksTellApart
  <2>5. entry(o).index = order[b + o] /\ entry(o).chunk = ChunkOf(x, c)
    BY <2>3
  <2>6. ChunkOf(x, c) \in Nat
    BY <2>4, WidthAssumption, PowersArePositive
  <2> HIDE DEF entry
  <2> QED
    BY <1>3, <2>1, <2>3, <2>4, <2>5, <2>6 DEF IsEntry
<1>8. ASSUME NEW o \in Offsets(Top), NEW p \in Offsets(Top), o < p
      PROVE  InLine(entry(o), entry(p), 0)
  <2>1. entry(o).index < entry(p).index
    <3>1. b + o \in Within(Top) /\ b + p \in Within(Top) /\ b + o < b + p
      BY <1>4, <1>8
    <3>2. order[b + o] < order[b + p]
      BY <1>2, <3>1 DEF InTurn
    <3> QED
      BY <3>2
  <2>2. \A x \in Nat : x % 1 = 0
    OBVIOUS
  <2>3. Low(entry(o).chunk, 0) = 0 /\ Low(entry(p).chunk, 0) = 0
    <3>1. entry(o).chunk \in Nat /\ entry(p).chunk \in Nat
      BY <1>7
    <3> HIDE DEF entry
    <3> QED
      BY <3>1, <2>2, PowerSteps DEF Low
  <2> QED
    BY <2>1, <2>3 DEF InLine
<1>9. IsArranged(Top, EntriesOf(Top), 0)
  <2> HIDE DEF entry
  <2> QED
    BY <1>6, <1>7, <1>8 DEF IsArranged
<1>10. PICK r, s : r = Top /\ s = EntriesOf(Top)
  OBVIOUS
<1>11. IsArranged(r, s, 0)'
  <2>1. IsArranged(r, s, 0)
    BY <1>9, <1>10
  <2> QED
    BY <1>1, <2>1, ArrangedStays
<1>12. IsArranged(range, source, bytePass)'
  BY <1>1, <1>10, <1>11
<1>13. SizeOf(range)' \in Nat
  BY <1>1, <1>4, <1>5 DEF SizeOf
<1> QED
  BY <1>1, <1>12, <1>13, WidthAssumption DEF PassInv
-----------------------------------------------------------------------------
(* Insertion *)

\* A small range is taken, its first entry in place.
LEMMA BeginSmallInserts ==
  ASSUME StackInv, BeginSmall
  PROVE  StackInv' /\ InsertionInv' /\ pc' = "small"
<1>1. /\ pc = "pop" /\ pc' = "small" /\ pending # <<>> /\ UNCHANGED <<traits, size, id, order>>
      /\ range' = Top /\ pending' = Popped /\ rangeIdx' = Top.begin + 1
  BY DEF BeginSmall, client
<1>2. StackInv'
  BY <1>1, TakeRange
<1>3. Top \in Ranges /\ InTurn(order, Top) /\ size \in Nat /\ traits \in ForestTraits
  BY <1>1, Opened DEF StackInv
<1>4. PICK b \in Nat, e \in Nat : b = Top.begin /\ e = Top.end
  BY <1>3, RangeTypes
<1>5. b + 1 \in b + 1 .. e
  <2>1. e - b \in 2 .. SmallThreshold
    BY <1>4 DEF BeginSmall, SizeOf
  <2> QED
    BY <2>1
<1>6. \A i, j \in b .. (b + 1) - 1 : ~(i < j)
  OBVIOUS
<1>7. keys' = IF ShouldCacheChunkIds(traits)
                THEN [o \in Offsets(Top) |-> CachedId(traits, id[order[Top.begin + o]])] ELSE <<>>
  BY DEF BeginSmall, Offsets
<1>8. \A i \in b .. e - 1, j \in b + 1 .. e - 1 : i < j => order[i] < order[j]
  <2>1. \A j \in b + 1 .. e - 1 : j \in b .. e - 1
    OBVIOUS
  <2> QED
    BY <1>3, <1>4, <2>1 DEF InTurn, Within
<1> QED
  BY <1>1, <1>2, <1>4, <1>5, <1>6, <1>7, <1>8 DEF InsertionInv, Before, Within, Offsets, SizeOf

\* An insertion that has reached the end has sorted its range.
LEMMA EndSmallKeeps ==
  ASSUME StackInv, InsertionInv, EndSmall
  PROVE  StackInv' /\ pc' = "pop"
<1>1. pc = "small" /\ pc' = "pop" /\ rangeIdx >= range.end /\ UNCHANGED <<traits, size, id, order, pending>>
  BY DEF EndSmall, client, workspace
<1>2. /\ range \in Ranges /\ size \in Nat /\ traits \in ForestTraits /\ pending \in Seq(Ranges)
      /\ Open = Append(pending, range) /\ IsStack(order, Append(pending, range))
  BY <1>1, Opened DEF StackInv
<1>3. PICK b \in Nat, e \in Nat : b = range.begin /\ e = range.end
  BY <1>2, RangeTypes
<1>4. rangeIdx = e
  BY <1>1, <1>3 DEF InsertionInv
<1>5. \A i, j \in Within(range) : i < j => Before(order[i], order[j])
  BY <1>3, <1>4 DEF InsertionInv, Within
<1>6. IsStack(order, pending)
  BY <1>2, <1>5, DropLast
<1>7. Open' = pending
  BY <1>1 DEF Open
<1> QED
  BY <1>1, <1>2, <1>6, <1>7, NextStack DEF StackInv

\* Cached or not, the comparison is the order of the ids.
LEMMA IsLessOrEqualIs ==
  ASSUME StackInv, InsertionInv, pc = "small", rangeIdx < range.end, NEW j \in range.begin .. rangeIdx - 1
  PROVE  IsLessOrEqual(j) <=> id[order[j]] <= id[order[rangeIdx]]
<1>1. range \in Ranges /\ size \in Nat /\ traits \in ForestTraits
      /\ id \in [Places -> IdsOf(traits)] /\ order \in [Places -> Places]
  BY DEF StackInv
<1>2. PICK b \in Nat, e \in Nat : b = range.begin /\ e = range.end /\ e <= size
  BY <1>1, RangeTypes
<1>3. PICK m \in b + 1 .. e : m = rangeIdx /\ m < e
  BY <1>2 DEF InsertionInv
<1>4. j \in b .. m - 1
  BY <1>2, <1>3
<1>5. j \in Places /\ m \in Places /\ j - b \in 0 .. e - b - 1 /\ m - b \in 0 .. e - b - 1
      /\ b + (j - b) = j /\ b + (m - b) = m
  <2>1. j \in Nat /\ m \in Nat /\ b <= j /\ j < m /\ m < e /\ e <= size
    BY <1>2, <1>3, <1>4
  <2>2. j \in Places /\ m \in Places
    BY <1>1, <2>1 DEF Places
  <2>3. j - b \in 0 .. e - b - 1 /\ m - b \in 0 .. e - b - 1
    BY <2>1
  <2>4. b + (j - b) = j /\ b + (m - b) = m
    BY <2>1
  <2> QED
    BY <2>2, <2>3, <2>4
<1>6. PICK x \in IdsOf(traits), y \in IdsOf(traits) : x = id[order[j]] /\ y = id[order[m]]
  BY <1>1, <1>5
<1>7. x \in Nat /\ y \in Nat
  BY <1>1, IdsAreNatural
<1>8. CASE ShouldCacheChunkIds(traits)
  <2>1. keys = [o \in 0 .. e - b - 1 |-> CachedId(traits, id[order[b + o]])]
    BY <1>2, <1>8 DEF InsertionInv, Offsets, SizeOf
  <2>2. keys[j - b] = CachedId(traits, x) /\ keys[m - b] = CachedId(traits, y)
    BY <1>5, <1>6, <2>1
  <2>3. CompareChunkSequence(CachedId(traits, x), CachedId(traits, y)) = IF x = y THEN 0 ELSE IF x < y THEN -1 ELSE 1
    BY <1>1, CachedCompare
  <2>4. IsLessOrEqual(j) <=> (IF x = y THEN 0 ELSE IF x < y THEN -1 ELSE 1) <= 0
    BY <1>2, <1>3, <1>8, <2>2, <2>3 DEF IsLessOrEqual
  <2> QED
    BY <1>3, <1>6, <1>7, <2>4
<1>9. CASE ~ShouldCacheChunkIds(traits)
  <2>1. IdLess(traits, y, x) <=> y < x
    BY <1>1, IdLessIs
  <2>2. IsLessOrEqual(j) <=> ~IdLess(traits, y, x)
    BY <1>3, <1>6, <1>9 DEF IsLessOrEqual
  <2> QED
    BY <1>3, <1>6, <1>7, <2>1, <2>2
<1> QED
  BY <1>8, <1>9

\* Where the next entry goes: after those that are not larger, before those that are.
LEMMA AfterLessOrEqualIs ==
  ASSUME StackInv, InsertionInv, pc = "small", rangeIdx < range.end
  PROVE  /\ AfterLessOrEqual \in range.begin .. rangeIdx
         /\ \A j \in AfterLessOrEqual .. rangeIdx - 1 : Before(order[rangeIdx], order[j])
         /\ \A j \in range.begin .. AfterLessOrEqual - 1 : Before(order[j], order[rangeIdx])
<1>1. range \in Ranges /\ size \in Nat /\ traits \in ForestTraits
      /\ id \in [Places -> IdsOf(traits)] /\ order \in [Places -> Places]
  BY DEF StackInv
<1>2. PICK b \in Nat, e \in Nat : b = range.begin /\ e = range.end /\ e <= size
  BY <1>1, RangeTypes
<1>3. PICK m \in b + 1 .. e : m = rangeIdx /\ m < e
  BY <1>2 DEF InsertionInv
<1>4. \A j \in b .. m : j \in Places /\ id[order[j]] \in Nat /\ order[j] \in Nat
  <2>1. \A j \in b .. m : j \in Places
    BY <1>1, <1>2, <1>3 DEF Places
  <2>2. \A j \in Places : order[j] \in Places /\ order[j] \in Nat /\ id[order[j]] \in IdsOf(traits)
    BY <1>1 DEF Places
  <2>3. \A i \in IdsOf(traits) : i \in Nat
    BY <1>1, IdsAreNatural
  <2> QED
    BY <2>1, <2>2, <2>3
<1>5. \A j \in b .. m - 1 : IsLessOrEqual(j) <=> id[order[j]] <= id[order[m]]
  BY <1>2, <1>3, IsLessOrEqualIs
<1> DEFINE S == {b} \cup {i + 1 : i \in {j \in b .. m - 1 : IsLessOrEqual(j)}}
<1>6. S \in SUBSET (0 .. m) /\ S # {}
  BY <1>2, <1>3
<1>7. PICK a \in S : \A y \in S : y <= a
  <2>1. m \in Nat
    BY <1>3
  <2> HIDE DEF S
  <2> QED
    BY <1>6, <2>1, GreatestElement
<1>8. AfterLessOrEqual = a
  <2>1. AfterLessOrEqual = CHOOSE x \in S : \A y \in S : x >= y
    BY <1>2, <1>3 DEF AfterLessOrEqual, Max
  <2>2. \A x \in S : x \in Nat
    BY <1>6
  <2> HIDE DEF S
  <2>3. \A x \in S : (\A y \in S : x >= y) => x = a
    BY <1>7, <2>2
  <2>4. \A y \in S : a >= y
    BY <1>7, <2>2
  <2> QED
    BY <2>1, <2>3, <2>4
<1>9. a \in b .. m
  BY <1>2, <1>3
<1>10. ASSUME NEW j \in a .. m - 1
       PROVE  Before(order[m], order[j])
  <2>1. j \in b .. m - 1 /\ j \in b .. m /\ m \in b .. m
    BY <1>3, <1>9
  <2>2. ~IsLessOrEqual(j)
    BY <1>7, <1>9, <2>1
  <2>3. ~(id[order[j]] <= id[order[m]])
    BY <1>5, <2>1, <2>2
  <2> QED
    BY <1>4, <2>1, <2>3 DEF Before
<1>11. ASSUME NEW j \in b .. a - 1
       PROVE  Before(order[j], order[m])
  <2>1. a # b
    BY <1>9
  <2>2. a - 1 \in b .. m - 1 /\ IsLessOrEqual(a - 1)
    <3>1. PICK i \in b .. m - 1 : IsLessOrEqual(i) /\ a = i + 1
      BY <1>7, <2>1
    <3>2. i = a - 1
      BY <3>1
    <3> QED
      BY <3>1, <3>2
  <2>3. id[order[a - 1]] <= id[order[m]]
    BY <1>5, <2>2
  <2>4. j \in b .. m /\ m \in b .. m /\ a - 1 \in b .. m
    BY <1>3, <1>9, <2>2
  <2>5. j = a - 1 \/ Before(order[j], order[a - 1])
    <3>1. j \in b .. m - 1 /\ (j < a - 1 \/ j = a - 1)
      BY <1>9
    <3> QED
      BY <1>2, <1>3, <2>2, <3>1 DEF InsertionInv
  <2>6. id[order[j]] <= id[order[m]]
    BY <1>4, <2>3, <2>4, <2>5 DEF Before
  <2>7. order[j] < order[m]
    <3>1. j \in Within(range) /\ m \in m .. e - 1 /\ j < m
      BY <1>2, <1>3, <1>9 DEF Within
    <3> QED
      BY <1>2, <1>3, <3>1 DEF InsertionInv
  <2> QED
    BY <1>4, <2>4, <2>6, <2>7 DEF Before
<1> QED
  BY <1>2, <1>3, <1>8, <1>9, <1>10, <1>11

\* What Moved does, place by place.
IsMoved(list, a, m, after) ==
  /\ DOMAIN after = DOMAIN list
  /\ after[a] = list[m]
  /\ \A i \in a + 1 .. m : after[i] = list[i - 1] /\ i - 1 \in a .. m - 1
  /\ \A i \in DOMAIN list : i < a \/ i > m => after[i] = list[i]

\* Moved does that.
LEMMA MovedIs ==
  ASSUME NEW list, NEW m \in Nat, NEW a \in 0 .. m, a .. m \in SUBSET DOMAIN list, DOMAIN list \in SUBSET Int
  PROVE  IsMoved(list, a, m, Moved(list, a, m))
<1>1. Moved(list, a, m) =
        [i \in DOMAIN list |-> IF i = a THEN list[m] ELSE IF i \in a + 1 .. m THEN list[i - 1] ELSE list[i]]
  BY DEF Moved
<1>2. a \in DOMAIN list /\ \A i \in a + 1 .. m : i \in DOMAIN list /\ i # a
  OBVIOUS
<1> QED
  BY <1>1, <1>2 DEF IsMoved

\* Inserting after the last entry not greater keeps the sorted part sorted and
\* stable.
LEMMA InsertNextInserts ==
  ASSUME StackInv, InsertionInv, InsertNext
  PROVE  StackInv' /\ InsertionInv' /\ pc' = "small"
<1>1. /\ pc = "small" /\ pc' = "small" /\ rangeIdx < range.end
      /\ UNCHANGED <<traits, size, id, pending, range>>
      /\ order' = Moved(order, AfterLessOrEqual, rangeIdx) /\ rangeIdx' = rangeIdx + 1
      /\ keys' = Moved(keys, AfterLessOrEqual - range.begin, rangeIdx - range.begin)
  BY DEF InsertNext, client, workspace, InsertInOrder, InsertInKeys
<1>2. /\ range \in Ranges /\ size \in Nat /\ traits \in ForestTraits /\ pending \in Seq(Ranges)
      /\ id \in [Places -> IdsOf(traits)] /\ order \in [Places -> Places]
      /\ Open = Append(pending, range) /\ IsStack(order, Append(pending, range))
      /\ \A k \in 1 .. Len(pending) : InTurn(order, pending[k])
  BY <1>1, Opened DEF StackInv
<1>3. PICK b \in Nat, e \in Nat : b = range.begin /\ e = range.end /\ e <= size
  BY <1>2, RangeTypes
<1>4. PICK m \in b + 1 .. e : m = rangeIdx /\ m < e
  BY <1>1, <1>3 DEF InsertionInv
<1>5. PICK a \in b .. m : /\ a = AfterLessOrEqual
                          /\ \A j \in a .. m - 1 : Before(order[m], order[j])
                          /\ \A j \in b .. a - 1 : Before(order[j], order[m])
  BY <1>1, <1>3, <1>4, AfterLessOrEqualIs
<1>6. PICK after : after = order'
  OBVIOUS
<1>7. m \in Nat /\ b .. m \subseteq Places /\ DOMAIN order = Places /\ Places \subseteq Int
  <2>1. m \in Nat /\ m < size /\ size \in Nat
    BY <1>2, <1>3, <1>4
  <2>2. b .. m \subseteq Places /\ Places \subseteq Int
    BY <1>3, <2>1 DEF Places
  <2>3. DOMAIN order = Places
    BY <1>2
  <2> QED
    BY <2>1, <2>2, <2>3
<1>8. /\ DOMAIN after = Places
      /\ after[a] = order[m]
      /\ \A i \in a + 1 .. m : after[i] = order[i - 1] /\ i - 1 \in a .. m - 1
      /\ \A i \in Places : i < a \/ i > m => after[i] = order[i]
  <2>1. after = Moved(order, a, m)
    BY <1>1, <1>4, <1>5, <1>6
  <2>2. a .. m \in SUBSET DOMAIN order /\ DOMAIN order \in SUBSET Int /\ a \in 0 .. m
    BY <1>3, <1>5, <1>7
  <2>3. IsMoved(order, a, m, after)
    BY <2>1, <2>2, <1>7, MovedIs
  <2> QED
    BY <2>3, <1>7 DEF IsMoved
<1>9. Within(range) = b .. e - 1 /\ b .. e - 1 \subseteq Places
  BY <1>2, <1>3, RangeTypes DEF Within
<1>10. \A i \in b .. m : \E j \in b .. m : after[i] = order[j]
  <2>1. ASSUME NEW i \in b .. m
        PROVE  \E j \in b .. m : after[i] = order[j]
    <3>1. CASE i < a
      <4>1. i \in Places
        BY <1>7
      <4> QED
        BY <3>1, <4>1, <1>8
    <3>2. CASE i = a
      <4>1. m \in b .. m
        OBVIOUS
      <4> QED
        BY <3>2, <4>1, <1>8
    <3>3. CASE i > a
      <4>1. i \in a + 1 .. m /\ i - 1 \in b .. m
        BY <3>3
      <4> QED
        BY <4>1, <1>8
    <3> QED
      BY <3>1, <3>2, <3>3
  <2> QED
    BY <2>1
<1>11. \A i \in b .. e - 1 : i > m => after[i] = order[i]
  BY <1>8, <1>9
<1>12. \A i \in b .. e - 1 : \E j \in b .. e - 1 : after[i] = order[j] /\ (i > m => j = i) /\ (i <= m => j <= m)
  <2>1. ASSUME NEW i \in b .. e - 1
        PROVE  \E j \in b .. e - 1 : after[i] = order[j] /\ (i > m => j = i) /\ (i <= m => j <= m)
    <3>1. CASE i > m
      BY <3>1, <1>11
    <3>2. CASE ~(i > m)
      <4>1. i \in b .. m
        BY <3>2, <1>4
      <4>2. PICK j \in b .. m : after[i] = order[j]
        BY <4>1, <1>10
      <4>3. j \in b .. e - 1 /\ j <= m
        BY <1>4
      <4> QED
        BY <3>2, <4>2, <4>3
    <3> QED
      BY <3>1, <3>2
  <2> QED
    BY <2>1
<1>13. after \in [Places -> Places]
  <2>1. \A i \in Places : after[i] \in Places
    <3>1. ASSUME NEW i \in Places
          PROVE  after[i] \in Places
      <4>1. i < a \/ i > m \/ i = a \/ i \in a + 1 .. m
        BY <1>7
      <4>2. i \in a + 1 .. m => i - 1 \in Places
        BY <1>7
      <4>3. m \in Places
        BY <1>7
      <4> QED
        BY <4>1, <4>2, <4>3, <1>2, <1>8
    <3> QED
      BY <3>1
  <2>2. after = [i \in Places |-> after[i]]
    BY <1>1, <1>2, <1>6, <1>8 DEF Moved
  <2> QED
    BY <2>1, <2>2
<1>14. \A i \in Places : i \notin Within(range) => after[i] = order[i]
  <2>1. \A i \in Places : i \notin Within(range) => i < a \/ i > m
    BY <1>4, <1>7, <1>9
  <2> QED
    BY <2>1, <1>8
<1>15. \A i \in Within(range) : \E j \in Within(range) : after[i] = order[j]
  BY <1>9, <1>12
<1>16. id \in [Places -> Nat]
  BY <1>2, IdsAreNatural
<1>17. IsStack(after, Append(pending, range)) /\ \A k \in 1 .. Len(pending) : InTurn(after, pending[k])
  BY <1>2, <1>13, <1>14, <1>15, <1>16, RearrangeLast
<1>18. StackInv'
  <2>1. Open' = Append(pending, range)
    BY <1>1 DEF Open
  <2> QED
    BY <2>1, <1>1, <1>2, <1>6, <1>13, <1>17, NextStack
<1>19. ASSUME NEW i \in b .. m, NEW j \in b .. m, i < j
       PROVE  Before(after[i], after[j])
  <2>1. \A x, y \in b .. m - 1 : x < y => Before(order[x], order[y])
    BY <1>3, <1>4 DEF InsertionInv
  <2>2. i \in Places /\ j \in Places
    BY <1>7
  <2>3. CASE j < a
    <3>1. i < a /\ i \in b .. m - 1 /\ j \in b .. m - 1
      BY <1>19, <2>3
    <3> QED
      BY <3>1, <2>1, <2>2, <2>3, <1>8, <1>19
  <2>4. CASE j = a
    <3>1. i < a /\ i \in b .. a - 1
      BY <1>19, <2>4
    <3> QED
      BY <3>1, <2>2, <2>4, <1>5, <1>8
  <2>5. CASE j > a /\ i < a
    <3>1. j \in a + 1 .. m /\ j - 1 \in b .. m - 1 /\ i \in b .. m - 1 /\ i < j - 1
      BY <2>5
    <3> QED
      BY <3>1, <2>1, <2>2, <2>5, <1>8
  <2>6. CASE j > a /\ i = a
    <3>1. j \in a + 1 .. m
      BY <2>6
    <3> QED
      BY <3>1, <2>6, <1>5, <1>8
  <2>7. CASE i > a
    <3>1. i \in a + 1 .. m /\ j \in a + 1 .. m /\ i - 1 \in b .. m - 1 /\ j - 1 \in b .. m - 1 /\ i - 1 < j - 1
      BY <1>19, <2>7
    <3> QED
      BY <3>1, <2>1, <1>8
  <2> QED
    BY <2>3, <2>4, <2>5, <2>6, <2>7
<1>20. ASSUME NEW i \in b .. e - 1, NEW j \in m + 1 .. e - 1, i < j
       PROVE  after[i] < after[j]
  <2>1. j \in b .. e - 1 /\ j > m /\ j \in m .. e - 1
    BY <1>4
  <2>2. after[j] = order[j]
    BY <2>1, <1>11
  <2>3. PICK k \in b .. e - 1 : after[i] = order[k] /\ (i > m => k = i) /\ (i <= m => k <= m)
    BY <1>12
  <2>4. k < j
    BY <1>4, <1>20, <2>3
  <2>5. order[k] < order[j]
    BY <2>1, <2>4, <1>3, <1>4, <1>9 DEF InsertionInv
  <2> QED
    BY <2>2, <2>3, <2>5
<1>21. keys' = IF ShouldCacheChunkIds(traits)
                 THEN [o \in Offsets(range) |-> CachedId(traits, id[after[range.begin + o]])] ELSE <<>>
  <2>1. CASE ~ShouldCacheChunkIds(traits)
    <3>1. keys = <<>>
      BY <2>1 DEF InsertionInv
    <3>2. \A x, y : Moved(<<>>, x, y) = <<>>
      BY DEF Moved
    <3> QED
      BY <2>1, <3>1, <3>2, <1>1
  <2>2. CASE ShouldCacheChunkIds(traits)
    <3> DEFINE key(i) == CachedId(traits, id[i])
    <3>1. keys = [o \in 0 .. e - b - 1 |-> key(order[b + o])]
      BY <2>2, <1>3 DEF InsertionInv, Offsets, SizeOf
    <3>2. PICK c \in Nat, d \in Nat : c = a - b /\ d = m - b
      BY <1>5
    <3>3. c \in 0 .. d /\ 0 .. d \subseteq 0 .. e - b - 1 /\ 0 \in Nat /\ DOMAIN keys = 0 .. e - b - 1
      BY <3>1, <3>2, <1>4
    <3>4. keys' = Moved(keys, c, d)
      BY <3>2, <1>1, <1>3, <1>4, <1>5
    <3>5. /\ DOMAIN keys' = 0 .. e - b - 1
          /\ keys'[c] = keys[d]
          /\ \A i \in c + 1 .. d : keys'[i] = keys[i - 1] /\ i - 1 \in c .. d - 1
          /\ \A i \in 0 .. e - b - 1 : i < c \/ i > d => keys'[i] = keys[i]
      <4>1. DOMAIN keys \in SUBSET Int /\ c .. d \in SUBSET DOMAIN keys
        <5>1. \A x \in c .. d : x \in 0 .. d
          BY <3>2
        <5>2. \A x \in 0 .. e - b - 1 : x \in Int
          OBVIOUS
        <5>3. \A x \in c .. d : x \in DOMAIN keys
          BY <3>3, <5>1
        <5>4. \A x \in DOMAIN keys : x \in Int
          BY <3>3, <5>2
        <5> QED
          BY <5>3, <5>4
      <4>2. IsMoved(keys, c, d, keys')
        BY <3>2, <3>3, <3>4, <4>1, MovedIs
      <4> QED
        BY <3>3, <4>2 DEF IsMoved
    <3>6. ASSUME NEW o \in 0 .. e - b - 1
          PROVE  keys'[o] = key(after[b + o])
      <4>1. b + o \in Places
        <5>1. b + o \in b .. e - 1
          OBVIOUS
        <5> QED
          BY <5>1, <1>9
      <4>2. CASE o < c \/ o > d
        <5>1. b + o < a \/ b + o > m
          BY <3>2, <4>2
        <5>2. after[b + o] = order[b + o]
          BY <5>1, <4>1, <1>8
        <5> QED
          BY <5>2, <3>1, <3>5, <4>2
      <4>3. CASE o = c
        <5>1. b + o = a /\ b + d = m /\ d \in 0 .. e - b - 1
          BY <3>2, <3>3, <4>3
        <5> QED
          BY <5>1, <3>1, <3>5, <4>3, <1>8
      <4>4. CASE o \in c + 1 .. d
        <5>1. b + o \in a + 1 .. m /\ b + (o - 1) = (b + o) - 1 /\ o - 1 \in 0 .. e - b - 1
          BY <3>2, <3>3, <4>4
        <5>2. after[b + o] = order[b + (o - 1)]
          BY <5>1, <1>8
        <5>3. keys'[o] = keys[o - 1]
          BY <4>4, <3>5
        <5> QED
          BY <5>1, <5>2, <5>3, <3>1
      <4>5. o < c \/ o > d \/ o = c \/ o \in c + 1 .. d
        OBVIOUS
      <4> QED
        BY <4>2, <4>3, <4>4, <4>5
    <3>7. keys' = [o \in 0 .. e - b - 1 |-> keys'[o]]
      BY <3>3, <3>4 DEF Moved
    <3>8. keys' = [o \in 0 .. e - b - 1 |-> key(after[b + o])]
      <4> HIDE DEF key
      <4> QED
        BY <3>6, <3>7
    <3> QED
      BY <2>2, <3>8, <1>3 DEF Offsets, SizeOf
  <2> QED
    BY <2>1, <2>2
<1>22. m + 1 \in b + 1 .. e /\ (m + 1) - 1 = m
  BY <1>4
<1>23. InsertionInv'
  <2>1. rangeIdx' = m + 1 /\ range'.begin = b /\ range'.end = e /\ Within(range)' = b .. e - 1
    BY <1>1, <1>3, <1>4 DEF Within
  <2>2. Offsets(range)' = Offsets(range)
    BY <1>1 DEF Offsets, SizeOf
  <2>3. \A i, j \in b .. (m + 1) - 1 : i < j => Before(order[i], order[j])'
    BY <1>1, <1>6, <1>19, <1>22 DEF Before
  <2>4. keys' = IF ShouldCacheChunkIds(traits')
                  THEN [o \in Offsets(range)' |-> CachedId(traits', id'[order'[range'.begin + o]])] ELSE <<>>
    BY <1>1, <1>6, <1>21, <2>2
  <2>5. \A i \in b .. e - 1, j \in m + 1 .. e - 1 : i < j => order'[i] < order'[j]
    BY <1>6, <1>20
  <2> QED
    BY <1>22, <2>1, <2>3, <2>4, <2>5 DEF InsertionInv
<1> QED
  BY <1>1, <1>18, <1>23
-----------------------------------------------------------------------------
(* The ranges a chunk leaves *)

\* The values of R for the numbers of T below k, in a row.
InRow(T, R, S, k, row) ==
  /\ row \in Seq(S)
  /\ \A x \in 1 .. Len(row) : \E s \in T : s < k /\ row[x] = R[s]
  /\ \A s \in T : s < k => \E x \in 1 .. Len(row) : row[x] = R[s]
  /\ \A x, y \in 1 .. Len(row) : x < y => \E s, u \in T : s < u /\ row[x] = R[s] /\ row[y] = R[u]

\* Nothing is listed of an empty start.
LEMMA EmptyRow ==
  ASSUME NEW T \in SUBSET Nat, NEW R, NEW S
  PROVE  InRow(T, R, S, 0, << >>)
<1>1. << >> \in Seq(S) /\ Len(<< >>) = 0 /\ \A s \in T : ~(s < 0)
  OBVIOUS
<1>2. 1 .. 0 = {}
  OBVIOUS
<1> QED
  BY <1>1, <1>2 DEF InRow

\* One place more adds its range when it has one.
LEMMA LongerRow ==
  ASSUME NEW T \in SUBSET Nat, NEW S, NEW R \in [T -> S], NEW k \in Nat, NEW row, InRow(T, R, S, k, row)
  PROVE  InRow(T, R, S, k + 1, IF k \in T THEN Append(row, R[k]) ELSE row)
<1>1. row \in Seq(S) /\ Len(row) \in Nat
  BY DEF InRow
<1>2. \A s \in T : s < k + 1 <=> s < k \/ s = k
  OBVIOUS
<1>3. CASE k \notin T
  BY <1>2, <1>3 DEF InRow
<1>4. CASE k \in T
  <2>1. PICK new : new = Append(row, R[k])
    OBVIOUS
  <2>2. /\ new \in Seq(S) /\ Len(new) = Len(row) + 1 /\ new[Len(row) + 1] = R[k]
        /\ \A x \in 1 .. Len(row) : new[x] = row[x]
    BY <1>1, <1>4, <2>1, AppendProperties
  <2>3. \A x \in 1 .. Len(new) : x \in 1 .. Len(row) \/ x = Len(row) + 1
    BY <1>1, <2>2
  <2>4. \A x \in 1 .. Len(row) : x \in 1 .. Len(new) /\ x < Len(row) + 1
    BY <1>1, <2>2
  <2>5. Len(row) + 1 \in 1 .. Len(new)
    BY <1>1, <2>2
  <2>6. ASSUME NEW x \in 1 .. Len(new)
        PROVE  \E s \in T : s < k + 1 /\ new[x] = R[s]
    <3>1. CASE x = Len(row) + 1
      BY <1>2, <1>4, <2>2, <3>1
    <3>2. CASE x \in 1 .. Len(row)
      <4>1. PICK s \in T : s < k /\ row[x] = R[s]
        BY <3>2 DEF InRow
      <4> QED
        BY <4>1, <3>2, <1>2, <2>2
    <3> QED
      BY <3>1, <3>2, <2>3
  <2>7. ASSUME NEW s \in T, s < k + 1
        PROVE  \E x \in 1 .. Len(new) : new[x] = R[s]
    <3>1. CASE s = k
      BY <3>1, <2>2, <2>5
    <3>2. CASE s < k
      <4>1. PICK x \in 1 .. Len(row) : row[x] = R[s]
        BY <3>2 DEF InRow
      <4> QED
        BY <4>1, <2>2, <2>4
    <3> QED
      BY <3>1, <3>2, <2>7, <1>2
  <2>8. ASSUME NEW x \in 1 .. Len(new), NEW y \in 1 .. Len(new), x < y
        PROVE  \E s, u \in T : s < u /\ new[x] = R[s] /\ new[y] = R[u]
    <3>1. x \in 1 .. Len(row)
      BY <1>1, <2>2, <2>8
    <3>2. CASE y = Len(row) + 1
      <4>1. PICK s \in T : s < k /\ row[x] = R[s]
        BY <3>1 DEF InRow
      <4> QED
        BY <4>1, <3>1, <3>2, <1>4, <2>2
    <3>3. CASE y \in 1 .. Len(row)
      <4>1. PICK s \in T, u \in T : s < u /\ row[x] = R[s] /\ row[y] = R[u]
        BY <2>8, <3>1, <3>3 DEF InRow
      <4> QED
        BY <4>1, <3>1, <3>3, <2>2
    <3> QED
      BY <3>2, <3>3, <2>3
  <2>9. InRow(T, R, S, k + 1, new)
    BY <2>2, <2>6, <2>7, <2>8 DEF InRow
  <2> QED
    BY <1>4, <2>1, <2>9
<1> QED
  BY <1>3, <1>4

ChunkStarts == {o \in Offsets(range) : o = 0 \/ source[o].chunk # source[o - 1].chunk}
ChunkEnd(o) == Min({p \in ChunkStarts \cup {SizeOf(range)} : p > o})
RangeAt(o) ==
  [begin |-> range.begin + o, end |-> range.begin + ChunkEnd(o), chunk |-> NextChunk(range)]

\* The ranges pushed are those the chunk starts say, in their order.
LEMMA ChunkRangesAre ==
  ASSUME SizeOf(range) \in Nat, range.begin \in Nat, \A o \in ChunkStarts : RangeAt(o) \in Ranges
  PROVE  InRow(ChunkStarts, [o \in ChunkStarts |-> RangeAt(o)], Ranges, SizeOf(range), ChunkRanges)
<1>0. PICK n \in Nat : n = SizeOf(range)
  OBVIOUS
<1> DEFINE next(o) == [begin |-> range.begin + o - 1, end |-> range.begin + ChunkEnd(o - 1), chunk |-> NextChunk(range)]
           IsCollected(v) ==
             v = [o \in 0 .. SizeOf(range) |->
                    IF o = 0 THEN <<>>
                    ELSE IF o - 1 \in ChunkStarts THEN Append(v[o - 1], next(o)) ELSE v[o - 1]]
           from == CHOOSE v : IsCollected(v)
<1>1. ChunkRanges = from[SizeOf(range)]
  BY DEF ChunkRanges, SortedChunks, ChunkStarts, ChunkEnd
<1>2. PICK T \in SUBSET Nat : T = ChunkStarts
  <2>1. ChunkStarts \subseteq Offsets(range)
    BY DEF ChunkStarts
  <2>2. \A o \in Offsets(range) : o \in Nat
    BY <1>0 DEF Offsets
  <2>3. ChunkStarts \in SUBSET Nat
    BY <2>1, <2>2
  <2> QED
    BY <2>3
<1>3. PICK R \in [T -> Ranges] : R = [o \in ChunkStarts |-> RangeAt(o)] /\ \A o \in T : R[o] = RangeAt(o)
  <2>1. \A o \in T : RangeAt(o) \in Ranges
    BY <1>2
  <2> DEFINE R == [o \in T |-> RangeAt(o)]
  <2>2. R \in [T -> Ranges] /\ \A o \in T : R[o] = RangeAt(o)
    BY <2>1
  <2>3. R = [o \in ChunkStarts |-> RangeAt(o)]
    BY <1>2
  <2> HIDE DEF R
  <2> QED
    BY <2>2, <2>3
<1>4. \A o \in 1 .. n : o - 1 \in T => next(o) = R[o - 1]
  <2> SUFFICES ASSUME NEW o \in 1 .. n, o - 1 \in T
               PROVE  next(o) = R[o - 1]
    OBVIOUS
  <2>1. range.begin + o - 1 = range.begin + (o - 1)
    OBVIOUS
  <2> QED
    BY <1>3, <2>1 DEF RangeAt
<1> HIDE DEF next
<1>5. \E v : IsCollected(v)
  <2> DEFINE step(o) == [row \in Seq(Ranges) |-> IF o - 1 \in T THEN Append(row, next(o)) ELSE row]
  <2>1. \A o \in 1 .. n : step(o) \in [Seq(Ranges) -> Seq(Ranges)]
    <3>1. ASSUME NEW o \in 1 .. n, NEW row \in Seq(Ranges)
          PROVE  (IF o - 1 \in T THEN Append(row, next(o)) ELSE row) \in Seq(Ranges)
      <4>1. CASE o - 1 \in T
        <5>1. next(o) \in Ranges
          BY <1>3, <1>4, <4>1
        <5> QED
          BY <4>1, <5>1, AppendProperties
      <4> QED
        BY <4>1
    <3> QED
      BY <3>1
  <2>2. PICK s \in [1 .. n -> [Seq(Ranges) -> Seq(Ranges)]] : s = [o \in 1 .. n |-> step(o)]
    BY <2>1
  <2>3. << >> \in Seq(Ranges)
    OBVIOUS
  <2>4. PICK v : IsSteps(n, Seq(Ranges), << >>, s, v)
    BY <2>2, <2>3, StepByStep
  <2>5. v \in [0 .. n -> Seq(Ranges)] /\ v[0] = << >> /\ \A o \in 1 .. n : v[o] = s[o][v[o - 1]]
    BY <2>4 DEF IsSteps
  <2>6. \A o \in 1 .. n : v[o] = IF o - 1 \in T THEN Append(v[o - 1], next(o)) ELSE v[o - 1]
    <3> SUFFICES ASSUME NEW o \in 1 .. n
                 PROVE  v[o] = IF o - 1 \in T THEN Append(v[o - 1], next(o)) ELSE v[o - 1]
      OBVIOUS
    <3>1. v[o - 1] \in Seq(Ranges)
      <4>1. o - 1 \in 0 .. n
        OBVIOUS
      <4> QED
        BY <4>1, <2>5
    <3>2. v[o] = step(o)[v[o - 1]]
      BY <2>2, <2>5
    <3> QED
      BY <3>1, <3>2
  <2>7. IsCollected(v)
    <3> HIDE DEF step
    <3>1. \A o \in 0 .. n : o = 0 \/ o \in 1 .. n
      OBVIOUS
    <3>2. v = [o \in 0 .. n |-> v[o]]
      BY <2>5
    <3>3. \A o \in 0 .. n : v[o] = IF o = 0 THEN <<>> ELSE IF o - 1 \in T THEN Append(v[o - 1], next(o)) ELSE v[o - 1]
      BY <2>5, <2>6, <3>1
    <3> QED
      BY <1>0, <1>2, <3>2, <3>3
  <2> QED
    BY <2>7
<1>6. IsCollected(from)
  <2> HIDE DEF IsCollected
  <2> QED
    BY <1>5
<1>7. \A o \in 0 .. n : from[o] = IF o = 0 THEN <<>> ELSE IF o - 1 \in T THEN Append(from[o - 1], next(o)) ELSE from[o - 1]
  BY <1>0, <1>2, <1>6
<1> HIDE DEF from, IsCollected
<1> DEFINE Q == {k \in Nat : k <= n => InRow(T, R, Ranges, k, from[k])}
<1>8. 0 \in Q
  <2>1. from[0] = << >>
    BY <1>7
  <2> QED
    BY <2>1, EmptyRow
<1>9. ASSUME NEW k \in Nat, k \in Q
      PROVE  k + 1 \in Q
  <2> SUFFICES ASSUME k + 1 <= n
               PROVE  InRow(T, R, Ranges, k + 1, from[k + 1])
    OBVIOUS
  <2>1. InRow(T, R, Ranges, k, from[k]) /\ k + 1 \in 0 .. n /\ k + 1 \in 1 .. n /\ (k + 1) - 1 = k /\ k + 1 # 0
    BY <1>9
  <2>2. from[k + 1] = IF k \in T THEN Append(from[k], next(k + 1)) ELSE from[k]
    BY <1>7, <2>1
  <2>3. k \in T => next(k + 1) = R[k]
    BY <1>4, <2>1
  <2>4. from[k + 1] = IF k \in T THEN Append(from[k], R[k]) ELSE from[k]
    BY <2>2, <2>3
  <2>5. InRow(T, R, Ranges, k + 1, IF k \in T THEN Append(from[k], R[k]) ELSE from[k])
    BY <1>2, <1>3, <2>1, LongerRow
  <2> QED
    BY <2>4, <2>5
<1>10. n \in Q
  <2> HIDE DEF Q
  <2> QED
    BY <1>8, <1>9, Climb
<1> QED
  BY <1>0, <1>1, <1>2, <1>3, <1>10

\* Where the runs of equal numbers in C begin, and where they end.
RunStarts(n, C) == {o \in 0 .. n - 1 : o = 0 \/ C[o] # C[o - 1]}
RunEnd(n, C, o) == Min({p \in RunStarts(n, C) \cup {n} : p > o})

\* A run ends where the next begins, or with the range.
LEMMA RunEndIs ==
  ASSUME NEW n \in Nat, NEW C, NEW o \in 0 .. n - 1
  PROVE  /\ RunEnd(n, C, o) \in o + 1 .. n
         /\ RunEnd(n, C, o) = n \/ RunEnd(n, C, o) \in RunStarts(n, C)
         /\ \A p \in RunStarts(n, C) : o < p => RunEnd(n, C, o) <= p
<1> DEFINE S == {p \in RunStarts(n, C) \cup {n} : p > o}
<1>1. S \in SUBSET Nat /\ S # {} /\ S \subseteq 0 .. n
  <2>1. RunStarts(n, C) \subseteq 0 .. n
    BY DEF RunStarts
  <2>2. n \in S
    OBVIOUS
  <2> QED
    BY <2>1, <2>2
<1>2. PICK m \in S : \A x \in S : m <= x
  <2> HIDE DEF S
  <2> QED
    BY <1>1, LeastElement
<1>3. RunEnd(n, C, o) = m
  <2>1. RunEnd(n, C, o) = CHOOSE x \in S : \A y \in S : x <= y
    BY DEF RunEnd, Min
  <2> HIDE DEF S
  <2>2. \A x \in S : (\A y \in S : x <= y) => x = m
    BY <1>1, <1>2
  <2> QED
    BY <1>2, <2>1, <2>2
<1>4. m \in o + 1 .. n /\ (m = n \/ m \in RunStarts(n, C))
  BY <1>1, <1>2
<1>5. \A p \in RunStarts(n, C) : o < p => p \in S
  BY DEF RunStarts
<1> QED
  BY <1>2, <1>3, <1>4, <1>5

\* A run holds equal numbers.
LEMMA RunsAreEqual ==
  ASSUME NEW n \in Nat, NEW C, NEW s \in 0 .. n - 1, NEW o \in s .. RunEnd(n, C, s) - 1
  PROVE  o \in 0 .. n - 1 /\ C[o] = C[s]
<1>1. PICK e \in s + 1 .. n : e = RunEnd(n, C, s) /\ \A p \in RunStarts(n, C) : s < p => e <= p
  BY RunEndIs
<1> DEFINE S == {p \in s .. e - 1 : C[p] # C[s]}
<1>2. S = {}
  <2> SUFFICES ASSUME S # {} PROVE FALSE
    OBVIOUS
  <2>1. S \in SUBSET Nat
    OBVIOUS
  <2>2. PICK m \in S : \A x \in S : m <= x
    <3> HIDE DEF S
    <3> QED
      BY <2>1, LeastElement
  <2>3. m \in s .. e - 1 /\ m # s /\ C[m] # C[s]
    BY <2>2
  <2>4. m - 1 \in s .. e - 1 /\ m - 1 \notin S
    BY <2>2, <2>3
  <2>5. C[m] # C[m - 1]
    BY <2>3, <2>4
  <2>6. m \in RunStarts(n, C) /\ s < m
    BY <1>1, <2>3, <2>5 DEF RunStarts
  <2> QED
    BY <1>1, <2>3, <2>6
<1>3. o \in s .. e - 1
  BY <1>1
<1> QED
  BY <1>1, <1>2, <1>3

\* Equal numbers of rising ones are in one run.
LEMMA EqualsShareRun ==
  ASSUME NEW n \in Nat, NEW C \in [0 .. n - 1 -> Nat], \A o, p \in 0 .. n - 1 : o < p => C[o] <= C[p],
         NEW o \in 0 .. n - 1, NEW p \in 0 .. n - 1, o < p, C[o] = C[p]
  PROVE  \E s \in RunStarts(n, C) : s <= o /\ p < RunEnd(n, C, s)
<1> DEFINE S == {x \in RunStarts(n, C) : x <= o}
<1>1. S \in SUBSET (0 .. o) /\ S # {}
  <2>1. 0 \in S
    BY DEF RunStarts
  <2>2. \A x \in S : x \in 0 .. o
    BY DEF RunStarts
  <2> QED
    BY <2>1, <2>2
<1>2. PICK s \in S : \A x \in S : x <= s
  <2>1. o \in Nat
    OBVIOUS
  <2> HIDE DEF S
  <2> QED
    BY <1>1, <2>1, GreatestElement
<1>3. s \in RunStarts(n, C) /\ s \in 0 .. n - 1 /\ s <= o
  BY <1>2 DEF RunStarts
<1>4. PICK e \in s + 1 .. n : e = RunEnd(n, C, s) /\ (e = n \/ e \in RunStarts(n, C))
  BY <1>3, RunEndIs
<1>5. p < e
  <2> SUFFICES ASSUME e <= p PROVE FALSE
    BY <1>3, <1>4
  <2>1. e \in RunStarts(n, C) /\ e \in 1 .. n - 1
    BY <1>3, <1>4
  <2>2. o < e
    <3>1. e \in S => e <= s
      BY <1>2
    <3>2. e <= o => e \in S
      BY <2>1
    <3>3. ~(e <= s)
      BY <1>3, <1>4
    <3>4. ~(e <= o)
      BY <3>1, <3>2, <3>3
    <3> QED
      BY <3>4, <2>1
  <2>3. C[e] # C[e - 1] /\ e - 1 \in 0 .. n - 1
    BY <2>1 DEF RunStarts
  <2>4. C[o] <= C[e - 1]
    <3>1. o = e - 1 \/ o < e - 1
      BY <2>1, <2>2
    <3>2. C[o] \in Nat
      OBVIOUS
    <3> QED
      BY <2>3, <3>1, <3>2
  <2>5. C[e - 1] <= C[e]
    BY <2>1, <2>3
  <2>6. C[e] <= C[p]
    BY <2>1
  <2> QED
    BY <2>1, <2>3, <2>4, <2>5, <2>6
<1> QED
  BY <1>3, <1>4, <1>5

\* The last bytes of a chunk, as many as it has, are the chunk.
LEMMA WholeChunk ==
  ASSUME NEW q \in 0 .. Power[ChunkBytes] - 1
  PROVE  Low(q, ChunkBytes) = q /\ q \in Nat
<1>1. PICK p \in Nat \ {0} : p = Power[ChunkBytes]
  BY WidthAssumption, PowersArePositive
<1>2. q \in 0 .. p - 1 /\ 0 \in Nat
  BY <1>1
<1>3. (p * 0 + q) % p = q
  BY <1>1, <1>2, QuotientIs
<1>4. p * 0 + q = q
  BY <1>1, <1>2
<1>5. q % p = q
  BY <1>3, <1>4, Zenon
<1> QED
  BY <1>1, <1>2, <1>5 DEF Low

\* Entries with a smaller chunk are in place before those with a larger one,
\* entries with equal chunks are in turn and agree in the bytes of the chunk.
Separated(list, r, o, p) ==
  \/ source[o].chunk < source[p].chunk /\ Before(list[r.begin + o], list[r.begin + p])
  \/ /\ source[o].chunk = source[p].chunk
     /\ list[r.begin + o] < list[r.begin + p]
     /\ ~HasNextRange(r) => Before(list[r.begin + o], list[r.begin + p])

\* Written back, entries of different chunks are in place and equal chunks are
\* together.
LEMMA WriteOrderSeparates ==
  ASSUME StackInv, PassInv, WriteOrder
  PROVE  /\ IsStack(order', Append(pending, range))
         /\ order' \in [Places -> Places]
         /\ \A k \in 1 .. Len(pending) : InTurn(order', pending[k])
         /\ \A o \in Offsets(range) : source[o].chunk \in Nat
         /\ \A o, p \in Offsets(range) : o < p => Separated(order', range, o, p)
         /\ \A o, p \in Offsets(range) : source[o].chunk = source[p].chunk =>
              Leading(traits, id[order'[range.begin + o]], (range.chunk + 1) * ChunkBytes)
                = Leading(traits, id[order'[range.begin + p]], (range.chunk + 1) * ChunkBytes)
<1>1. pc = "write" /\ bytePass = ChunkBytes /\ IsArranged(range, source, ChunkBytes) /\ SizeOf(range) \in Nat
  BY DEF WriteOrder, PassInv
<1>2. /\ range \in Ranges /\ size \in Nat /\ traits \in ForestTraits /\ pending \in Seq(Ranges)
      /\ id \in [Places -> IdsOf(traits)] /\ order \in [Places -> Places]
      /\ IsStack(order, Append(pending, range)) /\ \A k \in 1 .. Len(pending) : InTurn(order, pending[k])
  BY <1>1, Opened DEF StackInv
<1>3. PICK b \in Nat, e \in Nat, c \in Nat : b = range.begin /\ e = range.end /\ c = range.chunk /\ c < Chunks /\ e <= size
  BY <1>2, RangeTypes
<1>4. PICK n \in Nat : n = e - b
  BY <1>1, <1>3 DEF SizeOf
<1>5. Offsets(range) = 0 .. n - 1 /\ Within(range) = b .. e - 1 /\ b .. e - 1 \subseteq Places
  BY <1>2, <1>3, <1>4, RangeTypes DEF Offsets, SizeOf, Within
<1>6. PICK after : after = order'
  OBVIOUS
<1>7. after = [i \in Places |-> IF i \in b .. e - 1 THEN source[i - b].index ELSE order[i]]
  BY <1>3, <1>6 DEF WriteOrder, Places
<1>8. ASSUME NEW o \in 0 .. n - 1
      PROVE  /\ b + o \in b .. e - 1 /\ b + o \in Places /\ after[b + o] = source[o].index
             /\ \E p \in Within(range) : source[o].index = order[p]
             /\ source[o].chunk = ChunkOf(id[after[b + o]], c) /\ source[o].chunk \in 0 .. Power[ChunkBytes] - 1
  <2>1. b + o \in b .. e - 1 /\ (b + o) - b = o
    BY <1>4
  <2>2. b + o \in Places
    BY <2>1, <1>5
  <2>3. after[b + o] = source[o].index
    BY <2>1, <2>2, <1>7
  <2>4. IsEntry(range, source[o])
    BY <1>1, <1>5 DEF IsArranged
  <2> QED
    BY <2>1, <2>2, <2>3, <2>4, <1>3 DEF IsEntry
<1>9. \A i \in Within(range) : \E p \in Within(range) : after[i] = order[p]
  <2>1. ASSUME NEW i \in b .. e - 1
        PROVE  \E p \in Within(range) : after[i] = order[p]
    <3>1. PICK o \in 0 .. n - 1 : b + o = i
      <4>1. i - b \in 0 .. n - 1 /\ b + (i - b) = i
        BY <1>4
      <4> QED
        BY <4>1
    <3> QED
      BY <3>1, <1>8
  <2> QED
    BY <2>1, <1>5
<1>10. \A i \in Places : i \notin Within(range) => after[i] = order[i]
  BY <1>5, <1>7
<1>11. after \in [Places -> Places]
  <2>1. \A i \in Places : after[i] \in Places
    BY <1>2, <1>5, <1>9, <1>10
  <2>2. after = [i \in Places |-> after[i]]
    BY <1>7
  <2> QED
    BY <2>1, <2>2
<1>12. id \in [Places -> Nat]
  BY <1>2, IdsAreNatural
<1>13. IsStack(after, Append(pending, range)) /\ \A k \in 1 .. Len(pending) : InTurn(after, pending[k])
  BY <1>2, <1>9, <1>10, <1>11, <1>12, RearrangeLast
<1>14. Agree(after, range)
  <2>1. PICK all : all = Append(pending, range)
    OBVIOUS
  <2>2. Len(all) = Len(pending) + 1 /\ Len(pending) \in Nat /\ all[Len(pending) + 1] = range
    BY <1>2, <2>1, AppendProperties
  <2>3. Len(pending) + 1 \in 1 .. Len(all)
    BY <2>2
  <2>4. IsStack(after, all)
    BY <1>13, <2>1
  <2> QED
    BY <2>2, <2>3, <2>4 DEF IsStack
<1>15. ASSUME NEW o \in 0 .. n - 1, NEW p \in 0 .. n - 1
       PROVE  /\ source[o].chunk < source[p].chunk => id[after[b + o]] < id[after[b + p]]
              /\ source[o].chunk = source[p].chunk =>
                   /\ Leading(traits, id[after[b + o]], (c + 1) * ChunkBytes)
                        = Leading(traits, id[after[b + p]], (c + 1) * ChunkBytes)
                   /\ ~(c + 1 < Chunks) => id[after[b + o]] = id[after[b + p]]
  <2>1. b + o \in b .. e - 1 /\ b + p \in b .. e - 1 /\ b + o \in Places /\ b + p \in Places
    BY <1>8
  <2>2. PICK x \in IdsOf(traits), y \in IdsOf(traits) : x = id[after[b + o]] /\ y = id[after[b + p]]
    BY <1>2, <1>11, <2>1
  <2>3. Leading(traits, x, c * ChunkBytes) = Leading(traits, y, c * ChunkBytes)
    BY <1>3, <1>5, <1>14, <2>1, <2>2 DEF Agree
  <2>4. source[o].chunk = ChunkOf(x, c) /\ source[p].chunk = ChunkOf(y, c)
    BY <1>8, <2>2
  <2>5. /\ ChunkOf(x, c) < ChunkOf(y, c) => x < y
        /\ ChunkOf(x, c) = ChunkOf(y, c) =>
             /\ Leading(traits, x, (c + 1) * ChunkBytes) = Leading(traits, y, (c + 1) * ChunkBytes)
             /\ ~(c + 1 < Chunks) => x = y
    <3>1. traits \in ForestTraits /\ c < Chunks
      BY <1>2, <1>3
    <3> QED
      BY <2>2, <2>3, <3>1, ChunksTellApart
  <2> QED
    BY <2>2, <2>4, <2>5
<1>16. \A o \in 0 .. n - 1 : source[o].chunk \in Nat
  BY <1>8, WholeChunk
<1>17. ASSUME NEW o \in 0 .. n - 1, NEW p \in 0 .. n - 1, o < p
       PROVE  Separated(after, range, o, p)
  <2>1. InLine(source[o], source[p], ChunkBytes)
    BY <1>1, <1>5, <1>17 DEF IsArranged
  <2>2. Low(source[o].chunk, ChunkBytes) = source[o].chunk /\ Low(source[p].chunk, ChunkBytes) = source[p].chunk
    BY <1>8, WholeChunk
  <2>3. /\ after[b + o] = source[o].index /\ after[b + p] = source[p].index
    BY <1>8
  <2>4. \/ source[o].chunk < source[p].chunk
        \/ source[o].chunk = source[p].chunk /\ after[b + o] < after[b + p]
    BY <2>1, <2>2, <2>3 DEF InLine
  <2>5. HasNextRange(range) <=> c + 1 < Chunks
    BY <1>3 DEF HasNextRange, NextChunk
  <2>6. CASE source[o].chunk < source[p].chunk
    BY <1>3, <1>15, <2>6 DEF Separated, Before
  <2>7. CASE source[o].chunk = source[p].chunk /\ after[b + o] < after[b + p]
    BY <1>3, <1>15, <2>5, <2>7 DEF Separated, Before
  <2> QED
    BY <2>4, <2>6, <2>7
<1> QED
  BY <1>3, <1>5, <1>6, <1>11, <1>13, <1>15, <1>16, <1>17

\* The ranges of equal chunks, and that they are what the entries still need.
LEMMA NewRanges ==
  ASSUME StackInv, PassInv, WriteOrder, HasNextRange(range)
  PROVE  /\ ChunkRanges \in Seq(Ranges)
         /\ \A k \in 1 .. Len(ChunkRanges) :
              /\ range.begin <= ChunkRanges[k].begin /\ ChunkRanges[k].end <= range.end
              /\ Agree(order', ChunkRanges[k]) /\ InTurn(order', ChunkRanges[k])
         /\ \A k, l \in 1 .. Len(ChunkRanges) : k # l => Apart(ChunkRanges[k], ChunkRanges[l])
         /\ \A i, j \in Within(range) : i < j => Settled(order', ChunkRanges, i, j)
<1>1. SizeOf(range) \in Nat /\ pc = "write"
  BY DEF PassInv, WriteOrder
<1>2. range \in Ranges /\ size \in Nat /\ traits \in ForestTraits
  BY <1>1 DEF StackInv
<1>3. PICK b \in Nat, e \in Nat, c \in Nat : b = range.begin /\ e = range.end /\ c = range.chunk /\ c < Chunks /\ e <= size
  BY <1>2, RangeTypes
<1>4. PICK n \in Nat : n = e - b
  BY <1>1, <1>3 DEF SizeOf
<1>5. Offsets(range) = 0 .. n - 1 /\ Within(range) = b .. e - 1 /\ SizeOf(range) = n
  BY <1>3, <1>4 DEF Offsets, SizeOf, Within
<1>n. b \in Nat /\ e \in Nat /\ n \in Nat /\ n = e - b /\ e <= size /\ size \in Nat
  BY <1>2, <1>3, <1>4
<1>6. PICK after : after = order'
  OBVIOUS
<1>7. /\ \A o \in 0 .. n - 1 : source[o].chunk \in Nat
      /\ \A o, p \in 0 .. n - 1 : o < p => Separated(after, range, o, p)
      /\ \A o, p \in 0 .. n - 1 : source[o].chunk = source[p].chunk =>
           Leading(traits, id[after[b + o]], (c + 1) * ChunkBytes)
             = Leading(traits, id[after[b + p]], (c + 1) * ChunkBytes)
  <2>1. /\ \A o \in Offsets(range) : source[o].chunk \in Nat
        /\ \A o, p \in Offsets(range) : o < p => Separated(after, range, o, p)
        /\ \A o, p \in Offsets(range) : source[o].chunk = source[p].chunk =>
             Leading(traits, id[after[range.begin + o]], (range.chunk + 1) * ChunkBytes)
               = Leading(traits, id[after[range.begin + p]], (range.chunk + 1) * ChunkBytes)
    BY <1>6, WriteOrderSeparates
  <2>2. range.begin = b /\ range.chunk = c /\ Offsets(range) = 0 .. n - 1
    BY <1>3, <1>5
  <2> QED
    BY <2>1, <2>2
<1>8. PICK C \in [0 .. n - 1 -> Nat] : \A o \in 0 .. n - 1 : C[o] = source[o].chunk
  <2> DEFINE C == [o \in 0 .. n - 1 |-> source[o].chunk]
  <2>1. C \in [0 .. n - 1 -> Nat] /\ \A o \in 0 .. n - 1 : C[o] = source[o].chunk
    BY <1>7
  <2> HIDE DEF C
  <2> QED
    BY <2>1
<1>9. ASSUME NEW o \in 0 .. n - 1, NEW p \in 0 .. n - 1, o < p
      PROVE  C[o] <= C[p] /\ (C[o] < C[p] => Before(after[b + o], after[b + p])) /\ (C[o] = C[p] => after[b + o] < after[b + p])
  <2>1. Separated(after, range, o, p)
    BY <1>7, <1>9
  <2>2. C[o] \in Nat /\ C[p] \in Nat /\ C[o] = source[o].chunk /\ C[p] = source[p].chunk
    BY <1>8
  <2>3. C[o] < C[p] \/ C[o] = C[p]
    BY <2>1, <2>2 DEF Separated
  <2>a. /\ C[o] < C[p] => Before(after[range.begin + o], after[range.begin + p])
        /\ C[o] = C[p] => after[range.begin + o] < after[range.begin + p]
    BY <2>1, <2>2 DEF Separated
  <2>b. range.begin = b
    BY <1>3
  <2>4. C[o] < C[p] => Before(after[b + o], after[b + p])
    BY <2>a, <2>b
  <2>5. C[o] = C[p] => after[b + o] < after[b + p]
    BY <2>a, <2>b
  <2> QED
    BY <2>2, <2>3, <2>4, <2>5
<1>10. ChunkStarts = RunStarts(n, C)
  <2>1. \A o \in 0 .. n - 1 : o = 0 \/ (o - 1 \in 0 .. n - 1)
    OBVIOUS
  <2> QED
    BY <2>1, <1>5, <1>8 DEF ChunkStarts, RunStarts
<1>11. \A o : ChunkEnd(o) = RunEnd(n, C, o)
  BY <1>5, <1>10 DEF ChunkEnd, RunEnd
<1>12. ASSUME NEW s \in ChunkStarts
       PROVE  /\ s \in 0 .. n - 1 /\ ChunkEnd(s) \in s + 1 .. n
              /\ \A o \in s .. ChunkEnd(s) - 1 : o \in 0 .. n - 1 /\ C[o] = C[s]
              /\ \A u \in ChunkStarts : s < u => ChunkEnd(s) <= u
  <2>1. s \in 0 .. n - 1
    BY <1>10 DEF RunStarts
  <2>2. RunEnd(n, C, s) \in s + 1 .. n /\ \A p \in RunStarts(n, C) : s < p => RunEnd(n, C, s) <= p
    BY <1>4, <2>1, RunEndIs
  <2>3. \A o \in s .. RunEnd(n, C, s) - 1 : o \in 0 .. n - 1 /\ C[o] = C[s]
    BY <1>4, <2>1, RunsAreEqual
  <2> QED
    BY <2>1, <2>2, <2>3, <1>10, <1>11
<1>13. ASSUME NEW s \in ChunkStarts
       PROVE  /\ RangeAt(s) \in Ranges
              /\ RangeAt(s).begin = b + s /\ RangeAt(s).end = b + ChunkEnd(s) /\ RangeAt(s).chunk = c + 1
  <2>1. b + s \in 0 .. size /\ b + ChunkEnd(s) \in 0 .. size
    <3>1. s \in 0 .. n - 1 /\ ChunkEnd(s) \in s + 1 .. n
      BY <1>12
    <3>2. PICK z \in s + 1 .. n : z = ChunkEnd(s)
      BY <3>1
    <3>3. b + s \in 0 .. size /\ b + z \in 0 .. size
      BY <1>n, <3>1, <3>2
    <3> QED
      BY <3>2, <3>3
  <2>2. c + 1 \in 0 .. Chunks - 1
    <3>1. Chunks \in Nat
      BY <1>2, WidthAssumption, ChunkNumbers DEF Chunks
    <3>2. c + 1 < Chunks
      BY <1>3 DEF HasNextRange, NextChunk
    <3> QED
      BY <3>1, <3>2
  <2>3. RangeAt(s) = [begin |-> b + s, end |-> b + ChunkEnd(s), chunk |-> c + 1]
    BY <1>3 DEF RangeAt, NextChunk
  <2> QED
    BY <2>1, <2>2, <2>3 DEF Ranges

\* The places of a range and the offsets of its run.
<1>14. ASSUME NEW s \in ChunkStarts, NEW i \in Within(RangeAt(s))
       PROVE  \E o \in 0 .. n - 1 : i = b + o /\ C[o] = C[s]
  <2>1. s \in 0 .. n - 1 /\ \A o \in s .. ChunkEnd(s) - 1 : o \in 0 .. n - 1 /\ C[o] = C[s]
    BY <1>12
  <2>2. PICK z \in s + 1 .. n : z = ChunkEnd(s)
    BY <1>12
  <2>3. i \in b + s .. (b + z) - 1
    BY <1>13, <1>14, <2>2 DEF Within
  <2>4. i - b \in s .. z - 1 /\ i = b + (i - b)
    BY <1>n, <2>1, <2>2, <2>3
  <2> QED
    BY <2>1, <2>2, <2>4
<1>15. ASSUME NEW s \in ChunkStarts
       PROVE  /\ b <= RangeAt(s).begin /\ RangeAt(s).end <= e
              /\ Agree(after, RangeAt(s)) /\ InTurn(after, RangeAt(s))
  <2>1. b <= RangeAt(s).begin /\ RangeAt(s).end <= e
    <3>1. PICK z \in s + 1 .. n : z = ChunkEnd(s) /\ s \in 0 .. n - 1
      BY <1>12
    <3>2. b <= b + s /\ b + z <= e
      BY <1>n, <3>1
    <3> QED
      BY <1>13, <3>1, <3>2
  <2>2. ASSUME NEW i \in Within(RangeAt(s)), NEW j \in Within(RangeAt(s))
        PROVE  /\ Leading(traits, id[after[i]], (c + 1) * ChunkBytes) = Leading(traits, id[after[j]], (c + 1) * ChunkBytes)
               /\ i < j => after[i] < after[j]
    <3>1. PICK o \in 0 .. n - 1 : i = b + o /\ C[o] = C[s]
      BY <1>14
    <3>2. PICK p \in 0 .. n - 1 : j = b + p /\ C[p] = C[s]
      BY <1>14
    <3>3. C[o] = C[p] /\ source[o].chunk = source[p].chunk
      BY <3>1, <3>2, <1>8
    <3>4. i < j => o < p
      BY <3>1, <3>2, <1>3
    <3>5. Leading(traits, id[after[b + o]], (c + 1) * ChunkBytes) = Leading(traits, id[after[b + p]], (c + 1) * ChunkBytes)
      BY <3>3, <1>7
    <3>6. o < p => after[b + o] < after[b + p]
      BY <3>3, <1>9
    <3> QED
      BY <3>1, <3>2, <3>4, <3>5, <3>6
  <2> QED
    BY <2>1, <2>2, <1>13 DEF Agree, InTurn
<1>16. ASSUME NEW s \in ChunkStarts, NEW u \in ChunkStarts, s < u
       PROVE  Apart(RangeAt(s), RangeAt(u)) /\ Apart(RangeAt(u), RangeAt(s))
  <2>1. ChunkEnd(s) <= u
    BY <1>12, <1>16
  <2>2. b + ChunkEnd(s) <= b + u
    <3>1. PICK z \in s + 1 .. n : z = ChunkEnd(s) /\ s \in 0 .. n - 1
      BY <1>12
    <3>2. u \in 0 .. n - 1
      BY <1>12
    <3>3. b + z <= b + u
      BY <1>n, <2>1, <3>1, <3>2
    <3> QED
      BY <3>1, <3>3
  <2> QED
    BY <2>2, <1>13 DEF Apart
<1>17. ASSUME NEW i \in b .. e - 1, NEW j \in b .. e - 1, i < j
       PROVE  Before(after[i], after[j]) \/ \E s \in ChunkStarts : i \in Within(RangeAt(s)) /\ j \in Within(RangeAt(s))
  <2>1. PICK o \in 0 .. n - 1, p \in 0 .. n - 1 : o = i - b /\ p = j - b /\ b + o = i /\ b + p = j /\ o < p
    <3>1. i \in Int /\ j \in Int
      OBVIOUS
    <3>2. i - b \in 0 .. n - 1 /\ j - b \in 0 .. n - 1 /\ b + (i - b) = i /\ b + (j - b) = j /\ i - b < j - b
      BY <1>n, <1>17, <3>1
    <3> QED
      BY <3>2
  <2>2. CASE C[o] < C[p]
    BY <2>1, <2>2, <1>9
  <2>3. CASE C[o] = C[p]
    <3>1. \A x, y \in 0 .. n - 1 : x < y => C[x] <= C[y]
      BY <1>9
    <3>2. PICK s \in RunStarts(n, C) : s <= o /\ p < RunEnd(n, C, s)
      BY <1>8, <2>1, <2>3, <3>1, EqualsShareRun
    <3>3. s \in ChunkStarts /\ p < ChunkEnd(s) /\ s \in 0 .. n - 1 /\ ChunkEnd(s) \in s + 1 .. n
      BY <3>2, <1>10, <1>11, <1>12
    <3>4. PICK z \in s + 1 .. n : z = ChunkEnd(s)
      BY <3>3
    <3>5. i \in b + s .. (b + z) - 1 /\ j \in b + s .. (b + z) - 1
      BY <1>n, <2>1, <3>2, <3>3, <3>4
    <3>6. Within(RangeAt(s)) = b + s .. (b + z) - 1
      BY <1>13, <3>3, <3>4 DEF Within
    <3>7. i \in Within(RangeAt(s)) /\ j \in Within(RangeAt(s))
      BY <3>5, <3>6
    <3> QED
      BY <3>3, <3>7
  <2>4. C[o] <= C[p] /\ C[o] \in Nat /\ C[p] \in Nat
    BY <1>8, <1>9, <2>1
  <2> QED
    BY <2>2, <2>3, <2>4
<1>18. PICK row, R : /\ row = ChunkRanges /\ R = [o \in ChunkStarts |-> RangeAt(o)]
                     /\ \A s \in ChunkStarts : R[s] = RangeAt(s)
  <2> DEFINE R == [o \in ChunkStarts |-> RangeAt(o)]
  <2>1. \A s \in ChunkStarts : R[s] = RangeAt(s)
    OBVIOUS
  <2>2. R = [o \in ChunkStarts |-> RangeAt(o)]
    OBVIOUS
  <2> HIDE DEF R
  <2> QED
    BY <2>1, <2>2
<1>19. InRow(ChunkStarts, R, Ranges, n, row)
  BY <1>1, <1>3, <1>5, <1>13, <1>18, ChunkRangesAre
<1>20. row \in Seq(Ranges) /\ Len(row) \in Nat
  BY <1>19 DEF InRow
<1>21. \A k \in 1 .. Len(row) : \E s \in ChunkStarts : row[k] = RangeAt(s)
  BY <1>18, <1>19 DEF InRow
<1>22. \A s \in ChunkStarts : \E k \in 1 .. Len(row) : row[k] = RangeAt(s)
  <2>1. \A s \in ChunkStarts : s < n
    BY <1>4, <1>12
  <2>2. \A s \in ChunkStarts : s < n => \E k \in 1 .. Len(row) : row[k] = R[s]
    BY <1>19 DEF InRow
  <2> QED
    BY <2>1, <2>2, <1>18
<1>23. ASSUME NEW k \in 1 .. Len(row), NEW l \in 1 .. Len(row), k # l
       PROVE  Apart(row[k], row[l])
  <2>1. CASE k < l
    <3>1. PICK s \in ChunkStarts, u \in ChunkStarts : s < u /\ row[k] = RangeAt(s) /\ row[l] = RangeAt(u)
      BY <2>1, <1>18, <1>19 DEF InRow
    <3> QED
      BY <3>1, <1>16
  <2>2. CASE l < k
    <3>1. PICK s \in ChunkStarts, u \in ChunkStarts : s < u /\ row[l] = RangeAt(s) /\ row[k] = RangeAt(u)
      BY <2>2, <1>18, <1>19 DEF InRow
    <3> QED
      BY <3>1, <1>16
  <2> QED
    BY <2>1, <2>2, <1>20, <1>23
<1>24. ASSUME NEW i \in b .. e - 1, NEW j \in b .. e - 1, i < j
       PROVE  Settled(after, row, i, j)
  BY <1>17, <1>22, <1>24 DEF Settled
<1> QED
  BY <1>3, <1>5, <1>6, <1>15, <1>18, <1>20, <1>21, <1>23, <1>24

\* The ranges pushed after a pass leave no pair of entries unaccounted for.
LEMMA WriteOrderKeeps ==
  ASSUME StackInv, PassInv, WriteOrder
  PROVE  StackInv' /\ pc' = "pop"
<1>1. pc = "write" /\ pc' = "pop" /\ UNCHANGED <<traits, size, id>>
      /\ pending' = IF HasNextRange(range) THEN pending \o ChunkRanges ELSE pending
  BY DEF WriteOrder, client
<1>2. range \in Ranges /\ size \in Nat /\ traits \in ForestTraits /\ pending \in Seq(Ranges)
  BY <1>1 DEF StackInv
<1>3. PICK after : after = order'
  OBVIOUS
<1>4. /\ IsStack(after, Append(pending, range)) /\ after \in [Places -> Places]
      /\ \A k \in 1 .. Len(pending) : InTurn(after, pending[k])
      /\ \A o \in Offsets(range) : source[o].chunk \in Nat
      /\ \A o, p \in Offsets(range) : o < p => Separated(after, range, o, p)
  BY <1>3, WriteOrderSeparates
<1>5. Open' = pending'
  BY <1>1 DEF Open
<1>6. CASE HasNextRange(range)
  <2>1. PICK more : more = ChunkRanges
    OBVIOUS
  <2>2. /\ more \in Seq(Ranges)
        /\ \A k \in 1 .. Len(more) :
             /\ range.begin <= more[k].begin /\ more[k].end <= range.end
             /\ Agree(after, more[k]) /\ InTurn(after, more[k])
        /\ \A k, l \in 1 .. Len(more) : k # l => Apart(more[k], more[l])
        /\ \A i, j \in Within(range) : i < j => Settled(after, more, i, j)
    BY <1>3, <1>6, <2>1, NewRanges
  <2>3. IsStack(after, pending \o more)
    BY <1>2, <1>4, <2>2, ReplaceLast
  <2>4. pending' = pending \o more
    BY <1>1, <1>6, <2>1
  <2>5. pending' \in Seq(Ranges) /\ \A k \in 1 .. Len(pending') : InTurn(after, pending'[k])
    <3>1. /\ pending \o more \in Seq(Ranges) /\ Len(pending \o more) = Len(pending) + Len(more)
          /\ \A k \in 1 .. Len(pending) + Len(more) :
               (pending \o more)[k] = IF k <= Len(pending) THEN pending[k] ELSE more[k - Len(pending)]
      BY <1>2, <2>2, ConcatProperties
    <3>2. Len(pending) \in Nat /\ Len(more) \in Nat
      BY <1>2, <2>2
    <3>3. \A k \in 1 .. Len(pending) + Len(more) :
            IF k <= Len(pending) THEN k \in 1 .. Len(pending) ELSE k - Len(pending) \in 1 .. Len(more)
      BY <3>2
    <3>4. \A k \in 1 .. Len(pending) + Len(more) : InTurn(after, (pending \o more)[k])
      BY <1>4, <2>2, <3>1, <3>3
    <3> QED
      BY <2>4, <3>1, <3>4
  <2> QED
    BY <1>1, <1>3, <1>4, <1>5, <2>3, <2>4, <2>5, NextStack
<1>7. CASE ~HasNextRange(range)
  <2>1. PICK b \in Nat, e \in Nat : b = range.begin /\ e = range.end
    BY <1>2, RangeTypes
  <2>2. ASSUME NEW i \in b .. e - 1, NEW j \in b .. e - 1, i < j
        PROVE  Before(after[i], after[j])
    <3>1. PICK o \in Nat, p \in Nat : o \in 0 .. e - b - 1 /\ p \in 0 .. e - b - 1 /\ b + o = i /\ b + p = j /\ o < p
      <4>1. i - b \in Nat /\ j - b \in Nat /\ i - b \in 0 .. e - b - 1 /\ j - b \in 0 .. e - b - 1
        BY <2>1
      <4>2. b + (i - b) = i /\ b + (j - b) = j /\ i - b < j - b
        BY <2>1, <2>2
      <4> QED
        BY <4>1, <4>2
    <3>2. o \in Offsets(range) /\ p \in Offsets(range)
      BY <2>1, <3>1 DEF Offsets, SizeOf
    <3>3. Separated(after, range, o, p)
      BY <1>4, <3>1, <3>2
    <3> QED
      BY <1>7, <2>1, <3>1, <3>3 DEF Separated
  <2>3. \A i, j \in Within(range) : i < j => Before(after[i], after[j])
    BY <2>1, <2>2 DEF Within
  <2>4. IsStack(after, pending)
    BY <1>2, <1>4, <2>3, DropLast
  <2>5. pending' = pending
    BY <1>1, <1>7
  <2> QED
    BY <1>1, <1>2, <1>3, <1>4, <1>5, <2>4, <2>5, NextStack
<1> QED
  BY <1>6, <1>7
-----------------------------------------------------------------------------
(* Whole sorts *)

\* A sort begins with one range of everything, or with nothing to do.
LEMMA BeginSortStarts ==
  ASSUME traits \in TraitsKinds, BeginSort
  PROVE  IF pc' = "sorted" THEN SortedStably' ELSE pc' = "pop" /\ StackInv'
<1>1. /\ size' \in Nat /\ traits' = traits /\ id' \in [0 .. size' - 1 -> Ids]
      /\ order' = [i \in 0 .. size' - 1 |-> i] /\ Places' = 0 .. size' - 1
  BY SizesAssumption DEF BeginSort, Places
<1>2. CASE size' <= 1
  <2>1. pc' = "sorted"
    BY <1>2 DEF BeginSort
  <2>2. PICK n \in Nat : n = size'
    BY <1>1
  <2>3. n <= 1
    BY <1>2, <2>2
  <2>4. \A i, j \in 0 .. n - 1 : ~(i < j)
    BY <2>3
  <2>5. \A i, j \in 0 .. size' - 1 : ~(i < j)
    BY <2>2, <2>4, Zenon
  <2> QED
    BY <2>1, <2>5 DEF SortedStably
<1>3. CASE size' > 1
  <2>1. pc' = "pop" /\ pending' = <<[begin |-> 0, end |-> size', chunk |-> 0]>>
    BY <1>1, <1>3 DEF BeginSort
  <2>2. PICK n \in Nat : n = size'
    BY <1>1
  <2>3. PICK r : r = [begin |-> 0, end |-> n, chunk |-> 0]
    OBVIOUS
  <2>4. PICK stack : stack = pending' /\ stack = <<r>>
    BY <2>1, <2>2, <2>3
  <2>5. traits \in ForestTraits
    BY TraitsAssumption
  <2>6. 0 \in 0 .. Chunks - 1
    BY <2>5, WidthAssumption, ChunkNumbers DEF Chunks
  <2>7. Chunks' = Chunks
    BY <1>1 DEF Chunks
  <2>8. r \in Ranges' /\ r.begin = 0 /\ r.end = n /\ r.chunk = 0
    <3>1. Ranges' = [begin : 0 .. n, end : 0 .. n, chunk : 0 .. Chunks - 1]
      BY <2>2, <2>7 DEF Ranges
    <3> QED
      BY <2>3, <2>6, <3>1
  <2>9. stack \in Seq(Ranges') /\ Len(stack) = 1 /\ stack[1] = r
    <3>1. \A S : r \in S => <<r>> \in Seq(S)
      OBVIOUS
    <3>2. Len(<<r>>) = 1 /\ <<r>>[1] = r
      OBVIOUS
    <3> QED
      BY <2>4, <2>8, <3>1, <3>2
  <2>10. \A k \in 1 .. Len(stack) : k = 1
    BY <2>9
  <2>11. /\ id' \in [Places' -> IdsOf(traits)'] /\ order' \in [Places' -> Places']
         /\ \A i \in 0 .. n - 1 : order'[i] = i /\ id'[i] \in IdsOf(traits)
    <3>1. Ids \subseteq IdsOf(traits) /\ IdsOf(traits)' = IdsOf(traits)
      BY <1>1, IdsAssumption DEF IdsOf
    <3>2. id' \in [0 .. n - 1 -> IdsOf(traits)]
      BY <1>1, <2>2, <3>1
    <3> QED
      BY <1>1, <2>2, <3>1, <3>2
  <2>12. \A i \in 0 .. n - 1 : Leading(traits, id'[order'[i]], 0 * ChunkBytes) = 0
    <3>1. 0 * ChunkBytes = 0
      BY WidthAssumption
    <3>2. \A i \in IdsOf(traits) : Leading(traits, i, 0) = 0
      BY <2>5, NothingLeads DEF IdsOf
    <3> QED
      BY <2>11, <3>1, <3>2
  <2>13. Agree(order, r)'
    <3>1. Within(r)' = 0 .. n - 1 /\ r' = r
      BY <2>8 DEF Within
    <3> QED
      BY <1>1, <2>8, <2>12, <3>1 DEF Agree
  <2>14. \A i, j \in 0 .. n - 1 : Settled(order, stack, i, j)'
    <3>1. 1 \in 1 .. Len(stack) /\ Within(stack[1]) = 0 .. n - 1
      BY <2>8, <2>9 DEF Within
    <3> QED
      BY <3>1 DEF Settled, Within
  <2>15. IsStack(order, stack)'
    BY <1>1, <2>2, <2>9, <2>10, <2>13, <2>14 DEF IsStack
  <2>16. Open' = stack
    BY <2>1, <2>4 DEF Open
  <2>17. \A k \in 1 .. Len(stack) : InTurn(order, stack[k])'
    <3>1. Within(r) = 0 .. n - 1
      BY <2>8 DEF Within
    <3>2. InTurn(order', r)
      BY <2>11, <3>1 DEF InTurn
    <3> QED
      BY <2>9, <2>10, <3>2 DEF InTurn, Within
  <2>18. IsStack(order, Open)' /\ pending' \in Seq(Ranges')
    BY <2>4, <2>9, <2>15, <2>16
  <2>19. \A k \in 1 .. Len(pending') : InTurn(order, pending[k])'
    BY <2>4, <2>17
  <2> QED
    BY <1>1, <2>1, <2>5, <2>11, <2>18, <2>19 DEF StackInv
<1> QED
  BY <1>1, <1>2, <1>3

\* With no range waiting everything is in place.
LEMMA EndSortSorts ==
  ASSUME StackInv, EndSort
  PROVE  SortedStably'
<1>1. pc = "pop" /\ pending = << >> /\ UNCHANGED <<size, id, order>>
  BY DEF EndSort, client, workspace
<1>2. Open = << >> /\ Len(<< >>) = 0
  BY <1>1 DEF Open
<1>3. \A i, j \in Places : i < j => Before(order[i], order[j])
  <2>1. \A i, j \in Places : i < j => Settled(order, << >>, i, j)
    BY <1>2 DEF StackInv, IsStack
  <2>2. ~\E k \in 1 .. Len(<< >>) : TRUE
    BY <1>2
  <2> QED
    BY <2>1, <2>2 DEF Settled
<1> QED
  BY <1>1, <1>3 DEF SortedStably, Before, Places

\* The steps of a pass keep the invariant.
LEMMA PassSteps ==
  ASSUME CountersInv, SortInv, CountDigits \/ ScatterPass \/ EndPass
  PROVE  SortInv'
<1>1. /\ pc \in Passes /\ pc' \in Passes /\ UNCHANGED <<traits, size, id, order, pending, range>>
      /\ pc # "pop" /\ pc' # "pop" /\ pc' # "small" /\ pc' # "sorted"
  BY DEF CountDigits, ScatterPass, EndPass, client, Passes
<1>2. StackInv /\ PassInv
  BY <1>1 DEF SortInv, IsActive
<1>3. PassInv'
  BY <1>2, CountDigitsCounts, ScatterPassArranges, EndPassGoesOn
<1>4. Open' = Open /\ range' \in Ranges
  BY <1>1, <1>2 DEF Open, StackInv
<1>5. StackInv'
  BY <1>1, <1>2, <1>4, SameStack
<1> QED
  BY <1>1, <1>3, <1>5 DEF SortInv, SortedStably

\* Every step keeps the invariant.
LEMMA NextKeepsSortInv ==
  ASSUME CountersInv, SortInv, [Next]_vars
  PROVE  SortInv'
<1> USE DEF IsActive, Passes
<1>1. CASE BeginSort
  <2>1. traits' = traits /\ traits \in TraitsKinds
    BY <1>1 DEF BeginSort, SortInv
  <2>2. IF pc' = "sorted" THEN SortedStably' ELSE pc' = "pop" /\ StackInv'
    BY <1>1, <2>1, BeginSortStarts
  <2> QED
    BY <2>1, <2>2 DEF SortInv, SortedStably
<1>2. CASE SkipRange
  <2>1. StackInv /\ traits' = traits
    BY <1>2 DEF SortInv, SkipRange, client
  <2>2. StackInv' /\ pc' = "pop"
    BY <1>2, <2>1, SkipRangeKeeps
  <2> QED
    BY <2>1, <2>2 DEF SortInv, SortedStably
<1>3. CASE BeginSmall
  <2>1. StackInv /\ traits' = traits
    BY <1>3 DEF SortInv, BeginSmall, client
  <2>2. StackInv' /\ InsertionInv' /\ pc' = "small"
    BY <1>3, <2>1, BeginSmallInserts
  <2> QED
    BY <2>1, <2>2 DEF SortInv, SortedStably
<1>4. CASE InsertNext
  <2>1. StackInv /\ InsertionInv /\ traits' = traits
    BY <1>4 DEF SortInv, InsertNext, client
  <2>2. StackInv' /\ InsertionInv' /\ pc' = "small"
    BY <1>4, <2>1, InsertNextInserts
  <2> QED
    BY <2>1, <2>2 DEF SortInv, SortedStably
<1>5. CASE EndSmall
  <2>1. StackInv /\ InsertionInv /\ traits' = traits
    BY <1>5 DEF SortInv, EndSmall, client
  <2>2. StackInv' /\ pc' = "pop"
    BY <1>5, <2>1, EndSmallKeeps
  <2> QED
    BY <2>1, <2>2 DEF SortInv, SortedStably
<1>6. CASE PassRangeOn
  <2>1. StackInv /\ traits' = traits
    BY <1>6 DEF SortInv, PassRangeOn, client
  <2>2. StackInv' /\ pc' = "pop"
    BY <1>6, <2>1, PassRangeOnKeeps
  <2> QED
    BY <2>1, <2>2 DEF SortInv, SortedStably
<1>7. CASE BeginPasses
  <2>1. /\ StackInv /\ pc = "pop" /\ pending # <<>> /\ pc' # "pop" /\ UNCHANGED <<traits, size, id, order>>
        /\ pending' = Popped /\ range' = Top
    BY <1>7 DEF SortInv, BeginPasses, client
  <2>2. PassInv' /\ pc' = "count"
    BY <1>7, <2>1, BeginPassesArranges
  <2>3. StackInv'
    BY <2>1, TakeRange
  <2> QED
    BY <2>1, <2>2, <2>3 DEF SortInv, SortedStably
<1>8. CASE CountDigits \/ ScatterPass \/ EndPass
  BY <1>8, PassSteps
<1>9. CASE WriteOrder
  <2>1. StackInv /\ PassInv /\ traits' = traits
    BY <1>9 DEF SortInv, WriteOrder, client
  <2>2. StackInv' /\ pc' = "pop"
    BY <1>9, <2>1, WriteOrderKeeps
  <2> QED
    BY <2>1, <2>2 DEF SortInv, SortedStably
<1>10. CASE EndSort
  <2>1. StackInv /\ traits' = traits /\ pc' = "sorted"
    BY <1>10 DEF SortInv, EndSort, client
  <2>2. SortedStably'
    BY <1>10, <2>1, EndSortSorts
  <2> QED
    BY <2>1, <2>2 DEF SortInv
<1>11. CASE Return
  BY <1>11 DEF Return, SortInv, SortedStably, client
<1>12. CASE UNCHANGED vars
  <2>1. UNCHANGED <<traits, joins, size, id, pc, order, pending, range, source, destination, bytePass, scratch, keys, rangeIdx>>
    BY <1>12 DEF vars, client, workspace
  <2>2. pc = "sorted" => SortedStably'
    BY <2>1 DEF SortInv, SortedStably
  <2>3. IsActive => StackInv'
    <3>1. Open' = Open
      BY <2>1 DEF Open
    <3> QED
      BY <2>1, <3>1, SameStack DEF SortInv, StackInv
  <2>4. pc = "small" => InsertionInv'
    BY <2>1 DEF SortInv, InsertionInv, Before, Within, Offsets, SizeOf
  <2>5. pc \in Passes => PassInv'
    <3>1. SUFFICES ASSUME PassInv
                   PROVE  PassInv'
      BY DEF SortInv
    <3>2. PICK r, s, d, b, c : r = range /\ s = source /\ d = destination /\ b = bytePass /\ c = bytePass + 1
      OBVIOUS
    <3>3. /\ IsArranged(r, s, b) => IsArranged(r, s, b)'
          /\ IsArranged(r, d, c) => IsArranged(r, d, c)'
      BY <2>1, ArrangedStays
    <3>4. Counted => Counted'
      BY <2>1 DEF Counted, Counts, Kind, UsesWorkspaceCounters, SizeOf, Offsets, DigitAt, WordByte, Digits
    <3> QED
      BY <2>1, <3>1, <3>2, <3>3, <3>4 DEF PassInv, SizeOf
  <2> QED
    BY <2>1, <2>2, <2>3, <2>4, <2>5 DEF SortInv, SortedStably
<1> QED
  BY <1>1, <1>2, <1>3, <1>4, <1>5, <1>6, <1>7, <1>8, <1>9, <1>10, <1>11, <1>12
  DEF Next, Step, SmallStep, ChunkStep, AllSorted

\* Before the first sort there is nothing to keep.
LEMMA InitSortInv == Init => SortInv
BY DEF Init, SortInv, SortedStably, IsActive, Passes

\* The invariant says of waiting ranges what RangesAreSeparated does.
LEMMA SortInvSeparates == SortInv => RangesAreSeparated
<1> SUFFICES ASSUME SortInv, pc = "pop", NEW i \in Places, NEW j \in Places, i < j
             PROVE  \/ \E k \in 1 .. Len(pending) :
                         /\ {i, j} \subseteq pending[k].begin .. pending[k].end - 1
                         /\ LET suffix == Power[traits.idBytes - pending[k].chunk * ChunkBytes]
                            IN  id[order[i]] \div suffix = id[order[j]] \div suffix
                    \/ id[order[i]] <= id[order[j]]
  BY DEF RangesAreSeparated, Places
<1>1. StackInv /\ Open = pending
  BY DEF SortInv, IsActive, Open
<1>2. /\ size \in Nat /\ traits \in ForestTraits /\ id \in [Places -> IdsOf(traits)] /\ order \in [Places -> Places]
      /\ pending \in Seq(Ranges) /\ \A k \in 1 .. Len(pending) : Agree(order, pending[k])
      /\ Settled(order, pending, i, j)
  BY <1>1 DEF StackInv, IsStack
<1>3. CASE Before(order[i], order[j])
  <2>1. id[order[i]] \in Nat /\ id[order[j]] \in Nat
    BY <1>2, IdsAreNatural
  <2> QED
    BY <1>3, <2>1 DEF Before
<1>4. ASSUME NEW k \in 1 .. Len(pending), i \in Within(pending[k]), j \in Within(pending[k])
      PROVE  /\ {i, j} \subseteq pending[k].begin .. pending[k].end - 1
             /\ LET suffix == Power[traits.idBytes - pending[k].chunk * ChunkBytes]
                IN  id[order[i]] \div suffix = id[order[j]] \div suffix
  <2>1. pending[k] \in Ranges
    BY <1>2
  <2>2. PICK c \in Nat : c = pending[k].chunk /\ c < Chunks
    BY <1>2, <2>1, RangeTypes
  <2>3. c * ChunkBytes < traits.idBytes /\ traits.idBytes \in Nat /\ c * ChunkBytes \in Nat
    <3>1. c * ChunkBytes \in Nat
      BY <2>2, WidthAssumption
    <3>2. traits.idBytes \in Nat
      BY <1>2, IdsAreNatural
    <3>3. c < Chunks <=> c * ChunkBytes < traits.idBytes
      BY <1>2, <2>2, WidthAssumption, ChunkNumbers DEF Chunks
    <3> QED
      BY <2>2, <3>1, <3>2, <3>3
  <2>4. Leading(traits, id[order[i]], c * ChunkBytes) = Leading(traits, id[order[j]], c * ChunkBytes)
    BY <1>2, <1>4, <2>2 DEF Agree
  <2>5. c * ChunkBytes <= traits.idBytes
    BY <2>3
  <2>6. id[order[i]] \div Power[traits.idBytes - c * ChunkBytes] = id[order[j]] \div Power[traits.idBytes - c * ChunkBytes]
    BY <2>4, <2>5, Zenon DEF Leading
  <2>7. {i, j} \subseteq pending[k].begin .. pending[k].end - 1
    BY <1>4 DEF Within
  <2> QED
    BY <2>2, <2>6, <2>7, Zenon
<1> QED
  BY <1>2, <1>3, <1>4 DEF Settled

\* The inductive invariant of both results below: counters left clear, and
\* every pair of entries either in place or together in a range still to be
\* sorted, which agrees in all bytes before its chunk.
THEOREM SortStaysInOrder == Spec => [](CountersInv /\ SortInv)
BY InitCountersInv, InitSortInv, NextKeepsCountersInv, NextKeepsSortInv, PTL DEF Spec

\* The entries of a waiting range agree in all bytes before its chunk, and
\* entries no waiting range has both of are in their final order, for every
\* size, ids, traits, chunk width, thresholds and number of sorts.
THEOREM WaitingRangesAreSeparated == Spec => []RangesAreSeparated
BY SortStaysInOrder, SortInvSeparates, PTL

\* Every sort ends with the entries by id, equal ids as they came in, whichever
\* hooks the traits have and however the ranges were sorted.
THEOREM SortsStably == Spec => []SortedStably
<1>1. SortInv => SortedStably
  BY DEF SortInv
<1> QED
  BY <1>1, SortStaysInOrder, PTL

\* Whenever counting starts the workspace's counters are as new, whatever
\* ranges and sorts used them: the reset that does nothing is enough.
THEOREM NoCountIsLeftOver == Spec => []CountersAreClear
<1>1. CountersInv => CountersAreClear
  BY DEF CountersInv
<1> QED
  BY <1>1, InitCountersInv, NextKeepsCountersInv, PTL DEF Spec
=============================================================================
