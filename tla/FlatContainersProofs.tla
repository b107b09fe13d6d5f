------------------------- MODULE FlatContainersProofs -------------------------
(***************************************************************************)
(* Why probing ends and finds what was filed, and why the binary search of *)
(* a multimap yields the items of a key, for every set of keys, every hash *)
(* function and every number of calls.                                     *)
(***************************************************************************)
EXTENDS FlatContainers, FiniteSetTheorems, SequenceTheorems, WellFoundedInduction, TLAPS

-----------------------------------------------------------------------------
(* Numbers. *)

\* A set of numbers has a least element, which Min chooses.
LEMMA LeastOfAll ==
  ASSUME NEW T \in SUBSET Nat, T # {}
  PROVE  Min(T) \in T /\ \A k \in T : Min(T) <= k
<1> DEFINE R == OpToRel(<, Nat)
<1>1. IsWellFoundedOn(R, Nat)
  BY NatLessThanWellFounded
<1>2. \A x, y \in Nat : x < y => <<x, y>> \in R
  BY DEF OpToRel
<1> HIDE DEF R
<1>3. PICK m \in T : \A k \in T : <<k, m>> \notin R
  BY <1>1, WFMin, T # {}, T \subseteq Nat
<1>4. \A k \in T : m <= k
  <2>1. \A k \in T : ~(k < m)
    BY <1>2, <1>3
  <2> QED BY <2>1
<1> QED BY <1>4 DEF Min

\* What holds at first and from each step to the next holds of all steps.
LEMMA StepByStep ==
  ASSUME NEW N \in Nat, NEW T, 0 \in T, \A n \in 0 .. N - 1 : n \in T => n + 1 \in T
  PROVE  \A n \in 0 .. N : n \in T
<1> DEFINE U == {n \in 0 .. N : n \notin T}
<1> SUFFICES ASSUME U # {} PROVE FALSE
  OBVIOUS
<1> DEFINE m == Min(U)
<1>1. m \in U /\ \A k \in U : m <= k
  <2>1. U \in SUBSET Nat
    OBVIOUS
  <2> HIDE DEF U
  <2> QED BY <2>1, LeastOfAll
<1> HIDE DEF m
<1>2. m # 0 /\ m - 1 \in 0 .. N - 1
  BY <1>1
<1>3. m - 1 \in T
  BY <1>1, <1>2
<1> QED BY <1>1, <1>2, <1>3

\* A remainder is the one that leaves a multiple.
LEMMA Remainder ==
  ASSUME NEW a \in Nat, NEW c \in Nat, NEW q \in Nat, NEW r \in 0 .. c - 1, a = c * q + r
  PROVE  a % c = r
OBVIOUS

\* What division leaves.
LEMMA Division ==
  ASSUME NEW a \in Nat, NEW c \in Nat, c > 0
  PROVE  a % c \in 0 .. c - 1 /\ \E q \in Nat : a = c * q + (a % c)
<1> DEFINE q == a \div c
           r == a - c * q
<1>1. a \div c \in Nat
  OBVIOUS
<1>2. c * (a \div c) <= a
  OBVIOUS
<1>3. a < c * (a \div c) + c
  OBVIOUS
<1>4. q \in Nat /\ c * q \in Nat /\ c * q <= a /\ a < c * q + c
  BY <1>1, <1>2, <1>3
<1> HIDE DEF q
<1>5. r \in 0 .. c - 1 /\ a = c * q + r
  BY <1>4
<1> HIDE DEF r
<1>6. a % c = r
  BY <1>4, <1>5, Remainder
<1>7. a = c * q + (a % c)
  BY <1>5, <1>6, Zenon
<1>8. q \in Nat
  BY <1>4
<1> QED BY <1>5, <1>6, <1>7, <1>8, Zenon

\* Even and odd numbers.
Odd(a) == a % 2 = 1

\* A number is a double, or one more than a double.
LEMMA Halves ==
  ASSUME NEW a \in Nat
  PROVE  \E d \in Nat : (a % 2 = 0 /\ a = 2 * d) \/ (a % 2 = 1 /\ a = 2 * d + 1)
<1>1. PICK d \in Nat : a = 2 * d + (a % 2)
  BY Division
<1>2. a % 2 = 0 \/ a % 2 = 1
  OBVIOUS
<1>3. CASE a % 2 = 0
  <2>1. a = 2 * d + 0
    BY <1>1, <1>3, Zenon
  <2>2. a = 2 * d
    BY <2>1
  <2> QED BY <1>3, <2>2, Zenon
<1>4. CASE a % 2 = 1
  BY <1>1, <1>4
<1> QED BY <1>2, <1>3, <1>4

\* One more than a double is odd.
LEMMA OddRemainder == ASSUME NEW d \in Nat PROVE (2 * d + 1) % 2 = 1
<1> 2 * d + 1 \in Nat /\ 1 \in 0 .. 2 - 1
  OBVIOUS
<1> QED BY Remainder

\* n * (n + 1) is even.
LEMMA Pronic ==
  ASSUME NEW n \in Nat
  PROVE  (n * (n + 1)) \div 2 \in Nat /\ 2 * ((n * (n + 1)) \div 2) = n * (n + 1)
<1>1. \A e, t \in Nat : t = 2 * e => t \div 2 \in Nat /\ 2 * (t \div 2) = t
  OBVIOUS
<1>2. PICK d \in Nat : n = 2 * d \/ n = 2 * d + 1
  BY Halves
<1>3. n * (n + 1) \in Nat
  OBVIOUS
<1>4. CASE n = 2 * d
  <2>1. d * (n + 1) \in Nat /\ n * (n + 1) = 2 * (d * (n + 1))
    BY <1>4
  <2> QED BY <1>1, <1>3, <2>1
<1>5. CASE n = 2 * d + 1
  <2>1. n * (d + 1) \in Nat /\ n * (n + 1) = 2 * (n * (d + 1))
    BY <1>5
  <2> QED BY <1>1, <1>3, <2>1
<1> QED BY <1>2, <1>4, <1>5

\* d divides n.
Divides(d, n) == \E c \in Nat : n = d * c

\* Twos are not lost when an odd factor is dropped.
LEMMA OddFactor ==
  ASSUME NEW a \in Nat, NEW b \in Nat, Odd(a), Divides(2, a * b)
  PROVE  Divides(2, b)
<1>1. PICK d \in Nat : a = 2 * d + 1
  BY Halves DEF Odd
<1>2. PICK x \in Nat : a * b = 2 * x
  BY DEF Divides
<1> DEFINE c == x - d * b
<1>3. a * b = 2 * (d * b) + b
  BY <1>1
<1>4. d * b \in Nat
  OBVIOUS
<1>5. c \in Int /\ b = 2 * c
  BY <1>2, <1>3, <1>4
<1> HIDE DEF c
<1>6. c \in Nat
  BY <1>5
<1> QED BY <1>5, <1>6 DEF Divides

\* What cap and an odd number divide together, cap divides.
NoOddFactor(cap) == \A a, b \in Nat : Odd(a) /\ Divides(cap, a * b) => Divides(cap, b)

\* Doubling a size keeps that,
LEMMA TwiceHasNoOdd ==
  ASSUME NEW cap \in Nat, NoOddFactor(cap)
  PROVE  NoOddFactor(2 * cap)
<1> SUFFICES ASSUME NEW a \in Nat, NEW b \in Nat, Odd(a), Divides(2 * cap, a * b)
             PROVE  Divides(2 * cap, b)
  BY DEF NoOddFactor
<1>1. PICK q \in Nat : a * b = (2 * cap) * q
  BY DEF Divides
<1>2. cap * q \in Nat /\ a * b = 2 * (cap * q)
  BY <1>1
<1>3. Divides(2, a * b)
  BY <1>2 DEF Divides
<1>4. PICK c \in Nat : b = 2 * c
  BY <1>3, OddFactor DEF Divides
<1>5. a * c = cap * q
  <2>1. a * (2 * c) = 2 * (a * c) /\ a * c \in Nat
    OBVIOUS
  <2> QED BY <1>2, <1>4, <2>1
<1>6. Divides(cap, a * c)
  BY <1>5 DEF Divides
<1>7. PICK d \in Nat : c = cap * d
  BY <1>6 DEF NoOddFactor, Divides
<1>8. b = (2 * cap) * d
  BY <1>4, <1>7
<1> QED BY <1>8 DEF Divides

\* it holds of the size a table begins with,
LEMMA FourHasNoOdd == NoOddFactor(4)
<1>1. NoOddFactor(1)
  BY DEF NoOddFactor, Divides
<1>2. NoOddFactor(2)
  BY <1>1, TwiceHasNoOdd, 2 * 1 = 2
<1> QED BY <1>2, TwiceHasNoOdd, 2 * 2 = 4

\* and it makes the size a power of two.
LEMMA NoOddIsPower ==
  ASSUME NEW cap \in Nat, cap > 0, NoOddFactor(cap)
  PROVE  PowerOfTwo(cap)
<1> SUFFICES ASSUME NEW d \in 1 .. cap, cap % d = 0, d # 1, d % 2 # 0 PROVE FALSE
  BY DEF PowerOfTwo
<1>1. d \in Nat /\ d > 1 /\ Odd(d)
  BY Halves DEF Odd
<1>2. PICK e \in Nat : cap = d * e
  <2>1. PICK q \in Nat : cap = d * q + (cap % d)
    BY <1>1, d > 0, Division
  <2>2. d * q \in Nat
    BY <1>1
  <2> QED BY <2>1, <2>2
<1>3. Divides(cap, d * e)
  BY <1>2, d * e = cap * 1 DEF Divides
<1>4. PICK c \in Nat : e = cap * c
  BY <1>1, <1>3 DEF NoOddFactor, Divides
<1>5. c = 0 => e = 0
  BY <1>4
<1>6. e # 0
  BY <1>1, <1>2
<1>7. e >= cap
  BY <1>4, <1>5, <1>6
<1>8. d * e >= 2 * e
  BY <1>1
<1> QED BY <1>2, <1>6, <1>7, <1>8

-----------------------------------------------------------------------------
(* Probing: steps of 1, 2, 3, ... reach every slot of a table whose size is *)
(* a power of two.                                                          *)

\* Two of the first cap slots tried for a key are different slots.
LEMMA ProbesDiffer ==
  ASSUME NEW cap \in Nat, cap > 0, NoOddFactor(cap), NEW h \in Nat,
         NEW m \in Nat, NEW n \in Nat, m < n, n < cap
  PROVE  (h + (m * (m + 1)) \div 2) % cap # (h + (n * (n + 1)) \div 2) % cap
<1> DEFINE tm == (m * (m + 1)) \div 2
           tn == (n * (n + 1)) \div 2
<1>1. tm \in Nat /\ 2 * tm = m * (m + 1) /\ tn \in Nat /\ 2 * tn = n * (n + 1)
  BY Pronic
<1> HIDE DEF tm, tn
<1> SUFFICES ASSUME (h + tm) % cap = (h + tn) % cap PROVE FALSE
  BY DEF tm, tn
<1>2. h + tm \in Nat /\ h + tn \in Nat
  BY <1>1
<1>3. PICK p \in Nat : h + tm = cap * p + ((h + tm) % cap)
  BY <1>2, Division
<1>4. PICK q \in Nat : h + tn = cap * q + ((h + tn) % cap)
  BY <1>2, Division
<1>5. (h + tm) % cap \in Nat
  BY <1>2, Division
<1> DEFINE a == n - m
           b == n + m + 1
<1>6. a \in Nat /\ b \in Nat /\ 0 < a /\ a < 2 * cap /\ 0 < b /\ b < 2 * cap
  OBVIOUS
<1>7. a * b = n * (n + 1) - m * (m + 1)
  OBVIOUS
<1>8. tn - tm = cap * q - cap * p
  BY <1>1, <1>3, <1>4, <1>5
<1>9. q - p \in Nat
  <2>1. tm < tn
    <3>1. m * (m + 1) < n * (n + 1)
      BY <1>6, <1>7
    <3> QED BY <1>1, <3>1
  <2>2. cap * q > cap * p
    BY <1>1, <1>8, <2>1
  <2> QED BY <2>2
<1>10. a * b = (2 * cap) * (q - p)
  <2>1. a * b = 2 * (cap * q - cap * p)
    BY <1>1, <1>7, <1>8
  <2> QED BY <2>1
<1>11. b = 2 * m + 1 + a
  OBVIOUS
<1> HIDE DEF a, b
<1>12. NoOddFactor(2 * cap)
  BY TwiceHasNoOdd
<1>13. ~Odd(a)
  <2> SUFFICES ASSUME Odd(a) PROVE FALSE
    OBVIOUS
  <2>1. PICK c \in Nat : b = (2 * cap) * c
    <3>1. Divides(2 * cap, a * b)
      BY <1>9, <1>10 DEF Divides
    <3>2. Divides(2 * cap, b)
      BY <1>6, <1>12, <3>1 DEF NoOddFactor
    <3> QED BY <3>2 DEF Divides
  <2>2. c # 0
    BY <1>6, <2>1
  <2>3. (2 * cap) * c >= 2 * cap
    BY <2>2
  <2> QED BY <1>6, <2>1, <2>3
<1>14. ~Odd(b)
  <2> SUFFICES ASSUME Odd(b) PROVE FALSE
    OBVIOUS
  <2>1. b * a = (2 * cap) * (q - p)
    BY <1>6, <1>10
  <2>2. PICK c \in Nat : a = (2 * cap) * c
    <3>1. Divides(2 * cap, b * a)
      BY <1>9, <2>1 DEF Divides
    <3>2. Divides(2 * cap, a)
      BY <1>6, <1>12, <3>1 DEF NoOddFactor
    <3> QED BY <3>2 DEF Divides
  <2>3. c # 0
    BY <1>6, <2>2
  <2>4. (2 * cap) * c >= 2 * cap
    BY <2>3
  <2> QED BY <1>6, <2>2, <2>4
<1>15. PICK d \in Nat : a = 2 * d
  BY <1>6, <1>13, Halves DEF Odd
<1>16. b = 2 * (m + d) + 1 /\ m + d \in Nat
  BY <1>11, <1>15
<1> QED BY <1>14, <1>16, OddRemainder DEF Odd

\* Every slot of a table is tried for a key, and only slots of the table.
LEMMA ProbesEverySlot ==
  ASSUME NEW cap \in Nat, cap > 0, NoOddFactor(cap), NEW key, hash[key] \in Nat
  PROVE  /\ \A n \in Nat : ProbedSlot(key, cap, n) \in Slots(cap)
         /\ \A s \in Slots(cap) : \E n \in Slots(cap) : ProbedSlot(key, cap, n) = s
<1>1. ASSUME NEW n \in Nat PROVE ProbedSlot(key, cap, n) \in Slots(cap)
  <2>1. hash[key] + (n * (n + 1)) \div 2 \in Nat
    BY Pronic
  <2> QED BY <2>1, Division DEF ProbedSlot, Slots
<1> DEFINE f == [n \in Slots(cap) |-> ProbedSlot(key, cap, n)]
<1>2. Slots(cap) \subseteq Nat
  BY DEF Slots
<1>3. f \in [Slots(cap) -> Slots(cap)]
  BY <1>1, <1>2
<1>4. ASSUME NEW m \in Slots(cap), NEW n \in Slots(cap), m < n
      PROVE  f[m] # f[n]
  <2>1. m \in Nat /\ n \in Nat /\ n < cap
    BY DEF Slots
  <2> QED BY <1>4, <2>1, ProbesDiffer DEF ProbedSlot
<1>5. f \in Injection(Slots(cap), Slots(cap))
  <2>1. \A m, n \in Slots(cap) : m # n => m < n \/ n < m
    BY <1>2
  <2>2. \A m, n \in Slots(cap) : f[m] = f[n] => m = n
    BY <1>4, <2>1
  <2> HIDE DEF f
  <2> QED BY <1>3, <2>2 DEF Injection, IsInjective
<1>6. IsFiniteSet(Slots(cap))
  BY FS_Interval DEF Slots
<1>7. f \in Surjection(Slots(cap), Slots(cap))
  BY <1>5, <1>6, FS_Injection
<1>8. ASSUME NEW s \in Slots(cap) PROVE \E n \in Slots(cap) : ProbedSlot(key, cap, n) = s
  BY <1>7 DEF Surjection
<1> QED BY <1>1, <1>8

\* find_slot returns the first slot where the probe holds, when there is one.
LEMMA FindsFirst ==
  ASSUME NEW cap \in Nat, NEW key, NEW probe, NEW n \in Slots(cap),
         probe[ProbedSlot(key, cap, n)]
  PROVE  \E m \in Slots(cap) :
           /\ FindSlot(key, cap, probe) = ProbedSlot(key, cap, m) /\ probe[ProbedSlot(key, cap, m)]
           /\ \A l \in Slots(m) : ~probe[ProbedSlot(key, cap, l)]
<1> DEFINE T == {l \in Slots(cap) : probe[ProbedSlot(key, cap, l)]}
           m == Min(T)
<1>1. T \in SUBSET Nat /\ T # {}
  BY DEF Slots
<1>2. m \in T /\ \A k \in T : m <= k
  BY <1>1, LeastOfAll
<1>3. FindSlot(key, cap, probe) = ProbedSlot(key, cap, m)
  BY DEF FindSlot
<1> HIDE DEF m
<1>4. ASSUME NEW l \in Slots(m) PROVE ~probe[ProbedSlot(key, cap, l)]
  BY <1>2 DEF Slots
<1> QED BY <1>2, <1>3, <1>4

-----------------------------------------------------------------------------
(* Tables. *)

\* The slots taken, and the keys they hold.
Taken(keys)  == {s \in DOMAIN keys : keys[s] # Empty}
Stored(keys) == {keys[s] : s \in Taken(keys)}

\* A look-up of key passes every slot it tries before s.
Reached(keys, cap, key, s) ==
  \E n \in Slots(cap) :
    /\ ProbedSlot(key, cap, n) = s
    /\ \A l \in Slots(n) : keys[ProbedSlot(key, cap, l)] \notin {Empty, key}

\* A table whose keys are found where they are.
SoundTable(keys, cap) ==
  /\ cap \in Nat /\ cap >= 4 /\ NoOddFactor(cap)
  /\ keys \in [Slots(cap) -> FlatKey \cup {Empty}]
  /\ \A s \in Taken(keys) : Reached(keys, cap, keys[s], s)

\* There are as many slots as the capacity.
LEMMA SlotsOf == ASSUME NEW cap \in Nat PROVE IsFiniteSet(Slots(cap)) /\ Cardinality(Slots(cap)) = cap
BY FS_Interval DEF Slots

\* The slots taken can be counted.
LEMMA TakenFinite ==
  ASSUME NEW keys, NEW cap \in Nat, DOMAIN keys = Slots(cap)
  PROVE  IsFiniteSet(Taken(keys)) /\ Cardinality(Taken(keys)) \in Nat
<1>1. Taken(keys) \subseteq Slots(cap)
  BY DEF Taken
<1> QED BY <1>1, SlotsOf, FS_Subset, FS_CardinalityType

\* One of the slots is empty while fewer are taken.
LEMMA HasRoom ==
  ASSUME NEW keys, NEW cap \in Nat, DOMAIN keys = Slots(cap), Cardinality(Taken(keys)) < cap
  PROVE  \E s \in Slots(cap) : keys[s] = Empty
<1> SUFFICES ASSUME \A s \in Slots(cap) : keys[s] # Empty PROVE FALSE
  OBVIOUS
<1>1. Taken(keys) = Slots(cap)
  BY DEF Taken
<1> QED BY <1>1, SlotsOf

\* No key is in two slots.
LEMMA OneSlotEach ==
  ASSUME NEW keys, NEW cap, SoundTable(keys, cap),
         NEW s \in Taken(keys), NEW t \in Taken(keys), keys[s] = keys[t]
  PROVE  s = t
<1> DEFINE key == keys[s]
<1>1. PICK n \in Slots(cap) : /\ ProbedSlot(key, cap, n) = s
                              /\ \A l \in Slots(n) : keys[ProbedSlot(key, cap, l)] \notin {Empty, key}
  BY DEF SoundTable, Reached
<1>2. PICK m \in Slots(cap) : /\ ProbedSlot(key, cap, m) = t
                              /\ \A l \in Slots(m) : keys[ProbedSlot(key, cap, l)] \notin {Empty, key}
  BY DEF SoundTable, Reached
<1> HIDE DEF key
<1>3. n \notin Slots(m) /\ m \notin Slots(n)
  BY <1>1, <1>2 DEF key
<1>4. n = m
  BY <1>3 DEF Slots
<1> QED BY <1>1, <1>2, <1>4

\* Where a look-up ends: at the key's slot if it is stored, at an empty one
\* the key can be put in if it is not.
LEMMA LookedUp ==
  ASSUME NEW keys, NEW cap, SoundTable(keys, cap), Cardinality(Taken(keys)) < cap,
         NEW key \in FlatKey, key # Empty, hash[key] \in Nat, NEW s, s = FindSlot(key, cap, Free(keys, key))
  PROVE  /\ s \in Slots(cap) /\ keys[s] \in {Empty, key}
         /\ Reached(keys, cap, key, s)
         /\ key \in Stored(keys) <=> keys[s] = key
         /\ \A t \in Taken(keys) : keys[t] = key => t = s
         /\ \E n \in Slots(cap) : Free(keys, key)[ProbedSlot(key, cap, n)]
<1> DEFINE probe == Free(keys, key)
<1>1. cap \in Nat /\ cap > 0 /\ NoOddFactor(cap) /\ DOMAIN keys = Slots(cap)
  BY DEF SoundTable
<1>2. \A t \in Slots(cap) : probe[t] <=> keys[t] \in {Empty, key}
  BY <1>1 DEF Free
<1> HIDE DEF probe
<1>3. /\ \A n \in Nat : ProbedSlot(key, cap, n) \in Slots(cap)
      /\ \A t \in Slots(cap) : \E n \in Slots(cap) : ProbedSlot(key, cap, n) = t
  BY <1>1, ProbesEverySlot
<1>4. PICK n \in Slots(cap) : probe[ProbedSlot(key, cap, n)]
  BY <1>1, <1>2, <1>3, HasRoom
<1>5. PICK m \in Slots(cap) :
        /\ FindSlot(key, cap, probe) = ProbedSlot(key, cap, m) /\ probe[ProbedSlot(key, cap, m)]
        /\ \A l \in Slots(m) : ~probe[ProbedSlot(key, cap, l)]
  BY <1>1, <1>4, FindsFirst
<1>6. s = ProbedSlot(key, cap, m)
  BY <1>5 DEF probe
<1>7. m \in Nat /\ \A l \in Slots(m) : l \in Nat
  BY <1>1 DEF Slots
<1>8. s \in Slots(cap) /\ keys[s] \in {Empty, key}
  BY <1>2, <1>3, <1>5, <1>6, <1>7
<1>9. Reached(keys, cap, key, s)
  BY <1>2, <1>3, <1>5, <1>6, <1>7 DEF Reached
<1>10. ASSUME NEW t \in Taken(keys), keys[t] = key PROVE t = s
  <2>1. PICK k \in Slots(cap) : /\ ProbedSlot(key, cap, k) = t
                                /\ \A l \in Slots(k) : keys[ProbedSlot(key, cap, l)] \notin {Empty, key}
    BY <1>10 DEF SoundTable, Reached
  <2>2. m \notin Slots(k)
    BY <1>6, <1>8, <2>1
  <2>3. k \notin Slots(m)
    BY <1>2, <1>3, <1>5, <1>7, <1>10, <2>1 DEF Taken
  <2>4. k = m
    BY <1>1, <2>2, <2>3 DEF Slots
  <2> QED BY <1>6, <2>1, <2>4
<1>11. key \in Stored(keys) <=> keys[s] = key
  BY <1>1, <1>8, <1>10, key # Empty DEF Stored, Taken
<1> QED BY <1>4, <1>8, <1>9, <1>10, <1>11 DEF probe

\* A key put in an empty slot where its look-up ends.
PutAt(keys, s, key) == [keys EXCEPT ![s] = key]

\* A key put there is found there, and every other key where it was.
LEMMA PutIn ==
  ASSUME ContainersShaped, hash \in Hash, NEW keys, NEW cap, SoundTable(keys, cap),
         NEW key \in FlatKey, key # Empty,
         NEW s \in Slots(cap), keys[s] = Empty, Reached(keys, cap, key, s), key \notin Stored(keys),
         NEW put, put = PutAt(keys, s, key)
  PROVE  /\ SoundTable(put, cap)
         /\ Taken(put) = Taken(keys) \cup {s} /\ Cardinality(Taken(put)) = Cardinality(Taken(keys)) + 1
         /\ Stored(put) = Stored(keys) \cup {key}
<1>1. cap \in Nat /\ cap > 0 /\ NoOddFactor(cap) /\ DOMAIN keys = Slots(cap)
  BY DEF SoundTable
<1>2. /\ DOMAIN put = Slots(cap) /\ put[s] = key
      /\ \A t \in Slots(cap) : t # s => put[t] = keys[t]
  BY <1>1 DEF SoundTable, PutAt
<1>3. Taken(put) = Taken(keys) \cup {s}
  BY <1>1, <1>2, key # Empty DEF Taken
<1>4. s \notin Taken(keys)
  BY DEF Taken
<1>5. Cardinality(Taken(put)) = Cardinality(Taken(keys)) + 1
  BY <1>1, <1>3, <1>4, TakenFinite, FS_AddElement
<1>6. Stored(put) = Stored(keys) \cup {key}
  BY <1>1, <1>2, <1>3, <1>4 DEF Stored, Taken
<1>7. put \in [Slots(cap) -> FlatKey \cup {Empty}]
  BY DEF SoundTable, PutAt
<1>a. \A k \in FlatKey : \A m \in Slots(cap) : \A l \in Slots(m) : ProbedSlot(k, cap, l) \in Slots(cap)
  <2>1. ASSUME NEW k \in FlatKey PROVE \A l \in Nat : ProbedSlot(k, cap, l) \in Slots(cap)
    <3>1. hash[k] \in Nat
      BY DEF ContainersShaped
    <3> QED BY <1>1, <3>1, ProbesEverySlot
  <2>2. \A m \in Slots(cap) : \A l \in Slots(m) : l \in Nat
    BY <1>1 DEF Slots
  <2> QED BY <2>1, <2>2
<1>8. ASSUME NEW t \in Taken(put) PROVE Reached(put, cap, put[t], t)
  <2>1. CASE t = s
    <3>1. PICK n \in Slots(cap) : /\ ProbedSlot(key, cap, n) = s
                                  /\ \A l \in Slots(n) : keys[ProbedSlot(key, cap, l)] \notin {Empty, key}
      BY DEF Reached
    <3>2. ASSUME NEW l \in Slots(n) PROVE put[ProbedSlot(key, cap, l)] \notin {Empty, key}
      <4>1. ProbedSlot(key, cap, l) # s
        BY <3>1
      <4> QED BY <3>1, <4>1, <1>2, <1>a
    <3> QED BY <1>2, <2>1, <3>1, <3>2 DEF Reached
  <2>2. CASE t # s
    <3>1. t \in Taken(keys) /\ put[t] = keys[t]
      BY <1>1, <1>2, <1>3, <2>2 DEF Taken
    <3> DEFINE k == keys[t]
    <3>0. k \in FlatKey
      BY <1>1, <3>1 DEF Taken, SoundTable
    <3>2. PICK n \in Slots(cap) : /\ ProbedSlot(k, cap, n) = t
                                  /\ \A l \in Slots(n) : keys[ProbedSlot(k, cap, l)] \notin {Empty, k}
      BY <3>1 DEF SoundTable, Reached
    <3>3. ASSUME NEW l \in Slots(n) PROVE put[ProbedSlot(k, cap, l)] \notin {Empty, k}
      <4>1. ProbedSlot(k, cap, l) # s
        BY <3>2
      <4>2. ProbedSlot(k, cap, l) \in Slots(cap)
        BY <1>a, <3>0
      <4> QED BY <3>2, <4>1, <4>2, <1>2
    <3> HIDE DEF k
    <3> QED BY <3>1, <3>2, <3>3 DEF Reached, k
  <2> QED BY <2>1, <2>2
<1> QED BY <1>1, <1>3, <1>5, <1>6, <1>7, <1>8 DEF SoundTable

-----------------------------------------------------------------------------
(* Growing. *)

\* A key placed in a table with room is found where it is.
LEMMA PlacedSound ==
  ASSUME ContainersShaped, hash \in Hash, NEW table, NEW cap, SoundTable(table.keys, cap), DOMAIN table.values = Slots(cap),
         Cardinality(Taken(table.keys)) < cap,
         NEW key \in FlatKey, key # Empty, hash[key] \in Nat, key \notin Stored(table.keys), NEW value,
         NEW p, p = Placed(table, key, value)
  PROVE  /\ SoundTable(p.keys, cap) /\ DOMAIN p.values = Slots(cap)
         /\ Cardinality(Taken(p.keys)) = Cardinality(Taken(table.keys)) + 1
         /\ Stored(p.keys) = Stored(table.keys) \cup {key}
<1> DEFINE keys  == table.keys
           probe == Free(keys, Empty)
           s     == FindSlot(key, cap, probe)
<1>1. cap \in Nat /\ cap > 0 /\ NoOddFactor(cap) /\ DOMAIN keys = Slots(cap) /\ Cardinality(Slots(cap)) = cap
  BY SlotsOf DEF SoundTable
<1>2. \A t \in Slots(cap) : probe[t] <=> keys[t] = Empty
  BY <1>1 DEF Free
<1>3. p = [keys |-> [keys EXCEPT ![s] = key], values |-> [table.values EXCEPT ![s] = value]]
  BY <1>1 DEF Placed
<1>4. p.keys = [keys EXCEPT ![s] = key] /\ p.values = [table.values EXCEPT ![s] = value]
  BY <1>3
<1>5. DOMAIN p.values = Slots(cap)
  BY <1>4
<1> HIDE DEF probe
<1>6. /\ \A n \in Nat : ProbedSlot(key, cap, n) \in Slots(cap)
      /\ \A t \in Slots(cap) : \E n \in Slots(cap) : ProbedSlot(key, cap, n) = t
  BY <1>1, ProbesEverySlot
<1>7. PICK n \in Slots(cap) : probe[ProbedSlot(key, cap, n)]
  BY <1>1, <1>2, <1>6, HasRoom
<1>8. PICK m \in Slots(cap) :
        /\ s = ProbedSlot(key, cap, m) /\ probe[ProbedSlot(key, cap, m)]
        /\ \A l \in Slots(m) : ~probe[ProbedSlot(key, cap, l)]
  BY <1>1, <1>7, FindsFirst
<1>9. m \in Nat /\ \A l \in Slots(m) : l \in Nat
  BY <1>1 DEF Slots
<1> HIDE DEF s, keys
<1>10. s \in Slots(cap) /\ keys[s] = Empty
  BY <1>2, <1>6, <1>8, <1>9
<1>11. \A t \in Slots(cap) : keys[t] # key
  BY <1>1, key # Empty DEF Stored, Taken, keys
<1>12. Reached(keys, cap, key, s)
  BY <1>2, <1>6, <1>8, <1>9, <1>11 DEF Reached
<1> HIDE DEF SoundTable
<1>13. p.keys = PutAt(keys, s, key) /\ key \notin Stored(keys)
  BY <1>4 DEF PutAt, keys
<1> QED BY <1>5, <1>10, <1>12, <1>13, PutIn DEF keys

\* g holds the tables after the first n slots of the old one, up to m.
Growing(old, cap, g, m) ==
  g = [n \in 0 .. m |-> IF n = 0 THEN NewTable(2 * cap)
                        ELSE IF old.keys[n - 1] = Empty THEN g[n - 1]
                        ELSE Placed(g[n - 1], old.keys[n - 1], old.values[n - 1])]

\* There are such tables.
LEMMA GrowingExists ==
  ASSUME NEW old, NEW cap \in Nat
  PROVE  \E g : Growing(old, cap, g, cap)
<1> DEFINE T == {m \in 0 .. cap : \E g : Growing(old, cap, g, m)}
<1>1. 0 \in T
  <2>1. Growing(old, cap, [n \in 0 .. 0 |-> NewTable(2 * cap)], 0)
    BY DEF Growing
  <2> QED BY <2>1
<1>2. ASSUME NEW m \in 0 .. cap - 1, m \in T PROVE m + 1 \in T
  <2>1. PICK h : Growing(old, cap, h, m)
    BY <1>2
  <2> DEFINE step(n, f) == IF n = 0 THEN NewTable(2 * cap)
                           ELSE IF old.keys[n - 1] = Empty THEN f[n - 1]
                           ELSE Placed(f[n - 1], old.keys[n - 1], old.values[n - 1])
             g == [n \in 0 .. m + 1 |-> IF n = m + 1 THEN step(m + 1, h) ELSE h[n]]
  <2>2. \A n \in 0 .. m : h[n] = step(n, h)
    BY <2>1 DEF Growing
  <2>3. /\ \A n \in 0 .. m : g[n] = h[n]
        /\ g[m + 1] = step(m + 1, h)
    <3> HIDE DEF step
    <3> QED OBVIOUS
  <2>4. g = [n \in 0 .. m + 1 |-> g[n]]
    OBVIOUS
  <2> HIDE DEF g
  <2>5. \A n \in 0 .. m : step(n, g) = step(n, h)
    BY <2>3
  <2>6. step(m + 1, g) = step(m + 1, h)
    BY <2>3
  <2>7. \A n \in 0 .. m + 1 : g[n] = step(n, g)
    <3> HIDE DEF step
    <3>1. \A n \in 0 .. m + 1 : n \in 0 .. m \/ n = m + 1
      OBVIOUS
    <3> QED BY <2>2, <2>3, <2>5, <2>6, <3>1
  <2>8. Growing(old, cap, g, m + 1)
    BY <2>4, <2>7, Zenon DEF Growing
  <2> QED BY <2>8
<1>3. cap \in T
  <2> HIDE DEF T
  <2> QED BY <1>1, <1>2, StepByStep
<1> QED BY <1>3

\* Rehash is the last of these tables.
LEMMA RehashUnfolds ==
  ASSUME NEW old, NEW cap \in Nat, cap = Cardinality(DOMAIN old.keys)
  PROVE  \E g : Growing(old, cap, g, cap) /\ Rehash(old) = g[cap]
<1> DEFINE g == CHOOSE g : Growing(old, cap, g, cap)
<1>1. Growing(old, cap, g, cap)
  BY GrowingExists
<1>2. Rehash(old) = g[cap]
  BY Zenon DEF Rehash, Growing
<1> QED BY <1>1, <1>2

\* An empty table is sound.
LEMMA NewTableSound ==
  ASSUME NEW cap \in Nat, cap >= 4, NoOddFactor(cap), NEW t, t = NewTable(cap)
  PROVE  /\ SoundTable(t.keys, cap) /\ DOMAIN t.values = Slots(cap)
         /\ Taken(t.keys) = {} /\ Stored(t.keys) = {} /\ Cardinality(Taken(t.keys)) = 0
<1>1. t.keys = [s \in Slots(cap) |-> Empty] /\ DOMAIN t.values = Slots(cap)
  BY DEF NewTable
<1>2. Taken(t.keys) = {}
  BY <1>1 DEF Taken
<1>3. SoundTable(t.keys, cap)
  BY <1>1, <1>2 DEF SoundTable
<1> QED BY <1>1, <1>2, <1>3, FS_EmptySet DEF Stored

\* A table twice as large holds the same keys.
LEMMA RehashSound ==
  ASSUME NEW old, NEW cap, SoundTable(old.keys, cap), DOMAIN old.values = Slots(cap),
         ContainersShaped, hash \in Hash, NEW r, r = Rehash(old)
  PROVE  /\ SoundTable(r.keys, 2 * cap) /\ DOMAIN r.values = Slots(2 * cap)
         /\ Cardinality(Taken(r.keys)) = Cardinality(Taken(old.keys))
         /\ Stored(r.keys) = Stored(old.keys)
<1>1. /\ cap \in Nat /\ cap >= 4 /\ NoOddFactor(cap)
      /\ DOMAIN old.keys = Slots(cap) /\ Cardinality(DOMAIN old.keys) = cap
      /\ \A s \in Slots(cap) : old.keys[s] \in FlatKey \cup {Empty}
  BY SlotsOf DEF SoundTable
<1>2. PICK g : Growing(old, cap, g, cap) /\ r = g[cap]
  BY <1>1, RehashUnfolds
<1> DEFINE Before(n) == {s \in Slots(n) : old.keys[s] # Empty}
           Same(n) == /\ SoundTable(g[n].keys, 2 * cap) /\ DOMAIN g[n].values = Slots(2 * cap)
                      /\ Stored(g[n].keys) = {old.keys[s] : s \in Before(n)}
                      /\ Cardinality(Taken(g[n].keys)) = Cardinality(Before(n))
           T == {n \in 0 .. cap : Same(n)}
<1>3. Same(0)
  <2>1. g[0] = NewTable(2 * cap)
    BY <1>1, <1>2 DEF Growing
  <2>2. Before(0) = {}
    BY DEF Slots
  <2>3. 2 * cap \in Nat /\ 2 * cap >= 4 /\ NoOddFactor(2 * cap)
    BY <1>1, TwiceHasNoOdd
  <2> QED BY <2>1, <2>2, <2>3, NewTableSound, FS_EmptySet
<1>4. ASSUME NEW n \in 0 .. cap - 1, Same(n) PROVE Same(n + 1)
  <2>1. n \in Slots(cap) /\ n \in Nat /\ n + 1 \in 0 .. cap /\ n + 1 # 0 /\ (n + 1) - 1 = n
    BY <1>1 DEF Slots
  <2>2. g[n + 1] = IF old.keys[n] = Empty THEN g[n] ELSE Placed(g[n], old.keys[n], old.values[n])
    BY <1>2, <2>1 DEF Growing
  <2>3. Before(n + 1) = IF old.keys[n] = Empty THEN Before(n) ELSE Before(n) \cup {n}
    BY <2>1 DEF Slots
  <2>4. CASE old.keys[n] = Empty
    <3>1. g[n + 1] = g[n] /\ Before(n + 1) = Before(n)
      BY <2>2, <2>3, <2>4
    <3> QED BY <1>4, <3>1
  <2>5. CASE old.keys[n] # Empty
    <3> DEFINE key == old.keys[n]
    <3>1. key \in FlatKey /\ key # Empty /\ hash[key] \in Nat
      BY <1>1, <2>1, <2>5 DEF ContainersShaped
    <3>2. Before(n) \subseteq Taken(old.keys) /\ n \in Taken(old.keys) /\ n \notin Before(n)
      BY <1>1, <2>1, <2>5 DEF Taken, Slots
    <3>3. key \notin {old.keys[s] : s \in Before(n)}
      BY <3>2, OneSlotEach
    <3>4. /\ IsFiniteSet(Before(n)) /\ Cardinality(Before(n)) \in Nat /\ Cardinality(Before(n)) <= cap
          /\ Cardinality(Before(n) \cup {n}) = Cardinality(Before(n)) + 1
      <4>1. Before(n) \subseteq Slots(cap) /\ n \notin Before(n)
        BY <1>1, <2>1 DEF Slots
      <4>2. IsFiniteSet(Before(n)) /\ Cardinality(Before(n)) <= cap
        BY <1>1, <4>1, SlotsOf, FS_Subset
      <4> QED BY <4>1, <4>2, FS_AddElement, FS_CardinalityType
    <3>5. Cardinality(Taken(g[n].keys)) < 2 * cap
      BY <1>1, <1>4, <3>4
    <3> HIDE DEF Before
    <3>6. /\ SoundTable(g[n + 1].keys, 2 * cap) /\ DOMAIN g[n + 1].values = Slots(2 * cap)
          /\ Cardinality(Taken(g[n + 1].keys)) = Cardinality(Taken(g[n].keys)) + 1
          /\ Stored(g[n + 1].keys) = Stored(g[n].keys) \cup {key}
      <4>1. g[n + 1] = Placed(g[n], key, old.values[n])
        BY <2>2, <2>5
      <4>2. key \notin Stored(g[n].keys)
        BY <1>4, <3>3
      <4>3. SoundTable(g[n].keys, 2 * cap) /\ DOMAIN g[n].values = Slots(2 * cap)
        BY <1>4
      <4> DEFINE t == g[n]
                 p == g[n + 1]
                 c == 2 * cap
      <4> HIDE DEF key, t, p, c
      <4>4. /\ SoundTable(p.keys, c) /\ DOMAIN p.values = Slots(c)
            /\ Cardinality(Taken(p.keys)) = Cardinality(Taken(t.keys)) + 1
            /\ Stored(p.keys) = Stored(t.keys) \cup {key}
        <5>1. SoundTable(t.keys, c) /\ DOMAIN t.values = Slots(c)
          BY <4>3 DEF t, c
        <5>2. Cardinality(Taken(t.keys)) < c
          BY <3>5 DEF t, c
        <5>3. p = Placed(t, key, old.values[n]) /\ key \notin Stored(t.keys)
          BY <4>1, <4>2 DEF t, p
        <5> QED BY <3>1, <5>1, <5>2, <5>3, PlacedSound
      <4> QED BY <4>4 DEF t, p, c
    <3>7. Before(n + 1) = Before(n) \cup {n}
      BY <2>3, <2>5
    <3>8. {old.keys[s] : s \in Before(n + 1)} = {old.keys[s] : s \in Before(n)} \cup {key}
      BY <3>7
    <3> HIDE DEF key
    <3> QED BY <1>4, <3>4, <3>6, <3>7, <3>8
  <2> QED BY <2>4, <2>5
<1>5. Same(cap)
  <2>1. 0 \in T
    BY <1>1, <1>3
  <2>2. \A n \in 0 .. cap - 1 : n \in T => n + 1 \in T
    <3>1. \A n \in 0 .. cap - 1 : n + 1 \in 0 .. cap
      BY <1>1
    <3> HIDE DEF Same
    <3> QED BY <1>4, <3>1
  <2>3. cap \in T
    <3> HIDE DEF T
    <3> QED BY <1>1, <2>1, <2>2, StepByStep
  <2> QED BY <2>3
<1>6. Before(cap) = Taken(old.keys)
  BY <1>1 DEF Taken
<1> HIDE DEF Before
<1> QED BY <1>2, <1>5, <1>6 DEF Stored

-----------------------------------------------------------------------------
(* Filing a key. *)

\* A sound table as full as it should be.
Loaded(keys, vals, count) ==
  LET cap == Cardinality(DOMAIN keys)
  IN  /\ SoundTable(keys, cap) /\ DOMAIN vals = Slots(cap)
      /\ count = Cardinality(Taken(keys))
      /\ count * 2 <= cap /\ (cap > 4 => count * 4 >= cap)

\* What a loaded table is.
LEMMA LoadedFacts ==
  ASSUME NEW keys, NEW vals, NEW count, Loaded(keys, vals, count)
  PROVE  \E cap \in Nat : /\ cap = Cardinality(DOMAIN keys) /\ cap >= 4 /\ DOMAIN keys = Slots(cap)
                          /\ count \in Nat /\ count < cap
<1>1. PICK cap : cap = Cardinality(DOMAIN keys)
  OBVIOUS
<1>2. SoundTable(keys, cap) /\ count = Cardinality(Taken(keys)) /\ count * 2 <= cap
  BY <1>1 DEF Loaded
<1>3. cap \in Nat /\ cap >= 4 /\ DOMAIN keys = Slots(cap)
  BY <1>2 DEF SoundTable
<1>4. count \in Nat
  BY <1>2, <1>3, TakenFinite
<1> QED BY <1>1, <1>2, <1>3, <1>4

\* insert() files the key and leaves the others where a look-up finds them.
LEMMA InsertedLoaded ==
  ASSUME ContainersShaped, hash \in Hash, Loaded(indexes, values, size),
         NEW key \in FlatKey, NEW value, NEW new, new = Inserted(key, value)
  PROVE  /\ Loaded(new.table.keys, new.table.values, new.size)
         /\ Stored(new.table.keys) = Stored(indexes) \cup {key}
<1>1. PICK cap \in Nat : /\ cap = Cardinality(DOMAIN indexes) /\ cap >= 4 /\ DOMAIN indexes = Slots(cap)
                         /\ size \in Nat /\ size < cap
  BY LoadedFacts
<1>2. /\ SoundTable(indexes, cap) /\ DOMAIN values = Slots(cap) /\ size = Cardinality(Taken(indexes))
      /\ size * 2 <= cap /\ (cap > 4 => size * 4 >= cap)
  BY <1>1 DEF Loaded
<1>3. key # Empty /\ hash[key] \in Nat /\ Capacity = cap
  BY <1>1 DEF ContainersShaped, Capacity
<1> DEFINE slot == FindSlot(key, Capacity, Free(indexes, key))
           put  == [keys |-> [indexes EXCEPT ![slot] = key], values |-> [values EXCEPT ![slot] = value]]
           keys == [indexes EXCEPT ![slot] = key]
           vals == [values EXCEPT ![slot] = value]
<1>4. /\ slot \in Slots(cap) /\ indexes[slot] \in {Empty, key}
      /\ Reached(indexes, cap, key, slot)
      /\ key \in Stored(indexes) <=> indexes[slot] = key
  <2>1. slot = FindSlot(key, cap, Free(indexes, key))
    BY <1>3
  <2>2. Cardinality(Taken(indexes)) < cap
    BY <1>1, <1>2
  <2> HIDE DEF slot
  <2> QED BY <1>2, <1>3, <2>1, <2>2, LookedUp
<1>5. /\ new.table = IF indexes[slot] # Empty THEN put ELSE MaybeIncreaseCapacity(put, size + 1)
      /\ new.size = IF indexes[slot] # Empty THEN size ELSE size + 1
  BY DEF Inserted
<1>6. put.keys = keys /\ put.values = vals
  OBVIOUS
<1> HIDE DEF slot, put
<1>7. DOMAIN keys = Slots(cap) /\ DOMAIN vals = Slots(cap) /\ Cardinality(DOMAIN keys) = cap
  BY <1>1, <1>2
<1>8. CASE indexes[slot] = key
  <2>1. keys = indexes
    BY <1>1, <1>2, <1>4, <1>8 DEF SoundTable
  <2>2. new.table = put /\ new.size = size
    BY <1>3, <1>5, <1>8
  <2>3. Stored(indexes) \cup {key} = Stored(indexes)
    BY <1>4, <1>8
  <2> HIDE DEF keys, vals
  <2> QED BY <1>1, <1>2, <1>6, <1>7, <2>1, <2>2, <2>3 DEF Loaded
<1>9. CASE indexes[slot] = Empty
  <2>1. new.table = MaybeIncreaseCapacity(put, size + 1) /\ new.size = size + 1
    BY <1>5, <1>9
  <2>2. /\ SoundTable(keys, cap) /\ Cardinality(Taken(keys)) = size + 1
        /\ Stored(keys) = Stored(indexes) \cup {key}
    <3>1. keys = PutAt(indexes, slot, key) /\ key \notin Stored(indexes)
      BY <1>3, <1>4, <1>9 DEF PutAt
    <3> HIDE DEF keys, vals
    <3>2. slot \in Slots(cap) /\ indexes[slot] = Empty /\ Reached(indexes, cap, key, slot)
      BY <1>4, <1>9
    <3>3. /\ SoundTable(keys, cap) /\ Cardinality(Taken(keys)) = Cardinality(Taken(indexes)) + 1
          /\ Stored(keys) = Stored(indexes) \cup {key}
      <4>1. SoundTable(indexes, cap) /\ key # Empty
        BY <1>2, <1>3
      <4> QED BY <3>1, <3>2, <4>1, PutIn
    <3> QED BY <1>2, <3>3
  <2> HIDE DEF keys, vals
  <2>3. CASE (size + 1) * 2 <= cap
    <3>1. new.table = put
      BY <1>6, <1>7, <2>1, <2>3 DEF MaybeIncreaseCapacity
    <3>2. cap > 4 => (size + 1) * 4 >= cap
      BY <1>1, <1>2
    <3> QED BY <1>6, <1>7, <2>1, <2>2, <2>3, <3>1, <3>2 DEF Loaded
  <2>4. CASE ~((size + 1) * 2 <= cap)
    <3> DEFINE r == Rehash(put)
    <3>1. new.table = r
      BY <1>6, <1>7, <2>1, <2>4 DEF MaybeIncreaseCapacity
    <3>2. SoundTable(put.keys, cap) /\ DOMAIN put.values = Slots(cap)
      BY <1>6, <1>7, <2>2
    <3> HIDE DEF r
    <3>3. /\ SoundTable(r.keys, 2 * cap) /\ DOMAIN r.values = Slots(2 * cap)
          /\ Cardinality(Taken(r.keys)) = size + 1
          /\ Stored(r.keys) = Stored(indexes) \cup {key}
      BY <1>6, <2>2, <3>2, RehashSound DEF r
    <3>4. Cardinality(DOMAIN r.keys) = 2 * cap
      BY <3>3, SlotsOf DEF SoundTable
    <3>5. (size + 1) * 2 <= 2 * cap /\ (size + 1) * 4 >= 2 * cap
      BY <1>1, <1>2, <2>4
    <3> QED BY <2>1, <3>1, <3>3, <3>4, <3>5 DEF Loaded
  <2> QED BY <2>3, <2>4
<1> QED BY <1>4, <1>8, <1>9

\* get_or_insert() does so, too, and returns the slot a look-up finds.
LEMMA GotLoaded ==
  ASSUME ContainersShaped, hash \in Hash, Loaded(indexes, values, size),
         NEW key \in FlatKey, NEW got, got = GotOrInserted(key)
  PROVE  /\ Loaded(got.table.keys, got.table.values, got.size)
         /\ Stored(got.table.keys) = Stored(indexes) \cup {key}
<1>1. PICK cap \in Nat : /\ cap = Cardinality(DOMAIN indexes) /\ cap >= 4 /\ DOMAIN indexes = Slots(cap)
                         /\ size \in Nat /\ size < cap
  BY LoadedFacts
<1>2. SoundTable(indexes, cap) /\ size = Cardinality(Taken(indexes))
  BY <1>1 DEF Loaded
<1>3. key # Empty /\ hash[key] \in Nat /\ Capacity = cap
  BY <1>1 DEF ContainersShaped, Capacity
<1> DEFINE slot == FindSlot(key, Capacity, Free(indexes, key))
<1>4. indexes[slot] \in {Empty, key} /\ (key \in Stored(indexes) <=> indexes[slot] = key)
  <2>1. slot = FindSlot(key, cap, Free(indexes, key))
    BY <1>3
  <2>2. Cardinality(Taken(indexes)) < cap
    BY <1>1, <1>2
  <2> HIDE DEF slot
  <2> QED BY <1>2, <1>3, <2>1, <2>2, LookedUp
<1>5. got = IF indexes[slot] # Empty
            THEN [table |-> [keys |-> indexes, values |-> values], size |-> size, slot |-> slot]
            ELSE Inserted(key, <<>>)
  BY DEF GotOrInserted
<1> HIDE DEF slot
<1>6. CASE indexes[slot] = key
  <2>1. got.table.keys = indexes /\ got.table.values = values /\ got.size = size
    BY <1>3, <1>5, <1>6
  <2>2. Stored(indexes) \cup {key} = Stored(indexes)
    BY <1>4, <1>6
  <2> QED BY <2>1, <2>2
<1>7. CASE indexes[slot] = Empty
  BY <1>5, <1>7, InsertedLoaded
<1> QED BY <1>4, <1>6, <1>7

-----------------------------------------------------------------------------
(* The inductive invariant of the tables, and what follows from it. *)

\* Every key filed, and no other, is in a slot where a look-up finds it.
Tables ==
  /\ sort \in Sorts /\ hash \in Hash
  /\ entries \in Seq([key : FlatKey, item : Nat]) /\ filed \in [FlatKey \cup {Empty} -> Seq(Nat)]
  /\ Loaded(indexes, values, size)
  /\ sort # "multimap" => Stored(indexes) = {key \in FlatKey : Filed(key)}

\* It holds of the tables a builder begins with,
LEMMA InitTables == ASSUME ContainersShaped, ContainersInit PROVE Tables
<1> DEFINE t == NewTable(4)
<1>1. /\ SoundTable(t.keys, 4) /\ DOMAIN t.values = Slots(4)
      /\ Stored(t.keys) = {} /\ Cardinality(Taken(t.keys)) = 0
  BY FourHasNoOdd, NewTableSound
<1>2. indexes = t.keys /\ values = t.values /\ size = 0
  BY DEF ContainersInit, NewTable
<1> HIDE DEF t
<1>3. Cardinality(DOMAIN indexes) = 4
  BY <1>1, <1>2, SlotsOf DEF SoundTable
<1>4. Loaded(indexes, values, size)
  BY <1>1, <1>2, <1>3 DEF Loaded
<1>5. filed \in [FlatKey \cup {Empty} -> Seq(Nat)] /\ \A key \in FlatKey : ~Filed(key)
  BY DEF ContainersInit, Filed
<1>6. Stored(indexes) = {key \in FlatKey : Filed(key)}
  BY <1>1, <1>2, <1>5
<1> QED BY <1>4, <1>5, <1>6 DEF Tables, ContainersInit

\* Noting a call files its key.
LEMMA Noted ==
  ASSUME filed \in [FlatKey \cup {Empty} -> Seq(Nat)], entries \in Seq([key : FlatKey, item : Nat]),
         ContainersShaped, NEW key \in FlatKey, Note(key)
  PROVE  /\ filed' \in [FlatKey \cup {Empty} -> Seq(Nat)] /\ Item \in Nat
         /\ filed'[key] = Append(filed[key], Item) /\ filed'[key] # filed[key]
         /\ \A k \in FlatKey : k # key => filed'[k] = filed[k]
         /\ {k \in FlatKey : Filed(k)'} = {k \in FlatKey : Filed(k)} \cup {key}
<1>1. Item \in Nat
  <2>1. filed[Empty] \in Seq(Nat)
    OBVIOUS
  <2>2. Len(filed[Empty]) \in Nat /\ Len(entries) \in Nat
    BY <2>1
  <2> QED BY <2>2 DEF Item, Calls
<1>2. key # Empty
  BY DEF ContainersShaped
<1>3. filed' = [filed EXCEPT ![key] = Append(@, Item), ![Empty] = Append(@, Item)]
  BY DEF Note
<1> DEFINE item == Item
<1> HIDE DEF item
<1>4. filed' = [filed EXCEPT ![key] = Append(@, item), ![Empty] = Append(@, item)]
  BY <1>3 DEF item
<1>5. item \in Nat
  BY <1>1 DEF item
<1>6. /\ filed[key] \in Seq(Nat) /\ filed[Empty] \in Seq(Nat)
  OBVIOUS
<1>a. \A q \in Seq(Nat), n \in Nat : Append(q, n) \in Seq(Nat) /\ Append(q, n) # q /\ Append(q, n) # <<>>
  <2> TAKE q \in Seq(Nat), n \in Nat
  <2>1. Append(q, n) \in Seq(Nat) /\ Len(Append(q, n)) = Len(q) + 1 /\ Len(q) \in Nat
    OBVIOUS
  <2>2. Append(q, n) # <<>>
    <3>1. Len(Append(q, n)) # 0
      BY <2>1
    <3>2. Len(<<>>) = 0
      OBVIOUS
    <3> QED BY <3>1, <3>2, Zenon
  <2>3. Append(q, n) # q
    <3>1. Len(Append(q, n)) # Len(q)
      BY <2>1
    <3> QED BY <3>1, Zenon
  <2> QED BY <2>1, <2>2, <2>3
<1>7. Append(filed[key], item) \in Seq(Nat) /\ Append(filed[Empty], item) \in Seq(Nat)
  BY <1>5, <1>6, <1>a, Zenon
<1>8. Append(filed[key], item) # filed[key] /\ Append(filed[key], item) # <<>>
  BY <1>5, <1>6, <1>a, Zenon
<1>9. /\ filed'[key] = Append(filed[key], item)
      /\ \A k \in FlatKey : k # key /\ k # Empty => filed'[k] = filed[k]
  BY <1>2, <1>4
<1>10. \A k \in FlatKey : k # Empty
  BY DEF ContainersShaped
<1>11. filed' \in [FlatKey \cup {Empty} -> Seq(Nat)]
  BY <1>2, <1>4, <1>7
<1>12. {k \in FlatKey : Filed(k)'} = {k \in FlatKey : Filed(k)} \cup {key}
  BY <1>8, <1>9, <1>10 DEF Filed
<1> QED BY <1>1, <1>8, <1>9, <1>10, <1>11, <1>12 DEF item

\* A table is as loaded as before when the hash function is the same.
LEMMA SameHash ==
  ASSUME hash' = hash, Loaded(indexes', values', size')
  PROVE  Loaded(indexes, values, size)'
BY DEF Loaded, SoundTable, Taken, Reached, ProbedSlot, NoOddFactor, Slots

\* every call keeps it,
LEMMA NextTables ==
  ASSUME ContainersShaped, Tables, [ContainersNext]_containerVars
  PROVE  Tables'
<1>1. ASSUME NEW key \in FlatKey, SetInsert(key) PROVE Tables'
  <2> DEFINE new == Inserted(key, <<>>)
  <2>1. /\ sort = "set" /\ indexes' = new.table.keys /\ values' = new.table.values /\ size' = new.size
        /\ Note(key) /\ UNCHANGED <<sort, hash, entries>>
    BY <1>1 DEF SetInsert
  <2>2. Loaded(indexes, values, size) /\ hash \in Hash
    BY DEF Tables
  <2> HIDE DEF new
  <2>3. Loaded(new.table.keys, new.table.values, new.size) /\ Stored(new.table.keys) = Stored(indexes) \cup {key}
    BY <2>2, InsertedLoaded DEF new
  <2>4. Loaded(indexes, values, size)'
    BY <2>1, <2>3, SameHash
  <2>5. Stored(indexes)' = Stored(indexes) \cup {key}
    BY <2>1, <2>3 DEF Stored, Taken
  <2>6. filed' \in [FlatKey \cup {Empty} -> Seq(Nat)] /\ {k \in FlatKey : Filed(k)'} = {k \in FlatKey : Filed(k)} \cup {key}
    BY <2>1, Noted DEF Tables
  <2> QED BY <2>1, <2>4, <2>5, <2>6 DEF Tables
<1>2. ASSUME NEW key \in FlatKey, MapPush(key) PROVE Tables'
  <2> DEFINE got == GotOrInserted(key)
  <2>1. /\ sort = "map" /\ indexes' = got.table.keys /\ size' = got.size
        /\ values' = [got.table.values EXCEPT ![got.slot] = Append(@, Item)]
        /\ Note(key) /\ UNCHANGED <<sort, hash, entries>>
    BY <1>2 DEF MapPush
  <2>2. Loaded(indexes, values, size) /\ hash \in Hash
    BY DEF Tables
  <2> HIDE DEF got
  <2>3. Loaded(got.table.keys, got.table.values, got.size) /\ Stored(got.table.keys) = Stored(indexes) \cup {key}
    BY <2>2, GotLoaded DEF got
  <2>4. Loaded(indexes', values', size')
    <3>1. DOMAIN values' = DOMAIN got.table.values
      BY <2>1
    <3> QED BY <2>1, <2>3, <3>1 DEF Loaded
  <2>5. Loaded(indexes, values, size)'
    BY <2>1, <2>4, SameHash
  <2>6. Stored(indexes)' = Stored(indexes) \cup {key}
    BY <2>1, <2>3 DEF Stored, Taken
  <2>7. filed' \in [FlatKey \cup {Empty} -> Seq(Nat)] /\ {k \in FlatKey : Filed(k)'} = {k \in FlatKey : Filed(k)} \cup {key}
    BY <2>1, Noted DEF Tables
  <2> QED BY <2>1, <2>5, <2>6, <2>7 DEF Tables
<1>3. ASSUME NEW key \in FlatKey, MultiInsert(key) PROVE Tables'
  <2>1. /\ sort = "multimap" /\ entries' = Append(entries, [key |-> key, item |-> Item])
        /\ Note(key) /\ UNCHANGED <<sort, hash, indexes, values, size>>
    BY <1>3 DEF MultiInsert
  <2>2. filed' \in [FlatKey \cup {Empty} -> Seq(Nat)] /\ Item \in Nat
    BY <2>1, Noted DEF Tables
  <2>3. Loaded(indexes, values, size)'
    BY <2>1, SameHash DEF Tables
  <2>4. entries' \in Seq([key : FlatKey, item : Nat])
    <3> DEFINE pair == [key |-> key, item |-> Item]
    <3>1. pair \in [key : FlatKey, item : Nat]
      BY <2>2
    <3> HIDE DEF pair
    <3> QED BY <2>1, <3>1 DEF Tables, pair
  <2> QED BY <2>1, <2>2, <2>3, <2>4 DEF Tables
<1>4. ASSUME UNCHANGED containerVars PROVE Tables'
  <2>1. UNCHANGED <<sort, hash, indexes, values, size, entries, filed>>
    BY <1>4 DEF containerVars
  <2>2. Loaded(indexes, values, size)'
    BY <2>1, SameHash DEF Tables
  <2>3. Stored(indexes)' = Stored(indexes) /\ {k \in FlatKey : Filed(k)'} = {k \in FlatKey : Filed(k)}
    BY <2>1 DEF Stored, Taken, Filed
  <2> QED BY <2>1, <2>2, <2>3 DEF Tables
<1> QED BY <1>1, <1>2, <1>3, <1>4 DEF ContainersNext

\* and so it always holds.
LEMMA AlwaysTables == ASSUME ContainersShaped PROVE ContainersSpec => []Tables
<1>1. ContainersInit => Tables
  BY InitTables
<1>2. Tables /\ [ContainersNext]_containerVars => Tables'
  BY NextTables
<1> QED BY <1>1, <1>2, PTL DEF ContainersSpec

\* A table's size is a power of two, and it is as full as it should be.
LEMMA TablesTyped == ASSUME ContainersShaped, Tables PROVE ContainersTypeOK
<1>1. PICK cap \in Nat : /\ cap = Cardinality(DOMAIN indexes) /\ cap >= 4 /\ DOMAIN indexes = Slots(cap)
                         /\ size \in Nat /\ size < cap
  BY LoadedFacts DEF Tables
<1>2. SoundTable(indexes, cap) /\ DOMAIN values = Slots(cap) /\ size = Cardinality(Taken(indexes))
      /\ size * 2 <= cap /\ (cap > 4 => size * 4 >= cap)
  BY <1>1 DEF Tables, Loaded
<1>3. PowerOfTwo(cap)
  BY <1>1, <1>2, NoOddIsPower DEF SoundTable
<1>4. \A s \in DOMAIN indexes : indexes[s] \in FlatKey \cup {Empty}
  BY <1>2 DEF SoundTable
<1>5. Capacity = cap
  BY <1>1 DEF Capacity
<1>6. size = Cardinality({s \in DOMAIN indexes : indexes[s] # Empty})
  BY <1>2 DEF Taken
<1> QED BY <1>1, <1>2, <1>3, <1>4, <1>5, <1>6 DEF ContainersTypeOK, Tables

\* The view finds a key where it is stored, or an empty slot.
LooksUp(key) ==
  /\ FoundSlot(key) \in DOMAIN indexes /\ DOMAIN values = DOMAIN indexes
  /\ indexes[FoundSlot(key)] \in {Empty, key}
  /\ key \in Stored(indexes) <=> indexes[FoundSlot(key)] = key
  /\ \A t \in Taken(indexes) : indexes[t] = key => t = FoundSlot(key)

\* So it is of every table a builder makes,
LEMMA TablesLookedUp ==
  ASSUME ContainersShaped, Tables, NEW key \in FlatKey
  PROVE  /\ LooksUp(key)
         /\ \E n \in Slots(Capacity) : Free(indexes, key)[ProbedSlot(key, Capacity, n)]
<1>1. PICK cap \in Nat : /\ cap = Cardinality(DOMAIN indexes) /\ cap >= 4 /\ DOMAIN indexes = Slots(cap)
                         /\ size \in Nat /\ size < cap
  BY LoadedFacts DEF Tables
<1>2. SoundTable(indexes, cap) /\ Cardinality(Taken(indexes)) < cap /\ DOMAIN values = Slots(cap)
  BY <1>1 DEF Tables, Loaded
<1>3. key # Empty /\ hash[key] \in Nat /\ Capacity = cap
  BY <1>1 DEF ContainersShaped, Capacity, Tables
<1>4. FoundSlot(key) = FindSlot(key, cap, Free(indexes, key))
  BY <1>3 DEF FoundSlot
<1> DEFINE s == FoundSlot(key)
<1> HIDE DEF s
<1>5. /\ s \in Slots(cap) /\ indexes[s] \in {Empty, key}
      /\ key \in Stored(indexes) <=> indexes[s] = key
      /\ \A t \in Taken(indexes) : indexes[t] = key => t = s
      /\ \E n \in Slots(cap) : Free(indexes, key)[ProbedSlot(key, cap, n)]
  <2>1. s = FindSlot(key, cap, Free(indexes, key))
    BY <1>4 DEF s
  <2> QED BY <1>2, <1>3, <2>1, LookedUp
<1> QED BY <1>1, <1>2, <1>3, <1>5 DEF s, LooksUp

\* and after a call.
LEMMA TablesLookUpNext ==
  ASSUME ContainersShaped, NEW key \in FlatKey
  PROVE  Tables' => LooksUp(key)'
<1>1. Tables => LooksUp(key)
  BY TablesLookedUp
<1> QED BY <1>1, PTL

\* The view finds the keys that are stored.
LEMMA TablesContain ==
  ASSUME ContainersShaped, Tables, NEW key \in FlatKey
  PROVE  ContainsKey(key) <=> key \in Stored(indexes)
<1>1. key # Empty
  BY DEF ContainersShaped
<1> QED BY <1>1, TablesLookedUp DEF ContainsKey, LooksUp

\* The slots of a table are as many as a power of two, a fourth to a half of
\* them taken, whatever was inserted.
THEOREM TypeCorrect == ASSUME ContainersShaped PROVE ContainersSpec => []ContainersTypeOK
<1>1. Tables => ContainersTypeOK
  BY TablesTyped
<1> QED BY <1>1, AlwaysTables, PTL

\* find_slot ends for every key: its loop needs no bound.
THEOREM ProbingAlwaysEnds == ASSUME ContainersShaped PROVE ContainersSpec => []ProbingEnds
<1>1. Tables => ProbingEnds
  BY TablesLookedUp DEF ProbingEnds
<1> QED BY <1>1, AlwaysTables, PTL

\* A look-up says that a key is there exactly if it was inserted.
THEOREM KeysAlwaysFound == ASSUME ContainersShaped PROVE ContainersSpec => []KeysFound
<1>1. Tables => KeysFound
  BY TablesContain DEF KeysFound, Tables
<1> QED BY <1>1, AlwaysTables, PTL

\* A push that leaves the table as large as it was.
LEMMA PushedAt ==
  ASSUME ContainersShaped, Tables, NEW pushed \in FlatKey, MapPush(pushed), Capacity' = Capacity
  PROVE  /\ indexes' = [indexes EXCEPT ![FoundSlot(pushed)] = pushed]
         /\ values' = [values EXCEPT ![FoundSlot(pushed)] = Append(GetSingle(pushed), Item)]
<1> DEFINE slot == FoundSlot(pushed)
           got  == GotOrInserted(pushed)
           put  == [keys |-> [indexes EXCEPT ![slot] = pushed], values |-> [values EXCEPT ![slot] = <<>>]]
<1>1. /\ indexes' = got.table.keys
      /\ values' = [got.table.values EXCEPT ![got.slot] = Append(@, Item)]
  BY DEF MapPush
<1>2. /\ slot \in DOMAIN indexes /\ DOMAIN values = DOMAIN indexes /\ indexes[slot] \in {Empty, pushed}
      /\ pushed # Empty
  BY TablesLookedUp DEF ContainersShaped, LooksUp
<1>3. PICK cap \in Nat : /\ cap = Cardinality(DOMAIN indexes) /\ cap >= 4
                         /\ DOMAIN indexes = Slots(cap) /\ size \in Nat
  BY LoadedFacts DEF Tables
<1>4. indexes \in [Slots(cap) -> FlatKey \cup {Empty}] /\ DOMAIN values = Slots(cap)
  BY <1>3 DEF Tables, Loaded, SoundTable
<1>5. CASE indexes[slot] = pushed
  <2>1. got.table.keys = indexes /\ got.table.values = values /\ got.slot = slot
    BY <1>2, <1>5 DEF GotOrInserted, FoundSlot
  <2>2. GetSingle(pushed) = values[slot]
    BY <1>2, <1>5 DEF GetSingle, ContainsKey
  <2> HIDE DEF slot, got
  <2>3. indexes = [indexes EXCEPT ![slot] = pushed]
    BY <1>2, <1>4, <1>5
  <2> QED BY <1>1, <2>1, <2>2, <2>3 DEF slot
<1>6. CASE indexes[slot] = Empty
  <2>1. got.table = MaybeIncreaseCapacity(put, size + 1) /\ got.slot = slot
    BY <1>6 DEF GotOrInserted, Inserted, FoundSlot
  <2>2. GetSingle(pushed) = <<>>
    BY <1>6 DEF GetSingle, ContainsKey
  <2>3. /\ put.keys = [indexes EXCEPT ![slot] = pushed] /\ put.values = [values EXCEPT ![slot] = <<>>]
        /\ DOMAIN put.keys = DOMAIN indexes
    OBVIOUS
  <2> HIDE DEF slot, got, put
  <2>4. got.table = put
    <3> SUFFICES ASSUME got.table # put PROVE FALSE
      OBVIOUS
    <3>1. got.table = Rehash(put)
      BY <2>1 DEF MaybeIncreaseCapacity
    <3>2. Cardinality(DOMAIN got.table.keys) = 2 * cap
      <4>1. SoundTable(indexes, cap) /\ DOMAIN values = Slots(cap) /\ Cardinality(Taken(indexes)) < cap
        BY <1>3, LoadedFacts DEF Tables, Loaded
      <4>2. hash[pushed] \in Nat /\ hash \in Hash
        BY DEF Tables, ContainersShaped
      <4>3. slot = FindSlot(pushed, cap, Free(indexes, pushed))
        BY <1>3 DEF slot, FoundSlot, Capacity
      <4>4. /\ slot \in Slots(cap) /\ Reached(indexes, cap, pushed, slot)
            /\ pushed \notin Stored(indexes)
        BY <1>2, <1>6, <4>1, <4>2, <4>3, LookedUp
      <4>5. put.keys = PutAt(indexes, slot, pushed)
        BY <2>3 DEF PutAt
      <4>6. SoundTable(put.keys, cap)
        BY <1>2, <1>6, <4>1, <4>2, <4>4, <4>5, PutIn
      <4>7. DOMAIN put.values = Slots(cap)
        BY <2>3, <4>1
      <4>8. SoundTable(got.table.keys, 2 * cap)
        BY <3>1, <4>2, <4>6, <4>7, RehashSound
      <4> QED BY <1>3, <4>8, SlotsOf DEF SoundTable
    <3>3. Capacity' = 2 * cap
      BY <1>1, <3>2 DEF Capacity
    <3> QED BY <1>3, <3>3 DEF Capacity
  <2>5. values' = [put.values EXCEPT ![slot] = Append(@, Item)] /\ indexes' = put.keys
    BY <1>1, <2>1, <2>4
  <2>6. values' = [values EXCEPT ![slot] = Append(<<>>, Item)]
    <3> DEFINE item == Item
    <3> HIDE DEF item
    <3>1. put.values[slot] = <<>>
      BY <1>2, <2>3
    <3>2. values' = [put.values EXCEPT ![slot] = Append(<<>>, item)]
      BY <2>5, <3>1 DEF item
    <3>3. values' = [values EXCEPT ![slot] = Append(<<>>, item)]
      BY <1>2, <1>4, <2>3, <3>2
    <3> QED BY <3>3 DEF item
  <2> QED BY <2>2, <2>3, <2>5, <2>6 DEF slot
<1> QED BY <1>2, <1>5, <1>6

\* What a push that does not make the table grow does to the answer for a key.
LEMMA PushStays ==
  ASSUME ContainersShaped, Tables, NEW pushed \in FlatKey, MapPush(pushed), Capacity' = Capacity,
         Tables', NEW key \in FlatKey
  PROVE  GetSingle(key)' = IF filed'[key] = filed[key] THEN GetSingle(key) ELSE Append(GetSingle(key), Item)
<1>1. /\ indexes' = [indexes EXCEPT ![FoundSlot(pushed)] = pushed]
      /\ values' = [values EXCEPT ![FoundSlot(pushed)] = Append(GetSingle(pushed), Item)]
  BY PushedAt
<1>2. /\ filed'[pushed] # filed[pushed] /\ \A k \in FlatKey : k # pushed => filed'[k] = filed[k]
  BY Noted DEF MapPush, Tables
<1>3. /\ pushed # Empty /\ key # Empty
  BY DEF ContainersShaped
<1> DEFINE s == FoundSlot(pushed)
           t == FoundSlot(key)
           u == FoundSlot(key)'
<1>4. /\ s \in DOMAIN indexes /\ DOMAIN values = DOMAIN indexes /\ indexes[s] \in {Empty, pushed}
      /\ t \in DOMAIN indexes /\ indexes[t] \in {Empty, key}
      /\ (key \in Stored(indexes) <=> indexes[t] = key)
  BY TablesLookedUp DEF LooksUp
<1>5. /\ u \in DOMAIN indexes' /\ indexes'[u] \in {Empty, key}
      /\ (key \in Stored(indexes)' <=> indexes'[u] = key)
      /\ \A x \in Taken(indexes)' : indexes'[x] = key => x = u
  BY TablesLookUpNext DEF LooksUp
<1>6. /\ GetSingle(key) = IF indexes[t] # Empty THEN values[t] ELSE <<>>
      /\ GetSingle(key)' = IF indexes'[u] # Empty THEN values'[u] ELSE <<>>
  BY DEF GetSingle, ContainsKey
<1>7. CASE key = pushed
  <2>1. s \in Taken(indexes)' /\ indexes'[s] = key
    BY <1>1, <1>3, <1>4, <1>7 DEF Taken
  <2>2. u = s
    BY <1>5, <2>1
  <2> HIDE DEF u
  <2>3. GetSingle(key)' = values'[s]
    BY <1>3, <1>6, <2>1, <2>2
  <2>4. values'[s] = Append(GetSingle(key), Item)
    BY <1>1, <1>4, <1>7
  <2> QED BY <1>2, <1>7, <2>3, <2>4
<1>8. CASE key # pushed
  <2>1. filed'[key] = filed[key]
    BY <1>2, <1>8
  <2>2. CASE indexes[t] = key
    <3>1. t # s
      BY <1>3, <1>4, <1>8, <2>2
    <3> HIDE DEF s, t, u
    <3>2. t \in Taken(indexes)' /\ indexes'[t] = key
      BY <1>1, <1>3, <1>4, <2>2, <3>1 DEF Taken, s
    <3>3. u = t
      BY <1>5, <3>2
    <3>4. values'[t] = values[t]
      BY <1>1, <1>4, <3>1 DEF s
    <3> QED BY <1>3, <1>6, <2>1, <2>2, <3>2, <3>3, <3>4
  <2>3. CASE indexes[t] = Empty
    <3>1. key \notin Stored(indexes)
      BY <1>3, <1>4, <2>3
    <3>2. key \notin Stored(indexes)'
      BY <1>1, <1>4, <1>8, <3>1 DEF Stored, Taken
    <3>3. indexes'[u] = Empty
      BY <1>5, <3>2
    <3> QED BY <1>6, <2>1, <2>3, <3>3
  <2> QED BY <1>4, <2>2, <2>3
<1> QED BY <1>7, <1>8

\* A push that does not make the table grow reaches the vector of its key, and
\* no other key's: get_or_insert hands out the slot that the view will find.
THEOREM PushesStayInPlace == ASSUME ContainersShaped PROVE ContainersSpec => PushedInPlace
<1>1. Tables /\ Tables' /\ [ContainersNext]_containerVars =>
        [sort = "map" /\ Capacity' = Capacity =>
           \A key \in FlatKey : GetSingle(key)' =
             IF filed'[key] = filed[key] THEN GetSingle(key) ELSE Append(GetSingle(key), Item)]_containerVars
  <2> SUFFICES ASSUME Tables, Tables', ContainersNext, sort = "map", Capacity' = Capacity, NEW key \in FlatKey
               PROVE  GetSingle(key)' =
                        IF filed'[key] = filed[key] THEN GetSingle(key) ELSE Append(GetSingle(key), Item)
    OBVIOUS
  <2>1. PICK pushed \in FlatKey : MapPush(pushed)
    BY DEF ContainersNext, SetInsert, MultiInsert
  <2> QED BY <2>1, PushStays
<1> QED BY <1>1, AlwaysTables, PTL DEF ContainersSpec, PushedInPlace

-----------------------------------------------------------------------------
(* The multimap. *)

\* What a multimap is given.
Pairs == [key : FlatKey, item : Nat]

\* The pairs of a key lie behind the first lo and within the first hi.
Run(laid, key, lo, hi) ==
  /\ lo \in Nat /\ hi \in Nat /\ lo <= hi /\ hi <= Len(laid)
  /\ \A n \in 1 .. Len(laid) : (laid[n].key < key <=> n <= lo) /\ (laid[n].key <= key <=> n <= hi)

\* The items of a run.
ItemsOf(laid, lo, hi) == [n \in 1 .. hi - lo |-> laid[lo + n].item]

\* items are the items of a key, in the order of its run.
Holds(laid, key, items) ==
  \E lo, hi \in Nat : Run(laid, key, lo, hi) /\ items = ItemsOf(laid, lo, hi)

\* r is the pairs q with e put behind the first at of them.
PutAfter(r, q, at, e) ==
  /\ r \in Seq(Pairs) /\ Len(r) = Len(q) + 1
  /\ \A n \in 1 .. at : r[n] = q[n]
  /\ r[at + 1] = e
  /\ \A n \in at + 2 .. Len(q) + 1 : r[n] = q[n - 1]

\* What InsertAt does.
LEMMA Inserting ==
  ASSUME NEW q \in Seq(Pairs), NEW at \in 0 .. Len(q), NEW e \in Pairs
  PROVE  PutAfter(InsertAt(q, at + 1, e), q, at, e)
<1> DEFINE r == InsertAt(q, at + 1, e)
<1> DEFINE a == SubSeq(q, 1, at)
           b == SubSeq(q, at + 1, Len(q))
<1>1. Len(q) \in Nat /\ at \in Nat /\ (at + 1) - 1 = at
  OBVIOUS
<1>2. /\ a \in Seq(Pairs) /\ Len(a) = at /\ \A n \in 1 .. at : a[n] = q[n]
  BY SubSeqProperties
<1>3. /\ b \in Seq(Pairs) /\ Len(b) = Len(q) - at /\ \A n \in 1 .. Len(q) - at : b[n] = q[at + n]
  BY SubSeqProperties
<1>4. r = (a \o <<e>>) \o b
  BY <1>1 DEF InsertAt
<1> HIDE DEF a, b, r
<1>5. /\ a \o <<e>> \in Seq(Pairs) /\ Len(a \o <<e>>) = at + 1
      /\ \A n \in 1 .. at : (a \o <<e>>)[n] = q[n]
      /\ (a \o <<e>>)[at + 1] = e
  <2>1. <<e>> \in Seq(Pairs) /\ Len(<<e>>) = 1 /\ <<e>>[1] = e
    OBVIOUS
  <2> QED BY <1>1, <1>2, <2>1, ConcatProperties
<1> DEFINE c == a \o <<e>>
<1> HIDE DEF c
<1>6. /\ c \in Seq(Pairs) /\ Len(c) = at + 1 /\ r = c \o b
      /\ \A n \in 1 .. at : c[n] = q[n]
      /\ c[at + 1] = e
  BY <1>4, <1>5 DEF c
<1>7. /\ r \in Seq(Pairs) /\ Len(r) = Len(q) + 1
      /\ \A n \in 1 .. at + 1 : r[n] = c[n]
      /\ \A n \in at + 2 .. Len(q) + 1 : r[n] = b[n - (at + 1)]
  <2>1. /\ r \in Seq(Pairs) /\ Len(r) = Len(c) + Len(b)
        /\ \A n \in 1 .. Len(c) + Len(b) : r[n] = IF n <= Len(c) THEN c[n] ELSE b[n - Len(c)]
    <3>1. c \in Seq(Pairs) /\ b \in Seq(Pairs)
      BY <1>3, <1>6
    <3>2. /\ c \o b \in Seq(Pairs) /\ Len(c \o b) = Len(c) + Len(b)
          /\ \A n \in 1 .. Len(c) + Len(b) : (c \o b)[n] = IF n <= Len(c) THEN c[n] ELSE b[n - Len(c)]
      BY <3>1, ConcatProperties
    <3> QED BY <1>6, <3>2, Zenon
  <2>2. Len(c) + Len(b) = Len(q) + 1
    BY <1>1, <1>3, <1>6
  <2>3. \A n \in 1 .. Len(q) + 1 : r[n] = IF n <= at + 1 THEN c[n] ELSE b[n - (at + 1)]
    BY <1>6, <2>1, <2>2
  <2>4. \A n \in 1 .. at + 1 : r[n] = c[n]
    BY <1>1, <2>3
  <2>5. \A n \in at + 2 .. Len(q) + 1 : r[n] = b[n - (at + 1)]
    BY <1>1, <2>3
  <2> QED BY <2>1, <2>2, <2>4, <2>5
<1>8. \A n \in at + 2 .. Len(q) + 1 : r[n] = q[n - 1]
  <2> TAKE n \in at + 2 .. Len(q) + 1
  <2>1. n - (at + 1) \in 1 .. Len(q) - at /\ at + (n - (at + 1)) = n - 1
    BY <1>1
  <2> QED BY <1>3, <1>7, <2>1
<1>9. \A n \in 1 .. at : n \in 1 .. at + 1
  BY <1>1
<1>10. at + 1 \in 1 .. at + 1
  BY <1>1
<1> QED BY <1>6, <1>7, <1>8, <1>9, <1>10 DEF PutAfter, r

\* The keys of pairs are numbers.
LEMMA PairKeys ==
  ASSUME NEW laid \in Seq(Pairs), FlatKey \subseteq Nat, NEW pair \in Pairs
  PROVE  /\ Len(laid) \in Nat /\ pair.key \in Nat /\ pair.key \in FlatKey /\ pair.item \in Nat
         /\ \A n \in 1 .. Len(laid) : laid[n].key \in Nat
<1>1. \A x \in Pairs : x.key \in FlatKey /\ x.key \in Nat /\ x.item \in Nat
  BY DEF Pairs
<1>2. Len(laid) \in Nat /\ \A n \in 1 .. Len(laid) : laid[n] \in Pairs
  OBVIOUS
<1> QED BY <1>1, <1>2

\* Where a pair goes: behind the run of its key.
LEMMA PutBehind ==
  ASSUME NEW laid \in Seq(Pairs), FlatKey \subseteq Nat, NEW pair \in Pairs, NEW lo, NEW hi,
         Run(laid, pair.key, lo, hi)
  PROVE  PutInOrder(laid, pair) = InsertAt(laid, hi + 1, pair)
<1> DEFINE T == {n \in 0 .. Len(laid) : n < Len(laid) => laid[n + 1].key > pair.key}
<1>1. Len(laid) \in Nat /\ pair.key \in Nat /\ \A n \in 1 .. Len(laid) : laid[n].key \in Nat
  BY PairKeys
<1>2. hi \in T
  BY <1>1 DEF Run
<1>3. \A n \in T : hi <= n
  <2> SUFFICES ASSUME NEW n \in T, n < hi PROVE FALSE
    BY <1>1 DEF Run
  <2>1. n + 1 \in 1 .. Len(laid) /\ n + 1 <= hi
    BY <1>1 DEF Run
  <2> QED BY <1>1, <2>1 DEF Run
<1>4. Min(T) = hi
  <2>1. T \in SUBSET Nat /\ T # {}
    BY <1>1, <1>2
  <2>2. hi \in Nat
    BY DEF Run
  <2> HIDE DEF T
  <2>3. Min(T) \in T /\ Min(T) <= hi /\ Min(T) \in Nat
    BY <1>2, <2>1, LeastOfAll
  <2> QED BY <1>3, <2>2, <2>3
<1> QED BY <1>4 DEF PutInOrder

\* Putting a pair in order adds its item behind the items of its key, and
\* leaves the items of every other key.
LEMMA PutKeepsRuns ==
  ASSUME NEW laid \in Seq(Pairs), FlatKey \subseteq Nat, NEW pair \in Pairs,
         NEW f, \A k \in FlatKey : Holds(laid, k, f[k]), \A k \in FlatKey : f[k] \in Seq(Nat),
         NEW r, r = PutInOrder(laid, pair), NEW key \in FlatKey
  PROVE  /\ r \in Seq(Pairs) /\ Len(r) = Len(laid) + 1
         /\ Holds(r, key, IF key = pair.key THEN Append(f[key], pair.item) ELSE f[key])
<1>1. pair.key \in FlatKey /\ pair.item \in Nat
  BY PairKeys
<1>2. PICK below, at \in Nat : Run(laid, pair.key, below, at)
  BY <1>1 DEF Holds, ItemsOf
<1>3. at \in 0 .. Len(laid) /\ r = InsertAt(laid, at + 1, pair)
  <2>1. at \in 0 .. Len(laid)
    BY <1>2 DEF Run
  <2>2. PutInOrder(laid, pair) = InsertAt(laid, at + 1, pair)
    BY <1>2, PutBehind
  <2> QED BY <2>1, <2>2
<1>4. /\ r \in Seq(Pairs) /\ Len(r) = Len(laid) + 1
      /\ \A n \in 1 .. at : r[n] = laid[n]
      /\ r[at + 1] = pair
      /\ \A n \in at + 2 .. Len(laid) + 1 : r[n] = laid[n - 1]
  <2>1. PutAfter(r, laid, at, pair)
    BY <1>3, Inserting, Zenon
  <2> QED BY <2>1 DEF PutAfter
<1>5. PICK lo, hi \in Nat : Run(laid, key, lo, hi) /\ f[key] = [n \in 1 .. hi - lo |-> laid[lo + n].item]
  BY DEF Holds, ItemsOf
<1>6. Len(laid) \in Nat /\ pair.key \in Nat /\ key \in Nat /\ \A n \in 1 .. Len(laid) : laid[n].key \in Nat
  BY PairKeys
<1>7. /\ lo <= hi /\ hi <= Len(laid)
      /\ \A n \in 1 .. Len(laid) : (laid[n].key < key <=> n <= lo) /\ (laid[n].key <= key <=> n <= hi)
  BY <1>5 DEF Run
<1>8. \A n \in 1 .. Len(laid) : laid[n].key <= pair.key <=> n <= at
  BY <1>2 DEF Run
<1>9. CASE key < pair.key
  <2>1. hi <= at
    <3> SUFFICES ASSUME hi > at PROVE FALSE
      BY <1>3
    <3>1. hi \in 1 .. Len(laid)
      BY <1>3, <1>7
    <3> QED BY <1>3, <1>6, <1>7, <1>8, <1>9, <3>1
  <2>2. ASSUME NEW n \in 1 .. Len(r)
        PROVE  (r[n].key < key <=> n <= lo) /\ (r[n].key <= key <=> n <= hi)
    <3>1. CASE n \in 1 .. at
      BY <1>3, <1>4, <1>7, <3>1
    <3>2. CASE n = at + 1
      BY <1>3, <1>4, <1>6, <1>7, <1>9, <2>1, <3>2
    <3>3. CASE n \in at + 2 .. Len(laid) + 1
      <4>1. n - 1 \in 1 .. Len(laid) /\ r[n] = laid[n - 1] /\ n - 1 > hi /\ n > hi
        BY <1>3, <1>4, <1>6, <2>1, <3>3
      <4> QED BY <1>6, <1>7, <4>1
    <3> QED BY <1>3, <1>4, <1>6, <3>1, <3>2, <3>3
  <2>3. Run(r, key, lo, hi)
    BY <1>4, <1>6, <1>7, <2>2 DEF Run
  <2>4. \A n \in 1 .. hi - lo : r[lo + n].item = laid[lo + n].item
    BY <1>3, <1>4, <1>7, <2>1
  <2>5. f[key] = [n \in 1 .. hi - lo |-> r[lo + n].item]
    BY <1>5, <2>4
  <2>6. key # pair.key
    BY <1>6, <1>9
  <2> QED BY <1>4, <2>3, <2>5, <2>6 DEF Holds, ItemsOf
<1>10. CASE key = pair.key
  <2>1. hi = at
    <3>1. CASE hi < at
      <4>1. at \in 1 .. Len(laid)
        BY <1>3, <3>1
      <4> QED BY <1>3, <1>7, <1>8, <1>10, <3>1, <4>1
    <3>2. CASE at < hi
      <4>1. hi \in 1 .. Len(laid)
        BY <1>3, <1>7, <3>2
      <4> QED BY <1>3, <1>7, <1>8, <1>10, <3>2, <4>1
    <3> QED BY <1>3, <3>1, <3>2
  <2>2. ASSUME NEW n \in 1 .. Len(r)
        PROVE  (r[n].key < key <=> n <= lo) /\ (r[n].key <= key <=> n <= hi + 1)
    <3>1. CASE n \in 1 .. at
      BY <1>3, <1>4, <1>7, <2>1, <3>1
    <3>2. CASE n = at + 1
      BY <1>3, <1>4, <1>6, <1>7, <1>10, <2>1, <3>2
    <3>3. CASE n \in at + 2 .. Len(laid) + 1
      <4>1. n - 1 \in 1 .. Len(laid) /\ r[n] = laid[n - 1] /\ n - 1 > hi /\ n > hi + 1
        BY <1>3, <1>4, <1>6, <2>1, <3>3
      <4> QED BY <1>6, <1>7, <4>1
    <3> QED BY <1>3, <1>4, <1>6, <3>1, <3>2, <3>3
  <2>3. Run(r, key, lo, hi + 1)
    BY <1>4, <1>6, <1>7, <2>2 DEF Run
  <2> DEFINE g == [n \in 1 .. (hi + 1) - lo |-> r[lo + n].item]
  <2>4. Append(f[key], pair.item) = g
    <3>1. f[key] \in Seq(Nat) /\ Len(f[key]) = hi - lo /\ \A n \in 1 .. hi - lo : f[key][n] = laid[lo + n].item
      <4>1. hi - lo \in Nat /\ DOMAIN f[key] = 1 .. hi - lo
        BY <1>5, <1>7
      <4>2. f[key] \in Seq(Nat)
        OBVIOUS
      <4>3. Len(f[key]) = hi - lo
        <5>1. Len(f[key]) \in Nat /\ DOMAIN f[key] = 1 .. Len(f[key])
          BY <4>2, LenProperties
        <5>2. 1 .. Len(f[key]) = 1 .. hi - lo
          BY <4>1, <5>1
        <5> QED BY <4>1, <5>1, <5>2
      <4> QED BY <1>5, <4>2, <4>3
    <3>2. (hi + 1) - lo = hi - lo + 1 /\ hi - lo \in Nat
      BY <1>7
    <3>3. \A n \in 1 .. hi - lo : r[lo + n].item = laid[lo + n].item
      BY <1>3, <1>4, <1>7, <2>1
    <3>4. r[lo + (hi - lo + 1)].item = pair.item
      BY <1>4, <2>1, lo + (hi - lo + 1) = at + 1
    <3> DEFINE q == f[key]
               x == pair.item
               d == hi - lo
    <3>5. x \in Nat /\ q \in Seq(Nat) /\ Len(q) = d /\ d \in Nat
      BY <1>1, <3>1, <3>2
    <3>6. g = [n \in 1 .. d + 1 |-> r[lo + n].item]
      BY <3>2
    <3>7. \A n \in 1 .. d : r[lo + n].item = q[n]
      BY <3>1, <3>3
    <3>8. r[lo + (d + 1)].item = x
      BY <3>4
    <3> HIDE DEF q, x, d, g
    <3>9. /\ Append(q, x) \in Seq(Nat) /\ Len(Append(q, x)) = d + 1
          /\ \A n \in 1 .. d : Append(q, x)[n] = q[n]
          /\ Append(q, x)[d + 1] = x
      BY <3>5, AppendProperties
    <3>10. \A n \in 1 .. d + 1 : Append(q, x)[n] = r[lo + n].item
      <4> TAKE n \in 1 .. d + 1
      <4>1. n \in 1 .. d \/ n = d + 1
        BY <3>5
      <4> QED BY <3>7, <3>8, <3>9, <4>1
    <3>11. Append(q, x) = [n \in 1 .. d + 1 |-> Append(q, x)[n]]
      <4> DEFINE y == Append(q, x)
      <4>1. y \in Seq(Nat) /\ Len(y) = d + 1
        BY <3>9
      <4> HIDE DEF y
      <4>2. y = [n \in 1 .. d + 1 |-> y[n]]
        BY <4>1
      <4> QED BY <4>2 DEF y
    <3>12. Append(q, x) = g
      BY <3>6, <3>10, <3>11
    <3> QED BY <3>12 DEF q, x
  <2>5. hi + 1 \in Nat
    OBVIOUS
  <2> QED BY <1>4, <1>10, <2>3, <2>4, <2>5 DEF Holds, ItemsOf
<1>11. CASE key > pair.key
  <2>1. at <= lo
    <3> SUFFICES ASSUME at > lo PROVE FALSE
      BY <1>3
    <3>1. at \in 1 .. Len(laid)
      BY <1>3
    <3> QED BY <1>6, <1>7, <1>8, <1>11, <3>1
  <2>2. ASSUME NEW n \in 1 .. Len(r)
        PROVE  (r[n].key < key <=> n <= lo + 1) /\ (r[n].key <= key <=> n <= hi + 1)
    <3>1. CASE n \in 1 .. at
      BY <1>3, <1>4, <1>6, <1>7, <2>1, <3>1
    <3>2. CASE n = at + 1
      BY <1>3, <1>4, <1>6, <1>7, <1>11, <2>1, <3>2
    <3>3. CASE n \in at + 2 .. Len(laid) + 1
      <4>1. n - 1 \in 1 .. Len(laid) /\ r[n] = laid[n - 1]
        BY <1>3, <1>4, <1>6, <3>3
      <4>2. (n - 1 <= lo <=> n <= lo + 1) /\ (n - 1 <= hi <=> n <= hi + 1)
        BY <1>6, <3>3, <1>3
      <4> QED BY <1>6, <1>7, <4>1, <4>2
    <3> QED BY <1>3, <1>4, <1>6, <3>1, <3>2, <3>3
  <2>3. Run(r, key, lo + 1, hi + 1)
    BY <1>4, <1>6, <1>7, <2>2 DEF Run
  <2>4. \A n \in 1 .. hi - lo : r[(lo + 1) + n].item = laid[lo + n].item
    <3> TAKE n \in 1 .. hi - lo
    <3>1. (lo + 1) + n \in at + 2 .. Len(laid) + 1 /\ ((lo + 1) + n) - 1 = lo + n
      BY <1>3, <1>7, <2>1
    <3> QED BY <1>4, <3>1
  <2>5. f[key] = [n \in 1 .. (hi + 1) - (lo + 1) |-> r[(lo + 1) + n].item]
    <3>1. (hi + 1) - (lo + 1) = hi - lo
      OBVIOUS
    <3> QED BY <1>5, <2>4, <3>1
  <2>6. key # pair.key /\ lo + 1 \in Nat /\ hi + 1 \in Nat
    BY <1>6, <1>11
  <2> QED BY <1>4, <2>3, <2>5, <2>6 DEF Holds, ItemsOf
<1> QED BY <1>6, <1>9, <1>10, <1>11

\* g holds the pairs laid out after the first n of them are put in order, up to m.
LayingOut(pairs, g, m) ==
  g = [n \in 0 .. m |-> IF n = 0 THEN <<>> ELSE PutInOrder(g[n - 1], pairs[n])]

\* There are such steps.
LEMMA LayingOutExists ==
  ASSUME NEW pairs, NEW count \in Nat
  PROVE  \E g : LayingOut(pairs, g, count)
<1> DEFINE T == {m \in 0 .. count : \E g : LayingOut(pairs, g, m)}
<1>1. 0 \in T
  <2>1. LayingOut(pairs, [n \in 0 .. 0 |-> <<>>], 0)
    BY DEF LayingOut
  <2> QED BY <2>1
<1>2. ASSUME NEW m \in 0 .. count - 1, m \in T PROVE m + 1 \in T
  <2>1. PICK h : LayingOut(pairs, h, m)
    BY <1>2
  <2> DEFINE step(n, f) == IF n = 0 THEN <<>> ELSE PutInOrder(f[n - 1], pairs[n])
             g == [n \in 0 .. m + 1 |-> IF n = m + 1 THEN step(m + 1, h) ELSE h[n]]
  <2>2. \A n \in 0 .. m : h[n] = step(n, h)
    BY <2>1 DEF LayingOut
  <2>3. /\ \A n \in 0 .. m : g[n] = h[n]
        /\ g[m + 1] = step(m + 1, h)
    <3> HIDE DEF step
    <3> QED OBVIOUS
  <2>4. g = [n \in 0 .. m + 1 |-> g[n]]
    OBVIOUS
  <2> HIDE DEF g
  <2>5. \A n \in 0 .. m : step(n, g) = step(n, h)
    BY <2>3
  <2>6. step(m + 1, g) = step(m + 1, h)
    BY <2>3
  <2>7. \A n \in 0 .. m + 1 : g[n] = step(n, g)
    <3> HIDE DEF step
    <3>1. \A n \in 0 .. m + 1 : n \in 0 .. m \/ n = m + 1
      OBVIOUS
    <3> QED BY <2>2, <2>3, <2>5, <2>6, <3>1
  <2>8. LayingOut(pairs, g, m + 1)
    BY <2>4, <2>7, Zenon DEF LayingOut
  <2> QED BY <2>8
<1>3. count \in T
  <2> HIDE DEF T
  <2> QED BY <1>1, <1>2, StepByStep
<1> QED BY <1>3

\* SortedBy is the last of them.
LEMMA SortedByUnfolds ==
  ASSUME NEW pairs, Len(pairs) \in Nat
  PROVE  \E g : LayingOut(pairs, g, Len(pairs)) /\ SortedBy(pairs) = g[Len(pairs)]
<1> DEFINE g == CHOOSE g : LayingOut(pairs, g, Len(pairs))
<1>1. LayingOut(pairs, g, Len(pairs))
  BY LayingOutExists
<1>2. SortedBy(pairs) = g[Len(pairs)]
  BY Zenon DEF SortedBy, LayingOut
<1> QED BY <1>1, <1>2

\* One of these steps follows from the one before.
LEMMA LayingOutStep ==
  ASSUME NEW pairs, NEW count \in Nat, NEW g, LayingOut(pairs, g, count)
  PROVE  g[0] = <<>> /\ \A n \in 0 .. count - 1 : g[n + 1] = PutInOrder(g[n], pairs[n + 1])
<1>1. \A n \in 0 .. count : g[n] = IF n = 0 THEN <<>> ELSE PutInOrder(g[n - 1], pairs[n])
  BY DEF LayingOut
<1>2. ASSUME NEW n \in 0 .. count - 1 PROVE n + 1 \in 0 .. count /\ n + 1 # 0 /\ (n + 1) - 1 = n
  OBVIOUS
<1>3. 0 \in 0 .. count
  OBVIOUS
<1> QED BY <1>1, <1>2, <1>3, Zenon

\* One more pair is put in order among those laid out before it.
LEMMA SortedOfMore ==
  ASSUME NEW pairs \in Seq(Pairs), NEW pair \in Pairs
  PROVE  SortedBy(Append(pairs, pair)) = PutInOrder(SortedBy(pairs), pair)
<1> DEFINE more == Append(pairs, pair)
           count == Len(pairs)
<1>1. /\ more \in Seq(Pairs) /\ count \in Nat /\ Len(more) = count + 1
      /\ \A n \in 1 .. count : more[n] = pairs[n]
      /\ more[count + 1] = pair
  BY AppendProperties
<1>2. PICK g : LayingOut(pairs, g, count) /\ SortedBy(pairs) = g[count]
  BY <1>1, SortedByUnfolds
<1> HIDE DEF more, count
<1>3. PICK h : LayingOut(more, h, count + 1) /\ SortedBy(more) = h[count + 1]
  <2>1. Len(more) \in Nat
    BY <1>1
  <2> QED BY <1>1, <2>1, SortedByUnfolds
<1>4. g[0] = <<>> /\ \A n \in 0 .. count - 1 : g[n + 1] = PutInOrder(g[n], pairs[n + 1])
  BY <1>1, <1>2, LayingOutStep
<1>5. h[0] = <<>> /\ \A n \in 0 .. count : h[n + 1] = PutInOrder(h[n], more[n + 1])
  <2>1. count + 1 \in Nat /\ (count + 1) - 1 = count
    BY <1>1
  <2>2. h[0] = <<>> /\ \A n \in 0 .. (count + 1) - 1 : h[n + 1] = PutInOrder(h[n], more[n + 1])
    BY <1>3, <2>1, LayingOutStep, Zenon
  <2> QED BY <2>1, <2>2
<1> DEFINE T == {n \in 0 .. count : h[n] = g[n]}
<1>6. 0 \in T
  BY <1>1, <1>4, <1>5
<1>7. ASSUME NEW n \in 0 .. count - 1, n \in T PROVE n + 1 \in T
  <2>1. n \in 0 .. count /\ n + 1 \in 0 .. count /\ n + 1 \in 1 .. count
    BY <1>1
  <2>2. more[n + 1] = pairs[n + 1]
    BY <1>1, <2>1
  <2>3. h[n + 1] = g[n + 1]
    BY <1>4, <1>5, <1>7, <2>1, <2>2
  <2> QED BY <2>1, <2>3
<1>8. h[count] = g[count]
  <2> HIDE DEF T
  <2>1. \A n \in 0 .. count : n \in T
    BY <1>1, <1>6, <1>7, StepByStep
  <2>2. count \in T
    BY <1>1, <2>1
  <2> QED BY <2>2 DEF T
<1>9. h[count + 1] = PutInOrder(h[count], more[count + 1])
  BY <1>1, <1>5
<1> QED BY <1>1, <1>2, <1>3, <1>8, <1>9 DEF more

\* Without pairs, nothing is laid out.
LEMMA SortedOfNone == SortedBy(<<>>) = <<>>
<1>1. Len(<<>>) = 0
  OBVIOUS
<1>2. PICK g : LayingOut(<<>>, g, 0) /\ SortedBy(<<>>) = g[0]
  <2>1. Len(<<>>) \in Nat
    BY <1>1
  <2> QED BY <1>1, <2>1, SortedByUnfolds
<1> QED BY <1>2, LayingOutStep

-----------------------------------------------------------------------------
(* The binary search. *)

\* What the search knows: the first of the key's pairs lies within its bounds.
Bounds(laid, lo, b) ==
  /\ b \in [left : Nat, right : Nat]
  /\ b.left <= lo /\ lo <= b.right /\ b.right <= Len(laid)

\* One turn of the loop keeps that, and narrows bounds that still differ.
LEMMA HalvedNarrows ==
  ASSUME NEW laid \in Seq(Pairs), FlatKey \subseteq Nat, NEW key \in FlatKey, NEW lo, NEW hi, Run(laid, key, lo, hi),
         NEW b, Bounds(laid, lo, b), NEW c, c = Halved(laid, key, b)
  PROVE  /\ Bounds(laid, lo, c)
         /\ c.right - c.left <= b.right - b.left
         /\ b.left # b.right => c.right - c.left < b.right - b.left
<1> DEFINE mid == b.left + (b.right - b.left) \div 2
<1>1. /\ b.left \in Nat /\ b.right \in Nat /\ lo \in Nat /\ Len(laid) \in Nat
      /\ b.left <= lo /\ lo <= b.right /\ b.right <= Len(laid) /\ key \in Nat
      /\ b = [left |-> b.left, right |-> b.right]
  BY DEF Bounds, Run
<1>2. CASE b.left >= b.right
  <2>1. c = b
    BY <1>2 DEF Halved
  <2> QED BY <1>1, <1>2, <2>1
<1>3. CASE b.left < b.right
  <2>1. mid \in Nat /\ b.left <= mid /\ mid < b.right
    BY <1>1, <1>3
  <2>2. c = IF laid[mid + 1].key < key THEN [b EXCEPT !.left = mid + 1] ELSE [b EXCEPT !.right = mid]
    BY <1>1, <1>3 DEF Halved
  <2> HIDE DEF mid
  <2>3. mid + 1 \in 1 .. Len(laid)
    BY <1>1, <2>1
  <2>4. laid[mid + 1].key < key <=> mid + 1 <= lo
    BY <2>3 DEF Run
  <2>5. CASE laid[mid + 1].key < key
    <3>1. c = [left |-> mid + 1, right |-> b.right]
      BY <1>1, <2>2, <2>5
    <3> QED BY <1>1, <2>1, <2>4, <2>5, <3>1 DEF Bounds
  <2>6. CASE ~(laid[mid + 1].key < key)
    <3>1. c = [left |-> b.left, right |-> mid]
      BY <1>1, <2>2, <2>6
    <3> QED BY <1>1, <2>1, <2>4, <2>6, <3>1 DEF Bounds
  <2> QED BY <2>5, <2>6
<1> QED BY <1>1, <1>2, <1>3

\* g holds the bounds after n turns of the loop, up to m.
Halving(laid, key, g, m) ==
  g = [n \in 0 .. m |-> IF n = 0 THEN [left |-> 0, right |-> Len(laid)] ELSE Halved(laid, key, g[n - 1])]

\* There are such bounds.
LEMMA HalvingExists ==
  ASSUME NEW laid, NEW key, NEW count \in Nat
  PROVE  \E g : Halving(laid, key, g, count)
<1> DEFINE T == {m \in 0 .. count : \E g : Halving(laid, key, g, m)}
           whole == [left |-> 0, right |-> Len(laid)]
<1>1. 0 \in T
  <2>1. Halving(laid, key, [n \in 0 .. 0 |-> whole], 0)
    BY DEF Halving
  <2> QED BY <2>1
<1>2. ASSUME NEW m \in 0 .. count - 1, m \in T PROVE m + 1 \in T
  <2>1. PICK h : Halving(laid, key, h, m)
    BY <1>2
  <2> DEFINE step(n, f) == IF n = 0 THEN whole ELSE Halved(laid, key, f[n - 1])
             g == [n \in 0 .. m + 1 |-> IF n = m + 1 THEN step(m + 1, h) ELSE h[n]]
  <2>2. \A n \in 0 .. m : h[n] = step(n, h)
    BY <2>1 DEF Halving
  <2>3. /\ \A n \in 0 .. m : g[n] = h[n]
        /\ g[m + 1] = step(m + 1, h)
    <3> HIDE DEF step
    <3> QED OBVIOUS
  <2>4. g = [n \in 0 .. m + 1 |-> g[n]]
    OBVIOUS
  <2> HIDE DEF g
  <2>5. \A n \in 0 .. m : step(n, g) = step(n, h)
    BY <2>3
  <2>6. step(m + 1, g) = step(m + 1, h)
    BY <2>3
  <2>7. \A n \in 0 .. m + 1 : g[n] = step(n, g)
    <3> HIDE DEF step
    <3>1. \A n \in 0 .. m + 1 : n \in 0 .. m \/ n = m + 1
      OBVIOUS
    <3> QED BY <2>2, <2>3, <2>5, <2>6, <3>1
  <2>8. Halving(laid, key, g, m + 1)
    BY <2>4, <2>7, Zenon DEF Halving
  <2> QED BY <2>8
<1>3. count \in T
  <2> HIDE DEF T
  <2> QED BY <1>1, <1>2, StepByStep
<1> QED BY <1>3

\* The search ends with the last of them.
LEMMA SearchUnfolds ==
  ASSUME NEW laid, Len(laid) \in Nat, NEW key
  PROVE  \E g : Halving(laid, key, g, Len(laid)) /\ PartitionPoint(laid, key) = g[Len(laid)].left
<1> DEFINE g == CHOOSE g : Halving(laid, key, g, Len(laid))
<1>1. Halving(laid, key, g, Len(laid))
  BY HalvingExists
<1>2. PartitionPoint(laid, key) = g[Len(laid)].left
  BY Zenon DEF PartitionPoint, Halving
<1> QED BY <1>1, <1>2

\* The search finds where the pairs of the key begin.
LEMMA SearchFinds ==
  ASSUME NEW laid \in Seq(Pairs), FlatKey \subseteq Nat, NEW key \in FlatKey, NEW lo, NEW hi, Run(laid, key, lo, hi)
  PROVE  PartitionPoint(laid, key) = lo
<1> DEFINE count == Len(laid)
<1>1. count \in Nat /\ lo \in Nat /\ lo <= count
  BY DEF Run
<1>2. PICK g : Halving(laid, key, g, count) /\ PartitionPoint(laid, key) = g[count].left
  BY <1>1, SearchUnfolds
<1>3. \A n \in 0 .. count :
        g[n] = IF n = 0 THEN [left |-> 0, right |-> count] ELSE Halved(laid, key, g[n - 1])
  BY <1>2 DEF Halving
<1> HIDE DEF count
<1>4. g[0] = [left |-> 0, right |-> count]
  BY <1>1, <1>3
<1>5. \A n \in 0 .. count - 1 : g[n + 1] = Halved(laid, key, g[n])
  <2> TAKE n \in 0 .. count - 1
  <2>1. n + 1 \in 0 .. count /\ n + 1 # 0 /\ (n + 1) - 1 = n
    BY <1>1
  <2> QED BY <1>3, <2>1, Zenon
<1> DEFINE T == {n \in 0 .. count : Bounds(laid, lo, g[n]) /\ g[n].right - g[n].left <= count - n}
<1>6. 0 \in T
  <2>1. Bounds(laid, lo, g[0])
    BY <1>1, <1>4 DEF Bounds, count
  <2>2. g[0].right - g[0].left <= count - 0 /\ 0 \in 0 .. count
    BY <1>1, <1>4
  <2> QED BY <2>1, <2>2
<1>7. ASSUME NEW n \in 0 .. count - 1, n \in T PROVE n + 1 \in T
  <2> DEFINE b == g[n]
             c == g[n + 1]
  <2>1. Bounds(laid, lo, b) /\ b.right - b.left <= count - n
    BY <1>7
  <2>2. c = Halved(laid, key, b)
    BY <1>5
  <2>3. /\ Bounds(laid, lo, c)
        /\ c.right - c.left <= b.right - b.left
        /\ b.left # b.right => c.right - c.left < b.right - b.left
    <3> HIDE DEF b, c
    <3> QED BY <2>1, <2>2, HalvedNarrows
  <2>4. /\ b.left \in Nat /\ b.right \in Nat /\ c.left \in Nat /\ c.right \in Nat
    <3> HIDE DEF b, c
    <3> QED BY <2>1, <2>3 DEF Bounds
  <2>5. c.right - c.left <= count - (n + 1)
    <3> HIDE DEF b, c
    <3> QED BY <1>1, <2>1, <2>3, <2>4
  <2> QED BY <1>1, <2>3, <2>5
<1>8. Bounds(laid, lo, g[count]) /\ g[count].right - g[count].left <= 0
  <2> HIDE DEF T
  <2>1. \A n \in 0 .. count : n \in T
    BY <1>1, <1>6, <1>7, StepByStep
  <2>2. count \in T
    BY <1>1, <2>1
  <2> QED BY <1>1, <2>2 DEF T
<1>9. g[count].left = lo
  BY <1>1, <1>8 DEF Bounds
<1> QED BY <1>2, <1>9

\* From there, the iterator yields the items of the key and stops.
LEMMA RunYielded ==
  ASSUME NEW laid \in Seq(Pairs), FlatKey \subseteq Nat, NEW key \in FlatKey, NEW lo, NEW hi, Run(laid, key, lo, hi)
  PROVE  RunFrom(laid, key, lo) = ItemsOf(laid, lo, hi)
<1> DEFINE T == {n \in lo .. Len(laid) : n < Len(laid) => laid[n + 1].key # key}
<1>1. /\ Len(laid) \in Nat /\ key \in Nat /\ \A n \in 1 .. Len(laid) : laid[n].key \in Nat
  <2>1. \A x \in Pairs : x.key \in Nat
    BY DEF Pairs
  <2> HIDE DEF Pairs
  <2>2. Len(laid) \in Nat /\ \A n \in 1 .. Len(laid) : laid[n] \in Pairs
    OBVIOUS
  <2> QED BY <2>1, <2>2
<1>2. /\ lo \in Nat /\ hi \in Nat /\ lo <= hi /\ hi <= Len(laid)
      /\ \A n \in 1 .. Len(laid) : (laid[n].key < key <=> n <= lo) /\ (laid[n].key <= key <=> n <= hi)
  BY DEF Run
<1>3. hi \in T
  <2> SUFFICES ASSUME hi < Len(laid), laid[hi + 1].key = key PROVE FALSE
    BY <1>1, <1>2
  <2>1. hi + 1 \in 1 .. Len(laid)
    BY <1>1, <1>2
  <2> QED BY <1>1, <1>2, <2>1
<1>4. \A n \in T : hi <= n
  <2> SUFFICES ASSUME NEW n \in T, n < hi PROVE FALSE
    BY <1>1, <1>2
  <2>1. n + 1 \in 1 .. Len(laid) /\ n + 1 <= hi /\ ~(n + 1 <= lo) /\ n < Len(laid)
    BY <1>1, <1>2
  <2>2. laid[n + 1].key = key
    BY <1>1, <1>2, <2>1
  <2> QED BY <2>1, <2>2
<1>5. Min(T) = hi
  <2>1. T \in SUBSET Nat /\ T # {}
    BY <1>1, <1>2, <1>3
  <2> HIDE DEF T
  <2>2. Min(T) \in T /\ Min(T) <= hi /\ Min(T) \in Nat
    BY <1>3, <2>1, LeastOfAll
  <2> QED BY <1>2, <1>4, <2>2
<1> QED BY <1>5 DEF RunFrom, ItemsOf

-----------------------------------------------------------------------------
(* The multimap, step by step. *)

\* Of a multimap: the pairs laid out are sorted, and the run of each key holds
\* the items filed under it.
Runs ==
  sort = "multimap" =>
    /\ Laid \in Seq(Pairs)
    /\ \A key \in FlatKey : Holds(Laid, key, filed[key])

\* It holds before a call,
LEMMA InitRuns == ASSUME ContainersShaped, ContainersInit PROVE Runs
<1>1. Laid = <<>>
  BY SortedOfNone DEF ContainersInit, Laid
<1>2. ASSUME NEW key \in FlatKey PROVE Holds(<<>>, key, filed[key])
  <2>1. filed[key] = <<>>
    BY DEF ContainersInit
  <2>2. Len(<<>>) = 0
    OBVIOUS
  <2>3. Run(<<>>, key, 0, 0)
    BY <2>2 DEF Run
  <2>4. <<>> = [n \in 1 .. 0 - 0 |-> <<>>[0 + n].item]
    OBVIOUS
  <2> QED BY <2>1, <2>3, <2>4 DEF Holds, ItemsOf
<1>3. Laid \in Seq(Pairs)
  BY <1>1
<1> QED BY <1>1, <1>2, <1>3 DEF Runs

\* every call keeps it.
LEMMA NextRuns ==
  ASSUME ContainersShaped, Tables, Runs, [ContainersNext]_containerVars
  PROVE  Runs'
<1>1. ASSUME NEW pushed \in FlatKey, MultiInsert(pushed) PROVE Runs'
  <2> DEFINE pair == [key |-> pushed, item |-> Item]
             more == PutInOrder(Laid, pair)
  <2>1. /\ sort = "multimap" /\ entries' = Append(entries, pair) /\ Note(pushed)
    BY <1>1 DEF MultiInsert
  <2>2. /\ filed \in [FlatKey \cup {Empty} -> Seq(Nat)] /\ entries \in Seq(Pairs) /\ FlatKey \subseteq Nat
    BY DEF Tables, ContainersShaped, Pairs
  <2>3. /\ Item \in Nat /\ filed'[pushed] = Append(filed[pushed], Item)
        /\ \A k \in FlatKey : k # pushed => filed'[k] = filed[k]
    BY <2>1, Noted DEF Tables
  <2>4. pair \in Pairs /\ pair.key = pushed /\ pair.item = Item
    BY <2>3 DEF Pairs
  <2> HIDE DEF pair
  <2>5. Laid' = more
    BY <2>1, <2>2, <2>4, SortedOfMore, Zenon DEF Laid
  <2>6. Laid \in Seq(Pairs) /\ \A k \in FlatKey : Holds(Laid, k, filed[k]) /\ filed[k] \in Seq(Nat)
    BY <2>1, <2>2 DEF Runs
  <2>7. ASSUME NEW key \in FlatKey
        PROVE  /\ more \in Seq(Pairs)
               /\ Holds(more, key, IF key = pushed THEN Append(filed[key], Item) ELSE filed[key])
    <3> DEFINE laid == Laid
               f == filed
               r == more
    <3>1. /\ laid \in Seq(Pairs) /\ r = PutInOrder(laid, pair)
          /\ \A k \in FlatKey : Holds(laid, k, f[k]) /\ f[k] \in Seq(Nat)
      BY <2>6
    <3> HIDE DEF laid, f, r
    <3>2. r \in Seq(Pairs) /\ Holds(r, key, IF key = pair.key THEN Append(f[key], pair.item) ELSE f[key])
      BY <2>2, <2>4, <3>1, PutKeepsRuns
    <3> QED BY <2>4, <3>2 DEF f, r
  <2> HIDE DEF more
  <2>8. more \in Seq(Pairs)
    BY <1>1, <2>7
  <2>9. ASSUME NEW key \in FlatKey PROVE Holds(more, key, filed'[key])
    BY <2>3, <2>7
  <2>10. ASSUME NEW key \in FlatKey PROVE Holds(Laid, key, filed[key])'
    <3>1. Holds(Laid', key, filed'[key])
      BY <2>5, <2>9, Zenon
    <3> QED BY <3>1 DEF Holds, Run, ItemsOf
  <2> QED BY <2>5, <2>8, <2>10 DEF Runs
<1>2. ASSUME sort' # "multimap" PROVE Runs'
  BY <1>2 DEF Runs
<1>3. ASSUME UNCHANGED containerVars PROVE Runs'
  <2>1. sort' = sort /\ filed' = filed /\ entries' = entries
    BY <1>3 DEF containerVars
  <2>2. Laid' = Laid
    BY <2>1, Zenon DEF Laid
  <2>3. ASSUME NEW key \in FlatKey, Holds(Laid, key, filed[key]) PROVE Holds(Laid, key, filed[key])'
    <3>1. Holds(Laid', key, filed'[key])
      BY <2>1, <2>2, <2>3
    <3> QED BY <3>1 DEF Holds, Run, ItemsOf
  <2> QED BY <2>1, <2>2, <2>3 DEF Runs
<1> QED BY <1>1, <1>2, <1>3 DEF ContainersNext, SetInsert, MapPush

\* A multimap's get yields the items filed under the key, in the order filed:
\* the stable sort keeps the run of each key in that order, the binary search
\* ends where the run begins, and the iterator ends where it does.
THEOREM RunsAlwaysFound == ASSUME ContainersShaped PROVE ContainersSpec => []RunsFound
<1>1. ContainersInit => Runs
  BY InitRuns
<1>2. Tables /\ Runs /\ [ContainersNext]_containerVars => Runs'
  BY NextRuns
<1>3. Runs => RunsFound
  <2> SUFFICES ASSUME Runs, sort = "multimap", NEW key \in FlatKey PROVE GetAll(key) = filed[key]
    BY DEF RunsFound
  <2>1. Laid \in Seq(Pairs) /\ Holds(Laid, key, filed[key]) /\ FlatKey \subseteq Nat
    BY DEF Runs, ContainersShaped
  <2>2. PICK lo, hi \in Nat :
          Run(Laid, key, lo, hi) /\ filed[key] = ItemsOf(Laid, lo, hi)
    BY <2>1 DEF Holds
  <2>3. PartitionPoint(Laid, key) = lo
    BY <2>1, <2>2, SearchFinds
  <2>4. RunFrom(Laid, key, lo) = filed[key]
    BY <2>1, <2>2, RunYielded, Zenon
  <2> QED BY <2>3, <2>4 DEF GetAll
<1> QED BY <1>1, <1>2, <1>3, AlwaysTables, PTL DEF ContainersSpec
================================================================================
