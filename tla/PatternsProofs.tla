----------------------------- MODULE PatternsProofs -----------------------------
(***************************************************************************)
(* Why a filter is found where its text stands, and why a URL it is found  *)
(* in has the tokens it may be filed under, for texts and URLs of any      *)
(* length.  A wildcard text is followed place by place: each place that it *)
(* reaches after a sign has a predecessor before the sign, and what stands *)
(* between the two is what the sign stands for.                            *)
(***************************************************************************)
EXTENDS Patterns, SequenceTheorems, WellFoundedInduction, TLAPS

-----------------------------------------------------------------------------
(* Numbers and sequences. *)

\* What texts and URLs are made of.
Char == Sign \cup {"h"} \cup STRING

\* No letter is a sign.
Signs == Letter \cap {".", "/", "*", "^"} = {}

\* A set of numbers has a least element, which Least chooses.
LEMMA LeastOfAll ==
  ASSUME NEW T \in SUBSET Nat, T # {}
  PROVE  Least(T) \in T /\ \A k \in T : Least(T) <= k
<1> DEFINE R == OpToRel(<, Nat)
<1>1. IsWellFoundedOn(R, Nat)
  BY NatLessThanWellFounded
<1>2. \A x, y \in Nat : x < y => <<x, y>> \in R
  BY DEF OpToRel
<1> HIDE DEF R
<1>3. PICK m \in T : \A k \in T : <<k, m>> \notin R
  BY <1>1, WFMin, T # {}, T \subseteq Nat
<1>4. \A k \in T : m <= k
  <2>1. \A k \in T : ~(k < m)
    BY <1>2, <1>3
  <2> QED BY <2>1
<1> QED BY <1>4 DEF Least

\* What holds at first and from each step to the next holds of all steps.
LEMMA StepByStep ==
  ASSUME NEW N \in Nat, NEW T, 0 \in T, \A n \in 0 .. N - 1 : n \in T => n + 1 \in T
  PROVE  \A n \in 0 .. N : n \in T
<1> DEFINE U == {n \in 0 .. N : n \notin T}
<1> SUFFICES ASSUME U # {} PROVE FALSE
  OBVIOUS
<1> DEFINE m == Least(U)
<1>1. m \in U /\ \A k \in U : m <= k
  <2>1. U \in SUBSET Nat
    OBVIOUS
  <2> HIDE DEF U
  <2> QED BY <2>1, LeastOfAll
<1> HIDE DEF m
<1>2. m # 0 /\ m - 1 \in 0 .. N - 1
  BY <1>1
<1>3. m - 1 \in T
  BY <1>1, <1>2
<1> QED BY <1>1, <1>2, <1>3

\* A stretch of a sequence, sign by sign.
LEMMA Stretch ==
  ASSUME NEW S, NEW s \in Seq(S), NEW a \in 1 .. Len(s) + 1, NEW b \in a - 1 .. Len(s)
  PROVE  /\ SubSeq(s, a, b) \in Seq(S)
         /\ Len(SubSeq(s, a, b)) = b - a + 1
         /\ \A i \in 1 .. b - a + 1 : SubSeq(s, a, b)[i] = s[a + i - 1]
<1>1. \A i \in a .. b : s[i] \in S
  BY ElementOfSeq
<1>2. Len(s) \in Nat
  OBVIOUS
<1> QED BY <1>1, <1>2, SubSeqProperties

\* A text stands at a place where all its signs do.
LEMMA StandsAt ==
  ASSUME NEW t \in Seq(Char), NEW s \in Seq(Char), NEW i \in Nat \ {0}
  PROVE  StartsAt(t, s, i) <=>
           Len(t) + i - 1 <= Len(s) /\ \A k \in 1 .. Len(t) : s[i + k - 1] = t[k]
<1>1. SUFFICES ASSUME Len(t) + i - 1 <= Len(s)
               PROVE  SubSeq(s, i, i + Len(t) - 1) = t <=> \A k \in 1 .. Len(t) : s[i + k - 1] = t[k]
  BY DEF StartsAt
<1> DEFINE w == SubSeq(s, i, i + Len(t) - 1)
<1>2. w \in Seq(Char) /\ Len(w) = Len(t) /\ \A k \in 1 .. Len(t) : w[k] = s[i + k - 1]
  <2>1. i \in 1 .. Len(s) + 1 /\ i + Len(t) - 1 \in i - 1 .. Len(s) /\ (i + Len(t) - 1) - i + 1 = Len(t)
    BY <1>1
  <2> QED BY <2>1, Stretch
<1> HIDE DEF w
<1>3. w = t <=> \A k \in 1 .. Len(t) : w[k] = t[k]
  BY <1>2, SeqEqual
<1>4. (\A k \in 1 .. Len(t) : w[k] = t[k]) <=> \A k \in 1 .. Len(t) : s[i + k - 1] = t[k]
  BY <1>2
<1> QED BY <1>3, <1>4 DEF w

\* What is left of a sequence from a place on.
LEMMA Rest ==
  ASSUME NEW s \in Seq(Char), NEW k \in 1 .. Len(s) + 1
  PROVE  /\ From(s, k) \in Seq(Char)
         /\ Len(From(s, k)) = Len(s) - k + 1
         /\ \A i \in 1 .. Len(s) - k + 1 : From(s, k)[i] = s[k + i - 1]
<1>1. Len(s) \in k - 1 .. Len(s)
  OBVIOUS
<1> QED BY <1>1, Stretch DEF From

-----------------------------------------------------------------------------
(* Runs of letters. *)

\* The stretch a .. b of w stands in s, d places on, and no letter goes before
\* or after it.
Framed(w, a, b, s, d) ==
  /\ d \in Int /\ 1 <= d + a /\ d + b <= Len(s)
  /\ \A k \in a .. b : s[d + k] = w[k]
  /\ d + a = 1 \/ s[d + a - 1] \notin Letter
  /\ d + b = Len(s) \/ s[d + b + 1] \notin Letter

\* A run of letters that stands so is a token there, if there are no stars.
LEMMA FramedToken ==
  ASSUME NEW s \in Seq(Char), Places({"*"}, s) = {}, NEW w \in Seq(Char), NEW r \in Runs(w),
         r[1] < r[2], NEW d, Framed(w, r[1], r[2], s, d)
  PROVE  SubSeq(w, r[1], r[2]) \in TokensAt(s, Kept(s, FALSE, FALSE))
<1> DEFINE a == r[1]
           b == r[2]
<1>1. a \in 1 .. Len(w) /\ b \in 1 .. Len(w) /\ \A k \in a .. b : w[k] \in Letter
  BY DEF Runs
<1>2. a < b
  OBVIOUS
<1>3. /\ d \in Int /\ 1 <= d + a /\ d + b <= Len(s)
      /\ \A k \in a .. b : s[d + k] = w[k]
      /\ d + a = 1 \/ s[d + a - 1] \notin Letter
      /\ d + b = Len(s) \/ s[d + b + 1] \notin Letter
  BY DEF Framed
<1> HIDE DEF a, b
<1>4. \A i \in 1 .. Len(s) : s[i] # "*"
  BY DEF Places
<1>5. \A i \in d + a .. d + b : s[i] \in Letter
  <2> TAKE i \in d + a .. d + b
  <2>1. i - d \in a .. b /\ d + (i - d) = i
    BY <1>1, <1>3
  <2> QED BY <1>1, <1>3, <2>1
<1> DEFINE lo == d + a
           hi == d + b
           p  == <<lo, hi>>
<1>6. p \in Kept(s, FALSE, FALSE)
  <2>1. lo \in DOMAIN s /\ hi \in DOMAIN s /\ lo < hi
    BY <1>1, <1>2, <1>3
  <2>2. /\ \A i \in lo .. hi : s[i] \in Letter
        /\ lo = 1 \/ (s[lo - 1] \notin Letter /\ s[lo - 1] # "*")
        /\ hi = Len(s) \/ (s[hi + 1] \notin Letter /\ s[hi + 1] # "*")
    BY <1>1, <1>3, <1>4, <1>5, <2>1
  <2> HIDE DEF lo, hi
  <2>3. p \in (DOMAIN s) \X (DOMAIN s) /\ p[1] = lo /\ p[2] = hi
    BY <2>1
  <2> HIDE DEF p
  <2>4. p \in Runs(s)
    BY <2>1, <2>2, <2>3 DEF Runs
  <2> QED BY <2>1, <2>2, <2>3, <2>4 DEF Kept
<1>7. SubSeq(w, a, b) = SubSeq(s, lo, hi)
  <2>1. /\ SubSeq(w, a, b) \in Seq(Char)
        /\ Len(SubSeq(w, a, b)) = b - a + 1
        /\ \A i \in 1 .. b - a + 1 : SubSeq(w, a, b)[i] = w[a + i - 1]
    <3>1. a \in 1 .. Len(w) + 1 /\ b \in a - 1 .. Len(w)
      BY <1>1, <1>2
    <3> QED BY <3>1, Stretch
  <2>2. lo \in 1 .. Len(s) + 1 /\ hi \in lo - 1 .. Len(s) /\ hi - lo + 1 = b - a + 1
    BY <1>1, <1>2, <1>3
  <2>3. \A i \in 1 .. b - a + 1 : w[a + i - 1] = s[lo + i - 1]
    <3> TAKE i \in 1 .. b - a + 1
    <3>1. a + i - 1 \in a .. b /\ d + (a + i - 1) = lo + i - 1
      BY <1>1, <1>3
    <3> QED BY <1>3, <3>1
  <2> HIDE DEF lo, hi
  <2>4. /\ SubSeq(s, lo, hi) \in Seq(Char)
        /\ Len(SubSeq(s, lo, hi)) = b - a + 1
        /\ \A i \in 1 .. b - a + 1 : SubSeq(s, lo, hi)[i] = s[lo + i - 1]
    BY <2>2, Stretch
  <2>5. \A i \in 1 .. Len(SubSeq(w, a, b)) : SubSeq(w, a, b)[i] = SubSeq(s, lo, hi)[i]
    BY <2>1, <2>3, <2>4
  <2> QED BY <2>1, <2>4, <2>5, SeqEqual
<1>8. p[1] = lo /\ p[2] = hi
  OBVIOUS
<1>9. SubSeq(s, p[1], p[2]) \in TokensAt(s, Kept(s, FALSE, FALSE))
  <2> HIDE DEF p
  <2> QED BY <1>6 DEF TokensAt
<1> HIDE DEF p, lo, hi
<1> QED BY <1>7, <1>8, <1>9 DEF a, b

\* What stands so in the rest of a sequence does so in all of it, unless it
\* is what the rest begins with.
LEMMA FramedInAll ==
  ASSUME NEW s \in Seq(Char), NEW k \in 1 .. Len(s) + 1, NEW w, NEW a \in Nat, NEW b \in Nat, a <= b,
         NEW d, Framed(w, a, b, From(s, k), d), k = 1 \/ d + a # 1
  PROVE  Framed(w, a, b, s, d + k - 1)
<1> DEFINE x == From(s, k)
<1>1. Len(x) = Len(s) - k + 1 /\ \A i \in 1 .. Len(s) - k + 1 : x[i] = s[k + i - 1]
  BY Rest
<1>2. /\ d \in Int /\ 1 <= d + a /\ d + b <= Len(x)
      /\ \A i \in a .. b : x[d + i] = w[i]
      /\ d + a = 1 \/ x[d + a - 1] \notin Letter
      /\ d + b = Len(x) \/ x[d + b + 1] \notin Letter
  BY DEF Framed
<1> HIDE DEF x
<1> DEFINE e == d + k - 1
<1>3. e \in Int /\ 1 <= e + a /\ e + b <= Len(s)
  <2>1. Len(s) \in Nat /\ k \in Nat /\ k >= 1
    OBVIOUS
  <2> QED BY <1>1, <1>2, <2>1
<1>4. \A i \in a .. b : s[e + i] = w[i]
  <2> TAKE i \in a .. b
  <2>1. d + i \in 1 .. Len(s) - k + 1 /\ k + (d + i) - 1 = e + i
    BY <1>1, <1>2
  <2> QED BY <1>1, <1>2, <2>1
<1>5. e + a = 1 \/ s[e + a - 1] \notin Letter
  <2>1. CASE d + a # 1
    <3>1. d + a - 1 \in 1 .. Len(s) - k + 1 /\ k + (d + a - 1) - 1 = e + a - 1
      BY <1>1, <1>2, <2>1
    <3> QED BY <1>1, <1>2, <2>1, <3>1
  <2>2. CASE k = 1 /\ d + a = 1
    BY <2>2, <1>2
  <2> QED BY <2>1, <2>2
<1>6. e + b = Len(s) \/ s[e + b + 1] \notin Letter
  <2>1. CASE d + b = Len(x)
    BY <1>1, <1>2, <2>1
  <2>2. CASE d + b # Len(x)
    <3>1. d + b + 1 \in 1 .. Len(s) - k + 1 /\ k + (d + b + 1) - 1 = e + b + 1
      BY <1>1, <1>2, <2>2
    <3> QED BY <1>1, <1>2, <2>2, <3>1
  <2> QED BY <2>1, <2>2
<1> QED BY <1>3, <1>4, <1>5, <1>6 DEF Framed

-----------------------------------------------------------------------------
(* Wildcard texts, place by place.                                         *)

\* Where the signs of a text lead to, for its first signs.
Reaching(t, s, from, final, g, count) ==
  g = [i \in 0 .. count |-> IF i = 0 THEN from ELSE Led(t, s, i, final, g[i - 1])]

LEMMA ReachingExists ==
  ASSUME NEW t, NEW s, NEW from, NEW final, NEW count \in Nat
  PROVE  \E g : Reaching(t, s, from, final, g, count)
<1> DEFINE T == {m \in 0 .. count : \E g : Reaching(t, s, from, final, g, m)}
<1>1. 0 \in T
  <2>1. Reaching(t, s, from, final, [i \in 0 .. 0 |-> from], 0)
    BY DEF Reaching
  <2> QED BY <2>1
<1>2. ASSUME NEW m \in 0 .. count - 1, m \in T PROVE m + 1 \in T
  <2>1. PICK h : Reaching(t, s, from, final, h, m)
    BY <1>2
  <2> DEFINE step(i, f) == IF i = 0 THEN from ELSE Led(t, s, i, final, f[i - 1])
             g == [i \in 0 .. m + 1 |-> IF i = m + 1 THEN step(m + 1, h) ELSE h[i]]
  <2>2. \A i \in 0 .. m : h[i] = step(i, h)
    BY <2>1 DEF Reaching
  <2>3. /\ \A i \in 0 .. m : g[i] = h[i]
        /\ g[m + 1] = step(m + 1, h)
    <3> HIDE DEF step
    <3> QED OBVIOUS
  <2>4. g = [i \in 0 .. m + 1 |-> g[i]]
    OBVIOUS
  <2> HIDE DEF g
  <2>5. \A i \in 0 .. m : step(i, g) = step(i, h)
    BY <2>3
  <2>6. step(m + 1, g) = step(m + 1, h)
    BY <2>3
  <2>7. \A i \in 0 .. m + 1 : g[i] = step(i, g)
    <3> HIDE DEF step
    <3>1. \A i \in 0 .. m + 1 : i \in 0 .. m \/ i = m + 1
      OBVIOUS
    <3> QED BY <2>2, <2>3, <2>5, <2>6, <3>1
  <2>8. Reaching(t, s, from, final, g, m + 1)
    BY <2>4, <2>7, Zenon DEF Reaching
  <2> QED BY <2>8
<1>3. count \in T
  <2> HIDE DEF T
  <2> QED BY <1>1, <1>2, StepByStep
<1> QED BY <1>3

\* A sign leads from a place to another.
Leads(c, s, mayEnd, p, q) ==
  \/ c = "*" /\ p <= q
  \/ c = "^" /\ q = p + 1 /\ s[q] \notin Letter \cup {"."}
  \/ c = "^" /\ mayEnd /\ p = Len(s) /\ q = p
  \/ c \notin Wildcard /\ q = p + 1 /\ s[q] = c

\* The places reached after each sign of a text: those a place before it leads to.
Stages(t, s, from, final, g) ==
  /\ g[0] = from
  /\ \A i \in 0 .. Len(t) : g[i] \subseteq 0 .. Len(s)
  /\ \A i \in 1 .. Len(t) : \A q \in 0 .. Len(s) :
       q \in g[i] <=> \E p \in g[i - 1] : Leads(t[i], s, i \in final, p, q)

LEMMA LedLeads ==
  ASSUME NEW t, NEW s \in Seq(Char), NEW i, NEW final, NEW before \in SUBSET (0 .. Len(s))
  PROVE  /\ Led(t, s, i, final, before) \subseteq 0 .. Len(s)
         /\ \A q \in 0 .. Len(s) :
              q \in Led(t, s, i, final, before) <=> \E p \in before : Leads(t[i], s, i \in final, p, q)
<1> DEFINE n == Len(s)
<1>1. n \in Nat
  OBVIOUS
<1>2. CASE t[i] = "*"
  BY <1>1, <1>2 DEF Led, Leads, Wildcard
<1>3. CASE t[i] = "^"
  BY <1>1, <1>3 DEF Led, Leads, Wildcard
<1>4. CASE t[i] \notin Wildcard
  BY <1>1, <1>4 DEF Led, Leads, Wildcard
<1> QED BY <1>2, <1>3, <1>4 DEF Wildcard

\* The places where the text ends are those of the last stage.
LEMMA EndsStages ==
  ASSUME NEW t \in Seq(Char), NEW s \in Seq(Char), NEW from \in SUBSET (0 .. Len(s)), NEW final
  PROVE  \E g : Stages(t, s, from, final, g) /\ Ends(t, s, from, final) = g[Len(t)]
<1> DEFINE n == Len(t)
           g == CHOOSE h : Reaching(t, s, from, final, h, n)
<1>1. n \in Nat
  OBVIOUS
<1>2. Reaching(t, s, from, final, g, n)
  BY <1>1, ReachingExists
<1>3. Ends(t, s, from, final) = g[n]
  BY Zenon DEF Ends, Reaching
<1> HIDE DEF n, g
<1>4. /\ g[0] = from
      /\ \A i \in 1 .. n : g[i] = Led(t, s, i, final, g[i - 1])
  BY <1>1, <1>2 DEF Reaching
<1>5. \A i \in 0 .. n : g[i] \subseteq 0 .. Len(s)
  <2> DEFINE T == {i \in 0 .. n : g[i] \subseteq 0 .. Len(s)}
  <2>1. 0 \in T
    <3>1. 0 \in 0 .. n
      BY <1>1
    <3>2. g[0] \subseteq 0 .. Len(s)
      BY <1>4, Zenon
    <3> QED BY <3>1, <3>2
  <2>2. ASSUME NEW i \in 0 .. n - 1, i \in T PROVE i + 1 \in T
    <3>1. i + 1 \in 1 .. n /\ (i + 1) - 1 = i /\ i + 1 \in 0 .. n
      BY <1>1
    <3>2. g[i + 1] = Led(t, s, i + 1, final, g[i])
      BY <1>4, <3>1
    <3> QED BY <2>2, <3>1, <3>2, LedLeads
  <2> HIDE DEF T
  <2>3. \A i \in 0 .. n : i \in T
    BY <1>1, <2>1, <2>2, StepByStep
  <2> QED BY <2>3 DEF T
<1>6. ASSUME NEW i \in 1 .. n
      PROVE  \A q \in 0 .. Len(s) :
               q \in g[i] <=> \E p \in g[i - 1] : Leads(t[i], s, i \in final, p, q)
  <2>1. i - 1 \in 0 .. n
    BY <1>1
  <2> QED BY <1>4, <1>5, <2>1, LedLeads
<1>7. Stages(t, s, from, final, g)
  BY <1>4, <1>5, <1>6 DEF Stages, n
<1> QED BY <1>3, <1>7 DEF n

\* A text is reached as a whole or not at all.
LEMMA NoneMissed ==
  ASSUME NEW t \in Seq(Char), NEW s \in Seq(Char), NEW from, NEW final, NEW g,
         Stages(t, s, from, final, g), g[Len(t)] # {}
  PROVE  \A i \in 0 .. Len(t) : g[i] # {}
<1> DEFINE n == Len(t)
           T == {j \in 0 .. n : g[n - j] # {}}
<1>1. n \in Nat
  OBVIOUS
<1>2. 0 \in T
  BY <1>1
<1>3. ASSUME NEW j \in 0 .. n - 1, j \in T PROVE j + 1 \in T
  <2>1. n - j \in 1 .. n /\ n - j \in 0 .. n /\ (n - j) - 1 = n - (j + 1) /\ j + 1 \in 0 .. n
    BY <1>1
  <2>2. PICK q \in g[n - j] : TRUE
    BY <1>3
  <2>3. q \in 0 .. Len(s)
    BY <2>1, <2>2 DEF Stages
  <2>4. g[(n - j) - 1] # {}
    BY <2>1, <2>2, <2>3 DEF Stages
  <2> QED BY <2>1, <2>4
<1> HIDE DEF T
<1>4. \A j \in 0 .. n : j \in T
  BY <1>1, <1>2, <1>3, StepByStep
<1>5. ASSUME NEW i \in 0 .. n PROVE g[i] # {}
  <2>1. n - i \in 0 .. n /\ n - (n - i) = i
    BY <1>1
  <2>2. n - i \in T
    BY <1>4, <2>1
  <2> QED BY <2>1, <2>2 DEF T
<1> QED BY <1>5

\* A place reached has been come to from another.
LEMMA ComeFrom ==
  ASSUME NEW t, NEW s, NEW from, NEW final, NEW g, Stages(t, s, from, final, g),
         NEW i \in 1 .. Len(t), NEW q \in g[i], Len(t) \in Nat
  PROVE  /\ q \in 0 .. Len(s)
         /\ \E p \in g[i - 1] : p \in 0 .. Len(s) /\ Leads(t[i], s, i \in final, p, q)
<1>1. i \in 0 .. Len(t) /\ i - 1 \in 0 .. Len(t)
  OBVIOUS
<1>2. q \in 0 .. Len(s) /\ g[i - 1] \subseteq 0 .. Len(s)
  BY <1>1 DEF Stages
<1>3. \E p \in g[i - 1] : Leads(t[i], s, i \in final, p, q)
  BY <1>2 DEF Stages
<1> QED BY <1>2, <1>3

\* A run of letters with no star next to it.
Apart(t, a, b) ==
  /\ a \in 1 .. Len(t) /\ b \in a .. Len(t) /\ <<a, b>> \in Runs(t)
  /\ a > 1 => t[a - 1] # "*"
  /\ b < Len(t) => t[b + 1] # "*"

\* It stands in s, d places on, where a way through the text from there to e
\* passes.
Passed(t, a, b, s, from, e, d) ==
  /\ d \in Int /\ 1 <= d + a /\ d + b <= Len(s)
  /\ \A k \in a .. b : s[d + k] = t[k]
  /\ IF a = 1 THEN d \in from ELSE d + a # 1 /\ s[d + a - 1] \notin Letter
  /\ IF b = Len(t) THEN d + b = e ELSE d + b = Len(s) \/ s[d + b + 1] \notin Letter

\* A run of letters of a wildcard text that ends up somewhere stands where it
\* leads through, framed unless a star is next to it or it is at an end of the
\* text; there it starts where the text does, or ends where it does.
LEMMA RunReached ==
  ASSUME Signs,
         NEW t \in Seq(Sign), NEW s \in Seq(Char), NEW from, NEW g, Stages(t, s, from, {Len(t)}, g),
         NEW e \in g[Len(t)], NEW a, NEW b, Apart(t, a, b)
  PROVE  \E d : Passed(t, a, b, s, from, e, d)
<1> DEFINE n == Len(t)
           final == {Len(t)}
<1>1. n \in Nat /\ Len(s) \in Nat
  OBVIOUS
<1>2. a \in 1 .. n /\ b \in a .. n /\ <<a, b>> \in Runs(t) /\ (a > 1 => t[a - 1] # "*") /\ (b < n => t[b + 1] # "*")
  BY DEF Apart
<1>3. t \in Seq(Char)
  BY SeqMonotonic DEF Char
<1>4. a \in Nat /\ b \in Nat /\ 1 <= a /\ a <= b /\ b <= n
  BY <1>1, <1>2
<1>5. Letter \cap {".", "/", "*", "^"} = {}
  BY DEF Signs
<1>6. /\ \A k \in a .. b : t[k] \in Letter
      /\ a = 1 \/ t[a - 1] \notin Letter
      /\ b = n \/ t[b + 1] \notin Letter
  BY <1>2 DEF Runs
<1>7. \E q \in g[b] : IF b = n THEN q = e ELSE q = Len(s) \/ s[q + 1] \notin Letter
  <2>1. CASE b = n
    BY <2>1
  <2>2. CASE b # n
    <3>1. b + 1 \in 1 .. n /\ b + 1 \in 0 .. n /\ (b + 1) - 1 = b /\ b < n
      BY <1>1, <1>2, <1>4, <2>2
    <3>2. PICK r \in g[b + 1] : TRUE
      BY <1>3, <3>1, NoneMissed
    <3>3. PICK q \in g[b] : q \in 0 .. Len(s) /\ Leads(t[b + 1], s, b + 1 \in final, q, r)
      BY <1>1, <1>2, <1>4, <3>1, <3>2, ComeFrom
    <3>4. t[b + 1] \notin Letter /\ t[b + 1] # "*"
      BY <1>2, <1>6, <2>2, <3>1
    <3>5. q = Len(s) \/ s[q + 1] \notin Letter
      BY <1>5, <3>3, <3>4 DEF Leads
    <3> QED BY <2>2, <3>5
  <2> QED BY <2>1, <2>2
<1>8. PICK q \in g[b] : IF b = n THEN q = e ELSE q = Len(s) \/ s[q + 1] \notin Letter
  BY <1>7
<1>9. q \in 0 .. Len(s)
  BY <1>1, <1>2, ComeFrom DEF n, final
<1> HIDE DEF n, final
<1> DEFINE m == b - a + 1
           back(j) == q - j \in g[b - j] /\ q - j \in 0 .. Len(s)
           same(j) == j > 0 => s[q - j + 1] = t[b - j + 1]
           T == {j \in 0 .. m : back(j) /\ same(j)}
<1>10. 0 \in T
  BY <1>1, <1>2, <1>4, <1>8, <1>9
<1>11. ASSUME NEW j \in 0 .. m - 1, j \in T PROVE j + 1 \in T
  <2>1. /\ b - j \in 1 .. n /\ b - j \in a .. b /\ (b - j) - 1 = b - (j + 1)
        /\ b - (j + 1) + 1 = b - j /\ j + 1 \in 0 .. m
    <3>1. j \in Nat /\ j <= b - a
      BY <1>4
    <3> HIDE DEF T
    <3> QED BY <1>1, <1>4, <3>1
  <2>2. back(j)
    BY <1>11
  <2>3. PICK p \in g[(b - j) - 1] : p \in 0 .. Len(s) /\ Leads(t[b - j], s, b - j \in final, p, q - j)
    BY <1>1, <1>2, <1>4, <2>1, <2>2, ComeFrom DEF n, final
  <2>4. t[b - j] \in Letter
    BY <1>6, <2>1
  <2>5. q - j = p + 1 /\ s[q - j] = t[b - j]
    BY <1>5, <2>3, <2>4 DEF Leads, Wildcard
  <2>6. p = q - (j + 1) /\ q - (j + 1) + 1 = q - j
    <3>1. j \in Int /\ q \in Int /\ p \in Int
      BY <1>4, <1>9, <2>3
    <3>2. q - j = p + 1
      BY <2>5
    <3> HIDE DEF m, T
    <3> QED BY <3>1, <3>2
  <2>7. back(j + 1)
    BY <2>1, <2>3, <2>6
  <2>8. same(j + 1)
    BY <2>1, <2>5, <2>6
  <2> QED BY <2>1, <2>7, <2>8
<1>12. \A j \in 0 .. m : j \in T
  <2> HIDE DEF T
  <2>1. m \in Nat
    BY <1>1, <1>2, <1>4
  <2> QED BY <1>10, <1>11, <2>1, StepByStep
<1> DEFINE d == q - b
<1>13. m \in 1 .. b /\ d \in Int
  BY <1>1, <1>2, <1>4, <1>9
<1>14. \A k \in a .. b : s[d + k] = t[k]
  <2> TAKE k \in a .. b
  <2> DEFINE j == b - k + 1
  <2>1. j \in 0 .. m /\ j > 0 /\ q - j + 1 = d + k /\ b - j + 1 = k
    BY <1>1, <1>2, <1>4, <1>9
  <2> HIDE DEF j, d
  <2>2. same(j)
    BY <1>12, <2>1
  <2> QED BY <2>1, <2>2
<1>15. back(m)
  <2>1. m \in T
    BY <1>12, <1>13
  <2> QED BY <2>1
<1>16. q - m = d + a - 1 /\ b - m = a - 1
  BY <1>1, <1>2, <1>4, <1>9
<1>17. d + a - 1 \in g[a - 1] /\ d + a - 1 \in 0 .. Len(s)
  BY <1>15, <1>16
<1>18. IF a = 1 THEN d \in from ELSE d + a # 1 /\ s[d + a - 1] \notin Letter
  <2>1. CASE a = 1
    <3>1. d + a - 1 = d /\ a - 1 = 0
      BY <1>4, <1>9, <2>1
    <3> QED BY <1>17, <2>1, <3>1 DEF Stages
  <2>2. CASE a # 1
    <3>1. a - 1 \in 1 .. n /\ a > 1 /\ a - 1 \notin final
      BY <1>1, <1>2, <1>4, <2>2 DEF final, n
    <3> DEFINE r == d + a - 1
    <3>2. PICK p \in g[(a - 1) - 1] : p \in 0 .. Len(s) /\ Leads(t[a - 1], s, a - 1 \in final, p, r)
      <4> HIDE DEF d
      <4> QED BY <1>1, <1>2, <1>4, <1>17, <3>1, ComeFrom DEF n, final
    <3>3. t[a - 1] \notin Letter /\ t[a - 1] # "*"
      BY <1>2, <1>6, <2>2, <3>1
    <3>4. r = p + 1 /\ s[r] \notin Letter
      <4> HIDE DEF r
      <4> QED BY <1>5, <3>1, <3>2, <3>3 DEF Leads
    <3>5. d + a # 1
      BY <1>4, <1>9, <3>2, <3>4
    <3> QED BY <2>2, <3>4, <3>5
  <2> QED BY <2>1, <2>2
<1>19. d + b = q /\ 1 <= d + a
  BY <1>4, <1>9, <1>17
<1> HIDE DEF d
<1>20. IF b = n THEN d + b = e ELSE d + b = Len(s) \/ s[d + b + 1] \notin Letter
  BY <1>8, <1>19
<1>21. d \in Int /\ d + b <= Len(s)
  BY <1>1, <1>2, <1>4, <1>9, <1>13, <1>19
<1> QED BY <1>14, <1>18, <1>19, <1>20, <1>21 DEF n, Passed

-----------------------------------------------------------------------------
(* Parsed filters and URLs.                                                *)

\* What parse makes of any text considered.  What is left of a text after a
\* hostname begins with no letter as long as the filter has to go on there.
Shaped(f) ==
  /\ f.text \in Seq(Sign) /\ f.host \in Seq(Letter \cup {"."})
  /\ f.leftAnchor \in BOOLEAN /\ f.rightAnchor \in BOOLEAN
  /\ f.text # << >> => (f.regex <=> HasWildcard(f.text))
  /\ f.host # << >> => f.hostAnchor
  /\ f.hostAnchor /\ f.leftAnchor /\ f.text # << >> => f.text[1] \notin Letter

\* A hostname ends before the first slash or wildcard, if there is one.
LEMMA HostEnds ==
  ASSUME NEW t \in Seq(Sign)
  PROVE  /\ HostEnd(t) \in 1 .. Len(t) + 1
         /\ \A i \in 1 .. HostEnd(t) - 1 : t[i] \in Letter \cup {"."}
         /\ HostEnd(t) <= Len(t) => t[HostEnd(t)] \in {"/", "*", "^"}
<1> DEFINE n == Len(t)
           stops == Places(IF HasWildcard(t) THEN {"/", "*", "^"} ELSE {"/"}, t)
<1>1. n \in Nat /\ \A i \in 1 .. n : t[i] \in Sign
  BY ElementOfSeq
<1>2. \A i \in 1 .. n : i \in stops <=> t[i] \in {"/", "*", "^"}
  BY DEF Places, HasWildcard, Wildcard
<1>3. stops \subseteq 1 .. n
  BY DEF Places
<1>4. HostEnd(t) = IF stops = {} THEN n + 1 ELSE Least(stops)
  BY DEF HostEnd
<1> HIDE DEF stops, n
<1>5. CASE stops = {}
  <2>1. HostEnd(t) = n + 1
    BY <1>4, <1>5
  <2>2. \A i \in 1 .. n : t[i] \in Letter \cup {"."}
    BY <1>1, <1>2, <1>5 DEF Sign, Wildcard
  <2> QED BY <1>1, <2>1, <2>2 DEF n
<1>6. CASE stops # {}
  <2> DEFINE c == HostEnd(t)
  <2>1. c \in stops /\ \A k \in stops : c <= k
    <3>1. stops \in SUBSET Nat
      BY <1>1, <1>3
    <3>2. c = Least(stops)
      BY <1>4, <1>6
    <3> HIDE DEF c
    <3> QED BY <1>6, <3>1, <3>2, LeastOfAll
  <2> HIDE DEF c
  <2>2. c \in 1 .. n /\ t[c] \in {"/", "*", "^"}
    BY <1>2, <1>3, <2>1
  <2>3. ASSUME NEW i \in 1 .. c - 1 PROVE t[i] \in Letter \cup {"."}
    <3>1. i \in 1 .. n /\ i \notin stops
      BY <1>1, <2>1, <2>2
    <3> QED BY <1>1, <1>2, <3>1 DEF Sign, Wildcard
  <2> QED BY <1>1, <2>2, <2>3 DEF c, n
<1> QED BY <1>5, <1>6

LEMMA ParseShaped ==
  ASSUME Signs, NEW t \in Seq(Sign), Considered(t), NEW left, NEW right \in BOOLEAN
  PROVE  Shaped(Parse(t, left, right))
<1> DEFINE n      == Len(t)
           hosted == left = "||"
           cut    == IF hosted THEN HostEnd(t) ELSE 1
           lone   == hosted /\ cut = Len(t) /\ t[cut] = "^"
           start  == IF lone THEN cut + 1 ELSE cut
           last   == IF start <= Len(t) /\ t[Len(t)] = "*" THEN Len(t) - 1 ELSE Len(t)
           star   == start <= last /\ t[start] = "*"
           lo     == IF star THEN start + 1 ELSE start
           body   == SubSeq(t, lo, last)
           f      == Parse(t, left, right)
<1>1. /\ f.text = body
      /\ f.host = IF hosted THEN SubSeq(t, 1, cut - 1) ELSE << >>
      /\ f.hostAnchor = hosted
      /\ f.leftAnchor = LeftAnchored(left, start <= Len(t), star)
      /\ f.rightAnchor = (right \/ lone)
      /\ f.regex = IsRegex(t, body, lone)
  BY DEF Parse
<1>2. n \in Nat /\ n >= 1 /\ \A i \in 1 .. n : t[i] \in Sign
  <2>1. t # << >>
    BY DEF Considered
  <2> QED BY <2>1, ElementOfSeq, EmptySeq
<1>3. /\ cut \in 1 .. n + 1
      /\ hosted => \A i \in 1 .. cut - 1 : t[i] \in Letter \cup {"."}
      /\ hosted /\ cut <= n => t[cut] \in {"/", "*", "^"}
  <2>1. CASE hosted
    BY <2>1, HostEnds
  <2>2. CASE ~hosted
    BY <1>2, <2>2
  <2> QED BY <2>1, <2>2
<1> HIDE DEF hosted, cut, f
<1>4. /\ start \in 1 .. n + 1 /\ last \in start - 1 .. n
      /\ lo \in 1 .. n + 1 /\ last \in lo - 1 .. n
      /\ hosted /\ start <= n => t[start] \in {"/", "*", "^"}
  BY <1>2, <1>3
<1>5. /\ body \in Seq(Sign) /\ Len(body) = last - lo + 1
      /\ \A i \in 1 .. last - lo + 1 : body[i] = t[lo + i - 1]
  <2> HIDE DEF lo, last
  <2> QED BY <1>4, Stretch
<1>6. f.host \in Seq(Letter \cup {"."})
  <2>1. CASE hosted
    <3>1. \A i \in 1 .. cut - 1 : t[i] \in Letter \cup {"."}
      BY <1>3, <2>1
    <3>2. cut - 1 \in Int
      BY <1>2, <1>3
    <3>3. SubSeq(t, 1, cut - 1) \in Seq(Letter \cup {"."})
      BY <3>1, <3>2, SubSeqProperties
    <3> QED BY <1>1, <2>1, <3>3
  <2>2. CASE ~hosted
    BY <1>1, <2>2
  <2> QED BY <2>1, <2>2
<1>7. f.text # << >> => (f.regex <=> HasWildcard(f.text))
  <2> HIDE DEF body, lone
  <2>1. body # << >> => IsRegex(t, body, lone) = HasWildcard(body)
    BY DEF IsRegex
  <2>2. HasWildcard(body) \in BOOLEAN
    BY DEF HasWildcard
  <2> QED BY <1>1, <2>1, <2>2
<1>8. f.host # << >> => f.hostAnchor
  BY <1>1
<1>9. ASSUME f.hostAnchor, f.leftAnchor, f.text # << >> PROVE f.text[1] \notin Letter
  <2>1. hosted /\ ~star
    BY <1>1, <1>9 DEF LeftAnchored
  <2>2. lo = start
    BY <2>1
  <2>3. Len(body) >= 1
    <3> HIDE DEF body
    <3>1. Len(body) # 0
      BY <1>1, <1>5, <1>9, EmptySeq
    <3>2. Len(body) \in Nat
      BY <1>5
    <3> QED BY <3>1, <3>2
  <2>4. body[1] = t[start] /\ start <= n
    <3>1. 1 \in 1 .. last - lo + 1 /\ lo + 1 - 1 = start /\ start <= n
      <4> HIDE DEF lo, last, body, start
      <4> QED BY <1>2, <1>4, <1>5, <2>2, <2>3
    <3> QED BY <1>5, <3>1
  <2> QED BY <1>1, <1>4, <2>1, <2>4 DEF Signs
<1>10. f.leftAnchor \in BOOLEAN /\ f.rightAnchor \in BOOLEAN
  BY <1>1 DEF LeftAnchored
<1> QED BY <1>1, <1>5, <1>6, <1>7, <1>8, <1>9, <1>10 DEF Shaped, f

\* A URL, sign by sign.
LEMMA UrlSigns ==
  ASSUME Url \subseteq [host : Seq(STRING), path : Seq(STRING)], NEW u \in Url
  PROVE  /\ UrlText(u) \in Seq(Char) /\ u.host \in Seq(Char)
         /\ Len(u.host) \in Nat /\ Len(u.path) \in Nat
         /\ Len(UrlText(u)) = 3 + Len(u.host) + Len(u.path)
         /\ UrlText(u)[3] = "/"
         /\ \A i \in 1 .. Len(u.host) : UrlText(u)[3 + i] = u.host[i]
         /\ u.path # << >> => Len(u.path) >= 1 /\ UrlText(u)[3 + Len(u.host) + 1] = u.path[1]
<1> DEFINE h == u.host
           p == u.path
           m == Len(h)
           k == Len(p)
<1>1. h \in Seq(STRING) /\ p \in Seq(STRING)
  OBVIOUS
<1>2. h \in Seq(Char) /\ p \in Seq(Char)
  BY <1>1, SeqMonotonic DEF Char
<1>3. Scheme \in Seq(Char) /\ Len(Scheme) = 3 /\ Scheme[3] = "/"
  BY DEF Scheme, Char, Sign
<1>4. UrlText(u) = (Scheme \o h) \o p
  BY DEF UrlText
<1> HIDE DEF h, p
<1>5. /\ Scheme \o h \in Seq(Char) /\ Len(Scheme \o h) = 3 + m
      /\ \A i \in 1 .. 3 + m : (Scheme \o h)[i] = IF i <= 3 THEN Scheme[i] ELSE h[i - 3]
  <2> DEFINE z == Scheme
  <2> HIDE DEF z
  <2>1. /\ z \o h \in Seq(Char) /\ Len(z \o h) = Len(z) + m
        /\ \A i \in 1 .. Len(z) + m : (z \o h)[i] = IF i <= Len(z) THEN z[i] ELSE h[i - Len(z)]
    <3>1. z \in Seq(Char)
      BY <1>3 DEF z
    <3> QED BY <1>2, <3>1, ConcatProperties
  <2>2. Len(z) = 3
    BY <1>3 DEF z
  <2>3. \A i \in 1 .. 3 + m : (z \o h)[i] = IF i <= 3 THEN z[i] ELSE h[i - 3]
    BY <2>1, <2>2
  <2> QED BY <2>1, <2>2, <2>3 DEF z
<1>6. /\ UrlText(u) \in Seq(Char) /\ Len(UrlText(u)) = 3 + m + k
      /\ \A i \in 1 .. 3 + m + k : UrlText(u)[i] = IF i <= 3 + m THEN (Scheme \o h)[i] ELSE p[i - (3 + m)]
  <2> DEFINE z == Scheme \o h
  <2> HIDE DEF z
  <2>1. /\ z \o p \in Seq(Char) /\ Len(z \o p) = Len(z) + k
        /\ \A i \in 1 .. Len(z) + k : (z \o p)[i] = IF i <= Len(z) THEN z[i] ELSE p[i - Len(z)]
    BY <1>2, <1>5, ConcatProperties DEF z
  <2>2. Len(z) = 3 + m
    BY <1>5 DEF z
  <2>3. \A i \in 1 .. 3 + m + k : (z \o p)[i] = IF i <= 3 + m THEN z[i] ELSE p[i - (3 + m)]
    BY <2>1, <2>2
  <2> QED BY <1>4, <2>1, <2>2, <2>3 DEF z
<1>7. m \in Nat /\ k \in Nat
  BY <1>1
<1>8. UrlText(u)[3] = "/"
  BY <1>3, <1>5, <1>6, <1>7
<1>9. ASSUME NEW i \in 1 .. m PROVE UrlText(u)[3 + i] = h[i]
  <2>1. 3 + i \in 1 .. 3 + m /\ 3 + i \in 1 .. 3 + m + k /\ ~(3 + i <= 3) /\ 3 + i <= 3 + m /\ 3 + i - 3 = i
    BY <1>7
  <2> QED BY <1>5, <1>6, <2>1
<1>10. ASSUME p # << >> PROVE k >= 1 /\ UrlText(u)[3 + m + 1] = p[1]
  <2>1. k >= 1
    BY <1>1, <1>7, <1>10, EmptySeq
  <2>2. 3 + m + 1 \in 1 .. 3 + m + k /\ ~(3 + m + 1 <= 3 + m) /\ 3 + m + 1 - (3 + m) = 1
    BY <1>7, <2>1
  <2> QED BY <1>6, <2>1, <2>2
<1> QED BY <1>2, <1>6, <1>7, <1>8, <1>9, <1>10 DEF h, p

-----------------------------------------------------------------------------
(* The tokens of a filter and those of the URLs it is found in.            *)

\* Of a hostname that a star continues what counts is cut off at a dot.
LEMMA SureLabels ==
  ASSUME NEW f, f.host \in Seq(Letter \cup {"."}), Signs
  PROVE  \E m \in 0 .. Len(f.host) :
           /\ HostTokens(f) = TokensAt(SubSeq(f.host, 1, m), Kept(SubSeq(f.host, 1, m), FALSE, FALSE))
           /\ \/ m = 0
              \/ m = Len(f.host) /\ ~f.hostRegex
              \/ m < Len(f.host) /\ f.host[m + 1] = "."
<1> DEFINE h    == f.host
           n    == Len(h)
           dots == Places({"."}, h)
           last == CHOOSE i \in dots : \A j \in dots : j <= i
           sure == IF ~f.hostRegex THEN h
                   ELSE IF dots = {} THEN << >>
                   ELSE SubSeq(h, 1, last - 1)
           tokens(s) == TokensAt(s, Kept(s, FALSE, FALSE))
<1>1. HostTokens(f) = tokens(sure)
  BY DEF HostTokens
<1>2. n \in Nat /\ SubSeq(h, 1, n) = h
  BY SubSeqFull
<1>3. dots \subseteq 1 .. n /\ \A i \in dots : h[i] = "."
  BY DEF Places
<1> DEFINE at(m) == m = 0 \/ (m = n /\ ~f.hostRegex) \/ (m < n /\ h[m + 1] = ".")
<1> SUFFICES \E m \in 0 .. n : sure = SubSeq(h, 1, m) /\ at(m)
  <2> HIDE DEF sure, n
  <2> QED BY <1>1 DEF n
<1> HIDE DEF dots, tokens
<1>4. CASE ~f.hostRegex
  <2>1. sure = SubSeq(h, 1, n) /\ at(n)
    BY <1>2, <1>4
  <2> HIDE DEF sure, at
  <2> QED BY <1>2, <2>1
<1>5. CASE f.hostRegex /\ dots = {}
  <2>1. SubSeq(h, 1, 0) = << >>
    BY SubSeqEmpty
  <2>2. sure = SubSeq(h, 1, 0)
    BY <1>5, <2>1
  <2>3. 0 \in 0 .. n /\ at(0)
    BY <1>2
  <2> HIDE DEF sure, at
  <2> QED BY <2>2, <2>3
<1>6. CASE f.hostRegex /\ dots # {}
  <2> DEFINE U == {n - i : i \in dots}
  <2>1. U \in SUBSET Nat
    <3>1. \A i \in dots : n - i \in Nat
      BY <1>2, <1>3
    <3> HIDE DEF n
    <3> QED BY <3>1
  <2>2. U # {}
    BY <1>6
  <2>3. Least(U) \in U /\ \A k \in U : Least(U) <= k
    <3> HIDE DEF U
    <3> QED BY <2>1, <2>2, LeastOfAll
  <2>4. PICK x \in dots : Least(U) = n - x
    BY <2>3
  <2>5. \A j \in dots : j <= x
    <3> TAKE j \in dots
    <3>1. n - x <= n - j
      BY <2>3, <2>4
    <3> QED BY <1>2, <1>3, <3>1
  <2>6. last \in dots
    BY <2>5
  <2> HIDE DEF last
  <2>7. last - 1 \in 0 .. n /\ at(last - 1)
    BY <1>2, <1>3, <2>6
  <2>8. sure = SubSeq(h, 1, last - 1)
    BY <1>6
  <2> HIDE DEF sure, at
  <2> QED BY <2>7, <2>8
<1> QED BY <1>4, <1>5, <1>6

\* The tokens of a hostname that stands in the host with full labels.
LEMMA HostTokensSound ==
  ASSUME TextsShaped, NEW f, Shaped(f), NEW u \in Url, FullLabels(f, u), Starless(u)
  PROVE  HostTokens(f) \subseteq UrlTokens(u)
<1> DEFINE h == f.host
           s == UrlText(u)
<1>1. PICK m \in 0 .. Len(h) :
        /\ HostTokens(f) = TokensAt(SubSeq(h, 1, m), Kept(SubSeq(h, 1, m), FALSE, FALSE))
        /\ \/ m = 0
           \/ m = Len(h) /\ ~f.hostRegex
           \/ m < Len(h) /\ h[m + 1] = "."
  BY SureLabels DEF Shaped, TextsShaped, Signs
<1>2. PICK i \in Occurrences(h, u.host) :
        h # << >> =>
          /\ i = 1 \/ h[1] = "." \/ u.host[i - 1] = "."
          /\ f.hostRegex \/ i + Len(h) > Len(u.host) \/ u.host[i + Len(h)] = "." \/ h[Len(h)] = "."
  BY DEF FullLabels
<1>3. /\ s \in Seq(Char) /\ u.host \in Seq(Char)
      /\ Len(u.host) \in Nat /\ Len(u.path) \in Nat
      /\ Len(s) = 3 + Len(u.host) + Len(u.path)
      /\ s[3] = "/"
      /\ \A k \in 1 .. Len(u.host) : s[3 + k] = u.host[k]
      /\ u.path # << >> => Len(u.path) >= 1 /\ s[3 + Len(u.host) + 1] = u.path[1]
  BY UrlSigns DEF TextsShaped
<1>4. "." \notin Letter /\ "/" \notin Letter
  BY DEF TextsShaped
<1>5. u.path = << >> \/ u.path[1] \notin Letter
  BY DEF TextsShaped
<1>6. h \in Seq(Char) /\ Len(h) \in Nat
  <2>1. h \in Seq(Letter \cup {"."})
    BY DEF Shaped
  <2>2. Letter \cup {"."} \subseteq Char
    BY DEF Char, Sign
  <2> HIDE DEF h
  <2> QED BY <2>1, <2>2, SeqMonotonic
<1>7. i \in Nat /\ i >= 1 /\ Len(h) + i - 1 <= Len(u.host) /\ \A k \in 1 .. Len(h) : u.host[i + k - 1] = h[k]
  <2>1. i \in Nat \ {0} /\ StartsAt(h, u.host, i)
    BY <1>3 DEF Occurrences
  <2> HIDE DEF h
  <2> QED BY <1>3, <1>6, <2>1, StandsAt
<1>8. Places({"*"}, s) = {}
  BY DEF Starless
<1>9. u.path = << >> => Len(u.path) = 0
  BY EmptySeq
<1> HIDE DEF h, s
<1> DEFINE w == SubSeq(h, 1, m)
           d == i + 2
<1>10. w \in Seq(Char) /\ Len(w) = m /\ \A k \in 1 .. m : w[k] = h[k]
  <2>1. 1 \in 1 .. Len(h) + 1 /\ m \in 1 - 1 .. Len(h) /\ m - 1 + 1 = m
    BY <1>6
  <2> QED BY <1>6, <2>1, Stretch
<1> HIDE DEF w
<1>11. \A k \in 1 .. Len(h) : s[d + k] = h[k] /\ d + k <= Len(s)
  <2> TAKE k \in 1 .. Len(h)
  <2>1. i + k - 1 \in 1 .. Len(u.host) /\ 3 + (i + k - 1) = d + k
    <3> DEFINE L == Len(u.host)
    <3>1. L \in Nat /\ i \in Nat /\ 1 <= i /\ Len(h) \in Nat /\ Len(h) + i - 1 <= L
      BY <1>3, <1>6, <1>7
    <3> HIDE DEF L
    <3>2. i + k - 1 \in 1 .. L /\ 3 + (i + k - 1) = d + k
      BY <3>1
    <3> QED BY <3>2 DEF L
  <2>2. s[3 + (i + k - 1)] = u.host[i + k - 1] /\ u.host[i + k - 1] = h[k]
    BY <1>3, <1>7, <2>1
  <2>3. 3 + (i + k - 1) <= Len(s)
    <3> DEFINE L == Len(u.host)
               M == Len(u.path)
    <3>1. L \in Nat /\ M \in Nat /\ Len(s) = 3 + L + M
      BY <1>3
    <3> HIDE DEF L, M
    <3>2. \A x \in 1 .. L : 3 + x <= Len(s)
      BY <3>1
    <3> QED BY <2>1, <3>2 DEF L
  <2> HIDE DEF d
  <2> QED BY <2>1, <2>2, <2>3
<1>12. ASSUME NEW r \in Kept(w, FALSE, FALSE)
       PROVE  SubSeq(w, r[1], r[2]) \in UrlTokens(u)
  <2> DEFINE a == r[1]
             b == r[2]
  <2>1. r \in Runs(w) /\ a < b
    BY DEF Kept
  <2>2. /\ a \in 1 .. m /\ b \in 1 .. m /\ \A k \in a .. b : w[k] \in Letter
        /\ a = 1 \/ w[a - 1] \notin Letter
        /\ b = m \/ w[b + 1] \notin Letter
    BY <1>10, <2>1 DEF Runs
  <2> HIDE DEF a, b
  <2>3. m <= Len(h) /\ m >= 1 /\ h # << >>
    <3>1. m <= Len(h) /\ m >= 1
      BY <1>6, <2>2
    <3> QED BY <1>6, <3>1, EmptySeq
  <2>4. \A k \in a .. b : s[d + k] = w[k]
    BY <1>10, <1>11, <2>2, <2>3
  <2>5. d + a = 1 \/ s[d + a - 1] \notin Letter
    <3>1. CASE a # 1
      <4>1. a - 1 \in 1 .. m /\ a - 1 \in 1 .. Len(h) /\ d + (a - 1) = d + a - 1
        BY <1>6, <1>7, <2>2, <2>3, <3>1
      <4> QED BY <1>10, <1>11, <2>2, <3>1, <4>1
    <3>2. CASE a = 1 /\ i = 1
      <4>1. d + a - 1 = 3
        BY <3>2
      <4> QED BY <1>3, <1>4, <4>1
    <3>3. CASE a = 1 /\ i # 1
      <4>1. h[1] \in Letter
        BY <1>10, <2>1, <2>2, <2>3, <3>3
      <4>2. u.host[i - 1] = "."
        BY <1>2, <1>4, <2>3, <3>3, <4>1 DEF h
      <4>3. i - 1 \in 1 .. Len(u.host) /\ 3 + (i - 1) = d + a - 1
        BY <1>3, <1>6, <1>7, <2>3, <3>3
      <4> QED BY <1>3, <1>4, <4>2, <4>3
    <3> QED BY <3>1, <3>2, <3>3
  <2>6. d + b = Len(s) \/ s[d + b + 1] \notin Letter
    <3>1. CASE b # m
      <4>1. b + 1 \in 1 .. m /\ b + 1 \in 1 .. Len(h) /\ d + (b + 1) = d + b + 1
        BY <1>6, <1>7, <2>2, <2>3, <3>1
      <4> QED BY <1>10, <1>11, <2>2, <3>1, <4>1
    <3>2. CASE b = m /\ m < Len(h) /\ h[m + 1] = "."
      <4>1. m + 1 \in 1 .. Len(h) /\ d + (m + 1) = d + b + 1
        BY <1>6, <1>7, <3>2
      <4> QED BY <1>4, <1>11, <3>2, <4>1
    <3>3. CASE b = m /\ m = Len(h) /\ ~f.hostRegex
      <4>1. h[Len(h)] \in Letter
        BY <1>10, <2>2, <3>3
      <4>2. i + Len(h) > Len(u.host) \/ u.host[i + Len(h)] = "."
        BY <1>2, <1>4, <2>3, <3>3, <4>1 DEF h
      <4> DEFINE L == Len(u.host)
      <4>3. L \in Nat /\ i \in Nat /\ Len(h) \in Nat /\ b = Len(h) /\ i + Len(h) - 1 <= L /\ i >= 1
        BY <1>3, <1>6, <1>7, <3>3
      <4>4. Len(s) = 3 + L + Len(u.path) /\ \A k \in 1 .. L : s[3 + k] = u.host[k]
        BY <1>3
      <4> HIDE DEF L
      <4>5. CASE i + Len(h) <= L
        <5>1. i + Len(h) \in 1 .. L /\ 3 + (i + Len(h)) = d + b + 1 /\ ~(i + Len(h) > L)
          BY <4>5, <4>3
        <5>2. s[3 + (i + Len(h))] = "."
          BY <4>2, <4>4, <5>1 DEF L
        <5> HIDE DEF d
        <5> QED BY <1>4, <5>1, <5>2
      <4>6. CASE i + Len(h) > L
        <5>1. d + b = 3 + L
          BY <4>6, <4>3
        <5> HIDE DEF d
        <5>2. CASE u.path = << >>
          BY <1>9, <4>3, <4>4, <5>1, <5>2
        <5>3. CASE u.path # << >>
          BY <1>3, <1>5, <5>1, <5>3 DEF L
        <5> QED BY <5>2, <5>3
      <4> QED BY <4>5, <4>6, <4>3
    <3> QED BY <1>1, <2>3, <3>1, <3>2, <3>3 DEF h
  <2>7. Framed(w, a, b, s, d)
    <3>1. d \in Int /\ 1 <= d + a /\ d + b <= Len(s)
      <4>1. b \in 1 .. Len(h)
        BY <1>6, <2>2, <2>3
      <4> QED BY <1>7, <1>11, <2>2, <4>1
    <3> HIDE DEF d
    <3> QED BY <2>4, <2>5, <2>6, <3>1 DEF Framed
  <2>8. SubSeq(w, a, b) \in TokensAt(s, Kept(s, FALSE, FALSE))
    <3> HIDE DEF d
    <3> QED BY <1>3, <1>8, <1>10, <2>1, <2>7, FramedToken DEF a, b
  <2> QED BY <2>8 DEF UrlTokens, a, b, s
<1> QED BY <1>1, <1>12 DEF TokensAt, w, h

\* What comes after a hostname is the rest of the URL from some place on.
LEMMA AfterHostIsRest ==
  ASSUME NEW f, f.host \in Seq(Char), NEW u, UrlText(u) \in Seq(Char)
  PROVE  \E k \in 1 .. Len(UrlText(u)) + 1 : AfterHost(f, u) = From(UrlText(u), k)
<1> DEFINE s  == UrlText(u)
           h  == f.host
           at == Occurrences(h, s)
           k  == (IF at = {} THEN Len(s) - Len(h) + 1 ELSE Least(at)) + Len(h)
<1>1. AfterHost(f, u) = From(s, k)
  BY DEF AfterHost
<1>2. Len(s) \in Nat /\ Len(h) \in Nat
  OBVIOUS
<1>3. \A i \in at : i \in 1 .. Len(s) + 1 /\ Len(h) + i - 1 <= Len(s)
  BY DEF Occurrences, StartsAt
<1> HIDE DEF s, h, at
<1>4. at # {} => Least(at) \in at
  <2>1. at \in SUBSET Nat
    BY <1>2, <1>3
  <2> QED BY <2>1, LeastOfAll
<1>5. k \in 1 .. Len(s) + 1
  BY <1>2, <1>3, <1>4
<1> QED BY <1>1, <1>5 DEF s

\* A literal text that stands in s frames its runs there, if what stands at an
\* end of the text stands at that end of s.
LEMMA LiteralFramed ==
  ASSUME NEW t \in Seq(Char), NEW s \in Seq(Char), NEW p \in Nat \ {0}, StartsAt(t, s, p),
         NEW a \in 1 .. Len(t), NEW b \in a .. Len(t), <<a, b>> \in Runs(t),
         a = 1 => p = 1,
         b = Len(t) => Len(t) + p - 1 = Len(s)
  PROVE  Framed(t, a, b, s, p - 1) /\ (a # 1 => p - 1 + a # 1)
<1> DEFINE d == p - 1
<1>1. Len(t) \in Nat /\ Len(s) \in Nat /\ a \in Nat /\ b \in Nat /\ p \in Nat /\ p >= 1
  OBVIOUS
<1>2. Len(t) + d <= Len(s) /\ \A k \in 1 .. Len(t) : s[d + k] = t[k]
  <2>1. Len(t) + p - 1 <= Len(s) /\ \A k \in 1 .. Len(t) : s[p + k - 1] = t[k]
    BY StandsAt
  <2>2. \A k \in 1 .. Len(t) : p + k - 1 = d + k
    BY <1>1
  <2>3. Len(t) + p - 1 = Len(t) + d
    BY <1>1
  <2> HIDE DEF d
  <2> QED BY <2>1, <2>2, <2>3
<1>3. /\ a = 1 \/ t[a - 1] \notin Letter
      /\ b = Len(t) \/ t[b + 1] \notin Letter
  BY DEF Runs
<1>4. d \in Nat /\ (a = 1 => d = 0) /\ (b = Len(t) => Len(t) + d = Len(s))
  BY <1>1
<1> HIDE DEF d
<1>5. 1 <= d + a /\ d + b <= Len(s) /\ \A k \in a .. b : s[d + k] = t[k]
  BY <1>1, <1>2, <1>4
<1>6. d + a = 1 \/ s[d + a - 1] \notin Letter
  <2>1. CASE a = 1
    BY <1>4, <2>1
  <2>2. CASE a # 1
    <3>1. a - 1 \in 1 .. Len(t) /\ d + (a - 1) = d + a - 1
      BY <1>1, <1>4, <2>2
    <3> QED BY <1>2, <1>3, <2>2, <3>1
  <2> QED BY <2>1, <2>2
<1>7. d + b = Len(s) \/ s[d + b + 1] \notin Letter
  <2>1. CASE b = Len(t)
    BY <1>1, <1>4, <2>1
  <2>2. CASE b # Len(t)
    <3>1. b + 1 \in 1 .. Len(t) /\ d + (b + 1) = d + b + 1
      BY <1>1, <1>4, <2>2
    <3> QED BY <1>2, <1>3, <2>2, <3>1
  <2> QED BY <2>1, <2>2
<1>8. a # 1 => d + a # 1
  BY <1>1, <1>4
<1> QED BY <1>4, <1>5, <1>6, <1>7, <1>8 DEF Framed, d

\* A wildcard text that matches frames the runs that get_tokens keeps, which
\* are not next to a star.
LEMMA WildcardsFramed ==
  ASSUME Signs, NEW t \in Seq(Sign), NEW s \in Seq(Char), NEW left \in BOOLEAN, NEW right \in BOOLEAN,
         Wildcards(t, left, right, s),
         NEW a, NEW b, Apart(t, a, b), a = 1 => left, b = Len(t) => right
  PROVE  \E d : Framed(t, a, b, s, d) /\ (a # 1 => d + a # 1)
<1> DEFINE from == IF left THEN {0} ELSE 0 .. Len(s)
           ends == Ends(t, s, from, {Len(t)})
<1>1. t # << >> /\ Len(s) \in Nat /\ Len(t) \in Nat
  BY EmptySeq DEF Apart
<1>2. IF right THEN Len(s) \in ends ELSE ends # {}
  BY <1>1 DEF Wildcards
<1>3. t \in Seq(Char)
  BY SeqMonotonic DEF Char
<1>4. from \in SUBSET (0 .. Len(s))
  BY <1>1
<1> HIDE DEF from
<1>5. PICK g : Stages(t, s, from, {Len(t)}, g) /\ ends = g[Len(t)]
  BY <1>3, <1>4, EndsStages
<1> HIDE DEF ends
<1>6. PICK e \in g[Len(t)] : right => e = Len(s)
  BY <1>2, <1>5
<1>7. PICK d : Passed(t, a, b, s, from, e, d)
  BY <1>5, <1>6, RunReached
<1>8. d + a = 1 \/ s[d + a - 1] \notin Letter
  BY <1>7 DEF from, Passed
<1>9. d + b = Len(s) \/ s[d + b + 1] \notin Letter
  BY <1>6, <1>7 DEF Passed
<1> QED BY <1>7, <1>8, <1>9 DEF Framed, Passed

\* The text of a filter matches in x, from its start on or up to its end if it
\* is anchored.
MatchedIn(f, x) ==
  IF f.regex THEN Wildcards(f.text, f.leftAnchor, f.rightAnchor, x)
  ELSE \E p \in Nat \ {0} : /\ StartsAt(f.text, x, p)
                            /\ f.leftAnchor => p = 1
                            /\ f.rightAnchor => Len(f.text) + p - 1 = Len(x)

\* What is found matches in the URL or in what comes after a hostname in it.
LEMMA FoundMatched ==
  ASSUME NEW f, Shaped(f), f.text # << >>, NEW u, UrlText(u) \in Seq(Char), Found(f, u)
  PROVE  \E k \in 1 .. Len(UrlText(u)) + 1 :
           MatchedIn(f, From(UrlText(u), k)) /\ (f.hostAnchor \/ k = 1)
<1> DEFINE s == UrlText(u)
           t == f.text
<1>1. s \in Seq(Char) /\ Len(s) \in Nat /\ From(s, 1) = s
  BY SubSeqFull DEF From
<1>2. t \in Seq(Char) /\ f.host \in Seq(Char) /\ Len(t) \in Nat /\ Len(t) >= 1
  <2>1. t \in Seq(Char)
    BY SeqMonotonic DEF Shaped, Char
  <2>2. f.host \in Seq(Char)
    BY SeqMonotonic DEF Shaped, Char, Sign
  <2> HIDE DEF t
  <2> QED BY <2>1, <2>2, EmptySeq DEF t
<1>3. f.leftAnchor \in BOOLEAN /\ f.rightAnchor \in BOOLEAN
  BY DEF Shaped
<1> HIDE DEF s
<1>4. ASSUME NEW x \in Seq(Char), t = x PROVE StartsAt(t, x, 1) /\ Len(t) + 1 - 1 = Len(x)
  <2>1. StartsAt(x, x, 1)
    BY StandsAt
  <2> QED BY <1>4, <2>1
<1>5. ASSUME NEW x \in Seq(Char), EndsWith(x, t)
      PROVE  Len(x) - Len(t) + 1 \in Nat \ {0} /\ StartsAt(t, x, Len(x) - Len(t) + 1)
  <2> DEFINE p == Len(x) - Len(t) + 1
  <2>1. Len(t) <= Len(x) /\ SubSeq(x, p, Len(x)) = t /\ Len(x) \in Nat
    <3>1. Len(x) \in Nat
      OBVIOUS
    <3> QED BY <1>5, <3>1, Zenon DEF EndsWith, From
  <2>2. p \in Nat \ {0} /\ p + Len(t) - 1 = Len(x) /\ Len(t) + p - 1 = Len(x)
    BY <1>2, <2>1
  <2> HIDE DEF p
  <2>3. StartsAt(t, x, p)
    BY <2>1, <2>2 DEF StartsAt
  <2> QED BY <2>2, <2>3 DEF p
<1>6. ASSUME NEW x \in Seq(Char), NEW p \in Occurrences(t, x)
      PROVE  p \in Nat \ {0} /\ StartsAt(t, x, p)
  BY <1>6 DEF Occurrences
<1>7. ASSUME EndsWith(s, t), ~f.leftAnchor, ~f.regex PROVE MatchedIn(f, s)
  <2> DEFINE p == Len(s) - Len(t) + 1
  <2>1. p \in Nat \ {0} /\ StartsAt(t, s, p) /\ Len(t) + p - 1 = Len(s)
    <3>1. p \in Nat \ {0} /\ StartsAt(t, s, p)
      BY <1>1, <1>5, <1>7
    <3>2. Len(t) + p - 1 = Len(s)
      BY <1>1, <1>2
    <3> QED BY <3>1, <3>2
  <2> HIDE DEF p
  <2> QED BY <1>7, <2>1 DEF MatchedIn
<1>8. CASE f.hostAnchor
  <2>1. FoundAfterHost(f, u)
    BY <1>8 DEF Found
  <2>2. PICK k \in 1 .. Len(s) + 1 : AfterHost(f, u) = From(s, k)
    BY <1>2, AfterHostIsRest DEF s
  <2> DEFINE x == From(s, k)
  <2>3. x \in Seq(Char)
    BY Rest DEF s
  <2> HIDE DEF x
  <2>4. CASE f.regex
    <3>1. Wildcards(t, f.leftAnchor, f.rightAnchor, x)
      BY <2>1, <2>2, <2>4 DEF FoundAfterHost, x
    <3>2. MatchedIn(f, x)
      BY <2>4, <3>1 DEF MatchedIn
    <3> QED BY <1>8, <3>2 DEF x, s
  <2>5. CASE ~f.regex /\ f.leftAnchor /\ f.rightAnchor
    <3>1. t = x
      BY <2>1, <2>2, <2>5 DEF FoundAfterHost, x
    <3>2. MatchedIn(f, x)
      BY <1>4, <2>3, <2>5, <3>1 DEF MatchedIn
    <3> QED BY <1>8, <3>2 DEF x, s
  <2>6. CASE ~f.regex /\ ~f.leftAnchor /\ f.rightAnchor
    <3>1. EndsWith(s, t)
      BY <2>1, <2>6 DEF FoundAfterHost, s
    <3>2. MatchedIn(f, From(s, 1))
      BY <1>1, <1>7, <2>6, <3>1
    <3>3. 1 \in 1 .. Len(s) + 1
      BY <1>1
    <3> QED BY <1>8, <3>2, <3>3 DEF s
  <2>7. CASE ~f.regex /\ f.leftAnchor /\ ~f.rightAnchor
    <3>1. StartsAt(t, x, 1)
      BY <2>1, <2>2, <2>7 DEF FoundAfterHost, x
    <3>2. MatchedIn(f, x)
      BY <2>7, <3>1 DEF MatchedIn
    <3> QED BY <1>8, <3>2 DEF x, s
  <2>8. CASE ~f.regex /\ ~f.leftAnchor /\ ~f.rightAnchor
    <3>1. Occurrences(t, x) # {}
      BY <2>1, <2>2, <2>8 DEF FoundAfterHost, x
    <3>2. MatchedIn(f, x)
      BY <1>6, <2>3, <2>8, <3>1 DEF MatchedIn
    <3> QED BY <1>8, <3>2 DEF x, s
  <2> QED BY <1>3, <2>4, <2>5, <2>6, <2>7, <2>8
<1>9. CASE ~f.hostAnchor
  <2>1. FoundInUrl(f, s)
    BY <1>9 DEF Found, s
  <2>2. MatchedIn(f, s)
    <3>1. CASE f.regex
      BY <2>1, <3>1 DEF FoundInUrl, MatchedIn
    <3>2. CASE ~f.regex /\ f.leftAnchor /\ f.rightAnchor
      <4>1. t = s
        BY <2>1, <3>2 DEF FoundInUrl
      <4> QED BY <1>4, <3>2, <4>1 DEF MatchedIn, s
    <3>3. CASE ~f.regex /\ ~f.leftAnchor /\ f.rightAnchor
      <4>1. EndsWith(s, t)
        BY <2>1, <3>3 DEF FoundInUrl
      <4> QED BY <1>7, <3>3, <4>1
    <3>4. CASE ~f.regex /\ f.leftAnchor /\ ~f.rightAnchor
      <4>1. StartsAt(t, s, 1)
        BY <2>1, <3>4 DEF FoundInUrl
      <4> QED BY <3>4, <4>1 DEF MatchedIn
    <3>5. CASE ~f.regex /\ ~f.leftAnchor /\ ~f.rightAnchor
      <4>1. Occurrences(t, s) # {}
        BY <2>1, <3>5 DEF FoundInUrl
      <4> QED BY <1>6, <3>5, <4>1 DEF MatchedIn, s
    <3> QED BY <1>3, <3>1, <3>2, <3>3, <3>4, <3>5
  <2>3. 1 \in 1 .. Len(s) + 1
    BY <1>1
  <2> QED BY <1>1, <2>2, <2>3 DEF s
<1> QED BY <1>8, <1>9

\* The runs of a text that get_tokens keeps, but for the one that a text which
\* may start anywhere begins with, are framed in the URLs it is found in.
LEMMA TextFramed ==
  ASSUME Signs, NEW f, Shaped(f), NEW u, UrlText(u) \in Seq(Char), Found(f, u),
         NEW r \in TextRuns(f), r[1] > 1 \/ f.leftAnchor
  PROVE  \E d : Framed(f.text, r[1], r[2], UrlText(u), d)
<1> DEFINE s == UrlText(u)
           t == f.text
           a == r[1]
           b == r[2]
           left  == f.leftAnchor
           right == f.rightAnchor
<1>1. /\ r \in Runs(t) /\ a < b
      /\ a = 1 \/ t[a - 1] # "*"
      /\ IF b = Len(t) THEN right ELSE t[b + 1] # "*"
  BY DEF TextRuns, Kept
<1>2. /\ a \in 1 .. Len(t) /\ b \in a .. Len(t) /\ <<a, b>> \in Runs(t) /\ t[a] \in Letter
  <2>1. r \in (DOMAIN t) \X (DOMAIN t) /\ a <= b /\ \A i \in a .. b : t[i] \in Letter
    BY <1>1 DEF Runs
  <2>2. DOMAIN t = 1 .. Len(t)
    BY DEF Shaped
  <2>3. <<a, b>> = r /\ a \in 1 .. Len(t) /\ b \in 1 .. Len(t)
    BY <2>1, <2>2
  <2> HIDE DEF t, a, b
  <2> QED BY <1>1, <2>1, <2>3
<1>3. t \in Seq(Sign) /\ t \in Seq(Char) /\ t # << >> /\ left \in BOOLEAN /\ right \in BOOLEAN
  BY <1>2, SeqMonotonic DEF Shaped, Char
<1>4. f.hostAnchor => a # 1
  BY <1>2, <1>3 DEF Shaped
<1>5. (a = 1 => left) /\ (b = Len(t) => right)
  BY <1>1, <1>2
<1> HIDE DEF s, t, a, b, left, right
<1>6. Apart(t, a, b)
  BY <1>1, <1>2 DEF Apart
<1>7. PICK k \in 1 .. Len(s) + 1 : MatchedIn(f, From(s, k)) /\ (f.hostAnchor \/ k = 1)
  BY <1>3, FoundMatched DEF s, t
<1> DEFINE x == From(s, k)
<1>8. x \in Seq(Char)
  BY Rest DEF s
<1> HIDE DEF x
<1>9. \E d : Framed(t, a, b, x, d) /\ (a # 1 => d + a # 1)
  <2>1. CASE f.regex
    <3>1. Wildcards(t, left, right, x)
      BY <1>7, <2>1 DEF MatchedIn, t, left, right, x
    <3> QED BY <1>3, <1>5, <1>6, <1>8, <3>1, WildcardsFramed
  <2>2. CASE ~f.regex
    <3>1. PICK p \in Nat \ {0} : StartsAt(t, x, p) /\ (left => p = 1) /\ (right => Len(t) + p - 1 = Len(x))
      BY <1>7, <2>2 DEF MatchedIn, t, left, right, x
    <3>2. (a = 1 => p = 1) /\ (b = Len(t) => Len(t) + p - 1 = Len(x))
      BY <1>5, <3>1
    <3>3. Framed(t, a, b, x, p - 1) /\ (a # 1 => p - 1 + a # 1)
      BY <1>2, <1>3, <1>8, <3>1, <3>2, LiteralFramed
    <3> QED BY <3>3
  <2> QED BY <2>1, <2>2
<1>10. PICK d : Framed(t, a, b, x, d) /\ (a # 1 => d + a # 1)
  BY <1>9
<1>11. k = 1 \/ d + a # 1
  BY <1>4, <1>7, <1>10
<1>12. Framed(t, a, b, s, d + k - 1)
  <2>1. a \in Nat /\ b \in Nat /\ a <= b
    BY <1>2
  <2> QED BY <1>10, <1>11, <2>1, FramedInAll DEF s, x
<1> QED BY <1>12 DEF s, t, a, b

-----------------------------------------------------------------------------
(* A text means what it says.                                              *)

\* A text with no wildcards leads to where it has stood.
LEMMA LiteralEnds ==
  ASSUME NEW t \in Seq(Char), ~HasWildcard(t), NEW s \in Seq(Char), NEW from \in SUBSET (0 .. Len(s)), NEW final
  PROVE  \A q : q \in Ends(t, s, from, final) <=>
                 \E p \in from : q = p + Len(t) /\ StartsAt(t, s, p + 1)
<1> DEFINE n == Len(t)
           stood(p, i) == p + i <= Len(s) /\ \A k \in 1 .. i : s[p + k] = t[k]
<1>1. PICK g : Stages(t, s, from, final, g) /\ Ends(t, s, from, final) = g[n]
  BY EndsStages
<1>2. n \in Nat /\ Len(s) \in Nat /\ \A i \in 1 .. n : t[i] \notin Wildcard
  BY DEF HasWildcard, Places
<1> HIDE DEF n
<1>3. /\ g[0] = from
      /\ \A i \in 0 .. n : g[i] \subseteq 0 .. Len(s)
      /\ \A i \in 1 .. n : \A q \in 0 .. Len(s) :
           q \in g[i] <=> \E p \in g[i - 1] : Leads(t[i], s, i \in final, p, q)
  BY <1>1 DEF Stages, n
<1> DEFINE T == {i \in 0 .. n : \A q : q \in g[i] <=> \E p \in from : q = p + i /\ stood(p, i)}
<1>4. 0 \in T
  <2>1. \A p \in from : p + 0 = p /\ stood(p, 0)
    BY <1>2
  <2> HIDE DEF stood
  <2> QED BY <1>2, <1>3, <2>1
<1>5. ASSUME NEW i \in 0 .. n - 1, i \in T PROVE i + 1 \in T
  <2>1. i + 1 \in 1 .. n /\ i + 1 \in 0 .. n /\ (i + 1) - 1 = i /\ t[i + 1] \notin Wildcard
    BY <1>2
  <2>2. \A q : q \in g[i] <=> \E p \in from : q = p + i /\ stood(p, i)
    BY <1>5
  <2>3. \A p \in from : p \in Nat
    BY <1>2
  <2>4. \A p \in from : stood(p, i + 1) <=>
                          stood(p, i) /\ p + i + 1 <= Len(s) /\ s[p + i + 1] = t[i + 1]
    <3> TAKE p \in from
    <3>1. p \in Nat /\ i \in Nat /\ p + (i + 1) = p + i + 1
      BY <1>2, <2>3
    <3>2. \A k \in 1 .. i + 1 : k \in 1 .. i \/ k = i + 1
      BY <3>1
    <3>3. 1 .. i \subseteq 1 .. i + 1 /\ i + 1 \in 1 .. i + 1
      BY <3>1
    <3>4. p + i + 1 <= Len(s) => p + i <= Len(s)
      BY <1>2, <3>1
    <3>5. (\A k \in 1 .. i + 1 : s[p + k] = t[k]) <=>
            (\A k \in 1 .. i : s[p + k] = t[k]) /\ s[p + (i + 1)] = t[i + 1]
      BY <3>2, <3>3
    <3>6. s[p + (i + 1)] = s[p + i + 1]
      BY <3>1
    <3> QED BY <3>1, <3>4, <3>5, <3>6
  <2> HIDE DEF stood
  <2>5. ASSUME NEW q, q \in g[i + 1] PROVE \E p \in from : q = p + (i + 1) /\ stood(p, i + 1)
    <3>1. q \in 0 .. Len(s)
      BY <1>3, <2>1, <2>5
    <3>2. PICK q1 \in g[i] : Leads(t[i + 1], s, i + 1 \in final, q1, q)
      BY <1>3, <2>1, <2>5, <3>1
    <3>3. q = q1 + 1 /\ s[q] = t[i + 1]
      BY <2>1, <3>2 DEF Leads, Wildcard
    <3>4. PICK p \in from : q1 = p + i /\ stood(p, i)
      BY <2>2
    <3>5. q = p + (i + 1) /\ q = p + i + 1 /\ p + i + 1 <= Len(s)
      BY <2>3, <3>1, <3>3, <3>4
    <3> QED BY <2>4, <3>3, <3>4, <3>5
  <2>6. ASSUME NEW p \in from, stood(p, i + 1) PROVE p + (i + 1) \in g[i + 1]
    <3>1. stood(p, i) /\ p + i + 1 <= Len(s) /\ s[p + i + 1] = t[i + 1]
      BY <2>4, <2>6
    <3>2. p + i \in g[i] /\ p + (i + 1) = (p + i) + 1 /\ p + (i + 1) = p + i + 1 /\ p + i + 1 \in 0 .. Len(s)
      BY <1>2, <2>2, <2>3, <3>1
    <3>3. Leads(t[i + 1], s, i + 1 \in final, p + i, p + i + 1)
      BY <2>1, <3>1 DEF Leads
    <3>4. p + i + 1 \in g[i + 1]
      BY <1>3, <2>1, <3>2, <3>3
    <3> QED BY <3>2, <3>4
  <2>7. \A q : q \in g[i + 1] <=> \E p \in from : q = p + (i + 1) /\ stood(p, i + 1)
    BY <2>5, <2>6
  <2> QED BY <2>1, <2>7
<1>6. \A q : q \in g[n] <=> \E p \in from : q = p + n /\ stood(p, n)
  <2> HIDE DEF T
  <2>1. \A i \in 0 .. n : i \in T
    BY <1>2, <1>4, <1>5, StepByStep
  <2>2. n \in T
    BY <1>2, <2>1
  <2> QED BY <2>2 DEF T
<1>7. ASSUME NEW p \in from PROVE stood(p, n) <=> StartsAt(t, s, p + 1)
  <2>1. p \in Nat /\ p + 1 \in Nat \ {0} /\ n + (p + 1) - 1 = p + n
    BY <1>2
  <2>2. StartsAt(t, s, p + 1) <=> n + (p + 1) - 1 <= Len(s) /\ \A k \in 1 .. n : s[(p + 1) + k - 1] = t[k]
    BY <2>1, StandsAt DEF n
  <2>3. \A k \in 1 .. n : (p + 1) + k - 1 = p + k
    BY <1>2, <2>1
  <2> QED BY <2>1, <2>2, <2>3
<1> HIDE DEF stood
<1> QED BY <1>1, <1>6, <1>7 DEF n

\* Two texts lead to the same places for as long as they say the same.
LEMMA SameStages ==
  ASSUME NEW t, NEW w, NEW s, NEW from, NEW from2, NEW final, NEW final2, NEW g, NEW h,
         Stages(t, s, from, final, g), Stages(w, s, from2, final2, h),
         Len(t) \in Nat, Len(w) \in Nat, NEW k \in Nat, k + Len(w) <= Len(t), g[k] = h[0],
         \A i \in 1 .. Len(w) : t[k + i] = w[i] /\ (w[i] = "^" => (k + i \in final <=> i \in final2))
  PROVE  g[k + Len(w)] = h[Len(w)]
<1> DEFINE m == Len(w)
           T == {i \in 0 .. m : g[k + i] = h[i]}
<1>1. m \in Nat /\ Len(t) \in Nat /\ k + m <= Len(t)
  OBVIOUS
<1> HIDE DEF m
<1>2. 0 \in T
  BY <1>1
<1>3. ASSUME NEW i \in 0 .. m - 1, i \in T PROVE i + 1 \in T
  <2> DEFINE j == i + 1
             x == k + j
  <2>1. /\ j \in 1 .. m /\ j \in 0 .. m /\ j - 1 = i
        /\ x \in 1 .. Len(t) /\ x \in 0 .. Len(t) /\ x - 1 = k + i
    BY <1>1
  <2>2. t[x] = w[j] /\ (w[j] = "^" => (x \in final <=> j \in final2))
    BY <2>1 DEF m
  <2>3. g[x - 1] = h[j - 1]
    BY <1>3, <2>1
  <2> HIDE DEF j, x
  <2>4. g[x] \subseteq 0 .. Len(s) /\ h[j] \subseteq 0 .. Len(s)
    BY <2>1 DEF Stages, m
  <2>5. \A p, q : Leads(t[x], s, x \in final, p, q) <=> Leads(w[j], s, j \in final2, p, q)
    BY <2>2 DEF Leads
  <2>6. \A q \in 0 .. Len(s) : q \in g[x] <=> \E p \in g[x - 1] : Leads(t[x], s, x \in final, p, q)
    BY <2>1 DEF Stages
  <2>7. \A q \in 0 .. Len(s) : q \in h[j] <=> \E p \in h[j - 1] : Leads(w[j], s, j \in final2, p, q)
    BY <2>1 DEF Stages, m
  <2>8. g[x] = h[j]
    BY <2>3, <2>4, <2>5, <2>6, <2>7
  <2> QED BY <2>1, <2>8 DEF j, x
<1> HIDE DEF T
<1>4. \A i \in 0 .. m : i \in T
  BY <1>1, <1>2, <1>3, StepByStep
<1>5. m \in T
  BY <1>1, <1>4
<1> QED BY <1>5 DEF T, m

\* A star leads on from every place.
LEMMA StarStage ==
  ASSUME NEW t, NEW s, Len(s) \in Nat, NEW from, NEW final, NEW g, Stages(t, s, from, final, g),
         NEW i \in 1 .. Len(t), t[i] = "*"
  PROVE  \A q \in 0 .. Len(s) : q \in g[i] <=> \E p \in g[i - 1] : p <= q
<1>1. ASSUME NEW q \in 0 .. Len(s)
      PROVE  q \in g[i] <=> \E p \in g[i - 1] : Leads(t[i], s, i \in final, p, q)
  BY DEF Stages
<1>2. \A p, q : Leads(t[i], s, i \in final, p, q) <=> p <= q
  BY DEF Leads, Wildcard
<1> QED BY <1>1, <1>2

\* What is left of a text without its first star and its last one.
Last(t)  == IF t[Len(t)] = "*" THEN Len(t) - 1 ELSE Len(t)
Stars(t) == IF 1 <= Last(t) /\ t[1] = "*" THEN 1 ELSE 0
Body(t)  == SubSeq(t, Stars(t) + 1, Last(t))

\* Taking off the stars does not change where a text can end, nor whether it
\* can, as long as no star goes before an anchored end.
LEMMA Trimmed ==
  ASSUME NEW t \in Seq(Char), t # << >>, NEW s \in Seq(Char), NEW left \in BOOLEAN, NEW right \in BOOLEAN,
         right => t[Len(t)] # "*"
  PROVE  LET n     == Len(s)
             whole == Ends(t, s, IF left THEN {0} ELSE 0 .. n,
                           {Len(t)} \cup (IF t[Len(t)] = "*" THEN {Len(t) - 1} ELSE {}))
             part  == Ends(Body(t), s, IF left /\ Stars(t) = 0 THEN {0} ELSE 0 .. n, {Len(Body(t))})
         IN  (IF right THEN n \in whole ELSE whole # {}) <=> (IF right THEN n \in part ELSE part # {})
<1> DEFINE n     == Len(s)
           l     == Len(t)
           k     == Stars(t)
           w     == Body(t)
           m     == Len(w)
           last  == Last(t)
           from  == IF left THEN {0} ELSE 0 .. n
           from2 == IF left /\ k = 0 THEN {0} ELSE 0 .. n
           final == {l} \cup (IF t[l] = "*" THEN {l - 1} ELSE {})
           whole == Ends(t, s, from, final)
           part  == Ends(w, s, from2, {m})
<1> SUFFICES (IF right THEN n \in whole ELSE whole # {}) <=> (IF right THEN n \in part ELSE part # {})
  OBVIOUS
<1>1. n \in Nat /\ l \in Nat /\ l >= 1
  BY EmptySeq
<1>2. k \in {0, 1} /\ last \in {l - 1, l} /\ k <= last /\ (k = 1 => t[1] = "*")
  BY <1>1 DEF Stars, Last
<1>3. (last = l - 1 => t[l] = "*") /\ (last = l => t[l] # "*")
  BY <1>1 DEF Last
<1> HIDE DEF n, l, k, last, from, from2, final
<1>4. w \in Seq(Char) /\ m = last - k /\ \A i \in 1 .. m : w[i] = t[k + i]
  <2>1. k + 1 \in 1 .. l + 1 /\ last \in (k + 1) - 1 .. l /\ last - (k + 1) + 1 = last - k
    BY <1>1, <1>2
  <2>2. /\ w \in Seq(Char) /\ m = last - k
        /\ \A i \in 1 .. last - k : w[i] = t[(k + 1) + i - 1]
    BY <2>1, Stretch DEF Body, k, l, last
  <2>3. \A i \in 1 .. last - k : (k + 1) + i - 1 = k + i
    BY <1>1, <1>2
  <2> HIDE DEF w
  <2> QED BY <2>2, <2>3
<1> HIDE DEF w, m
<1>5. from \in SUBSET (0 .. n) /\ from2 \in SUBSET (0 .. n)
  BY <1>1 DEF from, from2
<1>6. PICK g : Stages(t, s, from, final, g) /\ whole = g[l]
  <2>1. from \in SUBSET (0 .. Len(s))
    BY <1>5 DEF n
  <2> QED BY <2>1, EndsStages DEF l
<1>7. PICK h : Stages(w, s, from2, {m}, h) /\ part = h[m]
  <2>1. from2 \in SUBSET (0 .. Len(s))
    BY <1>5 DEF n
  <2> QED BY <1>4, <2>1, EndsStages DEF m
<1> HIDE DEF whole, part
<1>8. g[0] = from /\ h[0] = from2
  BY <1>6, <1>7 DEF Stages
<1>9. g[k] = h[0]
  <2>1. CASE k = 0
    BY <1>8, <2>1 DEF from, from2
  <2>2. CASE k = 1
    <3>1. 1 \in 1 .. l /\ 1 \in 0 .. l /\ 1 - 1 = 0
      BY <1>1
    <3>2. \A q \in 0 .. n : q \in g[1] <=> \E p \in from : p <= q
      <4>1. \A q \in 0 .. n : q \in g[1] <=> \E p \in g[1 - 1] : p <= q
        BY <1>1, <1>2, <1>6, <2>2, <3>1, StarStage DEF n, l
      <4> QED BY <1>8, <3>1, <4>1
    <3>3. 0 \in from /\ \A q \in 0 .. n : 0 <= q
      BY <1>1 DEF from
    <3>4. g[1] \subseteq 0 .. n
      BY <1>6, <3>1 DEF Stages, n, l
    <3>5. g[1] = 0 .. n
      BY <3>2, <3>3, <3>4
    <3> QED BY <1>8, <2>2, <3>5 DEF from2
  <2> QED BY <1>2, <2>1, <2>2
<1>10. \A i \in 1 .. m : t[k + i] = w[i] /\ (w[i] = "^" => (k + i \in final <=> i \in {m}))
  <2> TAKE i \in 1 .. m
  <2>1. k + i \in 1 .. last /\ (k + i = last <=> i = m)
    BY <1>1, <1>2, <1>4
  <2>2. k + i \in final <=> k + i = last
    <3>1. CASE last = l
      BY <1>1, <1>3, <2>1, <3>1 DEF final
    <3>2. CASE last = l - 1
      BY <1>1, <1>3, <2>1, <3>2 DEF final
    <3> QED BY <1>2, <3>1, <3>2
  <2> QED BY <1>4, <2>1, <2>2
<1>11. k + m = last /\ m \in Nat /\ k \in Nat /\ k + m <= l
  BY <1>1, <1>2, <1>4
<1>12. g[last] = part
  <2>1. g[k + m] = h[m]
    BY <1>1, <1>6, <1>7, <1>9, <1>10, <1>11, SameStages DEF l, m
  <2> QED BY <1>7, <1>11, <2>1
<1>13. CASE last = l
  BY <1>6, <1>12, <1>13
<1>14. CASE last = l - 1
  <2>1. l \in 1 .. l /\ l \in 0 .. l /\ last \in 0 .. l
    BY <1>1, <1>14
  <2>2. \A q \in 0 .. n : q \in whole <=> \E p \in part : p <= q
    BY <1>1, <1>3, <1>6, <1>12, <1>14, <2>1, StarStage DEF n, l
  <2>3. whole \subseteq 0 .. n /\ part \subseteq 0 .. n
    <3>1. g[l] \subseteq 0 .. n /\ g[last] \subseteq 0 .. n
      BY <1>6, <2>1 DEF Stages, n, l
    <3> QED BY <1>6, <1>12, <3>1
  <2>4. \A p \in part : p <= p
    BY <1>1, <2>3
  <2>5. whole # {} <=> part # {}
    BY <2>2, <2>3, <2>4
  <2>6. ~right
    BY <1>3, <1>14 DEF l
  <2> QED BY <2>5, <2>6
<1> QED BY <1>2, <1>13, <1>14

\* parse of a text that is not anchored at a hostname takes off its stars.
LEMMA PlainParse ==
  ASSUME NEW t \in Seq(Char), t # << >>, NEW left \in {"no", "|"}, NEW right \in BOOLEAN
  PROVE  LET f == Parse(t, left, right)
         IN  /\ f.text = Body(t) /\ f.from = t /\ f.left = left /\ f.right = right
             /\ ~f.hostAnchor
             /\ f.leftAnchor = (left = "|" /\ Stars(t) = 0)
             /\ f.rightAnchor = right
             /\ f.regex = IF Body(t) = << >> THEN HasWildcard(t) ELSE HasWildcard(Body(t))
<1> DEFINE f == Parse(t, left, right)
           star == 1 <= Last(t) /\ t[1] = "*"
<1>1. Len(t) \in Nat /\ 1 <= Len(t)
  BY EmptySeq
<1>2. left # "||"
  OBVIOUS
<1>3. f = [text        |-> SubSeq(t, IF star THEN 1 + 1 ELSE 1, Last(t)),
           host        |-> << >>,
           hostAnchor  |-> FALSE,
           hostRegex   |-> FALSE,
           leftAnchor  |-> LeftAnchored(left, 1 <= Len(t), star),
           rightAnchor |-> right,
           regex       |-> IsRegex(t, SubSeq(t, IF star THEN 1 + 1 ELSE 1, Last(t)), FALSE),
           from |-> t, left |-> left, right |-> right]
  BY <1>1, <1>2 DEF Parse, Last
<1> HIDE DEF f
<1>4. Body(t) = SubSeq(t, IF star THEN 1 + 1 ELSE 1, Last(t))
  <2>1. Stars(t) + 1 = IF star THEN 1 + 1 ELSE 1
    BY DEF Stars
  <2> HIDE DEF star
  <2> QED BY <2>1, Zenon DEF Body
<1>5. LeftAnchored(left, 1 <= Len(t), star) = (left = "|" /\ Stars(t) = 0)
  BY <1>2 DEF LeftAnchored, Stars
<1>6. IsRegex(t, Body(t), FALSE) = IF Body(t) = << >> THEN HasWildcard(t) ELSE HasWildcard(Body(t))
  BY DEF IsRegex, HasWildcard
<1> HIDE DEF star
<1>7. /\ f.text = Body(t) /\ f.from = t /\ f.left = left /\ f.right = right
      /\ ~f.hostAnchor
      /\ f.leftAnchor = (left = "|" /\ Stars(t) = 0)
      /\ f.rightAnchor = right
      /\ f.regex = IsRegex(t, Body(t), FALSE)
  BY <1>3, <1>4, <1>5
<1> QED BY <1>6, <1>7 DEF f

\* A plain filter is found in a text where it stands as it is written.
LEMMA PlainFound ==
  ASSUME Signs, NEW t \in Seq(Sign), Considered(t), NEW left \in {"no", "|"}, NEW right \in BOOLEAN,
         right => t[Len(t)] # "*", NEW s \in Seq(Char)
  PROVE  FoundInUrl(Parse(t, left, right), s) <=> AsWritten(Parse(t, left, right), s)
<1> DEFINE f    == Parse(t, left, right)
           w    == Body(t)
           n    == Len(s)
           from == IF left = "|" /\ Stars(t) = 0 THEN {0} ELSE 0 .. n
           ends == Ends(w, s, from, {Len(w)})
           met  == IF right THEN n \in ends ELSE ends # {}
<1>1. t \in Seq(Char) /\ t # << >> /\ Len(t) \in Nat /\ Len(t) >= 1 /\ n \in Nat
  <2>1. t \in Seq(Char) /\ t # << >>
    BY SeqMonotonic DEF Char, Considered
  <2> QED BY <2>1, EmptySeq
<1>2. /\ f.text = w /\ f.from = t /\ f.left = left /\ f.right = right
      /\ f.leftAnchor = (left = "|" /\ Stars(t) = 0)
      /\ f.rightAnchor = right
      /\ f.regex = IF w = << >> THEN HasWildcard(t) ELSE HasWildcard(w)
  BY <1>1, PlainParse
<1> HIDE DEF f
<1>3. AsWritten(f, s) <=> met
  <2> DEFINE whole == Ends(t, s, IF left = "|" THEN {0} ELSE 0 .. n,
                           {Len(t)} \cup (IF t[Len(t)] = "*" THEN {Len(t) - 1} ELSE {}))
  <2>1. AsWritten(f, s) <=> IF right THEN n \in whole ELSE whole # {}
    BY <1>2 DEF AsWritten
  <2>2. (left = "|") \in BOOLEAN
    OBVIOUS
  <2>3. (IF right THEN n \in whole ELSE whole # {}) <=> met
    <3> DEFINE anchored == left = "|"
    <3>1. anchored \in BOOLEAN
      OBVIOUS
    <3> HIDE DEF anchored
    <3>2. LET n1     == Len(s)
              whole1 == Ends(t, s, IF anchored THEN {0} ELSE 0 .. n1,
                             {Len(t)} \cup (IF t[Len(t)] = "*" THEN {Len(t) - 1} ELSE {}))
              part1  == Ends(Body(t), s, IF anchored /\ Stars(t) = 0 THEN {0} ELSE 0 .. n1, {Len(Body(t))})
          IN  (IF right THEN n1 \in whole1 ELSE whole1 # {}) <=> (IF right THEN n1 \in part1 ELSE part1 # {})
      BY <1>1, <3>1, Trimmed
    <3> QED BY <3>2 DEF anchored
  <2> HIDE DEF whole, met
  <2> QED BY <2>1, <2>3
<1>4. /\ Stars(t) \in {0, 1} /\ Last(t) \in {Len(t) - 1, Len(t)} /\ Stars(t) <= Last(t)
      /\ Last(t) = Len(t) - 1 => t[Len(t)] = "*"
      /\ Stars(t) = 1 => t[1] = "*"
  BY <1>1 DEF Stars, Last
<1>5. w \in Seq(Char) /\ Len(w) = Last(t) - Stars(t)
  <2>1. /\ Stars(t) + 1 \in 1 .. Len(t) + 1 /\ Last(t) \in (Stars(t) + 1) - 1 .. Len(t)
        /\ Last(t) - (Stars(t) + 1) + 1 = Last(t) - Stars(t)
    BY <1>1, <1>4
  <2> QED BY <1>1, <2>1, Stretch DEF Body
<1>6. from # {} /\ from \in SUBSET (0 .. n)
  BY <1>1
<1> HIDE DEF w, from
<1>7. CASE w = << >>
  <2>1. Len(w) = 0 /\ Last(t) = Stars(t)
    BY <1>4, <1>5, <1>7, EmptySeq
  <2>2. Len(t) = 1 /\ t[1] = "*"
    <3>1. CASE Stars(t) = 0
      BY <1>1, <1>4, <2>1, <3>1
    <3>2. CASE Stars(t) = 1 /\ Len(t) = 1
      BY <3>2, <1>4
    <3>3. CASE Stars(t) = 1 /\ Len(t) # 1
      <4>1. Len(t) = 2 /\ t[1] = "*" /\ t[2] = "*"
        BY <1>1, <1>4, <2>1, <3>3
      <4>2. 1 \in 1 .. Len(t) - 1 /\ t[1] = t[1 + 1]
        BY <4>1
      <4>3. t[1] \notin Wildcard
        BY <4>2 DEF Considered
      <4> QED BY <4>1, <4>3 DEF Wildcard
    <3> QED BY <1>4, <3>1, <3>2, <3>3
  <2>3. f.regex
    <3>1. 1 \in Places(Wildcard, t)
      BY <1>1, <2>2 DEF Places, Wildcard
    <3> QED BY <1>2, <1>7, <3>1 DEF HasWildcard
  <2>4. FoundInUrl(f, s)
    BY <1>2, <1>7, <2>3 DEF FoundInUrl, Wildcards
  <2>5. ~right
    BY <2>2
  <2>6. PICK q \in from : TRUE
    BY <1>6
  <2>7. q \in ends
    <3>1. ~HasWildcard(w)
      BY <1>7 DEF HasWildcard, Places
    <3>2. q \in Nat /\ q <= n /\ q = q + Len(w)
      BY <1>1, <1>6, <2>1, <2>6
    <3>3. StartsAt(w, s, q + 1)
      <4>1. q + 1 \in Nat \ {0} /\ Len(w) + (q + 1) - 1 <= n /\ \A i \in 1 .. Len(w) : FALSE
        BY <1>1, <2>1, <3>2
      <4> QED BY <1>5, <4>1, StandsAt
    <3> QED BY <1>5, <1>6, <3>1, <3>2, <3>3, LiteralEnds
  <2> QED BY <1>3, <2>4, <2>5, <2>7 DEF f
<1>8. CASE w # << >> /\ HasWildcard(w)
  <2>1. f.regex
    BY <1>2, <1>8
  <2>2. FoundInUrl(f, s) <=> Wildcards(w, f.leftAnchor, right, s)
    BY <1>2, <2>1 DEF FoundInUrl
  <2>3. Wildcards(w, f.leftAnchor, right, s) <=> met
    BY <1>2, <1>8 DEF Wildcards, from
  <2> HIDE DEF met
  <2> QED BY <1>3, <2>2, <2>3 DEF f
<1>9. CASE w # << >> /\ ~HasWildcard(w)
  <2> DEFINE m == Len(w)
             anchored == left = "|" /\ Stars(t) = 0
  <2>1. ~f.regex /\ f.leftAnchor = anchored /\ from = IF anchored THEN {0} ELSE 0 .. n
    BY <1>2, <1>9 DEF from
  <2>2. \A q : q \in ends <=> \E p \in from : q = p + m /\ StartsAt(w, s, p + 1)
    BY <1>5, <1>6, <1>9, LiteralEnds
  <2>3. m \in Nat
    BY <1>5
  <2> HIDE DEF ends, m, anchored
  <2>4. CASE anchored /\ right
    <3>1. FoundInUrl(f, s) <=> w = s
      BY <1>2, <1>9, <2>1, <2>4 DEF FoundInUrl
    <3>2. met <=> n = m /\ StartsAt(w, s, 1)
      <4>1. from = {0}
        BY <2>1, <2>4
      <4>2. met <=> n = 0 + m /\ StartsAt(w, s, 0 + 1)
        <5>1. n \in ends <=> \E p \in from : n = p + m /\ StartsAt(w, s, p + 1)
          BY <2>2
        <5>2. met <=> n \in ends
          BY <2>4
        <5> HIDE DEF met, n
        <5> QED BY <4>1, <5>1, <5>2
      <4> QED BY <2>3, <4>2
    <3>3. n = m /\ StartsAt(w, s, 1) <=> w = s
      <4>1. StartsAt(w, s, 1) <=> m + 1 - 1 <= n /\ SubSeq(s, 1, 1 + m - 1) = w
        BY DEF StartsAt, m
      <4>2. m + 1 - 1 = m /\ 1 + m - 1 = m /\ SubSeq(s, 1, n) = s
        BY <1>1, <2>3, SubSeqFull
      <4>3. w = s => m = n
        BY DEF m
      <4> HIDE DEF n
      <4> QED BY <1>1, <2>3, <4>1, <4>2, <4>3
    <3> HIDE DEF met
    <3> QED BY <1>3, <3>1, <3>2, <3>3 DEF f
  <2>5. CASE anchored /\ ~right
    <3>1. FoundInUrl(f, s) <=> StartsAt(w, s, 1)
      BY <1>2, <1>9, <2>1, <2>5 DEF FoundInUrl
    <3>2. met <=> StartsAt(w, s, 1)
      <4>1. from = {0}
        BY <2>1, <2>5
      <4>2. met <=> StartsAt(w, s, 0 + 1)
        <5>1. ends # {} <=> \E p \in from : StartsAt(w, s, p + 1)
          BY <2>2
        <5>2. met <=> ends # {}
          BY <2>5
        <5> HIDE DEF met, n
        <5> QED BY <4>1, <5>1, <5>2
      <4> QED BY <4>2
    <3> HIDE DEF met
    <3> QED BY <1>3, <3>1, <3>2 DEF f
  <2>6. CASE ~anchored /\ right
    <3>1. FoundInUrl(f, s) <=> EndsWith(s, w)
      BY <1>2, <1>9, <2>1, <2>6 DEF FoundInUrl
    <3>2. met <=> \E p \in 0 .. n : n = p + m /\ StartsAt(w, s, p + 1)
      BY <2>1, <2>2, <2>6
    <3>3. EndsWith(s, w) <=> m <= n /\ SubSeq(s, n - m + 1, n) = w
      BY Zenon DEF EndsWith, From, m
    <3>4. ASSUME m <= n PROVE SubSeq(s, n - m + 1, n) = w <=> StartsAt(w, s, n - m + 1)
      <4> DEFINE p == n - m + 1
      <4>1. m + p - 1 <= n /\ p + m - 1 = n
        BY <1>1, <2>3, <3>4
      <4> HIDE DEF p, n
      <4>2. StartsAt(w, s, p) <=> SubSeq(s, p, n) = w
        BY <4>1 DEF StartsAt, n, m
      <4> QED BY <4>2 DEF p
    <3>5. \A p \in 0 .. n : n = p + m <=> m <= n /\ p = n - m
      BY <1>1, <2>3
    <3>6. m <= n => n - m \in 0 .. n
      BY <1>1, <2>3
    <3> HIDE DEF met, n
    <3>7. met <=> EndsWith(s, w)
      BY <3>2, <3>3, <3>4, <3>5, <3>6
    <3> QED BY <1>3, <3>1, <3>7 DEF f
  <2>7. CASE ~anchored /\ ~right
    <3>1. FoundInUrl(f, s) <=> Occurrences(w, s) # {}
      BY <1>2, <1>9, <2>1, <2>7 DEF FoundInUrl
    <3>2. met <=> \E p \in 0 .. n : StartsAt(w, s, p + 1)
      BY <2>1, <2>2, <2>7
    <3>3. \A i \in 1 .. n + 1 : i - 1 \in 0 .. n /\ (i - 1) + 1 = i
      BY <1>1
    <3>4. \A p \in 0 .. n : p + 1 \in 1 .. n + 1
      BY <1>1
    <3>5. Occurrences(w, s) # {} <=> \E i \in 1 .. n + 1 : StartsAt(w, s, i)
      BY DEF Occurrences
    <3> HIDE DEF met, n
    <3>6. met <=> Occurrences(w, s) # {}
      BY <3>2, <3>3, <3>4, <3>5
    <3> QED BY <1>3, <3>1, <3>6 DEF f
  <2> QED BY <2>4, <2>5, <2>6, <2>7
<1> QED BY <1>7, <1>8, <1>9

-----------------------------------------------------------------------------
(* The specification.                                                      *)

\* The filter is what parse made of a text.
PatternInv ==
  /\ \E t \in {x \in Text : Considered(x)}, left \in {"no", "|", "||"}, right \in BOOLEAN :
       filter = Parse(t, left, right)
  /\ url \in Url \cup {NoUrl}

LEMMA AlwaysParsed == PatternSpec => []PatternInv
<1>1. PatternInit => PatternInv
  BY DEF PatternInit, PatternInv
<1>2. PatternInv /\ [AskUrl]_<<filter, url>> => PatternInv'
  <2> SUFFICES ASSUME PatternInv, [AskUrl]_<<filter, url>> PROVE PatternInv'
    OBVIOUS
  <2>1. filter' = filter /\ url' \in Url \cup {NoUrl}
    BY DEF AskUrl, PatternInv
  <2> QED BY <2>1, Zenon DEF PatternInv
<1> QED BY <1>1, <1>2, PTL DEF PatternSpec

\* What the invariant says of a filter and a URL.
LEMMA ParsedIsShaped ==
  ASSUME TextsShaped, PatternInv
  PROVE  /\ Shaped(filter)
         /\ url # NoUrl => url \in Url /\ UrlText(url) \in Seq(Char)
<1>1. PICK t \in Text, left \in {"no", "|", "||"}, right \in BOOLEAN :
        Considered(t) /\ filter = Parse(t, left, right)
  BY DEF PatternInv
<1>2. t \in Seq(Sign) /\ Signs
  BY DEF TextsShaped, Signs
<1>3. Shaped(filter)
  BY <1>1, <1>2, ParseShaped
<1>4. ASSUME url # NoUrl PROVE url \in Url /\ UrlText(url) \in Seq(Char)
  <2>1. url \in Url
    BY <1>4 DEF PatternInv
  <2> QED BY <2>1, UrlSigns DEF TextsShaped
<1> QED BY <1>3, <1>4

\* A text is looked for with a regex when it has wildcards and only then,
\* whatever parse took off it (network.rs:612, 655-663, 722).
THEOREM TypeCorrect == ASSUME TextsShaped PROVE PatternSpec => []PatternsTypeOK
<1>1. PatternInv => PatternsTypeOK
  <2> SUFFICES ASSUME PatternInv PROVE PatternsTypeOK
    OBVIOUS
  <2>1. Shaped(filter)
    BY ParsedIsShaped
  <2> QED BY <2>1 DEF PatternInv, PatternsTypeOK, Shaped
<1> QED BY <1>1, AlwaysParsed, PTL

\* A filter is tried on every URL it is found in whichever of its sure tokens
\* it is filed under: those of its text stand in the URL between signs, where
\* its wildcards lead through it, and those of its hostname between the ends of
\* labels (network.rs:884-958).
THEOREM TokensAlwaysSound == ASSUME TextsShaped PROVE PatternSpec => []TokensSound
<1>1. PatternInv => TokensSound
  <2> SUFFICES ASSUME PatternInv, url # NoUrl, Found(filter, url), FullLabels(filter, url), Starless(url),
                      NEW token \in SureTokens(filter)
               PROVE  token \in UrlTokens(url)
    BY DEF TokensSound
  <2>1. Shaped(filter) /\ url \in Url /\ UrlText(url) \in Seq(Char) /\ Signs
    BY ParsedIsShaped DEF TextsShaped, Signs
  <2>2. CASE token \in HostTokens(filter)
    BY <2>1, <2>2, HostTokensSound
  <2>3. CASE token \notin HostTokens(filter)
    <3>1. PICK r \in TextRuns(filter) : (r[1] > 1 \/ filter.leftAnchor) /\ token = SubSeq(filter.text, r[1], r[2])
      BY <2>3 DEF SureTokens, TokensAt
    <3>2. PICK d : Framed(filter.text, r[1], r[2], UrlText(url), d)
      BY <2>1, <3>1, TextFramed
    <3>3. r \in Runs(filter.text) /\ r[1] < r[2]
      BY DEF TextRuns, Kept
    <3>4. filter.text \in Seq(Char)
      BY <2>1, SeqMonotonic DEF Shaped, Char
    <3>5. Places({"*"}, UrlText(url)) = {}
      BY DEF Starless
    <3>6. SubSeq(filter.text, r[1], r[2]) \in TokensAt(UrlText(url), Kept(UrlText(url), FALSE, FALSE))
      BY <2>1, <3>2, <3>3, <3>4, <3>5, FramedToken
    <3> QED BY <3>1, <3>6 DEF UrlTokens
  <2> QED BY <2>2, <2>3
<1> QED BY <1>1, AlwaysParsed, PTL

\* A filter without "||" is found exactly where its text, wildcards and all,
\* stands in the URL as its anchors say: taking off its stars and looking for
\* most texts without a regex loses nothing (network.rs:670-700,
\* network_matchers.rs:355-396).
THEOREM AlwaysFoundAsWritten == ASSUME TextsShaped PROVE PatternSpec => []FoundAsWritten
<1>1. PatternInv => FoundAsWritten
  <2> SUFFICES ASSUME PatternInv, url # NoUrl, ~filter.hostAnchor,
                      filter.right => filter.from[Len(filter.from)] # "*"
               PROVE  Found(filter, url) <=> AsWritten(filter, UrlText(url))
    BY DEF FoundAsWritten
  <2>1. PICK t \in Text, left \in {"no", "|", "||"}, right \in BOOLEAN :
          Considered(t) /\ filter = Parse(t, left, right)
    BY DEF PatternInv
  <2>2. t \in Seq(Sign) /\ Signs /\ UrlText(url) \in Seq(Char)
    BY ParsedIsShaped DEF TextsShaped, Signs
  <2>3. left \in {"no", "|"} /\ filter.from = t /\ filter.right = right
    BY <2>1 DEF Parse
  <2>4. Found(filter, url) <=> FoundInUrl(filter, UrlText(url))
    BY DEF Found
  <2>5. right => t[Len(t)] # "*"
    BY <2>3
  <2> QED BY <2>1, <2>2, <2>3, <2>4, <2>5, PlainFound
<1> QED BY <1>1, AlwaysParsed, PTL
===============================================================================
