------------------------- MODULE FilterSetProofs -----------------------------
(***************************************************************************)
(* What the mask of a parsed rule means, whatever options the text has and *)
(* however many: the mask is followed option by option.  What the head of  *)
(* a list says of it, line by line, and what the rules it is exported as   *)
(* decide.                                                                 *)
(***************************************************************************)
EXTENDS OptionTexts, FilterSet, FiniteSetTheorems, SequenceTheorems, WellFoundedInduction, TLAPS

\* A set of numbers has a least element.
LEMMA NatMin == ASSUME NEW T \in SUBSET Nat, T # {} PROVE \E m \in T : \A k \in T : m <= k
<1> DEFINE R == OpToRel(<, Nat)
<1>1. IsWellFoundedOn(R, Nat)
  BY NatLessThanWellFounded
<1>2. \A x, y \in Nat : x < y => <<x, y>> \in R
  BY DEF OpToRel
<1> HIDE DEF R
<1>3. PICK m \in T : \A k \in T : <<k, m>> \notin R
  BY <1>1, WFMin, T # {}, T \subseteq Nat
<1>4. \A k \in T : ~(k < m)
  BY <1>2, <1>3
<1> QED BY <1>3, <1>4

\* What holds at first and stays true from one number to the next.
LEMMA StepByStep ==
  ASSUME NEW N \in Nat, NEW T, 0 \in T, \A n \in 0 .. N - 1 : n \in T => n + 1 \in T
  PROVE  \A n \in 0 .. N : n \in T
<1> DEFINE U == {n \in 0 .. N : n \notin T}
<1> SUFFICES ASSUME U # {} PROVE FALSE
  OBVIOUS
<1>1. PICK m \in U : \A k \in U : m <= k
  <2>1. U \in SUBSET Nat
    OBVIOUS
  <2> HIDE DEF U
  <2> QED BY <2>1, NatMin
<1>2. m # 0 /\ m - 1 \in 0 .. N - 1
  BY <1>1
<1>3. m - 1 \in T
  BY <1>1, <1>2
<1> QED BY <1>1, <1>2, <1>3

\* g holds the states that the first n options of t lead to, up to m.
Chain(t, g, m) ==
  g = [n \in 0 .. m |-> IF n = 0 THEN NoOptions(t.exception) ELSE Applied(g[n - 1], t.options[n])]

LEMMA ChainExists ==
  ASSUME NEW t, NEW N \in Nat
  PROVE  \E g : Chain(t, g, N)
<1> DEFINE T == {m \in 0 .. N : ~\E g : Chain(t, g, m)}
<1>1. SUFFICES T = {}
  OBVIOUS
<1>2. SUFFICES ASSUME NEW m \in T, \A k \in T : m <= k PROVE FALSE
  <2>1. T \in SUBSET Nat
    OBVIOUS
  <2> HIDE DEF T
  <2> QED BY <2>1, NatMin
<1>3. CASE m = 0
  <2>1. Chain(t, [n \in 0 .. 0 |-> NoOptions(t.exception)], 0)
    BY DEF Chain
  <2> QED BY <1>3, <2>1
<1>4. CASE m # 0
  <2>1. PICK h : Chain(t, h, m - 1)
    BY <1>2, <1>4
  <2> DEFINE g == [n \in 0 .. m |-> IF n = m THEN Applied(h[m - 1], t.options[m]) ELSE h[n]]
  <2>2. \A n \in 0 .. m - 1 : g[n] = h[n] /\ h[n] = IF n = 0 THEN NoOptions(t.exception) ELSE Applied(h[n - 1], t.options[n])
    BY <1>4, <2>1 DEF Chain
  <2>3. g[m] = Applied(g[m - 1], t.options[m])
    BY <1>4
  <2>4. \A n \in 0 .. m : g[n] = IF n = 0 THEN NoOptions(t.exception) ELSE Applied(g[n - 1], t.options[n])
    BY <1>4, <2>2, <2>3
  <2>5. Chain(t, g, m)
    <3>1. g = [n \in 0 .. m |-> g[n]]
      OBVIOUS
    <3> HIDE DEF g
    <3> QED BY <2>4, <3>1 DEF Chain
  <2> QED BY <2>5
<1> QED BY <1>3, <1>4

\* AppliedUpTo is the last of these states.
LEMMA AppliedChain ==
  ASSUME NEW t, Len(t.options) \in Nat
  PROVE  \E g : Chain(t, g, Len(t.options)) /\ AppliedUpTo(t) = g[Len(t.options)]
<1> DEFINE g == CHOOSE g : Chain(t, g, Len(t.options))
<1>1. Chain(t, g, Len(t.options))
  BY ChainExists
<1>2. AppliedUpTo(t) = g[Len(t.options)]
  BY Zenon DEF AppliedUpTo, Chain
<1> QED BY <1>1, <1>2

(***************************************************************************)
(* What the options of a rule, as a set, leave in the parser's state.      *)
(***************************************************************************)

ListNames(o, sign) == {d.name : d \in {e \in Supported(o) : e.on = sign}}
IsList(o, sign)    == o.name = "domain" /\ ListNames(o, sign) # {}
ValueOf(o)         == IF o.value = NoValue THEN None ELSE o.value

\* s is a state after the options G of a rule: every flag, type and value in
\* it comes from an option, and a value that only one option gives is there.
Reflects(s, exception, G) ==
  /\ s = [mask |-> s.mask, positive |-> s.positive, negative |-> s.negative, domains |-> s.domains,
          notDomains |-> s.notDomains, modifier |-> s.modifier, tag |-> s.tag]
  /\ \A x : x \in s.mask <=> /\ x \in NoOptions(exception).mask \/ \E o \in G : x \in Sets(o)
                             /\ \A o \in G : x \notin Clears(o)
  /\ \A x : x \in s.positive <=> \E o \in G : o.on /\ x \in Types(o)
  /\ \A x : x \in s.negative <=> \E o \in G : ~o.on /\ x \in Types(o)
  /\ (\A o \in G : ~IsList(o, TRUE)) => s.domains = None
  /\ \A o \in G : IsList(o, TRUE) /\ (\A p \in G : IsList(p, TRUE) => p = o)
                    => s.domains = ListNames(o, TRUE)
  /\ (\A o \in G : ~IsList(o, FALSE)) => s.notDomains = None
  /\ \A o \in G : IsList(o, FALSE) /\ (\A p \in G : IsList(p, FALSE) => p = o)
                    => s.notDomains = ListNames(o, FALSE)
  /\ (\A o \in G : o.name \notin Single) => s.modifier = None
  /\ \A o \in G : o.name \in Single /\ (\A p \in G : p.name \in Single => p = o)
                    => s.modifier = ValueOf(o)
  /\ (\A o \in G : o.name # "tag") => s.tag = None
  /\ \A o \in G : o.name = "tag" /\ (\A p \in G : p.name = "tag" => p = o) => s.tag = o.value

\* No option clears a flag that another one sets: the parties are there from
\* the start.
LEMMA SetNotCleared == \A o, p, x : ~(x \in Sets(o) /\ x \in Clears(p))
<1> SUFFICES ASSUME NEW o, NEW p, NEW x, x \in Sets(o), x \in Clears(p) PROVE FALSE
  OBVIOUS
<1>1. x \in {"firstParty", "thirdParty"}
  BY DEF Clears
<1>2. x \notin {"firstParty", "thirdParty"}
  BY DEF Sets
<1> QED BY <1>1, <1>2

LEMMA ReflectsNone == ASSUME NEW exception PROVE Reflects(NoOptions(exception), exception, {})
BY DEF Reflects, NoOptions

\* One more option.
LEMMA ReflectsApplied ==
  ASSUME NEW s, NEW exception, NEW G, NEW o, Reflects(s, exception, G)
  PROVE  Reflects(Applied(s, o), exception, G \cup {o})
<1> DEFINE a == Applied(s, o)
           H == G \cup {o}
<1>1. a = [mask |-> a.mask, positive |-> a.positive, negative |-> a.negative, domains |-> a.domains,
           notDomains |-> a.notDomains, modifier |-> a.modifier, tag |-> a.tag]
  BY DEF Applied
<1>2. /\ a.mask = (s.mask \cup Sets(o)) \ Clears(o)
      /\ a.positive = s.positive \cup (IF o.on THEN Types(o) ELSE {})
      /\ a.negative = s.negative \cup (IF o.on THEN {} ELSE Types(o))
      /\ a.domains = IF IsList(o, TRUE) THEN ListNames(o, TRUE) ELSE s.domains
      /\ a.notDomains = IF IsList(o, FALSE) THEN ListNames(o, FALSE) ELSE s.notDomains
      /\ a.modifier = IF o.name \in Single THEN ValueOf(o) ELSE s.modifier
      /\ a.tag = IF o.name = "tag" THEN o.value ELSE s.tag
  <2>1. \A sign, earlier : ListOf(o, sign, earlier) = IF IsList(o, sign) THEN ListNames(o, sign) ELSE earlier
    BY DEF ListOf, IsList, ListNames
  <2> QED BY <2>1 DEF Applied, ValueOf
<1> HIDE DEF a
<1>3. \A x : x \in a.mask <=> /\ x \in NoOptions(exception).mask \/ \E p \in H : x \in Sets(p)
                              /\ \A p \in H : x \notin Clears(p)
  BY <1>2, SetNotCleared DEF Reflects
<1>4. \A x : x \in a.positive <=> \E p \in H : p.on /\ x \in Types(p)
  BY <1>2 DEF Reflects
<1>5. \A x : x \in a.negative <=> \E p \in H : ~p.on /\ x \in Types(p)
  BY <1>2 DEF Reflects
<1>6. /\ (\A p \in H : ~IsList(p, TRUE)) => a.domains = None
      /\ \A p \in H : IsList(p, TRUE) /\ (\A q \in H : IsList(q, TRUE) => q = p)
                        => a.domains = ListNames(p, TRUE)
  BY <1>2 DEF Reflects
<1>7. /\ (\A p \in H : ~IsList(p, FALSE)) => a.notDomains = None
      /\ \A p \in H : IsList(p, FALSE) /\ (\A q \in H : IsList(q, FALSE) => q = p)
                        => a.notDomains = ListNames(p, FALSE)
  BY <1>2 DEF Reflects
<1>8. /\ (\A p \in H : p.name \notin Single) => a.modifier = None
      /\ \A p \in H : p.name \in Single /\ (\A q \in H : q.name \in Single => q = p)
                        => a.modifier = ValueOf(p)
  BY <1>2 DEF Reflects
<1>9. /\ (\A p \in H : p.name # "tag") => a.tag = None
      /\ \A p \in H : p.name = "tag" /\ (\A q \in H : q.name = "tag" => q = p) => a.tag = p.value
  BY <1>2 DEF Reflects
<1> QED BY <1>1, <1>3, <1>4, <1>5, <1>6, <1>7, <1>8, <1>9, Zenon DEF Reflects, a, H

\* The parser's state after all options of a text.
LEMMA AppliedReflects ==
  ASSUME NEW t, NEW S, t.options \in Seq(S)
  PROVE  Reflects(AppliedUpTo(t), t.exception, Given(t))
<1> DEFINE N == Len(t.options)
           Up(n) == {t.options[i] : i \in 1 .. n}
<1>1. N \in Nat /\ DOMAIN t.options = 1 .. N
  OBVIOUS
<1>2. PICK g : Chain(t, g, N) /\ AppliedUpTo(t) = g[N]
  BY <1>1, AppliedChain
<1>3. \A n \in 0 .. N : g[n] = IF n = 0 THEN NoOptions(t.exception) ELSE Applied(g[n - 1], t.options[n])
  BY <1>2 DEF Chain
<1>u. /\ Up(0) = {} /\ Up(N) = Given(t)
      /\ \A m \in 1 .. N : Up(m) = Up(m - 1) \cup {t.options[m]}
  <2>1. \A m \in 1 .. N : 1 .. m = 1 .. (m - 1) \cup {m}
    BY <1>1
  <2>2. 1 .. 0 = {}
    OBVIOUS
  <2>3. Up(N) = Given(t)
    BY <1>1 DEF Given
  <2> QED BY <2>1, <2>2, <2>3
<1> HIDE DEF Up
<1> DEFINE T == {n \in 0 .. N : ~Reflects(g[n], t.exception, Up(n))}
<1>4. T = {}
  <2>1. SUFFICES ASSUME NEW m \in T, \A k \in T : m <= k PROVE FALSE
    <3>1. T \in SUBSET Nat
      BY <1>1
    <3> HIDE DEF T
    <3> QED BY <3>1, NatMin
  <2>2. m \in 0 .. N /\ ~Reflects(g[m], t.exception, Up(m))
    OBVIOUS
  <2>3. CASE m = 0
    <3>1. g[m] = NoOptions(t.exception)
      BY <1>3, <2>2, <2>3
    <3> QED BY <1>u, <2>2, <2>3, <3>1, ReflectsNone
  <2>4. CASE m # 0
    <3>1. m - 1 \in 0 .. N /\ m - 1 < m /\ m \in 1 .. N
      BY <1>1, <2>2, <2>4
    <3>2. m - 1 \notin T
      <4> HIDE DEF T
      <4> QED BY <2>1, <3>1
    <3>3. Reflects(g[m - 1], t.exception, Up(m - 1))
      BY <3>1, <3>2
    <3>4. g[m] = Applied(g[m - 1], t.options[m])
      BY <1>3, <2>2, <2>4
    <3> HIDE DEF T
    <3> QED BY <1>u, <2>2, <3>1, <3>3, <3>4, ReflectsApplied
  <2> QED BY <2>3, <2>4
<1>5. Reflects(g[N], t.exception, Up(N))
  <2>1. N \in 0 .. N
    BY <1>1
  <2> QED BY <1>4, <2>1
<1> HIDE DEF T
<1> QED BY <1>2, <1>5, <1>u

(***************************************************************************)
(* How often an option is given.                                           *)
(***************************************************************************)

\* Given at all, and given once.
LEMMA CountFacts ==
  ASSUME NEW S, NEW options \in Seq(S), NEW names
  PROVE  /\ Count(options, names) \in Nat
         /\ Count(options, names) > 0 <=> \E i \in DOMAIN options : options[i].name \in names
         /\ Count(options, names) <= 1 <=>
              \A i, j \in DOMAIN options :
                options[i].name \in names /\ options[j].name \in names => i = j
<1> DEFINE I == {i \in DOMAIN options : options[i].name \in names}
<1>1. IsFiniteSet(I)
  <2>1. DOMAIN options = 1 .. Len(options) /\ Len(options) \in Int
    OBVIOUS
  <2>2. IsFiniteSet(DOMAIN options)
    BY <2>1, FS_Interval
  <2> QED BY <2>2, FS_Subset
<1>2. Cardinality(I) \in Nat
  BY <1>1, FS_CardinalityType
<1>3. Cardinality(I) = 0 <=> I = {}
  BY <1>1, FS_EmptySet
<1>4. Cardinality(I) = 1 <=> \E x : I = {x}
  BY <1>1, FS_Singleton
<1>5. (Cardinality(I) <= 1) <=> \A i, j \in I : i = j
  <2> HIDE DEF I
  <2>1. (Cardinality(I) <= 1) <=> (Cardinality(I) = 0 \/ Cardinality(I) = 1)
    BY <1>2
  <2>2. (I = {} \/ \E x : I = {x}) <=> \A i, j \in I : i = j
    <3>1. ASSUME \A i, j \in I : i = j, I # {} PROVE \E x : I = {x}
      <4>1. PICK x \in I : TRUE
        BY <3>1
      <4>2. I = {x}
        BY <3>1, <4>1
      <4> QED BY <4>2
    <3> QED BY <3>1
  <2> QED BY <1>3, <1>4, <2>1, <2>2
<1>6. Cardinality(I) > 0 <=> I # {}
  BY <1>2, <1>3
<1>7. Count(options, names) = Cardinality(I)
  BY DEF Count
<1> QED BY <1>2, <1>5, <1>6, <1>7

\* The options of two rules that are given by each other's positions, without
\* repeating one, are given as often.
LEMMA SameCounts ==
  ASSUME NEW p \in Seq(Option), NEW q \in Seq(Option), DOMAIN p = DOMAIN q,
         NEW f \in [DOMAIN p -> DOMAIN p],
         \A k \in DOMAIN p : f[f[k]] = k /\ q[k] = p[f[k]]
  PROVE  \A names : /\ Count(q, names) > 0 <=> Count(p, names) > 0
                    /\ Count(q, names) <= 1 <=> Count(p, names) <= 1
<1> SUFFICES ASSUME NEW names
             PROVE  /\ Count(q, names) > 0 <=> Count(p, names) > 0
                    /\ Count(q, names) <= 1 <=> Count(p, names) <= 1
  OBVIOUS
<1>1. \A k \in DOMAIN p : f[k] \in DOMAIN p /\ p[k] = q[f[k]]
  OBVIOUS
<1>2. (\E k \in DOMAIN p : p[k].name \in names) <=> (\E k \in DOMAIN q : q[k].name \in names)
  BY <1>1
<1>3. (\A k, l \in DOMAIN p : p[k].name \in names /\ p[l].name \in names => k = l)
        <=> (\A k, l \in DOMAIN q : q[k].name \in names /\ q[l].name \in names => k = l)
  BY <1>1
<1> QED BY <1>2, <1>3, CountFacts

(***************************************************************************)
(* The order of options.                                                   *)
(***************************************************************************)

Text == [exception : BOOLEAN, shape : {"host", "host|", "pattern", "regex"}, options : Seq(Option)]

\* Two states that reflect the same options differ at most in the values that
\* several of the options give.
LEMMA Determined ==
  ASSUME NEW s, NEW u, NEW exception, NEW G,
         Reflects(s, exception, G), Reflects(u, exception, G)
  PROVE  /\ s.mask = u.mask
         /\ /\ \A o, p \in G : o.name = "domain" /\ p.name = "domain" => o = p
            /\ \A o, p \in G : o.name = "tag" /\ p.name = "tag" => o = p
            /\ \A o, p \in G : o.name \in Single /\ p.name \in Single => o = p
            => s = u
<1>1. s.mask = u.mask /\ s.positive = u.positive /\ s.negative = u.negative
  BY DEF Reflects
<1>2. ASSUME /\ \A o, p \in G : o.name = "domain" /\ p.name = "domain" => o = p
             /\ \A o, p \in G : o.name = "tag" /\ p.name = "tag" => o = p
             /\ \A o, p \in G : o.name \in Single /\ p.name \in Single => o = p
      PROVE  s = u
  <2>1. s.domains = u.domains
    BY <1>2 DEF Reflects, IsList
  <2>2. s.notDomains = u.notDomains
    BY <1>2 DEF Reflects, IsList
  <2>3. s.modifier = u.modifier
    BY <1>2 DEF Reflects
  <2>4. s.tag = u.tag
    BY <1>2 DEF Reflects
  <2> QED BY <1>1, <2>1, <2>2, <2>3, <2>4 DEF Reflects
<1> QED BY <1>1, <1>2

\* Given at most once, an option is the only one of its name.
LEMMA OnceGiven ==
  ASSUME NEW t \in Text, NEW names, Count(t.options, names) <= 1
  PROVE  \A o, p \in Given(t) : o.name \in names /\ p.name \in names => o = p
<1>1. t.options \in Seq(Option)
  BY DEF Text
<1> QED BY <1>1, CountFacts DEF Given

\* Two options of a rule change places: the parser accepts it as before and
\* compiles the same filter.
LEMMA SwapAgrees ==
  ASSUME NEW t \in Text, NEW i \in DOMAIN t.options, NEW j \in DOMAIN t.options,
         Once(t, "domain"), Once(t, "tag")
  PROVE  LET swapped == [t EXCEPT !.options[i] = t.options[j], !.options[j] = t.options[i]]
         IN  /\ RefusedText(swapped) = RefusedText(t)
             /\ ~RefusedText(t) => NetworkFilter(swapped) = NetworkFilter(t)
<1> DEFINE swapped == [t EXCEPT !.options[i] = t.options[j], !.options[j] = t.options[i]]
           p == t.options
           q == [[p EXCEPT ![i] = p[j]] EXCEPT ![j] = p[i]]
           f == [k \in DOMAIN p |-> IF k = i THEN j ELSE IF k = j THEN i ELSE k]
<1>1. p \in Seq(Option) /\ DOMAIN p = 1 .. Len(p)
  BY DEF Text
<1>2. q \in Seq(Option) /\ DOMAIN q = DOMAIN p /\ \A k \in DOMAIN p : q[k] = p[f[k]]
  <2>1. p[i] \in Option /\ p[j] \in Option
    BY <1>1, ElementOfSeq
  <2>2. [p EXCEPT ![i] = p[j]] \in Seq(Option) /\ Len([p EXCEPT ![i] = p[j]]) = Len(p)
    BY <1>1, <2>1, ExceptSeq
  <2>3. q \in Seq(Option)
    BY <1>1, <2>1, <2>2, ExceptSeq
  <2>4. DOMAIN q = DOMAIN p
    OBVIOUS
  <2> QED BY <2>3, <2>4
<1>3. swapped.exception = t.exception /\ swapped.shape = t.shape /\ swapped.options = q
  BY DEF Text
<1>4. f \in [DOMAIN p -> DOMAIN p] /\ \A k \in DOMAIN p : f[f[k]] = k
  OBVIOUS
<1> HIDE DEF f, q, swapped, p
<1>5. \A names : /\ Count(q, names) > 0 <=> Count(p, names) > 0
                 /\ Count(q, names) <= 1 <=> Count(p, names) <= 1
  BY <1>1, <1>2, <1>4, SameCounts
<1>6. \A names : Count(q, names) \in Nat /\ Count(p, names) \in Nat
  BY <1>1, <1>2, CountFacts
<1>7. Given(swapped) = Given(t)
  <2>1. \A k \in DOMAIN p : f[k] \in DOMAIN p /\ p[k] = q[f[k]]
    BY <1>2, <1>4
  <2>2. {q[k] : k \in DOMAIN p} = {p[k] : k \in DOMAIN p}
    BY <1>2, <1>4, <2>1
  <2> QED BY <1>2, <1>3, <2>2 DEF Given, p
<1>8. /\ Reflects(AppliedUpTo(t), t.exception, Given(t))
      /\ Reflects(AppliedUpTo(swapped), t.exception, Given(t))
  BY <1>1, <1>2, <1>3, <1>7, AppliedReflects DEF p
<1>9. AppliedUpTo(t).mask = AppliedUpTo(swapped).mask
  BY <1>8, Determined
<1>10. RefusedText(swapped) <=> RefusedText(t)
  <2>1. (\E k \in DOMAIN p : OptionError(p[k])) <=> (\E k \in DOMAIN q : OptionError(q[k]))
    <3>1. \A k \in DOMAIN p : f[k] \in DOMAIN p /\ p[k] = q[f[k]]
      BY <1>2, <1>4
    <3> QED BY <1>2, <3>1
  <2>2. InvalidTogether(q) <=> InvalidTogether(p)
    BY <1>5, <1>6 DEF InvalidTogether
  <2>3. RefusedAtEnd(AppliedUpTo(swapped), swapped) <=> RefusedAtEnd(AppliedUpTo(t), t)
    BY <1>3, <1>9 DEF RefusedAtEnd
  <2> QED BY <1>3, <2>1, <2>2, <2>3 DEF RefusedText, p
<1>11. ASSUME ~RefusedText(t) PROVE NetworkFilter(swapped) = NetworkFilter(t)
  <2>1. Count(t.options, Single) <= 1
    BY <1>6, <1>11 DEF RefusedText, InvalidTogether, p
  <2>2. /\ \A o, u \in Given(t) : o.name = "domain" /\ u.name = "domain" => o = u
        /\ \A o, u \in Given(t) : o.name = "tag" /\ u.name = "tag" => o = u
        /\ \A o, u \in Given(t) : o.name \in Single /\ u.name \in Single => o = u
    BY <2>1, OnceGiven DEF Once
  <2>3. AppliedUpTo(swapped) = AppliedUpTo(t)
    BY <1>8, <2>2, Determined
  <2> QED BY <1>3, <2>3 DEF NetworkFilter
<1>12. RefusedText(swapped) \in BOOLEAN /\ RefusedText(t) \in BOOLEAN
  BY DEF RefusedText
<1> QED BY <1>10, <1>11, <1>12 DEF swapped

(***************************************************************************)
(* A rule and its $badfilter.                                              *)
(***************************************************************************)

\* The state without the flag.
NotBad(s) == [mask |-> s.mask \ {"bad"}, positive |-> s.positive, negative |-> s.negative,
              domains |-> s.domains, notDomains |-> s.notDomains, modifier |-> s.modifier,
              tag |-> s.tag]

\* Only badfilter sets the flag, and it sets nothing else.
LEMMA BadFacts ==
  ASSUME NEW s, NEW o
  PROVE  /\ o.name # "badfilter" => /\ Applied(NotBad(s), o) = NotBad(Applied(s, o))
                                    /\ "bad" \notin s.mask => "bad" \notin Applied(s, o).mask
         /\ o.name = "badfilter" /\ "bad" \notin s.mask => NotBad(Applied(s, o)) = NotBad(s)
         /\ NotBad(NotBad(s)) = NotBad(s)
<1>1. \A x : (x = "bad") => ~(x \in Clears(o)) /\ (x \in Sets(o) <=> o.name = "badfilter")
  BY DEF Clears, Sets
<1>2. CASE o.name # "badfilter"
  <2>1. ((s.mask \ {"bad"}) \cup Sets(o)) \ Clears(o) = ((s.mask \cup Sets(o)) \ Clears(o)) \ {"bad"}
    BY <1>1, <1>2
  <2>2. Applied(NotBad(s), o) = NotBad(Applied(s, o))
    BY <2>1 DEF Applied, NotBad
  <2>3. "bad" \notin s.mask => "bad" \notin Applied(s, o).mask
    BY <1>1, <1>2 DEF Applied
  <2>4. NotBad(NotBad(s)) = NotBad(s)
    BY DEF NotBad
  <2> QED BY <1>2, <2>2, <2>3, <2>4
<1>3. CASE o.name = "badfilter"
  <2>1. Sets(o) = {"bad"} /\ Clears(o) = {} /\ Types(o) = {}
    BY <1>3 DEF Sets, Clears, Types, AllType, NetworkType
  <2>2. /\ Applied(s, o).mask = s.mask \cup {"bad"}
        /\ Applied(s, o).positive = s.positive /\ Applied(s, o).negative = s.negative
        /\ Applied(s, o).domains = s.domains /\ Applied(s, o).notDomains = s.notDomains
        /\ Applied(s, o).modifier = s.modifier /\ Applied(s, o).tag = s.tag
    <3>1. o.name # "domain" /\ o.name # "tag" /\ o.name \notin Single
      BY <1>3 DEF Single
    <3> QED BY <2>1, <3>1 DEF Applied, ListOf
  <2>3. (s.mask \cup {"bad"}) \ {"bad"} = s.mask \ {"bad"}
    OBVIOUS
  <2>4. NotBad(Applied(s, o)) = NotBad(s)
    BY <2>2, <2>3 DEF NotBad
  <2>5. NotBad(NotBad(s)) = NotBad(s)
    BY DEF NotBad
  <2> QED BY <1>3, <2>4, <2>5
<1> QED BY <1>2, <1>3

\* The options of the twin, by position.
LEMMA RemovedFacts ==
  ASSUME NEW p \in Seq(Option), NEW i \in DOMAIN p
  PROVE  /\ RemoveAt(p, i) \in Seq(Option)
         /\ Len(RemoveAt(p, i)) = Len(p) - 1
         /\ \A k \in 1 .. Len(p) - 1 : RemoveAt(p, i)[k] = IF k < i THEN p[k] ELSE p[k + 1]
<1> DEFINE a == SubSeq(p, 1, i - 1)
           b == SubSeq(p, i + 1, Len(p))
<1>1. Len(p) \in Nat /\ i \in 1 .. Len(p) /\ i \in Nat /\ \A k \in 1 .. Len(p) : p[k] \in Option
  BY ElementOfSeq
<1>2. a \in Seq(Option) /\ Len(a) = i - 1 /\ \A k \in 1 .. i - 1 : a[k] = p[k]
  <2>1. \A k \in 1 .. i - 1 : p[k] \in Option
    BY <1>1
  <2>2. /\ a \in Seq(Option) /\ Len(a) = IF 1 <= i - 1 THEN (i - 1) - 1 + 1 ELSE 0
        /\ \A k \in 1 .. (i - 1) - 1 + 1 : a[k] = p[1 + k - 1]
    BY <1>1, <2>1, SubSeqProperties
  <2> HIDE DEF a
  <2> QED BY <1>1, <2>2
<1>3. b \in Seq(Option) /\ Len(b) = Len(p) - i /\ \A k \in 1 .. Len(p) - i : b[k] = p[i + k]
  <2>1. \A k \in i + 1 .. Len(p) : p[k] \in Option
    BY <1>1
  <2>2. /\ b \in Seq(Option) /\ Len(b) = IF i + 1 <= Len(p) THEN Len(p) - (i + 1) + 1 ELSE 0
        /\ \A k \in 1 .. Len(p) - (i + 1) + 1 : b[k] = p[(i + 1) + k - 1]
    BY <1>1, <2>1, SubSeqProperties
  <2> HIDE DEF b
  <2> QED BY <1>1, <2>2
<1>4. RemoveAt(p, i) = a \o b
  BY DEF RemoveAt
<1> HIDE DEF a, b
<1>5. /\ a \o b \in Seq(Option) /\ Len(a \o b) = Len(p) - 1
      /\ \A k \in 1 .. Len(p) - 1 : (a \o b)[k] = IF k <= i - 1 THEN a[k] ELSE b[k - (i - 1)]
  <2>1. /\ a \o b \in Seq(Option) /\ Len(a \o b) = Len(a) + Len(b)
        /\ \A k \in 1 .. Len(a) + Len(b) : (a \o b)[k] = IF k <= Len(a) THEN a[k] ELSE b[k - Len(a)]
    BY <1>2, <1>3, ConcatProperties
  <2>2. Len(a) + Len(b) = Len(p) - 1
    BY <1>1, <1>2, <1>3
  <2> QED BY <1>2, <2>1, <2>2
<1>6. ASSUME NEW k \in 1 .. Len(p) - 1
      PROVE  (a \o b)[k] = IF k < i THEN p[k] ELSE p[k + 1]
  <2>1. CASE k < i
    BY <1>1, <1>2, <1>5, <2>1
  <2>2. CASE ~(k < i)
    <3>1. k - (i - 1) \in 1 .. Len(p) - i /\ i + (k - (i - 1)) = k + 1 /\ ~(k <= i - 1)
      BY <1>1, <2>2
    <3> QED BY <1>3, <1>5, <2>2, <3>1
  <2> QED BY <2>1, <2>2
<1> QED BY <1>4, <1>5, <1>6

\* Parsing the twin leads to the same state but for the flag.
LEMMA TwinState ==
  ASSUME NEW t \in Text, NEW i \in DOMAIN t.options, t.options[i].name = "badfilter",
         \A k \in DOMAIN t.options : t.options[k].name = "badfilter" => k = i,
         NEW twin, twin.options = RemoveAt(t.options, i), twin.exception = t.exception
  PROVE  AppliedUpTo(twin) = NotBad(AppliedUpTo(t))
<1> DEFINE p == t.options
           q == twin.options
           N == Len(p)
<1>1. p \in Seq(Option) /\ N \in Nat /\ DOMAIN p = 1 .. N /\ i \in 1 .. N /\ i \in Nat
  BY DEF Text
<1>2. /\ q \in Seq(Option) /\ Len(q) = N - 1
      /\ \A k \in 1 .. N - 1 : q[k] = IF k < i THEN p[k] ELSE p[k + 1]
  <2>1. q = RemoveAt(p, i) /\ i \in DOMAIN p
    OBVIOUS
  <2> HIDE DEF p, q, N
  <2>2. /\ RemoveAt(p, i) \in Seq(Option) /\ Len(RemoveAt(p, i)) = Len(p) - 1
        /\ \A k \in 1 .. Len(p) - 1 : RemoveAt(p, i)[k] = IF k < i THEN p[k] ELSE p[k + 1]
    BY <1>1, <2>1, RemovedFacts
  <2> QED BY <2>1, <2>2 DEF N
<1>3. PICK g : Chain(t, g, N) /\ AppliedUpTo(t) = g[N]
  BY <1>1, AppliedChain
<1>4. PICK h : Chain(twin, h, N - 1) /\ AppliedUpTo(twin) = h[N - 1]
  <2>1. N - 1 \in Nat
    BY <1>1
  <2> QED BY <1>2, <2>1, AppliedChain
<1>5. /\ g[0] = NoOptions(t.exception) /\ h[0] = NoOptions(t.exception)
      /\ \A n \in 1 .. N : g[n] = Applied(g[n - 1], p[n])
      /\ \A n \in 1 .. N - 1 : h[n] = Applied(h[n - 1], q[n])
  <2> HIDE DEF p, q, N
  <2>1. \A n \in 0 .. N : g[n] = IF n = 0 THEN NoOptions(t.exception) ELSE Applied(g[n - 1], p[n])
    BY <1>3 DEF Chain, p
  <2>2. \A n \in 0 .. N - 1 : h[n] = IF n = 0 THEN NoOptions(t.exception) ELSE Applied(h[n - 1], q[n])
    BY <1>4 DEF Chain, q
  <2>3. 0 \in 0 .. N /\ 0 \in 0 .. N - 1
    BY <1>1
  <2>4. g[0] = NoOptions(t.exception) /\ h[0] = NoOptions(t.exception)
    BY <2>1, <2>2, <2>3
  <2>5. \A n \in 1 .. N : g[n] = Applied(g[n - 1], p[n])
    BY <1>1, <2>1
  <2>6. \A n \in 1 .. N - 1 : h[n] = Applied(h[n - 1], q[n])
    BY <1>1, <2>2
  <2> QED BY <2>4, <2>5, <2>6
<1>6. p[i].name = "badfilter" /\ \A k \in 1 .. N : k # i => p[k].name # "badfilter"
  <2>1. p[i].name = "badfilter" /\ \A k \in DOMAIN p : p[k].name = "badfilter" => k = i
    OBVIOUS
  <2>2. DOMAIN p = 1 .. N
    BY <1>1
  <2> HIDE DEF p, q, N
  <2> QED BY <2>1, <2>2, Zenon
<1> HIDE DEF p, q, N
<1> DEFINE Same(n) == /\ n < i => h[n] = g[n] /\ "bad" \notin g[n].mask /\ NotBad(g[n]) = g[n]
                      /\ n >= i - 1 => h[n] = NotBad(g[n + 1])
           T == {n \in 0 .. N - 1 : ~Same(n)}
<1>i. ASSUME NEW n \in 0 .. N - 1, n < i, h[n] = g[n], "bad" \notin g[n].mask, NotBad(g[n]) = g[n]
      PROVE  Same(n)
  <2>1. CASE n = i - 1
    <3>1. g[n + 1] = Applied(g[n], p[i]) /\ n + 1 = i
      BY <1>1, <1>5, <2>1
    <3>2. NotBad(g[n + 1]) = g[n]
      BY <1>6, <1>i, <3>1, BadFacts
    <3> QED BY <1>i, <3>2
  <2>2. CASE n # i - 1
    BY <1>1, <1>i, <2>2
  <2> QED BY <2>1, <2>2
<1>7. Same(0)
  <2>1. "bad" \notin g[0].mask
    BY <1>5 DEF NoOptions
  <2>2. NotBad(g[0]) = g[0]
    <3>1. g[0].mask \ {"bad"} = g[0].mask
      BY <2>1
    <3> QED BY <1>5, <3>1 DEF NotBad, NoOptions
  <2>3. 0 \in 0 .. N - 1 /\ 0 < i
    BY <1>1
  <2> QED BY <1>5, <1>i, <2>1, <2>2, <2>3
<1>8. ASSUME NEW n \in 1 .. N - 1, Same(n - 1) PROVE Same(n)
  <2>1. n \in 0 .. N - 1 /\ n \in 1 .. N /\ n + 1 \in 1 .. N /\ n - 1 + 1 = n /\ n + 1 - 1 = n
    BY <1>1
  <2>2. CASE n < i
    <3>1. q[n] = p[n] /\ n # i /\ n - 1 < i
      BY <1>1, <1>2, <2>1, <2>2 DEF N, p, q
    <3>2. h[n - 1] = g[n - 1] /\ "bad" \notin g[n - 1].mask /\ NotBad(g[n - 1]) = g[n - 1]
      BY <1>8, <3>1
    <3>3. h[n] = g[n] /\ g[n] = Applied(g[n - 1], p[n]) /\ p[n].name # "badfilter"
      BY <1>5, <1>6, <2>1, <3>1, <3>2
    <3>4. "bad" \notin g[n].mask /\ NotBad(g[n]) = g[n]
      BY <3>2, <3>3, BadFacts
    <3> QED BY <1>i, <2>1, <2>2, <3>3, <3>4
  <2>3. CASE n >= i
    <3>1. q[n] = p[n + 1] /\ n + 1 # i /\ n - 1 >= i - 1 /\ ~(n < i)
      BY <1>1, <1>2, <2>1, <2>3 DEF N, p, q
    <3>2. h[n - 1] = NotBad(g[n])
      BY <1>8, <2>1, <3>1
    <3>3. h[n] = Applied(NotBad(g[n]), p[n + 1]) /\ g[n + 1] = Applied(g[n], p[n + 1])
      BY <1>5, <2>1, <3>1, <3>2
    <3>4. h[n] = NotBad(g[n + 1])
      BY <1>6, <2>1, <3>1, <3>3, BadFacts
    <3> QED BY <3>1, <3>4
  <2> QED BY <1>1, <2>1, <2>2, <2>3
<1> HIDE DEF Same
<1>9. T = {}
  <2>1. T \in SUBSET Nat
    BY <1>1
  <2>2. SUFFICES ASSUME NEW m \in T, \A k \in T : m <= k PROVE FALSE
    <3> HIDE DEF T
    <3> QED BY <2>1, NatMin
  <2>3. m \in 0 .. N - 1 /\ ~Same(m)
    OBVIOUS
  <2>4. m # 0
    BY <1>7, <2>3
  <2>5. m - 1 \in 0 .. N - 1 /\ m - 1 < m /\ m \in 1 .. N - 1
    BY <1>1, <2>3, <2>4
  <2>6. m - 1 \notin T
    <3> HIDE DEF T
    <3> QED BY <2>2, <2>5
  <2>7. Same(m - 1)
    BY <2>5, <2>6
  <2> QED BY <1>8, <2>3, <2>5, <2>7
<1>10. Same(N - 1) /\ N - 1 >= i - 1 /\ N - 1 + 1 = N
  <2>1. N - 1 \in 0 .. N - 1
    BY <1>1
  <2> QED BY <1>1, <1>9, <2>1
<1> HIDE DEF T
<1> QED BY <1>3, <1>4, <1>10 DEF Same

\* The flag is no type, and no type depends on it.
LEMMA BadIsNoType ==
  ASSUME NEW s, NEW shape, NEW exception, NEW G, Reflects(s, exception, G)
  PROVE  /\ TypesOf(NotBad(s), shape) = TypesOf(s, shape)
         /\ "bad" \notin TypesOf(s, shape) /\ "bad" \notin s.negative
         /\ s.positive \subseteq AllType /\ s.negative \subseteq AllType
<1>1. \A o : Types(o) \subseteq AllType
  BY DEF Types
<1>2. "bad" \notin AllType
  BY DEF AllType, NetworkType
<1>3. s.positive \subseteq AllType /\ s.negative \subseteq AllType
  BY <1>1 DEF Reflects
<1>4. ("removeparam" \in s.mask \ {"bad"}) <=> "removeparam" \in s.mask
  OBVIOUS
<1>5. TypesOf(NotBad(s), shape) = TypesOf(s, shape)
  BY <1>4, Zenon DEF TypesOf, NotBad
<1>6. TypesOf(s, shape) \subseteq AllType
  BY <1>3 DEF TypesOf, AllType, NetworkType
<1> QED BY <1>2, <1>3, <1>5, <1>6

\* The parser accepts the twin of a $badfilter it accepted, and its id is the
\* badfilter's without the flag.
LEMMA TwinAgrees ==
  ASSUME NEW t \in Text, NEW i \in DOMAIN t.options, t.options[i].name = "badfilter",
         Count(t.options, {"badfilter"}) = 1, ~RefusedText(t)
  PROVE  LET twin == [t EXCEPT !.options = RemoveAt(@, i)]
         IN  ~RefusedText(twin) /\ FilterId(NetworkFilter(twin)) = FilterId(WithoutBadfilter(NetworkFilter(t)))
<1> DEFINE twin == [t EXCEPT !.options = RemoveAt(@, i)]
           p == t.options
           q == RemoveAt(p, i)
           s == AppliedUpTo(t)
           u == AppliedUpTo(twin)
<1>1. p \in Seq(Option) /\ DOMAIN p = 1 .. Len(p) /\ Len(p) \in Nat /\ i \in 1 .. Len(p)
  BY DEF Text
<1>2. twin.exception = t.exception /\ twin.shape = t.shape /\ twin.options = q
  BY DEF Text
<1> HIDE DEF twin
<1>3. \A k \in DOMAIN p : p[k].name = "badfilter" => k = i
  BY <1>1, CountFacts
<1>4. u = NotBad(s)
  BY <1>2, <1>3, TwinState
<1>5. Reflects(s, t.exception, Given(t))
  BY <1>1, AppliedReflects
<1>6. /\ q \in Seq(Option) /\ Len(q) = Len(p) - 1 /\ DOMAIN q = 1 .. Len(p) - 1
      /\ \A k \in 1 .. Len(p) - 1 : q[k] = IF k < i THEN p[k] ELSE p[k + 1]
  <2>1. /\ q \in Seq(Option) /\ Len(q) = Len(p) - 1
        /\ \A k \in 1 .. Len(p) - 1 : q[k] = IF k < i THEN p[k] ELSE p[k + 1]
    BY <1>1, RemovedFacts
  <2>2. DOMAIN q = 1 .. Len(q)
    BY <2>1, LenProperties
  <2> QED BY <2>1, <2>2
<1> HIDE DEF p, q, s, u
<1> DEFINE f == [k \in DOMAIN q |-> IF k < i THEN k ELSE k + 1]
<1>7. \A k \in DOMAIN q : f[k] \in DOMAIN p /\ q[k] = p[f[k]]
  BY <1>1, <1>6
<1>8. \A k, l \in DOMAIN q : f[k] = f[l] => k = l
  BY <1>1, <1>6
<1> HIDE DEF f
<1>9. ~RefusedText(twin)
  <2>1. ~\E k \in DOMAIN q : OptionError(q[k])
    BY <1>7 DEF RefusedText, p
  <2>2. ASSUME NEW names, Count(q, names) > 0 PROVE Count(p, names) > 0
    <3>1. PICK k \in DOMAIN q : q[k].name \in names
      BY <1>6, <2>2, CountFacts
    <3> QED BY <1>1, <1>7, <3>1, CountFacts
  <2>3. ASSUME NEW names, Count(p, names) <= 1 PROVE Count(q, names) <= 1
    <3>1. \A k, l \in DOMAIN p : p[k].name \in names /\ p[l].name \in names => k = l
      BY <1>1, <2>3, CountFacts
    <3>2. \A k, l \in DOMAIN q : q[k].name \in names /\ q[l].name \in names => k = l
      BY <1>7, <1>8, <3>1
    <3> QED BY <1>6, <3>2, CountFacts
  <2>4. ~InvalidTogether(q)
    <3>1. ~InvalidTogether(p)
      BY DEF RefusedText, p
    <3>2. \A names : Count(p, names) \in Nat /\ Count(q, names) \in Nat
      BY <1>1, <1>6, CountFacts
    <3>3. Count(q, Single) <= 1
      BY <2>3, <3>1, <3>2 DEF InvalidTogether
    <3> QED BY <2>2, <3>1, <3>2, <3>3 DEF InvalidTogether
  <2>5. ~RefusedAtEnd(u, twin)
    <3>1. ~RefusedAtEnd(s, t)
      BY DEF RefusedText, s
    <3>2. u.mask = s.mask \ {"bad"}
      BY <1>4 DEF NotBad
    <3> QED BY <1>2, <3>1, <3>2 DEF RefusedAtEnd
  <2> QED BY <1>2, <2>1, <2>4, <2>5 DEF RefusedText, u
<1>10. FilterId(NetworkFilter(twin)) = FilterId(WithoutBadfilter(NetworkFilter(t)))
  <2> DEFINE T == TypesOf(s, t.shape)
             F == NetworkFilter(t)
             W == NetworkFilter(twin)
  <2>1. /\ F.shape = t.shape /\ F.mask = (s.mask \cup T) \ s.negative /\ F.domains = s.domains
        /\ F.notDomains = s.notDomains /\ F.modifier = s.modifier
    BY DEF NetworkFilter, s
  <2>2. /\ W.shape = t.shape /\ W.mask = ((s.mask \ {"bad"}) \cup T) \ s.negative
        /\ W.domains = s.domains /\ W.notDomains = s.notDomains /\ W.modifier = s.modifier
    <3>1. TypesOf(u, t.shape) = T
      BY <1>4, <1>5, BadIsNoType
    <3>2. /\ u.mask = s.mask \ {"bad"} /\ u.negative = s.negative /\ u.domains = s.domains
          /\ u.notDomains = s.notDomains /\ u.modifier = s.modifier
      BY <1>4 DEF NotBad
    <3>3. /\ W.shape = twin.shape /\ W.mask = (u.mask \cup TypesOf(u, twin.shape)) \ u.negative
          /\ W.domains = u.domains /\ W.notDomains = u.notDomains /\ W.modifier = u.modifier
      BY DEF NetworkFilter, u
    <3> QED BY <1>2, <3>1, <3>2, <3>3
  <2>3. "bad" \notin T /\ "bad" \notin s.negative
    BY <1>5, BadIsNoType
  <2>4. W.mask = F.mask \ {"bad"}
    BY <2>1, <2>2, <2>3
  <2>5. /\ WithoutBadfilter(F).mask = F.mask \ {"bad"} /\ WithoutBadfilter(F).shape = F.shape
        /\ WithoutBadfilter(F).domains = F.domains /\ WithoutBadfilter(F).notDomains = F.notDomains
        /\ WithoutBadfilter(F).modifier = F.modifier
    BY DEF WithoutBadfilter, NetworkFilter
  <2> HIDE DEF F, W, T
  <2>6. FilterId(W) = FilterId(WithoutBadfilter(F))
    BY <2>1, <2>2, <2>4, <2>5 DEF FilterId
  <2> QED BY <2>6 DEF F, W
<1> QED BY <1>9, <1>10 DEF twin

(***************************************************************************)
(* What the options of an accepted rule say of requests.                   *)
(***************************************************************************)

Has(t, name) == \E o \in Given(t) : o.name = name

\* What acceptance says of the options, as a set.
LEMMA Accepted ==
  ASSUME OptionsShaped, NEW t \in Text, ~RefusedText(t)
  PROVE  /\ \A o \in Given(t) : ~OptionError(o) /\ o.on \in BOOLEAN
         /\ \A name : Count(t.options, {name}) > 0 <=> Has(t, name)
         /\ Has(t, "csp") => \A o \in Given(t) : o.name \notin Named
         /\ \A o, p \in Given(t) : o.name \in Single /\ p.name \in Single => o = p
<1>1. t.options \in Seq(Option)
  BY DEF Text
<1>2. \A o \in Given(t) : o \in Option
  BY <1>1, ElementOfSeq DEF Given
<1>3. \A o \in Given(t) : ~OptionError(o) /\ o.on \in BOOLEAN
  BY <1>2 DEF RefusedText, Given, OptionsShaped
<1>4. \A name : Count(t.options, {name}) > 0 <=> Has(t, name)
  <2>1. \A name : (\E i \in DOMAIN t.options : t.options[i].name \in {name}) <=> Has(t, name)
    BY DEF Has, Given
  <2> QED BY <1>1, <2>1, CountFacts
<1>5. Count(t.options, Named) > 0 <=> \E o \in Given(t) : o.name \in Named
  <2>1. (\E i \in DOMAIN t.options : t.options[i].name \in Named) <=> \E o \in Given(t) : o.name \in Named
    BY DEF Given
  <2> QED BY <1>1, <2>1, CountFacts
<1>6. ~InvalidTogether(t.options)
  BY DEF RefusedText
<1>7. Has(t, "csp") => \A o \in Given(t) : o.name \notin Named
  BY <1>4, <1>5, <1>6 DEF InvalidTogether
<1>8. Count(t.options, Single) <= 1
  BY <1>1, <1>6, CountFacts DEF InvalidTogether
<1>9. \A o, p \in Given(t) : o.name \in Single /\ p.name \in Single => o = p
  BY <1>8, OnceGiven
<1> QED BY <1>3, <1>4, <1>7, <1>9

\* The flags of the compiled mask, each from the options that touch it.
LEMMA FlagFacts ==
  ASSUME OptionsShaped, NEW t \in Text, ~RefusedText(t), NEW third \in BOOLEAN
  PROVE  /\ "bad" \in NetworkFilter(t).mask <=> Has(t, "badfilter")
         /\ "exception" \in NetworkFilter(t).mask <=> t.exception
         /\ "removeparam" \in AppliedUpTo(t).mask <=> Has(t, "removeparam")
         /\ \A y \in AllType : y \in AppliedUpTo(t).mask <=> y = "document" /\ Has(t, "csp")
         /\ (IF third THEN "thirdParty" ELSE "firstParty") \in NetworkFilter(t).mask <=>
              \A o \in Given(t) : /\ o.name = "third-party" => third = o.on
                                  /\ o.name = "first-party" => third # o.on
<1> DEFINE s == AppliedUpTo(t)
           G == Given(t)
<1>1. Reflects(s, t.exception, G)
  BY AppliedReflects DEF Text
<1>2. /\ \A o \in G : o.on \in BOOLEAN
      /\ t.exception \in BOOLEAN
  BY Accepted DEF Text
<1> HIDE DEF s, G
<1>3. \A x : x \in s.mask <=> /\ x \in NoOptions(t.exception).mask \/ \E o \in G : x \in Sets(o)
                              /\ \A o \in G : x \notin Clears(o)
  BY <1>1 DEF Reflects
<1>4. \A x : x \notin AllType => (x \in NetworkFilter(t).mask <=> x \in s.mask)
  <2>1. TypesOf(s, t.shape) \subseteq AllType /\ s.negative \subseteq AllType
    BY <1>1, BadIsNoType DEF TypesOf, AllType, NetworkType
  <2>2. NetworkFilter(t).mask = (s.mask \cup TypesOf(s, t.shape)) \ s.negative
    BY DEF NetworkFilter, s
  <2> QED BY <2>1, <2>2
<1>5. {"bad", "exception", "thirdParty", "firstParty"} \cap AllType = {}
  BY DEF AllType, NetworkType
<1>6. NoOptions(t.exception).mask = {"thirdParty", "firstParty"} \cup (IF t.exception THEN {"exception"} ELSE {})
  BY DEF NoOptions
<1>7. \A o : Clears(o) \subseteq {"thirdParty", "firstParty"}
  BY DEF Clears
<1>8. \A x : x \notin {"thirdParty", "firstParty"} =>
        (x \in s.mask <=> x \in NoOptions(t.exception).mask \/ \E o \in G : x \in Sets(o))
  BY <1>3, <1>7
<1>9. "bad" \in s.mask <=> \E o \in G : o.name = "badfilter"
  <2>1. \A o : "bad" \in Sets(o) <=> o.name = "badfilter"
    BY DEF Sets
  <2> QED BY <1>6, <1>8, <2>1
<1>10. "exception" \in s.mask <=> t.exception
  <2>1. \A o : "exception" \notin Sets(o)
    BY DEF Sets
  <2> QED BY <1>2, <1>6, <1>8, <2>1
<1>11. "removeparam" \in s.mask <=> \E o \in G : o.name = "removeparam"
  <2>1. \A o : "removeparam" \in Sets(o) <=> o.name = "removeparam"
    BY DEF Sets
  <2> QED BY <1>6, <1>8, <2>1
<1>12. \A y \in AllType : y \in s.mask <=> y = "document" /\ \E o \in G : o.name = "csp"
  <2>1. \A o : \A y \in AllType : y \in Sets(o) <=> y = "document" /\ o.name = "csp"
    BY DEF Sets, AllType, NetworkType
  <2>2. \A y \in AllType : y \notin NoOptions(t.exception).mask /\ y \notin {"thirdParty", "firstParty"}
    BY <1>6 DEF AllType, NetworkType
  <2> QED BY <1>8, <2>1, <2>2
<1>13. ("thirdParty" \in s.mask <=> \A o \in G : "thirdParty" \notin Clears(o))
       /\ ("firstParty" \in s.mask <=> \A o \in G : "firstParty" \notin Clears(o))
  BY <1>3, <1>6
<1>14. ASSUME NEW o \in G
       PROVE  ((IF third THEN "thirdParty" ELSE "firstParty") \notin Clears(o)) <=>
                /\ o.name = "third-party" => third = o.on
                /\ o.name = "first-party" => third # o.on
  <2>1. o.on \in BOOLEAN
    BY <1>2
  <2>2. CASE o.name = "third-party"
    <3>1. Clears(o) = {IF o.on THEN "firstParty" ELSE "thirdParty"}
      BY <2>2 DEF Clears
    <3> QED BY <2>1, <2>2, <3>1
  <2>3. CASE o.name = "first-party"
    <3>1. Clears(o) = {IF o.on THEN "thirdParty" ELSE "firstParty"}
      BY <2>3 DEF Clears
    <3> QED BY <2>1, <2>3, <3>1
  <2>4. CASE o.name \notin {"third-party", "first-party"}
    <3>1. Clears(o) = {}
      BY <2>4 DEF Clears
    <3> QED BY <2>4, <3>1
  <2> QED BY <2>2, <2>3, <2>4
<1>15. (IF third THEN "thirdParty" ELSE "firstParty") \in s.mask <=>
         \A o \in G : /\ o.name = "third-party" => third = o.on
                      /\ o.name = "first-party" => third # o.on
  BY <1>13, <1>14
<1> QED BY <1>4, <1>5, <1>9, <1>10, <1>11, <1>12, <1>15 DEF Has, s, G

\* The types a rule names are those its options name, whatever else is given.
LEMMA NamedTypes ==
  ASSUME OptionsShaped, NEW t \in Text, ~RefusedText(t)
  PROVE  /\ AppliedUpTo(t).positive =
              {o.name : o \in {p \in Naming(t) : p.on}} \cup (IF Has(t, "all") THEN AllType ELSE {})
         /\ AppliedUpTo(t).negative = {o.name : o \in {p \in Naming(t) : ~p.on}}
         /\ Has(t, "csp") => AppliedUpTo(t).positive = {} /\ AppliedUpTo(t).negative = {}
<1> DEFINE s == AppliedUpTo(t)
           G == Given(t)
<1>1. Reflects(s, t.exception, G)
  BY AppliedReflects DEF Text
<1>2. \A o \in G : o.on \in BOOLEAN /\ (o.name = "all" => o.on)
  BY Accepted DEF OptionError, Alone
<1>3. Has(t, "csp") => \A o \in G : o.name \notin Named
  BY Accepted
<1> HIDE DEF s, G
<1>4. \A o : Types(o) = IF o.name = "all" THEN AllType ELSE {o.name} \cap AllType
  BY DEF Types
<1>5. "all" \notin AllType /\ AllType \subseteq Named
  BY DEF AllType, NetworkType, Named
<1>6. \A x : x \in s.positive <=> \E o \in G : o.on /\ x \in Types(o)
  BY <1>1 DEF Reflects
<1>7. \A x : x \in s.negative <=> \E o \in G : ~o.on /\ x \in Types(o)
  BY <1>1 DEF Reflects
<1>8. Naming(t) = {o \in G : o.name \in AllType}
  BY DEF Naming, G
<1>9. Has(t, "all") <=> \E o \in G : o.name = "all"
  BY DEF Has, G
<1>10. ASSUME NEW x
       PROVE  x \in s.positive <=>
                x \in {o.name : o \in {p \in Naming(t) : p.on}} \cup (IF Has(t, "all") THEN AllType ELSE {})
  <2>1. x \in s.positive <=> \/ \E o \in G : o.on /\ o.name = x /\ x \in AllType
                             \/ \E o \in G : o.name = "all" /\ x \in AllType
    BY <1>2, <1>4, <1>5, <1>6
  <2> QED BY <1>8, <1>9, <2>1
<1>11. ASSUME NEW x
       PROVE  x \in s.negative <=> x \in {o.name : o \in {p \in Naming(t) : ~p.on}}
  <2>1. x \in s.negative <=> \E o \in G : ~o.on /\ o.name = x /\ x \in AllType
    BY <1>2, <1>4, <1>5, <1>7
  <2> QED BY <1>8, <2>1
<1>12. Has(t, "csp") => s.positive = {} /\ s.negative = {}
  <2>1. \A o \in G : o.name \notin Named => Types(o) = {}
    BY <1>4, <1>5 DEF Named
  <2> QED BY <1>3, <1>6, <1>7, <2>1
<1>13. s.positive = {o.name : o \in {p \in Naming(t) : p.on}} \cup (IF Has(t, "all") THEN AllType ELSE {})
  BY <1>10
<1>14. s.negative = {o.name : o \in {p \in Naming(t) : ~p.on}}
  BY <1>11
<1> QED BY <1>12, <1>13, <1>14 DEF s

\* The mask lets a type through as the options say, each alone.
LEMMA TypesApply ==
  ASSUME OptionsShaped, NEW t \in Text, ~RefusedText(t), NEW r, r.type \in AllType
  PROVE  r.type \in NetworkFilter(t).mask \/ (r.type = "document" /\ "exception" \in NetworkFilter(t).mask)
           <=> TypeAsWritten(t, r)
<1> DEFINE s == AppliedUpTo(t)
           y == r.type
           implied == IF "removeparam" \in s.mask
                      THEN IF s.positive = {} THEN {"document", "subdocument", "xmlhttprequest"} ELSE {}
                      ELSE IF s.negative # {} \/ s.positive = {} THEN NetworkType ELSE {}
           wholeHost == IF t.shape = "host" /\ s.positive = {} /\ s.negative = {} /\ "removeparam" \notin s.mask
                        THEN AllType ELSE {}
           rewrites == Has(t, "removeparam")
           csp      == Has(t, "csp")
           unnamed  == CASE rewrites -> {"document", "subdocument", "xmlhttprequest"}
                         [] ~rewrites /\ (csp \/ t.shape = "host") /\ s.negative = {} -> AllType
                         [] OTHER -> NetworkType
<1>1. TypeAsWritten(t, r) <=>
        \/ t.exception /\ y = "document"
        \/ /\ y \notin s.negative
           /\ \/ y \in s.positive
              \/ s.positive = {} /\ y \in unnamed
              \/ s.negative # {} /\ y \in NetworkType /\ ~rewrites
  <2>1. \A name : Count(t.options, {name}) > 0 <=> Has(t, name)
    BY Accepted
  <2>2. (\E o \in Given(t) : o.name = "all") <=> Has(t, "all")
    BY DEF Has
  <2> HIDE DEF s
  <2>3. /\ s.positive = {o.name : o \in {p \in Naming(t) : p.on}}
                          \cup (IF \E o \in Given(t) : o.name = "all" THEN AllType ELSE {})
        /\ s.negative = {o.name : o \in {p \in Naming(t) : ~p.on}}
    BY <2>2, NamedTypes DEF s
  <2>4. (Count(t.options, {"removeparam"}) > 0 <=> rewrites) /\ (Count(t.options, {"csp"}) > 0 <=> csp)
    BY <2>1
  <2> HIDE DEF rewrites, csp
  <2> QED BY <2>3, <2>4 DEF TypeAsWritten
<1>2. NetworkFilter(t).mask = (s.mask \cup s.positive \cup implied \cup wholeHost) \ s.negative
  BY DEF NetworkFilter, TypesOf
<1>3. "exception" \in NetworkFilter(t).mask <=> t.exception
  BY FlagFacts
<1>4. "removeparam" \in s.mask <=> rewrites
  BY FlagFacts
<1>5. y \in s.mask <=> y = "document" /\ csp
  BY FlagFacts
<1>6. csp => s.positive = {} /\ s.negative = {}
  BY NamedTypes
<1>7. csp => ~rewrites
  BY Accepted DEF Has, Single
<1>8. y \in NetworkType \/ y = "document"
  BY DEF AllType
<1>9. "document" \notin NetworkType /\ AllType = NetworkType \cup {"document"}
  BY DEF AllType, NetworkType
<1> HIDE DEF s, y, rewrites, csp
<1>10. CASE csp
  BY <1>1, <1>2, <1>3, <1>4, <1>5, <1>6, <1>7, <1>8, <1>9, <1>10 DEF y
<1>11. CASE ~csp /\ rewrites
  BY <1>1, <1>2, <1>3, <1>4, <1>5, <1>8, <1>9, <1>11 DEF y
<1>12. CASE ~csp /\ ~rewrites
  BY <1>1, <1>2, <1>3, <1>4, <1>5, <1>8, <1>9, <1>12 DEF y
<1> QED BY <1>10, <1>11, <1>12

\* A list of domains given once is the one that is checked.
LEMMA DomainsApply ==
  ASSUME OptionsShaped, NEW t \in Text, ~RefusedText(t), Once(t, "domain"), NEW r
  PROVE  CheckDomains(NetworkFilter(t), r) <=>
           \A o \in Given(t) : o.name = "domain" => OptionAsWritten(o, r)
<1> DEFINE s == AppliedUpTo(t)
           G == Given(t)
<1>1. Reflects(s, t.exception, G)
  BY AppliedReflects DEF Text
<1>2. \A o, p \in G : o.name = "domain" /\ p.name = "domain" => o = p
  BY OnceGiven DEF Once
<1>3. NetworkFilter(t).domains = s.domains /\ NetworkFilter(t).notDomains = s.notDomains
  BY DEF NetworkFilter
<1>4. \A o \in G : o \in Option
  BY ElementOfSeq DEF Given, Text
<1> HIDE DEF s, G
<1>5. CASE ~\E o \in G : o.name = "domain"
  <2>1. s.domains = None /\ s.notDomains = None
    BY <1>1, <1>5 DEF Reflects, IsList
  <2> QED BY <1>3, <1>5, <2>1 DEF CheckDomains, G
<1>6. ASSUME NEW o \in G, o.name = "domain"
      PROVE  CheckDomains(NetworkFilter(t), r) <=> OptionAsWritten(o, r)
  <2> DEFINE yes == ListNames(o, TRUE)
             no  == ListNames(o, FALSE)
  <2>1. yes # None /\ no # None
    <3>1. \A d \in o.domains : d.name \in Domain
      BY <1>4 DEF OptionsShaped
    <3>2. yes \in SUBSET Domain /\ no \in SUBSET Domain
      BY <3>1 DEF ListNames, Supported
    <3> QED BY <3>2 DEF OptionsShaped
  <2>2. s.domains = IF yes = {} THEN None ELSE yes
    BY <1>1, <1>2, <1>6 DEF Reflects, IsList
  <2>3. s.notDomains = IF no = {} THEN None ELSE no
    BY <1>1, <1>2, <1>6 DEF Reflects, IsList
  <2>4. OptionAsWritten(o, r) <=>
          IF r.source = None THEN yes = {}
          ELSE (yes = {} \/ yes \cap r.source # {}) /\ no \cap r.source = {}
    <3>1. /\ yes = {d.name : d \in {e \in Supported(o) : e.on}}
          /\ no = {d.name : d \in {e \in Supported(o) : ~e.on}}
      <4>1. \A e \in Supported(o) : e.on \in BOOLEAN
        BY <1>4 DEF OptionsShaped, Supported
      <4>2. /\ {e \in Supported(o) : e.on = TRUE} = {e \in Supported(o) : e.on}
            /\ {e \in Supported(o) : e.on = FALSE} = {e \in Supported(o) : ~e.on}
        BY <4>1
      <4> QED BY <4>2 DEF ListNames
    <3> HIDE DEF yes, no
    <3> QED BY <1>6, <3>1 DEF OptionAsWritten
  <2> HIDE DEF yes, no
  <2> QED BY <1>3, <2>1, <2>2, <2>3, <2>4 DEF CheckDomains
<1> QED BY <1>2, <1>5, <1>6 DEF G

\* An accepted rule that gives its domains once is open to exactly the
\* requests that each of its options allows.
LEMMA OpenAsWritten ==
  ASSUME OptionsShaped, NEW t \in Text, ~RefusedText(t), Once(t, "domain"), NEW r \in Request
  PROVE  OpenTo(NetworkFilter(t), r) <=>
           TypeAsWritten(t, r) /\ \A o \in Given(t) : OptionAsWritten(o, r)
<1>1. r.type \in AllType /\ r.third \in BOOLEAN
  BY DEF Request
<1>2. \A o \in Given(t) : OptionAsWritten(o, r) <=>
        /\ o.name = "third-party" => r.third = o.on
        /\ o.name = "first-party" => r.third # o.on
        /\ o.name # "badfilter"
        /\ o.name = "domain" => OptionAsWritten(o, r)
  BY DEF OptionAsWritten
<1>3. "bad" \in NetworkFilter(t).mask <=> \E o \in Given(t) : o.name = "badfilter"
  BY <1>1, FlagFacts DEF Has
<1>4. (IF r.third THEN "thirdParty" ELSE "firstParty") \in NetworkFilter(t).mask <=>
        \A o \in Given(t) : /\ o.name = "third-party" => r.third = o.on
                            /\ o.name = "first-party" => r.third # o.on
  BY <1>1, FlagFacts
<1>5. r.type \in NetworkFilter(t).mask \/ (r.type = "document" /\ "exception" \in NetworkFilter(t).mask)
        <=> TypeAsWritten(t, r)
  BY <1>1, TypesApply
<1>6. CheckDomains(NetworkFilter(t), r) <=> \A o \in Given(t) : o.name = "domain" => OptionAsWritten(o, r)
  BY DomainsApply
<1> QED BY <1>2, <1>3, <1>4, <1>5, <1>6 DEF OpenTo, CheckOptions

(***************************************************************************)
(* The theorems, for every set of options and every number of them.        *)
(***************************************************************************)

\* What is written is a text of options.
LEMMA Written == OptionsSpec => [](text \in Text)
<1>1. OptionsInit => text \in Text
  BY EmptySeq DEF OptionsInit, Text
<1>2. text \in Text /\ [OptionsNext]_text => (text \in Text)'
  BY DEF OptionsNext, Write, Text
<1> QED BY <1>1, <1>2, PTL DEF OptionsSpec

\* A rule is open to the requests that each of its options allows, whatever
\* the other options are.
THEOREM RuleAppliesAsWritten ==
  ASSUME OptionsShaped PROVE OptionsSpec => []AppliesAsWritten
<1>1. text \in Text => AppliesAsWritten
  BY OpenAsWritten DEF AppliesAsWritten
<1> QED BY <1>1, Written, PTL

\* The order of a rule's options changes neither whether the parser accepts
\* it nor the filter, unless it gives two lists of domains or two tags.
THEOREM OrderNeverMatters == OptionsSpec => []OrderIrrelevant
<1>1. text \in Text => OrderIrrelevant
  BY SwapAgrees DEF OrderIrrelevant
<1> QED BY <1>1, Written, PTL

\* A $badfilter, wherever it stands among the options, has the id of the rule
\* it is to take out.
THEOREM BadfilterFindsItsTwin == OptionsSpec => []BadfilterNamesItsTwin
<1>1. text \in Text => BadfilterNamesItsTwin
  BY TwinAgrees DEF BadfilterNamesItsTwin
<1> QED BY <1>1, Written, PTL

(***************************************************************************)
(* The head of a list.                                                     *)
(***************************************************************************)

\* What the first n lines of a text leave in the metadata.
AfterLine(found, line) == IF Commented(line) THEN TryAdd(found, line) ELSE found
Reading(t, g, m) ==
  g = [n \in 0 .. m |-> IF n = 0 THEN NoFields ELSE AfterLine(g[n - 1], t[n])]

LEMMA ReadingExists ==
  ASSUME NEW t, NEW N \in Nat
  PROVE  \E g : Reading(t, g, N)
<1> DEFINE T == {m \in 0 .. N : \E g : Reading(t, g, m)}
<1>1. 0 \in T
  <2>1. Reading(t, [n \in 0 .. 0 |-> NoFields], 0)
    BY DEF Reading
  <2> QED BY <2>1
<1>2. ASSUME NEW m \in 0 .. N - 1, m \in T PROVE m + 1 \in T
  <2>1. PICK h : Reading(t, h, m)
    BY <1>2
  <2> DEFINE g == [n \in 0 .. m + 1 |-> IF n = m + 1 THEN AfterLine(h[m], t[m + 1]) ELSE h[n]]
  <2>2. \A n \in 0 .. m : g[n] = h[n] /\ h[n] = IF n = 0 THEN NoFields ELSE AfterLine(h[n - 1], t[n])
    BY <2>1 DEF Reading
  <2>3. g[m + 1] = AfterLine(g[m], t[m + 1])
    OBVIOUS
  <2>4. \A n \in 0 .. m + 1 : g[n] = IF n = 0 THEN NoFields ELSE AfterLine(g[n - 1], t[n])
    BY <2>2, <2>3
  <2>5. Reading(t, g, m + 1)
    <3>1. g = [n \in 0 .. m + 1 |-> g[n]]
      OBVIOUS
    <3> HIDE DEF g
    <3> QED BY <2>4, <3>1 DEF Reading
  <2> QED BY <2>5
<1> HIDE DEF T
<1>3. \A m \in 0 .. N : m \in T
  BY <1>1, <1>2, StepByStep
<1> QED BY <1>3 DEF T

\* A line gives a field that nothing gave before it.
Gives(line, k) ==
  line.is = "field" /\ line.key = k /\ (k = "Expires" => line.value \in Interval)

\* v is what the first of the first n lines of a text to give the field says.
First(t, n, k, v) ==
  \/ v = None /\ \A i \in 1 .. n : ~Gives(t[i], k)
  \/ \E i \in 1 .. n : /\ Gives(t[i], k) /\ v = t[i].value
                       /\ \A j \in 1 .. i - 1 : ~Gives(t[j], k)

\* found is the metadata of the first n lines of a text.
FirstFound(t, n, found) ==
  /\ found = [k \in Fields |-> found[k]]
  /\ \A k \in Fields : First(t, n, k, found[k])

\* It depends on these lines only.
LEMMA FoundTheSame ==
  ASSUME NEW s, NEW t, NEW n \in Nat, \A i \in 1 .. n : s[i] = t[i],
         NEW found, FirstFound(s, n, found)
  PROVE  FirstFound(t, n, found)
<1>1. ASSUME NEW k, NEW v, First(s, n, k, v) PROVE First(t, n, k, v)
  <2>1. CASE v = None /\ \A i \in 1 .. n : ~Gives(s[i], k)
    BY <2>1 DEF First
  <2>2. CASE \E i \in 1 .. n : /\ Gives(s[i], k) /\ v = s[i].value
                                /\ \A j \in 1 .. i - 1 : ~Gives(s[j], k)
    <3>1. PICK i \in 1 .. n : /\ Gives(s[i], k) /\ v = s[i].value
                              /\ \A j \in 1 .. i - 1 : ~Gives(s[j], k)
      BY <2>2
    <3>2. \A j \in 1 .. i - 1 : s[j] = t[j]
      OBVIOUS
    <3> QED BY <3>1, <3>2 DEF First
  <2> QED BY <1>1, <2>1, <2>2 DEF First
<1> QED BY <1>1 DEF FirstFound

\* A field is not rewritten, and missed by no line.
LEMMA TryAddFinds ==
  ASSUME NEW t, NEW n \in Nat, NEW found, FirstFound(t, n, found),
         \A i \in 1 .. n + 1 : t[i].is = "field" => t[i].value # None
  PROVE  FirstFound(t, n + 1, TryAdd(found, t[n + 1]))
<1> DEFINE line == t[n + 1]
           new  == TryAdd(found, line)
<1>1. new = [k \in Fields |-> new[k]]
  BY DEF TryAdd, FirstFound
<1>2. ASSUME NEW k \in Fields PROVE First(t, n + 1, k, new[k])
  <2>1. First(t, n, k, found[k])
    BY DEF FirstFound
  <2>2. CASE found[k] = None /\ Gives(line, k)
    <3>1. new[k] = line.value
      BY <2>2 DEF TryAdd, FirstFound, Gives
    <3>2. \A i \in 1 .. n : ~Gives(t[i], k)
      BY <2>1, <2>2 DEF First, Gives
    <3> QED BY <2>2, <3>1, <3>2 DEF First
  <2>3. CASE ~(found[k] = None /\ Gives(line, k))
    <3>1. new[k] = found[k]
      BY <2>3 DEF TryAdd, FirstFound, Gives
    <3>2. CASE found[k] = None
      <4>1. \A i \in 1 .. n : ~Gives(t[i], k)
        BY <2>1, <3>2 DEF First, Gives
      <4> QED BY <2>3, <3>1, <3>2, <4>1 DEF First
    <3>3. CASE found[k] # None
      BY <2>1, <3>1, <3>3 DEF First
    <3> QED BY <3>2, <3>3
  <2> QED BY <2>2, <2>3
<1> HIDE DEF new
<1> QED BY <1>1, <1>2 DEF FirstFound, new

\* So for a line that is no comment.
LEMMA AfterLineFinds ==
  ASSUME NEW t, NEW n \in Nat, NEW found, FirstFound(t, n, found),
         \A i \in 1 .. n + 1 : t[i].is = "field" => t[i].value # None
  PROVE  FirstFound(t, n + 1, AfterLine(found, t[n + 1]))
<1>1. ~Commented(t[n + 1]) => TryAdd(found, t[n + 1]) = found
  BY DEF Commented, TryAdd
<1> QED BY <1>1, TryAddFinds DEF AfterLine

\* The lines before the first that is neither comment nor header.
Body(t) == {i \in DOMAIN t : ~Commented(t[i]) /\ t[i].is # "header"}
HeadOf(t) == IF Body(t) = {} THEN Len(t) ELSE Min(Body(t)) - 1

LEMMA HeadInText ==
  ASSUME NEW t, NEW N \in Nat, Len(t) = N, DOMAIN t = 1 .. N
  PROVE  HeadOf(t) \in 0 .. N
<1>1. CASE Body(t) # {}
  <2>1. PICK m \in Body(t) : \A k \in Body(t) : m <= k
    <3> DEFINE B == Body(t)
    <3>1. B \in SUBSET Nat
      BY DEF Body
    <3> HIDE DEF B
    <3>2. B # {} => \E m \in B : \A k \in B : m <= k
      BY <3>1, NatMin
    <3> QED BY <1>1, <3>2 DEF B
  <2>2. Min(Body(t)) \in Body(t)
    BY <2>1 DEF Min
  <2> QED BY <1>1, <2>2 DEF HeadOf, Body
<1> QED BY <1>1 DEF HeadOf

\* read_list_metadata takes of each field the first that the head gives.
LEMMA ReadFindsFirst ==
  ASSUME NEW t, NEW N \in Nat, Len(t) = N, DOMAIN t = 1 .. N,
         \A i \in 1 .. N : t[i].is = "field" => t[i].value # None
  PROVE  FirstFound(t, HeadOf(t), ReadListMetadata(t))
<1> DEFINE H == HeadOf(t)
<1>1. H \in 0 .. N
  BY HeadInText
<1> DEFINE g == CHOOSE g : Reading(t, g, H)
<1>2. Reading(t, g, H)
  <2> HIDE DEF H
  <2>1. H \in Nat
    BY <1>1
  <2> QED BY <2>1, ReadingExists
<1>3. ReadListMetadata(t) = g[H]
  BY Zenon DEF ReadListMetadata, Reading, HeadOf, Body, AfterLine
<1> HIDE DEF g
<1> HIDE DEF H
<1>4. g[0] = NoFields /\ \A n \in 1 .. H : g[n] = AfterLine(g[n - 1], t[n])
  BY <1>1, <1>2 DEF Reading
<1> DEFINE T == {n \in 0 .. H : FirstFound(t, n, g[n])}
<1>5. 0 \in T
  BY <1>1, <1>4 DEF FirstFound, First, NoFields
<1>6. ASSUME NEW n \in 0 .. H - 1, n \in T PROVE n + 1 \in T
  <2>1. FirstFound(t, n, g[n]) /\ g[n + 1] = AfterLine(g[n], t[n + 1])
    BY <1>1, <1>4, <1>6
  <2>2. \A i \in 1 .. n + 1 : t[i].is = "field" => t[i].value # None
    BY <1>1
  <2>3. FirstFound(t, n + 1, AfterLine(g[n], t[n + 1]))
    BY <1>1, <2>1, <2>2, AfterLineFinds
  <2> QED BY <1>1, <2>1, <2>3
<1> HIDE DEF T
<1>7. H \in T
  <2>1. H \in Nat
    BY <1>1
  <2>2. \A n \in 0 .. H : n \in T
    BY <1>5, <1>6, <2>1, StepByStep
  <2> QED BY <2>1, <2>2
<1> QED BY <1>3, <1>7 DEF T, H

(***************************************************************************)
(* The metadata of a list is what the first of its lines to give each      *)
(* field says.                                                             *)
(***************************************************************************)

HeadInv == lines \in Seq(ListLine) /\ FirstFound(lines, Len(lines), metadata)

LEMMA HeadInitially == ListsInit => HeadInv
BY EmptySeq DEF ListsInit, HeadInv, FirstFound, First, NoFields

LEMMA HeadInductive ==
  ASSUME LinesShaped, HeadInv, [ListsNext]_listVars PROVE HeadInv'
<1>1. CASE UNCHANGED listVars
  BY <1>1 DEF listVars, HeadInv
<1>2. ASSUME NEW options \in ParseOptions, AddFilterList(options) PROVE HeadInv'
  BY <1>2, EmptySeq DEF AddFilterList, HeadInv, FirstFound, First, NoFields
<1>3. ASSUME NEW line \in ListLine, AddListLine(line) PROVE HeadInv'
  <2>1. /\ lines' \in Seq(ListLine) /\ Len(lines') = Len(lines) + 1
        /\ lines'[Len(lines) + 1] = line
        /\ \A i \in 1 .. Len(lines) : lines'[i] = lines[i]
        /\ Len(lines) \in Nat /\ metadata' = TryAdd(metadata, line)
    BY <1>3 DEF AddListLine, HeadInv
  <2>2. FirstFound(lines', Len(lines), metadata)
    BY <2>1, FoundTheSame DEF HeadInv
  <2>3. \A i \in 1 .. Len(lines) + 1 : lines'[i].is = "field" => lines'[i].value # None
    BY <2>1, ElementOfSeq DEF LinesShaped
  <2> QED BY <2>1, <2>2, <2>3, TryAddFinds DEF HeadInv
<1> QED BY <1>1, <1>2, <1>3 DEF ListsNext

\* The lines before a cut, and what is left of the one it goes through.
LEMMA CutLines ==
  ASSUME NEW S, lines \in Seq(S), NEW n \in 1 .. Len(lines), NEW line
  PROVE  /\ CutAt(n, line) \in Seq(S \cup {line}) /\ Len(CutAt(n, line)) = n
         /\ DOMAIN CutAt(n, line) = 1 .. n
         /\ CutAt(n, line)[n] = line
         /\ \A i \in 1 .. n - 1 : CutAt(n, line)[i] = lines[i]
<1>1. /\ SubSeq(lines, 1, n - 1) \in Seq(S) /\ Len(SubSeq(lines, 1, n - 1)) = n - 1
      /\ \A i \in 1 .. n - 1 : SubSeq(lines, 1, n - 1)[i] = lines[i]
  <2>1. \A i \in 1 .. n - 1 : lines[i] \in S
    BY ElementOfSeq
  <2> QED BY <2>1, SubSeqProperties
<1> DEFINE s == SubSeq(lines, 1, n - 1)
<1> HIDE DEF s
<1>2. /\ s \o <<line>> \in Seq(S \cup {line}) /\ Len(s \o <<line>>) = n
      /\ (s \o <<line>>)[n] = line
      /\ \A i \in 1 .. n - 1 : (s \o <<line>>)[i] = s[i]
  <2>1. s \in Seq(S \cup {line}) /\ Len(s) = n - 1
    BY <1>1 DEF s
  <2> QED BY <2>1
<1>3. DOMAIN CutAt(n, line) = 1 .. n
  BY <1>2 DEF CutAt, s
<1> QED BY <1>1, <1>2, <1>3 DEF CutAt, s

\* A head, wherever it is cut off, says of a field what the list says of it,
\* what is left of its value, or nothing.
LEMMA CutAgrees ==
  ASSUME LinesShaped, HeadInv, NEW n \in DOMAIN lines,
         NEW line \in Shortened(lines[n]) \cup {lines[n]}, NEW k \in Fields
  PROVE  ReadListMetadata(CutAt(n, line))[k] \in {None, Cut, metadata[k]}
<1> DEFINE t == CutAt(n, line)
           h    == HeadOf(t)
           v    == ReadListMetadata(t)[k]
<1>1. Len(lines) \in Nat /\ n \in 1 .. Len(lines) /\ \A i \in 1 .. Len(lines) : lines[i] \in ListLine
  BY ElementOfSeq DEF HeadInv
<1>2. /\ Len(t) = n /\ DOMAIN t = 1 .. n /\ t[n] = line
      /\ \A i \in 1 .. n - 1 : t[i] = lines[i]
  BY <1>1, CutLines DEF HeadInv
<1>3. line = lines[n] \/ line.is = "comment" \/ (line.is = "field" /\ line.value = Cut)
  BY DEF Shortened, CutField
<1> HIDE DEF t
<1>4. \A i \in 1 .. n : t[i].is = "field" => t[i].value # None
  BY <1>1, <1>2, <1>3 DEF LinesShaped
<1>5. h \in 0 .. n
  BY <1>1, <1>2, HeadInText
<1>6. First(t, h, k, v)
  BY <1>1, <1>2, <1>4, ReadFindsFirst DEF FirstFound
<1> HIDE DEF h, v
<1>7. First(lines, Len(lines), k, metadata[k])
  BY DEF HeadInv, FirstFound
<1>8. CASE v = None
  BY <1>8 DEF v, t
<1>9. CASE v # None
  <2>1. PICK i \in 1 .. h : /\ Gives(t[i], k) /\ v = t[i].value
                            /\ \A j \in 1 .. i - 1 : ~Gives(t[j], k)
    BY <1>6, <1>9 DEF First
  <2>2. i \in 1 .. n
    BY <1>1, <1>5, <2>1
  <2>3. CASE t[i] = lines[i]
    <3>1. Gives(lines[i], k) /\ lines[i].value # None /\ v = lines[i].value
      BY <1>1, <2>1, <2>2, <2>3 DEF Gives, LinesShaped
    <3>2. \A j \in 1 .. i - 1 : ~Gives(lines[j], k)
      BY <1>1, <1>2, <2>1, <2>2
    <3>3. metadata[k] = lines[i].value
      <4> HIDE DEF Gives
      <4>1. PICK m \in 1 .. Len(lines) : /\ Gives(lines[m], k) /\ metadata[k] = lines[m].value
                                         /\ \A j \in 1 .. m - 1 : ~Gives(lines[j], k)
        BY <1>1, <1>7, <2>2, <3>1 DEF First
      <4>2. m = i
        BY <1>1, <2>2, <3>1, <3>2, <4>1
      <4> QED BY <4>1, <4>2
    <3> QED BY <3>1, <3>3 DEF v, t
  <2>4. CASE t[i] # lines[i]
    <3>1. i = n
      BY <1>1, <1>2, <2>2, <2>4
    <3>2. v = Cut
      BY <1>2, <1>3, <2>1, <2>4, <3>1 DEF Gives
    <3> QED BY <3>2 DEF v, t
  <2> QED BY <2>3, <2>4
<1> QED BY <1>8, <1>9

\* A list of nothing but comments and headers is its own head.
LEMMA HeadIsAll ==
  ASSUME LinesShaped, HeadInv, \A i \in DOMAIN lines : Commented(lines[i]) \/ lines[i].is = "header"
  PROVE  ReadListMetadata(lines) = metadata
<1> DEFINE read == ReadListMetadata(lines)
           N    == Len(lines)
<1>1. N \in Nat /\ DOMAIN lines = 1 .. N /\ \A i \in 1 .. N : lines[i] \in ListLine
  BY ElementOfSeq DEF HeadInv
<1>2. HeadOf(lines) = N
  BY DEF HeadOf, Body
<1>3. FirstFound(lines, N, read) /\ FirstFound(lines, N, metadata)
  BY <1>1, <1>2, ReadFindsFirst DEF HeadInv, LinesShaped
<1> HIDE DEF read, N
<1>4. ASSUME NEW k \in Fields PROVE read[k] = metadata[k]
  <2>1. First(lines, N, k, read[k]) /\ First(lines, N, k, metadata[k])
    BY <1>3 DEF FirstFound
  <2> DEFINE a == read[k]
             b == metadata[k]
  <2> HIDE DEF a, b
  <2>2. \A i, j \in 1 .. N :
          /\ Gives(lines[i], k) /\ (\A m \in 1 .. i - 1 : ~Gives(lines[m], k))
          /\ Gives(lines[j], k) /\ (\A m \in 1 .. j - 1 : ~Gives(lines[m], k))
          => i = j
    BY <1>1
  <2>3. First(lines, N, k, a) /\ First(lines, N, k, b)
    BY <2>1 DEF a, b
  <2>4. a = b
    BY <2>2, <2>3 DEF First
  <2> QED BY <2>4 DEF a, b
<1>5. read = metadata
  BY <1>3, <1>4 DEF FirstFound
<1> QED BY <1>5 DEF read

THEOREM HeaderAlwaysAgrees ==
  ASSUME LinesShaped PROVE ListsSpec => []HeaderAgrees
<1>1. HeadInv => HeaderAgrees
  BY CutAgrees, HeadIsAll DEF HeaderAgrees
<1>2. HeadInv /\ [ListsNext]_listVars => HeadInv'
  BY HeadInductive
<1> QED BY <1>1, <1>2, HeadInitially, PTL DEF ListsSpec

(***************************************************************************)
(* Sequences put together.                                                 *)
(***************************************************************************)

Joined(a, b) == a \o b

\* What the first m of some sequences make, one after the other.
Flattening(ss, g, m) == g = [i \in 1 .. m |-> IF i = 1 THEN ss[i] ELSE Joined(g[i - 1], ss[i])]

LEMMA FlatteningExists ==
  ASSUME NEW ss, NEW N \in Nat
  PROVE  \E g : Flattening(ss, g, N)
<1> DEFINE T == {m \in 0 .. N : \E g : Flattening(ss, g, m)}
<1>1. 0 \in T
  <2>1. Flattening(ss, [i \in 1 .. 0 |-> ss], 0)
    BY DEF Flattening
  <2> QED BY <2>1
<1>2. ASSUME NEW m \in 0 .. N - 1, m \in T PROVE m + 1 \in T
  <2>1. PICK h : Flattening(ss, h, m)
    BY <1>2
  <2> DEFINE g == [i \in 1 .. m + 1 |-> IF i # m + 1 THEN h[i]
                                        ELSE IF m = 0 THEN ss[1] ELSE Joined(h[m], ss[m + 1])]
  <2>2. \A i \in 1 .. m : h[i] = IF i = 1 THEN ss[i] ELSE Joined(h[i - 1], ss[i])
    BY <2>1 DEF Flattening
  <2>3. \A i \in 1 .. m : g[i] = h[i]
    OBVIOUS
  <2>4. \A i \in 1 .. m + 1 : g[i] = IF i = 1 THEN ss[i] ELSE Joined(g[i - 1], ss[i])
    <3>1. g[m + 1] = IF m = 0 THEN ss[1] ELSE Joined(h[m], ss[m + 1])
      OBVIOUS
    <3> HIDE DEF g
    <3>2. g[m + 1] = IF m + 1 = 1 THEN ss[m + 1] ELSE Joined(g[m + 1 - 1], ss[m + 1])
      BY <2>3, <3>1
    <3>3. ASSUME NEW i \in 1 .. m PROVE g[i] = IF i = 1 THEN ss[i] ELSE Joined(g[i - 1], ss[i])
      BY <2>2, <2>3
    <3> QED BY <3>2, <3>3
  <2>5. Flattening(ss, g, m + 1)
    <3>1. g = [i \in 1 .. m + 1 |-> g[i]]
      OBVIOUS
    <3> HIDE DEF g
    <3> QED BY <2>4, <3>1 DEF Flattening
  <2> QED BY <2>5
<1> HIDE DEF T
<1>3. \A m \in 0 .. N : m \in T
  BY <1>1, <1>2, StepByStep
<1> QED BY <1>3 DEF T

\* One sequence after another holds what both hold.
LEMMA BothHold ==
  ASSUME NEW S, NEW a \in Seq(S), NEW b \in Seq(S)
  PROVE  a \o b \in Seq(S) /\ \A x : x \in ToSet(a \o b) <=> x \in ToSet(a) \/ x \in ToSet(b)
<1>1. /\ a \o b \in Seq(S) /\ Len(a) \in Nat /\ Len(b) \in Nat /\ Len(a \o b) = Len(a) + Len(b)
      /\ \A i \in 1 .. Len(a) + Len(b) : (a \o b)[i] = IF i <= Len(a) THEN a[i] ELSE b[i - Len(a)]
  BY ConcatProperties
<1>2. /\ \A x : x \in ToSet(a) <=> \E i \in 1 .. Len(a) : a[i] = x
      /\ \A x : x \in ToSet(b) <=> \E i \in 1 .. Len(b) : b[i] = x
      /\ \A x : x \in ToSet(a \o b) <=> \E i \in 1 .. Len(a) + Len(b) : (a \o b)[i] = x
  <2>1. /\ DOMAIN a = 1 .. Len(a) /\ DOMAIN b = 1 .. Len(b)
        /\ DOMAIN (a \o b) = 1 .. Len(a) + Len(b)
    BY <1>1
  <2> QED BY <2>1 DEF ToSet
<1>3. ASSUME NEW x, x \in ToSet(a) PROVE x \in ToSet(a \o b)
  <2>1. PICK i \in 1 .. Len(a) : a[i] = x
    BY <1>2, <1>3
  <2>2. i \in 1 .. Len(a) + Len(b) /\ i <= Len(a)
    BY <1>1
  <2>3. (a \o b)[i] = x
    BY <1>1, <2>1, <2>2
  <2> QED BY <1>2, <2>2, <2>3
<1>4. ASSUME NEW x, x \in ToSet(b) PROVE x \in ToSet(a \o b)
  <2>1. PICK i \in 1 .. Len(b) : b[i] = x
    BY <1>2, <1>4
  <2>2. /\ i + Len(a) \in 1 .. Len(a) + Len(b) /\ ~(i + Len(a) <= Len(a))
        /\ i + Len(a) - Len(a) = i
    BY <1>1
  <2>3. (a \o b)[i + Len(a)] = x
    BY <1>1, <2>1, <2>2
  <2> QED BY <1>2, <2>2, <2>3
<1>5. ASSUME NEW x, x \in ToSet(a \o b) PROVE x \in ToSet(a) \/ x \in ToSet(b)
  <2>1. PICK i \in 1 .. Len(a) + Len(b) : (a \o b)[i] = x
    BY <1>1, <1>2, <1>5
  <2>2. CASE i <= Len(a)
    BY <1>1, <1>2, <2>1, <2>2
  <2>3. CASE i > Len(a)
    <3>1. i - Len(a) \in 1 .. Len(b) /\ b[i - Len(a)] = x
      BY <1>1, <2>1, <2>3
    <3> QED BY <1>2, <3>1
  <2> QED BY <1>1, <2>1, <2>2, <2>3
<1> QED BY <1>1, <1>3, <1>4, <1>5

\* Sequences flattened hold what each of them holds.
LEMMA FlattenHolds ==
  ASSUME NEW S, NEW ss \in Seq(Seq(S))
  PROVE  /\ FlattenSeq(ss) \in Seq(S)
         /\ \A x : x \in ToSet(FlattenSeq(ss)) <=> \E i \in DOMAIN ss : x \in ToSet(ss[i])
<1> DEFINE N == Len(ss)
<1>1. N \in Nat /\ DOMAIN ss = 1 .. N /\ \A i \in 1 .. N : ss[i] \in Seq(S)
  BY ElementOfSeq
<1>2. CASE N = 0
  <2>1. ss = << >> /\ FlattenSeq(ss) = << >>
    BY <1>2, EmptySeq DEF FlattenSeq
  <2>2. ToSet(<< >>) = {}
    BY DEF ToSet
  <2>3. FlattenSeq(ss) \in Seq(S)
    BY <2>1, EmptySeq
  <2>4. DOMAIN ss = {}
    BY <1>1, <1>2
  <2> QED BY <2>1, <2>2, <2>3, <2>4
<1>3. CASE N # 0
  <2>1. PICK g : Flattening(ss, g, N) /\ FlattenSeq(ss) = g[N]
    <3> DEFINE g == CHOOSE g : Flattening(ss, g, N)
    <3>1. Flattening(ss, g, N)
      <4> HIDE DEF N
      <4> QED BY <1>1, FlatteningExists
    <3>2. FlattenSeq(ss) = g[N]
      BY <1>3, Zenon DEF FlattenSeq, Flattening, Joined
    <3> QED BY <3>1, <3>2
  <2> HIDE DEF N
  <2>3. \A i \in 1 .. N : g[i] = IF i = 1 THEN ss[i] ELSE Joined(g[i - 1], ss[i])
    BY <2>1 DEF Flattening
  <2> DEFINE Good(n) == /\ g[n] \in Seq(S)
                        /\ \A x : x \in ToSet(g[n]) <=> \E i \in 1 .. n : x \in ToSet(ss[i])
             T == {n \in 0 .. N - 1 : Good(n + 1)}
  <2>4. Good(1)
    <3>1. g[1] = ss[1] /\ 1 .. 1 = {1}
      BY <1>1, <1>3, <2>3
    <3> QED BY <1>1, <1>3, <3>1
  <2>5. ASSUME NEW n \in 1 .. N - 1, Good(n) PROVE Good(n + 1)
    <3>1. g[n + 1] = Joined(g[n], ss[n + 1]) /\ ss[n + 1] \in Seq(S) /\ n \in Nat
      <4>1. n \in Nat /\ n + 1 \in 1 .. N /\ n + 1 # 1 /\ n + 1 - 1 = n
        BY <1>1
      <4>2. \A i \in 1 .. N : i # 1 => g[i] = Joined(g[i - 1], ss[i])
        BY <2>3
      <4>3. g[n + 1] = Joined(g[n + 1 - 1], ss[n + 1])
        BY <4>1, <4>2
      <4> QED BY <1>1, <4>1, <4>3
    <3>2. /\ g[n + 1] \in Seq(S)
          /\ \A x : x \in ToSet(g[n + 1]) <=> x \in ToSet(g[n]) \/ x \in ToSet(ss[n + 1])
      BY <2>5, <3>1, BothHold DEF Joined
    <3>3. 1 .. n + 1 = 1 .. n \cup {n + 1}
      BY <3>1
    <3> QED BY <2>5, <3>2, <3>3
  <2> HIDE DEF Good
  <2>6. 0 \in T
    BY <1>1, <1>3, <2>4
  <2>7. ASSUME NEW n \in 0 .. N - 2, n \in T PROVE n + 1 \in T
    <3>1. n + 1 \in 1 .. N - 1 /\ Good(n + 1)
      BY <1>1, <1>3, <2>7
    <3>2. Good(n + 1 + 1) /\ n + 1 \in 0 .. N - 1
      BY <1>1, <2>5, <3>1
    <3> QED BY <3>2
  <2> DEFINE M == N - 1
  <2>8. M \in Nat /\ M - 1 = N - 2 /\ M + 1 = N
    BY <1>1, <1>3
  <2>9. M \in T
    <3> HIDE DEF T, M
    <3>1. \A n \in 0 .. M - 1 : n \in T => n + 1 \in T
      BY <2>7, <2>8
    <3>2. \A n \in 0 .. M : n \in T
      BY <2>6, <2>8, <3>1, StepByStep
    <3> QED BY <2>8, <3>2
  <2>10. Good(N)
    BY <2>8, <2>9
  <2> QED BY <1>1, <2>1, <2>10 DEF Good
<1> QED BY <1>2, <1>3

\* The members of a set that a sequence holds, in their order.
Those(s, X) == FlattenSeq([i \in DOMAIN s |-> IF s[i] \in X THEN <<s[i]>> ELSE << >>])

LEMMA ThoseHold ==
  ASSUME NEW S, NEW s \in Seq(S), NEW X
  PROVE  /\ Those(s, X) \in Seq(S)
         /\ \A x : x \in ToSet(Those(s, X)) <=> x \in ToSet(s) /\ x \in X
<1> DEFINE ss == [i \in DOMAIN s |-> IF s[i] \in X THEN <<s[i]>> ELSE << >>]
<1>1. DOMAIN s = 1 .. Len(s) /\ Len(s) \in Nat /\ \A i \in 1 .. Len(s) : s[i] \in S
  BY ElementOfSeq
<1>2. \A i \in 1 .. Len(s) : ss[i] \in Seq(S)
  <2>1. \A i \in 1 .. Len(s) : <<s[i]>> \in Seq(S)
    BY <1>1
  <2> QED BY <1>1, <2>1, EmptySeq
<1>3. ss \in Seq(Seq(S)) /\ DOMAIN ss = 1 .. Len(s)
  <2>1. ss = [i \in 1 .. Len(s) |-> ss[i]]
    BY <1>1
  <2> HIDE DEF ss
  <2> QED BY <1>1, <1>2, <2>1
<1>4. \A x : \A i \in 1 .. Len(s) : x \in ToSet(ss[i]) <=> s[i] \in X /\ x = s[i]
  <2>1. \A y : ToSet(<<y>>) = {y}
    BY DEF ToSet
  <2>2. ToSet(<< >>) = {}
    BY DEF ToSet
  <2> QED BY <1>1, <2>1, <2>2
<1>5. \A x : x \in ToSet(s) <=> \E i \in 1 .. Len(s) : s[i] = x
  BY <1>1 DEF ToSet
<1>6. /\ FlattenSeq(ss) \in Seq(S)
      /\ \A x : x \in ToSet(FlattenSeq(ss)) <=> \E i \in DOMAIN ss : x \in ToSet(ss[i])
  <2> HIDE DEF ss
  <2> QED BY <1>3, FlattenHolds
<1>7. Those(s, X) = FlattenSeq(ss)
  BY DEF Those
<1> HIDE DEF ss
<1>8. \A x : (\E i \in 1 .. Len(s) : x \in ToSet(ss[i])) <=> x \in ToSet(s) /\ x \in X
  <2> SUFFICES ASSUME NEW x PROVE (\E i \in 1 .. Len(s) : x \in ToSet(ss[i])) <=> x \in ToSet(s) /\ x \in X
    OBVIOUS
  <2>1. (\E i \in 1 .. Len(s) : x \in ToSet(ss[i])) <=> \E i \in 1 .. Len(s) : s[i] \in X /\ x = s[i]
    BY <1>4
  <2> QED BY <1>5, <2>1
<1>9. \A x : x \in ToSet(FlattenSeq(ss)) <=> \E i \in 1 .. Len(s) : x \in ToSet(ss[i])
  BY <1>3, <1>6
<1> QED BY <1>6, <1>7, <1>8, <1>9

(***************************************************************************)
(* The order of an export.                                                 *)
(***************************************************************************)

\* Every ignore-previous-rules comes after all other rules.
IgnoresLast(rules) ==
  \A i, j \in DOMAIN rules : Ignores(rules[j]) /\ ~Ignores(rules[i]) => i < j

LEMMA JoinedIgnoresLast ==
  ASSUME NEW S, NEW a \in Seq(S), NEW b \in Seq(S), IgnoresLast(a),
         \A x \in ToSet(b) : Ignores(x),
         IgnoresLast(b)
  PROVE  IgnoresLast(a \o b)
<1>1. /\ a \o b \in Seq(S) /\ Len(a) \in Nat /\ Len(b) \in Nat /\ Len(a \o b) = Len(a) + Len(b)
      /\ \A i \in 1 .. Len(a) + Len(b) : (a \o b)[i] = IF i <= Len(a) THEN a[i] ELSE b[i - Len(a)]
      /\ DOMAIN a = 1 .. Len(a) /\ DOMAIN b = 1 .. Len(b) /\ DOMAIN (a \o b) = 1 .. Len(a) + Len(b)
  BY ConcatProperties
<1>2. \A i \in 1 .. Len(b) : Ignores(b[i])
  BY <1>1 DEF ToSet
<1> DEFINE c == a \o b
<1> SUFFICES ASSUME NEW i \in DOMAIN c, NEW j \in DOMAIN c, Ignores(c[j]), ~Ignores(c[i]) PROVE i < j
  BY DEF IgnoresLast
<1> HIDE DEF c
<1>3. i <= Len(a) /\ c[i] = a[i]
  <2>1. CASE i > Len(a)
    <3>1. c[i] = b[i - Len(a)] /\ i - Len(a) \in 1 .. Len(b)
      BY <1>1, <2>1 DEF c
    <3> QED BY <1>2, <3>1
  <2>2. i \in 1 .. Len(a) + Len(b)
    BY <1>1 DEF c
  <2> QED BY <1>1, <2>1, <2>2 DEF c
<1>4. CASE j <= Len(a)
  <2>1. c[j] = a[j] /\ i \in 1 .. Len(a) /\ j \in 1 .. Len(a)
    BY <1>1, <1>3, <1>4 DEF c
  <2> QED BY <1>1, <1>3, <2>1 DEF IgnoresLast
<1>5. CASE j > Len(a)
  BY <1>1, <1>3, <1>5 DEF c
<1> QED BY <1>1, <1>4, <1>5 DEF c

\* Ordering changes nothing but the order.
LEMMA OrderedHolds ==
  ASSUME NEW S, NEW rules \in Seq(S)
  PROVE  /\ Ordered(rules) \in Seq(S)
         /\ \A x : x \in ToSet(Ordered(rules)) <=> x \in ToSet(rules)
         /\ IgnoresLast(Ordered(rules))
<1> DEFINE I == {rule \in ToSet(rules) : Ignores(rule)}
           O == ToSet(rules) \ I
           a == Those(rules, O)
           b == Those(rules, I)
<1>1. Ordered(rules) = a \o b
  BY DEF Ordered, Those
<1>2. /\ a \in Seq(S) /\ \A x : x \in ToSet(a) <=> x \in ToSet(rules) /\ x \in O
      /\ b \in Seq(S) /\ \A x : x \in ToSet(b) <=> x \in ToSet(rules) /\ x \in I
  <2> HIDE DEF O, I
  <2> QED BY ThoseHold
<1> HIDE DEF a, b
<1>3. /\ a \o b \in Seq(S)
      /\ \A x : x \in ToSet(a \o b) <=> x \in ToSet(a) \/ x \in ToSet(b)
  BY <1>2, BothHold
<1>4. (\A x \in ToSet(b) : Ignores(x)) /\ \A x \in ToSet(a) : ~Ignores(x)
  BY <1>2
<1>5. IgnoresLast(a) /\ IgnoresLast(b)
  BY <1>4 DEF IgnoresLast, ToSet
<1>6. IgnoresLast(a \o b)
  BY <1>2, <1>4, <1>5, JoinedIgnoresLast
<1>7. \A x : x \in ToSet(a) \/ x \in ToSet(b) <=> x \in ToSet(rules)
  BY <1>2
<1> QED BY <1>1, <1>3, <1>6, <1>7

\* In such an order, Safari blocks what a triggered rule blocks unless one that
\* ignores is triggered.
LEMMA SafariInOrder ==
  ASSUME NEW rules, NEW r, DOMAIN rules \subseteq Int, IgnoresLast(rules)
  PROVE  SafariBlocks(rules, r) <=>
           /\ \E x \in ToSet(rules) : x.action = "block" /\ Triggered(x, r)
           /\ ~\E x \in ToSet(rules) : Ignores(x) /\ Triggered(x, r)
<1>1. ASSUME SafariBlocks(rules, r)
      PROVE  /\ \E x \in ToSet(rules) : x.action = "block" /\ Triggered(x, r)
             /\ ~\E x \in ToSet(rules) : Ignores(x) /\ Triggered(x, r)
  <2>1. PICK i \in DOMAIN rules :
          /\ Triggered(rules[i], r) /\ rules[i].action = "block"
          /\ \A j \in DOMAIN rules : Triggered(rules[j], r) /\ Ignores(rules[j]) => j < i
    BY <1>1 DEF SafariBlocks
  <2>2. ~Ignores(rules[i])
    BY <2>1 DEF Ignores
  <2>3. ASSUME NEW j \in DOMAIN rules, Triggered(rules[j], r), Ignores(rules[j]) PROVE FALSE
    <3>1. j < i /\ i < j /\ i \in Int /\ j \in Int
      BY <2>1, <2>2, <2>3 DEF IgnoresLast
    <3> QED BY <3>1
  <2> QED BY <2>1, <2>3 DEF ToSet
<1>2. ASSUME NEW x \in ToSet(rules), x.action = "block", Triggered(x, r),
             ~\E y \in ToSet(rules) : Ignores(y) /\ Triggered(y, r)
      PROVE  SafariBlocks(rules, r)
  BY <1>2 DEF SafariBlocks, ToSet
<1> QED BY <1>1, <1>2

(***************************************************************************)
(* What a rule is exported as.                                             *)
(***************************************************************************)

\* The rules that are made of lines.
RuleLine  == {line \in ListLine : line.is \in {"network", "hosts"}}
RuleOf    == {NetworkRule(line) : line \in RuleLine}

Shapes == [name : STRING, on : BOOLEAN, value : STRING, domains : SUBSET [on : BOOLEAN, name : Domain]]

LEMMA RuleShape ==
  ASSUME LinesShaped, NEW rule \in RuleOf
  PROVE  /\ rule = [text |-> rule.text, pattern |-> rule.pattern, filter |-> NetworkFilter(rule.text)]
         /\ rule.text.options \in Seq(Shapes)
<1>1. PICK line \in RuleLine : rule = NetworkRule(line)
  BY DEF RuleOf
<1>2. TextOf(line).options \in Seq(Shapes)
  <2>1. CASE line.is = "hosts"
    BY <2>1, EmptySeq DEF TextOf, HostText
  <2>2. CASE line.is # "hosts"
    BY <2>2 DEF TextOf, LinesShaped, RuleLine, Shapes
  <2> QED BY <2>1, <2>2
<1> QED BY <1>1, <1>2 DEF NetworkRule

\* The names of a domain option.
NamesOf(o, sign) == {d.name : d \in {e \in o.domains : e.on = sign}}

\* None is none of the values that exported rules compare with it.
LEMMA NoneIsNoSet ==
  ASSUME LinesShaped, NEW S, S \subseteq Domain \/ S \subseteq CbType PROVE S # None
BY DEF LinesShaped

\* A rule with at most one domain option has the domains of that option which
\* are supported; without one it has none.
LEMMA DomainsOfRule ==
  ASSUME LinesShaped, NEW t, t.options \in Seq(Shapes),
         Cardinality({i \in DOMAIN t.options : t.options[i].name = "domain"}) <= 1,
         HasDomains(NetworkFilter(t))
  PROVE  \E o \in Given(t) :
           /\ o.name = "domain" /\ \A p \in Given(t) : p.name = "domain" => p = o
           /\ DomainOptions(t) # {} => \A sign \in BOOLEAN : RawDomains(t, sign) = NamesOf(o, sign)
           /\ NetworkFilter(t).domains = NonEmpty(ListNames(o, TRUE))
           /\ NetworkFilter(t).notDomains = NonEmpty(ListNames(o, FALSE))
<1> DEFINE s == AppliedUpTo(t)
<1>1. Reflects(s, t.exception, Given(t))
  BY AppliedReflects
<1>2. NetworkFilter(t).domains = s.domains /\ NetworkFilter(t).notDomains = s.notDomains
  BY DEF NetworkFilter
<1> HIDE DEF s
<1>3. \A i, j \in DOMAIN t.options : t.options[i].name = "domain" /\ t.options[j].name = "domain" => i = j
  <2>1. Count(t.options, {"domain"}) <= 1
    <3>1. {i \in DOMAIN t.options : t.options[i].name \in {"domain"}}
            = {i \in DOMAIN t.options : t.options[i].name = "domain"}
      OBVIOUS
    <3> QED BY <3>1 DEF Count
  <2>2. \A i, j \in DOMAIN t.options :
          t.options[i].name \in {"domain"} /\ t.options[j].name \in {"domain"} => i = j
    BY <2>1, CountFacts
  <2> QED BY <2>2
<1>4. PICK i \in DOMAIN t.options : t.options[i].name = "domain"
  <2>1. SUFFICES ASSUME \A i \in DOMAIN t.options : t.options[i].name # "domain" PROVE FALSE
    OBVIOUS
  <2>2. \A o \in Given(t) : o.name # "domain"
    BY <2>1 DEF Given
  <2>3. s.domains = None /\ s.notDomains = None
    BY <1>1, <2>2 DEF Reflects, IsList
  <2> QED BY <1>2, <2>3 DEF HasDomains
<1> DEFINE o == t.options[i]
<1>5. o \in Given(t) /\ \A p \in Given(t) : p.name = "domain" => p = o
  BY <1>3, <1>4 DEF Given
<1>6. DomainOptions(t) # {} => \A sign \in BOOLEAN : RawDomains(t, sign) = NamesOf(o, sign)
  <2> SUFFICES ASSUME DomainOptions(t) # {}, NEW sign \in BOOLEAN PROVE RawDomains(t, sign) = NamesOf(o, sign)
    OBVIOUS
  <2>1. DomainOptions(t) = {i} /\ i \in Int
    BY <1>3, <1>4 DEF DomainOptions
  <2>2. Min(DomainOptions(t)) = i
    BY <2>1 DEF Min
  <2> QED BY <2>2 DEF RawDomains, NamesOf
<1> HIDE DEF o
<1>7. s.domains = NonEmpty(ListNames(o, TRUE))
  <2>1. CASE ListNames(o, TRUE) = {}
    <3>1. \A p \in Given(t) : ~IsList(p, TRUE)
      BY <1>5, <2>1 DEF IsList
    <3> QED BY <1>1, <2>1, <3>1 DEF Reflects, NonEmpty
  <2>2. CASE ListNames(o, TRUE) # {}
    <3>1. IsList(o, TRUE) /\ \A p \in Given(t) : IsList(p, TRUE) => p = o
      BY <1>4, <1>5, <2>2 DEF IsList, o
    <3> QED BY <1>1, <1>5, <2>2, <3>1 DEF Reflects, NonEmpty
  <2> QED BY <2>1, <2>2
<1>8. s.notDomains = NonEmpty(ListNames(o, FALSE))
  <2>1. CASE ListNames(o, FALSE) = {}
    <3>1. \A p \in Given(t) : ~IsList(p, FALSE)
      BY <1>5, <2>1 DEF IsList
    <3> QED BY <1>1, <2>1, <3>1 DEF Reflects, NonEmpty
  <2>2. CASE ListNames(o, FALSE) # {}
    <3>1. IsList(o, FALSE) /\ \A p \in Given(t) : IsList(p, FALSE) => p = o
      BY <1>4, <1>5, <2>2 DEF IsList, o
    <3> QED BY <1>1, <1>5, <2>2, <3>1 DEF Reflects, NonEmpty
  <2> QED BY <2>1, <2>2
<1> QED BY <1>2, <1>4, <1>5, <1>6, <1>7, <1>8 DEF o

\* The domains of a request, as an exported rule looks at them.
DomainsMet(yes, no, r) ==
  /\ yes = None \/ yes \cap r.source # {}
  /\ no = None \/ no \cap r.source = {}

\* They say what the filter's domains say.
LEMMA DomainsExported ==
  ASSUME LinesShaped, NEW rule \in RuleOf, Clear(rule), Convertible(rule.filter, rule.text),
         NEW r \in SafariRequest
  PROVE  DomainsMet(DomainsFor(rule, TRUE), DomainsFor(rule, FALSE), r) <=> CheckDomains(rule.filter, r)
<1> DEFINE t == rule.text
           f == rule.filter
<1>1. f = NetworkFilter(t) /\ t.options \in Seq(Shapes)
  BY RuleShape
<1>2. r.source \in SUBSET (Domain \ RegexDomain) /\ r.source # None
  BY NoneIsNoSet DEF SafariRequest
<1>3. CASE ~HasDomains(f)
  BY <1>3 DEF DomainsMet, DomainsFor, CheckDomains, HasDomains
<1>4. CASE HasDomains(f)
  <2>1. /\ DomainOptions(t) # {}
        /\ RawDomains(t, TRUE) = {} \/ RawDomains(t, FALSE) = {}
    BY <1>4 DEF Convertible
  <2>2. PICK o \in Given(t) :
          /\ \A sign \in BOOLEAN : RawDomains(t, sign) = NamesOf(o, sign)
          /\ f.domains = NonEmpty(ListNames(o, TRUE))
          /\ f.notDomains = NonEmpty(ListNames(o, FALSE))
    <3>1. Cardinality({i \in DOMAIN t.options : t.options[i].name = "domain"}) <= 1
      BY DEF Clear
    <3> HIDE DEF t
    <3> QED BY <1>1, <1>4, <2>1, <3>1, DomainsOfRule
  <2>3. o \in Shapes
    BY <1>1, ElementOfSeq DEF Given
  <2> DEFINE yes == NamesOf(o, TRUE)
             no  == NamesOf(o, FALSE)
  <2>4. yes \subseteq Domain /\ no \subseteq Domain
    BY <2>3 DEF NamesOf, Shapes
  <2>5. ListNames(o, TRUE) = yes \ RegexDomain /\ ListNames(o, FALSE) = no \ RegexDomain
    BY DEF ListNames, Supported, NamesOf
  <2> HIDE DEF t, f, yes, no
  <2>6. /\ f.domains = NonEmpty(yes \ RegexDomain) /\ f.notDomains = NonEmpty(no \ RegexDomain)
        /\ yes = {} \/ no = {}
        /\ DomainsFor(rule, TRUE) = NonEmpty(yes) /\ DomainsFor(rule, FALSE) = NonEmpty(no)
    BY <1>4, <2>1, <2>2, <2>5 DEF yes, no, DomainsFor, f, t
  <2>7. \A S : S \subseteq Domain => S # None
    BY NoneIsNoSet
  <2>8. \A S : S \subseteq Domain => (NonEmpty(S) = None <=> S = {}) /\ (S # {} => NonEmpty(S) = S)
    BY <2>7 DEF NonEmpty
  <2>9. yes \ RegexDomain # {} \/ no \ RegexDomain # {}
    BY <1>4, <2>6 DEF HasDomains, NonEmpty, f
  <2>10. (yes \ RegexDomain) \cap r.source = yes \cap r.source /\ (no \ RegexDomain) \cap r.source = no \cap r.source
    BY <1>2
  <2>11. yes \ RegexDomain \subseteq Domain /\ no \ RegexDomain \subseteq Domain
    BY <2>4
  <2>12. CASE yes = {}
    <3>1. f.domains = None /\ DomainsFor(rule, TRUE) = None /\ f.notDomains = no \ RegexDomain /\ DomainsFor(rule, FALSE) = no
      BY <2>4, <2>6, <2>8, <2>9, <2>11, <2>12
    <3>2. no # None /\ no \ RegexDomain # None
      BY <2>4, <2>7, <2>11
    <3> QED BY <1>2, <2>10, <3>1, <3>2 DEF DomainsMet, CheckDomains, f
  <2>13. CASE yes # {}
    <3>1. /\ f.notDomains = None /\ DomainsFor(rule, FALSE) = None
          /\ f.domains = yes \ RegexDomain /\ DomainsFor(rule, TRUE) = yes
      BY <2>4, <2>6, <2>8, <2>9, <2>11, <2>13
    <3>2. yes # None /\ yes \ RegexDomain # None
      BY <2>4, <2>7, <2>11
    <3> QED BY <1>2, <2>10, <3>1, <3>2 DEF DomainsMet, CheckDomains, f
  <2> QED BY <2>12, <2>13
<1> QED BY <1>3, <1>4

\* A type is exported under a name of its own.
LEMMA TypesExported ==
  ASSUME NEW mask, NEW type \in DOMAIN CbTypeOf
  PROVE  /\ CbTypeOf[type] \in CbTypes(mask) <=> type \in mask
         /\ CbTypeOf[type] = "document" <=> type = "subdocument"
         /\ type \in NetworkType /\ type # "document"
         /\ CbTypes(mask) \subseteq CbType
<1>1. DOMAIN CbTypeOf = {"image", "media", "script", "stylesheet", "subdocument", "xmlhttprequest", "font"}
  BY DEF CbTypeOf
<1>2. \A a, b \in DOMAIN CbTypeOf : CbTypeOf[a] = CbTypeOf[b] => a = b
  BY <1>1 DEF CbTypeOf
<1>3. CbTypeOf[type] \in CbTypes(mask) <=> type \in mask
  BY <1>2 DEF CbTypes
<1>4. CbTypeOf[type] = "document" <=> type = "subdocument"
  BY <1>1 DEF CbTypeOf
<1>5. type \in NetworkType /\ type # "document"
  BY <1>1 DEF NetworkType
<1>6. CbTypes(mask) \subseteq CbType
  BY DEF CbTypes, CbType
<1> QED BY <1>3, <1>4, <1>5, <1>6

\* A trigger's load is the party that a mask names, if it names one.
LEMMA LoadExported ==
  ASSUME NEW mask, mask \cap {"thirdParty", "firstParty"} # {}, NEW party \in {"thirdParty", "firstParty"}
  PROVE  LoadOf(mask) = {} \/ party \in LoadOf(mask) <=> party \in mask
<1> DEFINE P == mask \cap {"thirdParty", "firstParty"}
<1>1. CASE P = {"thirdParty", "firstParty"}
  <2>1. Cardinality(P) = 2
    <3>1. P = {"thirdParty"} \cup {"firstParty"} /\ "firstParty" \notin {"thirdParty"}
      BY <1>1
    <3>2. IsFiniteSet({"thirdParty"}) /\ Cardinality({"thirdParty"}) = 1
      BY FS_Singleton
    <3> QED BY <3>1, <3>2, FS_AddElement
  <2>2. LoadOf(mask) = {}
    BY <2>1 DEF LoadOf
  <2> QED BY <1>1, <2>2
<1>2. CASE P # {"thirdParty", "firstParty"}
  <2>1. P = {"thirdParty"} \/ P = {"firstParty"}
    BY <1>2
  <2>2. Cardinality(P) = 1
    BY <2>1, FS_Singleton
  <2>3. LoadOf(mask) = P
    BY <2>2 DEF LoadOf
  <2> QED BY <2>1, <2>3
<1> QED BY <1>1, <1>2

ActionOf(rule) == IF "exception" \in rule.filter.mask THEN "ignore-previous-rules" ELSE "block"
SplitOff(rule) ==
  /\ TypesFor(rule.filter.mask) # None /\ {"document"} \subseteq TypesFor(rule.filter.mask) /\ TypesFor(rule.filter.mask) # {"document"}
  /\ LoadOf(rule.filter.mask) = {}

LEMMA EquivalentOf ==
  ASSUME NEW rule
  PROVE  CbEquivalent(rule) =
           IF ~Convertible(rule.filter, rule.text) THEN << >>
           ELSE IF SplitOff(rule)
           THEN <<CbNetworkRule(rule, TypesFor(rule.filter.mask) \ {"document"}, LoadOf(rule.filter.mask)),
                  CbNetworkRule(rule, {"document"}, {"thirdParty"})>>
           ELSE <<CbNetworkRule(rule, TypesFor(rule.filter.mask), LoadOf(rule.filter.mask))>>
BY DEF CbEquivalent, SplitOff

TypesMet(types, load, r) ==
  /\ types = None \/ CbTypeOf[r.type] \in types
  /\ load = {} \/ (IF r.third THEN "thirdParty" ELSE "firstParty") \in load

LEMMA TriggeredAs ==
  ASSUME NEW rule, NEW types, NEW load, NEW r
  PROVE  Triggered(CbNetworkRule(rule, types, load), r) <=>
           /\ rule.pattern \in r.found /\ TypesMet(types, load, r)
           /\ DomainsMet(DomainsFor(rule, TRUE), DomainsFor(rule, FALSE), r)
BY DEF CbNetworkRule, Triggered, TypesMet, DomainsMet

\* The types and the party of a rule that can be exported.
LEMMA OptionsExported ==
  ASSUME LinesShaped, NEW rule \in RuleOf, Clear(rule), Convertible(rule.filter, rule.text), ~IsBad(rule),
         NEW r \in SafariRequest
  PROVE  CheckOptions(rule.filter.mask, r) <=>
           IF SplitOff(rule)
           THEN \/ TypesMet(TypesFor(rule.filter.mask) \ {"document"}, LoadOf(rule.filter.mask), r)
                \/ TypesMet({"document"}, {"thirdParty"}, r)
           ELSE TypesMet(TypesFor(rule.filter.mask), LoadOf(rule.filter.mask), r)
<1> DEFINE mask  == rule.filter.mask
           party == IF r.third THEN "thirdParty" ELSE "firstParty"
           load  == LoadOf(mask)
           types == TypesFor(rule.filter.mask)
<1>1. r.type \in DOMAIN CbTypeOf /\ (r.type = "subdocument" => r.third)
  BY DEF SafariRequest
<1>2. /\ \A S : CbTypeOf[r.type] \in CbTypes(S) <=> r.type \in S
      /\ CbTypeOf[r.type] = "document" <=> r.type = "subdocument"
      /\ r.type \in NetworkType /\ r.type # "document"
      /\ CbTypes(mask) \subseteq CbType
  BY <1>1, TypesExported
<1>3. load = {} \/ party \in load <=> party \in mask
  BY LoadExported DEF Clear
<1>4. CheckOptions(mask, r) <=> r.type \in mask /\ party \in mask
  BY <1>2 DEF CheckOptions, IsBad
<1>5. types = None \/ CbTypeOf[r.type] \in types <=> r.type \in mask
  <2>1. CASE NetworkType \subseteq mask
    BY <1>2, <2>1 DEF TypesFor
  <2>2. CASE ~(NetworkType \subseteq mask)
    <3>1. types = CbTypes(mask)
      BY <2>2 DEF TypesFor
    <3>2. types # None
      BY <1>2, <3>1, NoneIsNoSet
    <3> QED BY <1>2, <3>1, <3>2
  <2> QED BY <2>1, <2>2
<1>6. types # None => types \ {"document"} # None /\ {"document"} # None
  <2>1. types # None => types \ {"document"} \subseteq CbType
    BY <1>2 DEF TypesFor
  <2>2. {"document"} \subseteq CbType
    BY <1>2, "subdocument" \in DOMAIN CbTypeOf DEF CbType, CbTypeOf
  <2> QED BY <2>1, <2>2, NoneIsNoSet
<1>7. party = "thirdParty" <=> r.third
  OBVIOUS
<1> HIDE DEF load, types, party
<1>8. CASE SplitOff(rule)
  <2>1. types # None /\ load = {}
    BY <1>8 DEF SplitOff, types, load
  <2>2. TypesMet(types \ {"document"}, load, r) <=> CbTypeOf[r.type] \in types /\ CbTypeOf[r.type] # "document"
    BY <1>6, <2>1 DEF TypesMet
  <2>3. TypesMet({"document"}, {"thirdParty"}, r) <=> CbTypeOf[r.type] = "document" /\ r.third
    BY <1>6, <2>1 DEF TypesMet
  <2>4. "document" \in types
    BY <1>8 DEF SplitOff, types
  <2>5. party \in mask
    BY <1>3, <2>1
  <2> QED BY <1>1, <1>2, <1>4, <1>5, <1>8, <2>1, <2>2, <2>3, <2>4, <2>5 DEF types, load
<1>9. CASE ~SplitOff(rule)
  <2>1. TypesMet(types, load, r) <=> (types = None \/ CbTypeOf[r.type] \in types) /\ (load = {} \/ party \in load)
    BY DEF TypesMet, party
  <2> QED BY <1>3, <1>4, <1>5, <1>9, <2>1 DEF types, load
<1> QED BY <1>8, <1>9

\* A rule is exported as rules that are triggered by the requests it concerns.
LEMMA EquivalentMeans ==
  ASSUME LinesShaped, NEW rule \in RuleOf, Clear(rule), ~IsBad(rule), CbEquivalent(rule) # << >>,
         NEW r \in SafariRequest
  PROVE  (\E x \in ToSet(CbEquivalent(rule)) : Triggered(x, r)) <=> Concerns(rule, r)
<1> DEFINE load  == LoadOf(rule.filter.mask)
           types == TypesFor(rule.filter.mask)
           met   == DomainsMet(DomainsFor(rule, TRUE), DomainsFor(rule, FALSE), r)
<1>1. Convertible(rule.filter, rule.text)
  BY EquivalentOf
<1>2. /\ CheckOptions(rule.filter.mask, r) <=>
           IF SplitOff(rule)
           THEN TypesMet(types \ {"document"}, load, r) \/ TypesMet({"document"}, {"thirdParty"}, r)
           ELSE TypesMet(types, load, r)
      /\ CheckDomains(rule.filter, r) <=> met
  BY <1>1, OptionsExported, DomainsExported
<1>3. \A a, b : Triggered(CbNetworkRule(rule, a, b), r) <=> rule.pattern \in r.found /\ TypesMet(a, b, r) /\ met
  BY TriggeredAs
<1>4. Concerns(rule, r) <=> rule.pattern \in r.found /\ CheckOptions(rule.filter.mask, r) /\ met
  BY <1>2 DEF Concerns, OpenTo
<1> HIDE DEF load, types, met
<1>5. CASE SplitOff(rule)
  <2> DEFINE a == CbNetworkRule(rule, types \ {"document"}, load)
             b == CbNetworkRule(rule, {"document"}, {"thirdParty"})
  <2>1. CbEquivalent(rule) = <<a, b>>
    BY <1>1, <1>5, EquivalentOf DEF types, load
  <2> HIDE DEF a, b
  <2>2. ToSet(CbEquivalent(rule)) = {a, b}
    BY <2>1 DEF ToSet
  <2> QED BY <1>2, <1>3, <1>4, <1>5, <2>2 DEF a, b
<1>6. CASE ~SplitOff(rule)
  <2> DEFINE a == CbNetworkRule(rule, types, load)
  <2>1. CbEquivalent(rule) = <<a>>
    BY <1>1, <1>6, EquivalentOf DEF types, load
  <2> HIDE DEF a
  <2>2. ToSet(CbEquivalent(rule)) = {a}
    BY <2>1 DEF ToSet
  <2> QED BY <1>2, <1>3, <1>4, <1>6, <2>2 DEF a
<1> QED BY <1>5, <1>6

\* They are a sequence, and do what the rule does.
LEMMA EquivalentActs ==
  ASSUME NEW rule
  PROVE  /\ CbEquivalent(rule) \in Seq(ToSet(CbEquivalent(rule)))
         /\ \A x \in ToSet(CbEquivalent(rule)) : x.action = ActionOf(rule)
<1>1. \A types, load : CbNetworkRule(rule, types, load).action = ActionOf(rule)
  BY DEF CbNetworkRule, ActionOf
<1>2. \A x : <<x>> \in Seq({x}) /\ ToSet(<<x>>) = {x}
  BY DEF ToSet
<1>3. \A x, y : <<x, y>> \in Seq({x, y}) /\ ToSet(<<x, y>>) = {x, y}
  BY DEF ToSet
<1>4. << >> \in Seq({}) /\ ToSet(<< >>) = {}
  BY EmptySeq DEF ToSet
<1> DEFINE e == CbEquivalent(rule)
<1>5. \/ e = << >>
      \/ \E types, load : e = <<CbNetworkRule(rule, types, load)>>
      \/ \E types, load, types2, load2 :
           e = <<CbNetworkRule(rule, types, load), CbNetworkRule(rule, types2, load2)>>
  <2> HIDE DEF e
  <2>1. \/ e = << >>
        \/ e = <<CbNetworkRule(rule, TypesFor(rule.filter.mask), LoadOf(rule.filter.mask))>>
        \/ e = <<CbNetworkRule(rule, TypesFor(rule.filter.mask) \ {"document"}, LoadOf(rule.filter.mask)),
                 CbNetworkRule(rule, {"document"}, {"thirdParty"})>>
    BY EquivalentOf, Zenon DEF e
  <2> QED BY <2>1
<1> HIDE DEF e
<1>6. e \in Seq(ToSet(e)) /\ \A x \in ToSet(e) : x.action = ActionOf(rule)
  <2>1. CASE e = << >>
    BY <1>4, <2>1
  <2>2. ASSUME NEW types, NEW load, e = <<CbNetworkRule(rule, types, load)>>
        PROVE  e \in Seq(ToSet(e)) /\ \A x \in ToSet(e) : x.action = ActionOf(rule)
    BY <1>1, <1>2, <2>2
  <2>3. ASSUME NEW types, NEW load, NEW types2, NEW load2,
               e = <<CbNetworkRule(rule, types, load), CbNetworkRule(rule, types2, load2)>>
        PROVE  e \in Seq(ToSet(e)) /\ \A x \in ToSet(e) : x.action = ActionOf(rule)
    BY <1>1, <1>3, <2>3
  <2> QED BY <1>5, <2>1, <2>2, <2>3
<1> QED BY <1>6 DEF e

\* A hiding rule neither blocks nor ignores.
LEMMA HidingActs ==
  ASSUME NEW rule
  PROVE  /\ CbHiding(rule) \in Seq(ToSet(CbHiding(rule)))
         /\ \A x \in ToSet(CbHiding(rule)) : x.action = "css-display-none"
<1>1. CbHiding(rule) = << >> \/ \E x : CbHiding(rule) = <<x>> /\ x.action = "css-display-none"
  <2> DEFINE at  == NonEmpty(rule.at)
             not == NonEmpty(rule.notAt)
             x   == [CbRule("css-display-none", AnyUrl)
                     EXCEPT !.selector = rule.selector,
                            !.ifDomain = IF rule.unhide THEN not ELSE at,
                            !.unlessDomain = IF rule.unhide THEN at ELSE not]
  <2>1. CbHiding(rule) = << >> \/ CbHiding(rule) = <<x>>
    BY Zenon DEF CbHiding
  <2>2. x.action = "css-display-none"
    BY DEF CbRule
  <2> QED BY <2>1, <2>2
<1>2. \A x : <<x>> \in Seq({x}) /\ ToSet(<<x>>) = {x}
  BY DEF ToSet
<1>3. << >> \in Seq({}) /\ ToSet(<< >>) = {}
  BY EmptySeq DEF ToSet
<1> DEFINE e == CbHiding(rule)
<1> HIDE DEF e
<1>4. CASE e = << >>
  BY <1>3, <1>4 DEF e
<1>5. ASSUME NEW x, e = <<x>>, x.action = "css-display-none"
      PROVE  e \in Seq(ToSet(e)) /\ \A y \in ToSet(e) : y.action = "css-display-none"
  BY <1>2, <1>5
<1> QED BY <1>1, <1>4, <1>5 DEF e

(***************************************************************************)
(* The export.                                                             *)
(***************************************************************************)

UsedRules(given) ==
  {rule \in ToSet(given) :
     /\ RuleId(rule) \notin {Twin(bad) : bad \in {r \in ToSet(given) : IsBad(r)}}
     /\ ~IsBad(rule) /\ CbEquivalent(rule) # << >>}

NetworkPart(given) ==
  FlattenSeq([i \in DOMAIN given |-> IF given[i] \in UsedRules(given) THEN CbEquivalent(given[i]) ELSE << >>])
HidingPart(hiding) == FlattenSeq([i \in DOMAIN hiding |-> CbHiding(hiding[i])])

LEMMA ExportedParts ==
  ASSUME NEW given, NEW hiding
  PROVE  /\ Exported(given, hiding).used = UsedRules(given)
         /\ Exported(given, hiding).rules =
              Ordered(NetworkPart(given) \o HidingPart(hiding))
                \o IF UsedRules(given) = {} THEN << >> ELSE <<IgnorePreviousFpDocuments>>
<1> DEFINE u == UsedRules(given)
           p == Ordered(NetworkPart(given) \o HidingPart(hiding))
                  \o IF UsedRules(given) = {} THEN << >> ELSE <<IgnorePreviousFpDocuments>>
<1>1. Exported(given, hiding) = [rules |-> p, used |-> u]
  BY Zenon DEF Exported, UsedRules, NetworkPart, HidingPart
<1> HIDE DEF u, p
<1>2. Exported(given, hiding).used = u /\ Exported(given, hiding).rules = p
  BY <1>1
<1> QED BY <1>2 DEF u, p

LEMMA NetworkPartHolds ==
  ASSUME NEW R, NEW given \in Seq(R)
  PROVE  \E S : /\ NetworkPart(given) \in Seq(S)
                /\ \A x : x \in ToSet(NetworkPart(given)) <=>
                            \E rule \in UsedRules(given) : x \in ToSet(CbEquivalent(rule))
<1> DEFINE N  == Len(given)
           U  == UsedRules(given)
           ss == [i \in DOMAIN given |-> IF given[i] \in U THEN CbEquivalent(given[i]) ELSE << >>]
           S  == UNION {ToSet(CbEquivalent(rule)) : rule \in U}
<1>1. N \in Nat /\ DOMAIN given = 1 .. N
  OBVIOUS
<1>2. \A rule \in U : CbEquivalent(rule) \in Seq(S)
  <2> SUFFICES ASSUME NEW rule \in U PROVE CbEquivalent(rule) \in Seq(S)
    OBVIOUS
  <2> HIDE DEF U
  <2>1. ToSet(CbEquivalent(rule)) \subseteq S
    OBVIOUS
  <2>2. CbEquivalent(rule) \in Seq(ToSet(CbEquivalent(rule)))
    BY EquivalentActs
  <2> HIDE DEF S
  <2> QED BY <2>1, <2>2
<1>3. \A rule \in U : \E i \in 1 .. N : given[i] = rule
  BY <1>1 DEF UsedRules, ToSet
<1> HIDE DEF U, S
<1>4. ss \in Seq(Seq(S)) /\ DOMAIN ss = 1 .. N /\ \A i \in 1 .. N :
        ss[i] = IF given[i] \in U THEN CbEquivalent(given[i]) ELSE << >>
  <2>1. \A i \in 1 .. N : ss[i] \in Seq(S)
    BY <1>1, <1>2, EmptySeq
  <2>2. ss = [i \in 1 .. N |-> ss[i]]
    BY <1>1
  <2>3. \A i \in 1 .. N : ss[i] = IF given[i] \in U THEN CbEquivalent(given[i]) ELSE << >>
    BY <1>1
  <2> HIDE DEF ss, N
  <2> QED BY <1>1, <2>1, <2>2, <2>3
<1>5. NetworkPart(given) = FlattenSeq(ss)
  BY DEF NetworkPart, U
<1> HIDE DEF ss
<1>6. /\ FlattenSeq(ss) \in Seq(S)
      /\ \A x : x \in ToSet(FlattenSeq(ss)) <=> \E i \in DOMAIN ss : x \in ToSet(ss[i])
  BY <1>4, FlattenHolds
<1>7. ToSet(<< >>) = {}
  BY DEF ToSet
<1>8. ASSUME NEW x
      PROVE  (\E i \in DOMAIN ss : x \in ToSet(ss[i])) <=> \E rule \in U : x \in ToSet(CbEquivalent(rule))
  BY <1>3, <1>4, <1>7
<1> QED BY <1>5, <1>6, <1>8 DEF U

LEMMA HidingPartHolds ==
  ASSUME NEW R, NEW hiding \in Seq(R)
  PROVE  \E S : /\ HidingPart(hiding) \in Seq(S)
                /\ \A x \in ToSet(HidingPart(hiding)) : x.action = "css-display-none"
<1> DEFINE N  == Len(hiding)
           ss == [i \in DOMAIN hiding |-> CbHiding(hiding[i])]
           S  == UNION {ToSet(CbHiding(hiding[i])) : i \in 1 .. N}
<1>1. N \in Nat /\ DOMAIN hiding = 1 .. N
  OBVIOUS
<1>2. \A i \in 1 .. N : CbHiding(hiding[i]) \in Seq(S)
  <2> SUFFICES ASSUME NEW i \in 1 .. N PROVE CbHiding(hiding[i]) \in Seq(S)
    OBVIOUS
  <2> HIDE DEF N
  <2>1. ToSet(CbHiding(hiding[i])) \subseteq S
    OBVIOUS
  <2>2. CbHiding(hiding[i]) \in Seq(ToSet(CbHiding(hiding[i])))
    BY HidingActs
  <2> HIDE DEF S
  <2> QED BY <2>1, <2>2
<1> HIDE DEF S
<1>4. ss \in Seq(Seq(S)) /\ DOMAIN ss = 1 .. N /\ \A i \in 1 .. N : ss[i] = CbHiding(hiding[i])
  <2>2. ss = [i \in 1 .. N |-> ss[i]]
    BY <1>1
  <2>3. \A i \in 1 .. N : ss[i] = CbHiding(hiding[i])
    BY <1>1
  <2> HIDE DEF ss, N
  <2> QED BY <1>1, <1>2, <2>2, <2>3
<1>5. HidingPart(hiding) = FlattenSeq(ss)
  BY DEF HidingPart
<1> HIDE DEF ss
<1>6. /\ FlattenSeq(ss) \in Seq(S)
      /\ \A x : x \in ToSet(FlattenSeq(ss)) <=> \E i \in DOMAIN ss : x \in ToSet(ss[i])
  BY <1>4, FlattenHolds
<1> QED BY <1>4, <1>5, <1>6, HidingActs

\* The exception for documents of the first party is for none of the requests
\* considered.
LEMMA FpDocuments ==
  ASSUME LinesShaped, NEW r \in SafariRequest
  PROVE  Ignores(IgnorePreviousFpDocuments) /\ ~Triggered(IgnorePreviousFpDocuments, r)
<1> DEFINE x == IgnorePreviousFpDocuments
<1>1. x.action = "ignore-previous-rules" /\ x.types = {"document"} /\ x.load = {"firstParty"}
  BY DEF IgnorePreviousFpDocuments, CbRule
<1> HIDE DEF x
<1>2. {"document"} # None
  <2>1. {"document"} \subseteq CbType
    BY "subdocument" \in DOMAIN CbTypeOf DEF CbType, CbTypeOf
  <2> QED BY <2>1, NoneIsNoSet
<1>3. r.type \in DOMAIN CbTypeOf /\ (r.type = "subdocument" => r.third)
  BY DEF SafariRequest
<1>4. CbTypeOf[r.type] = "document" <=> r.type = "subdocument"
  BY <1>3, TypesExported
<1>5. ~Triggered(x, r)
  BY <1>1, <1>2, <1>3, <1>4 DEF Triggered
<1> QED BY <1>1, <1>5 DEF Ignores, x

\* Safari decides like the rules that it is told are in the export.
LEMMA ExportDecides ==
  ASSUME LinesShaped, NEW given \in Seq(RuleOf), NEW R, NEW hiding \in Seq(R),
         \A rule \in ToSet(given) : Clear(rule), NEW r \in SafariRequest
  PROVE  SafariBlocks(Exported(given, hiding).rules, r) <=>
           /\ \E rule \in UsedRules(given) : "exception" \notin rule.filter.mask /\ Concerns(rule, r)
           /\ ~\E rule \in UsedRules(given) : "exception" \in rule.filter.mask /\ Concerns(rule, r)
<1> DEFINE U    == UsedRules(given)
           n    == NetworkPart(given)
           h    == HidingPart(hiding)
           o    == Ordered(n \o h)
           tail == IF U = {} THEN << >> ELSE <<IgnorePreviousFpDocuments>>
<1>1. PICK A : n \in Seq(A) /\ \A x : x \in ToSet(n) <=> \E rule \in U : x \in ToSet(CbEquivalent(rule))
  BY NetworkPartHolds
<1>2. PICK B : h \in Seq(B) /\ \A x \in ToSet(h) : x.action = "css-display-none"
  BY HidingPartHolds
<1> HIDE DEF n, h
<1> DEFINE S == A \cup B \cup {IgnorePreviousFpDocuments}
<1>3. n \in Seq(S) /\ h \in Seq(S) /\ tail \in Seq(S)
  <2>1. A \subseteq S /\ B \subseteq S /\ IgnorePreviousFpDocuments \in S
    OBVIOUS
  <2> HIDE DEF S
  <2>2. tail \in Seq(S)
    BY <2>1, EmptySeq
  <2> QED BY <1>1, <1>2, <2>1, <2>2
<1> HIDE DEF S
<1>4. /\ n \o h \in Seq(S)
      /\ \A x : x \in ToSet(n \o h) <=> x \in ToSet(n) \/ x \in ToSet(h)
  BY <1>3, BothHold
<1>5. o \in Seq(S) /\ (\A x : x \in ToSet(o) <=> x \in ToSet(n \o h)) /\ IgnoresLast(o)
  BY <1>4, OrderedHolds
<1>6. \A x \in ToSet(tail) : x = IgnorePreviousFpDocuments
  BY DEF ToSet
<1>7. Ignores(IgnorePreviousFpDocuments) /\ ~Triggered(IgnorePreviousFpDocuments, r)
  BY FpDocuments
<1> HIDE DEF o, tail, U
<1>8. /\ o \o tail \in Seq(S)
      /\ \A x : x \in ToSet(o \o tail) <=> x \in ToSet(o) \/ x \in ToSet(tail)
  BY <1>3, <1>5, BothHold
<1>9. IgnoresLast(o \o tail)
  <2>1. \A x \in ToSet(tail) : Ignores(x)
    BY <1>6, <1>7
  <2>2. IgnoresLast(tail)
    BY <2>1 DEF IgnoresLast, ToSet
  <2> QED BY <1>3, <1>5, <2>1, <2>2, JoinedIgnoresLast
<1>10. SafariBlocks(o \o tail, r) <=>
         /\ \E x \in ToSet(o \o tail) : x.action = "block" /\ Triggered(x, r)
         /\ ~\E x \in ToSet(o \o tail) : Ignores(x) /\ Triggered(x, r)
  <2>1. DOMAIN (o \o tail) \subseteq Int
    BY <1>8
  <2> QED BY <1>9, <2>1, SafariInOrder
<1>11. Exported(given, hiding).rules = o \o tail
  BY ExportedParts DEF o, n, h, tail, U
<1>12. ASSUME NEW rule \in U
       PROVE  /\ (\E x \in ToSet(CbEquivalent(rule)) : Triggered(x, r)) <=> Concerns(rule, r)
              /\ \A x \in ToSet(CbEquivalent(rule)) : x.action = ActionOf(rule)
  <2>1. rule \in RuleOf /\ Clear(rule) /\ ~IsBad(rule) /\ CbEquivalent(rule) # << >>
    <3>1. rule \in ToSet(given) /\ ~IsBad(rule) /\ CbEquivalent(rule) # << >>
      BY DEF U, UsedRules
    <3>2. rule \in RuleOf
      BY <3>1, ElementOfSeq DEF ToSet
    <3> QED BY <3>1, <3>2
  <2> QED BY <2>1, EquivalentMeans, EquivalentActs
<1>13. \A rule : /\ ActionOf(rule) = "block" <=> "exception" \notin rule.filter.mask
                 /\ ActionOf(rule) = "ignore-previous-rules" <=> "exception" \in rule.filter.mask
  BY DEF ActionOf
<1>14. \A action \in {"block", "ignore-previous-rules"} :
         (\E x \in ToSet(o \o tail) : x.action = action /\ Triggered(x, r))
           <=> \E rule \in U : ActionOf(rule) = action /\ Concerns(rule, r)
  <2> SUFFICES ASSUME NEW action \in {"block", "ignore-previous-rules"}
               PROVE  (\E x \in ToSet(o \o tail) : x.action = action /\ Triggered(x, r))
                        <=> \E rule \in U : ActionOf(rule) = action /\ Concerns(rule, r)
    OBVIOUS
  <2>1. \A x : x \in ToSet(o \o tail) <=> x \in ToSet(n) \/ x \in ToSet(h) \/ x \in ToSet(tail)
    BY <1>4, <1>5, <1>8
  <2>2. \A x \in ToSet(h) : x.action # action
    BY <1>2
  <2>3. \A x \in ToSet(tail) : ~Triggered(x, r)
    BY <1>6, <1>7
  <2>4. (\E x \in ToSet(o \o tail) : x.action = action /\ Triggered(x, r))
          <=> \E x \in ToSet(n) : x.action = action /\ Triggered(x, r)
    BY <2>1, <2>2, <2>3
  <2>5. (\E x \in ToSet(n) : x.action = action /\ Triggered(x, r))
          <=> \E rule \in U : \E x \in ToSet(CbEquivalent(rule)) : x.action = action /\ Triggered(x, r)
    BY <1>1
  <2>6. \A rule \in U : (\E x \in ToSet(CbEquivalent(rule)) : x.action = action /\ Triggered(x, r))
                          <=> ActionOf(rule) = action /\ Concerns(rule, r)
    BY <1>12
  <2> QED BY <2>4, <2>5, <2>6
<1>15. \A x : Ignores(x) <=> x.action = "ignore-previous-rules"
  BY DEF Ignores
<1> QED BY <1>10, <1>11, <1>13, <1>14, <1>15 DEF U

\* What a filter set holds comes from lines.
FilterSetInv == network \in Seq(RuleOf) /\ cosmetic \in Seq(ListLine)

LEMMA FilterSetInductive ==
  /\ ListsInit => FilterSetInv
  /\ FilterSetInv /\ [ListsNext]_listVars => FilterSetInv'
<1>1. ListsInit => FilterSetInv
  BY EmptySeq DEF ListsInit, FilterSetInv
<1>2. ASSUME FilterSetInv, [ListsNext]_listVars PROVE FilterSetInv'
  <2>1. CASE UNCHANGED listVars
    BY <1>2, <2>1 DEF listVars, FilterSetInv
  <2>2. ASSUME NEW options \in ParseOptions, AddFilterList(options) PROVE FilterSetInv'
    BY <1>2, <2>2 DEF AddFilterList, FilterSetInv
  <2>3. ASSUME NEW line \in ListLine, AddListLine(line) PROVE FilterSetInv'
    <3>1. IsNetwork(line) => NetworkRule(line) \in RuleOf
      BY DEF IsNetwork, RuleOf, RuleLine
    <3>2. /\ network' = IF IsNetwork(line) THEN Append(network, NetworkRule(line)) ELSE network
          /\ cosmetic' = IF IsCosmetic(line) THEN Append(cosmetic, line) ELSE cosmetic
      BY <2>3 DEF AddListLine
    <3>3. network' \in Seq(RuleOf)
      BY <1>2, <3>1, <3>2 DEF FilterSetInv
    <3>4. cosmetic' \in Seq(ListLine)
      BY <1>2, <3>2 DEF FilterSetInv
    <3> QED BY <3>3, <3>4 DEF FilterSetInv
  <2> QED BY <1>2, <2>1, <2>2, <2>3 DEF ListsNext
<1> QED BY <1>1, <1>2

\* Safari, given an export, blocks what the rules reported as used block and
\* except, whatever the order of exceptions, and none of these rules is one
\* that a badfilter cancels.
THEOREM ExportAlwaysDecides ==
  ASSUME LinesShaped PROVE ListsSpec => []ExportDecidesAsUsed
<1>1. FilterSetInv => ExportDecidesAsUsed
  <2> SUFFICES ASSUME FilterSetInv, \A rule \in ToSet(network) : Clear(rule)
               PROVE  ExportDecidesAsUsed
    BY DEF ExportDecidesAsUsed
  <2> DEFINE U == UsedRules(network)
             e == Exported(network, cosmetic)
  <2>1. e.used = U
    BY ExportedParts
  <2>2. \A r \in SafariRequest :
          SafariBlocks(e.rules, r) <=>
            /\ \E rule \in U : "exception" \notin rule.filter.mask /\ Concerns(rule, r)
            /\ ~\E rule \in U : "exception" \in rule.filter.mask /\ Concerns(rule, r)
    BY ExportDecides DEF FilterSetInv
  <2>3. \A bad \in ToSet(network), rule \in U : IsBad(bad) => Twin(bad) # RuleId(rule)
    BY DEF UsedRules
  <2> HIDE DEF U, e
  <2> QED BY <2>1, <2>2, <2>3, Zenon DEF ExportDecidesAsUsed, e
<1> QED BY <1>1, FilterSetInductive, PTL DEF ListsSpec
===============================================================================
