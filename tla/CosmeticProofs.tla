----------------------------- MODULE CosmeticProofs -----------------------------
(***************************************************************************)
(* The cosmetic rules and the resources they inject, for any rules, hosts, *)
(* resources and injections.                                               *)
(*                                                                         *)
(* Both queries answer as the rules say: the invariant is that each table  *)
(* holds what each accepted rule files there and nothing else, that no     *)
(* more than one selector is under another key for each growth of a table, *)
(* and that accepted rules are well formed: this is what parse refuses     *)
(* generic procedural rules and doubly negated exceptions for.             *)
(*                                                                         *)
(* Of the resource storage three strengthenings carry the four properties: *)
(* a name is that of its resource and an alias leads to the resource that  *)
(* has it; what is still to be visited is no alias; and the injection      *)
(* being looked at is neither to do nor done, and has its own dependencies *)
(* collected or ahead.                                                     *)
(***************************************************************************)
EXTENDS CosmeticRules, ResourceStorage, FiniteSetTheorems, TLAPS

\* What parse's refusals leave.
WellFormed(r) ==
  /\ ~r.script => r.selector \in Selector
  /\ r.unhide => r.notAt = {}
  /\ ~HasHostnameConstraint(r) => IsPlain(r)

\* Filed among the generic selectors.
FiledGeneric(r) ==
  IsPlain(r) /\ (HasHostnameConstraint(r) => HasHiddenGenericRule(r))

\* What a rule files in each table.
InSimple(r, start, k)  == FiledGeneric(r) /\ r.selector \in Exact(start) /\ k = r.selector.key
InComplex(r, start, s) == FiledGeneric(r) /\ r.selector \in Complex(start) /\ s = r.selector
InMisc(r, s)           == FiledGeneric(r) /\ r.selector \in OtherText /\ s = r.selector
InSpecific(r, p) ==
  \/ \E n \in r.at : p = <<n, FilterOf(r)>>
  \/ \E n \in r.notAt : p = <<n, Negated(FilterOf(r))>>

\* Somewhere in the table.
ComplexFiled(table, R, start) ==
  \A s : (\E p \in table : p[2] = s) <=> \E r \in R : InComplex(r, start, s)

GenericFiled(t, R) ==
  /\ \A k : k \in t.simpleClass <=> \E r \in R : InSimple(r, ".", k)
  /\ \A k : k \in t.simpleId <=> \E r \in R : InSimple(r, "#", k)
  /\ ComplexFiled(t.complexClass, R, ".")
  /\ ComplexFiled(t.complexId, R, "#")
  /\ \A s : s \in t.misc <=> \E r \in R : InMisc(r, s)

SpecificFiled(t, R) == \A p : p \in t.specific <=> \E r \in R : InSpecific(r, p)

Bounded(table) ==
  /\ IsFiniteSet(KeysOf(table)) /\ IsFiniteSet(Misplaced(table))
  /\ Cardinality(Misplaced(table)) <= Growths(table)

TablesBounded(t) == Bounded(t.complexClass) /\ Bounded(t.complexId)

IInv ==
  /\ TypeOK
  /\ \A r \in rules : WellFormed(r)
  /\ GenericFiled(tables, rules)
  /\ SpecificFiled(tables, rules)
  /\ TablesBounded(tables)

-------------------------------------------------------------------------------
(* Rules. *)

LEMMA LineFields ==
  ASSUME NEW line \in Line
  PROVE  /\ line \in LineRecord
         /\ line.locations # {} => line.located
         /\ line.body = "css" => line.selector \in Selector
         /\ line.body = "script" => line.selector \in Script /\ line.action = Null
BY LineAssumption

LEMMA RuleFields ==
  ASSUME NEW r \in Rule
  PROVE  /\ r.at \in SUBSET Name /\ r.notAt \in SUBSET Name
         /\ r.unhide \in BOOLEAN /\ r.script \in BOOLEAN
         /\ r.selector \in Selector \cup Script /\ r.action \in Action \cup {Null}
         /\ r.permission \in SUBSET Bit
BY DEF Rule

LEMMA ParsedFields ==
  ASSUME NEW line
  PROVE  LET r == ParsedRule(line)
         IN  /\ r.at = NamesOf(line, FALSE) /\ r.notAt = NamesOf(line, TRUE)
             /\ r.unhide = Unhides(line) /\ r.script = (line.body = "script")
             /\ r.selector = line.selector /\ r.action = line.action
             /\ r.permission = line.permission
BY DEF ParsedRule

\* Whatever parse accepts is a rule, and well formed.
LEMMA AcceptedIsWellFormed ==
  ASSUME NEW line \in Line, Accepted(line)
  PROVE  ParsedRule(line) \in Rule /\ WellFormed(ParsedRule(line))
<1> DEFINE r == ParsedRule(line)
<1>1. line \in LineRecord /\ (line.body = "css" => line.selector \in Selector)
      /\ (line.body = "script" => line.selector \in Script /\ line.action = Null)
  BY LineFields
<1>2. line.body \in {"css", "script"} /\ (line.body = "css" => line.action # "invalid")
  BY <1>1 DEF Accepted, BadBody, LineRecord
<1>3. line.locations \subseteq Location  BY <1>1 DEF LineRecord
<1>4. NamesOf(line, FALSE) \subseteq Name /\ NamesOf(line, TRUE) \subseteq Name
  BY <1>3 DEF NamesOf, Location
<1>5. Unhides(line) \in BOOLEAN /\ line.selector \in Selector \cup Script
      /\ line.action \in Action \cup {Null} /\ line.permission \in SUBSET Bit
  BY <1>1, <1>2 DEF Unhides, LineRecord
<1>6. r \in Rule  BY <1>4, <1>5 DEF ParsedRule, Rule
<1>7. ~r.script => r.selector \in Selector  BY <1>1, <1>2, ParsedFields
<1>8. ASSUME r.unhide PROVE r.notAt = {}
  <2>1. Unhides(line)  BY <1>8, ParsedFields
  <2>2. NamesOf(line, TRUE) = {}  BY <2>1 DEF Accepted, BadException
  <2> QED  BY <2>2, ParsedFields
<1>9. ~HasHostnameConstraint(r) => IsPlain(r)  BY DEF Accepted, GenericAction
<1> QED  BY <1>6, <1>7, <1>8, <1>9 DEF WellFormed

-------------------------------------------------------------------------------
(* Filing. *)

LEMMA FilterFields ==
  ASSUME NEW r \in Rule
  PROVE  /\ FilterOf(r) \in Filter /\ Negated(FilterOf(r)) \in Filter
         /\ FilterOf(r).kind = KindOf(r) /\ FilterOf(r).except = r.unhide
         /\ FilterOf(r).text = r.selector /\ FilterOf(r).action = r.action
         /\ FilterOf(r).permission = r.permission
         /\ Negated(FilterOf(r)).kind = KindOf(r) /\ Negated(FilterOf(r)).except = ~r.unhide
         /\ Negated(FilterOf(r)).text = r.selector /\ Negated(FilterOf(r)).action = r.action
         /\ Negated(FilterOf(r)).permission = r.permission
<1>1. KindOf(r) \in {"hide", "inject", "act"}  BY DEF KindOf
<1>2. FilterOf(r) \in Filter  BY <1>1, RuleFields DEF FilterOf, Filter
<1>3. Negated(FilterOf(r)) =
        [kind |-> KindOf(r), except |-> ~r.unhide, text |-> r.selector,
         action |-> r.action, permission |-> r.permission]
  BY RuleFields DEF Negated, FilterOf
<1>4. Negated(FilterOf(r)) \in Filter
  <2>1. (~r.unhide) \in BOOLEAN  BY RuleFields
  <2> QED  BY <1>1, <1>3, <2>1, RuleFields DEF Filter
<1> QED  BY <1>2, <1>3, <1>4 DEF FilterOf

\* The keys of a table of complex selectors.
LEMMA KeysAre ==
  ASSUME NEW start, NEW table \in SUBSET ((Key(start) \cup {Null}) \X Complex(start))
  PROVE  KeysOf(table) \subseteq Key(start)
<1> SUFFICES ASSUME NEW p \in table PROVE p[2].key \in Key(start)
  BY DEF KeysOf
<1>1. p[2] \in Complex(start)  OBVIOUS
<1> QED  BY <1>1 DEF Complex, Key

With(table, k, s) == table \cup {<<k, s>>}

\* A push reaches the key it is for, unless this is new and the table grows.
LEMMA PushReaches ==
  ASSUME NEW table, NEW s, NEW u \in Pushed(table, s)
  PROVE  \E k \in KeysOf(table) \cup {s.key, Null} :
           /\ u = With(table, k, s)
           /\ k # s.key => s.key \notin KeysOf(table) /\ Grows(Cardinality(KeysOf(table)) + 1)
BY DEF Pushed, GetOrInsert, With

LEMMA PushedType ==
  ASSUME NEW start, NEW table \in SUBSET ((Key(start) \cup {Null}) \X Complex(start)),
         NEW s \in Complex(start), NEW u \in Pushed(table, s)
  PROVE  u \in SUBSET ((Key(start) \cup {Null}) \X Complex(start))
<1>1. PICK k \in KeysOf(table) \cup {s.key, Null} : u = With(table, k, s)
  BY PushReaches
<1>2. s.key \in Key(start)  BY DEF Complex, Key
<1>3. k \in Key(start) \cup {Null}  BY <1>1, <1>2, KeysAre
<1> QED  BY <1>1, <1>3 DEF With

LEMMA OneMorePushed ==
  ASSUME NEW table, NEW k, NEW s
  PROVE  /\ KeysOf(With(table, k, s)) = KeysOf(table) \cup {s.key}
         /\ k = s.key => Misplaced(With(table, k, s)) = Misplaced(table)
         /\ k # s.key => Misplaced(With(table, k, s)) = Misplaced(table) \cup {<<k, s>>}
         /\ \A x : (\E p \in With(table, k, s) : p[2] = x) <=> (\E p \in table : p[2] = x) \/ x = s
<1>1. PICK new : new = <<k, s>>  OBVIOUS
<1>2. new[1] = k /\ new[2] = s BY <1>1
<1> DEFINE u == table \cup {new}
<1>3. KeysOf(u) = KeysOf(table) \cup {s.key}
  <2>1. \A x : x \in KeysOf(u) <=> x \in KeysOf(table) \/ x = s.key  BY <1>2 DEF KeysOf
  <2> QED  BY <2>1
<1>4. /\ k = s.key => Misplaced(u) = Misplaced(table)
      /\ k # s.key => Misplaced(u) = Misplaced(table) \cup {new}
  <2>1. \A p : p \in Misplaced(u) <=> p \in Misplaced(table) \/ (k # s.key /\ p = new)
    BY <1>2 DEF Misplaced
  <2>2. CASE k = s.key  BY <2>1, <2>2
  <2>3. CASE k # s.key  BY <2>1, <2>3
  <2> QED  BY <2>2, <2>3
<1>5. \A x : (\E p \in u : p[2] = x) <=> (\E p \in table : p[2] = x) \/ x = s
  BY <1>2
<1> QED  BY <1>1, <1>3, <1>4, <1>5 DEF With

\* A selector is misplaced only when the table grows, which it does for the new
\* key of this selector alone.
LEMMA PushedBounded ==
  ASSUME NEW table, Bounded(table), NEW s, NEW u \in Pushed(table, s)
  PROVE  Bounded(u)
<1> PICK k \in KeysOf(table) \cup {s.key, Null} :
           /\ u = With(table, k, s)
           /\ k # s.key => s.key \notin KeysOf(table) /\ Grows(Cardinality(KeysOf(table)) + 1)
  BY PushReaches
<1> DEFINE keys == KeysOf(table)
           n    == Cardinality(keys)
           m    == Cardinality(KeysOf(u))
           at(x) == {i \in 1 .. x : Grows(i)}
<1>1. IsFiniteSet(keys)  BY DEF Bounded
<1>2. KeysOf(u) = keys \cup {s.key}  BY OneMorePushed
<1>3. n \in Nat /\ m = IF s.key \in keys THEN n ELSE n + 1
  BY <1>1, <1>2, FS_AddElement, FS_CardinalityType
<1>4. Growths(table) = Cardinality(at(n)) /\ Growths(u) = Cardinality(at(m))
  BY DEF Growths
<1>5. ASSUME NEW x \in Nat PROVE IsFiniteSet(at(x)) /\ Cardinality(at(x)) \in Nat
  <2>1. IsFiniteSet(1 .. x)  BY FS_Interval
  <2> QED  BY <2>1, FS_Subset, FS_CardinalityType
<1>6. /\ IsFiniteSet(Misplaced(table)) /\ Cardinality(Misplaced(table)) \in Nat
      /\ IsFiniteSet(KeysOf(u))
  <2>1. IsFiniteSet(Misplaced(table))  BY DEF Bounded
  <2>2. Cardinality(Misplaced(table)) \in Nat  BY <2>1, FS_CardinalityType
  <2> HIDE DEF keys
  <2>3. IsFiniteSet(keys \cup {s.key})  BY <1>1, FS_AddElement
  <2> QED  BY <1>2, <2>1, <2>2, <2>3
<1>7. Cardinality(Misplaced(table)) <= Cardinality(at(n))  BY <1>4 DEF Bounded
<1> HIDE DEF n, m, keys
<1>8. CASE k = s.key
  <2>1. Misplaced(u) = Misplaced(table)  BY <1>8, OneMorePushed
  <2>2. at(n) \subseteq at(m)  BY <1>3
  <2>3. Cardinality(at(n)) <= Cardinality(at(m))  BY <1>3, <1>5, <2>2, FS_Subset
  <2>4. m \in Nat
    <3>1. CASE s.key \in keys  BY <1>3, <3>1
    <3>2. CASE s.key \notin keys  BY <1>3, <3>2
    <3> QED  BY <3>1, <3>2
  <2>5. Cardinality(at(m)) \in Nat /\ Cardinality(at(n)) \in Nat
    BY <1>3, <1>5, <2>4
  <2> QED  BY <1>4, <1>6, <1>7, <2>1, <2>3, <2>5 DEF Bounded
<1>9. CASE k # s.key
  <2>1. m = n + 1 /\ Grows(n + 1)  BY <1>3, <1>9 DEF keys, n
  <2>2. at(m) = at(n) \cup {n + 1} /\ n + 1 \notin at(n)  BY <1>3, <2>1
  <2>3. Cardinality(at(m)) = Cardinality(at(n)) + 1
    BY <1>3, <1>5, <2>2, FS_AddElement
  <2>4. Misplaced(u) = Misplaced(table) \cup {<<k, s>>}  BY <1>9, OneMorePushed
  <2>5. Cardinality(Misplaced(u)) <= Cardinality(Misplaced(table)) + 1
        /\ Cardinality(Misplaced(u)) \in Nat /\ IsFiniteSet(Misplaced(u))
    <3> DEFINE old == Misplaced(table)
    <3>1. IsFiniteSet(old) /\ Cardinality(old) \in Nat  BY <1>6
    <3>2. PICK new : new = <<k, s>>  OBVIOUS
    <3> HIDE DEF old
    <3>3. /\ IsFiniteSet(old \cup {new})
          /\ Cardinality(old \cup {new}) = IF new \in old THEN Cardinality(old) ELSE Cardinality(old) + 1
      BY <3>1, FS_AddElement
    <3>4. /\ IsFiniteSet(old \cup {new})
          /\ Cardinality(old \cup {new}) <= Cardinality(old) + 1 /\ Cardinality(old \cup {new}) \in Nat
      BY <3>1, <3>3
    <3> QED  BY <2>4, <3>2, <3>4 DEF old
  <2> QED  BY <1>3, <1>4, <1>5, <1>6, <1>7, <2>3, <2>5 DEF Bounded
<1> QED  BY <1>8, <1>9

\* What one generic rule does to a table of complex selectors.
LEMMA PushedComplexKeeps ==
  ASSUME NEW start, NEW table \in SUBSET ((Key(start) \cup {Null}) \X Complex(start)),
         NEW R, NEW r, FiledGeneric(r), ComplexFiled(table, R, start), Bounded(table),
         NEW u \in PushedComplex(table, r.selector, start)
  PROVE  /\ u \in SUBSET ((Key(start) \cup {Null}) \X Complex(start))
         /\ ComplexFiled(u, R \cup {r}, start) /\ Bounded(u)
<1> DEFINE s == r.selector
<1>1. CASE s \in Complex(start)
  <2>1. u \in Pushed(table, s)  BY <1>1 DEF PushedComplex
  <2>2. PICK k \in KeysOf(table) \cup {s.key, Null} : u = With(table, k, s)
    BY <2>1, PushReaches
  <2>3. \A x : (\E p \in u : p[2] = x) <=> (\E p \in table : p[2] = x) \/ x = s
    <3>1. \A x : (\E p \in With(table, k, s) : p[2] = x) <=> (\E p \in table : p[2] = x) \/ x = s
      BY OneMorePushed
    <3> QED  BY <2>2, <3>1, Zenon
  <2>4. \A x : InComplex(r, start, x) <=> x = s  BY <1>1 DEF InComplex
  <2>5. ComplexFiled(u, R \cup {r}, start)  BY <2>3, <2>4 DEF ComplexFiled
  <2> QED  BY <1>1, <2>1, <2>5, PushedType, PushedBounded
<1>2. CASE s \notin Complex(start)
  <2>1. u = table  BY <1>2 DEF PushedComplex
  <2>2. \A x : ~InComplex(r, start, x)  BY <1>2 DEF InComplex
  <2>3. ComplexFiled(u, R \cup {r}, start)  BY <2>1, <2>2 DEF ComplexFiled
  <2> QED  BY <2>1, <2>3
<1> QED  BY <1>1, <1>2

LEMMA SpecificAdds ==
  ASSUME NEW t \in Tables, NEW r \in Rule
  PROVE  LET u == StoreHostnameRule(t, r)
         IN  /\ u \in Tables
             /\ u.simpleClass = t.simpleClass /\ u.complexClass = t.complexClass
             /\ u.simpleId = t.simpleId /\ u.complexId = t.complexId /\ u.misc = t.misc
             /\ \A p : p \in u.specific <=> p \in t.specific \/ InSpecific(r, p)
<1> DEFINE f == FilterOf(r)
           g == Negated(FilterOf(r))
           new == (r.at \X {f}) \cup (r.notAt \X {g})
<1>1. f \in Filter /\ g \in Filter  BY FilterFields
<1>2. StoreHostnameRule(t, r) = [t EXCEPT !.specific = @ \cup (r.at \X {f}) \cup (r.notAt \X {g})]
  BY DEF StoreHostnameRule
<1>3. \A p : p \in new <=> InSpecific(r, p)  BY DEF InSpecific
<1> HIDE DEF f, g
<1>4. new \subseteq Name \X Filter  BY <1>1, RuleFields
<1>5. [t EXCEPT !.specific = @ \cup (r.at \X {f}) \cup (r.notAt \X {g})].specific = t.specific \cup new
  BY DEF Tables
<1> HIDE DEF new
<1>6. StoreHostnameRule(t, r).specific = t.specific \cup new  BY <1>2, <1>5
<1>7. t.specific \subseteq Name \X Filter  BY DEF Tables
<1>8. StoreHostnameRule(t, r) = [t EXCEPT !.specific = t.specific \cup new]
  BY <1>2, <1>5, <1>6 DEF Tables
<1>9. StoreHostnameRule(t, r) \in Tables  BY <1>4, <1>7, <1>8 DEF Tables
<1> QED  BY <1>3, <1>6, <1>8, <1>9 DEF Tables

\* The tables after a generic rule is filed.
LEMMA GenericKeeps ==
  ASSUME NEW t \in Tables, NEW R, NEW r \in Rule, FiledGeneric(r),
         GenericFiled(t, R), TablesBounded(t), NEW u \in AddGenericFilter(t, r)
  PROVE  /\ u \in Tables /\ u.specific = t.specific
         /\ GenericFiled(u, R \cup {r}) /\ TablesBounded(u)
<1> DEFINE s == r.selector
<1>1. PICK class \in PushedComplex(t.complexClass, s, "."), id \in PushedComplex(t.complexId, s, "#") :
        u = FiledWith(t, s, class, id)
  BY DEF AddGenericFilter, FiledGeneric
<1>2. /\ t.simpleClass \subseteq Key(".") /\ t.simpleId \subseteq Key("#")
      /\ t.misc \subseteq OtherText /\ t.specific \subseteq Name \X Filter
      /\ t.complexClass \in SUBSET ((Key(".") \cup {Null}) \X Complex("."))
      /\ t.complexId \in SUBSET ((Key("#") \cup {Null}) \X Complex("#"))
  BY DEF Tables
<1>3. /\ class \in SUBSET ((Key(".") \cup {Null}) \X Complex("."))
      /\ ComplexFiled(class, R \cup {r}, ".") /\ Bounded(class)
  BY <1>2, PushedComplexKeeps DEF GenericFiled, TablesBounded
<1>4. /\ id \in SUBSET ((Key("#") \cup {Null}) \X Complex("#"))
      /\ ComplexFiled(id, R \cup {r}, "#") /\ Bounded(id)
  BY <1>2, PushedComplexKeeps DEF GenericFiled, TablesBounded
<1> DEFINE a == {m.key : m \in {s} \cap Exact(".")}
           b == {m.key : m \in {s} \cap Exact("#")}
           c == {s} \cap OtherText
<1>5. a \subseteq Key(".") /\ b \subseteq Key("#") /\ c \subseteq OtherText
  BY DEF Exact, Key
<1>6. /\ \A k : k \in a <=> InSimple(r, ".", k)
      /\ \A k : k \in b <=> InSimple(r, "#", k)
      /\ \A k : k \in c <=> InMisc(r, k)
  BY DEF InSimple, InMisc
<1>7. u = [t EXCEPT !.simpleClass = @ \cup a, !.simpleId = @ \cup b, !.misc = @ \cup c,
                    !.complexClass = class, !.complexId = id]
  BY <1>1 DEF FiledWith
<1> HIDE DEF a, b, c
<1>8. u = [simpleClass |-> t.simpleClass \cup a, simpleId |-> t.simpleId \cup b,
           misc |-> t.misc \cup c, complexClass |-> class, complexId |-> id,
           specific |-> t.specific]
  BY <1>7 DEF Tables
<1>9. u \in Tables  BY <1>2, <1>3, <1>4, <1>5, <1>8 DEF Tables
<1>10. GenericFiled(u, R \cup {r})
  <2>1. /\ \A k : k \in u.simpleClass <=> k \in t.simpleClass \/ InSimple(r, ".", k)
        /\ \A k : k \in u.simpleId <=> k \in t.simpleId \/ InSimple(r, "#", k)
        /\ \A m : m \in u.misc <=> m \in t.misc \/ InMisc(r, m)
    BY <1>6, <1>8
  <2>2. u.complexClass = class /\ u.complexId = id  BY <1>8
  <2> QED  BY <1>3, <1>4, <2>1, <2>2, Zenon DEF GenericFiled
<1>11. u.specific = t.specific /\ TablesBounded(u)  BY <1>3, <1>4, <1>8 DEF TablesBounded
<1> QED  BY <1>9, <1>10, <1>11

\* ... and after one that files nothing there.
LEMMA NotGenericKeeps ==
  ASSUME NEW t, NEW R, NEW r, ~FiledGeneric(r), GenericFiled(t, R)
  PROVE  GenericFiled(t, R \cup {r})
<1>1. \A k : ~InSimple(r, ".", k) /\ ~InSimple(r, "#", k) /\ ~InMisc(r, k)
      /\ ~InComplex(r, ".", k) /\ ~InComplex(r, "#", k)
  BY DEF InSimple, InComplex, InMisc
<1>2. ComplexFiled(t.complexClass, R \cup {r}, ".") /\ ComplexFiled(t.complexId, R \cup {r}, "#")
  BY <1>1 DEF GenericFiled, ComplexFiled
<1> QED  BY <1>1, <1>2, Zenon DEF GenericFiled

-------------------------------------------------------------------------------
(* The invariant. *)

LEMMA AddKeeps ==
  ASSUME NEW t \in Tables, NEW R \in SUBSET Rule, NEW r \in Rule, WellFormed(r),
         GenericFiled(t, R), SpecificFiled(t, R), TablesBounded(t), NEW u \in AddFilter(t, r)
  PROVE  /\ u \in Tables /\ GenericFiled(u, R \cup {r}) /\ SpecificFiled(u, R \cup {r})
         /\ TablesBounded(u)
<1>1. CASE ~HasHostnameConstraint(r)
  <2>1. u \in AddGenericFilter(t, r) /\ FiledGeneric(r)
    BY <1>1 DEF AddFilter, WellFormed, FiledGeneric
  <2>2. u \in Tables /\ u.specific = t.specific /\ GenericFiled(u, R \cup {r}) /\ TablesBounded(u)
    BY <2>1, GenericKeeps
  <2>3. \A p : ~InSpecific(r, p)  BY <1>1 DEF InSpecific, HasHostnameConstraint
  <2>4. SpecificFiled(u, R \cup {r})  BY <2>2, <2>3, Zenon DEF SpecificFiled
  <2> QED  BY <2>2, <2>4
<1>2. CASE HasHostnameConstraint(r)
  <2>1. PICK v \in IF HasHiddenGenericRule(r) THEN AddGenericFilter(t, r) ELSE {t} :
          u = StoreHostnameRule(v, r)
    BY <1>2 DEF AddFilter
  <2>2. v \in Tables /\ v.specific = t.specific /\ GenericFiled(v, R \cup {r}) /\ TablesBounded(v)
    <3>1. CASE HasHiddenGenericRule(r) /\ IsPlain(r)
      <4>1. FiledGeneric(r) /\ v \in AddGenericFilter(t, r)  BY <2>1, <3>1 DEF FiledGeneric
      <4> QED  BY <4>1, GenericKeeps
    <3>2. CASE ~HasHiddenGenericRule(r) \/ ~IsPlain(r)
      <4>1. v = t  BY <2>1, <3>2 DEF AddGenericFilter
      <4>2. ~FiledGeneric(r)  BY <1>2, <3>2 DEF FiledGeneric
      <4> QED  BY <4>1, <4>2, NotGenericKeeps
    <3> QED  BY <3>1, <3>2
  <2>3. /\ u \in Tables
        /\ u.simpleClass = v.simpleClass /\ u.complexClass = v.complexClass
        /\ u.simpleId = v.simpleId /\ u.complexId = v.complexId /\ u.misc = v.misc
        /\ \A p : p \in u.specific <=> p \in v.specific \/ InSpecific(r, p)
    BY <2>1, <2>2, SpecificAdds
  <2>4. GenericFiled(u, R \cup {r})  BY <2>2, <2>3, Zenon DEF GenericFiled
  <2>5. SpecificFiled(u, R \cup {r})  BY <2>2, <2>3, Zenon DEF SpecificFiled
  <2>6. TablesBounded(u)  BY <2>2, <2>3 DEF TablesBounded
  <2> QED  BY <2>3, <2>4, <2>5, <2>6
<1> QED  BY <1>1, <1>2

LEMMA Initially == Init => IInv
<1> SUFFICES ASSUME Init PROVE IInv
  OBVIOUS
<1>1. rules = {} /\ tables = NoTables  BY DEF Init
<1>2. TypeOK  BY <1>1 DEF TypeOK, Tables, NoTables
<1>3. GenericFiled(tables, rules) /\ SpecificFiled(tables, rules)
  BY <1>1 DEF GenericFiled, ComplexFiled, SpecificFiled, NoTables
<1>4. TablesBounded(tables)
  <2>1. tables.complexClass = {} /\ tables.complexId = {}  BY <1>1 DEF NoTables
  <2>2. Misplaced({}) = {} /\ KeysOf({}) = {}  BY DEF Misplaced, KeysOf
  <2>3. IsFiniteSet({}) /\ Cardinality({}) = 0  BY FS_EmptySet
  <2>4. {n \in 1 .. 0 : Grows(n)} = {}  OBVIOUS
  <2>5. Growths({}) = 0  BY <2>2, <2>3, <2>4 DEF Growths
  <2> QED  BY <2>1, <2>2, <2>3, <2>5 DEF TablesBounded, Bounded
<1> QED  BY <1>1, <1>2, <1>3, <1>4 DEF IInv

LEMMA Inductive == IInv /\ [Next]_vars => IInv'
<1> SUFFICES ASSUME IInv, [Next]_vars PROVE IInv'
  OBVIOUS
<1>1. CASE UNCHANGED vars
  <2>1. rules' = rules /\ tables' = tables  BY <1>1 DEF vars
  <2>2. TypeOK'  BY <2>1 DEF IInv, TypeOK
  <2>3. GenericFiled(tables, rules)' /\ SpecificFiled(tables, rules)'
    BY <2>1 DEF IInv, GenericFiled, ComplexFiled, SpecificFiled
  <2>4. TablesBounded(tables)'
    BY <2>1 DEF IInv, TablesBounded, Bounded, Misplaced, Growths, KeysOf
  <2> QED  BY <2>1, <2>2, <2>3, <2>4 DEF IInv
<1>2. ASSUME NEW line \in Line, AddLine(line) PROVE IInv'
  <2>1. PICK r : r = ParsedRule(line)  OBVIOUS
  <2>2. rules' = rules \cup {r} /\ tables' \in AddFilter(tables, r) /\ Accepted(line)
    BY <1>2, <2>1 DEF AddLine
  <2>3. r \in Rule /\ WellFormed(r)  BY <2>1, <2>2, AcceptedIsWellFormed
  <2>4. tables \in Tables /\ rules \in SUBSET Rule
        /\ GenericFiled(tables, rules) /\ SpecificFiled(tables, rules) /\ TablesBounded(tables)
    BY DEF IInv, TypeOK
  <2>5. tables' \in Tables /\ GenericFiled(tables', rules') /\ SpecificFiled(tables', rules')
        /\ TablesBounded(tables')
    BY <2>2, <2>3, <2>4, AddKeeps
  <2>6. TypeOK'  BY <2>2, <2>3, <2>4, <2>5 DEF TypeOK
  <2>7. \A q \in rules' : WellFormed(q)  BY <2>2, <2>3 DEF IInv
  <2> QED  BY <2>5, <2>6, <2>7 DEF IInv
<1> QED  BY <1>1, <1>2 DEF Next

LEMMA AlwaysIInv == Spec => []IInv
BY Initially, Inductive, PTL DEF Spec

-------------------------------------------------------------------------------
(* The queries. *)

\* The generic texts are those of the rules filed among them.
LEMMA GenericIs ==
  ASSUME IInv
  PROVE  /\ Generic = {r.selector : r \in {q \in rules : FiledGeneric(q)}}
         /\ Generic \subseteq Selector \cup Script
<1>1. ASSUME NEW r \in rules
      PROVE  FiledGeneric(r) <=> \/ ~HasHostnameConstraint(r)
                                 \/ KindOf(r) = "hide" /\ ~r.unhide /\ r.at = {}
  <2>1. WellFormed(r)  BY DEF IInv
  <2>2. KindOf(r) = "hide" <=> ~r.script /\ IsPlain(r) /\ r.action = Null
    BY DEF KindOf
  <2> QED
    BY <2>1, <2>2 DEF WellFormed, FiledGeneric, HasHiddenGenericRule, HasHostnameConstraint
<1>2. \A r \in rules : r.selector \in Selector \cup Script  BY RuleFields DEF IInv, TypeOK
<1>3. {q \in rules : FiledGeneric(q)} =
        {q \in rules : \/ ~HasHostnameConstraint(q)
                       \/ KindOf(q) = "hide" /\ ~q.unhide /\ q.at = {}}
  BY <1>1
<1> QED  BY <1>2, <1>3 DEF Generic

LEMMA MiscIs ==
  ASSUME IInv PROVE tables.misc = Generic \cap OtherText
<1>1. \A s : s \in tables.misc <=> \E r \in rules : InMisc(r, s)
  BY DEF IInv, GenericFiled
<1>2. \A s : s \in Generic <=> \E r \in rules : FiledGeneric(r) /\ s = r.selector
  BY GenericIs
<1>3. \A s : s \in tables.misc <=> s \in Generic /\ s \in OtherText
  BY <1>1, <1>2, Zenon DEF InMisc
<1> QED  BY <1>3

\* What is filed under a host's names, rule by rule.
As(r, e) == [kind |-> KindOf(r), except |-> e, text |-> r.selector, action |-> r.action,
             permission |-> r.permission]
FiledAt(h) == {p[2] : p \in {q \in tables.specific : q[1] \in Tokens(h)}}
Of(h, kind, except) == {f \in FiledAt(h) : f.kind = kind /\ f.except = except}

LEMMA FiledAtIs ==
  ASSUME IInv, NEW h
  PROVE  \A f : f \in FiledAt(h) <=>
                  \E r \in rules : \/ Selects(r, h) /\ f = As(r, r.unhide)
                                   \/ Excludes(r, h) /\ f = As(r, ~r.unhide)
<1>1. \A r \in rules : FilterOf(r) = As(r, r.unhide) /\ Negated(FilterOf(r)) = As(r, ~r.unhide)
  <2> SUFFICES ASSUME NEW r \in rules
               PROVE FilterOf(r) = As(r, r.unhide) /\ Negated(FilterOf(r)) = As(r, ~r.unhide)
    OBVIOUS
  <2>1. r \in Rule  BY DEF IInv, TypeOK
  <2>2. FilterOf(r) = As(r, r.unhide)  BY DEF FilterOf, As
  <2>3. Negated(FilterOf(r)) = As(r, ~r.unhide)
    BY <2>1, RuleFields DEF Negated, FilterOf, As
  <2> QED  BY <2>2, <2>3
<1>2. \A p : p \in tables.specific <=> \E r \in rules : InSpecific(r, p)
  BY DEF IInv, SpecificFiled
<1>3. ASSUME NEW f \in FiledAt(h)
      PROVE  \E r \in rules : \/ Selects(r, h) /\ f = As(r, r.unhide)
                              \/ Excludes(r, h) /\ f = As(r, ~r.unhide)
  <2>1. PICK p \in tables.specific : p[1] \in Tokens(h) /\ f = p[2]  BY <1>3 DEF FiledAt
  <2>2. PICK r \in rules : InSpecific(r, p)  BY <1>2, <2>1
  <2>3. CASE \E n \in r.at : p = <<n, FilterOf(r)>>
    BY <1>1, <2>1, <2>3 DEF Selects
  <2>4. CASE \E n \in r.notAt : p = <<n, Negated(FilterOf(r))>>
    BY <1>1, <2>1, <2>4 DEF Excludes
  <2> QED  BY <2>2, <2>3, <2>4 DEF InSpecific
<1>4. ASSUME NEW r \in rules, Selects(r, h) PROVE As(r, r.unhide) \in FiledAt(h)
  <2>1. PICK n \in r.at : n \in Tokens(h)  BY <1>4 DEF Selects
  <2>2. <<n, FilterOf(r)>> \in tables.specific  BY <1>2, <2>1 DEF InSpecific
  <2> QED  BY <1>1, <2>1, <2>2 DEF FiledAt
<1>5. ASSUME NEW r \in rules, Excludes(r, h) PROVE As(r, ~r.unhide) \in FiledAt(h)
  <2>1. PICK n \in r.notAt : n \in Tokens(h)  BY <1>5 DEF Excludes
  <2>2. <<n, Negated(FilterOf(r))>> \in tables.specific  BY <1>2, <2>1 DEF InSpecific
  <2> QED  BY <1>1, <2>1, <2>2 DEF FiledAt
<1> QED  BY <1>3, <1>4, <1>5

LEMMA AsFields ==
  ASSUME NEW r, NEW e
  PROVE  /\ As(r, e).kind = KindOf(r) /\ As(r, e).except = e /\ As(r, e).text = r.selector
         /\ As(r, e).action = r.action /\ As(r, e).permission = r.permission
BY DEF As

\* The exceptions filed are those of the rules, and so is what they apply to.
LEMMA ExceptionsAre ==
  ASSUME IInv, NEW h, NEW kind
  PROVE  \A f : f \in Of(h, kind, TRUE) <=> \E r \in ExceptionRules(kind, h) : f = As(r, TRUE)
<1>1. \A r \in rules : r.unhide \in BOOLEAN /\ (r.unhide => r.notAt = {})
  BY RuleFields DEF IInv, TypeOK, WellFormed
<1>2. ASSUME NEW f \in Of(h, kind, TRUE) PROVE \E r \in ExceptionRules(kind, h) : f = As(r, TRUE)
  <2>1. f \in FiledAt(h) /\ f.kind = kind /\ f.except = TRUE  BY <1>2 DEF Of
  <2>2. PICK r \in rules : \/ Selects(r, h) /\ f = As(r, r.unhide)
                           \/ Excludes(r, h) /\ f = As(r, ~r.unhide)
    BY <2>1, FiledAtIs
  <2>3. KindOf(r) = kind  BY <2>1, <2>2, AsFields
  <2>4. CASE Selects(r, h) /\ f = As(r, r.unhide)
    <3>1. r.unhide = TRUE  BY <2>1, <2>4, AsFields
    <3> QED  BY <2>3, <2>4, <3>1 DEF ExceptionRules
  <2>5. CASE Excludes(r, h) /\ f = As(r, ~r.unhide)
    <3>1. (~r.unhide) = TRUE  BY <2>1, <2>5, AsFields
    <3>2. ~r.unhide  BY <3>1
    <3> QED  BY <2>3, <2>5, <3>1, <3>2 DEF ExceptionRules
  <2> QED  BY <2>2, <2>4, <2>5
<1>3. ASSUME NEW r \in ExceptionRules(kind, h) PROVE As(r, TRUE) \in Of(h, kind, TRUE)
  <2>1. r \in rules /\ KindOf(r) = kind /\ r.unhide \in BOOLEAN  BY <1>1 DEF ExceptionRules
  <2>2. As(r, TRUE) \in FiledAt(h)
    <3>1. CASE r.unhide
      <4>1. Selects(r, h) /\ r.unhide = TRUE  BY <2>1, <3>1 DEF ExceptionRules
      <4>2. As(r, r.unhide) \in FiledAt(h)  BY <2>1, <4>1, FiledAtIs
      <4> QED  BY <4>1, <4>2
    <3>2. CASE ~r.unhide
      <4>1. Excludes(r, h) /\ (~r.unhide) = TRUE  BY <2>1, <3>2 DEF ExceptionRules
      <4>2. As(r, ~r.unhide) \in FiledAt(h)  BY <2>1, <4>1, FiledAtIs
      <4> QED  BY <4>1, <4>2
    <3> QED  BY <3>1, <3>2
  <2> QED  BY <2>1, <2>2, AsFields DEF Of
<1> QED  BY <1>2, <1>3

LEMMA ApplyingAre ==
  ASSUME IInv, NEW h, NEW kind
  PROVE  \A f : f \in Of(h, kind, FALSE) <=> \E r \in ApplyingRules(kind, h) : f = As(r, FALSE)
<1>1. \A r \in rules : r.unhide \in BOOLEAN /\ (r.unhide => r.notAt = {})
  BY RuleFields DEF IInv, TypeOK, WellFormed
<1>2. ASSUME NEW f \in Of(h, kind, FALSE) PROVE \E r \in ApplyingRules(kind, h) : f = As(r, FALSE)
  <2>1. f \in FiledAt(h) /\ f.kind = kind /\ f.except = FALSE  BY <1>2 DEF Of
  <2>2. PICK r \in rules : \/ Selects(r, h) /\ f = As(r, r.unhide)
                           \/ Excludes(r, h) /\ f = As(r, ~r.unhide)
    BY <2>1, FiledAtIs
  <2>3. KindOf(r) = kind  BY <2>1, <2>2, AsFields
  <2>4. CASE Selects(r, h) /\ f = As(r, r.unhide)
    <3>1. r.unhide = FALSE  BY <2>1, <2>4, AsFields
    <3> QED  BY <2>3, <2>4, <3>1 DEF ApplyingRules
  <2>5. CASE Excludes(r, h) /\ f = As(r, ~r.unhide)
    <3>1. (~r.unhide) = FALSE  BY <2>1, <2>5, AsFields
    <3>2. r.notAt = {}  BY <1>1, <3>1
    <3> QED  BY <2>5, <3>2 DEF Excludes
  <2> QED  BY <2>2, <2>4, <2>5
<1>3. ASSUME NEW r \in ApplyingRules(kind, h) PROVE As(r, FALSE) \in Of(h, kind, FALSE)
  <2>1. r \in rules /\ KindOf(r) = kind /\ r.unhide = FALSE /\ Selects(r, h)
    BY <1>1 DEF ApplyingRules
  <2>2. As(r, r.unhide) \in FiledAt(h)  BY <2>1, FiledAtIs
  <2>3. As(r, FALSE) \in FiledAt(h)  BY <2>1, <2>2
  <2>4. As(r, FALSE).kind = kind /\ As(r, FALSE).except = FALSE  BY <2>1 DEF As
  <2> QED  BY <2>3, <2>4 DEF Of
<1> QED  BY <1>2, <1>3

\* The texts of filters that stand for rules, and what goes with them.
LEMMA Images ==
  ASSUME NEW A, NEW B, NEW e, \A f : f \in A <=> \E r \in B : f = As(r, e)
  PROVE  /\ {f.text : f \in A} = {r.selector : r \in B}
         /\ {<<f.text, f.action>> : f \in A} = {Deed(r) : r \in B}
         /\ \A s : UNION {f.permission : f \in {g \in A : g.text = s}}
                     = UNION {q.permission : q \in {p \in B : p.selector = s}}
<1>1. ASSUME NEW f \in A
      PROVE  \E r \in B : f.text = r.selector /\ f.action = r.action /\ f.permission = r.permission
  <2>1. PICK r \in B : f = As(r, e)  BY <1>1
  <2> QED  BY <2>1, AsFields
<1>2. ASSUME NEW r \in B
      PROVE  \E f \in A : f.text = r.selector /\ f.action = r.action /\ f.permission = r.permission
  <2>1. As(r, e) \in A  BY <1>2
  <2> QED  BY <2>1, AsFields
<1>3. {f.text : f \in A} = {r.selector : r \in B}
  <2>1. \A x : x \in {f.text : f \in A} <=> x \in {r.selector : r \in B}  BY <1>1, <1>2
  <2> QED  BY <2>1
<1>4. {<<f.text, f.action>> : f \in A} = {Deed(r) : r \in B}
  <2>1. ASSUME NEW f \in A PROVE <<f.text, f.action>> \in {Deed(r) : r \in B}
    BY <2>1, <1>1 DEF Deed
  <2>2. ASSUME NEW r \in B PROVE Deed(r) \in {<<f.text, f.action>> : f \in A}
    <3>1. PICK f \in A : f.text = r.selector /\ f.action = r.action  BY <1>2, <2>2
    <3>2. Deed(r) = <<f.text, f.action>>  BY <3>1 DEF Deed
    <3> QED  BY <3>2
  <2> QED  BY <2>1, <2>2
<1>5. ASSUME NEW s
      PROVE  UNION {f.permission : f \in {g \in A : g.text = s}}
               = UNION {q.permission : q \in {p \in B : p.selector = s}}
  <2>1. ASSUME NEW f \in A, f.text = s PROVE f.permission \in {q.permission : q \in {p \in B : p.selector = s}}
    BY <2>1, <1>1
  <2>2. ASSUME NEW r \in B, r.selector = s PROVE r.permission \in {f.permission : f \in {g \in A : g.text = s}}
    BY <2>2, <1>2
  <2>3. {f.permission : f \in {g \in A : g.text = s}} = {q.permission : q \in {p \in B : p.selector = s}}
    BY <2>1, <2>2
  <2> QED  BY <2>3
<1> QED  BY <1>3, <1>4, <1>5

\* The permissions a script gets, by the tables and by the rules.
Granted(h, kind, s) == UNION {f.permission : f \in {g \in Of(h, kind, FALSE) : g.text = s}}
Grants(h, kind, s)  == UNION {q.permission : q \in {p \in ApplyingRules(kind, h) : p.selector = s}}

LEMMA TextsAre ==
  ASSUME IInv, NEW h, NEW kind
  PROVE  /\ {f.text : f \in Of(h, kind, TRUE)} = {r.selector : r \in ExceptionRules(kind, h)}
         /\ {f.text : f \in Of(h, kind, FALSE)} = {r.selector : r \in ApplyingRules(kind, h)}
         /\ {<<f.text, f.action>> : f \in Of(h, kind, TRUE)} = {Deed(r) : r \in ExceptionRules(kind, h)}
         /\ {<<f.text, f.action>> : f \in Of(h, kind, FALSE)} = {Deed(r) : r \in ApplyingRules(kind, h)}
         /\ \A s : Granted(h, kind, s) = Grants(h, kind, s)
<1>1. \A f : f \in Of(h, kind, TRUE) <=> \E r \in ExceptionRules(kind, h) : f = As(r, TRUE)
  BY ExceptionsAre
<1>2. \A f : f \in Of(h, kind, FALSE) <=> \E r \in ApplyingRules(kind, h) : f = As(r, FALSE)
  BY ApplyingAre
<1>3. /\ {f.text : f \in Of(h, kind, TRUE)} = {r.selector : r \in ExceptionRules(kind, h)}
      /\ {<<f.text, f.action>> : f \in Of(h, kind, TRUE)} = {Deed(r) : r \in ExceptionRules(kind, h)}
  BY <1>1, Images, Zenon
<1>4. /\ {f.text : f \in Of(h, kind, FALSE)} = {r.selector : r \in ApplyingRules(kind, h)}
      /\ {<<f.text, f.action>> : f \in Of(h, kind, FALSE)} = {Deed(r) : r \in ApplyingRules(kind, h)}
      /\ \A s : UNION {f.permission : f \in {g \in Of(h, kind, FALSE) : g.text = s}}
                  = UNION {q.permission : q \in {p \in ApplyingRules(kind, h) : p.selector = s}}
  BY <1>2, Images, ZenonT(30)
<1>5. \A s : Granted(h, kind, s) = Grants(h, kind, s)
  BY <1>4 DEF Granted, Grants
<1> QED  BY <1>3, <1>4, <1>5, Zenon

LEMMA ResourcesAre ==
  ASSUME IInv, NEW h, NEW generichide \in BOOLEAN
  PROVE  HostnameCosmeticResources(tables, h, generichide) =
      [hide        |-> (SpecificAt(h) \cup IF generichide THEN {} ELSE Generic \cap OtherText)
                         \ Excepted(h),
       exceptions  |-> Excepted(h),
       actions     |-> {Deed(r) : r \in ApplyingRules("act", h)}
                         \ {Deed(r) : r \in ExceptionRules("act", h)},
       scripts     |-> {<<r.selector, UNION {q.permission : q \in {p \in ApplyingRules("inject", h) :
                                                                     p.selector = r.selector}}>> :
                          r \in {q \in ApplyingRules("inject", h) :
                                   Uninjected(h) \cap {NoScript, q.selector} = {}}},
       generichide |-> generichide]
<1> DEFINE texts(kind, except) == {f.text : f \in Of(h, kind, except)}
           deeds(except) == {<<f.text, f.action>> : f \in Of(h, "act", except)}
           granted(s) == UNION {f.permission : f \in {g \in Of(h, "inject", FALSE) : g.text = s}}
           hide == (texts("hide", FALSE) \ texts("hide", TRUE))
                     \cup (IF generichide THEN {} ELSE tables.misc \ texts("hide", TRUE))
           scripts == IF NoScript \in texts("inject", TRUE) THEN {}
                      ELSE {<<s, granted(s)>> : s \in texts("inject", FALSE) \ texts("inject", TRUE)}
<1>1. HostnameCosmeticResources(tables, h, generichide) =
        [hide |-> hide, exceptions |-> texts("hide", TRUE), actions |-> deeds(FALSE) \ deeds(TRUE),
         scripts |-> scripts, generichide |-> generichide]
  BY Zenon DEF HostnameCosmeticResources, Of, FiledAt
<1>2. /\ texts("hide", TRUE) = Excepted(h) /\ texts("hide", FALSE) = SpecificAt(h)
      /\ texts("inject", TRUE) = Uninjected(h)
      /\ texts("inject", FALSE) = {r.selector : r \in ApplyingRules("inject", h)}
      /\ deeds(TRUE) = {Deed(r) : r \in ExceptionRules("act", h)}
      /\ deeds(FALSE) = {Deed(r) : r \in ApplyingRules("act", h)}
  BY TextsAre DEF Excepted, SpecificAt, Uninjected
<1>3. \A s : granted(s) = UNION {q.permission : q \in {p \in ApplyingRules("inject", h) : p.selector = s}}
  <2>1. \A s : Granted(h, "inject", s) = Grants(h, "inject", s)
    BY TextsAre
  <2> QED  BY <2>1, Zenon DEF Granted, Grants
<1>4. tables.misc = Generic \cap OtherText  BY MiscIs
<1> HIDE DEF texts, deeds, granted
<1>5. hide = (SpecificAt(h) \cup IF generichide THEN {} ELSE Generic \cap OtherText) \ Excepted(h)
  <2>1. CASE generichide  BY <2>1, <1>2
  <2>2. CASE ~generichide  BY <2>2, <1>2, <1>4
  <2> QED  BY <2>1, <2>2
<1>6. scripts = {<<r.selector, granted(r.selector)>> :
                   r \in {q \in ApplyingRules("inject", h) :
                            Uninjected(h) \cap {NoScript, q.selector} = {}}}
  <2>1. CASE NoScript \in Uninjected(h)  BY <2>1, <1>2
  <2>2. CASE NoScript \notin Uninjected(h)
    <3>1. scripts = {<<s, granted(s)>> : s \in texts("inject", FALSE) \ texts("inject", TRUE)}
      BY <2>2, <1>2
    <3>2. {r \in ApplyingRules("inject", h) : Uninjected(h) \cap {NoScript, r.selector} = {}}
            = {r \in ApplyingRules("inject", h) : r.selector \notin Uninjected(h)}
      BY <2>2
    <3>3. ASSUME NEW s \in texts("inject", FALSE) \ texts("inject", TRUE)
          PROVE  \E r \in ApplyingRules("inject", h) : r.selector \notin Uninjected(h) /\ s = r.selector
      BY <1>2
    <3>4. ASSUME NEW r \in ApplyingRules("inject", h), r.selector \notin Uninjected(h)
          PROVE  r.selector \in texts("inject", FALSE) \ texts("inject", TRUE)
      BY <1>2, <3>4
    <3>5. {<<s, granted(s)>> : s \in texts("inject", FALSE) \ texts("inject", TRUE)} =
            {<<r.selector, granted(r.selector)>> :
               r \in {q \in ApplyingRules("inject", h) : q.selector \notin Uninjected(h)}}
      BY <3>3, <3>4
    <3> QED  BY <3>1, <3>2, <3>5
  <2> QED  BY <2>1, <2>2
<1> HIDE DEF hide, scripts
<1> QED  BY <1>1, <1>2, <1>3, <1>5, <1>6, Zenon

\* What is asked for by class and by id.
Simple(start, keys, filed) == {s \in Selector : s.rest = "" /\ s.start = start /\ s.key \in keys \cap filed}
Found(keys, table)         == {p[2] : p \in {q \in table : q[1] \in keys}}
Wanted(start, keys)        == {s \in Generic \cap Selector : s.start = start /\ s.key \in keys}
Astray(table)              == {p[2] : p \in Misplaced(table)}

\* A simple class or id stands for one selector.
LEMMA SimpleAre ==
  ASSUME IInv, NEW start, NEW keys \in SUBSET Key(start), NEW filed,
         \A k : k \in filed <=> \E r \in rules : InSimple(r, start, k)
  PROVE  Simple(start, keys, filed) = {s \in Wanted(start, keys) : s.rest = ""}
<1>1. \A s : s \in Generic <=> \E r \in rules : FiledGeneric(r) /\ s = r.selector
  BY GenericIs
<1>2. ASSUME NEW s \in Simple(start, keys, filed) PROVE s \in Wanted(start, keys) /\ s.rest = ""
  <2>1. s \in Selector /\ s.rest = "" /\ s.start = start /\ s.key \in keys /\ s.key \in filed
    BY DEF Simple
  <2>2. PICK r \in rules : InSimple(r, start, s.key)  BY <2>1
  <2>3. r.selector \in Generic /\ r.selector \in Exact(start) /\ r.selector.key = s.key
    BY <1>1, <2>2 DEF InSimple
  <2>4. r.selector = s  BY <2>1, <2>3, SelectorAssumption DEF Exact
  <2> QED  BY <2>1, <2>3, <2>4 DEF Wanted
<1>3. ASSUME NEW s \in Wanted(start, keys), s.rest = "" PROVE s \in Simple(start, keys, filed)
  <2>1. s \in Generic /\ s \in Selector /\ s.start = start /\ s.key \in keys  BY DEF Wanted
  <2>2. s.key # Null  BY <2>1 DEF Key
  <2>3. PICK r \in rules : FiledGeneric(r) /\ s = r.selector  BY <1>1, <2>1
  <2>4. InSimple(r, start, s.key)  BY <1>3, <2>1, <2>2, <2>3 DEF InSimple, Exact
  <2>5. s.key \in filed  BY <2>4
  <2> QED  BY <1>3, <2>1, <2>5 DEF Simple
<1> QED  BY <1>2, <1>3

\* The complex ones are under their key, but for the ones astray.
LEMMA FoundAre ==
  ASSUME IInv, NEW start, NEW keys \in SUBSET Key(start), NEW table,
         ComplexFiled(table, rules, start)
  PROVE  /\ Found(keys, table) \subseteq Generic \cap Complex(start)
         /\ Found(keys, table) \ Astray(table) =
              {s \in Wanted(start, keys) : s.rest # ""} \ Astray(table)
<1>1. \A s : s \in Generic <=> \E r \in rules : FiledGeneric(r) /\ s = r.selector
  BY GenericIs
<1>2. \A s : (\E p \in table : p[2] = s) <=> s \in Generic /\ s \in Complex(start)
  BY <1>1, Zenon DEF ComplexFiled, InComplex
<1>3. ASSUME NEW s \in Found(keys, table)
      PROVE  /\ s \in Generic /\ s \in Complex(start)
             /\ s \notin Astray(table) => s \in Wanted(start, keys) /\ s.rest # ""
  <2>1. PICK p \in table : p[1] \in keys /\ p[2] = s  BY DEF Found
  <2>2. s \in Generic /\ s \in Complex(start)  BY <1>2, <2>1
  <2>3. ASSUME s \notin Astray(table) PROVE s.key \in keys
    BY <2>1, <2>3 DEF Astray, Misplaced
  <2> QED  BY <2>2, <2>3 DEF Wanted, Complex
<1>4. ASSUME NEW s \in Wanted(start, keys), s.rest # "", s \notin Astray(table)
      PROVE  s \in Found(keys, table)
  <2>1. s \in Generic /\ s \in Selector /\ s.start = start /\ s.key \in keys  BY DEF Wanted
  <2>2. s \in Complex(start)  BY <1>4, <2>1 DEF Complex, Key
  <2>3. PICK p \in table : p[2] = s  BY <1>2, <2>1, <2>2
  <2>4. p[1] = s.key  BY <1>4, <2>3 DEF Astray, Misplaced
  <2> QED  BY <2>1, <2>3, <2>4 DEF Found
<1> QED  BY <1>3, <1>4

LEMMA HiddenAre ==
  ASSUME IInv, NEW classes \in SUBSET Key("."), NEW ids \in SUBSET Key("#"), NEW except
  PROVE  LET answer == HiddenClassIdSelectors(tables, classes, ids, except)
             wanted == Wanted(".", classes) \cup Wanted("#", ids)
         IN  /\ answer \subseteq (Generic \cap Selector) \ except
             /\ answer \ MisplacedSelectors = (wanted \ except) \ MisplacedSelectors
<1> DEFINE a == Simple(".", classes, tables.simpleClass)
           b == Simple("#", ids, tables.simpleId)
           c == Found(classes, tables.complexClass)
           d == Found(ids, tables.complexId)
           e == Astray(tables.complexClass)
           f == Astray(tables.complexId)
           answer == HiddenClassIdSelectors(tables, classes, ids, except)
           wanted == Wanted(".", classes) \cup Wanted("#", ids)
<1>1. answer = (a \cup b \cup c \cup d) \ except
  <2>1. {s \in Selector : s.rest = "" /\ \/ s.start = "." /\ s.key \in classes \cap tables.simpleClass
                                         \/ s.start = "#" /\ s.key \in ids \cap tables.simpleId} = a \cup b
    BY DEF Simple
  <2>2. {p[2] : p \in {q \in tables.complexClass : q[1] \in classes}
                         \cup {q \in tables.complexId : q[1] \in ids}} = c \cup d
    BY DEF Found
  <2> HIDE DEF a, b, c, d
  <2>3. answer = ((a \cup b) \cup (c \cup d)) \ except
    BY <2>1, <2>2, Zenon DEF HiddenClassIdSelectors
  <2> QED  BY <2>3
<1>0. ComplexFiled(tables.complexClass, rules, ".") /\ ComplexFiled(tables.complexId, rules, "#")
  BY DEF IInv, GenericFiled
<1>2. a = {s \in Wanted(".", classes) : s.rest = ""} /\ b = {s \in Wanted("#", ids) : s.rest = ""}
  BY SimpleAre DEF IInv, GenericFiled
<1>3. /\ c \subseteq Generic \cap Complex(".")
      /\ c \ e = {s \in Wanted(".", classes) : s.rest # ""} \ e
  BY <1>0, FoundAre
<1>4. /\ d \subseteq Generic \cap Complex("#")
      /\ d \ f = {s \in Wanted("#", ids) : s.rest # ""} \ f
  BY <1>0, FoundAre
<1>5. MisplacedSelectors = e \cup f  BY DEF MisplacedSelectors, Astray
<1>6. /\ Wanted(".", classes) \subseteq Generic \cap Selector
      /\ Wanted("#", ids) \subseteq Generic \cap Selector
      /\ Complex(".") \subseteq Selector /\ Complex("#") \subseteq Selector
  BY DEF Wanted, Complex
<1> HIDE DEF a, b, c, d, e, f, answer
<1>7. answer \subseteq (Generic \cap Selector) \ except  BY <1>1, <1>2, <1>3, <1>4, <1>6
<1>8. answer \ MisplacedSelectors = (wanted \ except) \ MisplacedSelectors
  BY <1>1, <1>2, <1>3, <1>4, <1>5
<1> QED  BY <1>7, <1>8 DEF answer

-------------------------------------------------------------------------------
(* The theorems. *)

\* Accepted lines make rules, and rules fill tables of the right shape: no
\* selector without a class or id is filed under one (cosmetic.rs:359-482,
\* cosmetic_filter_cache_builder.rs:90-245).
THEOREM TypeCorrect == Spec => []TypeOK
<1>1. IInv => TypeOK  BY DEF IInv
<1> QED  BY <1>1, AlwaysIInv, PTL

\* Whatever the rules and their order, a page's resources are what its host's
\* rules say (cosmetic_filter_cache.rs:223-356).
THEOREM AlwaysAsWritten == Spec => []ResourcesAsWritten
<1>1. IInv => ResourcesAsWritten  BY ResourcesAre DEF ResourcesAsWritten
<1> QED  BY <1>1, AlwaysIInv, PTL

\* And the selectors for the classes and ids of a page are the generic ones that
\* no rule excepts there, but for at most one for each growth of the tables
\* (cosmetic_filter_cache.rs:165-213, hash_index.rs:144-200).
THEOREM ClassIdsAlwaysAsWritten == Spec => []ClassIdsAsWritten
<1>1. ASSUME IInv PROVE ClassIdsAsWritten
  <2>1. \A table \in {tables.complexClass, tables.complexId} :
          Cardinality(Misplaced(table)) <= Growths(table)
    BY <1>1 DEF IInv, TablesBounded, Bounded
  <2>2. ASSUME NEW h \in Host, NEW classes \in SUBSET Key("."), NEW ids \in SUBSET Key("#")
        PROVE  LET answer == HiddenClassIdSelectors(tables, classes, ids,
                               HostnameCosmeticResources(tables, h, FALSE).exceptions)
                   safe   == (Generic \cap Selector) \ Excepted(h)
               IN  /\ answer \subseteq safe
                   /\ answer \ MisplacedSelectors =
                        {s \in safe : \/ s.start = "." /\ s.key \in classes
                                      \/ s.start = "#" /\ s.key \in ids} \ MisplacedSelectors
    <3>1. HostnameCosmeticResources(tables, h, FALSE).exceptions = {f.text : f \in Of(h, "hide", TRUE)}
      BY DEF HostnameCosmeticResources, Of, FiledAt
    <3>2. {f.text : f \in Of(h, "hide", TRUE)} = Excepted(h)
      BY <1>1, TextsAre DEF Excepted
    <3>3. {s \in (Generic \cap Selector) \ Excepted(h) : \/ s.start = "." /\ s.key \in classes
                                                         \/ s.start = "#" /\ s.key \in ids}
            = (Wanted(".", classes) \cup Wanted("#", ids)) \ Excepted(h)
      BY DEF Wanted
    <3>4. /\ HiddenClassIdSelectors(tables, classes, ids, Excepted(h))
               \subseteq (Generic \cap Selector) \ Excepted(h)
          /\ HiddenClassIdSelectors(tables, classes, ids, Excepted(h)) \ MisplacedSelectors =
               ((Wanted(".", classes) \cup Wanted("#", ids)) \ Excepted(h)) \ MisplacedSelectors
      BY <1>1, HiddenAre, Zenon
    <3>5. HostnameCosmeticResources(tables, h, FALSE).exceptions = Excepted(h)
      BY <3>1, <3>2, Zenon
    <3> QED  BY <3>3, <3>4, <3>5, Zenon
  <2> QED  BY <2>1, <2>2, Zenon DEF ClassIdsAsWritten
<1> QED  BY <1>1, AlwaysIInv, PTL

-----------------------------------------------------------------------------
(* The resource storage.                                                   *)

\* StorageTypeOK by the variables it is about.
StoreTypeOK == /\ resources \in [DOMAIN resources -> Resource] /\ DOMAIN resources \subseteq Ident
               /\ aliases \in [DOMAIN aliases -> Ident] /\ DOMAIN aliases \subseteq Ident
PageTypeOK  == /\ asked \subseteq RuleInjection /\ toDo \subseteq asked /\ invoked \subseteq asked
               /\ call \in [injection : asked, resource : Resource] \cup {NoCall}
               /\ work \in Seq(Ident) /\ deps \in Seq(Resource)

\* The two maps of the store agree with each other.
Consistent ==
  /\ \A n \in DOMAIN resources :
       /\ resources[n].name = n
       /\ \A a \in resources[n].aliases :
            a \in DOMAIN aliases /\ aliases[a] = n /\ (a \in DOMAIN resources => a = n)
  /\ \A a \in DOMAIN aliases :
       aliases[a] \in DOMAIN resources /\ a \in resources[aliases[a]].aliases

StoreInv == StoreTypeOK /\ Consistent

Canonicals(s) == \A w \in DOMAIN s : \A q \in Resource : s[w] \notin q.aliases

\* Where the current call stands.
CallInv ==
  /\ toDo \cap invoked = {}
  /\ call = NoCall => work = << >>
  /\ call # NoCall => /\ call.injection \notin toDo \cup invoked
                      /\ IsInjectableBy(call.resource, call.injection.permission)

\* A dependency is collected or about to be.
Met(d) == Loaded(d) \/ \E w \in DOMAIN work : work[w] = d

CallMet == call # NoCall => \A k \in DOMAIN call.resource.dependencies :
                              Met(call.resource.dependencies[k])

PageInv == PageTypeOK /\ Canonicals(work) /\ CallInv
AnswerInv == CollectedOnce /\ CollectedWithPermission /\ CallMet /\ CompleteUnlessFailed

StorageIInv == StoreInv /\ PageInv /\ AnswerInv

-------------------------------------------------------------------------------
(* Facts about resources and sequences. *)

LEMMA ResourceFields ==
  ASSUME NEW r \in Resource
  PROVE  /\ r.name \in Ident /\ r.aliases \subseteq Ident /\ r.permission \subseteq Trust
         /\ r.dependencies \in Seq(Ident) /\ Canonicals(r.dependencies)
<1>1. r \in ResourceRecord  BY ResourceAssumption
<1>2. Canonicals(r.dependencies)  BY CanonicalDependencies DEF Canonicals
<1> QED  BY <1>1, <1>2 DEF ResourceRecord

\* What is visited instead of the head of the work.
LEMMA Replaced ==
  ASSUME NEW s \in Seq(Ident), NEW t \in Seq(Ident), t # << >>
  PROVE  /\ s \o Tail(t) \in Seq(Ident)
         /\ \A k \in DOMAIN s : \E w \in DOMAIN (s \o Tail(t)) : (s \o Tail(t))[w] = s[k]
         /\ \A k \in DOMAIN t : t[k] = Head(t) \/ \E w \in DOMAIN (s \o Tail(t)) : (s \o Tail(t))[w] = t[k]
         /\ \A w \in DOMAIN (s \o Tail(t)) :
              (\E k \in DOMAIN s : (s \o Tail(t))[w] = s[k]) \/ (\E k \in DOMAIN t : (s \o Tail(t))[w] = t[k])
<1> DEFINE u == Tail(t)
<1>1. u \in Seq(Ident) /\ Len(u) = Len(t) - 1 /\ Len(t) \in Nat /\ Len(s) \in Nat /\ Len(u) \in Nat
  OBVIOUS
<1>2. \A k \in 1 .. Len(u) : u[k] = t[k + 1] /\ k + 1 \in DOMAIN t
  OBVIOUS
<1>3. t[1] = Head(t) /\ DOMAIN t = 1 .. Len(t) /\ DOMAIN s = 1 .. Len(s)
  OBVIOUS
<1>4. s \o u \in Seq(Ident) /\ Len(s \o u) = Len(s) + Len(u)
  BY <1>1
<1>5. DOMAIN (s \o u) = 1 .. Len(s) + Len(u)
  BY <1>4
<1>6. \A k \in 1 .. Len(s) : (s \o u)[k] = s[k]
  BY <1>1
<1>7. \A k \in 1 .. Len(u) : (s \o u)[Len(s) + k] = u[k]
  BY <1>1
<1> HIDE DEF u
<1>8. \A k \in DOMAIN s : k \in DOMAIN (s \o u)
  BY <1>1, <1>3, <1>5
<1>9. ASSUME NEW k \in DOMAIN t PROVE t[k] = Head(t) \/ \E w \in DOMAIN (s \o u) : (s \o u)[w] = t[k]
  <2>1. CASE k = 1  BY <2>1, <1>3
  <2>2. CASE k # 1
    <3>1. k - 1 \in 1 .. Len(u) /\ (k - 1) + 1 = k  BY <2>2, <1>1, <1>3
    <3>2. u[k - 1] = t[k]  BY <3>1, <1>2
    <3>3. Len(s) + (k - 1) \in DOMAIN (s \o u)  BY <3>1, <1>1, <1>5
    <3> QED  BY <3>1, <3>2, <3>3, <1>7
  <2> QED  BY <2>1, <2>2
<1>10. ASSUME NEW w \in DOMAIN (s \o u)
       PROVE (\E k \in DOMAIN s : (s \o u)[w] = s[k]) \/ (\E k \in DOMAIN t : (s \o u)[w] = t[k])
  <2>1. CASE w \in 1 .. Len(s)  BY <2>1, <1>3, <1>6
  <2>2. CASE w \notin 1 .. Len(s)
    <3>1. w - Len(s) \in 1 .. Len(u) /\ Len(s) + (w - Len(s)) = w  BY <2>2, <1>1, <1>5
    <3> QED  BY <3>1, <1>2, <1>7
  <2> QED  BY <2>1, <2>2
<1> QED  BY <1>3, <1>4, <1>6, <1>8, <1>9, <1>10 DEF u

LEMMA Appended ==
  ASSUME NEW S, NEW s \in Seq(S), NEW x \in S
  PROVE  /\ Append(s, x) \in Seq(S)
         /\ DOMAIN Append(s, x) = 1 .. Len(s) + 1 /\ DOMAIN s = 1 .. Len(s) /\ Len(s) \in Nat
         /\ \A i \in DOMAIN s : Append(s, x)[i] = s[i]
         /\ Append(s, x)[Len(s) + 1] = x
OBVIOUS

-------------------------------------------------------------------------------
(* Filling the store. *)

LEMMA AddKeepsStore ==
  ASSUME StoreInv, NEW r \in Resource, AddResource(r) PROVE StoreInv'
<1> USE DEF StoreInv, AddResource
<1>1. r.name \in Ident /\ r.aliases \subseteq Ident  BY ResourceFields
<1>2. /\ DOMAIN resources' = DOMAIN resources \cup {r.name}
      /\ DOMAIN aliases' = DOMAIN aliases \cup r.aliases
  OBVIOUS
<1>3. /\ resources'[r.name] = r
      /\ \A n \in DOMAIN resources : n # r.name /\ resources'[n] = resources[n]
  BY DEF Refused, Idents
<1>4. /\ \A a \in r.aliases : aliases'[a] = r.name
      /\ \A a \in DOMAIN aliases : a \notin r.aliases /\ aliases'[a] = aliases[a]
  BY DEF Refused, Idents
<1>5. r.name \notin DOMAIN aliases /\ \A a \in r.aliases : a \notin DOMAIN resources
  BY DEF Refused, Idents
<1>6. StoreTypeOK'
  <2>1. resources' \in [DOMAIN resources' -> Resource]  BY DEF StoreTypeOK
  <2>2. aliases' \in [DOMAIN aliases' -> Ident]  BY <1>1 DEF StoreTypeOK
  <2> QED  BY <2>1, <2>2, <1>1, <1>2 DEF StoreTypeOK
<1>7. ASSUME NEW n \in DOMAIN resources'
      PROVE  /\ resources'[n].name = n
             /\ \A a \in resources'[n].aliases :
                  a \in DOMAIN aliases' /\ aliases'[a] = n /\ (a \in DOMAIN resources' => a = n)
  <2>1. CASE n = r.name  BY <2>1, <1>2, <1>3, <1>4, <1>5
  <2>2. CASE n \in DOMAIN resources  BY <2>2, <1>2, <1>3, <1>4, <1>5 DEF Consistent
  <2> QED  BY <2>1, <2>2, <1>2
<1>8. ASSUME NEW a \in DOMAIN aliases'
      PROVE aliases'[a] \in DOMAIN resources' /\ a \in resources'[aliases'[a]].aliases
  <2>1. CASE a \in r.aliases  BY <2>1, <1>2, <1>3, <1>4
  <2>2. CASE a \in DOMAIN aliases  BY <2>2, <1>2, <1>3, <1>4 DEF Consistent
  <2> QED  BY <2>1, <2>2, <1>2
<1> QED  BY <1>6, <1>7, <1>8 DEF Consistent

\* Nothing else touches the store.
LEMMA OthersKeepStore ==
  ASSUME StoreInv, UNCHANGED <<resources, aliases>> PROVE StoreInv'
BY DEF StoreInv, StoreTypeOK, Consistent

\* What get_resource returns.
LEMMA Gotten ==
  ASSUME StoreInv, NEW ident, Known(ident)
  PROVE  /\ Get(ident) \in Resource
         /\ Canonicals(<<ident>>) => Get(ident).name = ident
<1>1. Canonical(ident) \in DOMAIN resources /\ Get(ident) = resources[Canonical(ident)]
  BY DEF Known, Get
<1>2. Get(ident) \in Resource /\ Get(ident).name = Canonical(ident)
  BY <1>1 DEF StoreInv, StoreTypeOK, Consistent
<1>3. ASSUME Canonicals(<<ident>>) PROVE Canonical(ident) = ident
  <2>1. \A q \in Resource : ident \notin q.aliases  BY <1>3 DEF Canonicals
  <2>2. ident \notin DOMAIN aliases  BY <2>1 DEF StoreInv, StoreTypeOK, Consistent
  <2> QED  BY <2>2 DEF Canonical
<1> QED  BY <1>2, <1>3

\* Every resource is found under each of its names.
LEMMA StoreFinds == StoreInv => FoundUnderItsNames
<1> SUFFICES ASSUME StoreInv, NEW n \in DOMAIN resources, NEW ident \in Idents(resources[n])
             PROVE Known(ident) /\ Get(ident) = resources[n]
  BY DEF FoundUnderItsNames
<1>1. resources[n].name = n  BY DEF StoreInv, Consistent
<1>2. CASE ident = n  BY <1>2 DEF Known, Get, Canonical
<1>3. CASE ident # n
  <2>1. ident \in resources[n].aliases  BY <1>1, <1>3 DEF Idents
  <2>2. ident \in DOMAIN aliases /\ aliases[ident] = n /\ ident \notin DOMAIN resources
    BY <2>1, <1>3 DEF StoreInv, Consistent
  <2> QED  BY <2>2 DEF Known, Get, Canonical
<1> QED  BY <1>2, <1>3

-------------------------------------------------------------------------------
(* Asking it: the place of the page's answer. *)

LEMMA HeadOfWork ==
  ASSUME PageInv, work # << >>
  PROVE  Head(work) \in Ident /\ Canonicals(<<Head(work)>>) /\ Tail(work) \in Seq(Ident)
         /\ Canonicals(Tail(work))
<1>1. work \in Seq(Ident)  BY DEF PageInv, PageTypeOK
<1>2. /\ Head(work) = work[1] /\ 1 \in DOMAIN work /\ Tail(work) \in Seq(Ident)
      /\ work[1] \in Ident
      /\ \A k \in DOMAIN Tail(work) : Tail(work)[k] = work[k + 1] /\ k + 1 \in DOMAIN work
  BY <1>1
<1>3. \A q \in Resource : Head(work) \notin q.aliases
  BY <1>2 DEF PageInv, Canonicals
<1>4. Canonicals(<<Head(work)>>)  BY <1>3 DEF Canonicals
<1>5. Canonicals(Tail(work))  BY <1>2 DEF PageInv, Canonicals
<1> QED  BY <1>2, <1>4, <1>5

LEMMA CallFields ==
  ASSUME PageInv, call # NoCall
  PROVE  call.injection \in asked /\ call.resource \in Resource
BY DEF PageInv, PageTypeOK

LEMMA StepKeepsPage ==
  ASSUME StoreInv, PageInv, StorageNext PROVE PageInv'
<1> USE DEF PageInv
<1>1. ASSUME NEW r \in Resource, AddResource(r) PROVE PageInv'
  BY <1>1 DEF AddResource, PageTypeOK, Canonicals, CallInv, IsInjectableBy
<1>2. ASSUME NEW injections \in SUBSET RuleInjection, Ask(injections) PROVE PageInv'
  <2>1. PageTypeOK'  BY <1>2 DEF Ask, PageTypeOK
  <2>2. Canonicals(work)'  BY <1>2 DEF Ask, Canonicals
  <2>3. CallInv'  BY <1>2 DEF Ask, CallInv
  <2> QED  BY <2>1, <2>2, <2>3
<1>3. ASSUME NEW i \in RuleInjection, Begin(i) PROVE PageInv'
  <2>1. CASE ~Injectable(i)
    <3>1. UNCHANGED <<call, work, deps, asked, invoked>> /\ toDo' = toDo \ {i}
      BY <1>3, <2>1 DEF Begin
    <3> QED  BY <3>1 DEF PageTypeOK, Canonicals, CallInv, IsInjectableBy
  <2>2. CASE Injectable(i)
    <3>1. Get(i.name) \in Resource /\ IsInjectableBy(Get(i.name), i.permission)
      BY <2>2, Gotten DEF Injectable, Permissioned
    <3>2. /\ call' = [injection |-> i, resource |-> Get(i.name)] /\ work' = Get(i.name).dependencies
          /\ toDo' = toDo \ {i} /\ UNCHANGED <<deps, asked, invoked>> /\ i \in toDo
      BY <1>3, <2>2 DEF Begin
    <3>3. work' \in Seq(Ident) /\ Canonicals(work')  BY <3>1, <3>2, ResourceFields
    <3>4. PageTypeOK'  BY <3>1, <3>2, <3>3 DEF PageTypeOK
    <3>5. CallInv'
      <4>1. i \in asked  BY <3>2 DEF PageTypeOK
      <4>2. call' # NoCall
        BY <3>1, <3>2, NoCallAssumption, <1>3
      <4>3. i \notin toDo' \cup invoked'  BY <3>2 DEF CallInv
      <4>4. call'.injection = i /\ call'.resource = Get(i.name)  BY <3>2
      <4>5. toDo' \cap invoked' = {}  BY <3>2 DEF CallInv
      <4> QED  BY <4>2, <4>3, <4>4, <4>5, <3>1 DEF CallInv, IsInjectableBy
    <3>6. Canonicals(work)'  BY <3>3 DEF Canonicals
    <3> QED  BY <3>4, <3>5, <3>6
  <2> QED  BY <2>1, <2>2
<1>4. CASE Collect
  <2> DEFINE r == Get(Head(work))
  <2>1. work # << >> /\ work \in Seq(Ident) /\ deps \in Seq(Resource)
        /\ Permissioned(Head(work), call.injection.permission)
    BY <1>4 DEF Collect, PageTypeOK
  <2>2. r \in Resource  BY <2>1, Gotten DEF Permissioned
  <2>3. r.dependencies \in Seq(Ident) /\ Canonicals(r.dependencies)  BY <2>2, ResourceFields
  <2>4. /\ work' = r.dependencies \o Tail(work) /\ deps' = Append(deps, r)
        /\ UNCHANGED <<asked, toDo, call, invoked>> /\ call # NoCall
    BY <1>4 DEF Collect
  <2> HIDE DEF r
  <2>5. work' \in Seq(Ident)  BY <2>1, <2>3, <2>4, Replaced
  <2>6. Canonicals(work)'
    <3>1. ASSUME NEW w \in DOMAIN work', NEW q \in Resource PROVE work'[w] \notin q.aliases
      <4>1. \/ \E k \in DOMAIN r.dependencies : work'[w] = r.dependencies[k]
            \/ \E k \in DOMAIN work : work'[w] = work[k]
        <5> DEFINE next == r.dependencies \o Tail(work)
        <5>1. work \in Seq(Ident) /\ work # << >> /\ r.dependencies \in Seq(Ident)
          BY <2>1, <2>3
        <5>2. \A v \in DOMAIN next : \/ \E k \in DOMAIN r.dependencies : next[v] = r.dependencies[k]
                                     \/ \E k \in DOMAIN work : next[v] = work[k]
          BY ONLY <5>1, Replaced
        <5>3. work' = next  BY <2>4
        <5> HIDE DEF next
        <5> QED  BY ONLY <5>2, <5>3, w \in DOMAIN work'
      <4> QED  BY <4>1, <2>3 DEF Canonicals
    <3> QED  BY <3>1 DEF Canonicals
  <2>7. deps' \in Seq(Resource)  BY <2>1, <2>2, <2>4, Appended
  <2>8. PageTypeOK'  BY <2>4, <2>5, <2>7 DEF PageTypeOK
  <2>9. CallInv'  BY <2>4 DEF CallInv, IsInjectableBy
  <2> QED  BY <2>6, <2>8, <2>9
<1>5. CASE Skip
  <2>1. work # << >> /\ work' = Tail(work) /\ call # NoCall
        /\ UNCHANGED <<asked, toDo, call, deps, invoked>>
    BY <1>5 DEF Skip
  <2>2. work' \in Seq(Ident) /\ Canonicals(work')  BY <2>1, HeadOfWork
  <2>3. Canonicals(work)'  BY <2>2 DEF Canonicals
  <2> QED  BY <2>1, <2>2, <2>3 DEF PageTypeOK, CallInv, IsInjectableBy
<1>6. CASE Fail
  <2>1. work' = << >> /\ call' = NoCall /\ UNCHANGED <<asked, toDo, deps, invoked>>
    BY <1>6 DEF Fail
  <2>2. PageTypeOK'  BY <2>1 DEF PageTypeOK
  <2>3. Canonicals(work)'  BY <2>1 DEF Canonicals
  <2>4. CallInv'  BY <2>1 DEF CallInv
  <2> QED  BY <2>2, <2>3, <2>4
<1>7. CASE Invoke
  <2>1. call # NoCall /\ work = << >> /\ call' = NoCall /\ UNCHANGED <<asked, toDo, work>>
        /\ invoked' = invoked \cup {call.injection}
        /\ (deps' = deps \/ deps' = Append(deps, call.resource))
    BY <1>7 DEF Invoke
  <2>2. call.injection \in asked /\ call.resource \in Resource  BY <2>1, CallFields
  <2>3. deps' \in Seq(Resource)  BY <2>1, <2>2, Appended DEF PageTypeOK
  <2>4. PageTypeOK'  BY <2>1, <2>2, <2>3 DEF PageTypeOK
  <2>5. CallInv'  BY <2>1 DEF CallInv
  <2>6. Canonicals(work)'  BY <2>1 DEF Canonicals
  <2> QED  BY <2>4, <2>5, <2>6
<1> QED  BY <1>1, <1>2, <1>3, <1>4, <1>5, <1>6, <1>7 DEF StorageNext

-------------------------------------------------------------------------------
(* What is collected. *)

\* A resource that is collected keeps the collection free of doubles.
LEMMA OnceMore ==
  ASSUME CollectedOnce, deps \in Seq(Resource), NEW r \in Resource, ~Loaded(r.name),
         deps' = Append(deps, r)
  PROVE  CollectedOnce'
<1>1. /\ DOMAIN deps' = 1 .. Len(deps) + 1 /\ DOMAIN deps = 1 .. Len(deps) /\ Len(deps) \in Nat
      /\ (\A i \in DOMAIN deps : deps'[i] = deps[i]) /\ deps'[Len(deps) + 1] = r
  BY Appended
<1> SUFFICES ASSUME NEW i \in DOMAIN deps', NEW j \in DOMAIN deps', deps'[i].name = deps'[j].name
             PROVE i = j
  BY DEF CollectedOnce
<1>2. \A k \in DOMAIN deps : deps[k].name # r.name  BY DEF Loaded
<1>3. (i \in DOMAIN deps \/ i = Len(deps) + 1) /\ (j \in DOMAIN deps \/ j = Len(deps) + 1)
  BY <1>1
<1> QED  BY <1>1, <1>2, <1>3 DEF CollectedOnce

LEMMA WithPermission ==
  ASSUME CollectedWithPermission, deps \in Seq(Resource), NEW r \in Resource,
         NEW j \in asked, IsInjectableBy(r, j.permission), deps' = Append(deps, r), asked' = asked
  PROVE  CollectedWithPermission'
<1>1. /\ DOMAIN deps' = 1 .. Len(deps) + 1 /\ DOMAIN deps = 1 .. Len(deps) /\ Len(deps) \in Nat
      /\ (\A i \in DOMAIN deps : deps'[i] = deps[i]) /\ deps'[Len(deps) + 1] = r
  BY Appended
<1> SUFFICES ASSUME NEW i \in DOMAIN deps'
             PROVE \E k \in asked : IsInjectableBy(deps'[i], k.permission)
  BY DEF CollectedWithPermission, IsInjectableBy
<1>2. i \in DOMAIN deps \/ i = Len(deps) + 1  BY <1>1
<1> QED  BY <1>1, <1>2 DEF CollectedWithPermission, IsInjectableBy

\* Once met, a dependency stays met while the same call is looked at.
LEMMA StaysMet ==
  ASSUME StoreInv, PageInv, Collect \/ Skip \/ Invoke, NEW d, Met(d) PROVE Met(d)'
<1>0. work \in Seq(Ident) /\ deps \in Seq(Resource)  BY DEF PageInv, PageTypeOK
<1>1. CASE Collect
  <2> DEFINE r == Get(Head(work))
  <2>1. work # << >> /\ Known(Head(work)) /\ deps' = Append(deps, r)
        /\ work' = r.dependencies \o Tail(work)
    BY <1>1 DEF Collect, Permissioned
  <2>2. r \in Resource /\ r.name = Head(work)  BY <2>1, Gotten, HeadOfWork
  <2>3. r.dependencies \in Seq(Ident)  BY <2>2, ResourceFields
  <2> HIDE DEF r
  <2>4. /\ DOMAIN deps' = 1 .. Len(deps) + 1 /\ DOMAIN deps = 1 .. Len(deps) /\ Len(deps) \in Nat
        /\ (\A i \in DOMAIN deps : deps'[i] = deps[i]) /\ deps'[Len(deps) + 1] = r
    BY <1>0, <2>1, <2>2, Appended
  <2>5. (\A i \in DOMAIN deps : i \in DOMAIN deps') /\ Len(deps) + 1 \in DOMAIN deps'  BY <2>4
  <2>6. CASE Loaded(d)
    <3>1. PICK i \in DOMAIN deps : deps[i].name = d  BY <2>6 DEF Loaded
    <3>2. i \in DOMAIN deps' /\ deps'[i].name = d  BY <3>1, <2>4, <2>5
    <3> QED  BY <3>2 DEF Met, Loaded
  <2>7. CASE \E w \in DOMAIN work : work[w] = d
    <3>0. \A k \in DOMAIN work : work[k] = Head(work)
            \/ \E w \in DOMAIN (r.dependencies \o Tail(work)) : (r.dependencies \o Tail(work))[w] = work[k]
      BY <2>1, <2>3, <1>0, Replaced
    <3>1. d = Head(work) \/ \E w \in DOMAIN work' : work'[w] = d
      BY <2>7, <2>1, <3>0, Zenon
    <3>2. CASE d = Head(work)
      <4>1. deps'[Len(deps) + 1].name = d  BY <3>2, <2>2, <2>4
      <4> QED  BY <4>1, <2>5 DEF Met, Loaded
    <3> QED  BY <3>1, <3>2 DEF Met
  <2> QED  BY <2>6, <2>7 DEF Met
<1>2. CASE Skip
  <2>1. work # << >> /\ work' = Tail(work) /\ deps' = deps /\ Loaded(Head(work))
    BY <1>2 DEF Skip
  <2>2. CASE Loaded(d)  BY <2>1, <2>2 DEF Met, Loaded
  <2>3. CASE \E w \in DOMAIN work : work[w] = d
    <3>1. << >> \in Seq(Ident) /\ << >> \o Tail(work) = Tail(work)  BY <1>0, <2>1
    <3>0. \A k \in DOMAIN work : work[k] = Head(work)
            \/ \E w \in DOMAIN (<< >> \o Tail(work)) : (<< >> \o Tail(work))[w] = work[k]
      BY <2>1, <3>1, <1>0, Replaced
    <3>2. d = Head(work) \/ \E w \in DOMAIN Tail(work) : Tail(work)[w] = d
      BY <2>3, <3>0, <3>1, Zenon
    <3>3. CASE d = Head(work)  BY <3>3, <2>1 DEF Met, Loaded
    <3> QED  BY <3>2, <3>3, <2>1 DEF Met
  <2> QED  BY <2>2, <2>3 DEF Met
<1>3. CASE Invoke
  <2>1. call # NoCall /\ work = << >> /\ (deps' = deps \/ deps' = Append(deps, call.resource))
    BY <1>3 DEF Invoke
  <2>2. PICK i \in DOMAIN deps : deps[i].name = d  BY <2>1 DEF Met, Loaded
  <2>3. call.resource \in Resource  BY <2>1, CallFields
  <2>4. i \in DOMAIN deps' /\ deps'[i] = deps[i]
    <3>1. CASE deps' = deps  BY <3>1
    <3>2. CASE deps' = Append(deps, call.resource)
      <4>1. /\ DOMAIN deps' = 1 .. Len(deps) + 1 /\ DOMAIN deps = 1 .. Len(deps) /\ Len(deps) \in Nat
            /\ \A k \in DOMAIN deps : deps'[k] = deps[k]
        BY <3>2, <1>0, <2>3, Appended
      <4> QED  BY <4>1
    <3> QED  BY <2>1, <3>1, <3>2
  <2> QED  BY <2>2, <2>4 DEF Met, Loaded
<1> QED  BY <1>1, <1>2, <1>3

\* Everything collected has its dependencies met, unless something failed.
AllMet == \A i \in DOMAIN deps : \A k \in DOMAIN deps[i].dependencies : Met(deps[i].dependencies[k])

LEMMA CompleteMeans == CompleteUnlessFailed <=> (Failed = {} => AllMet)
BY DEF CompleteUnlessFailed, AllMet, Met

\* One more resource, whose own dependencies are met.
LEMMA OneMoreMet ==
  ASSUME AllMet, deps \in Seq(Resource), NEW r \in Resource, deps' = Append(deps, r),
         \A d \in Ident : Met(d) => Met(d)',
         \A k \in DOMAIN r.dependencies : \A d : d = r.dependencies[k] => Met(d)'
  PROVE  AllMet'
<1>1. /\ DOMAIN deps' = 1 .. Len(deps) + 1 /\ DOMAIN deps = 1 .. Len(deps) /\ Len(deps) \in Nat
      /\ (\A i \in DOMAIN deps : deps'[i] = deps[i]) /\ deps'[Len(deps) + 1] = r
  BY Appended
<1> SUFFICES ASSUME NEW i \in DOMAIN deps', NEW k \in DOMAIN deps'[i].dependencies,
                    NEW d, d = deps'[i].dependencies[k]
             PROVE Met(d)'
  BY DEF AllMet, Met, Loaded
<1>2. CASE i \in DOMAIN deps
  <2>1. deps'[i] = deps[i] /\ deps[i] \in Resource  BY <1>1, <1>2
  <2>2. deps[i].dependencies \in Seq(Ident)  BY <2>1, ResourceFields
  <2>3. d = deps[i].dependencies[k] /\ d \in Ident  BY <2>1, <2>2
  <2>4. Met(d)  BY <1>2, <2>1, <2>3 DEF AllMet
  <2> QED  BY <2>3, <2>4
<1>3. CASE i = Len(deps) + 1
  <2>1. d = r.dependencies[k] /\ k \in DOMAIN r.dependencies  BY <1>1, <1>3
  <2> QED  BY <2>1
<1> QED  BY <1>1, <1>2, <1>3

-------------------------------------------------------------------------------
(* What each action preserves of the answer. *)

\* Actions that leave the collection alone.
LEMMA StillCollected ==
  ASSUME CollectedOnce, CollectedWithPermission, deps' = deps, asked' = asked
  PROVE  CollectedOnce' /\ CollectedWithPermission'
BY DEF CollectedOnce, CollectedWithPermission, IsInjectableBy

LEMMA FillKeepsAnswer ==
  ASSUME AnswerInv, NEW r \in Resource, AddResource(r) PROVE AnswerInv'
<1>1. UNCHANGED <<asked, toDo, call, work, deps, invoked>>  BY DEF AddResource
<1>2. CallMet'  BY <1>1 DEF AnswerInv, CallMet, Met, Loaded
<1>3. CompleteUnlessFailed'
  BY <1>1 DEF AnswerInv, CompleteUnlessFailed, Failed, Loaded
<1> QED  BY <1>1, <1>2, <1>3, StillCollected DEF AnswerInv

LEMMA AskKeepsAnswer ==
  ASSUME NEW injections \in SUBSET RuleInjection, Ask(injections) PROVE AnswerInv'
<1>1. deps' = << >> /\ call' = NoCall  BY DEF Ask
<1>2. DOMAIN deps' = {}  BY <1>1
<1> QED
  BY <1>1, <1>2 DEF AnswerInv, CollectedOnce, CollectedWithPermission, CallMet, CompleteUnlessFailed

LEMMA BeginKeepsAnswer ==
  ASSUME StoreInv, PageInv, AnswerInv, NEW i \in RuleInjection, Begin(i) PROVE AnswerInv'
<1>1. call = NoCall /\ work = << >> /\ toDo' = toDo \ {i} /\ i \in toDo
      /\ UNCHANGED <<asked, deps, invoked>>
  BY DEF Begin, PageInv, CallInv
<1>2. CollectedOnce' /\ CollectedWithPermission'  BY <1>1, StillCollected DEF AnswerInv
<1>3. \A d : Met(d) => Loaded(d)  BY <1>1 DEF Met
<1>4. \A d : Met(d) => Met(d)'  BY <1>1, <1>3 DEF Met, Loaded
<1>5. ASSUME Failed' = {} PROVE Failed = {}
  <2>1. call' # NoCall => call'.injection = i  BY <1>1 DEF Begin
  <2>2. ASSUME NEW x \in Failed PROVE x \in Failed'
    <3>1. x \in asked /\ x \notin toDo /\ x \notin invoked  BY <2>2 DEF Failed
    <3>2. x # i  BY <1>1, <3>1
    <3> QED  BY <1>1, <2>1, <3>1, <3>2 DEF Failed
  <2> QED  BY <1>5, <2>2
<1>6. CompleteUnlessFailed'
  <2> SUFFICES ASSUME Failed' = {} PROVE AllMet'
    BY DEF CompleteUnlessFailed, AllMet, Met, Loaded
  <2>1. AllMet  BY <1>5, CompleteMeans DEF AnswerInv
  <2>2. DOMAIN deps' = DOMAIN deps /\ \A k \in DOMAIN deps : deps'[k] = deps[k]  BY <1>1
  <2> SUFFICES ASSUME NEW n \in DOMAIN deps, NEW k \in DOMAIN deps[n].dependencies,
                      NEW d, d = deps[n].dependencies[k]
               PROVE Met(d)'
    BY <1>1 DEF AllMet, Met, Loaded
  <2> QED  BY <2>1, <1>4 DEF AllMet
<1>7. CallMet'
  <2>1. CASE ~Injectable(i)  BY <1>1, <2>1 DEF Begin, CallMet
  <2>2. CASE Injectable(i)
    <3>1. call'.resource.dependencies = work'  BY <2>2 DEF Begin
    <3> QED  BY <3>1 DEF CallMet, Met
  <2> QED  BY <2>1, <2>2
<1> QED  BY <1>2, <1>6, <1>7 DEF AnswerInv

LEMMA CollectKeepsAnswer ==
  ASSUME StoreInv, PageInv, AnswerInv, Collect PROVE AnswerInv'
<1>0. Get(Head(work)) \in Resource /\ Get(Head(work)).name = Head(work)
  BY Gotten, HeadOfWork DEF Collect, Permissioned
<1> PICK r \in Resource : r = Get(Head(work))
  BY <1>0
<1>1. /\ call # NoCall /\ work # << >> /\ ~Loaded(Head(work))
      /\ Known(Head(work)) /\ IsInjectableBy(r, call.injection.permission)
      /\ deps' = Append(deps, r) /\ work' = r.dependencies \o Tail(work)
      /\ UNCHANGED <<asked, toDo, call, invoked>>
  BY DEF Collect, Permissioned
<1>2. r \in Resource /\ r.name = Head(work)  BY <1>0
<1>3. deps \in Seq(Resource) /\ work \in Seq(Ident)  BY DEF PageInv, PageTypeOK
<1>4. call.injection \in asked  BY <1>1, CallFields
<1>5. CollectedOnce'  BY <1>1, <1>2, <1>3, OnceMore DEF AnswerInv
<1>6. CollectedWithPermission'  BY <1>1, <1>2, <1>3, <1>4, WithPermission DEF AnswerInv
<1>7. ASSUME NEW d, Met(d) PROVE Met(d)'  BY <1>7, StaysMet
<1>8. ASSUME NEW k \in DOMAIN r.dependencies, NEW d, d = r.dependencies[k] PROVE Met(d)'
  <2>1. r.dependencies \in Seq(Ident)  BY <1>2, ResourceFields
  <2>2. \A n \in DOMAIN r.dependencies : \E w \in DOMAIN (r.dependencies \o Tail(work)) :
          (r.dependencies \o Tail(work))[w] = r.dependencies[n]
    BY <1>1, <1>3, <2>1, Replaced
  <2>3. \E w \in DOMAIN work' : work'[w] = d  BY <1>1, <1>8, <2>2, Zenon
  <2> QED  BY <2>3 DEF Met
<1>9. CallMet'
  <2>1. call' = call  BY <1>1
  <2> SUFFICES ASSUME NEW k \in DOMAIN call.resource.dependencies,
                      NEW d, d = call.resource.dependencies[k]
               PROVE Met(d)'
    BY <2>1 DEF CallMet, Met, Loaded
  <2>2. Met(d)  BY <1>1 DEF AnswerInv, CallMet
  <2> QED  BY <2>2, <1>7
<1>10. CompleteUnlessFailed'
  <2>1. Failed' = Failed  BY <1>1 DEF Failed
  <2>2. CASE Failed # {}  BY <2>1, <2>2 DEF CompleteUnlessFailed
  <2>3. CASE Failed = {}
    <3>1. AllMet  BY <2>3, CompleteMeans DEF AnswerInv
    <3>2. AllMet'  BY <3>1, <1>1, <1>2, <1>3, <1>7, <1>8, OneMoreMet
    <3> QED  BY <3>2 DEF CompleteUnlessFailed, AllMet, Met, Loaded
  <2> QED  BY <2>2, <2>3
<1> QED  BY <1>5, <1>6, <1>9, <1>10 DEF AnswerInv

LEMMA SkipKeepsAnswer ==
  ASSUME StoreInv, PageInv, AnswerInv, Skip PROVE AnswerInv'
<1>1. call # NoCall /\ UNCHANGED <<asked, toDo, call, deps, invoked>>  BY DEF Skip
<1>2. CollectedOnce' /\ CollectedWithPermission'  BY <1>1, StillCollected DEF AnswerInv
<1>3. ASSUME NEW d, Met(d) PROVE Met(d)'  BY <1>3, StaysMet
<1>4. CallMet'
  <2> SUFFICES ASSUME NEW k \in DOMAIN call.resource.dependencies,
                      NEW d, d = call.resource.dependencies[k]
               PROVE Met(d)'
    BY <1>1 DEF CallMet, Met, Loaded
  <2>1. Met(d)  BY <1>1 DEF AnswerInv, CallMet
  <2> QED  BY <2>1, <1>3
<1>5. CompleteUnlessFailed'
  <2>1. Failed' = Failed  BY <1>1 DEF Failed
  <2> SUFFICES ASSUME Failed = {}, NEW n \in DOMAIN deps, NEW k \in DOMAIN deps[n].dependencies,
                      NEW d, d = deps[n].dependencies[k]
               PROVE Met(d)'
    BY <1>1, <2>1 DEF CompleteUnlessFailed, Met, Loaded
  <2>2. Met(d)  BY CompleteMeans DEF AnswerInv, AllMet
  <2> QED  BY <2>2, <1>3
<1> QED  BY <1>2, <1>4, <1>5 DEF AnswerInv

LEMMA FailKeepsAnswer ==
  ASSUME PageInv, AnswerInv, Fail PROVE AnswerInv'
<1>1. call # NoCall /\ call' = NoCall /\ UNCHANGED <<asked, toDo, deps, invoked>>  BY DEF Fail
<1>2. CollectedOnce' /\ CollectedWithPermission'  BY <1>1, StillCollected DEF AnswerInv
<1>3. call.injection \in asked /\ call.injection \notin toDo \cup invoked
  BY <1>1, CallFields DEF PageInv, CallInv
<1>4. call.injection \in Failed'  BY <1>1, <1>3 DEF Failed
<1> QED  BY <1>1, <1>2, <1>4 DEF AnswerInv, CallMet, CompleteUnlessFailed

LEMMA InvokeKeepsAnswer ==
  ASSUME StoreInv, PageInv, AnswerInv, Invoke PROVE AnswerInv'
<1>0. call.resource \in Resource  BY CallFields DEF Invoke
<1> PICK r \in Resource : r = call.resource
  BY <1>0
<1>1. /\ call # NoCall /\ work = << >> /\ call' = NoCall /\ UNCHANGED <<asked, toDo, work>>
      /\ invoked' = invoked \cup {call.injection}
      /\ deps' = deps \/ (~Loaded(r.name) /\ deps' = Append(deps, r))
  BY DEF Invoke
<1>2. /\ r \in Resource /\ call.injection \in asked
      /\ IsInjectableBy(r, call.injection.permission) /\ deps \in Seq(Resource)
  BY <1>1, CallFields DEF PageInv, CallInv, PageTypeOK
<1>3. \A k \in DOMAIN r.dependencies : Met(r.dependencies[k])  BY <1>1 DEF AnswerInv, CallMet
<1>4. r.dependencies \in Seq(Ident)  BY <1>2, ResourceFields
<1>5. ASSUME NEW d, Met(d) PROVE Met(d)'  BY <1>5, StaysMet
<1>6. CollectedOnce' /\ CollectedWithPermission'
  <2>1. CASE deps' = deps  BY <2>1, <1>1, StillCollected DEF AnswerInv
  <2>2. CASE ~Loaded(r.name) /\ deps' = Append(deps, r)
    <3>1. CollectedOnce'  BY <2>2, <1>2, OnceMore DEF AnswerInv
    <3>2. CollectedWithPermission'  BY <2>2, <1>1, <1>2, WithPermission DEF AnswerInv
    <3> QED  BY <3>1, <3>2
  <2> QED  BY <1>1, <2>1, <2>2
<1>7. CallMet'  BY <1>1 DEF CallMet
<1>8. CompleteUnlessFailed'
  <2>1. Failed' = Failed  BY <1>1, <1>2 DEF Failed
  <2>2. CASE Failed # {}  BY <2>1, <2>2 DEF CompleteUnlessFailed
  <2>3. CASE Failed = {}
    <3>1. AllMet  BY <2>3, CompleteMeans DEF AnswerInv
    <3>2. CASE deps' = deps
      <4> SUFFICES ASSUME NEW n \in DOMAIN deps, NEW k \in DOMAIN deps[n].dependencies,
                          NEW d, d = deps[n].dependencies[k]
                   PROVE Met(d)'
        BY <3>2 DEF CompleteUnlessFailed, Met, Loaded
      <4> QED  BY <3>1, <1>5 DEF AllMet
    <3>3. CASE deps' = Append(deps, r)
      <4>1. ASSUME NEW k \in DOMAIN r.dependencies, NEW d, d = r.dependencies[k] PROVE Met(d)'
        BY <4>1, <1>3, <1>5
      <4>2. AllMet'  BY <3>1, <3>3, <1>2, <1>5, <4>1, OneMoreMet
      <4> QED  BY <4>2 DEF CompleteUnlessFailed, AllMet, Met, Loaded
    <3> QED  BY <1>1, <3>2, <3>3
  <2> QED  BY <2>2, <2>3
<1> QED  BY <1>6, <1>7, <1>8 DEF AnswerInv

-------------------------------------------------------------------------------
(* The invariant. *)

LEMMA StorageInitially == StorageInit => StorageIInv
<1> SUFFICES ASSUME StorageInit PROVE StorageIInv
  OBVIOUS
<1> USE DEF StorageInit
<1>1. DOMAIN resources = {} /\ DOMAIN aliases = {} /\ DOMAIN deps = {} /\ DOMAIN work = {}
  OBVIOUS
<1>2. StoreTypeOK
  <2>1. resources \in [DOMAIN resources -> Resource] /\ aliases \in [DOMAIN aliases -> Ident]
    OBVIOUS
  <2> QED  BY <1>1, <2>1 DEF StoreTypeOK
<1>3. Consistent  BY <1>1 DEF Consistent
<1>4. PageTypeOK  BY DEF PageTypeOK
<1>5. Canonicals(work) /\ CallInv  BY <1>1 DEF Canonicals, CallInv
<1>6. AnswerInv
  BY <1>1 DEF AnswerInv, CollectedOnce, CollectedWithPermission, CallMet, CompleteUnlessFailed
<1> QED  BY <1>2, <1>3, <1>4, <1>5, <1>6 DEF StorageIInv, StoreInv, PageInv

LEMMA StorageInductive == StorageIInv /\ [StorageNext]_storageVars => StorageIInv'
<1> SUFFICES ASSUME StorageIInv, [StorageNext]_storageVars PROVE StorageIInv'
  OBVIOUS
<1> USE DEF StorageIInv
<1>1. CASE UNCHANGED storageVars
  <2>1. UNCHANGED <<resources, aliases, asked, toDo, call, work, deps, invoked>>
    BY <1>1 DEF storageVars
  <2>2. PageInv'  BY <2>1 DEF PageInv, PageTypeOK, Canonicals, CallInv, IsInjectableBy
  <2>3. AnswerInv'
    BY <2>1 DEF AnswerInv, CollectedOnce, CollectedWithPermission, IsInjectableBy, CallMet, Met,
                Loaded, CompleteUnlessFailed, Failed
  <2> QED  BY <2>1, <2>2, <2>3, OthersKeepStore
<1>2. CASE StorageNext
  <2>1. PageInv'  BY <1>2, StepKeepsPage
  <2>2. ASSUME NEW r \in Resource, AddResource(r) PROVE StoreInv' /\ AnswerInv'
    BY <2>2, AddKeepsStore, FillKeepsAnswer
  <2>3. ASSUME NEW injections \in SUBSET RuleInjection, Ask(injections) PROVE StoreInv' /\ AnswerInv'
    BY <2>3, OthersKeepStore, AskKeepsAnswer DEF Ask
  <2>4. ASSUME NEW i \in RuleInjection, Begin(i) PROVE StoreInv' /\ AnswerInv'
    BY <2>4, OthersKeepStore, BeginKeepsAnswer DEF Begin
  <2>5. CASE Collect  BY <2>1, <2>5, OthersKeepStore, CollectKeepsAnswer DEF Collect
  <2>6. CASE Skip     BY <2>1, <2>6, OthersKeepStore, SkipKeepsAnswer DEF Skip
  <2>7. CASE Fail     BY <2>1, <2>7, OthersKeepStore, FailKeepsAnswer DEF Fail
  <2>8. CASE Invoke   BY <2>1, <2>8, OthersKeepStore, InvokeKeepsAnswer DEF Invoke
  <2> QED  BY <1>2, <2>1, <2>2, <2>3, <2>4, <2>5, <2>6, <2>7, <2>8 DEF StorageNext
<1> QED  BY <1>1, <1>2

LEMMA AlwaysStorageIInv == StorageSpec => []StorageIInv
BY StorageInitially, StorageInductive, PTL DEF StorageSpec

-------------------------------------------------------------------------------
(* The theorems. *)

\* Every variable of the store and of the answer keeps its type.
THEOREM StorageTypeCorrect == StorageSpec => []StorageTypeOK
<1>1. StorageIInv => StorageTypeOK
  BY DEF StorageIInv, StoreInv, PageInv, StoreTypeOK, PageTypeOK, StorageTypeOK
<1> QED  BY <1>1, AlwaysStorageIInv, PTL

\* Whatever is added, refused or asked, a stored resource is found under its
\* name and each of its aliases (resource_storage.rs:137-172, 417-432).
THEOREM AlwaysFound == StorageSpec => []FoundUnderItsNames
<1>1. StorageIInv => FoundUnderItsNames  BY StoreFinds DEF StorageIInv
<1> QED  BY <1>1, AlwaysStorageIInv, PTL

\* No page's script holds a resource twice (resource_storage.rs:275-391).
THEOREM NeverTwice == StorageSpec => []CollectedOnce
<1>1. StorageIInv => CollectedOnce  BY DEF StorageIInv, AnswerInv
<1> QED  BY <1>1, AlwaysStorageIInv, PTL

\* Nothing is collected that no injection of the page may have
\* (resource_storage.rs:309-329, 417-432).
THEOREM NeverBeyondPermission == StorageSpec => []CollectedWithPermission
<1>1. StorageIInv => CollectedWithPermission  BY DEF StorageIInv, AnswerInv
<1> QED  BY <1>1, AlwaysStorageIInv, PTL

\* A page none of whose injections fails gets all that its scriptlets depend on
\* (resource_storage.rs:304-329).
THEOREM AlwaysComplete == StorageSpec => []CompleteUnlessFailed
<1>1. StorageIInv => CompleteUnlessFailed  BY DEF StorageIInv, AnswerInv
<1> QED  BY <1>1, AlwaysStorageIInv, PTL
=================================================================================
