----------------------------- MODULE CosmeticRules -----------------------------
(***************************************************************************)
(* The cosmetic rules of the engine: the parsing of a rule's line          *)
(* (filters/cosmetic.rs), the tables its rules are filed in                *)
(* (cosmetic_filter_cache_builder.rs) and the two queries pages make       *)
(* (cosmetic_filter_cache.rs): the resources of a URL, and the selectors   *)
(* that hide elements with the classes and ids a page has shown.           *)
(*                                                                         *)
(* A name is a sequence of labels, standing for the text and its hash.  A  *)
(* CSS selector is a record: what it starts with, the class or id that     *)
(* key_from_selector reads there (Null: none), and the rest, "" when the   *)
(* key is all of it.                                                       *)
(*                                                                         *)
(* The selectors with a class or id in front are pushed into the slot that *)
(* get_or_insert returned, which is a stale one when the table has just    *)
(* grown (hash_index.rs).  The slots themselves are FlatContainers'; here  *)
(* such a push reaches any key of the table, or an empty slot.             *)
(***************************************************************************)
EXTENDS Naturals, Sequences, FiniteSets

CONSTANTS
  Name,        \* label sequences: hostnames, entities, public suffixes
  Host,        \* pages' hosts: [name, domain], domain the index of its first label
  Selector,    \* the CSS selectors of rules
  Procedural,  \* those css-validation splits into operators (none without the feature)
  Invalid,     \* those css-validation refuses
  Script,      \* texts between "+js(" and ")"
  NoScript,    \* the empty one
  BadScript,   \* those parse_scriptlet_args refuses
  Action,      \* the actions: style, remove, ...
  Bit,         \* permission bits
  Line,        \* the lines of cosmetic rules considered
  Null

\* Selectors that look alike in the three fields are one.
ASSUME SelectorAssumption ==
  /\ Procedural \subseteq Selector /\ Invalid \subseteq Selector
  /\ \A s, t \in Selector : s.start = t.start /\ s.key = t.key /\ s.rest = t.rest => s = t
ASSUME NullAssumption     == Null \notin Action

Location == [kind : {"host", "entity", "regex", "notIdna"}, negated : BOOLEAN, name : Name]

LineRecord ==
  [located   : BOOLEAN,             \* there is text before the first sharp
   modifiers : BOOLEAN,             \* ... which starts with "["
   locations : SUBSET Location,     \* ... and is this list
   mark      : {"##", "#?#", "#@#", "#@?#", "foreign"},
   body      : {"css", "script", "html", "empty"},
   selector  : Selector \cup Script,
   action    : Action \cup {Null, "invalid"},
   permission : SUBSET Bit]

\* CosmeticFilter.  Hostnames and entities are used alike, as one set of names.
Rule == [at : SUBSET Name, notAt : SUBSET Name, unhide : BOOLEAN, script : BOOLEAN,
         selector : Selector \cup Script, action : Action \cup {Null}, permission : SUBSET Bit]

\* Locations are before the sharp.  A text there may name none: only commas.
ASSUME LineAssumption ==
  /\ Line \subseteq LineRecord
  /\ \A line \in Line : /\ line.locations # {} => line.located
                        /\ line.body = "css" => line.selector \in Selector
                        /\ line.body = "script" => line.selector \in Script /\ line.action = Null

VARIABLES
  rules,    \* the rules the engine was given
  tables    \* what CosmeticFilterCacheBuilder has filed
vars == <<rules, tables>>

-----------------------------------------------------------------------------
(* Parsing a line.                                                         *)

Unhides(line) == line.mark \in {"#@#", "#@?#"}

NamesOf(line, negated) ==
  {l.name : l \in {k \in line.locations : k.kind \in {"host", "entity"} /\ k.negated = negated}}

\* The errors of locations_before_sharp and parse_before_sharp.
BadLocations(line) ==
  \/ line.modifiers
  \/ \E l \in line.locations : l.kind = "notIdna"
  \/ line.locations # {} /\ \A l \in line.locations : l.kind = "regex"

BadBody(line) ==
  \/ line.body \in {"html", "empty"}
  \/ line.body = "script" /\ (~line.located \/ line.selector \in BadScript)
  \/ line.body = "css" /\ (line.selector \in Invalid \/ line.action = "invalid")

HasHostnameConstraint(rule) == rule.at # {} \/ rule.notAt # {}

\* plain_css_selector is some: the arguments of a script are kept as one, too.
IsPlain(rule) == rule.script \/ rule.selector \notin Procedural

ParsedRule(line) ==
  [at |-> NamesOf(line, FALSE), notAt |-> NamesOf(line, TRUE), unhide |-> Unhides(line),
   script |-> line.body = "script", selector |-> line.selector, action |-> line.action,
   permission |-> line.permission]

\* Procedural and action rules cannot be generic.
GenericAction(line) ==
  \/ ~line.located /\ line.body = "css" /\ line.action # Null
  \/ ~HasHostnameConstraint(ParsedRule(line)) /\ ~IsPlain(ParsedRule(line))

\* Generic exceptions and doubly negated rules are refused.
BadException(line) ==
  Unhides(line) /\ (~line.located \/ NamesOf(line, TRUE) # {})

Accepted(line) ==
  /\ line.mark # "foreign"
  /\ ~BadLocations(line) /\ ~BadBody(line) /\ ~GenericAction(line) /\ ~BadException(line)

-----------------------------------------------------------------------------
(* Filing a rule.                                                          *)

\* The classes (".") and the ids ("#") that selectors start with.
Key(start) == {s.key : s \in {c \in Selector : c.start = start}} \ {Null}

\* What add_generic_filter tells apart: selectors that start with a class or an
\* id and are just that, or have more after it, or have no key_from_selector.
Start == {".", "#"}
Exact(start)   == {s \in Selector : s.start = start /\ s.key # Null /\ s.rest = ""}
Complex(start) == {s \in Selector : s.start = start /\ s.key # Null /\ s.rest # ""}
Dropped        == {s \in Selector : s.start \in Start /\ s.key = Null}
OtherText      == (Selector \cup Script) \ {s \in Selector : s.start \in Start}

Filter == [kind : {"hide", "inject", "act"}, except : BOOLEAN, text : Selector \cup Script,
           action : Action \cup {Null}, permission : SUBSET Bit]

\* A complex selector is with the key whose slot it is in, Null for an empty slot.
Tables == [simpleClass : SUBSET Key("."), simpleId : SUBSET Key("#"), misc : SUBSET OtherText,
           complexClass : SUBSET ((Key(".") \cup {Null}) \X Complex(".")),
           complexId    : SUBSET ((Key("#") \cup {Null}) \X Complex("#")),
           specific : SUBSET (Name \X Filter)]

NoTables == [simpleClass |-> {}, simpleId |-> {}, misc |-> {}, complexClass |-> {},
             complexId |-> {}, specific |-> {}]

\* A rule with nothing but exclusions hides everywhere else; scripts and actions do not.
HasHiddenGenericRule(rule) ==
  rule.at = {} /\ rule.notAt # {} /\ rule.action = Null /\ ~rule.script

\* A table starts with four slots and doubles them when more than half are taken.
Grows(n) == \E i \in 1 .. n : n = 2^i + 1

KeysOf(table) == {p[2].key : p \in table}

\* HashMapBuilder's get_or_insert: where the selectors of the slot returned are.
GetOrInsert(table, key) ==
  IF key \in KeysOf(table) \/ ~Grows(Cardinality(KeysOf(table)) + 1) THEN {key}
  ELSE KeysOf(table) \cup {key, Null}

Pushed(table, s) == {table \cup {<<k, s>>} : k \in GetOrInsert(table, s.key)}

FiledWith(t, s, class, id) ==
  [t EXCEPT !.simpleClass = @ \cup {m.key : m \in {s} \cap Exact(".")},
            !.simpleId    = @ \cup {m.key : m \in {s} \cap Exact("#")},
            !.misc        = @ \cup ({s} \cap OtherText),
            !.complexClass = class, !.complexId = id]

PushedComplex(table, s, start) == IF s \in Complex(start) THEN Pushed(table, s) ELSE {table}

\* Variant: selectors are classes with a key or without.
AddGenericUnkeyed(t, rule) ==
  LET s == rule.selector
  IN  {[FiledWith(t, s, class, id) EXCEPT !.simpleClass = @ \cup {m.key : m \in {s} \cap Dropped}] :
         class \in PushedComplex(t.complexClass, s, "."), id \in PushedComplex(t.complexId, s, "#")}

\* The tables that may result.  What is Dropped, or procedural, is so silently.
\* A rule comes here with its selector or arguments only: its mark and action
\* are not looked at.
AddGenericFilter(t, rule) ==
  LET s == rule.selector
  IN  IF ~IsPlain(rule) THEN {t}
      ELSE {FiledWith(t, s, class, id) : class \in PushedComplex(t.complexClass, s, "."),
                                         id \in PushedComplex(t.complexId, s, "#")}

\* The SpecificFilterType of a rule.
KindOf(rule) ==
  IF rule.script THEN "inject" ELSE IF IsPlain(rule) /\ rule.action = Null THEN "hide" ELSE "act"

FilterOf(rule) == [kind |-> KindOf(rule), except |-> rule.unhide, text |-> rule.selector,
                   action |-> rule.action, permission |-> rule.permission]

Negated(filter) == [filter EXCEPT !.except = ~@]

\* Under its own names as it is, under the excluded ones negated.
StoreHostnameRule(t, rule) ==
  [t EXCEPT !.specific = @ \cup (rule.at \X {FilterOf(rule)})
                           \cup (rule.notAt \X {Negated(FilterOf(rule))})]

\* Variant: no hidden generic rule.
AddFilterAsLocated(t, rule) ==
  IF HasHostnameConstraint(rule) THEN {StoreHostnameRule(t, rule)} ELSE AddGenericFilter(t, rule)

AddFilter(t, rule) ==
  IF ~HasHostnameConstraint(rule) THEN AddGenericFilter(t, rule)
  ELSE {StoreHostnameRule(u, rule) :
          u \in IF HasHiddenGenericRule(rule) THEN AddGenericFilter(t, rule) ELSE {t}}

-----------------------------------------------------------------------------
(* The queries.                                                            *)

\* get_hostname_hashes_from_labels: the domain and all it is within, up to the host.
HostnameTokens(h) == {SubSeq(h.name, i, Len(h.name)) : i \in 1 .. h.domain}

\* get_entity_hashes_from_labels: the same without the public suffix, and the suffix.
EntityTokens(h) ==
  IF h.domain = Len(h.name) THEN {}
  ELSE {SubSeq(h.name, i, h.domain) : i \in 1 .. h.domain}
         \cup {SubSeq(h.name, h.domain + 1, Len(h.name))}

Tokens(h) == HostnameTokens(h) \cup EntityTokens(h)

\* hostname_cosmetic_resources: two passes over what is filed under the host's
\* names, then the generic selectors without a key.  Permissions of one script
\* add up; the exception of the empty script takes all of them away.
HostnameCosmeticResources(t, h, generichide) ==
  LET filed   == {p[2] : p \in {q \in t.specific : q[1] \in Tokens(h)}}
      of(kind, except)    == {f \in filed : f.kind = kind /\ f.except = except}
      texts(kind, except) == {f.text : f \in of(kind, except)}
      deeds(except)       == {<<f.text, f.action>> : f \in of("act", except)}
      exceptions == texts("hide", TRUE)
      granted(s) == UNION {f.permission : f \in {g \in of("inject", FALSE) : g.text = s}}
  IN  [hide        |-> (texts("hide", FALSE) \ exceptions)
                         \cup (IF generichide THEN {} ELSE t.misc \ exceptions),
       exceptions  |-> exceptions,
       actions     |-> deeds(FALSE) \ deeds(TRUE),
       scripts     |-> IF NoScript \in texts("inject", TRUE) THEN {}
                       ELSE {<<s, granted(s)>> : s \in texts("inject", FALSE) \ texts("inject", TRUE)},
       generichide |-> generichide]

\* Variant: complex selectors are returned without a look at the exceptions.
HiddenClassIdsRashly(t, classes, ids, exceptions) ==
  ({s \in Selector : s.rest = "" /\ \/ s.start = "." /\ s.key \in classes \cap t.simpleClass
                                    \/ s.start = "#" /\ s.key \in ids \cap t.simpleId}
     \ exceptions)
  \cup {p[2] : p \in {q \in t.complexClass : q[1] \in classes} \cup {q \in t.complexId : q[1] \in ids}}

HiddenClassIdSelectors(t, classes, ids, exceptions) ==
  LET simple  == {s \in Selector : s.rest = "" /\ \/ s.start = "." /\ s.key \in classes \cap t.simpleClass
                                                  \/ s.start = "#" /\ s.key \in ids \cap t.simpleId}
      complex == {p[2] : p \in {q \in t.complexClass : q[1] \in classes}
                                 \cup {q \in t.complexId : q[1] \in ids}}
  IN  (simple \cup complex) \ exceptions

-----------------------------------------------------------------------------
Init == rules = {} /\ tables = NoTables

\* A list's next line, when it parses to a cosmetic rule.
AddLine(line) ==
  /\ Accepted(line)
  /\ rules' = rules \cup {ParsedRule(line)}
  /\ tables' \in AddFilter(tables, ParsedRule(line))

Next == \E line \in Line : AddLine(line)
Spec == Init /\ [][Next]_vars

TypeOK == rules \subseteq Rule /\ tables \in Tables

-----------------------------------------------------------------------------
(* What the rules say, rule by rule.                                       *)

Selects(rule, h)  == rule.at \cap Tokens(h) # {}
Excludes(rule, h) == rule.notAt \cap Tokens(h) # {}

\* An exception is an "#@#" rule of the host or a "##" rule that excludes it.
ExceptionRules(kind, h) ==
  {r \in rules : KindOf(r) = kind /\ IF r.unhide THEN Selects(r, h) ELSE Excludes(r, h)}
ApplyingRules(kind, h) == {r \in rules : KindOf(r) = kind /\ ~r.unhide /\ Selects(r, h)}

Excepted(h) == {r.selector : r \in ExceptionRules("hide", h)}
SpecificAt(h) == {r.selector : r \in ApplyingRules("hide", h)}

\* What hides on every page: the rules for no host, and the lines with only
\* commas before the sharp, whatever they are: "," passes for a location in
\* parse, so that ",#@#.ad" is no refused generic exception and ",##+js(x)" no
\* refused generic script, and add_filter finds no host in it.
Generic ==
  {r.selector : r \in {q \in rules : \/ ~HasHostnameConstraint(q)
                                     \/ KindOf(q) = "hide" /\ ~q.unhide /\ q.at = {}}}

Uninjected(h) == {r.selector : r \in ExceptionRules("inject", h)}
Deed(r) == <<r.selector, r.action>>

\* The resources of a page are what its host's rules say: every selector some
\* rule hides there and no rule excepts, with the generic texts that start with
\* no class or id, unless generichide; the actions likewise; every script some
\* rule injects and none takes away, with all the permissions its rules have
\* (hostname_cosmetic_resources over the tables add_filter has filled).
\* The generic ones that are Dropped are not there: see KeylessReturned.
ResourcesAsWritten ==
  \A h \in Host, generichide \in BOOLEAN :
    HostnameCosmeticResources(tables, h, generichide) =
      [hide        |-> (SpecificAt(h) \cup IF generichide THEN {} ELSE Generic \cap OtherText)
                         \ Excepted(h),
       exceptions  |-> Excepted(h),
       actions     |-> {Deed(r) : r \in ApplyingRules("act", h)}
                         \ {Deed(r) : r \in ExceptionRules("act", h)},
       scripts     |-> {<<r.selector, UNION {q.permission : q \in {p \in ApplyingRules("inject", h) :
                                                                     p.selector = r.selector}}>> :
                          r \in {q \in ApplyingRules("inject", h) :
                                   Uninjected(h) \cap {NoScript, q.selector} = {}}},
       generichide |-> generichide]

\* What a push into a stale slot has put under another key, or nowhere, and how
\* often a table has grown.
Misplaced(table) == {p \in table : p[1] # p[2].key}
Growths(table)   == Cardinality({n \in 1 .. Cardinality(KeysOf(table)) : Grows(n)})
MisplacedSelectors == {p[2] : p \in Misplaced(tables.complexClass) \cup Misplaced(tables.complexId)}

\* The other query, with the exceptions of the first: nothing but generic
\* selectors that no rule excepts there ("it guarantees that it will be safe to
\* hide those elements"), and of these the ones whose class or id the page has
\* shown, but for the misplaced ones, at most one for each growth of a table
\* (hidden_class_id_selectors over what get_or_insert returned).  Without rules
\* there is nothing to compare.
ClassIdsAsWritten ==
  /\ \A table \in {tables.complexClass, tables.complexId} :
       Cardinality(Misplaced(table)) <= Growths(table)
  /\ \A h \in {g \in Host : rules # {}} :
       LET exceptions == HostnameCosmeticResources(tables, h, FALSE).exceptions
           safe       == (Generic \cap Selector) \ Excepted(h)
       IN  \A classes \in SUBSET Key("."), ids \in SUBSET Key("#") :
             LET answer == HiddenClassIdSelectors(tables, classes, ids, exceptions)
             IN  /\ answer \subseteq safe
                 /\ answer \ MisplacedSelectors =
                      {s \in safe : \/ s.start = "." /\ s.key \in classes
                                    \/ s.start = "#" /\ s.key \in ids} \ MisplacedSelectors

-----------------------------------------------------------------------------
(* Not so.                                                                 *)

\* Every generic selector is returned by one of the two queries: "Any rules
\* that can't be handled by `hidden_class_id_selectors` are returned by
\* `hostname_cosmetic_resources`" (cosmetic_filter_cache.rs:215-219).  A
\* selector like "##.\" is by neither: add_generic_filter drops it.
KeylessReturned ==
  \A h \in Host : \A s \in Generic \ Excepted(h) :
    \/ s \in HostnameCosmeticResources(tables, h, FALSE).hide
    \/ s \in Selector /\ s.start \in Start /\ s.key # Null

\* An exception, a script or an action hides nothing by itself.  With a comma
\* before its sharp it does (cosmetic.rs:379-381, 428-430, 446-448 ask only
\* whether there is a text there).
OnlyHideRulesHide ==
  \A r \in rules : ~HasHostnameConstraint(r) => KindOf(r) = "hide" /\ ~r.unhide
=============================================================================
