------------------------------- MODULE FilterSet -------------------------------
(***************************************************************************)
(* A set of rules put together from lists (lists.rs) and its export to the *)
(* content blocking rules of Safari (content_blocking.rs).                 *)
(*                                                                         *)
(* A line of a list is what the first look at it says: a special comment,  *)
(* another comment, a header, a blank or unsupported line, or a rule.  The *)
(* text of a network rule is that of NetworkOptions with a pattern, which  *)
(* stands for the regex it is exported as.                                 *)
(***************************************************************************)
EXTENDS NetworkOptions

CONSTANTS
  ListLine,    \* the lines considered
  MaxLines,    \* bound on the lists and lines added
  Interval,    \* the values of "Expires:" within a fortnight
  Cut          \* what is left of a value that is cut short

Pattern  == {line.pattern : line \in {l \in ListLine : l.is \in {"network", "hosts"}}}
Fields   == {"Homepage", "Title", "Expires", "Redirect"}
NoFields == [k \in Fields |-> None]

ParseOptions == [format : {"standard", "hosts"}, types : {"all", "network", "cosmetic"}]

CbTypeOf == [image |-> "image", media |-> "media", script |-> "script",
             stylesheet |-> "style-sheet", subdocument |-> "document",
             xmlhttprequest |-> "raw", font |-> "font"]
CbType   == {CbTypeOf[t] : t \in DOMAIN CbTypeOf}

\* The value of a field is a text, also when it is cut short; the options of a
\* rule are shaped as those of NetworkOptions; None is no set of domains or of
\* types.
LinesShaped ==
  /\ Cut # None
  /\ \A line \in ListLine :
       /\ line.is = "field" => line.value # None
       /\ line.is = "network" =>
            line.text.options \in Seq([name : STRING, on : BOOLEAN, value : STRING,
                                      domains : SUBSET [on : BOOLEAN, name : Domain]])
  /\ \A S \in SUBSET (Domain \cup CbType) : S # None

VARIABLES
  debug,      \* raw lines are kept
  network,    \* the network rules, in order: [text, pattern, filter]
  cosmetic,   \* the cosmetic rules, in order
  calls,      \* how many lists and lines were added
  opts,       \* the options of the list being added
  lines,      \* its lines so far
  metadata    \* its metadata so far
listVars == <<debug, network, cosmetic, calls, opts, lines, metadata>>

HostText == [exception |-> FALSE, shape |-> "host", options |-> << >>]   \* ||hostname^

-----------------------------------------------------------------------------
(* Metadata.                                                               *)

\* Variant: the later of two fields is taken.
TryAddLast(found, line) ==
  IF line.is = "field" /\ line.key \in Fields /\ (line.key = "Expires" => line.value \in Interval)
  THEN [found EXCEPT ![line.key] = line.value] ELSE found

\* "Previously added information will not be rewritten."
TryAdd(found, line) ==
  IF /\ line.is = "field" /\ line.key \in Fields
     /\ found[line.key] = None
     /\ line.key = "Expires" => line.value \in Interval
  THEN [found EXCEPT ![line.key] = line.value]
  ELSE found

Commented(line) == line.is \in {"field", "comment"}

\* read_list_metadata, which stops at the first line that is neither comment
\* nor header, of a text cut off after 1024 bytes.
ReadListMetadata(text) ==
  LET body == {i \in DOMAIN text : ~Commented(text[i]) /\ text[i].is # "header"}
      head == IF body = {} THEN Len(text) ELSE Min(body) - 1
      read[n \in 0 .. head] ==
        IF n = 0 THEN NoFields
        ELSE IF Commented(text[n]) THEN TryAdd(read[n - 1], text[n]) ELSE read[n - 1]
  IN  read[head]

-----------------------------------------------------------------------------
(* Parsing a line.                                                         *)

\* detect_filter_type and the rule types asked for; hosts lists hold one or
\* two fields a line, the last one a hostname.
IsNetwork(line) ==
  /\ opts.types \in {"all", "network"}
  /\ IF opts.format = "hosts"
     THEN line.is = "hosts" /\ line.fields \in {1, 2} /\ line.valid
     ELSE line.is = "network" /\ ~RefusedText(line.text)

IsCosmetic(line) ==
  opts.format = "standard" /\ opts.types \in {"all", "cosmetic"} /\ line.is = "cosmetic"

TextOf(line)      == IF line.is = "hosts" THEN HostText ELSE line.text
NetworkRule(line) == [text |-> TextOf(line), pattern |-> line.pattern,
                      filter |-> NetworkFilter(TextOf(line))]

-----------------------------------------------------------------------------
ListsInit ==
  /\ debug \in BOOLEAN
  /\ network = << >> /\ cosmetic = << >>
  /\ calls = 0 /\ opts = [format |-> "standard", types |-> "all"]
  /\ lines = << >> /\ metadata = NoFields

\* add_filter_list is called with a list ...
AddFilterList(options) ==
  /\ calls < MaxLines
  /\ calls' = calls + 1 /\ opts' = options /\ lines' = << >> /\ metadata' = NoFields
  /\ UNCHANGED <<debug, network, cosmetic>>

\* ... and goes through its lines, leaving out those it cannot parse.
AddListLine(line) ==
  /\ 0 < calls /\ calls < MaxLines
  /\ calls' = calls + 1
  /\ lines' = Append(lines, line)
  /\ metadata' = TryAdd(metadata, line)
  /\ network' = IF IsNetwork(line) THEN Append(network, NetworkRule(line)) ELSE network
  /\ cosmetic' = IF IsCosmetic(line) THEN Append(cosmetic, line) ELSE cosmetic
  /\ UNCHANGED <<debug, opts>>

ListsNext == (\E options \in ParseOptions : AddFilterList(options)) \/ (\E line \in ListLine : AddListLine(line))

ListsSpec == ListsInit /\ [][ListsNext]_listVars

-----------------------------------------------------------------------------
(* Content blocking rules.                                                 *)

CbTypes(mask) == {CbTypeOf[t] : t \in DOMAIN CbTypeOf \cap mask}

AnyUrl == ".*"

\* load {} and the others None: no condition.
CbRule(action, pattern) ==
  [action |-> action, pattern |-> pattern, types |-> None, load |-> {},
   ifDomain |-> None, unlessDomain |-> None, selector |-> None]

NonEmpty(S) == IF S = {} THEN None ELSE S

\* The domains are read from the raw line: those of its first "domain=".
DomainOptions(text) ==
  {i \in DOMAIN text.options : text.options[i].name = "domain" /\ text.options[i].value # "from"}
RawDomains(text, on) ==
  {d.name : d \in {e \in text.options[Min(DomainOptions(text))].domains : e.on = on}}

HasDomains(f) == f.domains # None \/ f.notDomains # None

Convertible(f, text) ==
  /\ f.mask \cap {"redirect", "genericHide", "csp", "removeparam"} = {}
  /\ f.shape # "regex"
  /\ HasDomains(f) => /\ DomainOptions(text) # {}
                      /\ RawDomains(text, TRUE) = {} \/ RawDomains(text, FALSE) = {}
  /\ NetworkType \subseteq f.mask \/ CbTypes(f.mask) # {} \/ f.mask \cap NetworkType = {}

LoadOf(mask) ==
  LET party == mask \cap {"thirdParty", "firstParty"}
  IN  IF Cardinality(party) = 1 THEN party ELSE {}

\* The type and the domains of a trigger.
TypesFor(mask)       == IF NetworkType \subseteq mask THEN None ELSE CbTypes(mask)
DomainsFor(rule, on) == IF HasDomains(rule.filter) THEN NonEmpty(RawDomains(rule.text, on)) ELSE None

CbNetworkRule(rule, types, load) ==
  [action |-> IF "exception" \in rule.filter.mask THEN "ignore-previous-rules" ELSE "block",
   pattern |-> rule.pattern, types |-> types, load |-> load,
   ifDomain |-> DomainsFor(rule, TRUE), unlessDomain |-> DomainsFor(rule, FALSE), selector |-> None]

\* CbRuleEquivalent of a network rule: << >> when it has none.  Of a rule for
\* documents among others only the part for others covers first parties.
CbEquivalent(rule) ==
  LET types == TypesFor(rule.filter.mask)
      load  == LoadOf(rule.filter.mask)
      split == types # None /\ {"document"} \subseteq types /\ types # {"document"} /\ load = {}
  IN  IF ~Convertible(rule.filter, rule.text) THEN << >>
      ELSE IF split
      THEN << CbNetworkRule(rule, types \ {"document"}, load),
              CbNetworkRule(rule, {"document"}, {"thirdParty"}) >>
      ELSE << CbNetworkRule(rule, types, load) >>

\* An exception to hiding becomes a rule that hides everywhere else.
CbHiding(rule) ==
  LET at  == NonEmpty(rule.at)
      not == NonEmpty(rule.notAt)
  IN  IF \/ rule.script \/ rule.action \/ rule.procedural
         \/ rule.entities /\ at = None /\ not = None
         \/ at # None /\ not # None
      THEN << >>
      ELSE << [CbRule("css-display-none", AnyUrl)
               EXCEPT !.selector = rule.selector,
                      !.ifDomain = IF rule.unhide THEN not ELSE at,
                      !.unlessDomain = IF rule.unhide THEN at ELSE not] >>

IgnorePreviousFpDocuments ==
  [CbRule("ignore-previous-rules", AnyUrl) EXCEPT !.types = {"document"}, !.load = {"firstParty"}]

RuleId(rule) == <<FilterId(rule.filter), rule.pattern>>
IsBad(rule)  == "bad" \in rule.filter.mask
Twin(rule)   == <<FilterId(WithoutBadfilter(rule.filter)), rule.pattern>>

Ignores(rule) == rule.action = "ignore-previous-rules"

\* Variant: as they come.
OrderedAsGiven(rules) == rules

\* The ignore-previous-rules after all others.
Ordered(rules) ==
  LET Only(S) == FlattenSeq([i \in DOMAIN rules |-> IF rules[i] \in S THEN <<rules[i]>> ELSE << >>])
      ignoring == {rule \in ToSet(rules) : Ignores(rule)}
  IN  Only(ToSet(rules) \ ignoring) \o Only(ignoring)

\* into_content_blocking: the rules, and the network rules they stand for.
Exported(given, hiding) ==
  LET badIds == {Twin(rule) : rule \in {r \in ToSet(given) : IsBad(r)}}
      used   == {rule \in ToSet(given) : /\ RuleId(rule) \notin badIds /\ ~IsBad(rule)
                                         /\ CbEquivalent(rule) # << >>}
      rules  == FlattenSeq([i \in DOMAIN given |-> IF given[i] \in used THEN CbEquivalent(given[i])
                                                   ELSE << >>])
                  \o FlattenSeq([i \in DOMAIN hiding |-> CbHiding(hiding[i])])
  IN  [rules |-> Ordered(rules) \o IF used = {} THEN << >> ELSE <<IgnorePreviousFpDocuments>>,
       used  |-> used]

-----------------------------------------------------------------------------
(* What Safari does with them: a triggered rule counts unless an           *)
(* ignore-previous-rules after it is triggered, too.                       *)

Triggered(rule, r) ==
  /\ rule.pattern \in r.found
  /\ rule.types = None \/ CbTypeOf[r.type] \in rule.types
  /\ rule.load = {} \/ (IF r.third THEN "thirdParty" ELSE "firstParty") \in rule.load
  /\ rule.ifDomain = None \/ rule.ifDomain \cap r.source # {}
  /\ rule.unlessDomain = None \/ rule.unlessDomain \cap r.source = {}

SafariBlocks(rules, r) ==
  LET hits == {i \in DOMAIN rules : Triggered(rules[i], r)}
  IN  \E i \in hits : rules[i].action = "block" /\ \A j \in hits : Ignores(rules[j]) => j < i

\* Requests of the types both know, from a page, at whose URL a pattern and
\* its regex say the same.  Documents, and frames of the first party, are left
\* alone: "By default, ABP rules do not block top-level document requests".
SafariRequest ==
  {r \in [type : DOMAIN CbTypeOf, third : BOOLEAN, source : SUBSET (Domain \ RegexDomain),
          found : {F \cup {AnyUrl} : F \in SUBSET Pattern}] : r.type = "subdocument" => r.third}

-----------------------------------------------------------------------------
(* Properties.                                                             *)

Concerns(rule, r) == rule.pattern \in r.found /\ OpenTo(rule.filter, r)

\* Rules whose trigger says what their mask says: rules for documents alone or
\* for neither party leave it empty, and of two domain lists the raw line's
\* first is exported, the last used.
Clear(rule) ==
  /\ rule.filter.mask \cap NetworkType # {}
  /\ rule.filter.mask \cap {"thirdParty", "firstParty"} # {}
  /\ Cardinality({i \in DOMAIN rule.text.options : rule.text.options[i].name = "domain"}) <= 1

\* "an equivalent list of content blocking rules and a corresponding new list
\* [of] all filters that were successfully converted" (lists.rs:274): Safari
\* blocks exactly the requests that a rule reported as used blocks and no
\* exception reported as used is for, in whatever order they came ($important
\* counts for nothing); a rule that a badfilter cancels is not among them.
ExportDecidesAsUsed ==
  debug /\ (\A rule \in ToSet(network) : Clear(rule)) =>
    LET export     == Exported(network, cosmetic)
        excepts(r) == \E rule \in export.used : "exception" \in rule.filter.mask /\ Concerns(rule, r)
        blocks(r)  == \E rule \in export.used : "exception" \notin rule.filter.mask /\ Concerns(rule, r)
    IN  /\ \A r \in SafariRequest : SafariBlocks(export.rules, r) <=> blocks(r) /\ ~excepts(r)
        /\ \A bad \in ToSet(network), rule \in export.used : IsBad(bad) => Twin(bad) # RuleId(rule)

\* The list's text cut in the middle of its n-th line.
CutAt(n, shortened) == SubSeq(lines, 1, n - 1) \o <<shortened>>
CutField(key)   == [is |-> "field", key |-> key, value |-> Cut]
Shortened(line) == {[is |-> "comment"]} \cup IF line.is = "field" THEN {CutField(line.key)} ELSE {}

\* What read_list_metadata finds at the head of a list is what add_filter_list
\* finds in all of it, wherever the head is cut off, but for the value cut.
HeaderAgrees ==
  /\ \A n \in DOMAIN lines : \A line \in Shortened(lines[n]) \cup {lines[n]} :
       LET read == ReadListMetadata(CutAt(n, line))
       IN  \A k \in Fields : read[k] \in {None, Cut, metadata[k]}
  /\ (\A i \in DOMAIN lines : Commented(lines[i]) \/ lines[i].is = "header")
       => ReadListMetadata(lines) = metadata
===============================================================================
