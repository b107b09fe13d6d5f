---------------------------- MODULE NetworkFilters ----------------------------
(***************************************************************************)
(* Network filters, requests, and when one matches the other               *)
(* (src/filters/network.rs, network_matchers.rs, src/request.rs).          *)
(*                                                                         *)
(* A filter's mask is the set of its flags.  A Pattern stands for the text *)
(* of a filter with its anchors and its hostname; "patterns" is {} for     *)
(* FilterPart::Empty without a hostname (it matches every URL), one        *)
(* pattern for a parsed filter and several for a fused one (AnyOf).  The   *)
(* URL of a request is the set of patterns found in it, the tokens cut     *)
(* from it and the parameters of its query.                                *)
(***************************************************************************)
EXTENDS Integers, Sequences, FiniteSets

CONSTANTS
  Pattern, Domain, Tag, Modifier, Resource, Token,
  PatternTokens,   \* [Pattern -> SUBSET Token]: what get_tokens cuts from each
  ParamTokens,     \* [Modifier -> SUBSET Token]: tokens of a removeparam name
  ResourceOf,      \* [Modifier -> Resource]: the name in "name:priority"
  PriorityOf,      \* [Modifier -> Nat]: the priority in it, 0 when absent
  HashOf,          \* [Domain -> Nat]: the order in which domains are sorted
  Filter,          \* the parsed filters considered
  LineOf,          \* [Filter -> Nat]: the order of their lines
  FilterSets,      \* the filter sets engines are built from
  Request,         \* the requests considered
  Null             \* Rust's None

ContentType == {"document", "subdocument", "script", "image"}
Party       == {"firstParty", "thirdParty"}
Scheme      == {"http", "https"}
Role        == {"exception", "important", "bad", "redirect", "alsoBlock",
                "csp", "removeparam", "genericHide"}
Flag        == ContentType \cup Party \cup Scheme \cup Role \cup {"regex", "hostAnchor"}

FilterRecord ==
  [mask : SUBSET Flag, patterns : SUBSET Pattern,
   domains : (SUBSET Domain) \cup {Null}, notDomains : (SUBSET Domain) \cup {Null},
   modifier : Modifier \cup {Null}, tag : Tag \cup {Null}]

\* needs: the flags a filter must have for this request's type, party and scheme.
RequestRecord ==
  [supported : BOOLEAN, type : ContentType, needs : SUBSET Flag,
   source : (SUBSET Domain) \cup {Null}, found : SUBSET Pattern,
   tokens : SUBSET Token, params : SUBSET Modifier]

\* The bucket of filters no token is guaranteed for.
Fallback == "0"

ReqTokens(r) == r.tokens \cup (IF r.source = Null THEN {} ELSE r.source)

ASSUME TokenAssumption ==
  /\ Domain \cup Scheme \cup {Fallback} \subseteq Token
  /\ PatternTokens \in [Pattern -> SUBSET Token]
  /\ ParamTokens \in [Modifier -> SUBSET Token]

\* What NetworkFilter::parse and the builder of FilterSets accept.
ASSUME FilterAssumption ==
  /\ Filter \subseteq FilterRecord /\ FilterSets \subseteq SUBSET Filter
  /\ \A f \in Filter :
       /\ \A p, q \in f.patterns : p = q
       /\ \A a, b \in {"redirect", "csp", "removeparam"} \cap f.mask : a = b
       /\ "genericHide" \in f.mask => "exception" \in f.mask
       /\ "removeparam" \in f.mask => "exception" \notin f.mask /\ f.modifier # Null
       /\ f.domains # {} /\ f.notDomains # {}
       /\ LineOf[f] \in Nat
  /\ \A m \in Modifier : PriorityOf[m] \in Nat /\ ResourceOf[m] \in Resource
  /\ \A x \in SUBSET Domain : x # Null
  /\ Null \notin Tag \cup Modifier \cup Resource

\* Requests over http(s) whose URL yields fewer than 255 tokens: the URL then
\* holds every token of what it contains.
ASSUME RequestAssumption ==
  /\ Request \subseteq RequestRecord
  /\ \A r \in Request :
       /\ Fallback \in r.tokens
       /\ \E s \in Scheme : s \in r.needs /\ s \in r.tokens
       /\ \A p \in r.found : PatternTokens[p] \subseteq r.tokens
       /\ \A m \in r.params : ParamTokens[m] \subseteq r.tokens

-------------------------------------------------------------------------------
(* One filter against one request. *)

\* check_options: a bad filter never matches; document requests are open to
\* exceptions that do not name the type.
OptionsMatch(f, r) ==
  /\ "bad" \notin f.mask
  /\ r.needs \ (IF "exception" \in f.mask THEN {"document"} ELSE {}) \subseteq f.mask

DomainsMatch(f, r) ==
  /\ f.domains # Null => r.source # Null /\ f.domains \cap r.source # {}
  /\ f.notDomains # Null /\ r.source # Null => f.notDomains \cap r.source = {}

\* Is one of the patterns in the URL?  No pattern at all matches anything.
PatternsFound(patterns, r) == patterns = {} \/ patterns \cap r.found # {}

Matches(f, r) == OptionsMatch(f, r) /\ DomainsMatch(f, r) /\ PatternsFound(f.patterns, r)

TagOn(f, tags) == f.tag = Null \/ f.tag \in tags

-------------------------------------------------------------------------------
(* Which filters of a set take part, and in which list. *)

HashOrder(domains) ==
  IF domains = Null THEN << >>
  ELSE CHOOSE s \in [1 .. Cardinality(domains) -> domains] :
         \A i, j \in DOMAIN s : i < j => HashOf[s[i]] < HashOf[s[j]]

\* compute_filter_id folds the included and the excluded domains into one
\* hash, one after the other, and knows nothing of tags.
FilterId(f) == <<f.modifier, f.mask, f.patterns, HashOrder(f.domains) \o HashOrder(f.notDomains)>>

WithoutBad(f) == [f EXCEPT !.mask = f.mask \ {"bad"}]

\* from_rules drops badfilters and every filter a badfilter of the set names.
Live == [S \in FilterSets |->
  LET badIds == {FilterId(WithoutBad(b)) : b \in {g \in S : "bad" \in g.mask}}
  IN  {f \in S : "bad" \notin f.mask /\ FilterId(f) \notin badIds}]

\* Among redirect directives, those of the highest priority that no exception names.
TopRedirects(matching) ==
  LET excepted == {f.modifier : f \in {g \in matching : "exception" \in g.mask}}
      wanted   == {f.modifier : f \in {g \in matching : "exception" \notin g.mask}}
                    \ (excepted \cup {Null})
  IN  {m \in wanted : \A n \in wanted : PriorityOf[n] <= PriorityOf[m]}
===============================================================================
