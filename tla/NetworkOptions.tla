----------------------------- MODULE NetworkOptions -----------------------------
(***************************************************************************)
(* The options of network filters: the part of a rule's text after "$"     *)
(* (filters/abstract_network.rs), the checks and the mask they become      *)
(* (filters/network.rs), and the requests a mask lets through              *)
(* (filters/network_matchers.rs).  A text is a record of exception, shape  *)
(* and options; what stands before "$" is one of a few shapes:             *)
(*   "host"       ||a.com^     "host|"   ||a.com^|                         *)
(*   "pattern"    any other    "regex"   /.../                             *)
(* The schemes of a filter come from its pattern (module Patterns), what   *)
(* is checked of the options is in module OptionTexts.                     *)
(***************************************************************************)
EXTENDS Naturals, Sequences, FiniteSets, SequencesExt

CONSTANTS
  Domain,      \* domains of sources, and of domain= options
  RegexDomain, \* those written /.../, which are not supported
  BadParam,    \* removeparam values that are not plain names
  None         \* Rust's None

NoValue == ""

NetworkType == {"image", "media", "object", "other", "ping", "script", "stylesheet",
                "subdocument", "websocket", "xmlhttprequest", "font"}
AllType     == NetworkType \cup {"document"}

Named  == NetworkType \cup {"document", "all"}               \* is_content_type
Single == {"redirect", "redirect-rule", "removeparam", "csp"} \* one per rule
Alone  == {"badfilter", "important", "match-case", "tag", "redirect", "redirect-rule",
           "removeparam", "generichide", "document", "all"}  \* never negated

-----------------------------------------------------------------------------
(* abstract_network.rs: the options of a text *)

Supported(o) == {d \in o.domains : d.name \notin RegexDomain}

\* What parse_filter_options refuses.  "~" before domain and csp is ignored.
OptionError(o) ==
  \/ o.name = "unrecognised"
  \/ o.name \in Alone /\ ~o.on
  \/ o.name \in {"redirect", "redirect-rule", "removeparam"} /\ o.value = NoValue
  \/ o.name = "removeparam" /\ o.value \in BadParam
  \/ o.name = "domain" /\ Supported(o) = {}

-----------------------------------------------------------------------------
(* network.rs: from options to a mask *)

Count(options, names) == Cardinality({i \in DOMAIN options : options[i].name \in names})

\* validate_options
InvalidTogether(options) ==
  \/ Count(options, {"csp"}) > 0 /\ Count(options, Named) > 0
  \/ Count(options, Single) > 1

\* Variant: a party option sets its party too.
SetsParty(o) ==
  CASE o.name = "badfilter"     -> {"bad"}
    [] o.name = "generichide"   -> {"genericHide"}
    [] o.name = "third-party"   -> {IF o.on THEN "thirdParty" ELSE "firstParty"}
    [] o.name = "first-party"   -> {IF o.on THEN "firstParty" ELSE "thirdParty"}
    [] OTHER                    -> {}

\* The flags an option sets and those it clears.
Sets(o) ==
  CASE o.name = "badfilter"     -> {"bad"}
    [] o.name = "important"     -> {"important"}
    [] o.name = "match-case"    -> {"matchCase"}
    [] o.name = "redirect"      -> {"redirect", "alsoBlock"}
    [] o.name = "redirect-rule" -> {"redirect"}
    [] o.name = "removeparam"   -> {"removeparam"}
    [] o.name = "csp"           -> {"csp", "document"}
    [] o.name = "generichide"   -> {"genericHide"}
    [] OTHER                    -> {}

Clears(o) ==
  CASE o.name = "third-party" -> {IF o.on THEN "firstParty" ELSE "thirdParty"}
    [] o.name = "first-party" -> {IF o.on THEN "thirdParty" ELSE "firstParty"}
    [] OTHER                  -> {}

Types(o) == IF o.name = "all" THEN AllType ELSE {o.name} \cap AllType

\* A list of domains replaces the earlier one of the same sign.
ListOf(o, sign, earlier) ==
  LET names == {d.name : d \in {e \in Supported(o) : e.on = sign}}
  IN  IF o.name # "domain" \/ names = {} THEN earlier ELSE names

Applied(s, o) ==
  [mask       |-> (s.mask \cup Sets(o)) \ Clears(o),
   positive   |-> s.positive \cup (IF o.on THEN Types(o) ELSE {}),
   negative   |-> s.negative \cup (IF o.on THEN {} ELSE Types(o)),
   domains    |-> ListOf(o, TRUE, s.domains),
   notDomains |-> ListOf(o, FALSE, s.notDomains),
   modifier   |-> IF o.name \notin Single THEN s.modifier
                  ELSE IF o.value = NoValue THEN None ELSE o.value,
   tag        |-> IF o.name = "tag" THEN o.value ELSE s.tag]

NoOptions(exception) ==
  [mask |-> {"thirdParty", "firstParty"} \cup (IF exception THEN {"exception"} ELSE {}),
   positive |-> {}, negative |-> {}, domains |-> None, notDomains |-> None,
   modifier |-> None, tag |-> None]

AppliedUpTo(t) ==
  LET upTo[n \in 0 .. Len(t.options)] ==
        IF n = 0 THEN NoOptions(t.exception) ELSE Applied(upTo[n - 1], t.options[n])
  IN  upTo[Len(t.options)]

\* Variant: negated types imply nothing when a positive one is there.
TypesOfNamed(s, shape) ==
  LET removeparam == "removeparam" \in s.mask
      implied == IF removeparam THEN {"document", "subdocument", "xmlhttprequest"} ELSE NetworkType
      wholeHost == IF shape = "host" /\ s.negative = {} /\ ~removeparam THEN AllType ELSE {}
  IN  IF s.positive # {} THEN s.positive ELSE implied \cup wholeHost

\* Negated types imply all network types, no positive type does too; a
\* removeparam rule is for documents, frames and xhr by default; ||a.com^
\* covers documents as long as no type is named.
TypesOf(s, shape) ==
  LET removeparam == "removeparam" \in s.mask
      implied ==
        IF removeparam
        THEN IF s.positive = {} THEN {"document", "subdocument", "xmlhttprequest"} ELSE {}
        ELSE IF s.negative # {} \/ s.positive = {} THEN NetworkType ELSE {}
      wholeHost == IF shape = "host" /\ s.positive = {} /\ s.negative = {} /\ ~removeparam
                   THEN AllType ELSE {}
  IN  s.positive \cup implied \cup wholeHost

RefusedAtEnd(s, t) ==
  \/ "matchCase" \in s.mask /\ t.shape # "regex"
  \/ "genericHide" \in s.mask /\ ~t.exception
  \/ "removeparam" \in s.mask /\ t.exception

\* NetworkFilter::parse, of everything but the pattern.
RefusedText(t) ==
  \/ \E i \in DOMAIN t.options : OptionError(t.options[i])
  \/ InvalidTogether(t.options)
  \/ RefusedAtEnd(AppliedUpTo(t), t)

NetworkFilter(t) ==
  LET s == AppliedUpTo(t)
  IN  [shape |-> t.shape, mask |-> (s.mask \cup TypesOf(s, t.shape)) \ s.negative,
       domains |-> s.domains, notDomains |-> s.notDomains, modifier |-> s.modifier, tag |-> s.tag]

\* compute_filter_id: included and excluded domains are folded alike, tags not at all.
FilterId(f) ==
  <<f.shape, f.mask, f.modifier,
    IF f.domains = None THEN {} ELSE f.domains, IF f.notDomains = None THEN {} ELSE f.notDomains>>

\* Variant: the id with the flag.
WithBadfilter(f) == f

WithoutBadfilter(f) == [f EXCEPT !.mask = @ \ {"bad"}]

-----------------------------------------------------------------------------
(* network_matchers.rs: the requests a filter is open to *)

Request == [type : AllType, third : BOOLEAN,
            source : (SUBSET (Domain \ RegexDomain)) \cup {None}]

CheckOptions(mask, r) ==
  /\ "bad" \notin mask
  /\ r.type \in mask \/ (r.type = "document" /\ "exception" \in mask)
  /\ (IF r.third THEN "thirdParty" ELSE "firstParty") \in mask

CheckDomains(f, r) ==
  /\ f.domains # None => r.source # None /\ f.domains \cap r.source # {}
  /\ f.notDomains # None /\ r.source # None => f.notDomains \cap r.source = {}

OpenTo(f, r) == CheckOptions(f.mask, r) /\ CheckDomains(f, r)
=================================================================================
