------------------------------- MODULE MCEngine -------------------------------
(***************************************************************************)
(* A small instance of Engine: a catalogue of filters of every role, the   *)
(* filter sets engines are built from, and requests that set them apart.   *)
(***************************************************************************)
EXTENDS Engine

MCPattern  == {"/ads/", "/ads/x^", "x.js"}
MCDomain   == {"a.com", "b.com"}
MCModifier == {"noop:1", "blank", "utm", "gclid", "script-src", "img-src"}
MCResource == {"noop", "blank"}
MCToken    == MCDomain \cup {"0", "http", "https", "ads", "utm", "gclid"}

MCPatternTokens == [p \in MCPattern |-> IF p = "x.js" THEN {} ELSE {"ads"}]
MCParamTokens   == [m \in MCModifier |-> IF m \in {"utm", "gclid"} THEN {m} ELSE {}]
MCResourceOf    == [m \in MCModifier |-> IF m = "noop:1" THEN "noop" ELSE "blank"]
MCPriorityOf    == [m \in MCModifier |-> IF m = "noop:1" THEN 1 ELSE 0]
MCHashOf        == [d \in MCDomain |-> IF d = "a.com" THEN 1 ELSE 2]

Network  == {"subdocument", "script", "image"}
Anywhere == Party \cup Scheme

Rule(flags, pattern) ==
  [mask |-> Anywhere \cup flags, patterns |-> IF pattern = "" THEN {} ELSE {pattern},
   domains |-> Null, notDomains |-> Null, modifier |-> Null, tag |-> Null]

On(f, domains)      == [f EXCEPT !.domains = domains]
NotOn(f, domains)   == [f EXCEPT !.notDomains = domains]
With(f, modifier)   == [f EXCEPT !.modifier = modifier]
Tagged(f, tag)      == [f EXCEPT !.tag = tag]
Bad(f)              == [f EXCEPT !.mask = @ \cup {"bad"}]
Flagged(f, flags)   == [f EXCEPT !.mask = @ \cup flags]

Ads      == Rule(Network, "/ads/")
AdsX     == Rule(Network \cup {"regex"}, "/ads/x^")
AdsXOnly == Rule({"script", "regex"}, "/ads/x^")
JsRegex  == Rule(Network \cup {"regex"}, "x.js")
Allow    == Flagged(Ads, {"exception"})
AllowA   == Tagged(NotOn(Rule(Network \cup {"exception"}, "x.js"), {"b.com"}), "t")
Must     == On(Flagged(Ads, {"important"}), {"a.com"})
TaggedJs == Tagged(Rule(Network, "x.js"), "t")
OnBoth   == On(Rule(Network, "x.js"), MCDomain)
NoopToo  == With(Flagged(Ads, {"redirect", "alsoBlock"}), "noop:1")
BlankTo  == With(Flagged(AdsX, {"redirect"}), "blank")
NoNoop   == With(Flagged(Ads, {"redirect", "exception"}), "noop:1")
Params   == Rule({"document", "subdocument", "removeparam"}, "/ads/")
Utm      == With(Params, "utm")
Gclid    == With(Params, "gclid")
AnyUtm   == With(Rule({"document", "subdocument", "removeparam"}, ""), "utm")
Csp1     == With(Rule(Network \cup {"document", "csp"}, "/ads/"), "script-src")
Csp2     == With(Rule(Network \cup {"document", "csp"}, ""), "img-src")
NoCsp1   == Flagged(Csp1, {"exception"})
NoCsp    == With(Flagged(On(Csp2, {"b.com"}), {"exception"}), Null)
HttpOnly == [Rule({"subdocument", "script", "image"}, "") EXCEPT !.mask = @ \ {"https"}]
ShowAll  == Rule(Network \cup {"document", "exception", "genericHide"}, "/ads/")

Catalogue == <<Ads, AdsX, AdsXOnly, JsRegex, Allow, AllowA, Must, TaggedJs, OnBoth, NoopToo,
               BlankTo, NoNoop, Utm, Gclid, AnyUtm, Csp1, Csp2, NoCsp1, NoCsp, HttpOnly,
               ShowAll, Bad(Ads), Bad(AdsX), Tagged(Ads, "t"), Tagged(AdsX, "t"),
               Tagged(JsRegex, "t")>>
MCFilter == {Catalogue[i] : i \in DOMAIN Catalogue}
MCLineOf == [f \in MCFilter |-> CHOOSE i \in DOMAIN Catalogue : Catalogue[i] = f]

\* Blocking, excepting and redirecting; modifying; then regexes whose locations
\* may be exchanged.
DecisionSets == {{}, {Ads, AdsX, Allow}, {AdsX, JsRegex, AllowA, OnBoth}, {Must, TaggedJs, Allow},
                 {NoopToo, BlankTo, NoNoop}, {NoopToo, BlankTo, Allow},
                 {Utm, Gclid, AnyUtm, ShowAll}, {Csp1, Csp2, NoCsp1, NoCsp},
                 {HttpOnly, AdsX, Ads, Bad(AdsX)}}
RegexSets    == {{AdsX, JsRegex}}

Script == [supported |-> TRUE, type |-> "script", needs |-> {"script", "https", "thirdParty"},
           source |-> {"a.com"}, found |-> {"/ads/", "/ads/x^"}, tokens |-> {"0", "https", "ads"},
           params |-> {}]
Js     == [Script EXCEPT !.needs = {"script", "http", "firstParty"}, !.found = {"x.js"},
                         !.source = Null, !.tokens = {"0", "http"}]
JsOnB  == [Js EXCEPT !.source = {"b.com"}]
Page   == [supported |-> TRUE, type |-> "document", needs |-> {"document", "https", "firstParty"},
           source |-> {"b.com"}, found |-> {"/ads/"},
           tokens |-> {"0", "https", "ads", "utm", "gclid"}, params |-> {"utm", "gclid"}]
Frame  == [Page EXCEPT !.type = "subdocument", !.needs = {"subdocument", "https", "firstParty"},
                       !.source = {"a.com"}]
Odd    == [Script EXCEPT !.supported = FALSE]

MCRequest == {Script, Js, JsOnB, Page, Frame, Odd}
RegexRequests    == {Script}

MCFilterSets == DecisionSets \cup RegexSets

MCPolicies == {[interval |-> 2, unused |-> 1], [interval |-> 1, unused |-> 1]}
MCDefault  == CHOOSE p \in MCPolicies : p.interval = 2

\* Regexes age, are managed, saved and loaded over the sets made for that; the
\* other sets are asked every question, with all tags and resources, at time 0.
Scope ==
  IF data.rules \in RegexSets
  THEN /\ data'.rules \in RegexSets
       /\ tags' = tags /\ resources' = resources
       /\ answer' # NoAnswer => answer'.request \in RegexRequests
  ELSE /\ data'.rules \notin RegexSets
       /\ clock' = clock /\ saved' = saved
       /\ manager'.policy = manager.policy
       /\ data' = data => LiveKeys(manager) \subseteq LiveKeys(manager')

ASSUME UniformTagsAssumption == UniformTags
===============================================================================
