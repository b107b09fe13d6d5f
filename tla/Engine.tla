-------------------------------- MODULE Engine --------------------------------
(***************************************************************************)
(* The engine (src/engine.rs, blocker.rs, network_filter_list.rs,          *)
(* optimizer.rs, fb_network_builder.rs): filters are dispatched to lists,  *)
(* each put in the bucket of one token, mergeable filters of a bucket are  *)
(* fused, and a request only tries the buckets of its own tokens, with     *)
(* regexes kept by a RegexManager between requests.                        *)
(*                                                                         *)
(* One call is one action: the manager is behind a lock, and the calls     *)
(* that change anything else need the engine exclusively.                  *)
(***************************************************************************)
EXTENDS NetworkFilters, RegexManager, Functions

CONSTANTS
  MaxTime,   \* bounds the clock
  Calls      \* the kinds of calls considered

CallKind == {"tags", "resources", "ask", "manage", "save"}

ASSUME CallAssumption == MaxTime \in Nat /\ Calls \subseteq CallKind
ASSUME DiscardedAssumption == \A ps \in SUBSET Pattern : ps # Discarded

VARIABLES
  data,       \* the flatbuffer: its lists, and the filter set it was made from
  tags, resources,
  manager,    \* the blocker's RegexManager
  saved,      \* a serialized engine: <<"intact", data>>, <<"damaged">> or <<"none">>
  clock,
  answer      \* the answer of the last question, with the question

vars == <<data, tags, resources, manager, saved, clock, answer>>

NoAnswer == [about |-> "nothing"]

-------------------------------------------------------------------------------
(* Building the flatbuffer. *)

ListId == {"csp", "exceptions", "importants", "redirects", "removeparam",
           "filters", "genericHide", "tagged"}

\* The one list a filter blocks, excepts or modifies from; "none" for a redirect-rule.
MainList(f) ==
  IF "csp" \in f.mask              THEN "csp"
  ELSE IF "removeparam" \in f.mask THEN "removeparam"
  ELSE IF "genericHide" \in f.mask THEN "genericHide"
  ELSE IF "exception" \in f.mask   THEN "exceptions"
  ELSE IF "important" \in f.mask   THEN "importants"
  ELSE IF f.tag # Null /\ "redirect" \notin f.mask    THEN "tagged"
  ELSE IF "redirect" \in f.mask => "alsoBlock" \in f.mask THEN "filters"
  ELSE "none"

\* Redirects are independent of blocking behaviour.
InList(f, list) == list = MainList(f) \/ (list = "redirects" /\ "redirect" \in f.mask)

\* The sets of buckets a filter may be put in.  With several tokens to choose
\* from, the selector takes one by its use so far: any of them here.
Buckets(f) ==
  LET one    == IF f.domains # Null /\ f.notDomains = Null /\ \E d \in f.domains : f.domains = {d}
                THEN f.domains ELSE {}
      cut    == one \cup UNION {PatternTokens[p] : p \in f.patterns}
      tokens == IF cut = {} /\ "removeparam" \in f.mask THEN ParamTokens[f.modifier] ELSE cut
      scheme == IF Scheme \subseteq f.mask THEN {} ELSE f.mask \cap Scheme
  IN  IF tokens = {} /\ f.domains # Null /\ f.notDomains = Null
      THEN {f.domains}                    \* FilterTokens::OptDomains
      ELSE IF tokens \cup scheme = {} THEN {{Fallback}}
           ELSE {{t} : t \in tokens \cup scheme}

Optimizable(f) == /\ f.domains = Null /\ f.notDomains = Null
                  /\ f.mask \cap {"hostAnchor", "redirect", "csp"} = {}

\* Fusing clones the first filter of the group, and collects the patterns.
Fuse(group) ==
  LET first == CHOOSE f \in group : \A g \in group : LineOf[f] <= LineOf[g]
  IN  [first EXCEPT !.patterns = IF \E f \in group : f.patterns = {} THEN {}
                                 ELSE UNION {f.patterns : f \in group}]

\* The lists a set's filters go to, each with the filter.
Placed(S) == {x \in ListId \X Live[S] : InList(x[2], x[1])}

Placements(S) ==
  {bucket \in [Placed(S) -> UNION {Buckets(f) : f \in Live[S]}] :
     \A x \in Placed(S) : bucket[x] \in Buckets(x[2])}

\* Optimization is off for removeparam, whose modifiers fusing would lose.
FusesAny(x, optimize) == optimize /\ Optimizable(x[2])   \* variant: removeparam not left out
Fuses(x, optimize) == optimize /\ x[1] # "removeparam" /\ Optimizable(x[2])

\* The filters fused with x's: those of its list, its bucket and its mask.
Group(S, optimize, bucket, x) ==
  {g \in Live[S] : LET y == <<x[1], g>> IN
     y \in Placed(S) /\ Fuses(y, optimize) /\ bucket[y] = bucket[x] /\ g.mask = x[2].mask}

\* What the lists store: a filter and the buckets that lead to it.
Stored(S, optimize, bucket) ==
  {[list |-> x[1], buckets |-> bucket[x],
    filter |-> IF Fuses(x, optimize) THEN Fuse(Group(S, optimize, bucket, x)) ELSE x[2]] :
     x \in Placed(S)}

IsRegex(o) == "regex" \in o.filter.mask

\* Every stored filter has a location of its own; only those of regexes matter.
Flatbuffers(S, optimize) ==
  UNION {LET stored  == Stored(S, optimize, bucket)
             regexes == {o \in stored : IsRegex(o)}
         IN  {[rules |-> S, stored |-> stored, loc |-> loc] :
                loc \in Injection(regexes, Key)} :
         bucket \in Placements(S)}

Built == [S \in FilterSets |-> Flatbuffers(S, TRUE) \cup Flatbuffers(S, FALSE)]

-------------------------------------------------------------------------------
(* Asking the lists. *)

Borrow == UpdateTime(manager, clock)

\* The stored filters of a list that the tokens of a request lead to.
Tried(list, r) == {o \in data.stored : o.list = list /\ o.buckets \cap ReqTokens(r) # {}}

StoredMatches(m, o, r) ==
  /\ OptionsMatch(o.filter, r) /\ DomainsMatch(o.filter, r)
  /\ PatternsFound(IF IsRegex(o) THEN RegexFor(m, data.loc[o], o.filter.patterns)
                   ELSE o.filter.patterns, r)

\* check_all returns these, and check one of them.
Found(m, list, r, on) ==
  {o.filter : o \in {p \in Tried(list, r) : StoredMatches(m, p, r) /\ TagOn(p.filter, on)}}

\* Regexes may be run for any filter tried whose options and domains match:
\* which ones depends on the order of the scan, on where it stops and on the
\* hostname in the filter.
MayRun(lists, r) == {o \in UNION {Tried(list, r) : list \in lists} :
                       IsRegex(o) /\ OptionsMatch(o.filter, r) /\ DomainsMatch(o.filter, r)}

AfterRunning(m, ran) ==
  Use(m, [k \in {data.loc[o] : o \in ran} |->
            (CHOOSE o \in ran : data.loc[o] = k).filter.patterns])

RedirectTo(found) ==
  LET top == TopRedirects(found)
  IN  IF top = {} THEN {Null}
      ELSE {IF ResourceOf[d] \in resources THEN ResourceOf[d] ELSE Null : d \in top}

\* The answers of check_parameterised, in its order of questions.
Verdicts(m, r, prev, force) ==
  LET important == Found(m, "importants", r, {}) # {}
      blocked   == /\ ~important /\ ~prev
                   /\ Found(m, "tagged", r, tags) # {} \/ Found(m, "filters", r, {}) # {}
      filter    == important \/ blocked
      asked     == IF filter THEN ~important ELSE prev \/ force
      exception == asked /\ Found(m, "exceptions", r, tags) # {}
      removed   == IF important THEN {}
                   ELSE r.params \cap {f.modifier : f \in Found(m, "removeparam", r, {})}
  IN  {[matched |-> ~exception /\ (filter \/ prev), important |-> important,
        exception |-> exception, filter |-> filter, redirect |-> to, removed |-> removed] :
          to \in RedirectTo(Found(m, "redirects", r, {}))}

NothingDone == [matched |-> FALSE, important |-> FALSE, exception |-> FALSE,
                filter |-> FALSE, redirect |-> Null, removed |-> {}]

CspDirectives(found) ==
  LET disabled == {f.modifier : f \in {g \in found : "exception" \in g.mask}}
      enabled  == {f.modifier : f \in {g \in found : "exception" \notin g.mask}} \ {Null}
  IN  IF Null \in disabled THEN {} ELSE enabled \ disabled

-------------------------------------------------------------------------------
(* The calls. *)

Init == /\ \E S \in FilterSets : data \in Built[S]
        /\ tags = {} /\ resources = {}
        /\ manager = NewManager(0) /\ clock = 0
        /\ saved = <<"none">> /\ answer = NoAnswer

FromFilterSet(S) == /\ data' \in Built[S]
                    /\ tags' = {} /\ resources' = {}
                    /\ manager' = NewManager(clock)
                    /\ answer' = NoAnswer
                    /\ UNCHANGED <<saved, clock>>

TagsWithSet(enabled) == /\ tags' = enabled /\ answer' = NoAnswer
                        /\ UNCHANGED <<data, resources, manager, saved, clock>>

UseTags(ts)     == TagsWithSet(ts)
EnableTags(ts)  == TagsWithSet(tags \cup ts)
DisableTags(ts) == TagsWithSet(tags \ ts)

UseResources(rs) == /\ resources' = rs /\ answer' = NoAnswer
                    /\ UNCHANGED <<data, tags, manager, saved, clock>>

\* A question about r that runs the regexes of these lists.
Asking(lists, r) ==
  /\ \E ran \in SUBSET MayRun(lists, r) : manager' = AfterRunning(Borrow, ran)
  /\ UNCHANGED <<data, tags, resources, saved, clock>>

\* An unsupported request only borrows the manager.
CheckNetworkRequest(r, prev, force) ==
  /\ \E v \in (IF r.supported THEN Verdicts(Borrow, r, prev, force) ELSE {NothingDone}) :
       answer' = [about |-> "network", request |-> r, prev |-> prev, force |-> force, verdict |-> v]
  /\ Asking(IF r.supported THEN ListId \ {"csp", "genericHide"} ELSE {}, r)

CheckGenericHide(r) ==
  /\ Asking({"genericHide"}, r)
  /\ answer' = [about |-> "genericHide", request |-> r,
                verdict |-> Found(Borrow, "genericHide", r, {}) # {}]

GetCspDirectives(r) ==
  /\ r.type \in {"document", "subdocument"}
  /\ Asking({"csp"}, r)
  /\ answer' = [about |-> "csp", request |-> r,
                verdict |-> CspDirectives(Found(Borrow, "csp", r, tags))]

\* Any other type is answered before the manager is borrowed.
NoCspDirectives(r) ==
  /\ r.type \notin {"document", "subdocument"}
  /\ answer' = [about |-> "csp", request |-> r, verdict |-> {}]
  /\ UNCHANGED <<data, tags, resources, manager, saved, clock>>

\* Reading the debug info borrows the manager too; the old policy is applied
\* once more before a new one is set.
Managed(m) == manager' = m /\ UNCHANGED <<data, tags, resources, saved, clock, answer>>

GetDebugInfo             == Managed(Borrow)
SetRegexDiscardPolicy(p) == Managed(SetPolicy(Borrow, p))
DiscardRegex(k)          == Managed(DiscardKey(Borrow, k))

Serialize == /\ saved' = <<"intact", data>> /\ answer' = NoAnswer
             /\ UNCHANGED <<data, tags, resources, manager, clock>>

\* The bytes are damaged where they are kept: header, version or checksum.
DamageSaved == /\ saved # <<"none">> /\ saved' = <<"damaged">>
               /\ UNCHANGED <<data, tags, resources, manager, clock, answer>>

\* Variant of Deserialize: the old blocker's regexes for the new data.
DeserializeKeepingRegexes ==
  /\ saved[1] = "intact"
  /\ data' = saved[2] /\ answer' = NoAnswer
  /\ UNCHANGED <<tags, resources, manager, saved, clock>>

\* A new blocker over the new data, with the old tags; nothing on an error.
Deserialize ==
  /\ \/ /\ saved[1] = "intact"
        /\ data' = saved[2] /\ manager' = NewManager(clock)
     \/ /\ saved[1] = "damaged" /\ UNCHANGED <<data, manager>>
  /\ answer' = NoAnswer
  /\ UNCHANGED <<tags, resources, saved, clock>>

Tick == /\ clock < MaxTime /\ clock' = clock + 1
        /\ UNCHANGED <<data, tags, resources, manager, saved, answer>>

Ask(r) == \/ \E prev, force \in BOOLEAN : CheckNetworkRequest(r, prev, force)
          \/ CheckGenericHide(r) \/ GetCspDirectives(r) \/ NoCspDirectives(r)

Manage == \/ GetDebugInfo
          \/ \E p \in Policy : SetRegexDiscardPolicy(p)
          \/ \E k \in Key : DiscardRegex(k)

SetTags == \E ts \in SUBSET Tag : UseTags(ts) \/ EnableTags(ts) \/ DisableTags(ts)

Next == \/ \E S \in FilterSets : FromFilterSet(S)
        \/ "tags" \in Calls /\ SetTags
        \/ "resources" \in Calls /\ \E rs \in SUBSET Resource : UseResources(rs)
        \/ "ask" \in Calls /\ \E r \in Request : Ask(r)
        \/ "manage" \in Calls /\ Manage
        \/ "save" \in Calls /\ (Serialize \/ DamageSaved \/ Deserialize)
        \/ Tick

Spec == Init /\ [][Next]_vars

-------------------------------------------------------------------------------
(* Properties. *)

Flatbuffer == UNION {Built[S] : S \in FilterSets}
Regex      == (SUBSET Pattern) \cup {Discarded}

TypeOK == /\ data \in Flatbuffer
          /\ tags \subseteq Tag /\ resources \subseteq Resource
          /\ \E keys \in SUBSET Key : manager \in Managers(keys, Regex)
          /\ manager.lastCleanup <= manager.now /\ manager.now <= clock
          /\ saved \in {<<"none">>, <<"damaged">>} \cup ({"intact"} \X Flatbuffer)
          /\ clock \in 0 .. MaxTime

Faithful(m, d) == \A o \in DOMAIN d.loc : d.loc[o] \in LiveKeys(m) =>
                                               m.map[d.loc[o]].regex = o.filter.patterns

\* A regex kept under the location of a filter is that filter's, whatever
\* flatbuffers came and went and reused its location (fb_network.rs:75-89).
RegexFaithful == Faithful(manager, data)

\* No compiled regex is seen, at any call, that has been unused for the longest
\* cleanup interval and the longest discard time together, however the policies
\* change, if all of them clean up at some interval (regex_manager.rs:288-307).
RetentionBound ==
  \A a, b \in Policy :
    (\A p \in Policy : 0 < p.interval /\ p.interval <= a.interval /\ p.unused <= b.unused) =>
      \A k \in LiveKeys(manager) :
        manager.now < manager.map[k].lastUsed + a.interval + b.unused

\* Fusing keeps the tag of one filter: no two filters it may fuse differ in theirs.
UniformTags ==
  \A S \in FilterSets : \A f, g \in Live[S] :
    MainList(f) = MainList(g) /\ f.mask = g.mask /\ Optimizable(f) /\ Optimizable(g) => f.tag = g.tag

Promise == INSTANCE Decisions WITH
             rules <- data.rules,
             saved <- IF saved[1] = "intact" THEN <<"intact", saved[2].rules>> ELSE saved

\* With such filters, every answer is the one a linear scan of the rules gives,
\* whatever lists, buckets, fused filters and cached regexes it came through.
ImplementsDecisions == Promise!Spec

\* engine.rs:171-172, "Tags can be used to cheaply enable or disable network
\* rules": a request nothing had matched before is only blocked by a rule that
\* matches it and whose tag, if any, is enabled.
BlockedByEnabledRule ==
  answer.about = "network" /\ answer.verdict.matched /\ ~answer.prev =>
    \E f \in data.rules : Matches(f, answer.request) /\ TagOn(f, tags)
===============================================================================
