----------------------------- MODULE EngineProofs -----------------------------
(***************************************************************************)
(* The engine answers as a linear scan would, for every catalogue of       *)
(* filters, every request and every history of calls, and so implements    *)
(* Decisions: every call answers what trying every rule in turn would      *)
(* answer.                                                                 *)
(***************************************************************************)
EXTENDS Engine, WellFoundedInduction, TLAPS

(***************************************************************************)
(* What the operations of the regex manager keep, as lemmas about values.  *)
(***************************************************************************)

LEMMA NewManagerFacts ==
  ASSUME NEW R, NEW t \in Nat
  PROVE  NewManager(t) \in Managers({}, R) /\ LiveKeys(NewManager(t)) = {}
BY PolicyAssumption DEF NewManager, Managers, LiveKeys

\* cleanup (regex_manager.rs:300-307) only discards, and keeps what is in use.
LEMMA CleanupFacts ==
  ASSUME NEW R, Discarded \in R, NEW keys, NEW m \in Managers(keys, R)
  PROVE  /\ Cleanup(m) \in Managers(keys, R)
         /\ Cleanup(m).now = m.now /\ Cleanup(m).lastCleanup = m.lastCleanup
         /\ Cleanup(m).policy = m.policy
         /\ \A k \in LiveKeys(Cleanup(m)) : /\ k \in LiveKeys(m) /\ Cleanup(m).map[k] = m.map[k]
                                            /\ m.now - m.map[k].lastUsed < m.policy.unused
<1> DEFINE map == [k \in DOMAIN m.map |->
                     IF m.now - m.map[k].lastUsed >= m.policy.unused
                     THEN [m.map[k] EXCEPT !.regex = Discarded] ELSE m.map[k]]
<1>1. /\ m = [map |-> m.map, now |-> m.now, lastCleanup |-> m.lastCleanup, policy |-> m.policy]
      /\ m.map \in [keys -> [regex : R, lastUsed : Nat]]
      /\ m.now \in Nat /\ m.lastCleanup \in Nat /\ m.policy \in Policy
  BY DEF Managers
<1>2. map \in [keys -> [regex : R, lastUsed : Nat]]
  BY <1>1
<1>3. Cleanup(m) = [m EXCEPT !.map = map]
  BY DEF Cleanup
<1>4. \A k \in keys : map[k].regex # Discarded =>
                        map[k] = m.map[k] /\ m.now - m.map[k].lastUsed < m.policy.unused
  <2> SUFFICES ASSUME NEW k \in keys, map[k].regex # Discarded
               PROVE  map[k] = m.map[k] /\ m.now - m.map[k].lastUsed < m.policy.unused
    OBVIOUS
  <2>1. m.now - m.map[k].lastUsed \in Int /\ m.policy.unused \in Int
    BY <1>1, PolicyAssumption
  <2>2. CASE m.now - m.map[k].lastUsed >= m.policy.unused
    BY <1>1, <2>2
  <2>3. CASE ~(m.now - m.map[k].lastUsed >= m.policy.unused)
    BY <1>1, <2>1, <2>3
  <2>4. QED BY <2>2, <2>3
<1> HIDE DEF map
<1>5. Cleanup(m) = [map |-> map, now |-> m.now, lastCleanup |-> m.lastCleanup, policy |-> m.policy]
  BY <1>1, <1>3
<1>6. QED BY <1>1, <1>2, <1>4, <1>5 DEF Managers, LiveKeys

\* update_time (regex_manager.rs:282-298).
LEMMA UpdateTimeFacts ==
  ASSUME NEW R, Discarded \in R, NEW keys, NEW m \in Managers(keys, R), NEW t \in Nat,
         m.lastCleanup <= m.now, m.now <= t
  PROVE  LET u == UpdateTime(m, t) IN
           /\ u \in Managers(keys, R)
           /\ u.now = t /\ u.lastCleanup <= t /\ u.policy = m.policy
           /\ \A k \in LiveKeys(u) : k \in LiveKeys(m) /\ u.map[k] = m.map[k]
           /\ \/ u.lastCleanup = t /\ \A k \in LiveKeys(u) : t - m.map[k].lastUsed < m.policy.unused
              \/ /\ u.lastCleanup = m.lastCleanup
                 /\ m.policy.interval = 0 \/ t - m.lastCleanup < m.policy.interval
<1> DEFINE moved == [m EXCEPT !.now = t]
           reset == [moved EXCEPT !.lastCleanup = t]
<1>1. /\ m = [map |-> m.map, now |-> m.now, lastCleanup |-> m.lastCleanup, policy |-> m.policy]
      /\ m.map \in [keys -> [regex : R, lastUsed : Nat]]
      /\ m.now \in Nat /\ m.lastCleanup \in Nat /\ m.policy \in Policy
  BY DEF Managers
<1>2. moved = [map |-> m.map, now |-> t, lastCleanup |-> m.lastCleanup, policy |-> m.policy]
  BY <1>1
<1>3. UpdateTime(m, t) = IF m.policy.interval # 0 /\ t - m.lastCleanup >= m.policy.interval
                         THEN Cleanup(reset) ELSE moved
  BY DEF UpdateTime
<1> HIDE DEF moved
<1>4. reset = [map |-> m.map, now |-> t, lastCleanup |-> t, policy |-> m.policy]
  BY <1>2
<1>5. moved \in Managers(keys, R) /\ reset \in Managers(keys, R)
  BY <1>1, <1>2, <1>4 DEF Managers
<1>6. LiveKeys(moved) = LiveKeys(m) /\ LiveKeys(reset) = LiveKeys(m)
  BY <1>2, <1>4 DEF LiveKeys
<1>7. m.policy.interval \in Nat /\ m.policy.unused \in Nat
  BY <1>1, PolicyAssumption
<1> HIDE DEF reset
<1>8. CASE m.policy.interval # 0 /\ t - m.lastCleanup >= m.policy.interval
  <2>1. UpdateTime(m, t) = Cleanup(reset)
    BY <1>3, <1>8
  <2>2. QED BY <2>1, <1>4, <1>5, <1>6, CleanupFacts
<1>9. CASE ~(m.policy.interval # 0 /\ t - m.lastCleanup >= m.policy.interval)
  <2>1. UpdateTime(m, t) = moved
    BY <1>3, <1>9
  <2>2. m.policy.interval = 0 \/ t - m.lastCleanup < m.policy.interval
    BY <1>1, <1>7, <1>9
  <2>3. m.lastCleanup <= t
    BY <1>1
  <2>4. QED BY <2>1, <2>2, <2>3, <1>2, <1>5, <1>6
<1>10. QED BY <1>8, <1>9

\* matches (regex_manager.rs:242-280) compiles or reuses, and touches nothing else.
LEMMA UseFacts ==
  ASSUME NEW R, NEW keys, NEW m \in Managers(keys, R), NEW given, Discarded \notin given,
         given \subseteq R, NEW used, NEW patternsOf \in [used -> given]
  PROVE  LET u == Use(m, patternsOf) IN
           /\ u \in Managers(keys \cup used, R)
           /\ u.now = m.now /\ u.lastCleanup = m.lastCleanup /\ u.policy = m.policy
           /\ \A k \in used : /\ u.map[k].lastUsed = m.now
                              /\ u.map[k].regex = IF k \in LiveKeys(m) THEN m.map[k].regex
                                                  ELSE patternsOf[k]
           /\ \A k \in keys \ used : u.map[k] = m.map[k]
<1> DEFINE map == [k \in DOMAIN m.map \cup DOMAIN patternsOf |->
                    IF k \in DOMAIN patternsOf
                    THEN [regex |-> RegexFor(m, k, patternsOf[k]), lastUsed |-> m.now]
                    ELSE m.map[k]]
<1>1. /\ m = [map |-> m.map, now |-> m.now, lastCleanup |-> m.lastCleanup, policy |-> m.policy]
      /\ m.map \in [keys -> [regex : R, lastUsed : Nat]]
      /\ m.now \in Nat /\ m.lastCleanup \in Nat /\ m.policy \in Policy
  BY DEF Managers
<1>2. \A k \in used : RegexFor(m, k, patternsOf[k]) \in R
  BY <1>1 DEF RegexFor, LiveKeys
<1>3. DOMAIN m.map = keys /\ DOMAIN patternsOf = used
  BY <1>1
<1>4. /\ \A k \in used : map[k] = [regex |-> RegexFor(m, k, patternsOf[k]), lastUsed |-> m.now]
      /\ \A k \in keys \ used : map[k] = m.map[k]
  BY <1>3
<1>5. map \in [keys \cup used -> [regex : R, lastUsed : Nat]]
  BY <1>1, <1>2, <1>3
<1>6. Use(m, patternsOf) = [m EXCEPT !.map = map]
  BY DEF Use
<1> HIDE DEF map
<1>7. Use(m, patternsOf) = [map |-> map, now |-> m.now, lastCleanup |-> m.lastCleanup,
                            policy |-> m.policy]
  BY <1>1, <1>6
<1>8. QED BY <1>1, <1>4, <1>5, <1>7 DEF Managers, RegexFor

\* discard_regex (regex_manager.rs:309-315).
LEMMA DiscardFacts ==
  ASSUME NEW R, Discarded \in R, NEW keys, NEW m \in Managers(keys, R), NEW key
  PROVE  LET u == DiscardKey(m, key) IN
           /\ u \in Managers(keys, R)
           /\ u.now = m.now /\ u.lastCleanup = m.lastCleanup /\ u.policy = m.policy
           /\ \A k \in LiveKeys(u) : k \in LiveKeys(m) /\ u.map[k] = m.map[k]
<1> DEFINE map == [k \in DOMAIN m.map |->
                     IF k = key THEN [m.map[k] EXCEPT !.regex = Discarded] ELSE m.map[k]]
<1>1. /\ m = [map |-> m.map, now |-> m.now, lastCleanup |-> m.lastCleanup, policy |-> m.policy]
      /\ m.map \in [keys -> [regex : R, lastUsed : Nat]]
  BY DEF Managers
<1>2. /\ map \in [keys -> [regex : R, lastUsed : Nat]]
      /\ \A k \in keys : map[k].regex # Discarded => map[k] = m.map[k]
  BY <1>1
<1>3. DiscardKey(m, key) = [m EXCEPT !.map = map]
  BY DEF DiscardKey
<1> HIDE DEF map
<1>4. DiscardKey(m, key) = [map |-> map, now |-> m.now, lastCleanup |-> m.lastCleanup,
                            policy |-> m.policy]
  BY <1>1, <1>3
<1>5. QED BY <1>1, <1>2, <1>4 DEF Managers, LiveKeys

(***************************************************************************)
(* The index: a filter that matches is in a bucket the request leads to.   *)
(***************************************************************************)

\* get_tokens (network.rs:884-959) only returns tokens that a request which
\* the filter matches, and whose parameter it removes, has among its own.
LEMMA BucketReached ==
  ASSUME NEW f \in Filter, NEW r \in Request, Matches(f, r),
         "removeparam" \in f.mask => f.modifier \in r.params,
         NEW B \in Buckets(f)
  PROVE  B \cap ReqTokens(r) # {}
<1> DEFINE one    == IF f.domains # Null /\ f.notDomains = Null /\ \E d \in f.domains : f.domains = {d}
                     THEN f.domains ELSE {}
           cut    == one \cup UNION {PatternTokens[p] : p \in f.patterns}
           tokens == IF cut = {} /\ "removeparam" \in f.mask THEN ParamTokens[f.modifier] ELSE cut
           scheme == IF Scheme \subseteq f.mask THEN {} ELSE f.mask \cap Scheme
<1>1. f.domains # Null => f.domains \cap ReqTokens(r) # {}
  BY DEF Matches, DomainsMatch, ReqTokens
<1>2. \A t \in one : t \in ReqTokens(r)
  <2> SUFFICES ASSUME NEW t \in one PROVE t \in ReqTokens(r)
    OBVIOUS
  <2>1. f.domains # Null /\ t \in f.domains
    OBVIOUS
  <2>2. PICK d \in f.domains : f.domains = {d}
    OBVIOUS
  <2>3. QED BY <1>1, <2>1, <2>2
<1>3. \A p \in f.patterns : PatternTokens[p] \subseteq ReqTokens(r)
  BY RequestAssumption, FilterAssumption DEF Matches, PatternsFound, ReqTokens
<1>4. cut \subseteq ReqTokens(r)
  BY <1>2, <1>3
<1>5. tokens \subseteq ReqTokens(r)
  BY <1>4, RequestAssumption DEF ReqTokens
<1>6. scheme \subseteq ReqTokens(r)
  <2>1. PICK s \in Scheme : s \in r.needs /\ s \in r.tokens
    BY RequestAssumption
  <2>2. s # "document"
    BY DEF Scheme
  <2>3. s \in f.mask
    BY <2>1, <2>2 DEF Matches, OptionsMatch
  <2>4. scheme \subseteq {s}
    BY <2>3 DEF Scheme
  <2>5. QED BY <2>1, <2>4 DEF ReqTokens
<1>7. Fallback \in ReqTokens(r)
  BY RequestAssumption DEF ReqTokens
<1>8. CASE tokens = {} /\ f.domains # Null /\ f.notDomains = Null
  <2>1. B = f.domains
    BY <1>8 DEF Buckets
  <2>2. QED BY <1>1, <1>8, <2>1
<1>9. CASE ~(tokens = {} /\ f.domains # Null /\ f.notDomains = Null)
  <2>1. B = {Fallback} \/ \E t \in tokens \cup scheme : B = {t}
    BY <1>9 DEF Buckets
  <2> HIDE DEF tokens, scheme
  <2>2. QED BY <2>1, <1>5, <1>6, <1>7
<1>10. QED BY <1>8, <1>9

(***************************************************************************)
(* Fusing: the clone with all the patterns matches what any of them does.  *)
(***************************************************************************)

\* The filters of a group have a first one.
LEMMA FirstExists ==
  ASSUME NEW group \in SUBSET Filter, group # {}
  PROVE  \E f \in group : \A g \in group : LineOf[f] <= LineOf[g]
<1> DEFINE lines == {LineOf[f] : f \in group}
<1>1. lines \subseteq Nat /\ lines # {}
  BY FilterAssumption
<1>2. \E x \in lines : \A y \in lines : ~ (<<y, x>> \in OpToRel(<, Nat))
  <2> HIDE DEF lines
  <2> QED BY <1>1, NatLessThanWellFounded, WFMin
<1>3. PICK x \in lines : \A y \in lines : ~ (y < x)
  <2> HIDE DEF lines
  <2> QED BY <1>1, <1>2 DEF OpToRel
<1>4. PICK f \in group : LineOf[f] = x
  OBVIOUS
<1>5. \A g \in group : LineOf[g] \in Nat /\ ~(LineOf[g] < LineOf[f])
  BY <1>3, <1>4, FilterAssumption
<1>6. QED BY <1>5, FilterAssumption

\* SimplePatternGroup.fusion (optimizer.rs:88-143) clones a member of the group.
LEMMA FuseFacts ==
  ASSUME NEW group \in SUBSET Filter, group # {}
  PROVE  \E f \in group :
           Fuse(group) = [f EXCEPT !.patterns = IF \E g \in group : g.patterns = {} THEN {}
                                                ELSE UNION {g.patterns : g \in group}]
BY FirstExists DEF Fuse

LEMMA FuseMatches ==
  ASSUME NEW group \in SUBSET Filter, group # {}, NEW r \in Request, NEW on,
         \A f, g \in group : f.mask = g.mask /\ f.tag = g.tag,
         \A f \in group : f.domains = Null /\ f.notDomains = Null
  PROVE  Matches(Fuse(group), r) /\ TagOn(Fuse(group), on)
           <=> \E g \in group : Matches(g, r) /\ TagOn(g, on)
<1> DEFINE all == IF \E g \in group : g.patterns = {} THEN {}
                  ELSE UNION {g.patterns : g \in group}
<1>1. PICK f \in group : Fuse(group) = [f EXCEPT !.patterns = all]
  BY FuseFacts
<1>2. f \in FilterRecord
  BY FilterAssumption
<1>3. /\ Fuse(group).mask = f.mask /\ Fuse(group).tag = f.tag
      /\ Fuse(group).domains = Null /\ Fuse(group).notDomains = Null
      /\ Fuse(group).patterns = all
  <2> HIDE DEF all
  <2> QED BY <1>1, <1>2 DEF FilterRecord
<1>4. PatternsFound(all, r) <=> \E g \in group : PatternsFound(g.patterns, r)
  <2>1. CASE \E g \in group : g.patterns = {}
    BY <2>1 DEF PatternsFound
  <2>2. CASE ~ \E g \in group : g.patterns = {}
    <3>1. all = UNION {g.patterns : g \in group}
      BY <2>2
    <3>2. all # {}
      BY <2>2, <3>1
    <3> HIDE DEF all
    <3>3. QED BY <2>2, <3>1, <3>2 DEF PatternsFound
  <2>3. QED BY <2>1, <2>2
<1>5. \A g \in group : /\ OptionsMatch(g, r) <=> OptionsMatch(Fuse(group), r)
                       /\ TagOn(g, on) <=> TagOn(Fuse(group), on)
                       /\ DomainsMatch(g, r) /\ DomainsMatch(Fuse(group), r)
  BY <1>3 DEF OptionsMatch, TagOn, DomainsMatch
<1> HIDE DEF all
<1>6. QED BY <1>3, <1>4, <1>5 DEF Matches

(***************************************************************************)
(* The flatbuffer and what is found in its lists.                          *)
(***************************************************************************)

LEMMA LiveRules == ASSUME NEW S \in FilterSets PROVE Live[S] \subseteq Filter /\ Live[S] \subseteq S
BY FilterAssumption DEF Live

LEMMA Shape ==
  ASSUME NEW S \in FilterSets, NEW d \in Built[S]
  PROVE  /\ d.rules = S
         /\ \E optimize \in BOOLEAN, bucket \in Placements(S) : d.stored = Stored(S, optimize, bucket)
         /\ d.loc \in [{o \in d.stored : IsRegex(o)} -> Key]
         /\ \A a, b \in DOMAIN d.loc : d.loc[a] = d.loc[b] => a = b
<1>1. PICK optimize \in BOOLEAN : d \in Flatbuffers(S, optimize)
  BY DEF Built
<1>2. PICK bucket \in Placements(S) :
        d \in {[rules |-> S, stored |-> Stored(S, optimize, bucket), loc |-> loc] :
                 loc \in Injection({o \in Stored(S, optimize, bucket) : IsRegex(o)}, Key)}
  BY <1>1 DEF Flatbuffers
<1>3. PICK loc \in Injection({o \in Stored(S, optimize, bucket) : IsRegex(o)}, Key) :
        d = [rules |-> S, stored |-> Stored(S, optimize, bucket), loc |-> loc]
  BY <1>2
<1>4. QED BY <1>3 DEF Injection, IsInjective

\* The rules of a list that a linear scan finds.
Scan(S, list, r, on) == {f \in Live[S] : InList(f, list) /\ Matches(f, r) /\ TagOn(f, on)}

\* With the right regexes under its keys the manager makes no difference.
LEMMA StoredMatchesFilter ==
  ASSUME NEW m, Faithful(m, data), NEW o \in data.stored, NEW r,
         DOMAIN data.loc = {p \in data.stored : IsRegex(p)}
  PROVE  StoredMatches(m, o, r) <=> Matches(o.filter, r)
BY DEF StoredMatches, Matches, Faithful, RegexFor

\* What a pair of list and filter is stored as.
Object(S, optimize, bucket, x) ==
  [list |-> x[1], buckets |-> bucket[x],
   filter |-> IF Fuses(x, optimize) THEN Fuse(Group(S, optimize, bucket, x)) ELSE x[2]]

\* The stored filter of a pair matches when a filter it stands for does.
LEMMA ObjectMatches ==
  ASSUME UniformTags, NEW S \in FilterSets, NEW optimize, NEW bucket, NEW x \in Placed(S),
         NEW r \in Request, NEW on
  PROVE  LET f == Object(S, optimize, bucket, x).filter
         IN  /\ Matches(x[2], r) /\ TagOn(x[2], on) => Matches(f, r) /\ TagOn(f, on)
             /\ Matches(f, r) /\ TagOn(f, on) => Scan(S, x[1], r, on) # {}
<1> DEFINE G == Group(S, optimize, bucket, x)
<1>0. x[1] \in ListId /\ x[2] \in Live[S] /\ InList(x[2], x[1])
  BY DEF Placed
<1>1. CASE ~Fuses(x, optimize)
  <2>1. Object(S, optimize, bucket, x).filter = x[2]
    BY <1>1 DEF Object
  <2>2. Matches(x[2], r) /\ TagOn(x[2], on) => x[2] \in Scan(S, x[1], r, on)
    BY <1>0 DEF Scan
  <2>3. QED BY <2>1, <2>2
<1>2. CASE Fuses(x, optimize)
  <2>1. Object(S, optimize, bucket, x).filter = Fuse(G)
    BY <1>2 DEF Object
  <2>2. x = <<x[1], x[2]>>
    BY DEF Placed
  <2>3. x[2] \in G
    BY <1>0, <1>2, <2>2 DEF Group
  <2>4. G \in SUBSET Filter
    BY LiveRules DEF Group
  <2>5. \A g \in G : /\ g \in Live[S] /\ InList(g, x[1]) /\ Optimizable(g)
                    /\ g.mask = x[2].mask
    BY DEF Group, Placed, Fuses
  <2>6. \A g \in G : MainList(g) = x[1]
    BY <2>5 DEF InList, Optimizable
  <2>7. \A g, h \in G : g.mask = h.mask /\ g.tag = h.tag
    BY <2>5, <2>6 DEF UniformTags
  <2>8. \A g \in G : g.domains = Null /\ g.notDomains = Null
    BY <2>5 DEF Optimizable
  <2> HIDE DEF G
  <2>9. Matches(Fuse(G), r) /\ TagOn(Fuse(G), on) <=> \E g \in G : Matches(g, r) /\ TagOn(g, on)
    BY <2>3, <2>4, <2>7, <2>8, FuseMatches
  <2>10. \A g \in G : Matches(g, r) /\ TagOn(g, on) => g \in Scan(S, x[1], r, on)
    BY <2>5 DEF Scan
  <2>11. QED BY <2>1, <2>3, <2>9, <2>10
<1>3. QED BY <1>1, <1>2

\* Every filter that matches, and does its work, is tried.
LEMMA ObjectTried ==
  ASSUME NEW S \in FilterSets, NEW optimize, NEW bucket \in Placements(S), NEW x \in Placed(S),
         data.stored = Stored(S, optimize, bucket), NEW r \in Request, Matches(x[2], r),
         x[1] = "removeparam" => x[2].modifier \in r.params
  PROVE  Object(S, optimize, bucket, x) \in Tried(x[1], r)
<1>1. x[2] \in Filter /\ InList(x[2], x[1])
  BY LiveRules DEF Placed
<1>2. bucket[x] \in Buckets(x[2])
  BY DEF Placements
<1>3. "removeparam" \in x[2].mask => x[1] = "removeparam"
  <2>1. \A a, b \in {"redirect", "csp", "removeparam"} \cap x[2].mask : a = b
    BY <1>1, FilterAssumption
  <2>2. QED BY <1>1, <2>1 DEF InList, MainList
<1>4. bucket[x] \cap ReqTokens(r) # {}
  BY <1>1, <1>2, <1>3, BucketReached
<1>5. Object(S, optimize, bucket, x) \in data.stored
  BY DEF Stored, Object
<1>6. QED BY <1>4, <1>5 DEF Tried, Object

\* Whether a list yields a match at all is what a linear scan says.
LEMMA FoundSome ==
  ASSUME UniformTags, NEW S \in FilterSets, data \in Built[S], NEW m, Faithful(m, data),
         NEW list \in ListId \ {"removeparam"}, NEW r \in Request, NEW on
  PROVE  Found(m, list, r, on) # {} <=> Scan(S, list, r, on) # {}
<1>1. DOMAIN data.loc = {o \in data.stored : IsRegex(o)}
  BY Shape
<1>2. PICK optimize \in BOOLEAN, bucket \in Placements(S) : data.stored = Stored(S, optimize, bucket)
  BY Shape
<1>3. ASSUME NEW o \in Tried(list, r), StoredMatches(m, o, r), TagOn(o.filter, on)
      PROVE  Scan(S, list, r, on) # {}
  <2>1. o \in data.stored /\ o.list = list
    BY <1>3 DEF Tried
  <2>2. PICK x \in Placed(S) : o = Object(S, optimize, bucket, x)
    BY <1>2, <2>1 DEF Stored, Object
  <2>3. x[1] = list
    BY <2>1, <2>2 DEF Object
  <2>4. Matches(o.filter, r)
    BY <1>1, <1>3, <2>1, StoredMatchesFilter
  <2>5. QED BY <1>3, <2>2, <2>3, <2>4, ObjectMatches
<1>4. ASSUME NEW f \in Scan(S, list, r, on)
      PROVE  Found(m, list, r, on) # {}
  <2> DEFINE x == <<list, f>>
             o == Object(S, optimize, bucket, x)
  <2>1. x \in Placed(S) /\ x[1] = list /\ x[2] = f
    BY <1>4 DEF Placed, Scan
  <2>2. Matches(f, r) /\ TagOn(f, on)
    BY <1>4 DEF Scan
  <2> HIDE DEF x
  <2>3. o \in Tried(list, r)
    BY <1>2, <2>1, <2>2, ObjectTried
  <2>4. Matches(o.filter, r) /\ TagOn(o.filter, on)
    BY <2>1, <2>2, ObjectMatches
  <2> HIDE DEF o
  <2>5. o \in data.stored
    BY <2>3 DEF Tried
  <2>6. StoredMatches(m, o, r)
    BY <1>1, <2>4, <2>5, StoredMatchesFilter
  <2>7. QED BY <2>3, <2>4, <2>6 DEF Found
<1>5. QED BY <1>3, <1>4 DEF Found

\* The lists asked for all their matches store each filter as it is.
LEMMA NeverFused ==
  ASSUME NEW S \in FilterSets, NEW optimize, NEW x \in Placed(S),
         x[1] \in {"csp", "redirects", "removeparam"}
  PROVE  ~Fuses(x, optimize)
<1>1. InList(x[2], x[1])
  BY DEF Placed
<1>2. x[1] = "csp" => "csp" \in x[2].mask
  BY <1>1 DEF InList, MainList
<1>3. x[1] = "redirects" => "redirect" \in x[2].mask
  BY <1>1 DEF InList, MainList
<1>4. QED BY <1>2, <1>3 DEF Fuses, Optimizable

LEMMA FoundExact ==
  ASSUME NEW S \in FilterSets, data \in Built[S], NEW m, Faithful(m, data),
         NEW list \in {"csp", "redirects", "removeparam"}, NEW r \in Request, NEW on
  PROVE  /\ Found(m, list, r, on) \subseteq Scan(S, list, r, on)
         /\ \A f \in Scan(S, list, r, on) :
              (list = "removeparam" => f.modifier \in r.params) => f \in Found(m, list, r, on)
<1>1. DOMAIN data.loc = {o \in data.stored : IsRegex(o)}
  BY Shape
<1>2. PICK optimize \in BOOLEAN, bucket \in Placements(S) : data.stored = Stored(S, optimize, bucket)
  BY Shape, ZenonT(30)
<1>3. \A x \in Placed(S) : x[1] = list => Object(S, optimize, bucket, x).filter = x[2]
  BY NeverFused DEF Object
<1>4. ASSUME NEW f \in Found(m, list, r, on)
      PROVE  f \in Scan(S, list, r, on)
  <2>1. PICK o \in Tried(list, r) : StoredMatches(m, o, r) /\ TagOn(o.filter, on) /\ f = o.filter
    BY <1>4 DEF Found
  <2>2. o \in data.stored /\ o.list = list
    BY DEF Tried
  <2>3. PICK x \in Placed(S) : o = Object(S, optimize, bucket, x)
    BY <1>2, <2>2 DEF Stored, Object
  <2>4. x[1] = list /\ f = x[2]
    BY <1>3, <2>1, <2>2, <2>3 DEF Object
  <2>5. Matches(f, r)
    BY <1>1, <2>1, <2>2, StoredMatchesFilter
  <2>6. QED BY <2>1, <2>4, <2>5 DEF Placed, Scan
<1>5. ASSUME NEW f \in Scan(S, list, r, on), list = "removeparam" => f.modifier \in r.params
      PROVE  f \in Found(m, list, r, on)
  <2> DEFINE x == <<list, f>>
             o == Object(S, optimize, bucket, x)
  <2>1. x \in Placed(S) /\ x[1] = list /\ x[2] = f
    BY <1>5 DEF Placed, Scan, ListId
  <2>2. Matches(f, r) /\ TagOn(f, on)
    BY <1>5 DEF Scan
  <2> HIDE DEF x
  <2>3. o \in Tried(list, r) /\ o.filter = f
    BY <1>2, <1>3, <1>5, <2>1, <2>2, ObjectTried
  <2> HIDE DEF o
  <2>4. StoredMatches(m, o, r)
    BY <1>1, <2>2, <2>3, StoredMatchesFilter DEF Tried
  <2>5. QED BY <2>2, <2>3, <2>4 DEF Found
<1>6. QED BY <1>4, <1>5

(***************************************************************************)
(* The manager: what every call leaves behind.                             *)
(***************************************************************************)

\* Policies that all clean up, at a's interval at the latest, what was
\* unused for b's time at the most.
Bounds(a, b) == \A p \in Policy : 0 < p.interval /\ p.interval <= a.interval /\ p.unused <= b.unused

\* RetentionBound is kept because the last cleanup is recent, and because what
\* survived it had been used recently, or has been used since.
Kept(m) ==
  \A a, b \in Policy : Bounds(a, b) =>
    /\ m.now < m.lastCleanup + a.interval
    /\ \A k \in LiveKeys(m) : \/ m.lastCleanup < m.map[k].lastUsed + b.unused
                              \/ m.lastCleanup <= m.map[k].lastUsed

Timely(m, t) == /\ \E keys \in SUBSET Key : m \in Managers(keys, Regex)
                /\ m.lastCleanup <= m.now /\ m.now <= t

Good(m, d, t) == Timely(m, t) /\ Faithful(m, d) /\ Kept(m)

LEMMA NewGood == ASSUME NEW t \in Nat, NEW d PROVE Good(NewManager(t), d, t)
<1>1. Timely(NewManager(t), t)
  <2>1. NewManager(t) \in Managers({}, Regex)
    BY NewManagerFacts
  <2>2. NewManager(t).lastCleanup = t /\ NewManager(t).now = t
    BY DEF NewManager
  <2>3. QED BY <2>1, <2>2 DEF Timely
<1>2. LiveKeys(NewManager(t)) = {}
  BY NewManagerFacts
<1>3. Kept(NewManager(t))
  <2>1. NewManager(t).lastCleanup = t /\ NewManager(t).now = t
    BY DEF NewManager
  <2>2. ASSUME NEW a \in Policy, NEW b \in Policy, Bounds(a, b)
        PROVE  t < t + a.interval
    BY <2>2, PolicyAssumption DEF Bounds
  <2>3. QED BY <1>2, <2>1, <2>2 DEF Kept
<1>4. QED BY <1>1, <1>2, <1>3 DEF Good, Faithful

LEMMA BorrowGood ==
  ASSUME NEW m, NEW d, NEW t \in Nat, Good(m, d, t)
  PROVE  LET u == UpdateTime(m, t) IN Good(u, d, t) /\ u.now = t
<1> DEFINE u == UpdateTime(m, t)
<1>1. PICK keys \in SUBSET Key : m \in Managers(keys, Regex)
  BY DEF Good, Timely
<1>2. m.lastCleanup <= m.now /\ m.now <= t
  BY DEF Good, Timely
<1>3. Discarded \in Regex
  BY DEF Regex
<1>4. /\ u \in Managers(keys, Regex)
      /\ u.now = t /\ u.lastCleanup <= t /\ u.policy = m.policy
      /\ \A k \in LiveKeys(u) : k \in LiveKeys(m) /\ u.map[k] = m.map[k]
      /\ \/ u.lastCleanup = t /\ \A k \in LiveKeys(u) : t - m.map[k].lastUsed < m.policy.unused
         \/ /\ u.lastCleanup = m.lastCleanup
            /\ m.policy.interval = 0 \/ t - m.lastCleanup < m.policy.interval
  <2> HIDE DEF u
  <2> QED BY <1>1, <1>2, <1>3, UpdateTimeFacts DEF u
<1> HIDE DEF u
<1>5. Timely(u, t)
  BY <1>4 DEF Timely
<1>6. Faithful(u, d)
  BY <1>4 DEF Good, Faithful
<1>7. Kept(u)
  <2> SUFFICES ASSUME NEW a \in Policy, NEW b \in Policy, Bounds(a, b)
               PROVE  /\ u.now < u.lastCleanup + a.interval
                      /\ \A k \in LiveKeys(u) : \/ u.lastCleanup < u.map[k].lastUsed + b.unused
                                                \/ u.lastCleanup <= u.map[k].lastUsed
    BY DEF Kept
  <2>1. /\ m.policy \in Policy /\ m.lastCleanup \in Nat
        /\ \A k \in LiveKeys(m) : m.map[k].lastUsed \in Nat
    BY <1>1 DEF Managers, LiveKeys
  <2>2. /\ a.interval \in Nat /\ b.unused \in Nat
        /\ m.policy.interval \in Nat /\ m.policy.unused \in Nat
        /\ 0 < m.policy.interval /\ m.policy.interval <= a.interval /\ m.policy.unused <= b.unused
    BY <2>1, PolicyAssumption DEF Bounds
  <2>3. \A k \in LiveKeys(m) : \/ m.lastCleanup < m.map[k].lastUsed + b.unused
                               \/ m.lastCleanup <= m.map[k].lastUsed
    BY DEF Good, Kept
  <2>4. CASE u.lastCleanup = t /\ \A k \in LiveKeys(u) : t - m.map[k].lastUsed < m.policy.unused
    <3>1. u.now < u.lastCleanup + a.interval
      BY <1>4, <2>2, <2>4
    <3>2. ASSUME NEW k \in LiveKeys(u)
          PROVE  u.lastCleanup < u.map[k].lastUsed + b.unused
      <4>1. u.map[k] = m.map[k] /\ m.map[k].lastUsed \in Nat /\ t - m.map[k].lastUsed < m.policy.unused
        BY <1>4, <2>1, <2>4
      <4>2. QED BY <4>1, <2>2, <2>4
    <3>3. QED BY <3>1, <3>2
  <2>5. CASE /\ u.lastCleanup = m.lastCleanup
             /\ m.policy.interval = 0 \/ t - m.lastCleanup < m.policy.interval
    <3>1. u.now < u.lastCleanup + a.interval
      BY <1>4, <2>1, <2>2, <2>5
    <3>2. QED BY <1>4, <2>3, <2>5, <3>1
  <2>6. QED BY <1>4, <2>4, <2>5
<1>8. QED BY <1>4, <1>5, <1>6, <1>7 DEF Good, u

\* The patterns of a stored filter.
LEMMA StoredPatterns ==
  ASSUME NEW S \in FilterSets, NEW d \in Built[S], NEW o \in d.stored
  PROVE  o.filter.patterns \in SUBSET Pattern
<1>1. PICK optimize \in BOOLEAN, bucket \in Placements(S) : d.stored = Stored(S, optimize, bucket)
  BY Shape, ZenonT(30)
<1>2. PICK x \in Placed(S) : o = Object(S, optimize, bucket, x)
  BY <1>1 DEF Stored, Object
<1> DEFINE G == Group(S, optimize, bucket, x)
<1>3. x[2] \in Live[S] /\ x = <<x[1], x[2]>>
  BY DEF Placed
<1>4. \A f \in Filter : f \in FilterRecord /\ f.patterns \in SUBSET Pattern
  BY FilterAssumption DEF FilterRecord
<1>5. CASE ~Fuses(x, optimize)
  <2>1. o.filter = x[2]
    BY <1>2, <1>5 DEF Object
  <2>2. QED BY <1>3, <1>4, <2>1, LiveRules
<1>6. CASE Fuses(x, optimize)
  <2>1. o.filter = Fuse(G)
    BY <1>2, <1>6 DEF Object
  <2>2. x[2] \in G
    BY <1>3, <1>6 DEF Group
  <2>3. G \in SUBSET Filter
    BY LiveRules DEF Group
  <2> HIDE DEF G
  <2> DEFINE all == IF \E g \in G : g.patterns = {} THEN {} ELSE UNION {g.patterns : g \in G}
  <2>4. PICK f \in G : Fuse(G) = [f EXCEPT !.patterns = all]
    BY <2>2, <2>3, FuseFacts
  <2>5. f \in FilterRecord
    BY <1>4, <2>3
  <2>6. all \in SUBSET Pattern
    BY <1>4, <2>3
  <2> HIDE DEF all
  <2>7. Fuse(G).patterns = all
    BY <2>4, <2>5 DEF FilterRecord
  <2>8. QED BY <2>1, <2>6, <2>7
<1>7. QED BY <1>5, <1>6

\* Running regexes of this flatbuffer's filters.
LEMMA RunningGood ==
  ASSUME NEW S \in FilterSets, data \in Built[S], NEW t \in Nat, NEW m, Good(m, data, t),
         NEW ran \in SUBSET {o \in data.stored : IsRegex(o)}
  PROVE  Good(AfterRunning(m, ran), data, t)
<1> DEFINE used       == {data.loc[o] : o \in ran}
           patternsOf == [k \in used |-> (CHOOSE o \in ran : data.loc[o] = k).filter.patterns]
           u          == Use(m, patternsOf)
<1>1. PICK keys \in SUBSET Key : m \in Managers(keys, Regex)
  BY DEF Good, Timely
<1>2. /\ data.loc \in [{o \in data.stored : IsRegex(o)} -> Key]
      /\ \A a, b \in DOMAIN data.loc : data.loc[a] = data.loc[b] => a = b
  BY Shape
<1>3. used \subseteq Key
  BY <1>2
<1>4. ASSUME NEW o \in ran PROVE patternsOf[data.loc[o]] = o.filter.patterns
  <2>1. \A p \in ran : data.loc[p] = data.loc[o] <=> p = o
    BY <1>2
  <2>2. (CHOOSE p \in ran : data.loc[p] = data.loc[o]) = o
    BY <2>1
  <2>3. data.loc[o] \in used
    OBVIOUS
  <2> HIDE DEF used
  <2>4. QED BY <2>2, <2>3
<1>5. patternsOf \in [used -> SUBSET Pattern]
  <2>1. \A o \in ran : o.filter.patterns \in SUBSET Pattern
    BY StoredPatterns
  <2>2. \A k \in used : patternsOf[k] \in SUBSET Pattern
    BY <1>4, <2>1, ZenonT(30)
  <2>3. QED BY <2>2
<1>6. AfterRunning(m, ran) = u
  BY DEF AfterRunning
<1> HIDE DEF patternsOf, used
<1>7. /\ u \in Managers(keys \cup used, Regex)
      /\ u.now = m.now /\ u.lastCleanup = m.lastCleanup /\ u.policy = m.policy
      /\ \A k \in used : /\ u.map[k].lastUsed = m.now
                         /\ u.map[k].regex = IF k \in LiveKeys(m) THEN m.map[k].regex
                                             ELSE patternsOf[k]
      /\ \A k \in keys \ used : u.map[k] = m.map[k]
  <2> DEFINE given == SUBSET Pattern
  <2>1. Discarded \notin given /\ given \subseteq Regex /\ patternsOf \in [used -> given]
    BY <1>5, DiscardedAssumption DEF Regex
  <2> HIDE DEF given
  <2>2. QED BY <1>1, <2>1, UseFacts
<1> HIDE DEF u
<1>8. DOMAIN u.map = keys \cup used /\ DOMAIN m.map = keys
  BY <1>1, <1>7 DEF Managers
<1>9. Timely(u, t)
  <2>1. m.lastCleanup <= m.now /\ m.now <= t
    BY DEF Good, Timely
  <2>2. keys \cup used \in SUBSET Key
    BY <1>3
  <2>3. QED BY <1>7, <2>1, <2>2 DEF Timely
<1>10. Faithful(u, data)
  <2> SUFFICES ASSUME NEW o \in DOMAIN data.loc, data.loc[o] \in LiveKeys(u)
               PROVE  u.map[data.loc[o]].regex = o.filter.patterns
    BY DEF Faithful
  <2>1. Faithful(m, data)
    BY DEF Good
  <2>2. CASE data.loc[o] \in used
    <3>1. PICK p \in ran : data.loc[p] = data.loc[o]
      BY <2>2 DEF used
    <3>2. p = o
      BY <1>2, <3>1
    <3>3. patternsOf[data.loc[o]] = o.filter.patterns
      BY <1>4, <3>2
    <3>4. QED BY <1>7, <2>1, <2>2, <3>3 DEF Faithful
  <2>3. CASE data.loc[o] \notin used
    <3>1. data.loc[o] \in LiveKeys(m) /\ u.map[data.loc[o]] = m.map[data.loc[o]]
      BY <1>7, <1>8, <2>3 DEF LiveKeys
    <3>2. QED BY <2>1, <3>1 DEF Faithful
  <2>4. QED BY <2>2, <2>3
<1>11. Kept(u)
  <2> SUFFICES ASSUME NEW a \in Policy, NEW b \in Policy, Bounds(a, b)
               PROVE  /\ u.now < u.lastCleanup + a.interval
                      /\ \A k \in LiveKeys(u) : \/ u.lastCleanup < u.map[k].lastUsed + b.unused
                                                \/ u.lastCleanup <= u.map[k].lastUsed
    BY DEF Kept
  <2>1. /\ m.now < m.lastCleanup + a.interval
        /\ \A k \in LiveKeys(m) : \/ m.lastCleanup < m.map[k].lastUsed + b.unused
                                  \/ m.lastCleanup <= m.map[k].lastUsed
    BY DEF Good, Kept
  <2>2. m.lastCleanup <= m.now
    BY DEF Good, Timely
  <2>3. ASSUME NEW k \in LiveKeys(u)
        PROVE  \/ u.lastCleanup < u.map[k].lastUsed + b.unused
               \/ u.lastCleanup <= u.map[k].lastUsed
    <3>1. CASE k \in used
      BY <1>7, <2>2, <3>1
    <3>2. CASE k \notin used
      <4>1. k \in LiveKeys(m) /\ u.map[k] = m.map[k]
        BY <1>7, <1>8, <3>2 DEF LiveKeys
      <4>2. QED BY <1>7, <2>1, <4>1
    <3>3. QED BY <3>1, <3>2
  <2>4. QED BY <1>7, <2>1, <2>3
<1>12. QED BY <1>6, <1>9, <1>10, <1>11 DEF Good

LEMMA SetPolicyGood ==
  ASSUME NEW m, NEW d, NEW t, Good(m, d, t), NEW p \in Policy
  PROVE  Good(SetPolicy(m, p), d, t)
<1>1. PICK keys \in SUBSET Key : m \in Managers(keys, Regex)
  BY DEF Good, Timely
<1>2. SetPolicy(m, p) = [map |-> m.map, now |-> m.now, lastCleanup |-> m.lastCleanup, policy |-> p]
  BY <1>1 DEF SetPolicy, Managers
<1>3. SetPolicy(m, p) \in Managers(keys, Regex)
  BY <1>1, <1>2 DEF Managers
<1>4. QED BY <1>2, <1>3 DEF Good, Timely, Faithful, Kept, LiveKeys

LEMMA DiscardGood ==
  ASSUME NEW m, NEW d, NEW t, Good(m, d, t), NEW key
  PROVE  Good(DiscardKey(m, key), d, t)
<1> DEFINE u == DiscardKey(m, key)
<1>1. PICK keys \in SUBSET Key : m \in Managers(keys, Regex)
  BY DEF Good, Timely
<1>2. Discarded \in Regex
  BY DEF Regex
<1>3. /\ u \in Managers(keys, Regex)
      /\ u.now = m.now /\ u.lastCleanup = m.lastCleanup /\ u.policy = m.policy
      /\ \A k \in LiveKeys(u) : k \in LiveKeys(m) /\ u.map[k] = m.map[k]
  BY <1>1, <1>2, DiscardFacts
<1> HIDE DEF u
<1>4. Good(u, d, t)
  BY <1>3 DEF Good, Timely, Faithful, Kept
<1>5. QED BY <1>4 DEF u

(***************************************************************************)
(* The inductive invariant, and what follows from it.                      *)
(***************************************************************************)

IInv == TypeOK /\ Good(manager, data, clock)

LEMMA IInvInit == Init => IInv
<1> SUFFICES ASSUME Init PROVE IInv
  OBVIOUS
<1>1. data \in Flatbuffer /\ tags = {} /\ resources = {} /\ saved = <<"none">> /\ clock = 0
  BY DEF Init, Flatbuffer
<1>2. Good(manager, data, clock)
  BY <1>1, NewGood DEF Init
<1>3. TypeOK
  BY <1>1, <1>2, CallAssumption DEF TypeOK, Good, Timely
<1>4. QED BY <1>2, <1>3 DEF IInv

\* A question, whichever lists it asks and whatever it answers.
LEMMA AskingKeeps ==
  ASSUME IInv, NEW lists, NEW r, Asking(lists, r)
  PROVE  IInv'
<1>1. clock \in Nat /\ Good(manager, data, clock)
  BY DEF IInv, TypeOK
<1>2. PICK S \in FilterSets : data \in Built[S]
  BY DEF IInv, TypeOK, Flatbuffer
<1>3. Good(Borrow, data, clock)
  BY <1>1, BorrowGood DEF Borrow
<1>4. PICK ran \in SUBSET MayRun(lists, r) : manager' = AfterRunning(Borrow, ran)
  BY DEF Asking
<1>5. ran \in SUBSET {o \in data.stored : IsRegex(o)}
  BY DEF MayRun, Tried
<1>6. Good(manager', data, clock)
  BY <1>1, <1>2, <1>3, <1>4, <1>5, RunningGood
<1>7. UNCHANGED <<data, tags, resources, saved, clock>>
  BY DEF Asking
<1>8. QED BY <1>6, <1>7 DEF IInv, TypeOK, Good, Timely, Faithful

\* The rest of the state is typed, and the manager good: that is the invariant.
LEMMA IInvFrom ==
  ASSUME data' \in Flatbuffer, (tags \subseteq Tag)', (resources \subseteq Resource)',
         (saved \in {<<"none">>, <<"damaged">>} \cup ({"intact"} \X Flatbuffer))',
         clock' \in 0 .. MaxTime, Good(manager', data', clock')
  PROVE  IInv'
BY DEF IInv, TypeOK, Good, Timely, Faithful

LEMMA IInvStep == IInv /\ [Next]_vars => IInv'
<1> SUFFICES ASSUME IInv, [Next]_vars PROVE IInv'
  OBVIOUS
<1>1. /\ data \in Flatbuffer /\ tags \subseteq Tag /\ resources \subseteq Resource
      /\ saved \in {<<"none">>, <<"damaged">>} \cup ({"intact"} \X Flatbuffer)
      /\ clock \in 0 .. MaxTime /\ clock \in Nat /\ MaxTime \in Nat
      /\ Good(manager, data, clock)
  BY CallAssumption DEF IInv, TypeOK
<1>2. Good(Borrow, data, clock)
  BY <1>1, BorrowGood DEF Borrow
<1>3. ASSUME NEW S \in FilterSets, FromFilterSet(S) PROVE IInv'
  <2>1. data' \in Flatbuffer
    BY <1>3 DEF FromFilterSet, Flatbuffer
  <2>2. Good(manager', data', clock')
    BY <1>1, <1>3, NewGood DEF FromFilterSet
  <2>3. QED BY <1>1, <1>3, <2>1, <2>2, IInvFrom DEF FromFilterSet
<1>4. ASSUME SetTags PROVE IInv'
  <2>1. /\ tags' \subseteq Tag
        /\ UNCHANGED <<data, resources, manager, saved, clock>>
    BY <1>1, <1>4 DEF SetTags, UseTags, EnableTags, DisableTags, TagsWithSet
  <2>2. QED BY <1>1, <2>1, IInvFrom
<1>5. ASSUME NEW rs \in SUBSET Resource, UseResources(rs) PROVE IInv'
  BY <1>1, <1>5, IInvFrom DEF UseResources
<1>6. ASSUME NEW r \in Request, Ask(r) PROVE IInv'
  <2>1. ASSUME NEW prev \in BOOLEAN, NEW force \in BOOLEAN, CheckNetworkRequest(r, prev, force)
        PROVE  IInv'
    BY <2>1, AskingKeeps DEF CheckNetworkRequest
  <2>2. CheckGenericHide(r) => IInv'
    BY AskingKeeps DEF CheckGenericHide
  <2>3. GetCspDirectives(r) => IInv'
    BY AskingKeeps DEF GetCspDirectives
  <2>4. NoCspDirectives(r) => IInv'
    BY <1>1, IInvFrom DEF NoCspDirectives
  <2>5. QED BY <1>6, <2>1, <2>2, <2>3, <2>4 DEF Ask
<1>7. ASSUME NEW m, Good(m, data, clock), Managed(m) PROVE IInv'
  BY <1>1, <1>7, IInvFrom DEF Managed
<1>8. ASSUME Manage PROVE IInv'
  <2>1. GetDebugInfo => IInv'
    BY <1>2, <1>7 DEF GetDebugInfo
  <2>2. ASSUME NEW p \in Policy, SetRegexDiscardPolicy(p) PROVE IInv'
    <3>1. Good(SetPolicy(Borrow, p), data, clock)
      BY <1>2, SetPolicyGood
    <3>2. QED BY <1>7, <2>2, <3>1 DEF SetRegexDiscardPolicy
  <2>3. ASSUME NEW k \in Key, DiscardRegex(k) PROVE IInv'
    <3>1. Good(DiscardKey(Borrow, k), data, clock)
      BY <1>2, DiscardGood
    <3>2. QED BY <1>7, <2>3, <3>1 DEF DiscardRegex
  <2>4. QED BY <1>8, <2>1, <2>2, <2>3 DEF Manage
<1>9. ASSUME Serialize PROVE IInv'
  BY <1>1, <1>9, IInvFrom DEF Serialize
<1>10. ASSUME DamageSaved PROVE IInv'
  BY <1>1, <1>10, IInvFrom DEF DamageSaved
<1>11. ASSUME Deserialize PROVE IInv'
  <2>1. CASE saved[1] = "intact" /\ data' = saved[2] /\ manager' = NewManager(clock)
    <3>1. saved \in {"intact"} \X Flatbuffer
      BY <1>1, <2>1
    <3>2. data' \in Flatbuffer
      BY <2>1, <3>1
    <3>3. Good(manager', data', clock')
      BY <1>1, <1>11, <2>1, NewGood DEF Deserialize
    <3>4. QED BY <1>1, <1>11, <3>2, <3>3, IInvFrom DEF Deserialize
  <2>2. CASE UNCHANGED <<data, manager>>
    BY <1>1, <1>11, <2>2, IInvFrom DEF Deserialize
  <2>3. QED BY <1>11, <2>1, <2>2 DEF Deserialize
<1>12. ASSUME Tick PROVE IInv'
  <2>1. clock' \in 0 .. MaxTime /\ clock <= clock' /\ UNCHANGED <<data, manager>>
    BY <1>1, <1>12 DEF Tick
  <2>2. Good(manager', data', clock')
    <3>1. manager.now \in Nat /\ manager.now <= clock
      BY <1>1 DEF Good, Timely, Managers
    <3>2. manager.now <= clock'
      BY <1>1, <2>1, <3>1
    <3>3. QED BY <1>1, <2>1, <3>2 DEF Good, Timely
  <2>3. QED BY <1>1, <1>12, <2>1, <2>2, IInvFrom DEF Tick
<1>13. CASE UNCHANGED vars
  BY <1>1, <1>13, IInvFrom DEF vars
<1>14. QED
  BY <1>3, <1>4, <1>5, <1>6, <1>8, <1>9, <1>10, <1>11, <1>12, <1>13 DEF Next

LEMMA Invariant == Spec => []IInv
BY IInvInit, IInvStep, PTL DEF Spec

\* The engine's state keeps its shape: the flatbuffer is one that some filter
\* set serializes to, and the manager's clock runs between its last cleanup
\* and now (regex_manager.rs:282-298).
THEOREM TypeCorrect == Spec => []TypeOK
<1>1. IInv => TypeOK
  BY DEF IInv
<1>2. QED BY Invariant, <1>1, PTL

\* Whatever was built, loaded, cleaned up or asked before, a compiled regex is
\* that of the filter now stored at its location (blocker.rs:446-470).
THEOREM RegexesFaithful == Spec => []RegexFaithful
<1>1. IInv => RegexFaithful
  BY DEF IInv, Good, RegexFaithful
<1>2. QED BY Invariant, <1>1, PTL

\* However the discard policy is changed meanwhile, no call finds a regex that
\* has been idle beyond the longest policy's bound (regex_manager.rs:282-307).
THEOREM RegexesExpire == Spec => []RetentionBound
<1>1. IInv => RetentionBound
  <2> SUFFICES ASSUME IInv, NEW a \in Policy, NEW b \in Policy, Bounds(a, b),
                      NEW k \in LiveKeys(manager)
               PROVE  manager.now < manager.map[k].lastUsed + a.interval + b.unused
    BY DEF RetentionBound, Bounds
  <2>1. /\ manager.now < manager.lastCleanup + a.interval
        /\ \/ manager.lastCleanup < manager.map[k].lastUsed + b.unused
           \/ manager.lastCleanup <= manager.map[k].lastUsed
    BY DEF IInv, Good, Kept
  <2>2. /\ manager.now \in Nat /\ manager.lastCleanup \in Nat /\ manager.map[k].lastUsed \in Nat
        /\ a.interval \in Nat /\ b.unused \in Nat
    BY PolicyAssumption DEF IInv, Good, Timely, Managers, LiveKeys
  <2>3. QED BY <2>1, <2>2
<1>2. QED BY Invariant, <1>1, PTL

(***************************************************************************)
(* The promise speaks of the same filters.                                 *)
(***************************************************************************)

LEMMA SameLive == Promise!Live = Live
<1>1. \A f : Promise!FilterId(f) = FilterId(f)
  BY DEF Promise!FilterId, FilterId, Promise!HashOrder, HashOrder,
     Promise!Cardinality, Cardinality
<1>2. QED BY <1>1 DEF Promise!Live, Live, Promise!WithoutBad, WithoutBad

LEMMA SameMatches == \A f, r : Promise!Matches(f, r) <=> Matches(f, r)
BY DEF Promise!Matches, Matches, Promise!OptionsMatch, OptionsMatch, Promise!DomainsMatch,
       DomainsMatch, Promise!PatternsFound, PatternsFound

\* What the linear scan applies.
LEMMA ApplyIs ==
  ASSUME NEW S \in FilterSets, NEW r \in Request, NEW on
  PROVE  Promise!Apply(S, r, on) = {f \in Live[S] : Matches(f, r) /\ TagOn(f, on)}
<1>1. Promise!Matching[S][r] = {f \in Live[S] : Promise!Matches(f, r)}
  BY SameLive DEF Promise!Matching
<1>2. QED BY <1>1, SameMatches DEF Promise!Apply, Promise!TagOn, TagOn

(***************************************************************************)
(* Each list answers one of its questions (fb_network_builder.rs:216-277). *)
(***************************************************************************)

LEMMA ImportantList ==
  ASSUME NEW S \in FilterSets, NEW r \in Request
  PROVE  Scan(S, "importants", r, {}) # {} <=> Promise!Important(S, r)
BY ApplyIs DEF Scan, InList, MainList, Promise!Important, Promise!Plain, Promise!Is

LEMMA ExceptionList ==
  ASSUME NEW S \in FilterSets, NEW r \in Request, NEW on
  PROVE  Scan(S, "exceptions", r, on) # {} <=> Promise!Excepted(S, r, on)
BY ApplyIs DEF Scan, InList, MainList, Promise!Excepted, Promise!Plain, Promise!Is

LEMMA GenericHideList ==
  ASSUME NEW S \in FilterSets, NEW r \in Request
  PROVE  Scan(S, "genericHide", r, {}) # {} <=> Promise!GenericHide(S, r)
BY ApplyIs DEF Scan, InList, MainList, Promise!GenericHide, Promise!Is

LEMMA BlockingLists ==
  ASSUME NEW S \in FilterSets, NEW r \in Request, NEW on
  PROVE  Scan(S, "tagged", r, on) # {} \/ Scan(S, "filters", r, {}) # {}
           <=> Promise!Blocked(S, r, on)
<1> DEFINE live == {f \in Live[S] : Matches(f, r)}
<1>1. \A f \in live : InList(f, "tagged") =>
        /\ Promise!Plain(f) /\ "exception" \notin f.mask /\ "important" \notin f.mask
        /\ "redirect" \notin f.mask
  BY DEF InList, MainList, Promise!Plain
<1>2. \A f \in live : InList(f, "filters") /\ TagOn(f, {}) =>
        /\ Promise!Plain(f) /\ "exception" \notin f.mask /\ "important" \notin f.mask
        /\ "redirect" \in f.mask => "alsoBlock" \in f.mask
        /\ f.tag = Null
  BY DEF InList, MainList, Promise!Plain, TagOn
<1>3. \A f \in live : /\ Promise!Plain(f) /\ "exception" \notin f.mask /\ "important" \notin f.mask
                      /\ "redirect" \in f.mask => "alsoBlock" \in f.mask /\ f.tag = Null
        => \/ f.tag # Null /\ InList(f, "tagged")
           \/ f.tag = Null /\ InList(f, "filters")
  BY DEF InList, MainList, Promise!Plain
<1>4. ASSUME NEW f \in Scan(S, "tagged", r, on) PROVE Promise!Blocked(S, r, on)
  BY <1>1, <1>4, ApplyIs DEF Scan, Promise!Blocked, Promise!Is
<1>5. ASSUME NEW f \in Scan(S, "filters", r, {}) PROVE Promise!Blocked(S, r, on)
  BY <1>2, <1>5, ApplyIs DEF Scan, Promise!Blocked, Promise!Is, TagOn
<1>6. ASSUME Promise!Blocked(S, r, on)
      PROVE  Scan(S, "tagged", r, on) # {} \/ Scan(S, "filters", r, {}) # {}
  <2>1. PICK f \in live : /\ TagOn(f, on)
                          /\ Promise!Plain(f) /\ "exception" \notin f.mask
                          /\ "important" \notin f.mask
                          /\ "redirect" \in f.mask => "alsoBlock" \in f.mask /\ f.tag = Null
    BY <1>6, ApplyIs DEF Promise!Blocked, Promise!Is
  <2>2. CASE f.tag # Null /\ InList(f, "tagged")
    BY <2>1, <2>2 DEF Scan
  <2>3. CASE f.tag = Null /\ InList(f, "filters")
    BY <2>1, <2>3 DEF Scan, TagOn
  <2>4. QED BY <1>3, <2>1, <2>2, <2>3
<1>7. QED BY <1>4, <1>5, <1>6

LEMMA RemovedList ==
  ASSUME NEW S \in FilterSets, data \in Built[S], NEW m, Faithful(m, data), NEW r \in Request
  PROVE  r.params \cap {f.modifier : f \in Found(m, "removeparam", r, {})}
           = Promise!RemovedParams(S, r)
<1>1. {f \in Promise!Apply(S, r, {}) : Promise!Is("removeparam", f) /\ ~Promise!Is("csp", f)}
        = Scan(S, "removeparam", r, {})
  BY ApplyIs DEF Scan, InList, MainList, Promise!Is
<1>2. /\ Found(m, "removeparam", r, {}) \subseteq Scan(S, "removeparam", r, {})
      /\ \A f \in Scan(S, "removeparam", r, {}) :
           f.modifier \in r.params => f \in Found(m, "removeparam", r, {})
  BY FoundExact
<1>3. QED BY <1>1, <1>2 DEF Promise!RemovedParams

LEMMA RedirectList ==
  ASSUME NEW S \in FilterSets, data \in Built[S], NEW m, Faithful(m, data), NEW r \in Request
  PROVE  RedirectTo(Found(m, "redirects", r, {})) = Promise!RedirectTo(S, r, resources)
<1>1. Found(m, "redirects", r, {}) = Scan(S, "redirects", r, {})
  <2>1. Found(m, "redirects", r, {}) \subseteq Scan(S, "redirects", r, {})
    BY FoundExact
  <2>2. \A f \in Scan(S, "redirects", r, {}) : f \in Found(m, "redirects", r, {})
    BY FoundExact
  <2>3. QED BY <2>1, <2>2
<1>2. {f \in Promise!Apply(S, r, {}) : Promise!Is("redirect", f)} = Scan(S, "redirects", r, {})
  BY ApplyIs DEF Scan, InList, MainList, Promise!Is
<1>3. \A found : Promise!TopRedirects(found) = TopRedirects(found)
  BY DEF Promise!TopRedirects, TopRedirects
<1>4. QED BY <1>1, <1>2, <1>3 DEF RedirectTo, Promise!RedirectTo

LEMMA CspList ==
  ASSUME NEW S \in FilterSets, data \in Built[S], NEW m, Faithful(m, data), NEW r \in Request
  PROVE  CspDirectives(Found(m, "csp", r, tags)) = Promise!CspDirectives(S, r, tags)
<1>1. Found(m, "csp", r, tags) = Scan(S, "csp", r, tags)
  <2>1. Found(m, "csp", r, tags) \subseteq Scan(S, "csp", r, tags)
    BY FoundExact
  <2>2. \A f \in Scan(S, "csp", r, tags) : f \in Found(m, "csp", r, tags)
    BY FoundExact
  <2>3. QED BY <2>1, <2>2
<1>2. {f \in Promise!Apply(S, r, tags) : Promise!Is("csp", f)} = Scan(S, "csp", r, tags)
  BY ApplyIs DEF Scan, InList, MainList, Promise!Is
<1> DEFINE found == Scan(S, "csp", r, tags)
<1>3. Promise!CspDirectives(S, r, tags) =
        LET off == {f.modifier : f \in {g \in found : "exception" \in g.mask}}
        IN  IF Null \in off THEN {}
            ELSE {f.modifier : f \in {g \in found : "exception" \notin g.mask}} \ (off \cup {Null})
  BY <1>2 DEF Promise!CspDirectives, Promise!Is
<1> HIDE DEF found
<1>4. CspDirectives(found) = Promise!CspDirectives(S, r, tags)
  BY <1>3 DEF CspDirectives
<1>5. QED BY <1>1, <1>4 DEF found

(***************************************************************************)
(* The answers.                                                            *)
(***************************************************************************)

\* check_parameterised (blocker.rs:171-300) asks its lists in an order, and
\* not all of them; what it answers does not depend on that.
LEMMA SameVerdicts ==
  ASSUME UniformTags, NEW S \in FilterSets, data \in Built[S], NEW m, Faithful(m, data),
         NEW r \in Request, NEW prev \in BOOLEAN, NEW force \in BOOLEAN
  PROVE  Verdicts(m, r, prev, force)
           = Promise!NetworkVerdicts(S, r, tags, resources, prev, force)
<1> DEFINE important == Found(m, "importants", r, {}) # {}
           blocked   == /\ ~important /\ ~prev
                        /\ Found(m, "tagged", r, tags) # {} \/ Found(m, "filters", r, {}) # {}
           filter    == important \/ blocked
           asked     == IF filter THEN ~important ELSE prev \/ force
           exception == asked /\ Found(m, "exceptions", r, tags) # {}
           removed   == IF important THEN {}
                        ELSE r.params \cap {f.modifier : f \in Found(m, "removeparam", r, {})}
           imp == Promise!Important(S, r)
           blk == Promise!Blocked(S, r, tags)
           exc == Promise!Excepted(S, r, tags)
<1>1. important <=> imp
  BY FoundSome, ImportantList DEF ListId
<1>2. Found(m, "tagged", r, tags) # {} \/ Found(m, "filters", r, {}) # {} <=> blk
  <2>1. Found(m, "tagged", r, tags) # {} <=> Scan(S, "tagged", r, tags) # {}
    BY FoundSome DEF ListId
  <2>2. Found(m, "filters", r, {}) # {} <=> Scan(S, "filters", r, {}) # {}
    BY FoundSome DEF ListId
  <2>3. QED BY <2>1, <2>2, BlockingLists
<1>3. Found(m, "exceptions", r, tags) # {} <=> exc
  BY FoundSome, ExceptionList DEF ListId
<1>4. removed = IF imp THEN {} ELSE Promise!RemovedParams(S, r)
  BY <1>1, RemovedList
<1>5. RedirectTo(Found(m, "redirects", r, {})) = Promise!RedirectTo(S, r, resources)
  BY RedirectList
<1>6. filter <=> (imp \/ (~prev /\ blk))
  BY <1>1, <1>2
<1>7. exception <=> (~imp /\ exc /\ (prev \/ blk \/ force))
  BY <1>1, <1>2, <1>3
<1>8. (~exception /\ (filter \/ prev)) <=> (imp \/ ((prev \/ blk) /\ ~exc))
  BY <1>6, <1>7
<1>9. /\ (~exception /\ (filter \/ prev)) = (imp \/ ((prev \/ blk) /\ ~exc))
      /\ important = imp
      /\ exception = (~imp /\ exc /\ (prev \/ blk \/ force))
      /\ filter = (imp \/ (~prev /\ blk))
  <2>1. important \in BOOLEAN /\ imp \in BOOLEAN
    BY DEF Promise!Important
  <2>2. exception \in BOOLEAN /\ filter \in BOOLEAN
    OBVIOUS
  <2> HIDE DEF important, filter, exception, imp, blk, exc
  <2>3. QED BY <2>1, <2>2, <1>1, <1>6, <1>7, <1>8
<1>10. Verdicts(m, r, prev, force) =
         {[matched |-> ~exception /\ (filter \/ prev), important |-> important,
           exception |-> exception, filter |-> filter, redirect |-> to, removed |-> removed] :
             to \in RedirectTo(Found(m, "redirects", r, {}))}
  BY DEF Verdicts
<1>11. Promise!NetworkVerdicts(S, r, tags, resources, prev, force) =
         {[matched |-> imp \/ ((prev \/ blk) /\ ~exc), important |-> imp,
           exception |-> ~imp /\ exc /\ (prev \/ blk \/ force),
           filter |-> imp \/ (~prev /\ blk), redirect |-> to,
           removed |-> IF imp THEN {} ELSE Promise!RemovedParams(S, r)] :
             to \in Promise!RedirectTo(S, r, resources)}
  BY DEF Promise!NetworkVerdicts
<1> HIDE DEF important, blocked, filter, asked, exception, removed, imp, blk, exc
<1>12. QED BY <1>4, <1>5, <1>9, <1>10, <1>11

LEMMA NetworkVerdictTyped ==
  ASSUME NEW S \in FilterSets, NEW r \in Request, NEW on, NEW loaded \in SUBSET Resource,
         NEW prev, NEW force,
         NEW v \in Promise!NetworkVerdicts(S, r, on, loaded, prev, force)
  PROVE  v \in Promise!Verdict
<1>1. PICK to \in Promise!RedirectTo(S, r, loaded) :
        v = [matched   |-> Promise!Important(S, r) \/ ((prev \/ Promise!Blocked(S, r, on))
                                                        /\ ~Promise!Excepted(S, r, on)),
             important |-> Promise!Important(S, r),
             exception |-> /\ ~Promise!Important(S, r) /\ Promise!Excepted(S, r, on)
                           /\ (prev \/ Promise!Blocked(S, r, on) \/ force),
             filter    |-> Promise!Important(S, r) \/ (~prev /\ Promise!Blocked(S, r, on)),
             redirect  |-> to,
             removed   |-> IF Promise!Important(S, r) THEN {} ELSE Promise!RemovedParams(S, r)]
  BY DEF Promise!NetworkVerdicts
<1>2. to \in Resource \cup {Null}
  BY DEF Promise!RedirectTo
<1>3. Promise!RemovedParams(S, r) \in SUBSET Modifier
  BY RequestAssumption DEF Promise!RemovedParams, RequestRecord
<1>4. QED BY <1>1, <1>2, <1>3 DEF Promise!Verdict, Promise!Important

(***************************************************************************)
(* The steps.                                                              *)
(***************************************************************************)

LEMMA BuiltRules == \A S \in FilterSets : \A d \in Built[S] : d.rules = S
BY Shape

\* What a question finds with the manager as it is when the question borrows it.
LEMMA BorrowFaithful == IInv => Faithful(Borrow, data)
BY BorrowGood DEF IInv, TypeOK, Good, Borrow

LEMMA RefinesInit == Init => Promise!Init
<1> SUFFICES ASSUME Init PROVE Promise!Init
  OBVIOUS
<1>1. data.rules \in FilterSets
  BY BuiltRules DEF Init
<1>2. saved[1] # "intact"
  BY DEF Init
<1>3. QED BY <1>1, <1>2 DEF Init, Promise!Init, NoAnswer, Promise!NoAnswer

LEMMA RefinesNetwork ==
  ASSUME UniformTags, IInv, NEW r \in Request, NEW prev \in BOOLEAN, NEW force \in BOOLEAN,
         CheckNetworkRequest(r, prev, force)
  PROVE  Promise!AskNetwork
<1>1. PICK S \in FilterSets : data \in Built[S] /\ data.rules = S
  BY BuiltRules DEF IInv, TypeOK, Flatbuffer
<1>2. UNCHANGED <<data, tags, resources, saved>>
  BY DEF CheckNetworkRequest, Asking
<1>3. PICK v \in (IF r.supported THEN Verdicts(Borrow, r, prev, force) ELSE {NothingDone}) :
        answer' = [about |-> "network", request |-> r, prev |-> prev, force |-> force, verdict |-> v]
  BY DEF CheckNetworkRequest
<1>4. v \in IF r.supported THEN Promise!NetworkVerdicts(data.rules, r, tags, resources, prev, force)
            ELSE {Promise!NothingDone}
  BY <1>1, <1>3, BorrowFaithful, SameVerdicts DEF NothingDone, Promise!NothingDone
<1>5. v \in Promise!Verdict
  <2>1. resources \in SUBSET Resource
    BY DEF IInv, TypeOK
  <2>2. Promise!NothingDone \in Promise!Verdict
    BY DEF Promise!NothingDone, Promise!Verdict
  <2>3. QED BY <1>1, <1>4, <2>1, <2>2, NetworkVerdictTyped
<1>6. answer' \in [about : {"network"}, request : Request, prev : BOOLEAN, force : BOOLEAN,
                  verdict : Promise!Verdict]
  BY <1>3, <1>5
<1>7. /\ answer'.verdict = v /\ answer'.request = r
      /\ answer'.prev = prev /\ answer'.force = force
  BY <1>3
<1>8. QED BY <1>2, <1>4, <1>6, <1>7 DEF Promise!AskNetwork

LEMMA RefinesGenericHide ==
  ASSUME UniformTags, IInv, NEW r \in Request, CheckGenericHide(r)
  PROVE  Promise!AskGenericHide
<1>1. PICK S \in FilterSets : data \in Built[S] /\ data.rules = S
  BY BuiltRules DEF IInv, TypeOK, Flatbuffer
<1>2. UNCHANGED <<data, tags, resources, saved>>
  BY DEF CheckGenericHide, Asking
<1> DEFINE v == Found(Borrow, "genericHide", r, {}) # {}
<1>3. v = Promise!GenericHide(data.rules, r)
  <2>1. v <=> Promise!GenericHide(data.rules, r)
    BY <1>1, BorrowFaithful, FoundSome, GenericHideList DEF ListId
  <2>2. QED BY <2>1 DEF Promise!GenericHide
<1>4. answer' = [about |-> "genericHide", request |-> r, verdict |-> v]
  BY DEF CheckGenericHide
<1>5. v \in BOOLEAN
  OBVIOUS
<1> HIDE DEF v
<1>6. QED BY <1>2, <1>3, <1>4, <1>5 DEF Promise!AskGenericHide

LEMMA RefinesCsp ==
  ASSUME IInv, NEW r \in Request, GetCspDirectives(r) \/ NoCspDirectives(r)
  PROVE  Promise!AskCsp
<1>1. PICK S \in FilterSets : data \in Built[S] /\ data.rules = S
  BY BuiltRules DEF IInv, TypeOK, Flatbuffer
<1>2. UNCHANGED <<data, tags, resources, saved>>
  BY DEF GetCspDirectives, NoCspDirectives, Asking
<1> DEFINE v == IF r.type \in {"document", "subdocument"}
                THEN Promise!CspDirectives(data.rules, r, tags) ELSE {}
<1>3. answer' = [about |-> "csp", request |-> r, verdict |-> v]
  <2>1. CASE GetCspDirectives(r)
    <3>1. CspDirectives(Found(Borrow, "csp", r, tags)) = Promise!CspDirectives(data.rules, r, tags)
      BY <1>1, BorrowFaithful, CspList
    <3>2. QED BY <2>1, <3>1 DEF GetCspDirectives
  <2>2. CASE NoCspDirectives(r)
    BY <2>2 DEF NoCspDirectives
  <2>3. QED BY <2>1, <2>2
<1>4. v \in SUBSET Modifier
  <2>1. \A f \in Promise!Apply(data.rules, r, tags) : f.modifier \in Modifier \cup {Null}
    BY <1>1, ApplyIs, LiveRules, FilterAssumption DEF FilterRecord
  <2>2. QED BY <2>1 DEF Promise!CspDirectives
<1> HIDE DEF v
<1>5. answer'.verdict = v /\ answer'.request = r
      /\ answer' \in [about : {"csp"}, request : Request, verdict : SUBSET Modifier]
  BY <1>3, <1>4
<1>6. QED BY <1>2, <1>5 DEF Promise!AskCsp, v

LEMMA RefinesStep ==
  ASSUME UniformTags, IInv, [Next]_vars
  PROVE  [Promise!Next]_(Promise!vars)
<1>1. /\ data.rules \in FilterSets
      /\ tags \subseteq Tag /\ resources \subseteq Resource
      /\ saved \in {<<"none">>, <<"damaged">>} \cup ({"intact"} \X Flatbuffer)
  BY BuiltRules DEF IInv, TypeOK, Flatbuffer
<1>2. NoAnswer = Promise!NoAnswer
  BY DEF NoAnswer, Promise!NoAnswer
<1>3. ASSUME NEW S \in FilterSets, FromFilterSet(S) PROVE Promise!NewEngine
  BY <1>2, <1>3, BuiltRules DEF FromFilterSet, Promise!NewEngine
<1>4. ASSUME SetTags PROVE Promise!SetTags
  BY <1>1, <1>2, <1>4
     DEF SetTags, UseTags, EnableTags, DisableTags, TagsWithSet, Promise!SetTags
<1>5. ASSUME NEW rs \in SUBSET Resource, UseResources(rs) PROVE Promise!SetResources
  BY <1>2, <1>5 DEF UseResources, Promise!SetResources
<1>6. ASSUME NEW r \in Request, Ask(r)
      PROVE  Promise!AskNetwork \/ Promise!AskGenericHide \/ Promise!AskCsp
  BY <1>6, RefinesNetwork, RefinesGenericHide, RefinesCsp DEF Ask
<1>7. ASSUME Manage PROVE UNCHANGED Promise!vars
  BY <1>7 DEF Manage, GetDebugInfo, SetRegexDiscardPolicy, DiscardRegex, Managed, Promise!vars
<1>8. ASSUME Serialize PROVE Promise!Save
  BY <1>2, <1>8 DEF Serialize, Promise!Save
<1>9. ASSUME DamageSaved PROVE Promise!Damage
  BY <1>1, <1>9 DEF DamageSaved, Promise!Damage
<1>10. ASSUME Deserialize PROVE Promise!Restore
  <2>1. CASE saved[1] = "intact"
    <3>1. data' = saved[2] /\ answer' = NoAnswer /\ UNCHANGED <<tags, resources, saved>>
      BY <1>10, <2>1 DEF Deserialize
    <3>2. QED BY <1>2, <2>1, <3>1 DEF Promise!Restore
  <2>2. CASE saved[1] = "damaged"
    BY <1>1, <1>2, <1>10, <2>2 DEF Deserialize, Promise!Restore
  <2>3. QED BY <1>10, <2>1, <2>2 DEF Deserialize
<1>11. ASSUME Tick PROVE UNCHANGED Promise!vars
  BY <1>11 DEF Tick, Promise!vars
<1>12. CASE UNCHANGED vars
  BY <1>12 DEF vars, Promise!vars
<1>13. QED
  BY <1>3, <1>4, <1>5, <1>6, <1>7, <1>8, <1>9, <1>10, <1>11, <1>12 DEF Next, Promise!Next

\* Filters optimized, bucketed by token, fused, and matched with regexes cached
\* from earlier requests decide every request as a scan of the rules would:
\* Blocker::check and what it calls implement Decisions, as long as fused
\* filters do not differ in their tags.
THEOREM DecisionsImplemented ==
  ASSUME UniformTags
  PROVE  Spec => ImplementsDecisions
<1>1. IInv /\ [Next]_vars => [Promise!Next]_(Promise!vars)
  BY RefinesStep
<1>2. QED BY RefinesInit, Invariant, <1>1, PTL DEF Spec, ImplementsDecisions, Promise!Spec
================================================================================
