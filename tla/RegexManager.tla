----------------------------- MODULE RegexManager -----------------------------
(***************************************************************************)
(* The store of compiled regexes (src/regex_manager.rs) as operators on    *)
(* its value.  A regex is kept under the key of the filter that uses it,   *)
(* is compiled when first needed, and is discarded when a cleanup finds    *)
(* it unused for long enough.  Usage counts are statistics and left out.   *)
(***************************************************************************)
EXTENDS Integers

CONSTANTS
  Key,             \* locations of filters in a flatbuffer
  Policy,          \* discard policies: [interval : Nat, unused : Nat]
  DefaultPolicy,
  Discarded        \* RegexEntry.regex = None

ASSUME PolicyAssumption == /\ Policy \subseteq [interval : Nat, unused : Nat]
                           /\ DefaultPolicy \in Policy

Managers(keys, regexes) == [map : [keys -> [regex : regexes, lastUsed : Nat]],
                            now : Nat, lastCleanup : Nat, policy : Policy]

NewManager(t) == [map |-> [k \in {} |-> Discarded], now |-> t, lastCleanup |-> t, policy |-> DefaultPolicy]

LiveKeys(m) == {k \in DOMAIN m.map : m.map[k].regex # Discarded}

Cleanup(m) ==
  [m EXCEPT !.map = [k \in DOMAIN m.map |->
     IF m.now - m.map[k].lastUsed >= m.policy.unused
     THEN [m.map[k] EXCEPT !.regex = Discarded] ELSE m.map[k]]]

\* Variants of UpdateTime: ages by the old clock; the next cleanup kept as the last.
UpdateTimeLate(m, t) ==
  IF m.policy.interval # 0 /\ t - m.lastCleanup >= m.policy.interval
  THEN [Cleanup(m) EXCEPT !.now = t, !.lastCleanup = t] ELSE [m EXCEPT !.now = t]
UpdateTimeAhead(m, t) ==
  IF m.policy.interval # 0 /\ t - m.lastCleanup >= m.policy.interval
  THEN [Cleanup([m EXCEPT !.now = t]) EXCEPT !.lastCleanup = t + m.policy.interval]
  ELSE [m EXCEPT !.now = t]

\* Every borrow of the manager reads the clock, and cleans up when it is time.
UpdateTime(m, t) ==
  LET moved == [m EXCEPT !.now = t]
  IN  IF m.policy.interval # 0 /\ t - m.lastCleanup >= m.policy.interval
      THEN Cleanup([moved EXCEPT !.lastCleanup = t])
      ELSE moved

\* The regex a match under key k runs: the live one, else the one given.
RegexFor(m, k, patterns) == IF k \in LiveKeys(m) THEN m.map[k].regex ELSE patterns

\* Matches were tried under these keys, giving these patterns.
Use(m, patternsOf) ==
  [m EXCEPT !.map = [k \in DOMAIN m.map \cup DOMAIN patternsOf |->
     IF k \in DOMAIN patternsOf
     THEN [regex |-> RegexFor(m, k, patternsOf[k]), lastUsed |-> m.now]
     ELSE m.map[k]]]

SetPolicy(m, p) == [m EXCEPT !.policy = p]

DiscardKey(m, key) ==
  [m EXCEPT !.map = [k \in DOMAIN m.map |->
     IF k = key THEN [m.map[k] EXCEPT !.regex = Discarded] ELSE m.map[k]]]
===============================================================================
