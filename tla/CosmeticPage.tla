------------------------------ MODULE CosmeticPage ------------------------------
(***************************************************************************)
(* A page under cosmetic filtering: its two content scripts (cosmetic.js,  *)
(* cosmetic-observer.js) and the two handlers of the background page that  *)
(* answer them (background.js), over an engine that is not there at first  *)
(* and is replaced by rebuilds.                                            *)
(*                                                                         *)
(* A key stands for a class or an id, and for the selector that hides the  *)
(* elements that bear it.  Each script's own steps run to its next await;  *)
(* handlers, messages and steps of the other script come in between.       *)
(***************************************************************************)
EXTENDS Naturals, FiniteSets

CONSTANTS
  Key,
  Broken,     \* those whose selector the browser refuses
  Engine,     \* [generic, specific, excepted : SUBSET Key, generichide : BOOLEAN]
  NoEngine,   \* engineReady is false
  Unknown,    \* window.__adblockRustExceptions is not set
  MaxAdds,    \* bounds the changes of the document
  MaxSwaps    \* bounds the engines that come into force

VARIABLES
  engine, swaps, cosmeticEnabled,
  dom, adds,        \* the keys of the document, and its changes so far
  query,            \* where the page's one query is: [at, ...]
  published,        \* the exceptions the observer can read
  pending, timer,   \* the keys to ask for, and whether a batch is scheduled
  batches,          \* those on their way: [keys, exceptions, told]
  styles,           \* the rules injected: [keys, exceptions, told]
  outcome           \* what became of each key (for the properties)

page == <<dom, adds, query, published, pending, timer, batches, styles, outcome>>
vars == <<engine, swaps, cosmeticEnabled, page>>

Outcome == {"none", "hidden", "spared", "notReady", "failed", "broken"}
Batch   == [keys : SUBSET Key, exceptions : SUBSET Key, told : BOOLEAN]
Resources == [hide : SUBSET Key, exceptions : SUBSET Key, generichide : BOOLEAN]
Query   == [at : {"unsent", "reading", "done"}] \cup [at : {"waiting"}, enabled : BOOLEAN]
             \cup [at : {"answered"}, null : BOOLEAN, resources : Resources]

ASSUME EngineAssumption ==
  /\ Engine \subseteq [generic : SUBSET Key, specific : SUBSET Key, excepted : SUBSET Key,
                       generichide : BOOLEAN]
  /\ NoEngine \notin Engine /\ (\A S \in SUBSET Key : Unknown # S) /\ Broken \subseteq Key
ASSUME BoundAssumption == MaxAdds \in Nat /\ MaxSwaps \in Nat

-----------------------------------------------------------------------------
(* The background page.                                                    *)

\* The first engine, or a rebuilt one.  Ready never goes back to false.
EngineReady ==
  /\ swaps < MaxSwaps /\ swaps' = swaps + 1
  /\ engine' \in Engine
  /\ UNCHANGED <<cosmeticEnabled, page>>

\* The options page.
ToggleCosmetic ==
  /\ cosmeticEnabled' = ~cosmeticEnabled
  /\ UNCHANGED <<engine, swaps, page>>

\* Variant: an answer without the exceptions.
UrlCosmeticResourcesBare(e) == [hide |-> e.specific \ e.excepted, generichide |-> e.generichide]

\* urlCosmeticResources and hiddenClassIdSelectors.
UrlCosmeticResources(e) ==
  [hide |-> e.specific \ e.excepted, exceptions |-> e.excepted, generichide |-> e.generichide]
HiddenClassIdSelectors(e, keys, exceptions) == (keys \cap e.generic) \ exceptions

\* Variant: no deadline.
AnswerQueryWhenReady ==
  /\ query.at = "waiting" /\ engine # NoEngine
  /\ query' = [at |-> "answered", null |-> ~query.enabled,
               resources |-> UrlCosmeticResources(engine)]
  /\ UNCHANGED <<engine, swaps, cosmeticEnabled, dom, adds, published, pending, timer, batches,
                 styles, outcome>>

\* getCosmeticResources reads the option first ...
ReadOption ==
  /\ query.at = "reading"
  /\ query' = [at |-> "waiting", enabled |-> cosmeticEnabled]
  /\ UNCHANGED <<engine, swaps, cosmeticEnabled, dom, adds, published, pending, timer, batches,
                 styles, outcome>>

\* ... and waits for an engine, for ten seconds at most: it may give up.
AnswerQuery ==
  /\ query.at = "waiting"
  /\ query' = [at |-> "answered", null |-> engine = NoEngine \/ ~query.enabled,
               resources |-> IF engine = NoEngine
                             THEN [hide |-> {}, exceptions |-> {}, generichide |-> FALSE]
                             ELSE UrlCosmeticResources(engine)]
  /\ UNCHANGED <<engine, swaps, cosmeticEnabled, dom, adds, published, pending, timer, batches,
                 styles, outcome>>

-----------------------------------------------------------------------------
(* The document and the first script.                                      *)

\* DOMContentLoaded, heard by both scripts.
DocumentLoaded ==
  /\ query.at = "unsent"
  /\ query' = [at |-> "reading"]
  /\ pending' = dom /\ timer' = (dom # {})
  /\ UNCHANGED <<engine, swaps, cosmeticEnabled, dom, adds, published, batches, styles, outcome>>

\* The parser before, scripts after: the observer sees added nodes only.
AddElements(keys) ==
  /\ adds < MaxAdds /\ adds' = adds + 1
  /\ dom' = dom \cup keys
  /\ IF query.at = "unsent" THEN UNCHANGED <<pending, timer, outcome>>
     ELSE /\ pending' = pending \cup keys /\ timer' = (timer \/ pending' # {})
          /\ outcome' = [k \in Key |-> IF k \in keys THEN "none" ELSE outcome[k]]
  /\ UNCHANGED <<engine, swaps, cosmeticEnabled, query, published, batches, styles>>

\* One style rule for all selectors: an invalid one makes the rule void.
Injected(batch) == IF batch.keys = {} THEN {} ELSE {batch}

\* Variant: the exceptions are published before they are read.
ApplyResourcesEarly ==
  /\ query.at = "answered"
  /\ query' = [at |-> "done"]
  /\ IF query.null \/ query.resources.generichide THEN UNCHANGED <<published, styles>>
     ELSE /\ styles' = styles \cup Injected([keys |-> query.resources.hide, told |-> TRUE,
                                             exceptions |-> query.resources.exceptions])
          /\ published' = {}
  /\ UNCHANGED <<engine, swaps, cosmeticEnabled, dom, adds, pending, timer, batches, outcome>>

\* The exceptions are published last, and on a generichide page never.
ApplyResources ==
  /\ query.at = "answered"
  /\ query' = [at |-> "done"]
  /\ IF query.null \/ query.resources.generichide THEN UNCHANGED <<published, styles>>
     ELSE /\ styles' = styles \cup Injected([keys |-> query.resources.hide, told |-> TRUE,
                                             exceptions |-> query.resources.exceptions])
          /\ published' = query.resources.exceptions
  /\ UNCHANGED <<engine, swaps, cosmeticEnabled, dom, adds, pending, timer, batches, outcome>>

\* The message is lost with the extension's context.
QueryFails ==
  /\ query.at \in {"reading", "waiting"}
  /\ query' = [at |-> "done"]
  /\ UNCHANGED <<engine, swaps, cosmeticEnabled, dom, adds, published, pending, timer, batches,
                 styles, outcome>>

-----------------------------------------------------------------------------
(* The observer.                                                           *)

\* What flushBatch sends.
NextBatch == [keys |-> pending, exceptions |-> IF published = Unknown THEN {} ELSE published,
              told |-> published # Unknown]

FlushBatch ==
  /\ timer
  /\ timer' = FALSE /\ pending' = {}
  /\ batches' = batches \cup {NextBatch}
  /\ UNCHANGED <<engine, swaps, cosmeticEnabled, dom, adds, query, published, styles, outcome>>

Fate(b, k) ==
  LET hidden == HiddenClassIdSelectors(engine, b.keys, b.exceptions)
  IN  IF engine = NoEngine THEN "notReady"
      ELSE IF k \notin hidden THEN "spared"
      ELSE IF hidden \cap Broken # {} THEN "broken" ELSE "hidden"

\* Variant: the batch is only cleared when its answer has come.
HideBatchAndClear(b) ==
  /\ b \in batches /\ batches' = batches \ {b}
  /\ styles' = IF engine = NoEngine THEN styles
               ELSE styles \cup Injected([b EXCEPT !.keys =
                                            HiddenClassIdSelectors(engine, b.keys, b.exceptions)])
  /\ outcome' = [k \in Key |-> IF k \in b.keys THEN Fate(b, k) ELSE outcome[k]]
  /\ pending' = {}
  /\ UNCHANGED <<engine, swaps, cosmeticEnabled, dom, adds, query, published, timer>>

\* getHiddenClassIdSelectors, which neither waits nor looks at the option, and
\* what the page does with its answer.
HideBatch(b) ==
  /\ b \in batches /\ batches' = batches \ {b}
  /\ styles' = IF engine = NoEngine THEN styles
               ELSE styles \cup Injected([b EXCEPT !.keys =
                                            HiddenClassIdSelectors(engine, b.keys, b.exceptions)])
  /\ outcome' = [k \in Key |-> IF k \in b.keys THEN Fate(b, k) ELSE outcome[k]]
  /\ UNCHANGED <<engine, swaps, cosmeticEnabled, dom, adds, query, published, pending, timer>>

\* A batch whose message fails is not asked again.
BatchFails(b) ==
  /\ b \in batches /\ batches' = batches \ {b}
  /\ outcome' = [k \in Key |-> IF k \in b.keys THEN "failed" ELSE outcome[k]]
  /\ UNCHANGED <<engine, swaps, cosmeticEnabled, dom, adds, query, published, pending, timer,
                 styles>>

-----------------------------------------------------------------------------
Init ==
  /\ engine \in Engine \cup {NoEngine} /\ swaps = 0 /\ cosmeticEnabled \in BOOLEAN
  /\ dom = {} /\ adds = 0 /\ query = [at |-> "unsent"] /\ published = Unknown
  /\ pending = {} /\ timer = FALSE /\ batches = {} /\ styles = {}
  /\ outcome = [k \in Key |-> "none"]

Next ==
  \/ EngineReady \/ ToggleCosmetic
  \/ ReadOption \/ AnswerQuery \/ ApplyResources \/ QueryFails
  \/ DocumentLoaded \/ \E keys \in SUBSET Key : AddElements(keys)
  \/ FlushBatch \/ \E b \in batches : HideBatch(b) \/ BatchFails(b)

\* Timers fire, messages are delivered or fail, continuations run.
Fairness ==
  /\ WF_vars(ReadOption) /\ WF_vars(AnswerQuery) /\ WF_vars(ApplyResources)
  /\ WF_vars(FlushBatch) /\ WF_vars(\E b \in batches : HideBatch(b))

Spec     == Init /\ [][Next]_vars
FairSpec == Spec /\ Fairness

TypeOK ==
  /\ engine \in Engine \cup {NoEngine} /\ swaps \in 0 .. MaxSwaps /\ cosmeticEnabled \in BOOLEAN
  /\ dom \subseteq Key /\ adds \in 0 .. MaxAdds
  /\ query \in Query /\ published \in {Unknown} \cup SUBSET Key
  /\ pending \subseteq dom /\ timer \in BOOLEAN
  /\ batches \subseteq Batch /\ styles \subseteq Batch /\ outcome \in [Key -> Outcome]

-----------------------------------------------------------------------------
(* Properties.                                                             *)

\* The engine in force has a $generichide exception for the page.
Generichide == engine # NoEngine /\ engine.generichide

\* Batches sent once the page's exceptions are published never hide what they
\* except, whatever was pending before and whatever engine answers; and what is
\* published is what the rules in force except, unless a rebuild came in between
\* (two scripts that share one variable of the window).
SparedOnceTold ==
  published # Unknown =>
    /\ \A s \in styles : s.told => s.keys \cap published = {}
    /\ swaps = 0 => published = engine.excepted

\* The page's query ends, with or without an engine (the deadline of
\* waitForReady): what waits for it does not wait forever.
QueryEnds == query.at = "reading" ~> query.at = "done"

\* On a page that generic rules are for, each class and id shown to the observer
\* is asked for and its answer applied, or lost in one of three ways: no engine
\* yet, a failed message, a style rule that another selector made void.  None is
\* forgotten between two batches.
EveryKeyDecided ==
  \A k \in Key : k \in dom /\ query.at # "unsent" ~> outcome[k] # "none" \/ Generichide

\* cosmetic_filter_cache.rs:46-49, "If so, the page should not query for
\* additional generic rules using hidden_class_id_selectors": false, the observer
\* is not told and asks for them, and hides by them, on generichide pages as well.
NoGenericsIfGenerichide ==
  swaps = 0 /\ Generichide => \A s \in styles : s.keys \cap engine.generic = {}

\* cosmetic_filter_cache.rs:157-159, "It guarantees that it will be safe to hide
\* those elements on a particular page by taking into account the page's
\* hostname-specific set of exception rules": while one engine is in force,
\* nothing its exceptions spare is hidden.
HidesOnlyWhatIsSafe ==
  swaps = 0 /\ engine # NoEngine => \A s \in styles : s.keys \cap engine.excepted = {}
================================================================================
