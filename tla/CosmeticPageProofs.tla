--------------------------- MODULE CosmeticPageProofs ---------------------------
(***************************************************************************)
(* A page's type invariant and SparedOnceTold, for any keys, engines and   *)
(* numbers of changes.  What the observer was told is what is published:   *)
(* published is set at the end of the page's one query and never again.    *)
(***************************************************************************)
EXTENDS CosmeticPage, TLAPS

\* TypeOK by the part of the system it is about.
BackgroundOK == engine \in Engine \cup {NoEngine} /\ swaps \in 0 .. MaxSwaps
                  /\ cosmeticEnabled \in BOOLEAN
QueryOK    == query \in Query /\ published \in {Unknown} \cup SUBSET Key
ObserverOK == /\ dom \subseteq Key /\ adds \in 0 .. MaxAdds /\ pending \subseteq dom
              /\ timer \in BOOLEAN
StylesOK   == batches \subseteq Batch /\ styles \subseteq Batch
OutcomeOK  == outcome \in [Key -> Outcome]

LEMMA TypeParts == TypeOK <=> BackgroundOK /\ QueryOK /\ ObserverOK /\ StylesOK /\ OutcomeOK
BY Zenon DEF TypeOK, BackgroundOK, QueryOK, ObserverOK, StylesOK, OutcomeOK

\* What the query's answer and what is published say of each other.
Answered == query.at = "answered" /\ ~query.null =>
              /\ query.resources.hide \cap query.resources.exceptions = {}
              /\ swaps = 0 => query.resources.exceptions = engine.excepted
Published == published # Unknown => /\ query.at = "done"
                                    /\ swaps = 0 => published = engine.excepted
ToldBatches == \A b \in batches : b.told => published # Unknown /\ b.exceptions = published
ToldStyles  == \A s \in styles : s.told => published # Unknown /\ s.keys \cap published = {}

Types == BackgroundOK /\ QueryOK /\ ObserverOK /\ StylesOK /\ OutcomeOK
Told  == Answered /\ Published /\ ToldBatches /\ ToldStyles
IInv  == Types /\ Told

LEMMA Initially == Init => IInv
<1> SUFFICES ASSUME Init PROVE IInv
  OBVIOUS
<1>1. BackgroundOK  BY BoundAssumption DEF Init, BackgroundOK
<1>2. QueryOK       BY DEF Init, QueryOK, Query
<1>3. ObserverOK
  <2>1. 0 \in 0 .. MaxAdds  BY BoundAssumption
  <2> QED  BY <2>1 DEF Init, ObserverOK
<1>4. StylesOK      BY DEF Init, StylesOK
<1>5. OutcomeOK     BY DEF Init, OutcomeOK, Outcome
<1>6. Told          BY DEF Init, Told, Answered, Published, ToldBatches, ToldStyles
<1> QED  BY <1>1, <1>2, <1>3, <1>4, <1>5, <1>6 DEF IInv, Types

-------------------------------------------------------------------------------
(* What each group of actions preserves. *)

LEMMA EngineFields ==
  ASSUME NEW e \in Engine
  PROVE  /\ e.generic \in SUBSET Key /\ e.specific \in SUBSET Key /\ e.excepted \in SUBSET Key
         /\ e.generichide \in BOOLEAN
BY EngineAssumption

\* What the background page does by itself.
LEMMA BackgroundKeeps ==
  ASSUME IInv, EngineReady \/ ToggleCosmetic PROVE IInv'
<1> USE DEF IInv, Types, Told
<1>1. UNCHANGED <<dom, adds, query, published, pending, timer, batches, styles, outcome>>
  BY DEF EngineReady, ToggleCosmetic, page
<1>2. QueryOK' /\ ObserverOK' /\ StylesOK' /\ OutcomeOK'
  BY <1>1 DEF QueryOK, ObserverOK, StylesOK, OutcomeOK
<1>3. ToldBatches' /\ ToldStyles'  BY <1>1 DEF ToldBatches, ToldStyles
<1>4. CASE EngineReady
  <2>1. engine' \in Engine /\ swaps' = swaps + 1 /\ swaps < MaxSwaps
        /\ cosmeticEnabled' = cosmeticEnabled
    BY <1>4 DEF EngineReady
  <2>2. swaps \in Nat /\ MaxSwaps \in Nat  BY BoundAssumption DEF BackgroundOK
  <2>3. swaps' # 0 /\ swaps' \in 0 .. MaxSwaps  BY <2>1, <2>2
  <2>4. BackgroundOK'  BY <2>1, <2>3 DEF BackgroundOK
  <2>5. Answered' /\ Published'  BY <1>1, <2>3 DEF Answered, Published
  <2> QED  BY <1>2, <1>3, <2>4, <2>5
<1>5. CASE ToggleCosmetic
  <2>1. engine' = engine /\ swaps' = swaps /\ cosmeticEnabled' \in BOOLEAN
    BY <1>5 DEF ToggleCosmetic, BackgroundOK
  <2>2. BackgroundOK'  BY <2>1 DEF BackgroundOK
  <2>3. Answered' /\ Published'  BY <1>1, <2>1 DEF Answered, Published
  <2> QED  BY <1>2, <1>3, <2>2, <2>3
<1> QED  BY <1>4, <1>5

\* The query on its way to its answer, which excepts what it does not hide.
LEMMA QueryKeeps ==
  ASSUME IInv, ReadOption \/ AnswerQuery \/ QueryFails PROVE IInv'
<1> USE DEF IInv, Types, Told
<1>1. UNCHANGED <<engine, swaps, cosmeticEnabled, dom, adds, published, pending, timer, batches,
                  styles, outcome>>
  BY DEF ReadOption, AnswerQuery, QueryFails
<1>2. BackgroundOK' /\ ObserverOK' /\ StylesOK' /\ OutcomeOK'
  BY <1>1 DEF BackgroundOK, ObserverOK, StylesOK, OutcomeOK
<1>3. ToldBatches' /\ ToldStyles'  BY <1>1 DEF ToldBatches, ToldStyles
<1>4. query.at \in {"reading", "waiting"}  BY DEF ReadOption, AnswerQuery, QueryFails
<1>5. published = Unknown /\ published' = Unknown  BY <1>1, <1>4 DEF Published
<1>6. Published'  BY <1>5 DEF Published
<1>7. query' \in Query /\ Answered'
  <2>1. CASE ReadOption
    <3>1. query' = [at |-> "waiting", enabled |-> cosmeticEnabled] /\ cosmeticEnabled \in BOOLEAN
      BY <2>1 DEF ReadOption, BackgroundOK
    <3> QED  BY <3>1 DEF Query, Answered
  <2>2. CASE QueryFails
    <3>1. query' = [at |-> "done"]  BY <2>2 DEF QueryFails
    <3> QED  BY <3>1 DEF Query, Answered
  <2>3. CASE AnswerQuery
    <3> DEFINE null == engine = NoEngine \/ ~query.enabled
               res == IF engine = NoEngine
                      THEN [hide |-> {}, exceptions |-> {}, generichide |-> FALSE]
                      ELSE UrlCosmeticResources(engine)
    <3>1. query' = [at |-> "answered", null |-> null, resources |-> res]
      BY <2>3, Zenon DEF AnswerQuery
    <3>2. /\ res \in Resources
          /\ engine # NoEngine => /\ res.hide \cap res.exceptions = {}
                                  /\ res.exceptions = engine.excepted
      <4>1. CASE engine = NoEngine  BY <4>1 DEF Resources
      <4>2. CASE engine # NoEngine
        <5>1. engine \in Engine  BY <4>2 DEF BackgroundOK
        <5> QED  BY <4>2, <5>1, EngineFields DEF Resources, UrlCosmeticResources
      <4> QED  BY <4>1, <4>2
    <3>3. null \in BOOLEAN /\ (~null => engine # NoEngine)  OBVIOUS
    <3> HIDE DEF null, res
    <3>4. query' \in Query  BY <3>1, <3>2, <3>3 DEF Query
    <3>5. query'.null = null /\ query'.resources = res  BY <3>1
    <3>6. Answered'  BY <1>1, <3>2, <3>3, <3>5 DEF Answered
    <3> QED  BY <3>4, <3>6
  <2> QED  BY <2>1, <2>2, <2>3
<1>8. QueryOK'  BY <1>1, <1>7 DEF QueryOK
<1> QED  BY <1>2, <1>3, <1>6, <1>7, <1>8

\* The page applies the answer: nothing was published or told before.
LEMMA ApplyKeeps ==
  ASSUME IInv, ApplyResources PROVE IInv'
<1> USE DEF IInv, Types, Told
<1>1. /\ query.at = "answered" /\ query' = [at |-> "done"]
      /\ UNCHANGED <<engine, swaps, cosmeticEnabled, dom, adds, pending, timer, batches, outcome>>
  BY DEF ApplyResources
<1>2. BackgroundOK' /\ ObserverOK' /\ OutcomeOK'
  BY <1>1 DEF BackgroundOK, ObserverOK, OutcomeOK
<1>3. query' \in Query /\ Answered'  BY <1>1 DEF Query, Answered
<1>4. published = Unknown  BY <1>1 DEF Published
<1>5. /\ \A b \in batches : ~b.told
      /\ \A s \in styles : ~s.told
  BY <1>4 DEF ToldBatches, ToldStyles
<1>6. ToldBatches'  BY <1>1, <1>5 DEF ToldBatches
<1>7. CASE query.null \/ query.resources.generichide
  <2>1. published' = published /\ styles' = styles  BY <1>7 DEF ApplyResources
  <2>2. QueryOK' /\ StylesOK'  BY <1>1, <1>3, <2>1 DEF QueryOK, StylesOK
  <2>3. Published' /\ ToldStyles'  BY <1>4, <1>5, <2>1 DEF Published, ToldStyles
  <2> QED  BY <1>2, <1>3, <1>6, <2>2, <2>3
<1>8. CASE ~(query.null \/ query.resources.generichide)
  <2> DEFINE batch == [keys |-> query.resources.hide, told |-> TRUE,
                       exceptions |-> query.resources.exceptions]
  <2>1. published' = query.resources.exceptions /\ styles' = styles \cup Injected(batch)
    BY <1>8 DEF ApplyResources
  <2>2. query.resources \in Resources  BY <1>1 DEF QueryOK, Query
  <2>3. /\ query.resources.hide \in SUBSET Key /\ query.resources.exceptions \in SUBSET Key
        /\ query.resources.hide \cap query.resources.exceptions = {}
        /\ swaps = 0 => query.resources.exceptions = engine.excepted
    BY <1>1, <1>8, <2>2 DEF Resources, Answered
  <2>4. batch \in Batch /\ batch.told /\ batch.keys = query.resources.hide
    BY <2>3 DEF Batch
  <2> HIDE DEF batch
  <2>5. Injected(batch) \subseteq {batch}  BY DEF Injected
  <2>6. StylesOK'  BY <1>1, <2>1, <2>4, <2>5 DEF StylesOK
  <2>7. QueryOK'  BY <1>3, <2>1, <2>3 DEF QueryOK
  <2>8. published' # Unknown  BY <2>1, <2>3, EngineAssumption
  <2>9. Published'  BY <1>1, <2>1, <2>3 DEF Published
  <2>10. \A s \in styles' : s = batch \/ ~s.told  BY <1>5, <2>1, <2>5
  <2>11. ToldStyles'  BY <2>1, <2>3, <2>4, <2>8, <2>10 DEF ToldStyles
  <2> QED  BY <1>2, <1>3, <1>6, <2>6, <2>7, <2>9, <2>11
<1> QED  BY <1>7, <1>8

\* The document changes.
LEMMA DocumentKeeps ==
  ASSUME IInv, DocumentLoaded \/ \E keys \in SUBSET Key : AddElements(keys) PROVE IInv'
<1> USE DEF IInv, Types, Told
<1>1. UNCHANGED <<engine, swaps, cosmeticEnabled, published, batches, styles>>
  BY DEF DocumentLoaded, AddElements
<1>2. BackgroundOK' /\ StylesOK' /\ ToldBatches' /\ ToldStyles'
  BY <1>1 DEF BackgroundOK, StylesOK, ToldBatches, ToldStyles
<1>3. CASE DocumentLoaded
  <2>1. /\ query.at = "unsent" /\ query' = [at |-> "reading"] /\ outcome' = outcome
        /\ dom' = dom /\ adds' = adds /\ pending' = dom /\ timer' = (dom # {})
    BY <1>3 DEF DocumentLoaded
  <2>2. timer' \in BOOLEAN  BY <2>1
  <2>3. ObserverOK' /\ OutcomeOK'  BY <2>1, <2>2 DEF ObserverOK, OutcomeOK
  <2>4. QueryOK' /\ Answered'  BY <1>1, <2>1 DEF QueryOK, Query, Answered
  <2>5. Published'  BY <1>1, <2>1 DEF Published
  <2> QED  BY <1>2, <2>3, <2>4, <2>5
<1>4. ASSUME NEW keys \in SUBSET Key, AddElements(keys) PROVE IInv'
  <2>1. /\ adds < MaxAdds /\ adds' = adds + 1 /\ dom' = dom \cup keys /\ query' = query
        /\ pending' = pending \/ pending' = pending \cup keys
    BY <1>4 DEF AddElements
  <2>2. adds' \in 0 .. MaxAdds  BY <2>1, BoundAssumption DEF ObserverOK
  <2>3. timer' \in BOOLEAN
    <3>1. CASE query.at = "unsent"  BY <1>4, <3>1, Zenon DEF AddElements, ObserverOK
    <3>2. CASE query.at # "unsent"
      <4>1. timer' = (timer \/ pending' # {})  BY <1>4, <3>2 DEF AddElements
      <4> QED  BY <4>1
    <3> QED  BY <3>1, <3>2
  <2>4. outcome' \in [Key -> Outcome]
    <3>1. CASE query.at = "unsent"  BY <1>4, <3>1, Zenon DEF AddElements, OutcomeOK
    <3>2. CASE query.at # "unsent"
      <4>1. outcome' = [k \in Key |-> IF k \in keys THEN "none" ELSE outcome[k]]
        BY <1>4, <3>2 DEF AddElements
      <4> QED  BY <4>1 DEF OutcomeOK, Outcome
    <3> QED  BY <3>1, <3>2
  <2>5. dom' \subseteq Key /\ pending' \subseteq dom'  BY <2>1 DEF ObserverOK
  <2>6. ObserverOK' /\ OutcomeOK'  BY <2>2, <2>3, <2>4, <2>5 DEF ObserverOK, OutcomeOK
  <2>7. QueryOK' /\ Answered' /\ Published'
    BY <1>1, <2>1 DEF QueryOK, Answered, Published
  <2> QED  BY <1>2, <2>6, <2>7
<1> QED  BY <1>3, <1>4

\* A batch is told when, and only when, the exceptions are published.
LEMMA FlushKeeps ==
  ASSUME IInv, FlushBatch PROVE IInv'
<1> USE DEF IInv, Types, Told
<1>1. /\ timer' = FALSE /\ pending' = {} /\ batches' = batches \cup {NextBatch}
      /\ UNCHANGED <<engine, swaps, cosmeticEnabled, dom, adds, query, published, styles, outcome>>
  BY DEF FlushBatch
<1>2. BackgroundOK' /\ QueryOK' /\ OutcomeOK' /\ Answered' /\ Published' /\ ToldStyles'
  BY <1>1 DEF BackgroundOK, QueryOK, OutcomeOK, Answered, Published, ToldStyles
<1>3. ObserverOK'  BY <1>1 DEF ObserverOK
<1>4. pending \subseteq Key  BY DEF ObserverOK
<1>5. /\ NextBatch \in Batch
      /\ NextBatch.told => published # Unknown /\ NextBatch.exceptions = published
  <2>1. CASE published = Unknown  BY <1>4, <2>1 DEF NextBatch, Batch
  <2>2. CASE published # Unknown
    <3>1. published \in SUBSET Key  BY <2>2 DEF QueryOK
    <3>2. NextBatch = [keys |-> pending, exceptions |-> published, told |-> TRUE]
      BY <2>2 DEF NextBatch
    <3> QED  BY <1>4, <2>2, <3>1, <3>2 DEF Batch
  <2> QED  BY <2>1, <2>2
<1>6. StylesOK'  BY <1>1, <1>5 DEF StylesOK
<1>7. ToldBatches'  BY <1>1, <1>5 DEF ToldBatches
<1> QED  BY <1>2, <1>3, <1>6, <1>7

\* An answered batch hides no more than it asked for, and nothing it excepts.
LEMMA BatchKeeps ==
  ASSUME IInv, NEW b \in batches, HideBatch(b) \/ BatchFails(b) PROVE IInv'
<1> USE DEF IInv, Types, Told
<1>1. /\ batches' = batches \ {b}
      /\ UNCHANGED <<engine, swaps, cosmeticEnabled, dom, adds, query, published, pending, timer>>
  BY DEF HideBatch, BatchFails
<1>2. BackgroundOK' /\ QueryOK' /\ ObserverOK' /\ Answered' /\ Published' /\ ToldBatches'
  BY <1>1 DEF BackgroundOK, QueryOK, ObserverOK, Answered, Published, ToldBatches
<1>3. b \in Batch  BY DEF StylesOK
<1>4. OutcomeOK'
  <2>1. \A k : Fate(b, k) \in Outcome  BY DEF Fate, Outcome
  <2>2. \/ outcome' = [k \in Key |-> IF k \in b.keys THEN Fate(b, k) ELSE outcome[k]]
        \/ outcome' = [k \in Key |-> IF k \in b.keys THEN "failed" ELSE outcome[k]]
    BY DEF HideBatch, BatchFails
  <2>3. "failed" \in Outcome  BY DEF Outcome
  <2> QED  BY <2>1, <2>2, <2>3 DEF OutcomeOK
<1>5. \E c \in Batch :
        /\ styles' \subseteq styles \cup {c} /\ c.told = b.told
        /\ c.keys \cap b.exceptions = {}
  <2> DEFINE keys == HiddenClassIdSelectors(engine, b.keys, b.exceptions)
             c == [b EXCEPT !.keys = keys]
  <2>1. keys \subseteq b.keys /\ keys \cap b.exceptions = {}  BY DEF HiddenClassIdSelectors
  <2>2. b.keys \in SUBSET Key /\ b.exceptions \in SUBSET Key /\ b.told \in BOOLEAN
    BY <1>3 DEF Batch
  <2>3. styles' = styles \/ styles' = styles \cup Injected(c)  BY DEF HideBatch, BatchFails
  <2> HIDE DEF keys
  <2>4. c \in Batch /\ c.told = b.told /\ c.keys = keys
    BY <1>3, <2>1, <2>2 DEF Batch
  <2> HIDE DEF c
  <2>5. styles' \subseteq styles \cup {c}  BY <2>3 DEF Injected
  <2> QED  BY <2>1, <2>4, <2>5
<1>6. StylesOK'  BY <1>1, <1>5 DEF StylesOK
<1>7. ToldStyles'
  <2>1. b.told => published # Unknown /\ b.exceptions = published  BY DEF ToldBatches
  <2>2. PICK c \in Batch : /\ styles' \subseteq styles \cup {c} /\ c.told = b.told
                           /\ c.keys \cap b.exceptions = {}
    BY <1>5
  <2> QED  BY <1>1, <2>1, <2>2 DEF ToldStyles
<1> QED  BY <1>2, <1>4, <1>6, <1>7

-------------------------------------------------------------------------------
(* The theorems. *)

LEMMA Inductive == IInv /\ [Next]_vars => IInv'
<1> SUFFICES ASSUME IInv, [Next]_vars PROVE IInv'
  OBVIOUS
<1>1. CASE UNCHANGED vars
  <2>1. UNCHANGED <<engine, swaps, cosmeticEnabled, dom, adds, query, published, pending, timer,
                    batches, styles, outcome>>
    BY <1>1 DEF vars, page
  <2>2. Types'
    BY <2>1 DEF IInv, Types, BackgroundOK, QueryOK, ObserverOK, StylesOK, OutcomeOK
  <2>3. Told'  BY <2>1 DEF IInv, Told, Answered, Published, ToldBatches, ToldStyles
  <2> QED  BY <2>2, <2>3 DEF IInv
<1>2. CASE Next
  BY <1>2, BackgroundKeeps, QueryKeeps, ApplyKeeps, DocumentKeeps, FlushKeeps, BatchKeeps DEF Next
<1> QED  BY <1>1, <1>2

LEMMA AlwaysIInv == Spec => []IInv
BY Initially, Inductive, PTL DEF Spec

\* Whatever comes in between the steps of the two scripts and the background
\* page, each variable keeps its type; what is pending is in the document
\* (cosmetic.js, cosmetic-observer.js).
THEOREM TypeCorrect == Spec => []TypeOK
<1>1. IInv => TypeOK  BY TypeParts DEF IInv, Types
<1> QED  BY <1>1, AlwaysIInv, PTL

\* Whatever the engines and however batches overlap, nothing injected after the
\* exceptions were published hides what they spare (cosmetic.js:31-38,
\* cosmetic-observer.js:44-70).
THEOREM AlwaysSpared == Spec => []SparedOnceTold
<1>1. IInv => SparedOnceTold  BY DEF IInv, Told, Published, ToldStyles, SparedOnceTold
<1> QED  BY <1>1, AlwaysIInv, PTL
================================================================================
