# Formal models of firefox-adblock-rust

The repository is a browser extension that blocks requests and hides elements by
filter lists. A background page (JavaScript) keeps an engine (Rust, compiled to
WebAssembly) that answers what to do with each request and page. This directory
holds TLA+ specifications of the parts that carry its logic, TLC configurations
that check them on small instances, and theorems checked by TLAPS.

Paths below are relative to the repository root; `src/*.rs` is the Rust crate.

## The system

| Component | State it keeps | Operations | Interacts with | Hard behaviour | What makes it correct |
|---|---|---|---|---|---|
| **Engine life cycle** (`extension/background/engine-manager.js`, `filter-lists.js`, `storage.js`, the message handlers of `background.js`, the editing part of `options/options.js`) | `customRules` and `filterLists` in `storage.local`; list texts and the serialized engine in IndexedDB; `engine`, `engineReady` in memory | `initialize`, `rebuildEngine`, `downloadAllEnabledLists`, `createRule`, `whitelistSite`, the list and rule editors, import, the 24h alarm | the engine (built, serialized, loaded), the list servers, pages by messages | handlers interleave at every `await`; the page can be ended at any of them; fetches and writes fail; a saved engine may be stale or of another format | the engine in force was compiled from the stored rules once nothing is left to do; the cache never smuggles old rules in; the engine gets ready |
| **Filtering engine** (`src/engine.rs`, `blocker.rs`, `network_filter_list.rs`, `optimizer.rs`, `filters/*`, `data_format`) | the flatbuffer of filters in lists and buckets, enabled tags, resources, cached regexes, clock of the last cleanup | build, `check_network_request`, generic hide and CSP questions, tags, resources, discard policy, `serialize`, `deserialize` | asked by the request listener and the cosmetic handlers | filters are only tried under one token; alike filters are fused; regexes are compiled lazily and cached by memory location; lists are asked in an order | each answer is what trying every rule in turn gives |
| **Filter texts** (`src/filters/network.rs`, `utils.rs`, `filters/network_matchers.rs`, `regex_manager.rs`) | none (pure) | parse a pattern, cut tokens, look for it in a URL | feeds the engine | index arithmetic at both ends of a text; anchors, stars and carets; when a word is sure to be a token | what is found does not depend on the short cuts; no filter is lost by its token |
| **Master switch** (`background.js`, `request-handler.js`, `popup/popup.js`, `options.js`) | `enabled` in storage and in memory; listeners; badge; counts per tab | `start`, toggles of two pages, the request listener, tab events | engine life cycle (`initialize`), pages by messages | a toggle races `start()`; two pages toggle; listeners are never removed | an extension that is on listens, and badge and counts are true |
| **Cosmetic filtering in the page** (`extension/content/cosmetic.js`, `cosmetic-observer.js`) | classes and ids not yet asked for, the injected styles | ask once for the page, then in batches | the engine by two messages | the engine may not be ready or be replaced between the two; a failed batch | what the rules hide is hidden eventually |
| **Cosmetic rules** (`src/filters/cosmetic.rs`, `cosmetic_filter_cache*.rs`, `cosmetic_filter_utils.rs`) | rules by hostname, generic rules by class and id, exceptions | resources of a page, selectors for classes and ids | engine | exceptions and generichide across two queries | the two queries agree with the rules |
| **Network filter options** (`src/filters/network.rs`, `abstract_network.rs`) | none | parse the options into a mask | engine | contradicting and repeated options, domains on both sides | a mask means what the options say |
| **Resource storage** (`src/resources/`) | resources by name and alias | add, look up, collect dependencies | redirects, scriptlets | cycles and permissions of dependencies | nothing beyond a filter's permission is injected |
| **Flat containers** (`src/flatbuffers/containers/`) | hash index and sorted arrays | build, look up | engine, cosmetic rules | full tables, duplicate keys, a table that grows while a value is handed out | they are maps |
| **Lists and their export** (`src/lists.rs`, `content_blocking.rs`) | the rules of a filter set | add lists and lines, read metadata, export to Safari | engine | lines of two kinds and two formats, cut-off heads, exceptions whose order is lost | the export decides like the rules it says it used |
| **Zapper and overlay** (`extension/content/zapper.js`, `tool-overlay.js`, `js/zapper-ui.js`) | the tool's state, the chosen element | start, pick, create rules, stop | messages between page, frame and background | started twice, stopped while loading | rules are created once for what was picked |
| Outside the scope | | | | | see *Not modelled* |

The parts meet in few places. Pages and content scripts talk to the background
page by messages; `background.js` is the only one that dispatches them. The
background page and the pages share `storage.local`, which nothing locks. The
engine is one object of module state, replaced as a whole by every rebuild and
by every cache load, and asked synchronously.

## Plan

1. `EngineManager`, its abstraction `RulesInForce`, proofs. **Done.**
2. `NetworkFilters`, `RegexManager`, `Engine`, their abstraction `Decisions`, proofs. **Done.**
3. `Protection`, proofs. **Done.**
4. `Patterns`, proofs. **Done.**
5. `CosmeticPage`, then `CosmeticRules` behind its two handlers, proofs. **Done.**
6. `NetworkOptions`, `FlatContainers`, `FilterSet`, as algorithms against reference
   definitions, proofs. **Done.**
7. `ResourceStorage`, proofs. **Done.**
8. Left: the zapper and its overlay.
9. Left: the composition of `Protection` and `EngineManager`: the alarm only exists
   in sessions that started enabled.

Abstract specifications: `RulesInForce` for the background page, `Decisions` for
the engine. The other parts are compared with what their rules say one by one
(`ResourcesAsWritten`, `AppliesAsWritten`, `ExportDecidesAsUsed`, ...).

## Modules

- `EngineManager` implements `RulesInForce`; `MCEngineManager`, `EngineManagerProofs`.
- `NetworkFilters` <- `RegexManager` <- `Engine`, which implements `Decisions`;
  `MCEngine`, `MCEngineTags`; `EngineProofs`.
- `Protection`; `ProtectionProofs`.
- `CosmeticPage`; `MCPage`, `CosmeticPageProofs`.
- `CosmeticRules`, `ResourceStorage`; `CosmeticProofs`.
- `Patterns`; `PatternsProofs`.
- `NetworkOptions` <- `OptionTexts` (a rule's text, written option by option) and
  `FilterSet` (lists of lines); `FilterSetProofs`.
- `FlatContainers`; `FlatContainersProofs`.
- `MCTexts` puts the last four groups in one specification: its variable `part` says
  which of them a behaviour is about. `MCCosmetics`, `MCPatterns` and `MCLists` hold
  their constants. A part that does not move stays in one of its states.

Operators commented *Variant ...* are mutations of the code that the properties
are shown to catch. No specification uses them.

### EngineManager

A handler in progress is a record in `task`: a program counter, and what it holds
in local variables (what it read, the lists still to do, the results so far).
JavaScript runs one continuation at a time, so an action is one storage, database
or network operation together with the code up to the next `await`. Storage
operations take effect in the order they are issued, so a continuation that only
uses what its own read returned belongs to that read's action.

- `initialize`: `LoadEngine`, then `UseCache`, `RejectCache` (deserialize throws,
  after `engine` was replaced by an empty one) or `BypassCache`.
- `downloadAllEnabledLists`: `GetLists`, `InitLists`, and per list
  `LoadList`/`LoadListFails`, `Fetch`/`FetchFails`, `SaveList`/`SaveListFails`,
  `Fallback`/`FallbackFails`. The alarm's forced pass (`force`) is followed by a pass
  over what it saved.
- the rest of `rebuildEngine`: `Build`, with a save that may fail.
- edits: `ReadRules`/`AppendRule` (createRule, whitelistSite), `SaveRules` and
  `Announce` (the rule editor), `RemoveRule` (whitelist), `ReadLists`/`WriteLists`,
  `ImportSettings`, `ClosePage`; `EditFails` when a read or write is rejected.
- `GiveUp`: what is outside every `try` of `initialize`, `rebuildEngine` and
  `getEnabledLists` is rejected, and the handler with it: `init()` and `loadEngine()`,
  the list selection's read and write, the reads of `customRules`, the compilation.
- `Publish` changes a list on its server; `Restart` ends the background page at any
  point, keeps storage and database, and may bring another data format.

`customRules` is the set of its lines. List texts are versions. `unannounced`
records that an options page changed the rules without a message to follow: the
whitelist's remove button, an import, and a page closed between write and message.
`addWhitelistBtn` writes unannounced and then sends whitelistSite, which are two
operations of the model. `whitelistSite` answers before it is done; only
`createRule` counts as acknowledged. The list order is fixed by `NextList`. A
failing save covers a crash before the put. `addFilters` of a list reports an error
after all its lines were added (`wasm/src/lib.rs:23-35`), so it takes nothing away.

Two things are remembered of what failed, for the properties only. `forsaken`: a
handler has given its rebuild up (or its `initialize`) and no engine has been installed
since; nothing in the code tries again before the next event or start, so the engine may
be missing, empty after a rejected cache, or behind the rules. `unread`, of a handler:
the lists it skipped because the catch clause's read failed too, which the code does
without a trace (`catch (_) {}`, `filter-lists.js:262`), although a text of them may be
stored and in the engine that is replaced. The properties except both by name:
`BecomesReady`, `RulesTakeEffect`, `EngineRulesCurrent` and the refinement a forsaken
page, `RebuildNeverRegresses` the unread lists, and nothing else. In particular a
rebuild that ends with an empty engine counts as one that loses every list.

### NetworkFilters, RegexManager, Engine, Decisions

A filter is a record of its flags, patterns, domains, modifier and tag; a request
the set of patterns found in its URL, its tokens, source domains and parameters.
`Engine` builds from a filter set every flatbuffer the builder may make: which
token a filter is filed under depends on usage counts and is a choice here, and
filters with the same criteria in a bucket are fused, the first line giving mask,
modifier and tag. Cached regexes are kept under *locations*; a new flatbuffer may
place other filters there. A call is one action: the regex manager is behind a
lock held for the whole check, and mutators take `&mut self`.

A check runs the lists in the order of `blocker.rs` and uses any subset of the
candidate regexes: which are really run depends on scan order and early exits.
`Decisions` keeps rules, tags, resources and the saved set, and answers every
question by trying all rules. It contains no list, bucket, fused filter or regex.

Assumed of a request: a URL has the token of every pattern found in it (`Patterns`
says when this is so), tokens do not collide, and it has an http or https scheme.
Not modelled: raw lines, usage counts, the 256-token limit. The wasm build never
runs a cleanup, so the cleanup behaviour is that of the native crate.
`deserialize` puts the discard policy back to the default, as the code does.

### Protection

`start()` reads `enabled` (`read` is what the storage held when it asked), assigns
it, adds a listener, waits for `initialize`, sets the badge. A toggle flips the
background's variable whatever the page shows. `initialize` takes a while and
leaves a ready engine; its inside is `EngineManager`. Each listener counts each
cancelled request. `cancelled` exists for the properties only. A message and its
reply are one action; a page has at most one toggle on its way.

### Patterns

`Parse` takes the text between the anchors apart as `NetworkFilter::parse` does;
`TextRuns`, `HostTokens` and `FilterTokens` are `get_tokens`; `Kept` is the
tokenizer; `Found` is `check_pattern`, with `Wildcards` for what compile_regex
makes of stars and carets: `Led` says where one sign leads to in a URL, `Ends` where
the whole text can end. A text is a sequence of letters, `.`, `/`, `*`, `^`.
`TokensSound` leaves out URLs that hold a star (`Starless`): the URL's tokenizer drops
the runs next to a star as the filter's does (`utils.rs:36-77`), while a caret may stand
for that star, so `^aa^` is found in a URL with `/*aa` and its token is not there.
Left out: texts between slashes (regexes of their own), two equal wildcards in a
row, protocol patterns, case, punycode, the `www.` prefix.

### CosmeticPage

One page, its two content scripts, and the two handlers that answer them over an
`engine` which is missing at first and replaced by rebuilds. `query` is the page's
one question (`cosmetic.js`): unsent, the option being read, waiting for an engine,
answered, done. `ReadOption` and `AnswerQuery` are the two halves of
`getCosmeticResources`, cut at its awaits; it may answer null after ten seconds.
`pending`, `timer` and `batches` are the observer's; `HideBatch` is
`getHiddenClassIdSelectors`, which neither waits nor reads an option, together with
what the page does with the answer. Both scripts hear DOMContentLoaded; they share
`window.__adblockRustExceptions` (`published`), which is set after the first answer
is applied and never on a generichide page: batches may go out before. A batch and a
style rule remember what the observer was told (`told`, `exceptions`). A key stands
for a class or id and the selector that goes with it; `Broken` keys make a style rule
void. `outcome` is for the properties.

Two definitions are checked by no run, as both are false. `HidesOnlyWhatIsSafe` is what
`cosmetic_filter_cache.rs:157` promises of the whole page: a batch sent before the answer
knows no exceptions. `NoGenericsIfGenerichide` is `cosmetic_filter_cache.rs:46-49`, "the
page should not query for additional generic rules" on a generichide page: the observer
is not told of generichide, asks there as well and hides by the answers. For that
reason `EveryKeyDecided` demands nothing of pages whose engine wants generichide.

### CosmeticRules

`Accepted` and `ParsedRule` are `CosmeticFilter::parse`, error by error. A name is a
sequence of labels, a selector what it starts with, its key and the rest: all that
`key_from_selector` tells apart. `AddFilter` files a rule in the tables of
`CosmeticFilterCacheBuilder`: classes and ids, simple or complex, the rest (`misc`),
and specific rules by name, negated for excluded names, with the hidden generic rule
of a rule that has nothing but exclusions. `HostnameCosmeticResources` and
`HiddenClassIdSelectors` are the two queries. `ResourcesAsWritten` states the first
from the rules alone, without a table. The feature css-validation is a parameter: which
selectors are procedural or invalid.

A complex selector is pushed into what `get_or_insert` returns, which is the slot of the
smaller table when its key has just made the table grow (`table_growth`). `GetOrInsert`
has this without the hashes: on a growth, the vector is that of any key of the table or
of none (`Null`), else that of the key; a table of four slots doubles with its third key,
its fifth, its ninth (`Grows`). So `ClassIdsAsWritten` does not claim that the second
query is exact. It says that the answers hold nothing but generic selectors that no rule
excepts on the host, that they are exactly those whose class or id was shown but for the
misplaced selectors, and that there are no more of these in a table than times it grew.

Three ways in which the code does something else than its words are in the model, and
the definitions under *Not so* name two of them, false and checked by no run:
- A selector that starts with a class or id and has no `key_from_selector` (`Dropped`,
  as in `##.\`) is filed nowhere. `cosmetic_filter_cache.rs:215-219` says that what the
  second query cannot handle the first one returns: `KeylessReturned`.
- `parse` asks of some refusals only whether there is a text before the sharp
  (`cosmetic.rs:379-381, 428-430, 446-448`), and a line with nothing but commas there has
  no location: `,#@#.ad`, `,##+js(x)` and actions behind a comma are accepted and filed
  as generic hiding rules (`Generic`): `OnlyHideRulesHide`.
- The misplaced selectors, which `SelectorsUnderTheirKey` in `FlatContainers` is about.

### ResourceStorage

`AddResource` fills the two maps. A page's query is a loop (`Begin`, then `Collect`,
`Skip`, `Fail` per dependency, then `Invoke`), since `get_scriptlet_resources` walks a
HashMap: `Begin` takes scriptlets in any order. `work` holds the names that
`recursive_dependencies` has yet to visit. `CanonicalDependencies` is what
`resources/mod.rs:146` asks of resource authors. A failed scriptlet leaves what it has
collected behind, hence the premise of `CompleteUnlessFailed`.
`CalledWithDependencies` states the comment at `resource_storage.rs:304` literally and
is kept as a definition only: a dependency that an earlier scriptlet left incomplete
is skipped, and the later one is called without the rest of its dependencies.

### NetworkOptions

`OptionError`, `InvalidTogether` and `RefusedAtEnd` are the refusals of
`parse_filter_options`, `validate_options` and `NetworkFilter::parse`; `Applied` folds
the options into a mask, `TypesOf` adds the types that are implied, `FilterId` is
`compute_filter_id`, `OpenTo` is `check_options` with the domain checks. The reference
(`TypeAsWritten`, `OptionAsWritten` in `OptionTexts`) looks at each option on its own. Two properties
say what they do not cover: a second `domain=` or `tag=` replaces the first.

### FilterSet

A list is a sequence of lines, each of the kind its first look gives it. `AddListLine`
is `add_filter` with `try_add` of the metadata, `ReadListMetadata` the reading of a
cut-off head. `Exported` is `into_content_blocking`; a network rule keeps the record it
parses to (`filter`) next to its raw text, since the export reads domains from the
text. `CbEquivalent` gives a rule's exported rules, each a `CbNetworkRule`: two for a
rule that is for documents among others. What Safari does with rules in order
(`SafariBlocks`) is external; `.*` is found in every URL.
`ExportDecidesAsUsed` says that it blocks exactly what the rules reported as used block
and no exception among them is for: the engine's decision but for `$important`, which
the export cannot express and which counts for nothing. Rules that `Clear` describes are
excluded: their trigger says less than their mask.

### FlatContainers

`FindSlot` is triangular probing; `MaybeIncreaseCapacity` the growth, in which `Rehash`
places key after key (`Placed`) in a new table; `Inserted` and `GotOrInserted` give the
slot that the caller writes to, which was found before the growth (its caller's view of
it is `GetOrInsert` in `CosmeticRules`). `Laid` is the stable
sort of the multimap's pairs, one `PutInOrder` after the other; `PartitionPoint` repeats
`Halved`, one turn of the binary search, and `RunFrom` is the iterator. `filed` is what
the calls asked for. The three loops are recursive functions of the number of turns. `PushedInPlace` holds for pushes without growth;
`SelectorsUnderTheirKey`, for all of them, is refuted by `table_growth`.

## Runs

| Run | Question | Result |
|---|---|---|
| `engine_rules` | Two handlers, one rule, two edits, imports or toggles, one restart and format change, any operation failing: are the rules in force the stored ones, the cache coherent, `RulesInForce` implemented? Under fairness, does the engine get ready and does each announced rule take effect, unless a rebuild was given up? | holds |
| `engine_lists` | Two lists, two text versions, four events, one handler at a time, any operation failing: can a rebuild take a list that it could read out of the engine or go back to an older text? | holds |
| `engine` | Filter sets of every role, requests, tags, resources, optimized or not, engines that reuse locations, saves, loads, damage, policies, the clock: are all answers those of a scan, cached regexes the right ones, forgotten in time? | holds |
| `protection` | Three toggles of two pages, one restart, tab events: does an extension that is on listen and get ready, are badge and counts true? | holds |
| `page` | Three keys, two changes of the document, an engine that is missing, and one that replaces it: is what exceptions spare left alone, does the query end, is each key decided where generic rules apply? | holds |
| `texts` | Part by part: are patterns found where they say and their tokens sound; do options mean what they say in any order; do both cosmetic queries say what the rules say, up to the selectors a growth misplaces; is a page's script complete, allowed and without doubles; does an export decide like its rules; are the containers maps? | holds |
| `update_now` | Is a list that *Update Now* answered for as new in the engine as on its server, as it reports? | violated: a list stored by the first session and published anew is taken from the store and not fetched |
| `create_rules` | Does a rule whose message was answered ok stay stored? | violated: two overlapping appends lose one |
| `tag_fusion` | Is what blocks a rule whose tag is enabled? | violated: fused filters keep the first tag |
| `disabled_off` | Does nothing get cancelled once the popup says *Protection disabled*? | violated: the listener stays |
| `token_miss` | Is a filter tried on every URL it is found in? | violated: the first word of `ads/x` is not a token of `/myads/x` |
| `table_growth` | Is a complex selector found under its class or id? | violated: the push after a growth goes to the slot of the smaller table |

The violated runs each refute a sentence of the repository; `findings` in
PROJECT.json quotes it.

**Bounds.** Two handlers are enough for every pairwise race of a read and a write,
and a restart is a third party: the session's own `initialize` is in progress beside the
two events of `engine_rules`, so that a rule is added while another edit takes it out and
a cache is loaded. Two lists show an iteration that fails between
two that do not. Two locations and two flatbuffers are what one reuse takes; a clock
of three ticks outlives the longest interval of the policies. `engine` has an action
constraint, `Scope`: one filter set of regexes is aged, managed, saved and reloaded
with a single request, tags and resources fixed; the other sets are asked every
question with all tags and resources, at one time. Filter sets of the two kinds do not
replace each other. Three toggles are off,
on and one that races. In `page`, two changes put one before and one after the query
and one new engine is a rebuild in any gap; of the three engines there are, one wants
generichide.
In `texts`: patterns have up to three pieces, so both anchors and a star between two
words; rules have up to three options, one to set, one to contradict, one to come
between; lists have four lines; five pushes of five keys make a table of four grow
twice; cosmetic rules are up to five of nineteen acceptable lines (fourteen more are
refused), in any order, against four hosts, three of them with complex selectors of
different classes, which is a growth; the storage is filled from eight resources with shared,
circular and privileged dependencies. Every bound (`MaxOps`, `MaxRestarts`,
`MaxVersion`, `MaxFormat`, `MaxTime`, `MaxToggles`, `MaxBlocked`, `MaxAdds`,
`MaxSwaps`, `MaxPieces`, `MaxOptions`, `MaxLines`, `MaxRules`, `MaxCalls`) is a constant in a guard or in the
set of inputs. The theorems hold for all of their values.

**Fairness.** `EngineManager` assumes that what a handler awaits completes, in
success or failure (weak fairness per handler): promises of storage, IndexedDB and
fetch settle and the event loop runs their continuations. It does not assume that any
of them succeeds; a handler that fails outside a `try` counts as completed, and
`BecomesReady` lets that be the end (`forsaken`). `Protection` assumes the
same of `start()` and of `initialize`. `CosmeticPage` assumes that a timer that was set
fires, that messages are answered or fail, and that their continuations run; it does
not assume that an engine ever comes. No event, click, message of the user or restart
is assumed to happen.

**Deadlock** is not checked where all events may be spent (`EngineManager`,
`CosmeticPage`, `MCTexts`); it is in `Engine` and `Protection`.

## Proofs

| Theorem | Says | Rests on |
|---|---|---|
| `EngineManagerProofs!TypeCorrect`, `RulesCurrent`, `CacheAlwaysCoherent` | types; rules in force are the stored ones; cache entries are what their snapshot says | `IInv` |
| `EngineManagerProofs!RulesRefinement` | `Spec => ImplementsRulesInForce` | `IInv` |
| `EngineManagerProofs!NeverRegresses`, `NeverRegressesAlone` | `RebuildNeverRegresses`, of the lists that could be read: while handlers run one at a time; and, with one slot and no import, of every behaviour | `FreshInv` |
| `EngineProofs!TypeCorrect`, `RegexesFaithful`, `RegexesExpire` | shape; a cached regex is its filter's; how long an unused one survives | `IInv` of the engine |
| `EngineProofs!DecisionsImplemented` | `UniformTags` implies that `Spec => ImplementsDecisions` | the same |
| `ProtectionProofs!TypeCorrect`, `AlwaysGuarded`, `BadgeAlwaysHonest`, `CountsOfTheirPage` | the four invariants | `IInv` of the switch |
| `CosmeticPageProofs!TypeCorrect`, `AlwaysSpared` | types; what published exceptions spare is not hidden | `IInv` of the page |
| `CosmeticProofs!TypeCorrect`, `AlwaysAsWritten`, `ClassIdsAlwaysAsWritten` | types; both queries say what the rules say, the second one but for one misplaced selector per growth | `IInv` of the tables |
| `CosmeticProofs!StorageTypeCorrect`, `AlwaysFound`, `NeverTwice`, `NeverBeyondPermission`, `AlwaysComplete` | types; names and aliases lead to their resource; a page's script has no doubles, nothing beyond permission, and nothing missing unless a scriptlet failed | `IInv` of the storage |
| `PatternsProofs!TypeCorrect` | types; a text is looked for with a regex when it has wildcards and only then | `PatternInv`, `ParseShaped` |
| `PatternsProofs!TokensAlwaysSound` | whichever of its sure tokens a filter is filed under, it is tried on every URL it is found in | `PatternInv`, `TextFramed`, `HostTokensSound` |
| `PatternsProofs!AlwaysFoundAsWritten` | what parse takes off a text, and looking for it without a regex, lose and add nothing | `PatternInv`, `PlainFound` |
| `FilterSetProofs!RuleAppliesAsWritten`, `OrderNeverMatters`, `BadfilterFindsItsTwin` | the three invariants of options, for texts of any length | lemmas on `Applied` |
| `FilterSetProofs!HeaderAlwaysAgrees` | the head of a list says what the whole list says, wherever it is cut | `HeadInv` |
| `FilterSetProofs!ExportAlwaysDecides` | an export decides like the rules it reports, for lists of any length | `FilterSetInv` |
| `FlatContainersProofs!TypeCorrect`, `ProbingAlwaysEnds`, `KeysAlwaysFound`, `PushesStayInPlace` | size and load of a table; `find_slot` ends; a table holds the keys filed; a push reaches its key unless the table grows | `Tables` |
| `FlatContainersProofs!RunsAlwaysFound` | a multimap yields the items of a key in order | `Tables`, `Runs` |

*Background page.* `EngineRulesCurrent` alone is not inductive: a cache load
installs an engine whose rules are only known through its snapshot, hence
`IInv == TypeOK /\ CacheCoherent /\ EngineRulesCurrent`. Every action is one of four
kinds (`Quiet`, `Edits`, `Applies`, `Loses`); one lemma per group of actions shows
the kind, and both the invariant and the refinement follow from the kinds. The type
invariant's `TaskOK` ties a handler's place to what it holds.

`RebuildNeverRegresses` needs to know that nothing older is under way. `FreshInv` orders
the places a text can be: the engine and the stored cache are not ahead of the list
store, the list store is not ahead of the servers, and a loop in progress works on the
stored selection and has gathered of each list what the list store holds, unless the list
is `unread`. It is preserved while
handlers run one at a time (`OneAtATime`) and an import waits for them (`ImportsAlone`):
the theorem has both as temporal hypotheses, as the page does nothing to ensure them
(the hazard at `engine-manager.js:72` is what happens without). With a single slot and
no import they hold of every behaviour, which is the second theorem and what
`engine_lists` checks.

*Engine.* `Good(manager, data, clock)` has three parts: `Timely` (clocks in order),
`Faithful` (a live regex at a filter's location is that filter's) and `Kept`, the
strengthening of `RetentionBound`: for policies bounded by `a` and `b`, the last
cleanup is less than `a.interval` ago and whatever is alive was used recently
enough before it. The refinement rests on three facts: `BucketReached` (a matching
filter is filed under a token of the request, or in the fallback bucket),
`FuseMatches` (a fused filter matches when one of its parts does), and `FoundExact`
(a list's result is that of a scan). `UniformTags` says that filters which may be
fused do not differ in their tags; without it the statement is false, which is the
`tag_fusion` finding. TLC evaluates it on the instances of `engine`.

*Switch.* `OnOff` (start, toggles, badge) and `Tabs` (counts) are preserved
separately. `GuardedWhenEnabled` needs the listener count to be a natural number,
`CountOfThisPage` that counts only come from cancelled requests (`Counted`).

*Page.* `SparedOnceTold` only speaks of style rules, which come from batches, which
come from what was published, which comes from an answer: `IInv` adds to the types a
conjunct for each of these (`Answered`, `Published`, `ToldBatches`, `ToldStyles`). What
makes it work is that the page asks once: `published` is set when the query is done and
never again, so what any told batch carries is still what is published.

*Cosmetic rules.* `GenericFiled` and `SpecificFiled` say of each table that it holds what
some accepted rule files there and nothing else; of complex selectors (`ComplexFiled`)
only that they are somewhere in their table, under the right key or another. `Bounded`
counts those under another: a push misplaces at most one selector, and only when the
table grows (`PushReaches`, `OneMorePushed`). `WellFormed` is what the refusals of
parse leave, and is needed because a generic procedural rule or a doubly negated exception
would be filed as something the rules do not say. `AddKeeps` shows that one more rule keeps
all of it. The rest (`TextsAre`, `ResourcesAre`, `HiddenAre`) is about the queries alone:
given such tables, they compute the sets of the two statements.

*Storage.* `Consistent` ties the two maps to each other; it gives `FoundUnderItsNames`.
For the rest, `work` holds no alias (else a resource could be collected under two
names), the injection in hand is neither to do nor done (so `Failed` is what it says),
and its own dependencies are collected or ahead (`CallMet`): when it is done and no
injection has failed, nothing is missing.

*Options.* `Applied` folds the options into a mask. The proof follows the fold:
`Reflects` says which bits the options so far account for, `ReflectsApplied` that one
more option keeps it, and `AppliedReflects` carries it to the last one. What a text sets
does not depend on the order in which it sets it, since no option sets what another one
clears (`SetNotCleared`) and a second value of the same option is refused or excluded by
name (`Determined`, `SwapAgrees`). Taking the badfilter out leaves every other bit, hence
the id, alone (`TwinAgrees`).

*Patterns.* The filter is always what parse made of some text (`PatternInv`); the rest is
about `Parse`, `Found` and the tokens. A wildcard text is followed stage by stage: `Stages`
are the sets of places that its first signs lead to, every place reached was come to from
one before it (`ComeFrom`), and a text that ends somewhere has missed no stage
(`NoneMissed`). So a run of letters in it stands in the URL, and since the signs next to
it are no letters, and no star unless the run is one that `get_tokens` leaves out, it is
framed there by no letters either (`RunReached`), which makes it one of the URL's tokens
(`FramedToken`). Texts without wildcards (`LiteralFramed`) and hostnames that stand with
full labels (`HostTokensSound`) do the same by their places. For `FoundAsWritten`, a
leading star leads from every place to every later one and a last star from every end to
every later one, so without them a text ends at some place exactly when it did before
(`Trimmed`); a text without wildcards leads to where it has stood (`LiteralEnds`). The
proof does not cover a star before an anchored end, for which the statement is false.

*Head of a list.* Each field is the one that the first line giving it gives (`First`). That
holds of the metadata collected line by line and of what the head's reader finds in any
text (`FirstFound`), as one more line keeps it (`TryAddFinds`). The first line that gives a
field in a cut-off head is the first one in the whole list, or the line that was cut.

*Export.* The domains and options of an accepted rule are those of its raw text
(`DomainsExported`, `OptionsExported`), for rules that are `Clear`; hence a request
triggers one of a rule's exported rules exactly when the rule concerns it
(`EquivalentMeans`). Ordering keeps the rules and puts those that ignore others last
(`OrderedHolds`, `IgnoresLast`), and of rules in such an order Safari blocks what some rule
blocks and none ignores (`SafariInOrder`). The rule appended for documents of the first
party is triggered by no request considered (`FpDocuments`).

*Containers.* A size that is a power of two has no odd factor (`NoOddFactor`). Were two
of the first `cap` triangular steps the same slot, `2 * cap` would divide the product of
an even and an odd number, both smaller and positive; so the steps differ
(`ProbesDiffer`), and as many different slots as there are slots are all of them
(`ProbesEverySlot`). `Tables` says that every stored key is where a look-up that begins at
its hash gets before it meets an empty slot (`Reached`), that exactly the keys filed are
stored, and that half of the slots are free. A key put where its look-up ends keeps
this for all the others (`PutIn`); growth begins with an empty table and places them one
by one (`RehashSound`). It says nothing of the vectors: that the one of a key that was
pushed to while the table grew is the right one is what `table_growth` refutes. For the
multimap, `Runs` says that the pairs laid out have for each key a run of its items;
`PutKeepsRuns` is the stable sort, `SearchFinds` the binary search, whose bounds narrow
by at least one in each turn, and `RunYielded` the iterator.

All theorems assume only the named assumptions on the constants (bounds are
naturals; null values are no members; filters, requests, lines, options, resources and
engines are shaped as the code makes them; letters are no signs, and what follows a host
in a URL does not begin with one; keys are numbers, and hashes too; policies have natural
durations; dependencies name no alias), which TLC evaluates on every run.

The folds and loops that these modules contain are recursive functions of a number of
turns. The library's induction theorems take an operator as a parameter and cannot be
used; what is needed of them is that a set of numbers has a least element, which the
well-founded induction theorems give without one. With it a recursive function is shown
to exist, unfolded (`ChainExists`, `ReadingExists`, `FlatteningExists`, `ReachingExists`,
`GrowingExists`, `LayingOutExists`, `HalvingExists`), and followed turn by turn
(`StepByStep`).

**Model-checked only**: the five liveness properties (`BecomesReady`, `RulesTakeEffect`,
`BecomesEffective`, `QueryEnds`, `EveryKeyDecided`), which need fairness and ENABLED. Every
invariant, every other action property and both refinements that the passing runs check
are theorems. The violated runs need no proof: their counterexamples are.

## Not modelled

- *Zapper and overlay*: what they do to a page stays there; their one message that
  changes stored state, createRule, is in `EngineManager`.
- *URL parser* (adapted third-party code): a URL is its host and path, a host its
  labels.
- *Pattern to regex*: what compile_regex and the export make of a pattern is modelled
  by what it finds; complete regexes, protocol patterns, case and punycode are left out.
- *Redirects, the text of scriptlets, removeparam's rewriting of URLs*: one look-up or a
  text substitution each.
- *Style rules and scripts* a page gets beside the hiding ones, and the tag "cosmetic".
- *FlatMap and FlatSet*: distinct keys, searched like the multimap's.
- *Chrome extension* (`chrome/`): the same code but for its rule toggles.
- *YouTube ad fix*: depends on a third party's page objects.
- *Bindings* (`wasm/`, `js/`), *flatbuffer code* (generated), *resource assembler* and
  *build scripts*: no state, or no logic of the program's own.

The hazards in PROJECT.json name, with their lines, what in the code is hard to
test, and the properties that watch over it; those without a property say why.
