---------------------------- MODULE EngineManager ----------------------------
(***************************************************************************)
(* The background page's engine life cycle: initialize, rebuildEngine,     *)
(* the list downloader, the 24h alarm and the handlers that edit the       *)
(* user's rules and list selection (extension/background/*.js and          *)
(* options/options.js; the chrome/ copies are the same code).              *)
(*                                                                         *)
(* JavaScript runs one continuation at a time, so an action is one storage *)
(* or network operation together with the code up to the next await.       *)
(* Storage operations take effect in the order in which they are issued,   *)
(* hence a continuation that only uses what its own read returned is part  *)
(* of that read's action.  A handler in progress is an entry of "task".    *)
(***************************************************************************)
EXTENDS Naturals, FiniteSets

CONSTANTS
  List,          \* ids of the known filter lists
  DefaultLists,  \* the ones enabled by DEFAULT_LISTS
  Rule,          \* lines of the customRules text
  Task,          \* slots for handlers in progress: bounds concurrency
  MaxVersion,    \* bounds how often a list's server text changes
  MaxFormat,     \* bounds the extension upgrades that change the data format
  MaxOps,        \* bounds the user and alarm events of a behaviour
  MaxRestarts,   \* bounds the background restarts
  Ops,           \* the kinds of events considered
  Null           \* JavaScript's null / undefined

OpKind == {"createRule", "saveRules", "removeRule", "editLists", "updateNow",
           "importSettings", "toggleOn", "alarm"}

ASSUME ListAssumption    == DefaultLists \subseteq List
ASSUME BoundAssumption   == /\ MaxVersion \in Nat \ {0}
                            /\ MaxFormat \in Nat /\ MaxOps \in Nat /\ MaxRestarts \in Nat
ASSUME OpsAssumption     == Ops \subseteq OpKind
ASSUME NullAssumption    == \A lists \in SUBSET List : Null # lists

VARIABLES
  \* browser.storage.local
  customRules,   \* the set of lines of customRules
  filterLists,   \* the enabled lists, or Null before the first getEnabledLists
  \* IndexedDB
  listData,      \* store "filter-lists": the text version per list, 0 = absent
  stored,        \* store "engine": what saveEngine last wrote, or Null
  \* module state of engine-manager.js, lost on a restart
  engine,
  engineReady,
  alarmSet,      \* setupPeriodicUpdate has run
  forsaken,      \* a handler gave its rebuild up, and no engine has been installed since
  task,
  \* the world outside
  server,        \* current text version of each list on its server
  format,        \* data format version of the running build
  button,        \* options page: what "Update Now" was promised, or Null
  unannounced,   \* an options page has changed customRules and will send no message
  acked,         \* rules whose createRule was answered ok
  ops, restarts

storage  == <<customRules, filterLists>>
idb      == <<listData, stored>>
manager  == <<engine, engineReady, alarmSet, forsaken>>
world    == <<server, format>>
page     == <<button, unannounced, acked>>
budget   == <<ops, restarts>>
vars == <<storage, idb, manager, task, world, page, budget>>

Version == 0 .. MaxVersion
NoTexts == [l \in List |-> 0]

\* What an engine blocks, as far as it matters here: the text versions and
\* the custom rules it was compiled from.
Engine      == [lists : [List -> Version], rules : SUBSET Rule]
EmptyEngine == [lists |-> NoTexts, rules |-> {}]
CacheEntry  == [engine : Engine, snapshot : SUBSET Rule, format : 0 .. MaxFormat]

RebuildPC == {"announce", "getLists", "initLists", "loadList", "fetch", "saveList", "fallback", "build"}
PC == RebuildPC \cup {"idle", "loadEngine", "validate", "readRules", "writeRules",
                      "readLists", "writeLists"}

TaskState == [pc     : PC,
              op     : OpKind \cup {"start", "none"},
              arg    : SUBSET Rule,                   \* the lines to add or take out
              edit   : SUBSET List,                   \* the list to switch, add or remove
              rules  : SUBSET Rule,                   \* customRules as it was read
              lists  : (SUBSET List) \cup {Null},       \* filterLists as it was read
              cached : CacheEntry \cup {Null},
              force  : BOOLEAN,                       \* forceRefresh
              todo   : SUBSET List,
              text   : Version,                       \* a download not yet saved
              got    : [List -> Version],             \* the results array
              unread : SUBSET List]                   \* lists skipped, the fallback's read failing

IdleTask == [pc |-> "idle", op |-> "none", arg |-> {}, edit |-> {}, rules |-> {},
             lists |-> {}, cached |-> Null, force |-> FALSE, todo |-> {}, text |-> 0, got |-> NoTexts,
             unread |-> {}]

NewTask(op, pc, arg, edit) ==
  [IdleTask EXCEPT !.pc = pc, !.op = op, !.arg = arg, !.edit = edit, !.force = (op = "alarm")]

\* A list edit starts from a page that shows the lists, a fast path from a
\* cache entry, an iteration of the download loop from a list.
TaskOK(r, current) ==
  /\ r.pc = "validate" => r.cached # Null
  /\ r.pc = "readLists" => current # Null
  /\ r.pc = "writeLists" => r.lists # Null
  /\ r.pc \in {"loadList", "fetch", "saveList", "fallback"} => r.todo # {}

TypeOK ==
  /\ customRules \in SUBSET Rule
  /\ filterLists \in (SUBSET List) \cup {Null}
  /\ listData \in [List -> Version]
  /\ stored \in CacheEntry \cup {Null}
  /\ engine \in Engine \cup {Null}
  /\ engineReady \in BOOLEAN
  /\ alarmSet \in BOOLEAN
  /\ forsaken \in BOOLEAN
  /\ task \in [Task -> TaskState]
  /\ \A t \in Task : TaskOK(task[t], filterLists)
  /\ server \in [List -> Version]
  /\ format \in 0 .. MaxFormat
  /\ button \in [List -> Version] \cup {Null}
  /\ unannounced \in BOOLEAN
  /\ acked \in SUBSET Rule
  /\ ops \in Nat
  /\ restarts \in Nat

\* A new session: start() has read enabled # false and called initialize().
Session(tsk) == \E t \in Task :
  tsk = [u \in Task |-> IF u = t THEN NewTask("start", "loadEngine", {}, {}) ELSE IdleTask]

Init ==
  /\ customRules = {} /\ filterLists = Null
  /\ listData = NoTexts /\ stored = Null
  /\ engine = Null /\ engineReady = FALSE /\ alarmSet = FALSE /\ forsaken = FALSE
  /\ Session(task)
  /\ server = [l \in List |-> 1] /\ format = 0
  /\ button = Null /\ unannounced = FALSE /\ acked = {}
  /\ ops = 0 /\ restarts = 0

-----------------------------------------------------------------------------
(* Control flow of one handler.                                            *)

Goto(t, pc)  == task' = [task EXCEPT ![t].pc = pc]
Become(t, r) == task' = [task EXCEPT ![t] = r]

\* The list loop of downloadAllEnabledLists: the stored array fixes the order.
NextList(r) == CHOOSE l \in r.todo : TRUE

\* Variant: one iteration too many.
LoopOnceMore(r) ==
  IF r.todo # {} \/ r.got = NoTexts THEN [r EXCEPT !.pc = IF r.force THEN "fetch" ELSE "loadList"]
  ELSE IF r.force THEN [r EXCEPT !.pc = "getLists", !.force = FALSE, !.got = NoTexts, !.unread = {}]
  ELSE [r EXCEPT !.pc = "build"]

\* Where the loop goes next.  The alarm handler drops the results of its
\* forced pass and calls rebuildEngine, which runs the loop again.
Loop(r) ==
  IF r.todo # {} THEN [r EXCEPT !.pc = IF r.force THEN "fetch" ELSE "loadList"]
  ELSE IF r.force THEN [r EXCEPT !.pc = "getLists", !.force = FALSE, !.got = NoTexts, !.unread = {}]
  ELSE [r EXCEPT !.pc = "build"]

\* The iteration for list l ends with text version v pushed (0: nothing is).
Push(r, l, v) == Loop([r EXCEPT !.todo = @ \ {l}, !.text = 0, !.got[l] = v])

\* The handler of t is over; start() goes on to setupPeriodicUpdate, the
\* "Update Now" button is released, a createRule message is answered ok.
Finish(t) ==
  /\ Become(t, IdleTask)
  /\ alarmSet' = (alarmSet \/ task[t].op = "start")
  /\ button' = IF task[t].op = "updateNow" THEN Null ELSE button
  /\ acked' = IF task[t].op = "createRule" THEN acked \cup task[t].arg ELSE acked

\* An operation outside any try is rejected, and the handler with it: init()
\* and loadEngine(), the reads and the write of the list selection, the reads
\* of customRules, the compilation.  start() then sets no alarm up, the "Update
\* Now" button is released with "Update failed", createRule is answered with
\* the error.
GiveUp(t) ==
  /\ task[t].pc \in {"loadEngine", "validate", "getLists", "initLists", "build"}
  /\ Become(t, IdleTask)
  /\ forsaken' = TRUE
  /\ button' = IF task[t].op = "updateNow" THEN Null ELSE button
  /\ UNCHANGED <<storage, idb, engine, engineReady, alarmSet, world, unannounced, acked, budget>>

-----------------------------------------------------------------------------
(* initialize().                                                           *)

\* loadEngine() returns the cache entry, or undefined on a first run.
LoadEngine(t) ==
  /\ task[t].pc = "loadEngine"
  /\ Become(t, [task[t] EXCEPT !.cached = stored,
                               !.pc = IF stored = Null THEN "getLists" ELSE "validate"])
  /\ UNCHANGED <<storage, idb, manager, world, page, budget>>

\* Variant: the snapshot is not compared.
AnyCache(t) == TRUE
CacheIsValid(t) == task[t].cached.snapshot = customRules

\* The snapshot matches and deserialize accepts the bytes: fast path.
UseCache(t) ==
  /\ task[t].pc = "validate"
  /\ CacheIsValid(t)
  /\ task[t].cached.format = format
  /\ engine' = task[t].cached.engine
  /\ engineReady' = TRUE /\ forsaken' = FALSE
  /\ unannounced' = FALSE
  /\ Finish(t)
  /\ UNCHANGED <<storage, idb, world, budget>>

\* Variant: the exception ends initialize().
RejectCacheForGood(t) ==
  /\ task[t].pc = "validate"
  /\ CacheIsValid(t)
  /\ task[t].cached.format # format
  /\ engine' = EmptyEngine
  /\ Become(t, IdleTask)
  /\ UNCHANGED <<storage, idb, engineReady, alarmSet, forsaken, world, page, budget>>

\* deserialize throws: "engine" already holds the empty engine it was called on.
RejectCache(t) ==
  /\ task[t].pc = "validate"
  /\ CacheIsValid(t)
  /\ task[t].cached.format # format
  /\ engine' = EmptyEngine
  /\ Goto(t, "getLists")
  /\ UNCHANGED <<storage, idb, engineReady, alarmSet, forsaken, world, page, budget>>

\* The custom rules have changed since the entry was saved: rebuild.
BypassCache(t) ==
  /\ task[t].pc = "validate"
  /\ ~CacheIsValid(t)
  /\ Goto(t, "getLists")
  /\ UNCHANGED <<storage, idb, manager, world, page, budget>>

-----------------------------------------------------------------------------
(* downloadAllEnabledLists().                                              *)

GetLists(t) ==
  /\ task[t].pc = "getLists"
  /\ Become(t, IF filterLists = Null
               THEN [task[t] EXCEPT !.pc = "initLists"]
               ELSE Loop([task[t] EXCEPT !.lists = filterLists, !.todo = filterLists]))
  /\ UNCHANGED <<storage, idb, manager, world, page, budget>>

\* First run: the defaults are written, over whatever was stored meanwhile.
InitLists(t) ==
  /\ task[t].pc = "initLists"
  /\ filterLists' = DefaultLists
  /\ Become(t, Loop([task[t] EXCEPT !.lists = DefaultLists, !.todo = DefaultLists]))
  /\ UNCHANGED <<customRules, idb, manager, world, page, budget>>

LoadList(t) ==
  /\ task[t].pc = "loadList"
  /\ LET l == NextList(task[t])
     IN  IF listData[l] # 0 THEN Become(t, Push(task[t], l, listData[l]))
                            ELSE Goto(t, "fetch")
  /\ UNCHANGED <<storage, idb, manager, world, page, budget>>

\* The read is rejected: the catch clause, without a fetch.
LoadListFails(t) ==
  /\ task[t].pc = "loadList"
  /\ Goto(t, "fallback")
  /\ UNCHANGED <<storage, idb, manager, world, page, budget>>

Fetch(t) ==
  /\ task[t].pc = "fetch"
  /\ Become(t, [task[t] EXCEPT !.pc = "saveList", !.text = server[NextList(task[t])]])
  /\ UNCHANGED <<storage, idb, manager, world, page, budget>>

FetchFails(t) ==
  /\ task[t].pc = "fetch"
  /\ Goto(t, "fallback")
  /\ UNCHANGED <<storage, idb, manager, world, page, budget>>

\* Variant: the download is used but not saved.
UseListUnsaved(t) ==
  /\ task[t].pc = "saveList"
  /\ Become(t, Push(task[t], NextList(task[t]), task[t].text))
  /\ UNCHANGED <<storage, idb, manager, world, page, budget>>

SaveList(t) ==
  /\ task[t].pc = "saveList"
  /\ LET l == NextList(task[t])
     IN  /\ listData' = [listData EXCEPT ![l] = task[t].text]
         /\ Become(t, Push(task[t], l, task[t].text))
  /\ UNCHANGED <<storage, stored, manager, world, page, budget>>

\* A failing put lands in the same catch clause as a failing fetch.
SaveListFails(t) ==
  /\ task[t].pc = "saveList"
  /\ Goto(t, "fallback")
  /\ UNCHANGED <<storage, idb, manager, world, page, budget>>

\* Variant: the error is thrown again instead of skipping the list.
Rethrow(t) ==
  /\ task[t].pc = "fallback"
  /\ LET l == NextList(task[t])
     IN  Become(t, IF listData[l] = 0 THEN IdleTask ELSE Push(task[t], l, listData[l]))
  /\ UNCHANGED <<storage, idb, manager, world, page, budget>>

\* The catch clause: the stale text if there is one, else the list is skipped.
Fallback(t) ==
  /\ task[t].pc = "fallback"
  /\ LET l == NextList(task[t]) IN Become(t, Push(task[t], l, listData[l]))
  /\ UNCHANGED <<storage, idb, manager, world, page, budget>>

\* The catch clause's read is rejected as well: the list is skipped, whatever
\* is stored of it.
FallbackFails(t) ==
  /\ task[t].pc = "fallback"
  /\ LET l == NextList(task[t])
     IN  Become(t, Push([task[t] EXCEPT !.unread = @ \cup {l}], l, 0))
  /\ UNCHANGED <<storage, idb, manager, world, page, budget>>

-----------------------------------------------------------------------------
(* The rest of rebuildEngine(): read customRules, compile, install, save.  *)

\* Variant: the snapshot is what the handler read before it appended its rule.
BuildOldSnapshot(t) ==
  /\ task[t].pc = "build"
  /\ LET built == [lists |-> task[t].got, rules |-> customRules]
     IN  /\ engine' = built
         /\ stored' = [engine |-> built, snapshot |-> task[t].rules, format |-> format]
  /\ engineReady' = TRUE /\ forsaken' = FALSE
  /\ unannounced' = FALSE
  /\ Finish(t)
  /\ UNCHANGED <<storage, listData, world, budget>>

Build(t) ==
  /\ task[t].pc = "build"
  /\ LET built == [lists |-> task[t].got, rules |-> customRules]
     IN  /\ engine' = built
         /\ \/ stored' = [engine |-> built, snapshot |-> customRules, format |-> format]
            \/ stored' = stored           \* saveEngine fails: only a warning
  /\ engineReady' = TRUE /\ forsaken' = FALSE
  /\ unannounced' = FALSE
  /\ Finish(t)
  /\ UNCHANGED <<storage, listData, world, budget>>

-----------------------------------------------------------------------------
(* The edits.  createRule and whitelistSite read customRules, append a     *)
(* line, write and rebuild; the options page edits without a rebuild.      *)

ReadRules(t) ==
  /\ task[t].pc = "readRules"
  /\ Become(t, [task[t] EXCEPT !.rules = customRules, !.pc = "writeRules"])
  /\ UNCHANGED <<storage, idb, manager, world, page, budget>>

\* Variant: no rebuild after the write.
AppendRuleOnly(t) ==
  /\ task[t].pc = "writeRules"
  /\ task[t].op = "createRule"
  /\ customRules' = task[t].rules \cup task[t].arg
  /\ Become(t, IdleTask)
  /\ UNCHANGED <<filterLists, idb, manager, world, page, budget>>

AppendRule(t) ==
  /\ task[t].pc = "writeRules"
  /\ task[t].op = "createRule"
  /\ customRules' = task[t].rules \cup task[t].arg
  /\ Goto(t, "getLists")
  /\ UNCHANGED <<filterLists, idb, manager, world, page, budget>>

\* The whitelist's remove button: no message is sent.
RemoveRule(t) ==
  /\ task[t].pc = "writeRules"
  /\ task[t].op = "removeRule"
  /\ customRules' = task[t].rules \ task[t].arg
  /\ unannounced' = TRUE
  /\ acked' = acked \ task[t].arg
  /\ Become(t, IdleTask)
  /\ UNCHANGED <<filterLists, idb, manager, world, button, budget>>

\* A list's checkbox, its remove button or "add custom list".
ReadLists(t) ==
  /\ task[t].pc = "readLists"
  /\ Become(t, [task[t] EXCEPT !.lists = filterLists, !.pc = "writeLists"])
  /\ UNCHANGED <<storage, idb, manager, world, page, budget>>

\* The checkbox says which: switched on or added, switched off or removed.
WriteLists(t) ==
  /\ task[t].pc = "writeLists"
  /\ filterLists' \in {task[t].lists \cup task[t].edit, task[t].lists \ task[t].edit}
  /\ Become(t, IdleTask)
  /\ UNCHANGED <<customRules, idb, manager, world, page, budget>>

\* The read or the write is rejected and nothing is edited.  whitelistSite does
\* not await its write and, already answered, rebuilds all the same.
EditFails(t) ==
  /\ task[t].pc \in {"readRules", "writeRules", "readLists", "writeLists"}
  /\ \/ Become(t, IdleTask)
     \/ /\ task[t].pc = "writeRules" /\ task[t].op = "createRule"
        /\ Become(t, [task[t] EXCEPT !.pc = "getLists", !.arg = {}])
  /\ UNCHANGED <<storage, idb, manager, world, page, budget>>

\* saveRulesBtn goes on: "rebuildEngine" reaches the background page.
Announce(t) ==
  /\ task[t].pc = "announce"
  /\ Goto(t, "getLists")
  /\ UNCHANGED <<storage, idb, manager, world, page, budget>>

\* The user closes the options page before its handler's next step.
ClosePage(t) ==
  /\ task[t].op \in {"saveRules", "removeRule", "editLists"}
  /\ task[t].pc \in {"announce", "readRules", "writeRules", "readLists", "writeLists"}
  /\ unannounced' = (unannounced \/ task[t].pc = "announce")
  /\ Become(t, IdleTask)
  /\ UNCHANGED <<storage, idb, manager, world, button, acked, budget>>

-----------------------------------------------------------------------------
(* Events: messages, clicks on the options page, alarms, the network.      *)

Event(op) == /\ op \in Ops /\ ops < MaxOps
             /\ ops' = ops + 1
             /\ UNCHANGED restarts

Begin(t, op, pc, arg, edit) ==
  /\ Event(op)
  /\ task[t].pc = "idle"
  /\ Become(t, NewTask(op, pc, arg, edit))

CreateRule(t) == \E r \in Rule :
  /\ Begin(t, "createRule", "readRules", {r}, {})
  /\ UNCHANGED <<storage, idb, manager, world, page>>

\* saveRulesBtn: the text area replaces customRules; the message is yet to come.
SaveRules(t) == \E rules \in SUBSET Rule :
  /\ Begin(t, "saveRules", "announce", {}, {})
  /\ customRules' = rules
  /\ acked' = acked \cap rules
  /\ UNCHANGED <<filterLists, idb, manager, world, button, unannounced>>

ClickRemoveRule(t) == \E r \in Rule :
  /\ Begin(t, "removeRule", "readRules", {r}, {})
  /\ UNCHANGED <<storage, idb, manager, world, page>>

\* The options page shows the lists it got from getFilterLists.
ClickList(t) == \E l \in List :
  /\ filterLists # Null
  /\ Begin(t, "editLists", "readLists", {}, {l})
  /\ UNCHANGED <<storage, idb, manager, world, page>>

\* "Update Now" sends rebuildEngine and stays disabled until the answer.
UpdateNow(t) ==
  /\ button = Null
  /\ Begin(t, "updateNow", "getLists", {}, {})
  /\ button' = server
  /\ UNCHANGED <<storage, idb, manager, world, unannounced, acked>>

\* toggleEnabled turning the extension on calls initialize().
ToggleOn(t) ==
  /\ Begin(t, "toggleOn", "loadEngine", {}, {})
  /\ UNCHANGED <<storage, idb, manager, world, page>>

Alarm(t) ==
  /\ alarmSet
  /\ Begin(t, "alarm", "getLists", {}, {})
  /\ UNCHANGED <<storage, idb, manager, world, page>>

\* The import button writes the whole settings object, and reloads itself only.
ImportSettings == \E rules \in SUBSET Rule, lists \in {filterLists} \cup SUBSET List :
  /\ Event("importSettings")
  /\ customRules' = rules /\ filterLists' = lists
  /\ unannounced' = TRUE
  /\ acked' = acked \cap rules
  /\ UNCHANGED <<idb, manager, task, world, button>>

\* A list's maintainers publish a new text.
Publish == \E l \in List :
  /\ server[l] < MaxVersion
  /\ server' = [server EXCEPT ![l] = @ + 1]
  /\ UNCHANGED <<storage, idb, manager, task, format, page, budget>>

\* The background page ends, at any await, and starts again: storage and
\* IndexedDB survive, and an upgrade may come with another data format.
Restart ==
  /\ restarts < MaxRestarts
  /\ restarts' = restarts + 1
  /\ engine' = Null /\ engineReady' = FALSE /\ alarmSet' = FALSE /\ forsaken' = FALSE
  /\ Session(task')
  /\ format' \in {f \in 0 .. MaxFormat : f \in {format, format + 1}}
  /\ button' = Null
  /\ UNCHANGED <<storage, idb, server, unannounced, acked, ops>>

Initialize(t) == LoadEngine(t) \/ UseCache(t) \/ RejectCache(t) \/ BypassCache(t)
Download(t)   == \/ GetLists(t) \/ InitLists(t) \/ LoadList(t)
                 \/ LoadListFails(t) \/ Fetch(t) \/ FetchFails(t)
                 \/ SaveList(t) \/ SaveListFails(t) \/ Fallback(t) \/ FallbackFails(t)
Edit(t)       == \/ ReadRules(t) \/ AppendRule(t) \/ RemoveRule(t)
                 \/ ReadLists(t) \/ WriteLists(t) \/ EditFails(t) \/ Announce(t)
Continue(t)   == Initialize(t) \/ Download(t) \/ Build(t) \/ GiveUp(t) \/ Edit(t)
Message(t)    == \/ CreateRule(t) \/ SaveRules(t) \/ ClickRemoveRule(t) \/ ClickList(t)
                 \/ UpdateNow(t) \/ ToggleOn(t) \/ Alarm(t)

Next == \/ \E t \in Task : Continue(t) \/ Message(t) \/ ClosePage(t)
        \/ ImportSettings \/ Publish \/ Restart

Spec == Init /\ [][Next]_vars

\* The event loop keeps running continuations: every operation a handler
\* awaits completes, in success or in failure.  Events need not happen.
FairSpec == Spec /\ \A t \in Task : WF_vars(Continue(t))

-----------------------------------------------------------------------------
(* Properties.                                                             *)

RebuildPending == \E t \in Task : task[t].pc \in RebuildPC

\* The engine that answers requests was compiled from the custom rules in
\* storage, whatever edits, rebuilds, cache loads, failures and restarts came
\* before: a difference is only possible while a rebuild is under way
\* (every handler that edits customRules calls rebuildEngine after its write,
\* and initialize compares the snapshot), after one of the options page's edits
\* that notify nobody, or once an operation outside any try has failed.
EngineRulesCurrent ==
  (engineReady /\ ~RebuildPending /\ ~unannounced /\ ~forsaken) => engine.rules = customRules

\* An entry of the engine cache was compiled from the rules of its snapshot:
\* what makes the comparison in initialize() sufficient.
Coherent(entry) == entry # Null => entry.engine.rules = entry.snapshot
CacheCoherent   == Coherent(stored) /\ \A t \in Task : Coherent(task[t].cached)

\* The same promise step by step: the module implements RulesInForce, so the
\* rules in the engine only ever change to the stored ones of that moment, or
\* to none when a restart or a rejected cache takes the engine away.
Promise == INSTANCE RulesInForce WITH
  Nothing <- Null,
  rules   <- customRules,
  inForce <- IF engineReady THEN engine.rules ELSE Null,
  behind  <- ~engineReady \/ RebuildPending \/ unannounced \/ forsaken
ImplementsRulesInForce == Promise!Spec

\* As long as handlers do not overlap, a rebuild never takes an enabled list
\* out of the engine nor goes back to an older text of it, whatever fetches,
\* puts and reads fail and whatever sessions came between
\* (downloadAllEnabledLists saves what it fetched and falls back to what it
\* saved), save for the lists whose fallback could not be read either, which it
\* skips.  An engine emptied by a rejected cache is a step of initialize.
RebuildNeverRegresses == [][
  \A t \in Task : (task[t].pc = "build" /\ engine # Null /\ engine' \notin {Null, engine})
     => \A l \in filterLists \ task[t].unread : engine'.lists[l] >= engine.lists[l]]_vars

\* Protection comes up: after every start, even with a cache of another
\* format, no network and an IndexedDB that fails on every list, the engine
\* gets ready (initialize falls back to rebuildEngine, which skips the lists it
\* cannot get), unless an operation outside any try fails: init, loadEngine,
\* the list selection, customRules or the compilation (GiveUp).
BecomesReady == ~engineReady ~> engineReady \/ forsaken

\* A stored custom rule reaches the engine unless it is removed again, the
\* options page changed the rules behind the background's back, or the rebuild
\* was given up.
RulesTakeEffect == \A r \in Rule :
  (r \in customRules) ~> \/ engine # Null /\ r \in engine.rules
                         \/ r \notin customRules \/ unannounced \/ forsaken

\* "All lists updated successfully.": when "Update Now" is answered with a new
\* engine, it holds of every enabled list whose text is stored and was read a
\* text at least as new as the server's when the button was clicked (options.js
\* reports this of rebuildEngine).
UpdateNowUpdates == [][
  \A t \in Task : (task[t].op = "updateNow" /\ button # Null /\ button' = Null /\ engineReady' /\ ~forsaken')
     => \A l \in filterLists \ task[t].unread :
          listData[l] # 0 => engine'.lists[l] >= button[l]]_vars

\* A rule whose createRule was answered ok stays stored until the user takes
\* it out (zapper.js creates up to three at once).
AcknowledgedRulesKept == acked \subseteq customRules
=============================================================================
