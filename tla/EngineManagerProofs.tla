------------------------- MODULE EngineManagerProofs -------------------------
(* The type invariant and the safety invariants of EngineManager, for every *)
(* number of lists, rules, handlers, events and restarts.                   *)
EXTENDS EngineManager, TLAPS

(***************************************************************************)
(* Facts about the operators on handler records.                           *)
(***************************************************************************)

\* The results array of a loop that has pushed nothing.
LEMMA NoTextsType == NoTexts \in [List -> Version]
BY BoundAssumption DEF NoTexts, Version

\* The record of a handler stays in its type whatever the loop decides, and
\* the loop only leads to rebuild steps, with a list left where one is needed.
LEMMA LoopFacts ==
  ASSUME NEW r \in TaskState
  PROVE  /\ Loop(r) \in TaskState
         /\ Loop(r).pc \in RebuildPC
         /\ Loop(r).cached = r.cached
         /\ \A lists : TaskOK(Loop(r), lists)
<1>1. CASE r.todo # {}
  BY <1>1 DEF Loop, TaskState, PC, RebuildPC, TaskOK
<1>2. CASE r.todo = {} /\ r.force
  <2> DEFINE q == [r EXCEPT !.pc = "getLists", !.force = FALSE, !.got = NoTexts, !.unread = {}]
  <2>1. Loop(r) = q
    BY <1>2 DEF Loop
  <2>2. q \in TaskState /\ q.pc = "getLists" /\ q.cached = r.cached
    BY NoTextsType DEF TaskState, PC, RebuildPC
  <2>3. QED BY <2>1, <2>2 DEF RebuildPC, TaskOK
<1>3. CASE r.todo = {} /\ ~r.force
  BY <1>3 DEF Loop, TaskState, PC, RebuildPC, TaskOK
<1>4. QED BY <1>1, <1>2, <1>3

\* Pushing a text for a list ends an iteration in the same way.
LEMMA PushFacts ==
  ASSUME NEW r \in TaskState, NEW l \in List, NEW v \in Version
  PROVE  /\ Push(r, l, v) \in TaskState
         /\ Push(r, l, v).pc \in RebuildPC
         /\ Push(r, l, v).cached = r.cached
         /\ \A lists : TaskOK(Push(r, l, v), lists)
<1> DEFINE q == [r EXCEPT !.todo = @ \ {l}, !.text = 0, !.got[l] = v]
<1>1. q \in TaskState
  <2> DEFINE a == [r EXCEPT !.todo = r.todo \ {l}]
             b == [a EXCEPT !.text = 0]
             c == [b EXCEPT !.got = [r.got EXCEPT ![l] = v]]
  <2>1. a \in TaskState /\ a.got = r.got
    BY DEF TaskState
  <2>2. b \in TaskState /\ b.got = r.got
    <3> HIDE DEF a
    <3> QED BY <2>1, BoundAssumption DEF TaskState, Version
  <2>3. c \in TaskState
    <3> HIDE DEF b
    <3>1. [r.got EXCEPT ![l] = v] \in [List -> Version]
      BY DEF TaskState
    <3> QED BY <2>2, <3>1 DEF TaskState
  <2>4. q = c
    BY DEF TaskState
  <2>5. QED BY <2>3, <2>4
<1>2. q.cached = r.cached
  BY DEF TaskState
<1>3. QED BY <1>1, <1>2, LoopFacts DEF Push

\* Noting a list as skipped changes nothing else of the record.
LEMMA UnreadFacts ==
  ASSUME NEW r \in TaskState, NEW l \in List
  PROVE  LET q == [r EXCEPT !.unread = @ \cup {l}]
         IN  /\ q \in TaskState
             /\ q.got = r.got /\ q.lists = r.lists /\ q.todo = r.todo
             /\ q.cached = r.cached /\ q.unread = r.unread \cup {l}
BY DEF TaskState

\* The idle record is well formed, and so is that of a handler that begins.
LEMMA NewTaskFacts ==
  ASSUME NEW op \in OpKind \cup {"start", "none"}, NEW pc \in PC,
         NEW arg \in SUBSET Rule, NEW edit \in SUBSET List
  PROVE  /\ IdleTask \in TaskState
         /\ NewTask(op, pc, arg, edit) \in TaskState
         /\ NewTask(op, pc, arg, edit).pc = pc
         /\ NewTask(op, pc, arg, edit).cached = Null
<1>1. IdleTask \in TaskState
  BY BoundAssumption DEF IdleTask, TaskState, PC, NoTexts, Version
<1>2. QED BY <1>1 DEF NewTask, IdleTask, TaskState

(***************************************************************************)
(* Frames: what a step of one handler leaves alone.                        *)
(***************************************************************************)

\* A handler's record is replaced by a well-formed one, the others are kept.
LEMMA BecomeFacts ==
  ASSUME TypeOK, NEW t \in Task, NEW r \in TaskState, Become(t, r),
         TaskOK(r, filterLists'), filterLists # Null => filterLists' # Null
  PROVE  /\ task' \in [Task -> TaskState]
         /\ \A u \in Task : TaskOK(task'[u], filterLists')
         /\ task'[t] = r
         /\ \A u \in Task \ {t} : task'[u] = task[u]
<1>1. /\ task' \in [Task -> TaskState]
      /\ task'[t] = r
      /\ \A u \in Task \ {t} : task'[u] = task[u]
  BY DEF TypeOK, Become
<1>2. ASSUME NEW u \in Task PROVE TaskOK(task'[u], filterLists')
  <2>1. CASE u = t
    BY <1>1, <2>1 DEF TaskOK
  <2>2. CASE u # t
    <3>1. TaskOK(task[u], filterLists)
      BY DEF TypeOK
    <3>2. QED BY <1>1, <2>2, <3>1 DEF TaskOK
  <2>3. QED BY <2>1, <2>2
<1>3. QED BY <1>1, <1>2

\* The record of a handler that only moves on in its code.
LEMMA GotoFacts ==
  ASSUME TypeOK, NEW t \in Task, NEW pc \in PC, Goto(t, pc)
  PROVE  /\ [task[t] EXCEPT !.pc = pc] \in TaskState
         /\ Become(t, [task[t] EXCEPT !.pc = pc])
BY ZenonT(30) DEF TypeOK, TaskState, Goto, Become

\* A rebuild that is pending stays so unless its own handler ends it.
LEMMA PendingFrame ==
  ASSUME TypeOK, NEW t \in Task, task' \in [Task -> TaskState],
         \A u \in Task \ {t} : task'[u] = task[u],
         task[t].pc \notin RebuildPC \/ task'[t].pc \in RebuildPC
  PROVE  RebuildPending => RebuildPending'
BY DEF RebuildPending, TypeOK

\* The fresh session's handlers.
LEMMA SessionFacts ==
  ASSUME NEW tsk, Session(tsk)
  PROVE  /\ tsk \in [Task -> TaskState]
         /\ \A u \in Task : tsk[u].pc \in {"idle", "loadEngine"} /\ tsk[u].cached = Null
<1>1. PICK t \in Task :
        tsk = [u \in Task |-> IF u = t THEN NewTask("start", "loadEngine", {}, {}) ELSE IdleTask]
  BY DEF Session
<1>2. /\ IdleTask \in TaskState
      /\ NewTask("start", "loadEngine", {}, {}) \in TaskState
      /\ NewTask("start", "loadEngine", {}, {}).pc = "loadEngine"
      /\ NewTask("start", "loadEngine", {}, {}).cached = Null
  BY NewTaskFacts, SMTT(20) DEF PC
<1>3. IdleTask.pc = "idle" /\ IdleTask.cached = Null
  BY DEF IdleTask
<1>4. QED BY <1>1, <1>2, <1>3

(***************************************************************************)
(* Type correctness.                                                       *)
(***************************************************************************)

\* initialize() keeps the types.
LEMMA InitializeType ==
  ASSUME TypeOK, NEW t \in Task, Initialize(t)
  PROVE  TypeOK'
<1> USE DEF storage, idb, manager, world, page, budget
<1>0. task[t] \in TaskState /\ TaskOK(task[t], filterLists)
  BY DEF TypeOK
<1>1. CASE LoadEngine(t)
  <2> DEFINE r == [task[t] EXCEPT !.cached = stored,
                                  !.pc = IF stored = Null THEN "getLists" ELSE "validate"]
  <2>1. r \in TaskState /\ TaskOK(r, filterLists')
    BY <1>0, <1>1, ZenonT(30) DEF TypeOK, TaskState, TaskOK, PC, RebuildPC
  <2>2. Become(t, r) /\ filterLists' = filterLists
    BY <1>1 DEF LoadEngine
  <2> HIDE DEF r
  <2>3. QED BY <1>1, <2>1, <2>2, BecomeFacts DEF LoadEngine, TypeOK
<1>2. CASE UseCache(t)
  <2>1. task[t].cached \in CacheEntry
    BY <1>0, <1>2 DEF UseCache, TaskOK, TaskState
  <2>2. IdleTask \in TaskState /\ TaskOK(IdleTask, filterLists')
    BY NewTaskFacts DEF TaskOK, IdleTask, PC
  <2>3. Become(t, IdleTask) /\ filterLists' = filterLists
    BY <1>2 DEF UseCache, Finish
  <2>4. engine' \in Engine /\ forsaken' = FALSE
    BY <1>2, <2>1 DEF UseCache, CacheEntry
  <2>5. alarmSet' \in BOOLEAN
    BY <1>2 DEF UseCache, Finish, TypeOK
  <2>6. button' \in [List -> Version] \cup {Null} /\ acked' \in SUBSET Rule
    BY <1>0, <1>2 DEF UseCache, Finish, TypeOK, TaskState
  <2>7. QED BY <1>2, <2>2, <2>3, <2>4, <2>5, <2>6, BecomeFacts DEF UseCache, TypeOK
<1>3. CASE RejectCache(t)
  <2>1. EmptyEngine \in Engine
    BY NoTextsType DEF EmptyEngine, Engine
  <2>2. TaskOK([task[t] EXCEPT !.pc = "getLists"], filterLists')
    BY <1>0, <1>3 DEF TaskOK, TaskState
  <2>3. QED
    BY <1>3, <2>1, <2>2, GotoFacts, BecomeFacts DEF RejectCache, TypeOK, PC, RebuildPC
<1>4. CASE BypassCache(t)
  <2>1. TaskOK([task[t] EXCEPT !.pc = "getLists"], filterLists')
    BY <1>0, <1>4 DEF TaskOK, TaskState
  <2>2. QED
    BY <1>4, <2>1, GotoFacts, BecomeFacts DEF BypassCache, TypeOK, PC, RebuildPC
<1>5. QED BY <1>1, <1>2, <1>3, <1>4 DEF Initialize

\* The download loop keeps the types.
LEMMA DownloadType ==
  ASSUME TypeOK, NEW t \in Task, Download(t)
  PROVE  TypeOK'
<1> USE DEF storage, idb, manager, world, page, budget
<1>0. task[t] \in TaskState /\ TaskOK(task[t], filterLists)
  BY DEF TypeOK
<1>l. ASSUME task[t].pc \in {"loadList", "fetch", "saveList", "fallback"}
      PROVE  NextList(task[t]) \in List
  BY <1>0, <1>l DEF TaskOK, NextList, TaskState
<1>1. CASE GetLists(t)
  <2>1. CASE filterLists = Null
    <3>1. TaskOK([task[t] EXCEPT !.pc = "initLists"], filterLists')
      BY <1>0, <1>1 DEF TaskOK, TaskState
    <3>2. QED
      BY <1>1, <2>1, <3>1, GotoFacts, BecomeFacts DEF GetLists, Goto, Become, TypeOK, PC, RebuildPC
  <2>2. CASE filterLists # Null
    <3> DEFINE r == [task[t] EXCEPT !.lists = filterLists, !.todo = filterLists]
    <3>1. r \in TaskState
      BY <1>0, <2>2 DEF TaskState, TypeOK
    <3>2. Become(t, Loop(r)) /\ filterLists' = filterLists
      BY <1>1, <2>2 DEF GetLists
    <3> HIDE DEF r
    <3>3. Loop(r) \in TaskState /\ TaskOK(Loop(r), filterLists')
      BY <3>1, <3>2, LoopFacts DEF TaskOK, RebuildPC
    <3>4. QED BY <1>1, <3>2, <3>3, BecomeFacts DEF GetLists, TypeOK
  <2>3. QED BY <2>1, <2>2
<1>2. CASE InitLists(t)
  <2> DEFINE r == [task[t] EXCEPT !.lists = DefaultLists, !.todo = DefaultLists]
  <2>1. r \in TaskState
    BY <1>0, ListAssumption DEF TaskState
  <2>2. Become(t, Loop(r)) /\ filterLists' = DefaultLists
    BY <1>2 DEF InitLists
  <2> HIDE DEF r
  <2>3. Loop(r) \in TaskState /\ TaskOK(Loop(r), filterLists')
    BY <2>1, LoopFacts
  <2>4. /\ task' \in [Task -> TaskState]
        /\ \A u \in Task : TaskOK(task'[u], filterLists')
    <3>1. filterLists # Null => filterLists' # Null
      BY <2>2, ListAssumption, NullAssumption
    <3> QED BY <2>2, <2>3, <3>1, BecomeFacts
  <2>5. QED BY <1>2, <2>2, <2>4, ListAssumption DEF InitLists, TypeOK
<1>3. CASE LoadList(t)
  <2> DEFINE l == NextList(task[t])
  <2>1. l \in List
    BY <1>3, <1>l DEF LoadList
  <2> HIDE DEF l
  <2>2. CASE listData[l] # 0
    <3>1. listData[l] \in Version
      BY <2>1 DEF TypeOK
    <3>2. Become(t, Push(task[t], l, listData[l])) /\ filterLists' = filterLists
      BY <1>3, <2>2 DEF LoadList, l
    <3>3. Push(task[t], l, listData[l]) \in TaskState /\ TaskOK(Push(task[t], l, listData[l]), filterLists')
      BY <1>0, <2>1, <3>1, <3>2, PushFacts DEF TaskOK
    <3>4. QED BY <1>3, <3>2, <3>3, BecomeFacts DEF LoadList, TypeOK
  <2>3. CASE listData[l] = 0
    <3>1. TaskOK([task[t] EXCEPT !.pc = "fetch"], filterLists')
      BY <1>0, <1>3 DEF TaskOK, TaskState, LoadList
    <3>2. Goto(t, "fetch")
      BY <1>3, <2>3 DEF LoadList, l
    <3>3. QED
      BY <1>3, <3>1, <3>2, GotoFacts, BecomeFacts DEF LoadList, TypeOK, PC, RebuildPC
  <2>4. QED BY <2>2, <2>3
<1>4. CASE Fetch(t)
  <2> DEFINE l == NextList(task[t])
             r == [task[t] EXCEPT !.pc = "saveList", !.text = server[l]]
  <2>1. server[l] \in Version
    BY <1>4, <1>l DEF Fetch, TypeOK
  <2> HIDE DEF l
  <2>2. r \in TaskState /\ TaskOK(r, filterLists')
    BY <1>0, <1>4, <2>1 DEF TaskOK, TaskState, Fetch, PC, RebuildPC
  <2>3. Become(t, r) /\ filterLists' = filterLists
    BY <1>4 DEF Fetch, l
  <2> HIDE DEF r
  <2>4. QED BY <1>4, <2>2, <2>3, BecomeFacts DEF Fetch, TypeOK
<1>5. CASE FetchFails(t)
  <2>1. TaskOK([task[t] EXCEPT !.pc = "fallback"], filterLists')
    BY <1>0, <1>5 DEF TaskOK, TaskState, FetchFails
  <2>2. QED
    BY <1>5, <2>1, GotoFacts, BecomeFacts DEF FetchFails, TypeOK, PC, RebuildPC
<1>6. CASE SaveList(t)
  <2> DEFINE l == NextList(task[t])
             r == Push(task[t], l, task[t].text)
  <2>1. l \in List /\ task[t].text \in Version
    BY <1>0, <1>6, <1>l DEF SaveList, TaskState
  <2>2. /\ Become(t, r) /\ filterLists' = filterLists
        /\ listData' = [listData EXCEPT ![l] = task[t].text]
    BY <1>6 DEF SaveList
  <2> HIDE DEF l
  <2>3. r \in TaskState /\ TaskOK(r, filterLists')
    BY <1>0, <2>1, <2>2, PushFacts DEF TaskOK
  <2>4. listData' \in [List -> Version]
    BY <2>1, <2>2 DEF TypeOK
  <2> HIDE DEF r
  <2>5. QED BY <1>6, <2>2, <2>3, <2>4, BecomeFacts DEF SaveList, TypeOK
<1>7. CASE SaveListFails(t)
  <2>1. TaskOK([task[t] EXCEPT !.pc = "fallback"], filterLists')
    BY <1>0, <1>7 DEF TaskOK, TaskState, SaveListFails
  <2>2. QED
    BY <1>7, <2>1, GotoFacts, BecomeFacts DEF SaveListFails, TypeOK, PC, RebuildPC
<1>8. CASE Fallback(t)
  <2> DEFINE l == NextList(task[t])
             r == Push(task[t], l, listData[l])
  <2>1. l \in List /\ listData[l] \in Version
    BY <1>8, <1>l DEF Fallback, TypeOK
  <2>2. Become(t, r) /\ filterLists' = filterLists
    BY <1>8 DEF Fallback
  <2> HIDE DEF l
  <2>3. r \in TaskState /\ TaskOK(r, filterLists')
    BY <1>0, <2>1, <2>2, PushFacts DEF TaskOK
  <2> HIDE DEF r
  <2>4. QED BY <1>8, <2>2, <2>3, BecomeFacts DEF Fallback, TypeOK
<1>9. CASE LoadListFails(t)
  <2>1. TaskOK([task[t] EXCEPT !.pc = "fallback"], filterLists')
    BY <1>0, <1>9 DEF TaskOK, TaskState, LoadListFails
  <2>2. QED
    BY <1>9, <2>1, GotoFacts, BecomeFacts DEF LoadListFails, TypeOK, PC, RebuildPC
<1>10. CASE FallbackFails(t)
  <2> DEFINE l == NextList(task[t])
             r == [task[t] EXCEPT !.unread = @ \cup {l}]
  <2>1. l \in List /\ 0 \in Version
    BY <1>10, <1>l, BoundAssumption DEF FallbackFails, Version
  <2>2. Become(t, Push(r, l, 0)) /\ filterLists' = filterLists
    BY <1>10 DEF FallbackFails
  <2>3. r \in TaskState
    BY <1>0, <2>1, UnreadFacts
  <2> HIDE DEF l, r
  <2>4. Push(r, l, 0) \in TaskState /\ TaskOK(Push(r, l, 0), filterLists')
    BY <2>1, <2>2, <2>3, PushFacts DEF TaskOK
  <2>5. QED BY <1>10, <2>2, <2>4, BecomeFacts DEF FallbackFails, TypeOK
<1>11. QED BY <1>1, <1>2, <1>3, <1>4, <1>5, <1>6, <1>7, <1>8, <1>9, <1>10 DEF Download

\* The edits of rules and lists keep the types.
LEMMA EditType ==
  ASSUME TypeOK, NEW t \in Task, Edit(t)
  PROVE  TypeOK'
<1> USE DEF storage, idb, manager, world, page, budget
<1>0. task[t] \in TaskState /\ TaskOK(task[t], filterLists)
  BY DEF TypeOK
<1>i. IdleTask \in TaskState /\ \A lists : TaskOK(IdleTask, lists)
  BY NewTaskFacts DEF TaskOK, IdleTask, PC
<1>1. CASE ReadRules(t)
  <2> DEFINE r == [task[t] EXCEPT !.rules = customRules, !.pc = "writeRules"]
  <2>1. r \in TaskState /\ TaskOK(r, filterLists')
    BY <1>0, <1>1 DEF TaskOK, TaskState, TypeOK, ReadRules, PC
  <2>2. Become(t, r) /\ filterLists' = filterLists
    BY <1>1 DEF ReadRules
  <2> HIDE DEF r
  <2>3. QED BY <1>1, <2>1, <2>2, BecomeFacts DEF ReadRules, TypeOK
<1>2. CASE AppendRule(t)
  <2>1. TaskOK([task[t] EXCEPT !.pc = "getLists"], filterLists')
    BY <1>0, <1>2 DEF TaskOK, TaskState, AppendRule
  <2>2. customRules' \in SUBSET Rule
    BY <1>0, <1>2 DEF AppendRule, TaskState
  <2>3. QED
    BY <1>2, <2>1, <2>2, GotoFacts, BecomeFacts DEF AppendRule, TypeOK, PC, RebuildPC
<1>3. CASE RemoveRule(t)
  <2>1. customRules' \in SUBSET Rule /\ acked' \in SUBSET Rule
    BY <1>0, <1>3 DEF RemoveRule, TaskState, TypeOK
  <2>2. QED
    BY <1>3, <1>i, <2>1, BecomeFacts DEF RemoveRule, TypeOK
<1>4. CASE ReadLists(t)
  <2> DEFINE r == [task[t] EXCEPT !.lists = filterLists, !.pc = "writeLists"]
  <2>1. r \in TaskState /\ TaskOK(r, filterLists')
    BY <1>0, <1>4 DEF TaskOK, TaskState, TypeOK, ReadLists, PC
  <2>2. Become(t, r) /\ filterLists' = filterLists
    BY <1>4 DEF ReadLists
  <2> HIDE DEF r
  <2>3. QED BY <1>4, <2>1, <2>2, BecomeFacts DEF ReadLists, TypeOK
<1>5. CASE WriteLists(t)
  <2>1. filterLists' \in SUBSET List
    BY <1>0, <1>5 DEF WriteLists, TaskOK, TaskState
  <2>2. Become(t, IdleTask)
    BY <1>5 DEF WriteLists
  <2>3. /\ task' \in [Task -> TaskState]
        /\ \A u \in Task : TaskOK(task'[u], filterLists')
    BY <1>i, <2>1, <2>2, NullAssumption, BecomeFacts
  <2>4. QED BY <1>5, <2>1, <2>3 DEF WriteLists, TypeOK
<1>6. CASE Announce(t)
  <2>1. TaskOK([task[t] EXCEPT !.pc = "getLists"], filterLists')
    BY <1>0, <1>6 DEF TaskOK, TaskState
  <2>2. QED
    BY <1>6, <2>1, GotoFacts, BecomeFacts DEF Announce, TypeOK, PC, RebuildPC
<1>7. CASE EditFails(t)
  <2> DEFINE r == [task[t] EXCEPT !.pc = "getLists", !.arg = {}]
  <2>1. r \in TaskState /\ TaskOK(r, filterLists')
    BY <1>0, <1>7 DEF TaskOK, TaskState, PC, RebuildPC
  <2>2. (Become(t, IdleTask) \/ Become(t, r)) /\ filterLists' = filterLists
    BY <1>7 DEF EditFails
  <2> HIDE DEF r
  <2>3. QED BY <1>7, <1>i, <2>1, <2>2, BecomeFacts DEF EditFails, TypeOK
<1>8. QED BY <1>1, <1>2, <1>3, <1>4, <1>5, <1>6, <1>7 DEF Edit

\* A handler that gives up ends.
LEMMA GiveUpType ==
  ASSUME TypeOK, NEW t \in Task, GiveUp(t)
  PROVE  TypeOK'
<1> USE DEF storage, idb, manager, world, page, budget
<1>1. IdleTask \in TaskState /\ \A lists : TaskOK(IdleTask, lists)
  BY NewTaskFacts DEF TaskOK, IdleTask, PC
<1>2. Become(t, IdleTask) /\ filterLists' = filterLists /\ forsaken' = TRUE
  BY DEF GiveUp
<1>3. button' \in [List -> Version] \cup {Null}
  BY DEF GiveUp, TypeOK
<1>4. QED BY <1>1, <1>2, <1>3, BecomeFacts DEF GiveUp, TypeOK

\* A closed page's handler ends.
LEMMA ClosePageType ==
  ASSUME TypeOK, NEW t \in Task, ClosePage(t)
  PROVE  TypeOK'
<1> USE DEF storage, idb, manager, world, page, budget
<1>1. IdleTask \in TaskState /\ \A lists : TaskOK(IdleTask, lists)
  BY NewTaskFacts DEF TaskOK, IdleTask, PC
<1>2. Become(t, IdleTask) /\ filterLists' = filterLists /\ unannounced' \in BOOLEAN
  BY DEF ClosePage
<1>3. QED BY <1>1, <1>2, BecomeFacts DEF ClosePage, TypeOK

\* A handler that begins has a record of its own, and rules or lists to edit.
LEMMA BeginFacts ==
  ASSUME TypeOK, NEW t \in Task, NEW op \in OpKind, NEW pc \in PC,
         NEW arg \in SUBSET Rule, NEW edit \in SUBSET List,
         pc \in {"announce", "readRules", "readLists", "getLists", "loadEngine"},
         pc = "readLists" => filterLists # Null,
         Begin(t, op, pc, arg, edit), filterLists' = filterLists
  PROVE  /\ task' \in [Task -> TaskState]
         /\ \A u \in Task : TaskOK(task'[u], filterLists')
         /\ ops' \in Nat /\ restarts' = restarts
         /\ task[t].pc = "idle" /\ task'[t].pc = pc /\ task'[t].cached = Null
         /\ \A u \in Task \ {t} : task'[u] = task[u]
<1> DEFINE r == NewTask(op, pc, arg, edit)
<1>1. r \in TaskState /\ r.pc = pc /\ r.cached = Null
  BY NewTaskFacts
<1>2. TaskOK(r, filterLists')
  BY <1>1 DEF TaskOK
<1>3. Become(t, r)
  BY DEF Begin
<1> HIDE DEF r
<1>4. QED BY <1>1, <1>2, <1>3, BecomeFacts DEF Begin, Event, TypeOK

\* The events keep the types.
LEMMA MessageType ==
  ASSUME TypeOK, NEW t \in Task, Message(t)
  PROVE  TypeOK'
<1> USE DEF storage, idb, manager, world, page, budget
<1>s. /\ {} \in SUBSET Rule /\ {} \in SUBSET List
      /\ \A r \in Rule : {r} \in SUBSET Rule
      /\ \A l \in List : {l} \in SUBSET List
  OBVIOUS
<1>k. /\ {"createRule", "saveRules", "removeRule", "editLists", "updateNow",
          "toggleOn", "alarm"} \subseteq OpKind
      /\ {"announce", "readRules", "readLists", "getLists", "loadEngine"} \subseteq PC
  BY DEF OpKind, PC, RebuildPC
\* What is left to show once the handler's record is known to be well formed.
<1>b. ASSUME NEW op \in OpKind, NEW pc \in {"announce", "readRules", "readLists", "getLists", "loadEngine"},
             NEW arg \in SUBSET Rule, NEW edit \in SUBSET List,
             pc = "readLists" => filterLists # Null,
             Begin(t, op, pc, arg, edit), UNCHANGED <<filterLists, idb, manager, world, unannounced>>,
             customRules' \in SUBSET Rule, acked' \in SUBSET Rule,
             button' \in [List -> Version] \cup {Null}
      PROVE  TypeOK'
  <2>1. pc \in PC /\ filterLists' = filterLists
    BY <1>b, <1>k
  <2>2. /\ task' \in [Task -> TaskState]
        /\ \A u \in Task : TaskOK(task'[u], filterLists')
        /\ ops' \in Nat /\ restarts' = restarts
    BY <1>b, <2>1, BeginFacts
  <2>3. QED BY <1>b, <2>2 DEF TypeOK
<1>1. CASE CreateRule(t)
  <2>1. PICK r \in Rule : Begin(t, "createRule", "readRules", {r}, {})
    BY <1>1 DEF CreateRule
  <2>2. UNCHANGED <<storage, idb, manager, world, page>>
    BY <1>1 DEF CreateRule
  <2>3. customRules' \in SUBSET Rule /\ acked' \in SUBSET Rule /\ button' \in [List -> Version] \cup {Null}
    BY <2>2 DEF TypeOK
  <2>4. QED BY <1>s, <1>k, <2>1, <2>2, <2>3, <1>b
<1>2. CASE SaveRules(t)
  <2>1. PICK rules \in SUBSET Rule :
          /\ Begin(t, "saveRules", "announce", {}, {})
          /\ customRules' = rules /\ acked' = acked \cap rules
          /\ UNCHANGED <<filterLists, idb, manager, world, button, unannounced>>
    BY <1>2 DEF SaveRules
  <2>2. customRules' \in SUBSET Rule /\ acked' \in SUBSET Rule /\ button' \in [List -> Version] \cup {Null}
    BY <2>1 DEF TypeOK
  <2>3. QED BY <1>s, <1>k, <2>1, <2>2, <1>b
<1>3. CASE ClickRemoveRule(t)
  <2>1. PICK r \in Rule : Begin(t, "removeRule", "readRules", {r}, {})
    BY <1>3 DEF ClickRemoveRule
  <2>2. UNCHANGED <<storage, idb, manager, world, page>>
    BY <1>3 DEF ClickRemoveRule
  <2>3. customRules' \in SUBSET Rule /\ acked' \in SUBSET Rule /\ button' \in [List -> Version] \cup {Null}
    BY <2>2 DEF TypeOK
  <2>4. QED BY <1>s, <1>k, <2>1, <2>2, <2>3, <1>b
<1>4. CASE ClickList(t)
  <2>1. PICK l \in List : Begin(t, "editLists", "readLists", {}, {l})
    BY <1>4 DEF ClickList
  <2>2. UNCHANGED <<storage, idb, manager, world, page>> /\ filterLists # Null
    BY <1>4 DEF ClickList
  <2>3. customRules' \in SUBSET Rule /\ acked' \in SUBSET Rule /\ button' \in [List -> Version] \cup {Null}
    BY <2>2 DEF TypeOK
  <2>4. QED BY <1>s, <1>k, <2>1, <2>2, <2>3, <1>b
<1>5. CASE UpdateNow(t)
  <2>1. /\ Begin(t, "updateNow", "getLists", {}, {})
        /\ button' = server
        /\ UNCHANGED <<storage, idb, manager, world, unannounced, acked>>
    BY <1>5 DEF UpdateNow
  <2>2. customRules' \in SUBSET Rule /\ acked' \in SUBSET Rule /\ button' \in [List -> Version] \cup {Null}
    BY <2>1 DEF TypeOK
  <2>3. QED BY <1>s, <1>k, <2>1, <2>2, <1>b
<1>6. CASE ToggleOn(t)
  <2>1. /\ Begin(t, "toggleOn", "loadEngine", {}, {})
        /\ UNCHANGED <<storage, idb, manager, world, page>>
    BY <1>6 DEF ToggleOn
  <2>2. customRules' \in SUBSET Rule /\ acked' \in SUBSET Rule /\ button' \in [List -> Version] \cup {Null}
    BY <2>1 DEF TypeOK
  <2>3. QED BY <1>s, <1>k, <2>1, <2>2, <1>b
<1>7. CASE Alarm(t)
  <2>1. /\ Begin(t, "alarm", "getLists", {}, {})
        /\ UNCHANGED <<storage, idb, manager, world, page>>
    BY <1>7 DEF Alarm
  <2>2. customRules' \in SUBSET Rule /\ acked' \in SUBSET Rule /\ button' \in [List -> Version] \cup {Null}
    BY <2>1 DEF TypeOK
  <2>3. QED BY <1>s, <1>k, <2>1, <2>2, <1>b
<1>8. QED BY <1>1, <1>2, <1>3, <1>4, <1>5, <1>6, <1>7 DEF Message

\* The compiled engine has its type.
LEMMA BuildType ==
  ASSUME TypeOK, NEW t \in Task, Build(t)
  PROVE  TypeOK'
<1> USE DEF storage, idb, manager, world, page, budget
<1>1. task[t] \in TaskState
  BY DEF TypeOK
<1>2. IdleTask \in TaskState /\ \A lists : TaskOK(IdleTask, lists)
  BY NewTaskFacts DEF TaskOK, IdleTask, PC
<1>3. engine' \in Engine /\ stored' \in CacheEntry \cup {Null}
  BY <1>1 DEF Build, Engine, CacheEntry, TaskState, TypeOK
<1>4. /\ alarmSet' \in BOOLEAN /\ engineReady' \in BOOLEAN
      /\ unannounced' \in BOOLEAN /\ forsaken' \in BOOLEAN
  BY DEF Build, Finish, TypeOK
<1>5. button' \in [List -> Version] \cup {Null} /\ acked' \in SUBSET Rule
  BY <1>1 DEF Build, Finish, TypeOK, TaskState
<1>6. Become(t, IdleTask) /\ filterLists' = filterLists
  BY DEF Build, Finish
<1>7. QED BY <1>2, <1>3, <1>4, <1>5, <1>6, BecomeFacts DEF Build, TypeOK

\* Every step keeps the types.
LEMMA NextType == TypeOK /\ [Next]_vars => TypeOK'
<1> SUFFICES ASSUME TypeOK, [Next]_vars PROVE TypeOK'
  OBVIOUS
<1> USE DEF storage, idb, manager, world, page, budget
<1>1. ASSUME NEW t \in Task, Continue(t) PROVE TypeOK'
  BY <1>1, InitializeType, DownloadType, BuildType, GiveUpType, EditType DEF Continue
<1>2. ASSUME NEW t \in Task, Message(t) PROVE TypeOK'
  BY <1>2, MessageType
<1>c. ASSUME NEW t \in Task, ClosePage(t) PROVE TypeOK'
  BY <1>c, ClosePageType
<1>3. CASE ImportSettings
  <2>1. \A u \in Task : TaskOK(task[u], filterLists')
    BY <1>3, NullAssumption DEF ImportSettings, TypeOK, TaskOK
  <2>2. QED BY <1>3, <2>1 DEF ImportSettings, Event, TypeOK
<1>4. CASE Publish
  BY <1>4, BoundAssumption DEF Publish, TypeOK, Version
<1>5. CASE Restart
  <2>1. \A u \in Task : TaskOK(task'[u], filterLists')
    BY <1>5, SessionFacts DEF Restart, TaskOK
  <2>2. task' \in [Task -> TaskState]
    BY <1>5, SessionFacts DEF Restart
  <2>3. /\ engine' = Null /\ engineReady' = FALSE /\ alarmSet' = FALSE /\ forsaken' = FALSE
        /\ button' = Null /\ restarts' = restarts + 1 /\ format' \in 0 .. MaxFormat
        /\ UNCHANGED <<customRules, filterLists, listData, stored, server, unannounced, acked, ops>>
    BY <1>5 DEF Restart
  <2>4. engineReady' \in BOOLEAN /\ alarmSet' \in BOOLEAN /\ forsaken' \in BOOLEAN
    BY <2>3, Zenon
  <2>5. restarts' \in Nat
    BY <2>3, SMT DEF TypeOK
  <2>6. QED BY <2>1, <2>2, <2>3, <2>4, <2>5 DEF TypeOK
<1>6. CASE UNCHANGED vars
  BY <1>6 DEF vars, TypeOK
<1>7. QED BY <1>1, <1>2, <1>c, <1>3, <1>4, <1>5, <1>6 DEF Next

\* The initial state has the types.
LEMMA InitType == Init => TypeOK
<1> SUFFICES ASSUME Init PROVE TypeOK
  OBVIOUS
<1>1. task \in [Task -> TaskState] /\ \A u \in Task : TaskOK(task[u], filterLists)
  BY SessionFacts DEF Init, TaskOK
<1>2. server \in [List -> Version] /\ format \in 0 .. MaxFormat
  BY BoundAssumption DEF Init, Version
<1>3. QED BY <1>1, <1>2, NoTextsType DEF Init, TypeOK

\* The state of the background page is well typed in every reachable state.
THEOREM TypeCorrect == Spec => []TypeOK
BY InitType, NextType, PTL DEF Spec

(***************************************************************************)
(* The custom rules in force.  Seen from the rules, a step is of one of     *)
(* four kinds, and each of the three results below follows from the kinds.  *)
(***************************************************************************)

\* Nothing about the rules changes, and a pending rebuild stays pending.
Quiet == /\ UNCHANGED <<customRules, engine, engineReady>>
         /\ (unannounced => unannounced') /\ (RebuildPending => RebuildPending')
         /\ (forsaken => forsaken')

\* The stored rules change, with a rebuild to follow or behind its back, or
\* the rebuild that was to follow is given up.
Edits == /\ UNCHANGED <<engine, engineReady>>
         /\ RebuildPending' \/ unannounced' \/ forsaken'

\* The stored rules come into force.
Applies == /\ customRules' = customRules
           /\ engineReady' = TRUE /\ engine'.rules = customRules

\* The engine is lost, or emptied with a rebuild to follow.
Loses == /\ customRules' = customRules
         /\ \/ engineReady' = FALSE
            \/ engineReady' = engineReady /\ engine' = EmptyEngine /\ RebuildPending'

Kind == Quiet \/ Edits \/ Applies \/ Loses

\* A handler's new record settles whether a rebuild is pending and whether the
\* cache entries are still coherent.
LEMMA RecordFacts ==
  ASSUME TypeOK, CacheCoherent, NEW t \in Task, NEW r, Become(t, r)
  PROVE  /\ r.pc \in RebuildPC => RebuildPending'
         /\ task[t].pc \notin RebuildPC => (RebuildPending => RebuildPending')
         /\ stored' = stored /\ Coherent(r.cached) => CacheCoherent'
<1>1. task'[t] = r /\ \A u \in Task \ {t} : task'[u] = task[u]
  BY DEF TypeOK, Become
<1>2. QED BY <1>1 DEF RebuildPending, CacheCoherent

\* Records that keep their cache entry, and the record of a handler that ended.
LEMMA IdleFacts == IdleTask.pc = "idle" /\ Coherent(IdleTask.cached)
BY DEF IdleTask, Coherent

\* initialize(): a matching snapshot means current rules; anything else rebuilds.
LEMMA InitializeKind ==
  ASSUME TypeOK, CacheCoherent, NEW t \in Task, Initialize(t)
  PROVE  Kind /\ CacheCoherent'
<1> USE DEF storage, idb, manager, world, page, budget
<1>0. /\ task[t] \in TaskState /\ TaskOK(task[t], filterLists)
      /\ Coherent(task[t].cached) /\ Coherent(stored)
  BY DEF TypeOK, CacheCoherent
<1>1. CASE LoadEngine(t)
  <2> DEFINE r == [task[t] EXCEPT !.cached = stored,
                                  !.pc = IF stored = Null THEN "getLists" ELSE "validate"]
  <2>1. Coherent(r.cached)
    BY <1>0 DEF TaskState
  <2>2. Become(t, r) /\ UNCHANGED <<customRules, engine, engineReady, unannounced, forsaken, stored>>
    BY <1>1 DEF LoadEngine
  <2>3. task[t].pc \notin RebuildPC
    BY <1>1 DEF LoadEngine, RebuildPC
  <2> HIDE DEF r
  <2>4. QED BY <2>1, <2>2, <2>3, RecordFacts DEF Kind, Quiet
<1>2. CASE UseCache(t)
  <2>1. task[t].cached.engine.rules = customRules
    BY <1>0, <1>2 DEF UseCache, CacheIsValid, TaskOK, Coherent
  <2>2. Become(t, IdleTask) /\ stored' = stored
    BY <1>2 DEF UseCache, Finish
  <2>3. Applies
    BY <1>2, <2>1 DEF UseCache, Applies
  <2>4. QED BY <2>2, <2>3, IdleFacts, RecordFacts DEF Kind
<1>3. CASE RejectCache(t)
  <2> DEFINE r == [task[t] EXCEPT !.pc = "getLists"]
  <2>1. r.pc \in RebuildPC /\ Coherent(r.cached)
    BY <1>0 DEF TaskState, RebuildPC
  <2>2. Become(t, r) /\ UNCHANGED <<customRules, engineReady, stored>> /\ engine' = EmptyEngine
    BY <1>3 DEF RejectCache, Goto, Become
  <2> HIDE DEF r
  <2>3. QED BY <2>1, <2>2, RecordFacts DEF Kind, Loses
<1>4. CASE BypassCache(t)
  <2> DEFINE r == [task[t] EXCEPT !.pc = "getLists"]
  <2>1. r.pc \in RebuildPC /\ Coherent(r.cached)
    BY <1>0 DEF TaskState, RebuildPC
  <2>2. Become(t, r) /\ UNCHANGED <<customRules, engine, engineReady, unannounced, forsaken, stored>>
    BY <1>4 DEF BypassCache, Goto, Become
  <2> HIDE DEF r
  <2>3. QED BY <2>1, <2>2, RecordFacts DEF Kind, Quiet
<1>5. QED BY <1>1, <1>2, <1>3, <1>4 DEF Initialize

\* The download loop keeps the rebuild pending and the rules alone.
LEMMA DownloadKind ==
  ASSUME TypeOK, CacheCoherent, NEW t \in Task, Download(t)
  PROVE  Kind /\ CacheCoherent'
<1> USE DEF storage, idb, manager, world, page, budget
<1>0. /\ task[t] \in TaskState /\ TaskOK(task[t], filterLists)
      /\ Coherent(task[t].cached)
  BY DEF TypeOK, CacheCoherent
<1>l. ASSUME task[t].pc \in {"loadList", "fetch", "saveList", "fallback"}
      PROVE  NextList(task[t]) \in List
  BY <1>0, <1>l DEF TaskOK, NextList, TaskState
<1>r. ASSUME NEW r, Become(t, r), r.pc \in RebuildPC, r.cached = task[t].cached,
             UNCHANGED <<customRules, engine, engineReady, unannounced, forsaken, stored>>
      PROVE  Kind /\ CacheCoherent'
  BY <1>0, <1>r, RecordFacts DEF Kind, Quiet
<1>g. ASSUME NEW pc \in RebuildPC, Goto(t, pc),
             UNCHANGED <<customRules, engine, engineReady, unannounced, forsaken, stored>>
      PROVE  Kind /\ CacheCoherent'
  <2> DEFINE r == [task[t] EXCEPT !.pc = pc]
  <2>1. Become(t, r) /\ r.pc = pc /\ r.cached = task[t].cached
    BY <1>0, <1>g DEF Goto, Become, TaskState
  <2> HIDE DEF r
  <2>2. QED BY <1>g, <1>r, <2>1
<1>p. ASSUME NEW l \in List, NEW v \in Version, Become(t, Push(task[t], l, v)),
             UNCHANGED <<customRules, engine, engineReady, unannounced, forsaken, stored>>
      PROVE  Kind /\ CacheCoherent'
  BY <1>0, <1>p, <1>r, PushFacts
<1>1. CASE GetLists(t)
  <2>1. CASE filterLists = Null
    BY <1>1, <2>1, <1>g DEF GetLists, Goto, Become, RebuildPC
  <2>2. CASE filterLists # Null
    <3> DEFINE r == [task[t] EXCEPT !.lists = filterLists, !.todo = filterLists]
    <3>1. r \in TaskState /\ r.cached = task[t].cached
      BY <1>0, <2>2 DEF TaskState, TypeOK
    <3>2. Become(t, Loop(r))
      BY <1>1, <2>2 DEF GetLists
    <3> HIDE DEF r
    <3>3. QED BY <1>1, <1>r, <3>1, <3>2, LoopFacts DEF GetLists
  <2>3. QED BY <2>1, <2>2
<1>2. CASE InitLists(t)
  <2> DEFINE r == [task[t] EXCEPT !.lists = DefaultLists, !.todo = DefaultLists]
  <2>1. r \in TaskState /\ r.cached = task[t].cached
    BY <1>0, ListAssumption DEF TaskState
  <2>2. Become(t, Loop(r))
    BY <1>2 DEF InitLists
  <2> HIDE DEF r
  <2>3. QED BY <1>2, <1>r, <2>1, <2>2, LoopFacts DEF InitLists
<1>3. CASE LoadList(t)
  <2> DEFINE l == NextList(task[t])
  <2>1. l \in List /\ listData[l] \in Version
    BY <1>3, <1>l DEF LoadList, TypeOK
  <2>2. Become(t, Push(task[t], l, listData[l])) \/ Goto(t, "fetch")
    BY <1>3 DEF LoadList
  <2> HIDE DEF l
  <2>3. QED BY <1>3, <1>p, <1>g, <2>1, <2>2 DEF LoadList, RebuildPC
<1>4. CASE Fetch(t)
  <2> DEFINE r == [task[t] EXCEPT !.pc = "saveList", !.text = server[NextList(task[t])]]
  <2>1. r.pc \in RebuildPC /\ r.cached = task[t].cached
    BY <1>0 DEF TaskState, RebuildPC
  <2>2. Become(t, r)
    BY <1>4 DEF Fetch
  <2> HIDE DEF r
  <2>3. QED BY <1>4, <1>r, <2>1, <2>2 DEF Fetch
<1>5. CASE FetchFails(t)
  BY <1>5, <1>g DEF FetchFails, RebuildPC
<1>6. CASE SaveList(t)
  <2>1. NextList(task[t]) \in List /\ task[t].text \in Version
    BY <1>0, <1>6, <1>l DEF SaveList, TaskState
  <2>2. Become(t, Push(task[t], NextList(task[t]), task[t].text))
    BY <1>6 DEF SaveList
  <2>3. QED BY <1>6, <1>p, <2>1, <2>2 DEF SaveList
<1>7. CASE SaveListFails(t)
  BY <1>7, <1>g DEF SaveListFails, RebuildPC
<1>8. CASE Fallback(t)
  <2>1. NextList(task[t]) \in List /\ listData[NextList(task[t])] \in Version
    BY <1>8, <1>l DEF Fallback, TypeOK
  <2>2. Become(t, Push(task[t], NextList(task[t]), listData[NextList(task[t])]))
    BY <1>8 DEF Fallback
  <2>3. QED BY <1>8, <1>p, <2>1, <2>2 DEF Fallback
<1>9. CASE LoadListFails(t)
  BY <1>9, <1>g DEF LoadListFails, RebuildPC
<1>10. CASE FallbackFails(t)
  <2> DEFINE l == NextList(task[t])
             r == [task[t] EXCEPT !.unread = @ \cup {l}]
  <2>1. l \in List /\ 0 \in Version
    BY <1>10, <1>l, BoundAssumption DEF FallbackFails, Version
  <2>2. Become(t, Push(r, l, 0))
    BY <1>10 DEF FallbackFails
  <2>3. r \in TaskState /\ r.cached = task[t].cached
    BY <1>0, <2>1, UnreadFacts
  <2> HIDE DEF l, r
  <2>4. Push(r, l, 0).pc \in RebuildPC /\ Push(r, l, 0).cached = task[t].cached
    BY <2>1, <2>3, PushFacts
  <2>5. QED BY <1>10, <1>r, <2>2, <2>4 DEF FallbackFails
<1>11. QED BY <1>1, <1>2, <1>3, <1>4, <1>5, <1>6, <1>7, <1>8, <1>9, <1>10 DEF Download

\* A finished rebuild puts the stored rules in force and saves them coherently.
LEMMA BuildKind ==
  ASSUME TypeOK, CacheCoherent, NEW t \in Task, Build(t)
  PROVE  Kind /\ CacheCoherent'
<1>1. Applies
  BY DEF Build, Applies, storage
<1>2. Coherent(stored')
  BY DEF Build, Coherent, CacheCoherent
<1>3. Become(t, IdleTask)
  BY DEF Build, Finish
<1>4. CacheCoherent'
  BY <1>2, <1>3, IdleFacts DEF CacheCoherent, Become, TypeOK
<1>5. QED BY <1>1, <1>4 DEF Kind

\* The edits: the rebuild follows, or the rules change behind its back.
LEMMA EditKind ==
  ASSUME TypeOK, CacheCoherent, NEW t \in Task, Edit(t)
  PROVE  Kind /\ CacheCoherent'
<1> USE DEF storage, idb, manager, world, page, budget
<1>0. task[t] \in TaskState /\ Coherent(task[t].cached)
  BY DEF TypeOK, CacheCoherent
<1>q. ASSUME NEW r, Become(t, r), Coherent(r.cached), task[t].pc \notin RebuildPC,
             UNCHANGED <<customRules, engine, engineReady, unannounced, forsaken, stored>>
      PROVE  Kind /\ CacheCoherent'
  BY <1>q, RecordFacts DEF Kind, Quiet
<1>1. CASE ReadRules(t)
  <2> DEFINE r == [task[t] EXCEPT !.rules = customRules, !.pc = "writeRules"]
  <2>1. Become(t, r) /\ task[t].pc \notin RebuildPC
    BY <1>1 DEF ReadRules, RebuildPC
  <2>2. Coherent(r.cached)
    BY <1>0 DEF TaskState
  <2> HIDE DEF r
  <2>3. QED BY <1>1, <1>q, <2>1, <2>2 DEF ReadRules
<1>2. CASE AppendRule(t)
  <2> DEFINE r == [task[t] EXCEPT !.pc = "getLists"]
  <2>1. r.pc \in RebuildPC /\ Coherent(r.cached)
    BY <1>0 DEF TaskState, RebuildPC
  <2>2. Become(t, r) /\ UNCHANGED <<engine, engineReady, stored>>
    BY <1>2 DEF AppendRule, Goto, Become
  <2> HIDE DEF r
  <2>3. QED BY <2>1, <2>2, RecordFacts DEF Kind, Edits
<1>3. CASE RemoveRule(t)
  <2>1. Become(t, IdleTask) /\ UNCHANGED <<engine, engineReady, stored>> /\ unannounced'
    BY <1>3 DEF RemoveRule
  <2>2. QED BY <2>1, IdleFacts, RecordFacts DEF Kind, Edits
<1>4. CASE ReadLists(t)
  <2> DEFINE r == [task[t] EXCEPT !.lists = filterLists, !.pc = "writeLists"]
  <2>1. Become(t, r) /\ task[t].pc \notin RebuildPC
    BY <1>4 DEF ReadLists, RebuildPC
  <2>2. Coherent(r.cached)
    BY <1>0 DEF TaskState
  <2> HIDE DEF r
  <2>3. QED BY <1>4, <1>q, <2>1, <2>2 DEF ReadLists
<1>5. CASE WriteLists(t)
  <2>1. Become(t, IdleTask) /\ task[t].pc \notin RebuildPC
    BY <1>5 DEF WriteLists, RebuildPC
  <2>2. QED BY <1>5, <1>q, <2>1, IdleFacts DEF WriteLists
<1>6. CASE Announce(t)
  <2> DEFINE r == [task[t] EXCEPT !.pc = "getLists"]
  <2>1. r.pc \in RebuildPC /\ Coherent(r.cached)
    BY <1>0 DEF TaskState, RebuildPC
  <2>2. Become(t, r)
    BY <1>6 DEF Announce, Goto, Become
  <2> HIDE DEF r
  <2>3. QED BY <1>6, <2>1, <2>2, RecordFacts DEF Announce, Kind, Quiet
<1>7. CASE EditFails(t)
  <2> DEFINE r == [task[t] EXCEPT !.pc = "getLists", !.arg = {}]
  <2>1. (Become(t, IdleTask) \/ Become(t, r)) /\ task[t].pc \notin RebuildPC
    BY <1>7 DEF EditFails, RebuildPC
  <2>2. Coherent(r.cached)
    BY <1>0 DEF TaskState
  <2> HIDE DEF r
  <2>3. QED BY <1>7, <1>q, <2>1, <2>2, IdleFacts DEF EditFails
<1>8. QED BY <1>1, <1>2, <1>3, <1>4, <1>5, <1>6, <1>7 DEF Edit

\* A handler that gives up leaves its rebuild owed.
LEMMA GiveUpKind ==
  ASSUME TypeOK, CacheCoherent, NEW t \in Task, GiveUp(t)
  PROVE  Kind /\ CacheCoherent'
<1> USE DEF storage, idb, manager, world, page, budget
<1>1. Become(t, IdleTask) /\ UNCHANGED <<engine, engineReady, stored>> /\ forsaken'
  BY DEF GiveUp
<1>2. QED BY <1>1, IdleFacts, RecordFacts DEF Kind, Edits

\* A closed page leaves its edit unannounced if it was about to announce it.
LEMMA ClosePageKind ==
  ASSUME TypeOK, CacheCoherent, NEW t \in Task, ClosePage(t)
  PROVE  Kind /\ CacheCoherent'
<1> USE DEF storage, idb, manager, world, page, budget
<1>1. Become(t, IdleTask) /\ UNCHANGED <<customRules, engine, engineReady, forsaken, stored>>
  BY DEF ClosePage
<1>2. CASE task[t].pc = "announce"
  <2>1. unannounced'
    BY <1>2 DEF ClosePage
  <2>2. QED BY <1>1, <2>1, IdleFacts, RecordFacts DEF Kind, Edits
<1>3. CASE task[t].pc # "announce"
  <2>1. task[t].pc \notin RebuildPC /\ (unannounced => unannounced')
    BY <1>3 DEF ClosePage, RebuildPC
  <2>2. QED BY <1>1, <2>1, IdleFacts, RecordFacts DEF Kind, Quiet
<1>4. QED BY <1>2, <1>3

\* A handler that begins: only saveRules changes the rules, and it rebuilds.
LEMMA MessageKind ==
  ASSUME TypeOK, CacheCoherent, NEW t \in Task, Message(t)
  PROVE  Kind /\ CacheCoherent'
<1> USE DEF storage, idb, manager, world, page, budget
<1>b. ASSUME NEW op, NEW pc, NEW arg, NEW edit, Begin(t, op, pc, arg, edit),
             UNCHANGED <<engine, engineReady, unannounced, forsaken, stored>>,
             customRules' = customRules \/ pc = "announce"
      PROVE  Kind /\ CacheCoherent'
  <2> DEFINE r == NewTask(op, pc, arg, edit)
  <2>1. Become(t, r) /\ task[t].pc = "idle"
    BY <1>b DEF Begin
  <2>2. r.pc = pc /\ Coherent(r.cached)
    BY DEF NewTask, IdleTask, Coherent
  <2> HIDE DEF r
  <2>3. QED BY <1>b, <2>1, <2>2, RecordFacts DEF Kind, Quiet, Edits, RebuildPC
<1>1. CASE CreateRule(t)
  BY <1>1, <1>b DEF CreateRule
<1>2. CASE SaveRules(t)
  BY <1>2, <1>b DEF SaveRules
<1>3. CASE ClickRemoveRule(t)
  BY <1>3, <1>b DEF ClickRemoveRule
<1>4. CASE ClickList(t)
  BY <1>4, <1>b DEF ClickList
<1>5. CASE UpdateNow(t)
  BY <1>5, <1>b DEF UpdateNow
<1>6. CASE ToggleOn(t)
  BY <1>6, <1>b DEF ToggleOn
<1>7. CASE Alarm(t)
  BY <1>7, <1>b DEF Alarm
<1>8. QED BY <1>1, <1>2, <1>3, <1>4, <1>5, <1>6, <1>7 DEF Message

\* Every step is of one of the kinds and keeps the cache coherent.
LEMMA NextKind ==
  ASSUME TypeOK, CacheCoherent, [Next]_vars
  PROVE  Kind /\ CacheCoherent'
<1> USE DEF storage, idb, manager, world, page, budget
<1>1. ASSUME NEW t \in Task, Continue(t) PROVE Kind /\ CacheCoherent'
  BY <1>1, InitializeKind, DownloadKind, BuildKind, GiveUpKind, EditKind DEF Continue
<1>2. ASSUME NEW t \in Task, Message(t) PROVE Kind /\ CacheCoherent'
  BY <1>2, MessageKind
<1>c. ASSUME NEW t \in Task, ClosePage(t) PROVE Kind /\ CacheCoherent'
  BY <1>c, ClosePageKind
<1>3. CASE ImportSettings
  BY <1>3 DEF ImportSettings, Kind, Edits, CacheCoherent
<1>4. CASE Publish
  BY <1>4 DEF Publish, Kind, Quiet, RebuildPending, CacheCoherent
<1>5. CASE Restart
  <2>1. Loses
    BY <1>5 DEF Restart, Loses
  <2>2. CacheCoherent'
    BY <1>5, SessionFacts DEF Restart, CacheCoherent, Coherent
  <2>3. QED BY <2>1, <2>2 DEF Kind
<1>6. CASE UNCHANGED vars
  BY <1>6 DEF vars, Kind, Quiet, RebuildPending, CacheCoherent
<1>7. QED BY <1>1, <1>2, <1>c, <1>3, <1>4, <1>5, <1>6 DEF Next

\* The inductive invariant.  EngineRulesCurrent alone is not inductive: the
\* fast path of initialize() installs a stored engine after comparing only its
\* snapshot, which is enough because the entry is coherent.
IInv == TypeOK /\ CacheCoherent /\ EngineRulesCurrent

\* It holds initially: no engine is ready and no entry is cached.
LEMMA InitIInv == Init => IInv
<1> SUFFICES ASSUME Init PROVE IInv
  OBVIOUS
<1>1. CacheCoherent
  BY SessionFacts DEF Init, CacheCoherent, Coherent
<1>2. EngineRulesCurrent
  BY DEF Init, EngineRulesCurrent
<1>3. QED BY <1>1, <1>2, InitType DEF IInv

\* Every step keeps it.
LEMMA NextIInv == IInv /\ [Next]_vars => IInv'
<1> SUFFICES ASSUME IInv, [Next]_vars PROVE IInv'
  OBVIOUS
<1>1. TypeOK' /\ Kind /\ CacheCoherent'
  BY NextType, NextKind DEF IInv
<1>2. EngineRulesCurrent'
  <2>1. CASE Quiet
    BY <2>1 DEF Quiet, IInv, EngineRulesCurrent
  <2>2. CASE Edits
    BY <2>2 DEF Edits, EngineRulesCurrent
  <2>3. CASE Applies
    BY <2>3 DEF Applies, EngineRulesCurrent
  <2>4. CASE Loses
    BY <2>4 DEF Loses, EngineRulesCurrent
  <2>5. QED BY <1>1, <2>1, <2>2, <2>3, <2>4 DEF Kind
<1>3. QED BY <1>1, <1>2 DEF IInv

\* The inductive invariant holds in every reachable state.
THEOREM Inductive == Spec => []IInv
BY InitIInv, NextIInv, PTL DEF Spec

\* Whatever edits, rebuilds, cache loads, failures and restarts came before,
\* an engine that is ready with no rebuild under way or given up and no
\* unannounced edit enforces exactly the stored custom rules.
THEOREM RulesCurrent == Spec => []EngineRulesCurrent
<1>1. IInv => EngineRulesCurrent
  BY DEF IInv
<1>2. QED BY <1>1, Inductive, PTL

\* Every engine cache entry, saved or being loaded, was compiled from the
\* rules of its snapshot.
THEOREM CacheAlwaysCoherent == Spec => []CacheCoherent
<1>1. IInv => CacheCoherent
  BY DEF IInv
<1>2. QED BY <1>1, Inductive, PTL

(***************************************************************************)
(* The refinement of RulesInForce.                                         *)
(***************************************************************************)

\* Every step of the background page is a step of RulesInForce or a stutter:
\* each kind maps to one of its actions.
LEMMA RefineStep == IInv /\ IInv' /\ [Next]_vars => [Promise!Next]_(Promise!vars)
<1> SUFFICES ASSUME IInv, IInv', [Next]_vars PROVE [Promise!Next]_(Promise!vars)
  OBVIOUS
<1> DEFINE F == IF engineReady THEN engine.rules ELSE Null
           B == ~engineReady \/ RebuildPending \/ unannounced \/ forsaken
<1>1. Kind
  BY NextKind DEF IInv
<1>2. customRules' \in SUBSET Rule /\ engineReady \in BOOLEAN /\ engineReady' \in BOOLEAN
  BY DEF IInv, TypeOK
<1>3. CASE Quiet
  <2>1. customRules' = customRules /\ F' = F /\ (B => B')
    BY <1>3 DEF Quiet
  <2>2. CASE B' = B
    BY <2>1, <2>2 DEF Promise!vars
  <2>3. CASE B' # B
    BY <2>1, <2>3 DEF Promise!Next, Promise!Owe
  <2>4. QED BY <2>2, <2>3
<1>4. CASE Edits
  <2>1. F' = F /\ B' = TRUE
    BY <1>4 DEF Edits
  <2>2. QED BY <1>2, <2>1 DEF Promise!Next, Promise!Edit
<1>5. CASE Applies
  <2>1. customRules' = customRules /\ F' = customRules /\ B' \in BOOLEAN
    BY <1>5 DEF Applies
  <2>2. QED BY <2>1 DEF Promise!Next, Promise!Apply
<1>6. CASE Loses
  <2>1. customRules' = customRules /\ B' = TRUE
    BY <1>6 DEF Loses
  <2>2. F' \in {Null, {}}
    BY <1>2, <1>6 DEF Loses, EmptyEngine
  <2>3. QED BY <2>1, <2>2 DEF Promise!Next, Promise!Lose
<1>7. QED BY <1>1, <1>3, <1>4, <1>5, <1>6 DEF Kind

\* The background page implements its promise about custom rules.
THEOREM RulesRefinement == Spec => ImplementsRulesInForce
<1>1. Init => Promise!Init
  BY DEF Init, Promise!Init
<1>2. QED BY <1>1, RefineStep, Inductive, PTL DEF Spec, ImplementsRulesInForce, Promise!Spec
(***************************************************************************)
(* Rebuilds only go forward: the texts an engine holds, those in the list  *)
(* store and those on the servers.                                         *)
(***************************************************************************)

\* No handler begins while another one is under way, and no settings are
\* imported then: what RebuildNeverRegresses takes for granted.
OneAtATime   == \A t, u \in Task : task[t].pc # "idle" /\ task[u].pc # "idle" => t = u
ImportsAlone == ImportSettings => \A t \in Task : task[t].pc = "idle"

\* The texts of engine e are not newer than those of the list store d.
Within(d, e) == \A l \in List : e.lists[l] <= d[l]

\* The loop of handler r works on the stored selection, and what it has
\* pushed so far is what the list store d holds, but for what it could not read.
InLoop == {"loadList", "fetch", "saveList", "fallback", "build"}
Gathered(r, d, lists) ==
  /\ lists # Null /\ r.lists = lists /\ r.todo \subseteq lists
  /\ \A l \in lists \ (r.todo \cup r.unread) : r.got[l] = d[l]

\* What handler r knows agrees with list store d, cache entry s, selection
\* lists and server texts v.
HandlerAgrees(r, d, s, lists, v) ==
  /\ \A l \in List : r.got[l] <= d[l]
  /\ r.pc = "validate" => r.cached = s
  /\ r.pc = "saveList" => d[NextList(r)] <= r.text /\ r.text <= v[NextList(r)]
  /\ r.pc \in InLoop => Gathered(r, d, lists)
  /\ r.pc = "build" => r.todo = {}

\* The strengthening RebuildNeverRegresses needs: an engine, installed or
\* cached, is not ahead of the list store, nor the list store of the servers.
FreshInv ==
  /\ \A l \in List : listData[l] <= server[l]
  /\ engine # Null => Within(listData, engine)
  /\ stored # Null => Within(listData, stored.engine)
  /\ \A t \in Task : HandlerAgrees(task[t], listData, stored, filterLists, server)

\* A rebuild step that takes no enabled list out and no older text in.
Forward == \A t \in Task :
  (task[t].pc = "build" /\ engine # Null /\ engine' \notin {Null, engine})
     => \A l \in filterLists \ task[t].unread : engine'.lists[l] >= engine.lists[l]

\* The loop goes on, or ends with every list of the selection gathered.
LEMMA LoopAgrees ==
  ASSUME NEW r \in TaskState, NEW d \in [List -> Version], NEW s, NEW lists, NEW v,
         \A l \in List : r.got[l] <= d[l], Gathered(r, d, lists)
  PROVE  HandlerAgrees(Loop(r), d, s, lists, v)
<1>1. CASE r.todo # {}
  <2> DEFINE pc == IF r.force THEN "fetch" ELSE "loadList"
             q == [r EXCEPT !.pc = pc]
  <2>1. Loop(r) = q
    BY <1>1 DEF Loop, TaskState
  <2>2. q.pc = pc /\ q.got = r.got /\ q.lists = r.lists /\ q.todo = r.todo /\ q.unread = r.unread
    BY DEF TaskState
  <2> HIDE DEF q
  <2>3. QED BY <2>1, <2>2 DEF HandlerAgrees, Gathered, InLoop
<1>2. CASE r.todo = {} /\ r.force
  <2> DEFINE q == [r EXCEPT !.pc = "getLists", !.force = FALSE, !.got = NoTexts, !.unread = {}]
  <2>1. Loop(r) = q
    BY <1>2 DEF Loop
  <2>2. q.pc = "getLists" /\ q.got = NoTexts
    BY DEF TaskState
  <2>3. \A l \in List : NoTexts[l] <= d[l]
    BY DEF NoTexts, Version
  <2> HIDE DEF q
  <2>4. QED BY <2>1, <2>2, <2>3 DEF HandlerAgrees, InLoop
<1>3. CASE r.todo = {} /\ ~r.force
  <2> DEFINE q == [r EXCEPT !.pc = "build"]
  <2>1. Loop(r) = q
    BY <1>3 DEF Loop
  <2>2. q.pc = "build" /\ q.got = r.got /\ q.lists = r.lists /\ q.todo = r.todo /\ q.unread = r.unread
    BY DEF TaskState
  <2> HIDE DEF q
  <2>3. QED BY <1>3, <2>1, <2>2 DEF HandlerAgrees, Gathered, InLoop
<1>4. QED BY <1>1, <1>2, <1>3

\* An iteration that pushes what list store d holds of its list l, or less of a
\* list it could not read: the other lists of the selection were gathered
\* already, could not be read or are still to come.
LEMMA PushAgrees ==
  ASSUME NEW r \in TaskState, NEW d \in [List -> Version], NEW s, NEW lists, NEW v,
         NEW l \in List, NEW x \in Version, x <= d[l], x = d[l] \/ l \in r.unread,
         \A k \in List \ {l} : r.got[k] <= d[k],
         lists # Null, r.lists = lists, r.todo \subseteq lists,
         \A k \in lists \ (r.todo \cup r.unread) : k # l => r.got[k] = d[k]
  PROVE  HandlerAgrees(Push(r, l, x), d, s, lists, v)
<1> DEFINE q == [r EXCEPT !.todo = @ \ {l}, !.text = 0, !.got[l] = x]
<1>2. q \in TaskState
  <2> DEFINE a == [r EXCEPT !.todo = r.todo \ {l}]
             b == [a EXCEPT !.text = 0]
             c == [b EXCEPT !.got = [r.got EXCEPT ![l] = x]]
  <2>1. a \in TaskState /\ a.got = r.got
    BY DEF TaskState
  <2>2. b \in TaskState /\ b.got = r.got
    <3> HIDE DEF a
    <3> QED BY <2>1, BoundAssumption DEF TaskState, Version
  <2>3. c \in TaskState
    <3> HIDE DEF b
    <3>1. [r.got EXCEPT ![l] = x] \in [List -> Version]
      BY DEF TaskState
    <3> QED BY <2>2, <3>1 DEF TaskState
  <2>4. q = c
    BY DEF TaskState
  <2>5. QED BY <2>3, <2>4
<1>3. /\ q.todo = r.todo \ {l} /\ q.lists = r.lists /\ q.unread = r.unread
      /\ q.got = [r.got EXCEPT ![l] = x]
  BY DEF TaskState
<1>4. r.got \in [List -> Version] /\ (lists # Null => lists \subseteq List)
  BY DEF TaskState
<1> HIDE DEF q
<1>5. q.got[l] = x /\ \A k \in List \ {l} : q.got[k] = r.got[k]
  BY <1>3, <1>4
<1>6. \A k \in List : q.got[k] <= d[k]
  BY <1>5
<1>7. Gathered(q, d, lists)
  BY <1>3, <1>4, <1>5 DEF Gathered
<1>8. QED BY <1>2, <1>6, <1>7, LoopAgrees DEF Push, q

\* A step of one handler while the others are idle: they still agree.
LEMMA OthersAgree ==
  ASSUME TypeOK, FreshInv, NEW t \in Task, NEW r, Become(t, r),
         \A u \in Task \ {t} : task[u].pc = "idle",
         listData' \in [List -> Version], \A l \in List : listData[l] <= listData'[l],
         HandlerAgrees(r, listData', stored', filterLists', server')
  PROVE  \A u \in Task : HandlerAgrees(task'[u], listData', stored', filterLists', server')
<1>1. task'[t] = r /\ \A u \in Task \ {t} : task'[u] = task[u]
  BY DEF TypeOK, Become
<1>2. ASSUME NEW u \in Task \ {t}
      PROVE  HandlerAgrees(task[u], listData', stored', filterLists', server')
  <2>1. task[u] \in TaskState /\ listData \in [List -> Version]
    BY DEF TypeOK
  <2>2. \A l \in List : task[u].got[l] <= listData[l]
    BY DEF FreshInv, HandlerAgrees
  <2>3. \A l \in List : task[u].got[l] <= listData'[l]
    <3> SUFFICES ASSUME NEW l \in List PROVE task[u].got[l] <= listData'[l]
      OBVIOUS
    <3>1. task[u].got[l] \in Nat /\ listData[l] \in Nat /\ listData'[l] \in Nat
      BY <2>1 DEF TaskState, Version
    <3>2. QED BY <2>2, <3>1
  <2>4. task[u].pc = "idle"
    OBVIOUS
  <2>5. QED BY <2>3, <2>4 DEF HandlerAgrees, InLoop
<1>3. QED BY <1>1, <1>2

\* The same for a step that leaves the stores, the engine and the servers alone.
LEMMA FreshFrame ==
  ASSUME TypeOK, FreshInv, NEW t \in Task, NEW r, Become(t, r),
         \A u \in Task \ {t} : task[u].pc = "idle",
         UNCHANGED <<listData, stored, server, engine>>,
         HandlerAgrees(r, listData, stored, filterLists', server)
  PROVE  FreshInv' /\ Forward
<1>1. listData' \in [List -> Version] /\ \A l \in List : listData[l] <= listData'[l]
  BY DEF TypeOK, Version
<1>2. QED BY <1>1, OthersAgree DEF FreshInv, Forward, Within

\* Records that have gathered nothing agree with every store: the idle one,
\* that of a handler that begins, and one outside the loop.
LEMMA OutsideAgrees ==
  ASSUME TypeOK, NEW r, NEW s, NEW lists, NEW v,
         \A l \in List : r.got[l] <= listData[l],
         r.pc \notin InLoop, r.pc = "validate" => r.cached = s
  PROVE  HandlerAgrees(r, listData, s, lists, v)
BY DEF HandlerAgrees, InLoop

LEMMA FreshRecords ==
  ASSUME TypeOK
  PROVE  /\ \A op, pc, arg, edit : \A l \in List :
              NewTask(op, pc, arg, edit).got[l] <= listData[l]
         /\ \A l \in List : IdleTask.got[l] <= listData[l]
<1>1. IdleTask.got = NoTexts /\ \A op, pc, arg, edit : NewTask(op, pc, arg, edit).got = NoTexts
  BY DEF IdleTask, NewTask
<1>2. \A l \in List : NoTexts[l] <= listData[l]
  BY DEF NoTexts, TypeOK, Version
<1>3. QED BY <1>1, <1>2

\* initialize() installs the entry it read, which is still the stored one, or
\* leaves the engine empty: neither is a rebuild step.
LEMMA InitializeFresh ==
  ASSUME TypeOK, FreshInv, NEW t \in Task, Initialize(t),
         \A u \in Task \ {t} : task[u].pc = "idle"
  PROVE  FreshInv' /\ Forward
<1> USE DEF storage, idb, manager, world, page, budget
<1>0. task[t] \in TaskState /\ HandlerAgrees(task[t], listData, stored, filterLists, server)
  BY DEF TypeOK, FreshInv
<1>d. listData' = listData => /\ listData' \in [List -> Version]
                              /\ \A l \in List : listData[l] <= listData'[l]
  BY DEF TypeOK, Version
<1>b. \A u \in Task : task[u].pc # "build"
  BY DEF Initialize, LoadEngine, UseCache, RejectCache, BypassCache
<1>1. CASE LoadEngine(t)
  <2> DEFINE r == [task[t] EXCEPT !.cached = stored,
                                  !.pc = IF stored = Null THEN "getLists" ELSE "validate"]
  <2>1. r.got = task[t].got /\ r.cached = stored /\ r.pc \notin InLoop
    BY <1>0 DEF TaskState, InLoop
  <2>2. Become(t, r) /\ UNCHANGED <<listData, stored, server, engine>>
    BY <1>1 DEF LoadEngine
  <2> HIDE DEF r
  <2>3. HandlerAgrees(r, listData, stored, filterLists', server)
    BY <1>0, <2>1 DEF HandlerAgrees, InLoop
  <2>4. QED BY <2>2, <2>3, FreshFrame
<1>2. CASE UseCache(t)
  <2>1. task[t].cached = stored /\ stored # Null
    BY <1>0, <1>2 DEF UseCache, HandlerAgrees, TypeOK, TaskOK
  <2>2. engine' = stored.engine /\ UNCHANGED <<listData, stored, server>>
    BY <1>2, <2>1 DEF UseCache
  <2>3. Become(t, IdleTask)
    BY <1>2 DEF UseCache, Finish
  <2>4. HandlerAgrees(IdleTask, listData, stored, filterLists', server)
    BY OutsideAgrees, FreshRecords DEF InLoop, IdleTask
  <2>5. \A u \in Task : HandlerAgrees(task'[u], listData', stored', filterLists', server')
    BY <1>d, <2>2, <2>3, <2>4, OthersAgree
  <2>6. Forward
    BY <1>b DEF Forward
  <2>7. QED BY <2>1, <2>2, <2>5, <2>6 DEF FreshInv, Within
<1>3. CASE RejectCache(t)
  <2> DEFINE r == [task[t] EXCEPT !.pc = "getLists"]
  <2>1. r.got = task[t].got /\ r.pc = "getLists"
    BY <1>0 DEF TaskState
  <2>2. Become(t, r) /\ UNCHANGED <<listData, stored, server>> /\ engine' = EmptyEngine
    BY <1>3 DEF RejectCache, Goto, Become
  <2> HIDE DEF r
  <2>3. HandlerAgrees(r, listData, stored, filterLists', server)
    BY <1>0, <2>1 DEF HandlerAgrees, InLoop
  <2>4. \A u \in Task : HandlerAgrees(task'[u], listData', stored', filterLists', server')
    BY <1>d, <2>2, <2>3, OthersAgree
  <2>5. Within(listData, EmptyEngine)
    BY DEF Within, EmptyEngine, NoTexts, TypeOK, Version
  <2>6. QED BY <1>b, <2>2, <2>4, <2>5 DEF FreshInv, Forward, Within
<1>4. CASE BypassCache(t)
  <2> DEFINE r == [task[t] EXCEPT !.pc = "getLists"]
  <2>1. r.got = task[t].got /\ r.pc = "getLists"
    BY <1>0 DEF TaskState
  <2>2. Become(t, r) /\ UNCHANGED <<listData, stored, server, engine>>
    BY <1>4 DEF BypassCache, Goto, Become
  <2> HIDE DEF r
  <2>3. HandlerAgrees(r, listData, stored, filterLists', server)
    BY <1>0, <2>1 DEF HandlerAgrees, InLoop
  <2>4. QED BY <2>2, <2>3, FreshFrame
<1>5. QED BY <1>1, <1>2, <1>3, <1>4 DEF Initialize

\* The download loop gathers what the list store holds, and saves nothing
\* older than what was there: it fetched from a server that is ahead of it.
LEMMA DownloadFresh ==
  ASSUME TypeOK, FreshInv, NEW t \in Task, Download(t),
         \A u \in Task \ {t} : task[u].pc = "idle"
  PROVE  FreshInv' /\ Forward
<1> USE DEF storage, idb, manager, world, page, budget
<1>0. /\ task[t] \in TaskState /\ TaskOK(task[t], filterLists)
      /\ HandlerAgrees(task[t], listData, stored, filterLists, server)
  BY DEF TypeOK, FreshInv
<1>d. listData \in [List -> Version] /\ server \in [List -> Version]
  BY DEF TypeOK
<1>l. ASSUME task[t].pc \in {"loadList", "fetch", "saveList", "fallback"}
      PROVE  NextList(task[t]) \in List
  BY <1>0, <1>l DEF TaskOK, NextList, TaskState
<1>g. ASSUME NEW pc \in {"initLists", "fetch", "fallback"}, Goto(t, pc),
             pc # "initLists" => task[t].pc \in InLoop,
             UNCHANGED <<filterLists, listData, stored, server, engine>>
      PROVE  FreshInv' /\ Forward
  <2> DEFINE r == [task[t] EXCEPT !.pc = pc]
  <2>1. /\ Become(t, r) /\ r.pc = pc /\ r.got = task[t].got /\ r.lists = task[t].lists /\ r.todo = task[t].todo
        /\ r.unread = task[t].unread
    BY <1>0, <1>g DEF Goto, Become, TaskState
  <2> HIDE DEF r
  <2>2. HandlerAgrees(r, listData, stored, filterLists', server)
    BY <1>0, <1>g, <2>1 DEF HandlerAgrees, Gathered, InLoop
  <2>3. QED BY <1>g, <2>1, <2>2, FreshFrame
<1>p. ASSUME NEW l \in List, Become(t, Push(task[t], l, listData[l])), task[t].pc \in InLoop,
             UNCHANGED <<filterLists, listData, stored, server, engine>>
      PROVE  FreshInv' /\ Forward
  <2>1. /\ filterLists # Null /\ task[t].lists = filterLists /\ task[t].todo \subseteq filterLists
        /\ \A k \in filterLists \ (task[t].todo \cup task[t].unread) : task[t].got[k] = listData[k]
        /\ \A k \in List : task[t].got[k] <= listData[k]
    BY <1>0, <1>p DEF HandlerAgrees, Gathered
  <2>2. listData[l] \in Version /\ listData[l] <= listData[l]
    BY <1>d, <1>p DEF Version
  <2>3. HandlerAgrees(Push(task[t], l, listData[l]), listData, stored, filterLists, server)
    BY <1>0, <1>d, <1>p, <2>1, <2>2, PushAgrees
  <2>4. QED BY <1>p, <2>3, FreshFrame
<1>1. CASE GetLists(t)
  <2>1. CASE filterLists = Null
    BY <1>1, <2>1, <1>g DEF GetLists, Goto, Become
  <2>2. CASE filterLists # Null
    <3> DEFINE r == [task[t] EXCEPT !.lists = filterLists, !.todo = filterLists]
    <3>1. r \in TaskState /\ r.got = task[t].got /\ r.lists = filterLists /\ r.todo = filterLists
      BY <1>0, <2>2 DEF TaskState, TypeOK
    <3>2. Become(t, Loop(r)) /\ UNCHANGED <<filterLists, listData, stored, server, engine>>
      BY <1>1, <2>2 DEF GetLists
    <3> HIDE DEF r
    <3>3. Gathered(r, listData, filterLists)
      BY <2>2, <3>1 DEF Gathered
    <3>4. HandlerAgrees(Loop(r), listData, stored, filterLists', server)
      BY <1>0, <1>d, <3>1, <3>2, <3>3, LoopAgrees DEF HandlerAgrees
    <3>5. QED BY <3>2, <3>4, FreshFrame
  <2>3. QED BY <2>1, <2>2
<1>2. CASE InitLists(t)
  <2> DEFINE r == [task[t] EXCEPT !.lists = DefaultLists, !.todo = DefaultLists]
  <2>1. r \in TaskState /\ r.got = task[t].got /\ r.lists = DefaultLists /\ r.todo = DefaultLists
    BY <1>0, ListAssumption DEF TaskState
  <2>2. /\ Become(t, Loop(r)) /\ filterLists' = DefaultLists
        /\ UNCHANGED <<listData, stored, server, engine>>
    BY <1>2 DEF InitLists
  <2> HIDE DEF r
  <2>3. Gathered(r, listData, DefaultLists)
    BY <2>1, ListAssumption, NullAssumption DEF Gathered
  <2>4. HandlerAgrees(Loop(r), listData, stored, filterLists', server)
    BY <1>0, <1>d, <2>1, <2>2, <2>3, LoopAgrees DEF HandlerAgrees
  <2>5. QED BY <2>2, <2>4, FreshFrame
<1>3. CASE LoadList(t)
  <2>1. NextList(task[t]) \in List /\ task[t].pc \in InLoop
    BY <1>3, <1>l DEF LoadList, InLoop
  <2>2. \/ Become(t, Push(task[t], NextList(task[t]), listData[NextList(task[t])]))
        \/ Goto(t, "fetch")
    BY <1>3 DEF LoadList
  <2>3. QED BY <1>3, <1>p, <1>g, <2>1, <2>2 DEF LoadList
<1>4. CASE Fetch(t)
  <2> DEFINE l == NextList(task[t])
             r == [task[t] EXCEPT !.pc = "saveList", !.text = server[l]]
  <2>1. l \in List
    BY <1>4, <1>l DEF Fetch
  <2>2. /\ r.pc = "saveList" /\ r.text = server[l] /\ r.got = task[t].got
        /\ r.lists = task[t].lists /\ r.todo = task[t].todo /\ r.unread = task[t].unread
    BY <1>0 DEF TaskState
  <2>3. NextList(r) = l
    BY <2>2 DEF NextList
  <2>4. Become(t, r) /\ UNCHANGED <<filterLists, listData, stored, server, engine>>
    BY <1>4 DEF Fetch
  <2>5. listData[l] <= server[l] /\ server[l] <= server[l]
    BY <1>d, <2>1 DEF FreshInv, Version
  <2>6. Gathered(task[t], listData, filterLists)
    BY <1>0, <1>4 DEF Fetch, HandlerAgrees, InLoop
  <2>7. \A k \in List : task[t].got[k] <= listData[k]
    BY <1>0 DEF HandlerAgrees
  <2> HIDE DEF r, l
  <2>8. Gathered(r, listData, filterLists)
    BY <2>2, <2>6 DEF Gathered
  <2>9. HandlerAgrees(r, listData, stored, filterLists', server)
    BY <2>2, <2>3, <2>4, <2>5, <2>7, <2>8 DEF HandlerAgrees
  <2>10. QED BY <2>4, <2>9, FreshFrame
<1>5. CASE FetchFails(t)
  BY <1>5, <1>g DEF FetchFails, InLoop
<1>6. CASE SaveList(t)
  <2> DEFINE l == NextList(task[t])
  <2>1. l \in List /\ task[t].text \in Version
    BY <1>0, <1>6, <1>l DEF SaveList, TaskState
  <2>2. /\ Become(t, Push(task[t], l, task[t].text))
        /\ listData' = [listData EXCEPT ![l] = task[t].text]
        /\ UNCHANGED <<filterLists, stored, server, engine>>
    BY <1>6 DEF SaveList
  <2>3. listData[l] <= task[t].text /\ task[t].text <= server[l]
    BY <1>0, <1>6 DEF HandlerAgrees, SaveList
  <2>4. /\ Gathered(task[t], listData, filterLists)
        /\ \A k \in List : task[t].got[k] <= listData[k]
    BY <1>0, <1>6 DEF SaveList, HandlerAgrees, InLoop
  <2> HIDE DEF l
  <2>5. /\ listData' \in [List -> Version] /\ listData'[l] = task[t].text
        /\ \A k \in List \ {l} : listData'[k] = listData[k]
    BY <1>d, <2>1, <2>2
  <2>6. \A k \in List : listData[k] <= listData'[k] /\ listData'[k] <= server[k]
    BY <1>d, <2>3, <2>5 DEF FreshInv, Version
  <2>7. filterLists \in SUBSET List
    BY <2>4 DEF Gathered, TypeOK
  <2>8. HandlerAgrees(Push(task[t], l, listData'[l]), listData', stored, filterLists, server)
    <3>1. \A k \in List \ {l} : task[t].got[k] <= listData'[k]
      BY <2>4, <2>5
    <3>2. \A k \in filterLists \ (task[t].todo \cup task[t].unread) : k # l => task[t].got[k] = listData'[k]
      BY <2>4, <2>5, <2>7 DEF Gathered
    <3>3. filterLists # Null /\ task[t].lists = filterLists /\ task[t].todo \subseteq filterLists
      BY <2>4 DEF Gathered
    <3> DEFINE d == listData'
    <3>4. d \in [List -> Version] /\ d[l] \in Version /\ d[l] <= d[l]
      BY <2>1, <2>5 DEF Version
    <3> HIDE DEF d
    <3>5. HandlerAgrees(Push(task[t], l, d[l]), d, stored, filterLists, server)
      BY <1>0, <2>1, <3>1, <3>2, <3>3, <3>4, PushAgrees DEF d
    <3>6. QED BY <3>5 DEF d
  <2>9. \A u \in Task : HandlerAgrees(task'[u], listData', stored', filterLists', server')
    BY <2>2, <2>5, <2>6, <2>8, OthersAgree
  <2>10. ASSUME NEW e \in Engine, Within(listData, e) PROVE Within(listData', e)
    BY <1>d, <2>5, <2>6, <2>10 DEF Within, Engine, Version
  <2>11. (engine # Null => engine \in Engine) /\ (stored # Null => stored.engine \in Engine)
    BY DEF TypeOK, CacheEntry
  <2>12. QED BY <2>2, <2>6, <2>9, <2>10, <2>11 DEF FreshInv, Forward
<1>7. CASE SaveListFails(t)
  BY <1>7, <1>g DEF SaveListFails, InLoop
<1>8. CASE Fallback(t)
  <2>1. NextList(task[t]) \in List /\ task[t].pc \in InLoop
    BY <1>8, <1>l DEF Fallback, InLoop
  <2>2. Become(t, Push(task[t], NextList(task[t]), listData[NextList(task[t])]))
    BY <1>8 DEF Fallback
  <2>3. QED BY <1>8, <1>p, <2>1, <2>2 DEF Fallback
<1>9. CASE LoadListFails(t)
  BY <1>9, <1>g DEF LoadListFails, InLoop
<1>10. CASE FallbackFails(t)
  <2> DEFINE l == NextList(task[t])
             r == [task[t] EXCEPT !.unread = @ \cup {l}]
  <2>1. l \in List /\ 0 \in Version /\ 0 <= listData[l]
    BY <1>10, <1>d, <1>l, BoundAssumption DEF FallbackFails, Version
  <2>2. /\ r \in TaskState /\ r.got = task[t].got /\ r.lists = task[t].lists
        /\ r.todo = task[t].todo /\ r.unread = task[t].unread \cup {l}
    BY <1>0, <2>1, UnreadFacts
  <2>3. Become(t, Push(r, l, 0)) /\ UNCHANGED <<filterLists, listData, stored, server, engine>>
    BY <1>10 DEF FallbackFails
  <2>4. /\ Gathered(task[t], listData, filterLists)
        /\ \A k \in List : task[t].got[k] <= listData[k]
    BY <1>0, <1>10 DEF FallbackFails, HandlerAgrees, InLoop
  <2> HIDE DEF l, r
  <2>5. HandlerAgrees(Push(r, l, 0), listData, stored, filterLists, server)
    BY <1>d, <2>1, <2>2, <2>4, PushAgrees DEF Gathered
  <2>6. QED BY <2>3, <2>5, FreshFrame
<1>11. QED BY <1>1, <1>2, <1>3, <1>4, <1>5, <1>6, <1>7, <1>8, <1>9, <1>10 DEF Download

\* The compiled engine holds what the list store holds of every enabled list
\* that could be read, and the engine before it held nothing newer.
LEMMA BuildFresh ==
  ASSUME TypeOK, FreshInv, NEW t \in Task, Build(t),
         \A u \in Task \ {t} : task[u].pc = "idle"
  PROVE  FreshInv' /\ Forward
<1> DEFINE built == [lists |-> task[t].got, rules |-> customRules]
<1>1. /\ \A l \in List : task[t].got[l] <= listData[l]
      /\ filterLists # Null
      /\ \A l \in filterLists \ task[t].unread : task[t].got[l] = listData[l]
  BY DEF FreshInv, HandlerAgrees, Build, Gathered, InLoop
<1>2. /\ engine' = built /\ (stored' = stored \/ (stored' # Null => stored'.engine = built))
      /\ UNCHANGED <<filterLists, listData, server>> /\ Become(t, IdleTask)
  BY DEF Build, Finish, storage, world
<1>3. Within(listData, built)
  BY <1>1 DEF Within
<1>4. \A u \in Task : HandlerAgrees(task'[u], listData', stored', filterLists', server')
  <2>1. HandlerAgrees(IdleTask, listData', stored', filterLists', server')
    BY <1>2, OutsideAgrees, FreshRecords DEF InLoop, IdleTask
  <2>2. listData' \in [List -> Version] /\ \A l \in List : listData[l] <= listData'[l]
    BY <1>2 DEF TypeOK, Version
  <2>3. QED BY <1>2, <2>1, <2>2, OthersAgree
<1>5. FreshInv'
  <2>1. stored' # Null => Within(listData, stored'.engine)
    BY <1>2, <1>3 DEF FreshInv
  <2>2. QED BY <1>2, <1>3, <1>4, <2>1 DEF FreshInv, Within
<1>6. Forward
  <2> SUFFICES ASSUME engine # Null, NEW l \in filterLists \ task[t].unread
               PROVE  engine'.lists[l] >= engine.lists[l]
    BY DEF Forward
  <2>1. l \in List
    BY <1>1 DEF TypeOK
  <2>2. engine'.lists[l] = listData[l]
    BY <1>1, <1>2
  <2>3. engine.lists[l] <= listData[l]
    BY <2>1 DEF FreshInv, Within
  <2>4. engine.lists[l] \in Nat /\ listData[l] \in Nat
    BY <2>1 DEF TypeOK, Engine, Version
  <2>5. QED BY <2>2, <2>3, <2>4
<1>7. QED BY <1>5, <1>6

\* The edits start a rebuild or end; only writeLists changes the selection,
\* while no loop is under way.
LEMMA EditFresh ==
  ASSUME TypeOK, FreshInv, NEW t \in Task, Edit(t) \/ ClosePage(t) \/ GiveUp(t),
         \A u \in Task \ {t} : task[u].pc = "idle"
  PROVE  FreshInv' /\ Forward
<1> USE DEF storage, idb, manager, world, page, budget
<1>0. task[t] \in TaskState /\ HandlerAgrees(task[t], listData, stored, filterLists, server)
  BY DEF TypeOK, FreshInv
<1>q. ASSUME NEW r, Become(t, r), r.got = task[t].got, r.pc \in {"getLists", "writeRules", "writeLists"},
             UNCHANGED <<listData, stored, server, engine>>
      PROVE  FreshInv' /\ Forward
  <2>1. HandlerAgrees(r, listData, stored, filterLists', server)
    BY <1>0, <1>q DEF HandlerAgrees, InLoop
  <2>2. QED BY <1>q, <2>1, FreshFrame
<1>i. ASSUME Become(t, IdleTask), UNCHANGED <<listData, stored, server, engine>>
      PROVE  FreshInv' /\ Forward
  <2>1. HandlerAgrees(IdleTask, listData, stored, filterLists', server)
    BY OutsideAgrees, FreshRecords DEF InLoop, IdleTask
  <2>2. QED BY <1>i, <2>1, FreshFrame
<1>g. ASSUME Goto(t, "getLists"), UNCHANGED <<listData, stored, server, engine>>
      PROVE  FreshInv' /\ Forward
  <2> DEFINE r == [task[t] EXCEPT !.pc = "getLists"]
  <2>1. Become(t, r) /\ r.pc = "getLists" /\ r.got = task[t].got
    BY <1>0, <1>g DEF Goto, Become, TaskState
  <2> HIDE DEF r
  <2>2. QED BY <1>g, <1>q, <2>1
<1>1. CASE ReadRules(t)
  <2> DEFINE r == [task[t] EXCEPT !.rules = customRules, !.pc = "writeRules"]
  <2>1. Become(t, r) /\ r.pc = "writeRules" /\ r.got = task[t].got
    BY <1>0, <1>1 DEF ReadRules, TaskState
  <2> HIDE DEF r
  <2>2. QED BY <1>1, <1>q, <2>1 DEF ReadRules
<1>2. CASE AppendRule(t)
  BY <1>2, <1>g DEF AppendRule
<1>3. CASE RemoveRule(t)
  BY <1>3, <1>i DEF RemoveRule
<1>4. CASE ReadLists(t)
  <2> DEFINE r == [task[t] EXCEPT !.lists = filterLists, !.pc = "writeLists"]
  <2>1. Become(t, r) /\ r.pc = "writeLists" /\ r.got = task[t].got
    BY <1>0, <1>4 DEF ReadLists, TaskState
  <2> HIDE DEF r
  <2>2. QED BY <1>4, <1>q, <2>1 DEF ReadLists
<1>5. CASE WriteLists(t)
  BY <1>5, <1>i DEF WriteLists
<1>6. CASE Announce(t)
  BY <1>6, <1>g DEF Announce
<1>7. CASE ClosePage(t)
  BY <1>7, <1>i DEF ClosePage
<1>8. CASE EditFails(t)
  <2> DEFINE r == [task[t] EXCEPT !.pc = "getLists", !.arg = {}]
  <2>1. r.pc = "getLists" /\ r.got = task[t].got
    BY <1>0 DEF TaskState
  <2>2. Become(t, IdleTask) \/ Become(t, r)
    BY <1>8 DEF EditFails
  <2> HIDE DEF r
  <2>3. QED BY <1>8, <1>q, <1>i, <2>1, <2>2 DEF EditFails
<1>9. CASE GiveUp(t)
  BY <1>9, <1>i DEF GiveUp
<1>10. QED BY <1>1, <1>2, <1>3, <1>4, <1>5, <1>6, <1>7, <1>8, <1>9 DEF Edit

\* A handler that begins has gathered nothing.
LEMMA MessageFresh ==
  ASSUME TypeOK, FreshInv, NEW t \in Task, Message(t),
         \A u \in Task \ {t} : task[u].pc = "idle"
  PROVE  FreshInv' /\ Forward
<1> USE DEF storage, idb, manager, world, page, budget
<1>b. ASSUME NEW op, NEW pc \in {"announce", "readRules", "readLists", "getLists", "loadEngine"},
             NEW arg, NEW edit, Begin(t, op, pc, arg, edit),
             UNCHANGED <<listData, stored, server, engine>>
      PROVE  FreshInv' /\ Forward
  <2> DEFINE r == NewTask(op, pc, arg, edit)
  <2>1. Become(t, r) /\ r.pc = pc /\ \A l \in List : r.got[l] <= listData[l]
    BY <1>b, FreshRecords DEF Begin, NewTask, IdleTask
  <2> HIDE DEF r
  <2>2. HandlerAgrees(r, listData, stored, filterLists', server)
    BY <1>b, <2>1, OutsideAgrees DEF InLoop
  <2>3. QED BY <1>b, <2>1, <2>2, FreshFrame
<1>1. CASE CreateRule(t)
  BY <1>1, <1>b DEF CreateRule
<1>2. CASE SaveRules(t)
  BY <1>2, <1>b DEF SaveRules
<1>3. CASE ClickRemoveRule(t)
  BY <1>3, <1>b DEF ClickRemoveRule
<1>4. CASE ClickList(t)
  BY <1>4, <1>b DEF ClickList
<1>5. CASE UpdateNow(t)
  BY <1>5, <1>b DEF UpdateNow
<1>6. CASE ToggleOn(t)
  BY <1>6, <1>b DEF ToggleOn
<1>7. CASE Alarm(t)
  BY <1>7, <1>b DEF Alarm
<1>8. QED BY <1>1, <1>2, <1>3, <1>4, <1>5, <1>6, <1>7 DEF Message

\* A handler that takes a step, or that begins, is the only one under way.
LEMMA AloneFacts ==
  ASSUME TypeOK, NEW t \in Task, OneAtATime, OneAtATime'
  PROVE  /\ task[t].pc # "idle" => \A u \in Task \ {t} : task[u].pc = "idle"
         /\ Message(t) => \A u \in Task \ {t} : task[u].pc = "idle"
<1>1. task[t].pc # "idle" => \A u \in Task \ {t} : task[u].pc = "idle"
  BY DEF OneAtATime
<1>2. ASSUME NEW op, NEW pc, NEW arg, NEW edit, Begin(t, op, pc, arg, edit), pc # "idle"
      PROVE  \A u \in Task \ {t} : task[u].pc = "idle"
  <2>1. task'[t] = NewTask(op, pc, arg, edit) /\ \A u \in Task \ {t} : task'[u] = task[u]
    BY <1>2 DEF Begin, Become, TypeOK
  <2>2. task'[t].pc # "idle"
    BY <1>2, <2>1 DEF NewTask, IdleTask
  <2>3. QED BY <2>1, <2>2 DEF OneAtATime
<1>3. ASSUME Message(t) PROVE \A u \in Task \ {t} : task[u].pc = "idle"
  BY <1>2, <1>3 DEF Message, CreateRule, SaveRules, ClickRemoveRule, ClickList, UpdateNow, ToggleOn, Alarm
<1>4. QED BY <1>1, <1>3

\* Every step keeps the texts in order, as long as the handlers run one at a time.
LEMMA NextFresh ==
  ASSUME TypeOK, FreshInv, OneAtATime, OneAtATime', [ImportsAlone]_vars, [Next]_vars
  PROVE  FreshInv' /\ Forward
<1> USE DEF storage, idb, manager, world, page, budget
<1>1. ASSUME NEW t \in Task, Continue(t) PROVE FreshInv' /\ Forward
  <2>1. task[t].pc # "idle"
    BY <1>1 DEF Continue, Initialize, Download, Edit, LoadEngine, UseCache, RejectCache,
         BypassCache, GetLists, InitLists, LoadList, Fetch, FetchFails, SaveList, SaveListFails,
         Fallback, LoadListFails, FallbackFails, Build, GiveUp, ReadRules, AppendRule, RemoveRule,
         ReadLists, WriteLists, EditFails, Announce
  <2>2. \A u \in Task \ {t} : task[u].pc = "idle"
    BY <2>1, AloneFacts
  <2>3. QED BY <1>1, <2>2, InitializeFresh, DownloadFresh, BuildFresh, EditFresh DEF Continue
<1>2. ASSUME NEW t \in Task, Message(t) PROVE FreshInv' /\ Forward
  BY <1>2, AloneFacts, MessageFresh
<1>c. ASSUME NEW t \in Task, ClosePage(t) PROVE FreshInv' /\ Forward
  <2>1. task[t].pc # "idle"
    BY <1>c DEF ClosePage
  <2>2. QED BY <1>c, <2>1, AloneFacts, EditFresh
<1>3. CASE ImportSettings
  <2>1. UNCHANGED <<listData, stored, server, engine, task>>
    BY <1>3 DEF ImportSettings
  <2>2. ops' # ops
    BY <1>3 DEF ImportSettings, Event, TypeOK
  <2>3. \A t \in Task : task[t].pc = "idle"
    BY <1>3, <2>2 DEF ImportsAlone, vars
  <2>4. \A t \in Task : HandlerAgrees(task[t], listData, stored, filterLists', server)
    BY <2>3 DEF FreshInv, HandlerAgrees, InLoop
  <2>5. QED BY <2>1, <2>4 DEF FreshInv, Forward, Within
<1>4. CASE Publish
  <2>1. UNCHANGED <<filterLists, listData, stored, engine, task>>
    BY <1>4 DEF Publish
  <2>2. \A l \in List : server[l] <= server'[l] /\ server[l] \in Nat /\ server'[l] \in Nat /\ listData[l] \in Nat
    BY <1>4 DEF Publish, TypeOK, Version
  <2>3. \A l \in List : listData[l] <= server'[l]
    BY <2>2 DEF FreshInv
  <2>4. \A t \in Task : HandlerAgrees(task[t], listData, stored, filterLists, server')
    <3> SUFFICES ASSUME NEW t \in Task, task[t].pc = "saveList"
                 PROVE  task[t].text <= server'[NextList(task[t])]
      BY DEF FreshInv, HandlerAgrees
    <3>1. NextList(task[t]) \in List /\ task[t].text \in Nat
      BY DEF TypeOK, TaskOK, NextList, TaskState, Version
    <3>2. task[t].text <= server[NextList(task[t])]
      BY DEF FreshInv, HandlerAgrees
    <3>3. QED BY <2>2, <3>1, <3>2
  <2>5. QED BY <2>1, <2>3, <2>4 DEF FreshInv, Forward, Within
<1>5. CASE Restart
  <2>1. UNCHANGED <<filterLists, listData, stored, server>> /\ engine' = Null /\ Session(task')
    BY <1>5 DEF Restart
  <2>2. \A t \in Task : task'[t].pc \in {"idle", "loadEngine"} /\ task'[t].got = NoTexts
    BY <2>1 DEF Session, NewTask, IdleTask
  <2>3. \A l \in List : NoTexts[l] <= listData[l]
    BY DEF NoTexts, TypeOK, Version
  <2>4. \A t \in Task : HandlerAgrees(task'[t], listData, stored, filterLists, server)
    BY <2>2, <2>3 DEF HandlerAgrees, InLoop
  <2>5. QED BY <2>1, <2>4 DEF FreshInv, Forward, Within
<1>6. CASE UNCHANGED vars
  BY <1>6 DEF vars, FreshInv, Forward, Within
<1>7. QED BY <1>1, <1>2, <1>c, <1>3, <1>4, <1>5, <1>6 DEF Next

\* Initially nothing is stored and the servers have their first texts.
LEMMA InitFresh == Init => FreshInv
<1> SUFFICES ASSUME Init PROVE FreshInv
  OBVIOUS
<1>1. \A t \in Task : task[t].pc \in {"idle", "loadEngine"} /\ task[t].got = NoTexts
  BY DEF Init, Session, NewTask, IdleTask
<1>2. \A t \in Task : HandlerAgrees(task[t], listData, stored, filterLists, server)
  BY <1>1 DEF Init, HandlerAgrees, InLoop, NoTexts
<1>3. QED BY <1>2 DEF Init, FreshInv, NoTexts

\* As long as handlers run one at a time and no settings are imported while
\* one is under way, a rebuild takes no enabled list out of the engine and goes
\* back to no older text of one, whatever fetches, puts and reads fail and
\* whatever sessions came between, save for the lists whose fallback could not
\* be read either.
THEOREM NeverRegresses ==
  Spec /\ []OneAtATime /\ [][ImportsAlone]_vars => RebuildNeverRegresses
<1>1. Forward =>
        \A t \in Task : (task[t].pc = "build" /\ engine # Null /\ engine' \notin {Null, engine})
           => \A l \in filterLists \ task[t].unread : engine'.lists[l] >= engine.lists[l]
  BY DEF Forward
<1>2. TypeOK /\ FreshInv /\ OneAtATime /\ OneAtATime' /\ [ImportsAlone]_vars /\ [Next]_vars
        => FreshInv' /\ Forward
  BY NextFresh
<1>3. Spec => []TypeOK
  BY TypeCorrect
<1>4. QED BY <1>1, <1>2, <1>3, InitFresh, PTL DEF Spec, RebuildNeverRegresses

\* With one slot for handlers and no import there is nothing to assume: the
\* instance in which the property is model-checked.
THEOREM NeverRegressesAlone ==
  ASSUME \A t, u \in Task : t = u, "importSettings" \notin Ops
  PROVE  Spec => RebuildNeverRegresses
<1>1. OneAtATime
  BY DEF OneAtATime
<1>2. [Next]_vars => [ImportsAlone]_vars
  BY DEF ImportsAlone, ImportSettings, Event
<1>3. QED BY <1>1, <1>2, NeverRegresses, PTL DEF Spec
===============================================================================
