--------------------------- MODULE ProtectionProofs ---------------------------
(***************************************************************************)
(* Protection's invariants for any set of tabs and any bounds.  The count  *)
(* shown for a tab needs the one strengthening: a page without cancelled   *)
(* requests has a count of zero.                                           *)
(***************************************************************************)
EXTENDS Protection, TLAPS

\* TypeOK in three parts: the Booleans, what is kept per tab, and the others.
Switches == /\ stored \in BOOLEAN /\ enabled \in BOOLEAN /\ read \in BOOLEAN
            /\ switch \in BOOLEAN /\ loading \in BOOLEAN /\ ready \in BOOLEAN
PerTab   == /\ tabText \in [Tab -> {"default", "", "count"}]
            /\ blocked \in [Tab -> Nat] /\ cancelled \in [Tab -> Nat]
Others   == /\ phase \in {"reading", "initializing", "done"}
            /\ listeners \in Nat /\ badge \in {"", "OFF"}
            /\ popup \in {"closed", "asking", "active", "initializing", "disabled"}
            /\ options \in {"closed", "idle", "writing"}
            /\ sent \subseteq Page /\ toggles \in Nat /\ restarts \in Nat

LEMMA TypeParts == TypeOK <=> Switches /\ PerTab /\ Others
BY Zenon DEF TypeOK, Switches, PerTab, Others

Counted == \A t \in Tab : blocked[t] > 0 => cancelled[t] > 0

\* The invariant: what concerns the switch, and what concerns the counts.
OnOff == Switches /\ Others /\ GuardedWhenEnabled /\ BadgeHonest
Tabs  == PerTab /\ Counted /\ CountOfThisPage
IInv  == OnOff /\ Tabs

LEMMA Initially == Init => IInv
<1> SUFFICES ASSUME Init PROVE IInv
  OBVIOUS
<1> USE DEF Init
<1>1. Switches  BY Zenon DEF Switches
<1>2. Others    BY DEF Others, Page
<1>3. GuardedWhenEnabled /\ BadgeHonest  BY DEF GuardedWhenEnabled, BadgeHonest
<1>4. PerTab /\ Counted /\ CountOfThisPage  BY DEF PerTab, Counted, CountOfThisPage
<1> QED  BY <1>1, <1>2, <1>3, <1>4 DEF IInv, OnOff, Tabs

-------------------------------------------------------------------------------
(* What each group of actions preserves. *)

\* start() and the loading of the engine.
LEMMA StartKeeps ==
  ASSUME OnOff, StartReads \/ StartEnds \/ EngineLoads PROVE OnOff'
<1> USE DEF OnOff
<1>1. CASE StartReads
  <2> USE <1>1 DEF StartReads, pages
  <2>1. Switches'  BY Zenon DEF Switches
  <2>2. \/ read /\ phase' = "initializing" /\ listeners' = listeners + 1 /\ badge' = badge
        \/ ~read /\ phase' = "done" /\ listeners' = listeners /\ badge' = "OFF"
    BY Zenon DEF BadgeOf
  <2>3. listeners' \in Nat /\ (read => listeners' > 0)
    <3>1. listeners \in Nat  BY DEF Others
    <3>2. CASE read   BY <3>1, <3>2, <2>2
    <3>3. CASE ~read  BY <3>1, <3>3, <2>2
    <3> QED  BY <3>2, <3>3
  <2>4. Others'    BY <2>2, <2>3 DEF Others
  <2>5. GuardedWhenEnabled'  BY <2>3 DEF GuardedWhenEnabled
  <2>6. BadgeHonest'  BY DEF BadgeHonest, BadgeOf
  <2> QED  BY <2>1, <2>4, <2>5, <2>6
<1>2. CASE StartEnds
  <2> USE <1>2 DEF StartEnds, pages
  <2>1. Switches'  BY Zenon DEF Switches
  <2>2. Others'    BY DEF Others, BadgeOf
  <2>3. GuardedWhenEnabled'  BY DEF GuardedWhenEnabled
  <2>4. BadgeHonest'  BY DEF BadgeHonest, BadgeOf
  <2> QED  BY <2>1, <2>2, <2>3, <2>4
<1>3. CASE EngineLoads
  <2> USE <1>3 DEF EngineLoads, pages
  <2>1. Switches'  BY Zenon DEF Switches
  <2>2. Others'    BY DEF Others
  <2>3. GuardedWhenEnabled' /\ BadgeHonest'
    BY DEF GuardedWhenEnabled, BadgeHonest, BadgeOf
  <2> QED  BY <2>1, <2>2, <2>3
<1> QED  BY <1>1, <1>2, <1>3

\* A restart forgets whatever could disagree.
LEMMA RestartKeeps == ASSUME IInv, Restart PROVE IInv'
<1> USE DEF IInv, OnOff, Tabs, Restart
<1>1. Switches'  BY Zenon DEF Switches
<1>2. Others'
  <2>1. restarts \in Nat /\ restarts' = restarts + 1  BY DEF Others
  <2>2. restarts' \in Nat
    <3> HIDE DEF IInv, Restart
    <3> QED  BY <2>1
  <2> QED  BY <2>2 DEF Others
<1>3. GuardedWhenEnabled' /\ BadgeHonest'  BY DEF GuardedWhenEnabled, BadgeHonest
<1>4. PerTab' /\ Counted' /\ CountOfThisPage'  BY DEF PerTab, Counted, CountOfThisPage
<1> QED  BY <1>1, <1>2, <1>3, <1>4

\* What a toggle turns on has a listener, and the badge says what it sets.
LEMMA ToggleKeeps == ASSUME OnOff, NEW page \in Page, HandleToggle(page) PROVE OnOff'
<1> USE DEF OnOff, HandleToggle, Toggle, Flip
<1>1. Switches'  BY Zenon DEF Switches
<1>2. listeners' \in Nat /\ (enabled' => listeners' > 0)
  <2>1. /\ enabled' = ~enabled
        /\ listeners' = listeners + (IF enabled THEN 0 ELSE 1)
    OBVIOUS
  <2>2. listeners \in Nat  BY DEF Others
  <2>3. CASE enabled
    <3>1. listeners' = listeners + 0 /\ ~enabled'  BY Zenon, <2>1, <2>3
    <3> HIDE DEF OnOff, HandleToggle, Toggle, Flip
    <3> QED  BY <2>2, <3>1
  <2>4. CASE ~enabled
    <3> HIDE DEF OnOff, HandleToggle, Toggle, Flip
    <3> QED  BY <2>1, <2>2, <2>4
  <2> QED  BY <2>3, <2>4
<1>3. badge' = BadgeOf(enabled')  BY Zenon
<1>4. popup' \in {"closed", "asking", "active", "initializing", "disabled"}
  BY DEF Others
<1>5. Others'  BY <1>2, <1>3, <1>4 DEF Others, BadgeOf
<1> QED  BY <1>1, <1>2, <1>3, <1>5 DEF GuardedWhenEnabled, BadgeHonest

\* What the pages do by themselves changes no variable of the background.
PageStep == \/ OpenPopup \/ PopupShows \/ ClickPopup \/ ClosePopup
            \/ OpenOptions \/ ClickOptions \/ OptionsSend \/ CloseOptions

LEMMA PagesKeep == ASSUME OnOff, PageStep PROVE OnOff'
<1> USE DEF OnOff
<1>1. UNCHANGED background
  BY DEF PageStep, OpenPopup, PopupShows, ClickPopup, ClosePopup,
         OpenOptions, ClickOptions, OptionsSend, CloseOptions
<1>2. Switches'
  <2> USE <1>1, Zenon DEF Switches, background, pages
  <2>1. CASE OpenOptions   BY <2>1 DEF OpenOptions
  <2>2. CASE ClickOptions  BY <2>2 DEF ClickOptions
  <2>3. CASE ~OpenOptions /\ ~ClickOptions
    <3>1. UNCHANGED <<stored, switch>>
      BY <2>3 DEF PageStep, OpenPopup, PopupShows, ClickPopup, ClosePopup,
                  OptionsSend, CloseOptions
    <3> QED  BY <3>1
  <2> QED  BY <2>1, <2>2, <2>3
<1>3. Others'
  <2>0. ASSUME ClickPopup \/ ClickOptions PROVE toggles' \in Nat
    <3>1. toggles \in Nat /\ toggles' = toggles + 1
      BY <2>0 DEF ClickPopup, ClickOptions, Others
    <3> QED  BY <3>1
  <2> USE <1>1 DEF Others, background, Page
  <2>1. CASE OpenPopup     BY <2>1 DEF OpenPopup
  <2>2. CASE PopupShows    BY <2>2 DEF PopupShows
  <2>3. CASE ClickPopup    BY <2>0, <2>3 DEF ClickPopup
  <2>4. CASE ClosePopup    BY <2>4 DEF ClosePopup
  <2>5. CASE OpenOptions   BY <2>5 DEF OpenOptions
  <2>6. CASE ClickOptions  BY <2>0, <2>6 DEF ClickOptions
  <2>7. CASE OptionsSend   BY <2>7 DEF OptionsSend
  <2>8. CASE CloseOptions  BY <2>8 DEF CloseOptions
  <2> QED  BY <2>1, <2>2, <2>3, <2>4, <2>5, <2>6, <2>7, <2>8 DEF PageStep
<1>4. GuardedWhenEnabled' /\ BadgeHonest'
  BY <1>1 DEF background, GuardedWhenEnabled, BadgeHonest, BadgeOf
<1> QED  BY <1>2, <1>3, <1>4

\* A count that grows by n at one tab.
LEMMA CountsMore ==
  ASSUME NEW f \in [Tab -> Nat], NEW t \in Tab, NEW n \in Nat
  PROVE  /\ [f EXCEPT ![t] = f[t] + n] \in [Tab -> Nat]
         /\ n > 0 => [f EXCEPT ![t] = f[t] + n][t] > 0
         /\ \A u \in Tab \ {t} : [f EXCEPT ![t] = f[t] + n][u] = f[u]
<1>1. f[t] \in Nat  OBVIOUS
<1>2. f[t] + n \in Nat /\ (n > 0 => f[t] + n > 0)  BY <1>1
<1> QED  BY <1>2

\* A cancelled request counts at least once, and a page that goes takes its count along.
LEMMA TabsKeep ==
  ASSUME Tabs, listeners \in Nat,
         NEW t \in Tab, Cancel(t) \/ Committed(t) \/ Activated(t) \/ TabRemoved(t)
  PROVE  Tabs'
<1> USE DEF Tabs
<1>1. CASE Cancel(t)
  <2>1. /\ tabText' = tabText /\ listeners > 0
        /\ cancelled' = [cancelled EXCEPT ![t] = cancelled[t] + 1]
        /\ blocked' = [blocked EXCEPT ![t] = blocked[t] + listeners]
    BY <1>1 DEF Cancel
  <2>2. blocked \in [Tab -> Nat] /\ cancelled \in [Tab -> Nat]
    BY DEF PerTab
  <2>3. PerTab'  BY <2>1, <2>2, CountsMore DEF PerTab
  <2>4. cancelled'[t] > 0 /\ \A u \in Tab \ {t} : /\ cancelled'[u] = cancelled[u]
                                                 /\ blocked'[u] = blocked[u]
    BY <2>1, <2>2, CountsMore
  <2>5. Counted'  BY <2>4 DEF Counted
  <2>6. CountOfThisPage'  BY <2>1, <2>4 DEF CountOfThisPage
  <2> QED  BY <2>3, <2>5, <2>6
<1>2. CASE Committed(t)
  BY <1>2 DEF Committed, PerTab, Counted, CountOfThisPage
<1>3. CASE Activated(t)
  <2>1. /\ UNCHANGED <<blocked, cancelled>>
        /\ tabText' = [tabText EXCEPT ![t] = IF blocked[t] > 0 THEN "count" ELSE ""]
    BY <1>3 DEF Activated
  <2> QED  BY <2>1 DEF PerTab, Counted, CountOfThisPage
<1>4. CASE TabRemoved(t)
  BY <1>4 DEF TabRemoved, PerTab, Counted, CountOfThisPage
<1> QED  BY <1>1, <1>2, <1>3, <1>4

LEMMA OnOffStutters == ASSUME OnOff, UNCHANGED <<stored, background, pages, toggles, restarts>>
                       PROVE  OnOff'
<1> USE DEF OnOff, background, pages
<1>1. Switches'  BY Zenon DEF Switches
<1>2. Others'    BY DEF Others
<1>3. GuardedWhenEnabled' /\ BadgeHonest'  BY DEF GuardedWhenEnabled, BadgeHonest, BadgeOf
<1> QED  BY <1>1, <1>2, <1>3

LEMMA TabsStutter == ASSUME Tabs, UNCHANGED counts PROVE Tabs'
BY DEF Tabs, counts, PerTab, Counted, CountOfThisPage

LEMMA Inductive == IInv /\ [Next]_vars => IInv'
<1> SUFFICES ASSUME IInv, [Next]_vars PROVE IInv'
  OBVIOUS
<1> USE DEF IInv
<1>1. CASE StartReads \/ StartEnds \/ EngineLoads
  <2>1. UNCHANGED counts  BY <1>1 DEF StartReads, StartEnds, EngineLoads
  <2> QED  BY <1>1, <2>1, StartKeeps, TabsStutter
<1>2. CASE Restart  BY <1>2, RestartKeeps
<1>3. ASSUME NEW page \in Page, HandleToggle(page) PROVE IInv'
  <2>1. UNCHANGED counts  BY <1>3 DEF HandleToggle
  <2> QED  BY <1>3, <2>1, ToggleKeeps, TabsStutter
<1>4. CASE PageStep
  <2>1. UNCHANGED counts
    BY <1>4 DEF PageStep, OpenPopup, PopupShows, ClickPopup, ClosePopup,
                OpenOptions, ClickOptions, OptionsSend, CloseOptions
  <2> QED  BY <1>4, <2>1, PagesKeep, TabsStutter
<1>5. ASSUME NEW t \in Tab, Cancel(t) \/ Committed(t) \/ Activated(t) \/ TabRemoved(t)
      PROVE  IInv'
  <2>1. UNCHANGED <<stored, background, pages, toggles, restarts>>
    BY <1>5 DEF Cancel, Committed, Activated, TabRemoved
  <2>2. listeners \in Nat  BY DEF OnOff, Others
  <2> QED  BY <1>5, <2>1, <2>2, TabsKeep, OnOffStutters
<1>6. CASE UNCHANGED vars
  BY <1>6, OnOffStutters, TabsStutter DEF vars
<1> QED  BY <1>1, <1>2, <1>3, <1>4, <1>5, <1>6 DEF Next, PageStep

LEMMA AlwaysIInv == Spec => []IInv
BY Initially, Inductive, PTL DEF Spec

-------------------------------------------------------------------------------
(* The theorems. *)

\* Every variable keeps its type; in particular no listener is taken away that
\* was never added (background.js, request-handler.js).
THEOREM TypeCorrect == Spec => []TypeOK
<1>1. IInv => TypeOK  BY TypeParts DEF IInv, OnOff, Tabs
<1> QED  BY <1>1, AlwaysIInv, PTL

\* However toggles race start(), an extension that is on has a listener
\* (background.js:18-27, 57-64).
THEOREM AlwaysGuarded == Spec => []GuardedWhenEnabled
<1>1. IInv => GuardedWhenEnabled  BY DEF IInv, OnOff
<1> QED  BY <1>1, AlwaysIInv, PTL

\* Once start() is over the default badge agrees with the switch
\* (background.js:28, 31-38, 60).
THEOREM BadgeAlwaysHonest == Spec => []BadgeHonest
<1>1. IInv => BadgeHonest  BY DEF IInv, OnOff
<1> QED  BY <1>1, AlwaysIInv, PTL

\* A tab's badge never shows the count of a page that has gone
\* (background.js:141-157, request-handler.js:84-86).
THEOREM CountsOfTheirPage == Spec => []CountOfThisPage
<1>1. IInv => CountOfThisPage  BY DEF IInv, Tabs
<1> QED  BY <1>1, AlwaysIInv, PTL
===============================================================================
