------------------------------ MODULE Protection ------------------------------
(***************************************************************************)
(* The master switch (extension/background/background.js): the background  *)
(* page's start, the toggles of the popup and of the options page, the     *)
(* listeners that cancel requests, and the badge.  What initialize() does  *)
(* is EngineManager's subject; here it takes a while and leaves a ready    *)
(* engine.                                                                 *)
(***************************************************************************)
EXTENDS Integers

CONSTANTS
  Tab,
  MaxToggles,    \* bounds the clicks on the two switches
  MaxRestarts,   \* bounds the restarts of the background page
  MaxBlocked     \* bounds the requests cancelled per page

ASSUME BoundAssumption == MaxToggles \in Nat /\ MaxRestarts \in Nat /\ MaxBlocked \in Nat

Page == {"popup", "options"}

VARIABLES
  stored,      \* storage.local "enabled" (absent counts as true)
  enabled,     \* the background's variable
  phase,       \* of start(): "reading" storage, "initializing", "done"
  read,        \* the answer start() is waiting for: stored when it asked
  loading,     \* initialize() called by a toggle is under way
  ready,       \* engineReady
  listeners,   \* onBeforeRequest listeners added and never removed
  badge,       \* the default text: "OFF" or ""
  tabText,     \* per tab: "default" (none of its own), "" or "count"
  blocked,     \* blockedCounts
  cancelled,   \* requests cancelled on the tab's page, for the properties
  popup,       \* "closed", "asking", or the status it shows
  options,     \* the options page: "closed", "idle" or "writing"
  switch,      \* the options page's checkbox
  sent,        \* pages whose toggleEnabled is on its way
  toggles, restarts

background == <<enabled, phase, read, loading, ready, listeners, badge>>
counts     == <<tabText, blocked, cancelled>>
pages      == <<popup, options, switch, sent>>
vars       == <<stored, background, counts, pages, toggles, restarts>>

BadgeOf(on) == IF on THEN "" ELSE "OFF"

Init == /\ stored \in BOOLEAN
        /\ enabled = TRUE /\ phase = "reading" /\ read = stored
        /\ loading = FALSE /\ ready = FALSE /\ listeners = 0 /\ badge = ""
        /\ tabText = [t \in Tab |-> "default"]
        /\ blocked = [t \in Tab |-> 0] /\ cancelled = [t \in Tab |-> 0]
        /\ popup = "closed" /\ options = "closed" /\ switch = TRUE /\ sent = {}
        /\ toggles = 0 /\ restarts = 0

-------------------------------------------------------------------------------
(* start(), and the initialize() of a toggle. *)

\* Variant: the badge only set when start() finds the extension disabled.
StartEndsQuietly ==
  /\ phase = "initializing" /\ phase' = "done" /\ ready' = TRUE
  /\ UNCHANGED <<stored, enabled, read, loading, listeners, badge, counts, pages, toggles, restarts>>

StartReads ==
  /\ phase = "reading" /\ enabled' = read
  /\ \/ /\ read /\ phase' = "initializing" /\ listeners' = listeners + 1 /\ badge' = badge
     \/ /\ ~read /\ phase' = "done" /\ listeners' = listeners /\ badge' = BadgeOf(FALSE)
  /\ UNCHANGED <<stored, read, loading, ready, counts, pages, toggles, restarts>>

StartEnds ==
  /\ phase = "initializing" /\ phase' = "done"
  /\ ready' = TRUE /\ badge' = BadgeOf(enabled)
  /\ UNCHANGED <<stored, enabled, read, loading, listeners, counts, pages, toggles, restarts>>

EngineLoads ==
  /\ loading /\ loading' = FALSE /\ ready' = TRUE
  /\ UNCHANGED <<stored, enabled, phase, read, listeners, badge, counts, pages, toggles, restarts>>

\* Browser restart, update or reload: everything but the storage is gone.
Restart ==
  /\ restarts < MaxRestarts /\ restarts' = restarts + 1
  /\ enabled' = TRUE /\ phase' = "reading" /\ read' = stored
  /\ loading' = FALSE /\ ready' = FALSE /\ listeners' = 0 /\ badge' = ""
  /\ tabText' = [t \in Tab |-> "default"]
  /\ blocked' = [t \in Tab |-> 0] /\ cancelled' = [t \in Tab |-> 0]
  /\ popup' = "closed" /\ options' = "closed" /\ sent' = {}
  /\ UNCHANGED <<stored, switch, toggles>>

-------------------------------------------------------------------------------
(* The switches.  The background flips its own variable, whatever the page shows. *)

Flip(on, added, loads) ==
  /\ enabled' = on /\ stored' = on /\ badge' = BadgeOf(on)
  /\ listeners' = listeners + added
  /\ loading' = (loading \/ loads)
  /\ UNCHANGED <<phase, read, ready>>

\* Variants: a toggle that forgets to listen, one that leaves loading to start(),
\* one that takes a listener away, though start() may not have added it yet.
ToggleDeaf        == Flip(~enabled, 0, ~enabled)
ToggleIdle        == Flip(~enabled, IF enabled THEN 0 ELSE 1, FALSE)
ToggleUnlistening == Flip(~enabled, IF enabled THEN -1 ELSE 1, ~enabled)

Toggle == Flip(~enabled, IF enabled THEN 0 ELSE 1, ~enabled)

HandleToggle(page) ==
  /\ page \in sent /\ sent' = sent \ {page}
  /\ Toggle
  /\ popup' = IF page = "popup" /\ popup # "closed"
              THEN IF enabled' THEN "active" ELSE "disabled" ELSE popup
  /\ UNCHANGED <<options, switch, counts, toggles, restarts>>

\* A popup that is closed and opened again has no answer to wait for.
OpenPopup ==
  /\ popup = "closed" /\ "popup" \notin sent /\ popup' = "asking"
  /\ UNCHANGED <<stored, background, counts, options, switch, sent, toggles, restarts>>

PopupShows ==
  /\ popup = "asking" /\ popup' = IF ready THEN "active" ELSE "initializing"
  /\ UNCHANGED <<stored, background, counts, options, switch, sent, toggles, restarts>>

ClickPopup ==
  /\ popup \notin {"closed", "asking"} /\ "popup" \notin sent /\ toggles < MaxToggles
  /\ sent' = sent \cup {"popup"} /\ toggles' = toggles + 1
  /\ UNCHANGED <<stored, background, counts, popup, options, switch, restarts>>

ClosePopup ==
  /\ popup # "closed" /\ popup' = "closed"
  /\ UNCHANGED <<stored, background, counts, options, switch, sent, toggles, restarts>>

OpenOptions ==
  /\ options = "closed" /\ options' = "idle" /\ switch' = stored
  /\ UNCHANGED <<stored, background, counts, popup, sent, toggles, restarts>>

\* The options page first writes what its checkbox says.
ClickOptions ==
  /\ options = "idle" /\ "options" \notin sent /\ toggles < MaxToggles
  /\ switch' = ~switch /\ stored' = switch'
  /\ options' = "writing" /\ toggles' = toggles + 1
  /\ UNCHANGED <<background, counts, popup, sent, restarts>>

OptionsSend ==
  /\ options = "writing" /\ options' = "idle" /\ sent' = sent \cup {"options"}
  /\ UNCHANGED <<stored, background, counts, popup, switch, toggles, restarts>>

CloseOptions ==
  /\ options # "closed" /\ options' = "closed"
  /\ UNCHANGED <<stored, background, counts, popup, switch, sent, toggles, restarts>>

-------------------------------------------------------------------------------
(* Requests and tabs. *)

\* Every listener runs on a request of a page; each that finds a match counts it.
Cancel(t) ==
  /\ ready /\ listeners > 0 /\ cancelled[t] < MaxBlocked
  /\ cancelled' = [cancelled EXCEPT ![t] = @ + 1]
  /\ blocked' = [blocked EXCEPT ![t] = @ + listeners]
  /\ UNCHANGED <<stored, background, tabText, pages, toggles, restarts>>

\* Variant of Committed: the count of the old page stays on the badge.
CommittedKeepingText(t) ==
  /\ blocked' = [blocked EXCEPT ![t] = 0] /\ cancelled' = [cancelled EXCEPT ![t] = 0]
  /\ UNCHANGED <<stored, background, tabText, pages, toggles, restarts>>

Committed(t) ==
  /\ blocked' = [blocked EXCEPT ![t] = 0] /\ cancelled' = [cancelled EXCEPT ![t] = 0]
  /\ tabText' = [tabText EXCEPT ![t] = ""]
  /\ UNCHANGED <<stored, background, pages, toggles, restarts>>

Activated(t) ==
  /\ enabled /\ tabText' = [tabText EXCEPT ![t] = IF blocked[t] > 0 THEN "count" ELSE ""]
  /\ UNCHANGED <<stored, background, blocked, cancelled, pages, toggles, restarts>>

\* A closed tab's place is taken by a new one.
TabRemoved(t) ==
  /\ blocked' = [blocked EXCEPT ![t] = 0] /\ cancelled' = [cancelled EXCEPT ![t] = 0]
  /\ tabText' = [tabText EXCEPT ![t] = "default"]
  /\ UNCHANGED <<stored, background, pages, toggles, restarts>>

-------------------------------------------------------------------------------
Next == \/ StartReads \/ StartEnds \/ EngineLoads \/ Restart
        \/ \E page \in Page : HandleToggle(page)
        \/ OpenPopup \/ PopupShows \/ ClickPopup \/ ClosePopup
        \/ OpenOptions \/ ClickOptions \/ OptionsSend \/ CloseOptions
        \/ \E t \in Tab : Cancel(t) \/ Committed(t) \/ Activated(t) \/ TabRemoved(t)

\* Promises settle: storage answers, and initialize() ends in a ready engine.
Fairness == WF_vars(StartReads) /\ WF_vars(StartEnds) /\ WF_vars(EngineLoads)

Spec     == Init /\ [][Next]_vars
FairSpec == Spec /\ Fairness

-------------------------------------------------------------------------------
(* Properties. *)

TypeOK ==
  /\ stored \in BOOLEAN /\ enabled \in BOOLEAN /\ read \in BOOLEAN /\ switch \in BOOLEAN
  /\ phase \in {"reading", "initializing", "done"}
  /\ loading \in BOOLEAN /\ ready \in BOOLEAN /\ listeners \in Nat
  /\ badge \in {"", "OFF"}
  /\ tabText \in [Tab -> {"default", "", "count"}]
  /\ blocked \in [Tab -> Nat] /\ cancelled \in [Tab -> Nat]
  /\ popup \in {"closed", "asking", "active", "initializing", "disabled"}
  /\ options \in {"closed", "idle", "writing"}
  /\ sent \subseteq Page /\ toggles \in Nat /\ restarts \in Nat

\* Once start() has read the storage, an extension that is on has a listener,
\* though toggles before that are overridden by what was read (background.js:18-27).
GuardedWhenEnabled == phase # "reading" /\ enabled => listeners > 0

\* Once start() is over the default badge says whether the extension is on,
\* whatever toggles came while it ran (background.js:28, 60).
BadgeHonest == phase = "done" => badge = BadgeOf(enabled)

\* A tab that shows a count has requests cancelled on the page it shows
\* (background.js:141-157).
CountOfThisPage == \A t \in Tab : tabText[t] = "count" => cancelled[t] > 0

\* An extension left on eventually cancels requests: whoever turned it on, its
\* engine gets ready (background.js:22-26, 61-64).
BecomesEffective == enabled ~> (~enabled \/ (ready /\ listeners > 0))

\* popup.js:35-37, "Protection disabled": while the popup says so and the
\* background agrees, no further request is cancelled.
DisabledMeansOff ==
  [][popup = "disabled" /\ ~enabled => \A t \in Tab : cancelled'[t] <= cancelled[t]]_vars
===============================================================================
