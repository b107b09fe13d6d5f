-------------------------------- MODULE MCTexts --------------------------------
(***************************************************************************)
(* What becomes of the texts of rules, part by part: a behaviour is one of *)
(* the parts', with the variables of the others as in one of their states. *)
(***************************************************************************)
EXTENDS MCCosmetics, MCPatterns, MCLists, Patterns, OptionTexts, FilterSet, FlatContainers

CONSTANTS
  Parts,     \* the parts considered
  MaxRules   \* cosmetic rules of a behaviour

VARIABLE part    \* the part that moves

\* What the theorems assume of the constants of their parts.
ASSUME TextAssumption      == TextsShaped
ASSUME OptionAssumption    == OptionsShaped
ASSUME ListAssumption      == LinesShaped
ASSUME ContainerAssumption == ContainersShaped

patternVars == <<filter, url>>

TextsInit ==
  /\ part \in Parts
  /\ Init /\ StorageInit
  /\ IF part = "patterns" THEN PatternInit
     ELSE filter = Parse(<<"a">>, "no", FALSE) /\ url = NoUrl
  /\ IF part = "options" THEN OptionsInit
     ELSE text = [exception |-> FALSE, shape |-> "host", options |-> <<Without("badfilter")>>]
  /\ IF part = "lists" THEN ListsInit ELSE ListsInit /\ debug = FALSE
  /\ IF part = "containers" THEN ContainersInit
     ELSE ContainersInit /\ sort = "set" /\ hash = CHOOSE h \in Hash : TRUE

TextsNext ==
  \/ /\ part = "cosmetic rules" /\ Cardinality(rules) < MaxRules /\ Next
     /\ UNCHANGED <<part, storageVars, patternVars, text, listVars, containerVars>>
  \/ /\ part = "resources" /\ StorageNext
     /\ UNCHANGED <<part, vars, patternVars, text, listVars, containerVars>>
  \/ /\ part = "patterns" /\ AskUrl
     /\ UNCHANGED <<part, vars, storageVars, text, listVars, containerVars>>
  \/ /\ part = "options" /\ OptionsNext
     /\ UNCHANGED <<part, vars, storageVars, patternVars, listVars, containerVars>>
  \/ /\ part = "lists" /\ ListsNext
     /\ UNCHANGED <<part, vars, storageVars, patternVars, text, containerVars>>
  \/ /\ part = "containers" /\ ContainersNext
     /\ UNCHANGED <<part, vars, storageVars, patternVars, text, listVars>>

TextsSpec == TextsInit /\ [][TextsNext]_<<part, vars, storageVars, patternVars, text, listVars, containerVars>>
================================================================================
