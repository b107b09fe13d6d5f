----------------------------- MODULE RulesInForce -----------------------------
(***************************************************************************)
(* What the background page promises about custom rules, without handlers, *)
(* caches or lists: requests are answered with rules that were the stored  *)
(* ones at the moment they came into force, and while nothing is left to   *)
(* do ("behind" is FALSE) they are the stored ones now.                    *)
(***************************************************************************)
CONSTANTS Rule, Nothing

VARIABLES
  rules,    \* the stored rules
  inForce,  \* the rules requests are answered with, Nothing while not ready
  behind    \* a rebuild is owed, or the user has not asked for one

vars == <<rules, inForce, behind>>

Init == rules = {} /\ inForce = Nothing /\ behind = TRUE

\* The user edits the stored rules.
Edit == /\ rules' \in SUBSET Rule
        /\ behind' = TRUE
        /\ UNCHANGED inForce

\* The only way to catch up: the current rules, all of them, come into force.
Apply == /\ inForce' = rules
         /\ behind' \in BOOLEAN
         /\ UNCHANGED rules

\* A rebuild begins that is not due to an edit.
Owe == /\ behind' = TRUE
       /\ UNCHANGED <<rules, inForce>>

\* The process ends, or an engine is emptied by a cache it cannot read.
Lose == /\ inForce' \in {Nothing, {}}
        /\ behind' = TRUE
        /\ UNCHANGED rules

Next == Edit \/ Apply \/ Owe \/ Lose
Spec == Init /\ [][Next]_vars
===============================================================================
