--------------------------- MODULE MCEngineManager ---------------------------
(* Small instances of EngineManager for TLC.                               *)
EXTENDS EngineManager, TLC

CONSTANTS l1, l2, r1, r2, t1, t2

Lists2 == {l1, l2}
Lists1 == {l1}
Rules2 == {r1, r2}
Rules1 == {r1}
Tasks1 == {t1}
Tasks2 == {t1, t2}

\* Rules and handler slots are interchangeable (lists are not: NextList).
RuleSymmetry == Permutations(Rules2) \cup Permutations(Tasks2)

RuleOps   == {"createRule", "saveRules", "removeRule", "toggleOn"}
ListOps   == {"editLists", "updateNow", "alarm", "toggleOn"}
LiveOps   == {"createRule", "saveRules", "removeRule", "importSettings", "toggleOn"}
UpdateOps == {"updateNow"}
CreateOps == {"createRule"}
=============================================================================
