-------------------------------- MODULE MCPage --------------------------------
(* Two classes and an id; three engines, the last with generichide.          *)
EXTENDS CosmeticPage

CONSTANTS ad, promo, bad

MCKey == {ad, promo, bad}
MCEngines ==
  {[generic |-> {ad, promo}, specific |-> {promo}, excepted |-> {ad}, generichide |-> FALSE],
   [generic |-> {promo, bad}, specific |-> {}, excepted |-> {}, generichide |-> FALSE],
   [generic |-> {promo, bad}, specific |-> {ad}, excepted |-> {}, generichide |-> TRUE]}
===============================================================================
