------------------------------ MODULE MCPatterns ------------------------------
(***************************************************************************)
(* Texts and URLs put together from few pieces: tokens of two letters that *)
(* may run on, separators, wildcards, and hosts of one to three labels.    *)
(***************************************************************************)
EXTENDS Naturals, Sequences

CONSTANT MaxPieces   \* bounds the pieces of a text

MCLetter == {"a", "b", "h"}

\* Everything n pieces can be put together to.
Joined(pieces, n) ==
  LET upto[k \in 0 .. n] == IF k = 0 THEN {<< >>}
                            ELSE upto[k - 1] \cup {s \o p : s \in upto[k - 1], p \in pieces}
  IN  upto[n]

TextPieces == {<<"a">>, <<"a", "a">>, <<".">>, <<"/">>, <<"*">>, <<"^">>}

MCText == Joined(TextPieces, MaxPieces)

Hosts == {<<"a", "a">>, <<"a", "a", "a", "a">>, <<"a", ".", "a", "a">>,
          <<"a", "a", ".", "a", "a">>, <<"b", "a", ".", "a", "a", "b", ".", "a">>}
Paths == {<<"/">> \o p : p \in Joined({<<"a">>, <<"a", "a">>, <<"/">>}, 2)}
           \cup {<<"/", "*", "a", "a">>}

MCUrl == [host : Hosts, path : Paths]
===============================================================================
