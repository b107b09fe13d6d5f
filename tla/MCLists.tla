-------------------------------- MODULE MCLists --------------------------------
(***************************************************************************)
(* Options of network rules, the lines of lists, and the keys of compiled  *)
(* rules, under hash functions that spread them and that let them collide. *)
(***************************************************************************)
EXTENDS Naturals

Opt(name, on, value, domains) == [name |-> name, on |-> on, value |-> value, domains |-> domains]
Plain(name)   == Opt(name, TRUE, "", {})
Without(name) == Opt(name, FALSE, "", {})
Valued(name, value) == Opt(name, TRUE, value, {})
Domains(ds)   == Opt("domain", TRUE, "", ds)
Yes(name)     == [on |-> TRUE, name |-> name]
No(name)      == [on |-> FALSE, name |-> name]

MCOption ==
  {Plain(n) : n \in {"image", "script", "document", "all", "third-party", "first-party",
                     "badfilter", "match-case", "generichide"}}
  \cup {Without(n) : n \in {"image", "third-party", "important"}}
  \cup {Domains({Yes("a"), No("b")}), Domains({No("b"), Yes("re")}), Valued("tag", "t"),
        Plain("csp"), Valued("removeparam", "p"), Valued("redirect-rule", "s")}

Net(exception, shape, pattern, options) ==
  [is |-> "network", pattern |-> pattern,
   text |-> [exception |-> exception, shape |-> shape, options |-> options]]
Hiding(at, unhide) ==
  [is |-> "cosmetic", at |-> at, notAt |-> {}, entities |-> FALSE, unhide |-> unhide,
   script |-> FALSE, action |-> FALSE, procedural |-> FALSE, selector |-> "s"]
Field(key, value) == [is |-> "field", key |-> key, value |-> value]

MCListLine ==
  {Net(FALSE, "host", "p", << >>),
   Net(TRUE, "pattern", "p", <<Plain("third-party"), Domains({Yes("a"), Yes("re")})>>),
   Net(FALSE, "pattern", "q", <<Plain("script"), Plain("subdocument"), Plain("object")>>),
   Net(FALSE, "pattern", "q", <<Without("image"), Plain("important")>>),
   Net(TRUE, "pattern", "q", <<Plain("script"), Without("third-party")>>),
   Net(TRUE, "pattern", "q", <<Plain("script"), Without("third-party"), Plain("badfilter")>>),
   Net(FALSE, "host", "p", <<Domains({No("a")}), Plain("subdocument"), Plain("first-party")>>),
   Net(FALSE, "pattern", "q", <<Opt("domain", TRUE, "from", {Yes("a")})>>),
   Net(FALSE, "pattern", "q", <<Plain("ping")>>),
   Net(FALSE, "pattern", "p", <<Plain("third-party"), Plain("first-party")>>),
   [is |-> "hosts", fields |-> 2, valid |-> TRUE, pattern |-> "p"],
   Hiding({"a"}, FALSE), Hiding({"a"}, TRUE),
   Field("Title", "x"), Field("Title", "y"), Field("Expires", "never"), Field("Expires", "1 day"),
   [is |-> "header"], [is |-> "blank"]}

MCFlatKey  == 1 .. 5
MCHash == {<<0, 4, 8, 3, 3>>, <<4, 0, 1, 2, 3>>, <<3, 3, 3, 3, 3>>, <<5, 9, 13, 1, 7>>,
                  <<7, 6, 5, 4, 12>>}
================================================================================
