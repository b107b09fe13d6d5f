------------------------------ MODULE MCCosmetics ------------------------------
(***************************************************************************)
(* Cosmetic rules of every kind against four hosts; scriptlets with        *)
(* dependencies of their own, shared, circular, privileged or broken.      *)
(***************************************************************************)
EXTENDS CosmeticRules, ResourceStorage

CONSTANTS main, none, torn   \* the arguments of scripts

Site   == <<"a", "com">>
Sub    == <<"s", "a", "com">>
MCName == {Site, Sub, <<"a">>, <<"s", "a">>, <<"com">>, <<"l">>}
MCHost == {[name |-> Site, domain |-> 1], [name |-> Sub, domain |-> 2],
           [name |-> <<"b", "com">>, domain |-> 1], [name |-> <<"l">>, domain |-> 1]}

Css(start, key, rest) == [start |-> start, key |-> key, rest |-> rest]

Ad         == Css(".", "ad", "")
AdIn       == Css(".", "ad", " p")
IdAd       == Css("#", "ad", "")
IdAdIn     == Css("#", "ad", " p")
Div        == Css("div", Null, "")
Keyless    == Css(".", Null, "")
HasText    == Css("p", Null, ":has-text(x)")
Broken     == Css("p", Null, "((")
TopIn      == Css(".", "top", " p")
PopIn      == Css(".", "pop", " p")
MCSelector == {Ad, AdIn, TopIn, PopIn, IdAd, IdAdIn, Div, Keyless, HasText, Broken}

MCProcedural == {HasText}
MCInvalid    == {Broken}

At(kind, name)  == [kind |-> kind, negated |-> FALSE, name |-> name]
Not(kind, name) == [kind |-> kind, negated |-> TRUE, name |-> name]

CssLine(locations, mark, selector) ==
  [located |-> locations # {}, modifiers |-> FALSE, locations |-> locations, mark |-> mark,
   body |-> "css", selector |-> selector, action |-> Null, permission |-> {}]
ScriptLine(locations, mark, script, permission) ==
  [CssLine(locations, mark, script) EXCEPT !.body = "script", !.permission = permission]

\* Nothing but commas before the sharp.
Stray(line) == [line EXCEPT !.located = TRUE]

OnSite == {At("host", Site)}
NotSub == {Not("host", Sub)}

MCLine ==
  {CssLine({}, "##", s) : s \in {Ad, AdIn, TopIn, PopIn, IdAdIn, Div, Keyless, HasText, Broken}}
  \cup {CssLine(OnSite, "##", IdAd), CssLine({At("entity", <<"a">>)}, "#@#", Ad),
        CssLine(OnSite, "#@#", AdIn), CssLine({}, "#@#", Div), CssLine(NotSub, "##", Div),
        CssLine(NotSub, "#@#", IdAd), CssLine({At("regex", Site)}, "##", Div),
        CssLine({At("notIdna", Site)}, "##", Div), CssLine(OnSite, "foreign", Div),
        [CssLine(OnSite, "##", Div) EXCEPT !.modifiers = TRUE],
        [CssLine(OnSite \cup NotSub, "##", HasText) EXCEPT !.action = "remove"],
        [CssLine({}, "##", Div) EXCEPT !.action = "remove"],
        [CssLine(OnSite, "##", Div) EXCEPT !.action = "invalid"],
        [CssLine(OnSite, "##", Div) EXCEPT !.body = "html"],
        Stray(CssLine({}, "#@#", Ad)), Stray(CssLine({}, "##", HasText)),
        Stray([CssLine({}, "##", IdAd) EXCEPT !.action = "remove"])}
  \cup {ScriptLine(OnSite \cup {At("regex", Sub)}, "##", main, {1}),
        ScriptLine({At("host", Sub)} \cup {Not("host", <<"l">>)}, "##", main, {2}),
        ScriptLine({At("entity", <<"s", "a">>)}, "#@#", main, {}),
        ScriptLine({At("host", Sub)}, "#@#", none, {}),
        ScriptLine(OnSite, "##", torn, {}), ScriptLine({}, "##", main, {}), Stray(ScriptLine({}, "##", main, {}))}

-----------------------------------------------------------------------------
Stored(name, also, dependencies, permission, kind, content) ==
  [name |-> name, aliases |-> also, dependencies |-> dependencies, permission |-> permission,
   kind |-> kind, content |-> content]

MCResource ==
  {Stored("a", {"b"}, <<"f", "g">>, {}, "js", "function"),
   Stored("b", {}, <<"f">>, {}, "template", "other"),
   Stored("t", {}, <<"a", "f">>, {1}, "js", "function"),
   Stored("f", {}, <<"g", "h">>, {}, "fn", "function"),
   Stored("g", {}, <<"f">>, {1}, "fn", "function"),
   Stored("h", {}, << >>, {}, "text", "notUtf8"), Stored("h", {"b"}, << >>, {}, "binary", "notUtf8"),
   Stored("h", {}, << >>, {}, "fn", "other")}

Call(name, permission) ==
  [named |-> TRUE, name |-> name, object |-> FALSE, permission |-> permission]

MCInjection == {Call("a", {1}), Call("b", {}), Call("t", {1}), Call("a", {}),
                [Call("a", {}) EXCEPT !.object = TRUE]}
================================================================================
