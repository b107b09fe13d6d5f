------------------------------ MODULE OptionTexts ------------------------------
(***************************************************************************)
(* The text of a network rule, written one option at a time, and what its  *)
(* options, read one by one, say.                                          *)
(***************************************************************************)
EXTENDS NetworkOptions

CONSTANTS
  Option,      \* the options considered: records [name, on, value, domains]
  MaxOptions   \* bound on the options of a rule

VARIABLE text   \* [exception, shape, options]

\* The shape of the options considered, and a None that is no set of domains.
OptionsShaped ==
  /\ Option \subseteq [name : STRING, on : BOOLEAN, value : STRING,
                       domains : SUBSET [on : BOOLEAN, name : Domain]]
  /\ \A names \in SUBSET Domain : None # names

-----------------------------------------------------------------------------
OptionsInit == text \in [exception : BOOLEAN, shape : {"host", "host|", "pattern", "regex"},
                          options : {<<>>}]

\* No option makes a refused text acceptable.
Write(o) == /\ Len(text.options) < MaxOptions
            /\ ~RefusedText(text)
            /\ text' = [text EXCEPT !.options = Append(@, o)]

OptionsNext == \E o \in Option : Write(o)

OptionsSpec == OptionsInit /\ [][OptionsNext]_text

-----------------------------------------------------------------------------
Given(t)    == {t.options[i] : i \in DOMAIN t.options}
Naming(t)   == {o \in Given(t) : o.name \in AllType}
Once(t, name) == Count(t.options, {name}) <= 1

\* What each option, alone, says of a request: the parser's comments and those
\* of NetworkFilterMask, option by option.
TypeAsWritten(t, r) ==
  LET named     == {o.name : o \in {p \in Naming(t) : p.on}}
                     \cup (IF \E o \in Given(t) : o.name = "all" THEN AllType ELSE {})
      except    == {o.name : o \in {p \in Naming(t) : ~p.on}}
      rewrites  == Count(t.options, {"removeparam"}) > 0
      unnamed   == CASE rewrites -> {"document", "subdocument", "xmlhttprequest"}
                     [] ~rewrites /\ (Count(t.options, {"csp"}) > 0 \/ t.shape = "host") /\ except = {}
                        -> AllType
                     [] OTHER -> NetworkType
  IN  \/ t.exception /\ r.type = "document"
      \/ /\ r.type \notin except
         /\ \/ r.type \in named
            \/ named = {} /\ r.type \in unnamed
            \/ except # {} /\ r.type \in NetworkType /\ ~rewrites

OptionAsWritten(o, r) ==
  CASE o.name = "third-party" -> r.third = o.on
    [] o.name = "first-party" -> r.third # o.on
    [] o.name = "badfilter"   -> FALSE
    [] o.name = "domain" ->
         LET yes == {d.name : d \in {e \in Supported(o) : e.on}}
             no  == {d.name : d \in {e \in Supported(o) : ~e.on}}
         IN  IF r.source = None THEN yes = {}
             ELSE (yes = {} \/ yes \cap r.source # {}) /\ no \cap r.source = {}
    [] OTHER -> TRUE

\* A rule is open to the requests that each of its options allows, whatever
\* the other options are ("Full document rules are not implied by negated
\* types", network.rs:107; csp rules "always match against subdocument and
\* document rules", network.rs:532).  Given its domains once: a second list
\* replaces the first.
AppliesAsWritten ==
  ~RefusedText(text) /\ Once(text, "domain") =>
    LET filter == NetworkFilter(text)
    IN  \A r \in Request :
          OpenTo(filter, r) <=>
            TypeAsWritten(text, r) /\ \A o \in Given(text) : OptionAsWritten(o, r)

\* The order of a rule's options says nothing, unless it gives two lists of
\* domains or two tags: the later of these replaces the earlier.
OrderIrrelevant ==
  Once(text, "domain") /\ Once(text, "tag") =>
    \A i, j \in DOMAIN text.options :
      LET swapped == [text EXCEPT !.options[i] = text.options[j], !.options[j] = text.options[i]]
      IN  /\ RefusedText(swapped) = RefusedText(text)
          /\ ~RefusedText(text) => NetworkFilter(swapped) = NetworkFilter(text)

\* A rule and the same rule with $badfilter written anywhere among its options
\* are told to be the same one: NetworkRulesBuilder drops the filters whose id
\* is the badfilter's without its flag.
BadfilterNamesItsTwin ==
  \A i \in DOMAIN text.options :
    LET twin == [text EXCEPT !.options = RemoveAt(@, i)]
    IN  text.options[i].name = "badfilter" /\ Count(text.options, {"badfilter"}) = 1
          /\ ~RefusedText(text)
        => ~RefusedText(twin) /\ FilterId(NetworkFilter(twin)) = FilterId(WithoutBadfilter(NetworkFilter(text)))
=================================================================================
