------------------------------- MODULE Decisions -------------------------------
(***************************************************************************)
(* What the engine promises: each question is answered as if every rule    *)
(* given to it were tried in turn.  No lists, buckets, tokens, fused       *)
(* filters or regex cache.                                                 *)
(***************************************************************************)
EXTENDS NetworkFilters

VARIABLES
  rules,      \* the filter set the engine answers from
  tags,       \* the enabled tags
  resources,  \* the redirect resources loaded
  saved,      \* serialized rules: <<"intact", filter set>>, <<"damaged">> or <<"none">>
  answer      \* the last answer, with the question, or NoAnswer

vars == <<rules, tags, resources, saved, answer>>

NoAnswer == [about |-> "nothing"]

Is(role, f) == role \in f.mask
Plain(f)    == f.mask \cap {"csp", "removeparam", "genericHide"} = {}

\* Every rule that takes part is tried against every request.
Matching == [S \in FilterSets |-> [r \in Request |-> {f \in Live[S] : Matches(f, r)}]]

\* Of those that match, the untagged ones and those whose tag counts.
Apply(S, r, on) == {f \in Matching[S][r] : TagOn(f, on)}

\* An important rule blocks whatever else there is.
Important(S, r) == \E f \in Apply(S, r, {}) : Plain(f) /\ ~Is("exception", f) /\ Is("important", f)

\* A redirect-rule does not block, and a redirect never does by its tag.
Blocked(S, r, on) ==
  \E f \in Apply(S, r, on) :
    /\ Plain(f) /\ ~Is("exception", f) /\ ~Is("important", f)
    /\ Is("redirect", f) => Is("alsoBlock", f) /\ f.tag = Null

Excepted(S, r, on) == \E f \in Apply(S, r, on) : Plain(f) /\ Is("exception", f)

RemovedParams(S, r) ==
  r.params \cap {f.modifier : f \in {g \in Apply(S, r, {}) : Is("removeparam", g) /\ ~Is("csp", g)}}

\* The resource served instead: a top redirect's, if it is loaded.
RedirectTo(S, r, loaded) ==
  LET top == TopRedirects({f \in Apply(S, r, {}) : Is("redirect", f)})
  IN  IF top = {} THEN {Null}
      ELSE {IF ResourceOf[m] \in loaded THEN ResourceOf[m] ELSE Null : m \in top}

\* prev: an earlier engine has matched already; force: ask the exceptions anyway.
NetworkVerdicts(S, r, on, loaded, prev, force) ==
  LET imp == Important(S, r)
      blk == Blocked(S, r, on)
      exc == Excepted(S, r, on)
  IN  {[matched   |-> imp \/ ((prev \/ blk) /\ ~exc),
        important |-> imp,
        exception |-> ~imp /\ exc /\ (prev \/ blk \/ force),
        filter    |-> imp \/ (~prev /\ blk),
        redirect  |-> to,
        removed   |-> IF imp THEN {} ELSE RemovedParams(S, r)] : to \in RedirectTo(S, r, loaded)}

Verdict == [matched : BOOLEAN, important : BOOLEAN, exception : BOOLEAN, filter : BOOLEAN,
            redirect : Resource \cup {Null}, removed : SUBSET Modifier]

NothingDone == [matched |-> FALSE, important |-> FALSE, exception |-> FALSE,
                filter |-> FALSE, redirect |-> Null, removed |-> {}]

GenericHide(S, r) == \E f \in Apply(S, r, {}) :
                       Is("genericHide", f) /\ ~Is("csp", f) /\ ~Is("removeparam", f)

\* The policies to inject: those asked for and not disabled; a csp exception
\* without a value disables them all.
CspDirectives(S, r, on) ==
  LET all == {f \in Apply(S, r, on) : Is("csp", f)}
      off == {f.modifier : f \in {g \in all : Is("exception", g)}}
  IN  IF Null \in off THEN {}
      ELSE {f.modifier : f \in {g \in all : ~Is("exception", g)}} \ (off \cup {Null})

-------------------------------------------------------------------------------
Init == rules \in FilterSets /\ tags = {} /\ resources = {} /\ saved = <<"none">> /\ answer = NoAnswer

NewEngine == /\ rules' \in FilterSets
             /\ tags' = {} /\ resources' = {} /\ answer' = NoAnswer
             /\ UNCHANGED saved

SetTags == /\ tags' \in SUBSET Tag /\ answer' = NoAnswer
           /\ UNCHANGED <<rules, resources, saved>>

SetResources == /\ resources' \in SUBSET Resource /\ answer' = NoAnswer
                /\ UNCHANGED <<rules, tags, saved>>

AskNetwork ==
  /\ answer' \in [about : {"network"}, request : Request, prev : BOOLEAN, force : BOOLEAN,
                 verdict : Verdict]
  /\ LET a == answer' IN
       a.verdict \in IF a.request.supported
                     THEN NetworkVerdicts(rules, a.request, tags, resources, a.prev, a.force)
                     ELSE {NothingDone}
  /\ UNCHANGED <<rules, tags, resources, saved>>

AskGenericHide ==
  /\ answer' \in [about : {"genericHide"}, request : Request, verdict : BOOLEAN]
  /\ answer'.verdict = GenericHide(rules, answer'.request)
  /\ UNCHANGED <<rules, tags, resources, saved>>

AskCsp ==
  /\ answer' \in [about : {"csp"}, request : Request, verdict : SUBSET Modifier]
  /\ answer'.verdict = IF answer'.request.type \in {"document", "subdocument"}
                       THEN CspDirectives(rules, answer'.request, tags) ELSE {}
  /\ UNCHANGED <<rules, tags, resources, saved>>

Save == /\ saved' = <<"intact", rules>> /\ answer' = NoAnswer
        /\ UNCHANGED <<rules, tags, resources>>

Damage == /\ saved # <<"none">> /\ saved' = <<"damaged">>
          /\ UNCHANGED <<rules, tags, resources, answer>>

\* Tags and resources outlive the rules; damaged data changes nothing.
Restore == /\ saved # <<"none">>
           /\ rules' = IF saved[1] = "intact" THEN saved[2] ELSE rules
           /\ answer' = NoAnswer
           /\ UNCHANGED <<tags, resources, saved>>

Next == \/ NewEngine \/ SetTags \/ SetResources \/ Save \/ Damage \/ Restore
        \/ AskNetwork \/ AskGenericHide \/ AskCsp

Spec == Init /\ [][Next]_vars
===============================================================================
