---------------------------- MODULE ResourceStorage ----------------------------
(***************************************************************************)
(* The store of redirect and scriptlet resources (resource_storage.rs): it *)
(* is filled once, under names and aliases, and asked for the scriptlets a *)
(* page's rules inject, which are put together with what they depend on.   *)
(*                                                                         *)
(* get_scriptlet_resources goes through a HashMap: the scriptlets come in  *)
(* any order.  recursive_dependencies is a loop over the names it still    *)
(* has to visit.  A permission is a set of bits, a content what it decodes *)
(* to.                                                                     *)
(***************************************************************************)
EXTENDS Naturals, Sequences

CONSTANTS
  Ident,       \* names and aliases
  Trust,       \* the bits of permissions
  Resource,    \* the resources that may be added
  RuleInjection,  \* what rules may inject: a scriptlet and the permission of its rules
  NoCall

ResourceRecord ==
  [name : Ident, aliases : SUBSET Ident, dependencies : Seq(Ident), permission : SUBSET Trust,
   kind    : {"template", "js", "fn", "text", "binary"},
   content : {"function", "other", "notUtf8", "notBase64"}]

InjectionRecord ==
  [named : BOOLEAN, name : Ident, object : BOOLEAN, permission : SUBSET Trust]

ASSUME ResourceAssumption  == Resource \subseteq ResourceRecord
ASSUME InjectionAssumption == RuleInjection \subseteq InjectionRecord
\* "Aliases should never be added to this list" (resources/mod.rs:146).
ASSUME CanonicalDependencies ==
  \A r, q \in Resource : \A i \in DOMAIN r.dependencies : r.dependencies[i] \notin q.aliases
ASSUME NoCallAssumption == NoCall \notin [injection : RuleInjection, resource : Resource]

VARIABLES
  resources,   \* name -> resource
  aliases,     \* alias -> name
  asked,       \* the injections of the page being answered
  toDo,        \* those not yet looked at
  call,        \* the one being looked at, with its resource
  work,        \* the dependencies it has yet to visit
  deps,        \* the resources collected for the page
  invoked      \* the injections whose scriptlets are called

storageVars == <<resources, aliases, asked, toDo, call, work, deps, invoked>>

-----------------------------------------------------------------------------
(* Filling the store.                                                      *)

Idents(r) == {r.name} \cup r.aliases

Corrupt(r) == \/ r.content = "notBase64"
              \/ r.content = "notUtf8" /\ r.kind # "binary"

\* Variant: names are looked up among the names only.
RefusedByName(r) ==
  \/ r.kind \in {"text", "binary"} /\ r.dependencies # << >>
  \/ Corrupt(r)
  \/ Idents(r) \cap DOMAIN resources # {}

Refused(r) ==
  \/ r.kind \in {"text", "binary"} /\ r.dependencies # << >>
  \/ Corrupt(r)
  \/ Idents(r) \cap (DOMAIN resources \cup DOMAIN aliases) # {}

AddResource(r) ==
  /\ asked = {}
  /\ ~Refused(r)
  /\ resources' = [n \in DOMAIN resources \cup {r.name} |->
                     IF n = r.name THEN r ELSE resources[n]]
  /\ aliases' = [a \in DOMAIN aliases \cup r.aliases |->
                   IF a \in r.aliases THEN r.name ELSE aliases[a]]
  /\ UNCHANGED <<asked, toDo, call, work, deps, invoked>>

-----------------------------------------------------------------------------
(* Asking it.                                                              *)

Canonical(ident) ==
  IF ident \notin DOMAIN resources /\ ident \in DOMAIN aliases THEN aliases[ident] ELSE ident
Known(ident) == Canonical(ident) \in DOMAIN resources
Get(ident)   == resources[Canonical(ident)]

IsInjectableBy(r, permission) == r.permission \subseteq permission
Permissioned(ident, permission) == Known(ident) /\ IsInjectableBy(Get(ident), permission)

Loaded(ident) == \E i \in DOMAIN deps : deps[i].name = ident

\* get_scriptlet_resources is called for a page.
Ask(injections) ==
  /\ toDo = {} /\ call = NoCall
  /\ asked' = injections /\ toDo' = injections
  /\ deps' = << >> /\ invoked' = {}
  /\ UNCHANGED <<resources, aliases, call, work>>

Injectable(i) ==
  /\ i.named /\ ~i.object
  /\ Permissioned(i.name, i.permission)
  /\ Get(i.name).kind \in {"template", "js"}

Begin(i) ==
  /\ i \in toDo /\ call = NoCall
  /\ toDo' = toDo \ {i}
  /\ IF Injectable(i)
     THEN /\ call' = [injection |-> i, resource |-> Get(i.name)]
          /\ work' = Get(i.name).dependencies
     ELSE UNCHANGED <<call, work>>
  /\ UNCHANGED <<resources, aliases, asked, deps, invoked>>

\* Variant: with no look at the permission.
CollectAny ==
  /\ call # NoCall /\ work # << >> /\ ~Loaded(Head(work)) /\ Known(Head(work))
  /\ deps' = Append(deps, Get(Head(work)))
  /\ work' = Get(Head(work)).dependencies \o Tail(work)
  /\ UNCHANGED <<resources, aliases, asked, toDo, call, invoked>>

\* Variant: dependencies of dependencies are left out.
CollectFlat ==
  /\ call # NoCall /\ work # << >> /\ ~Loaded(Head(work))
  /\ Permissioned(Head(work), call.injection.permission)
  /\ deps' = Append(deps, Get(Head(work)))
  /\ work' = Tail(work)
  /\ UNCHANGED <<resources, aliases, asked, toDo, call, invoked>>

Collect ==
  /\ call # NoCall /\ work # << >> /\ ~Loaded(Head(work))
  /\ Permissioned(Head(work), call.injection.permission)
  /\ deps' = Append(deps, Get(Head(work)))
  /\ work' = Get(Head(work)).dependencies \o Tail(work)
  /\ UNCHANGED <<resources, aliases, asked, toDo, call, invoked>>

\* Already there, with whatever it needs or not.
Skip ==
  /\ call # NoCall /\ work # << >> /\ Loaded(Head(work))
  /\ work' = Tail(work)
  /\ UNCHANGED <<resources, aliases, asked, toDo, call, deps, invoked>>

\* The error ends this injection; what it has collected stays.
Fail ==
  /\ call # NoCall /\ work # << >> /\ ~Loaded(Head(work))
  /\ ~Permissioned(Head(work), call.injection.permission)
  /\ call' = NoCall /\ work' = << >>
  /\ UNCHANGED <<resources, aliases, asked, toDo, deps, invoked>>

\* Variant: a function is appended however often it is called.
InvokeAgain ==
  /\ call # NoCall /\ work = << >>
  /\ deps' = IF call.resource.content = "function" THEN Append(deps, call.resource) ELSE deps
  /\ invoked' = invoked \cup {call.injection}
  /\ call' = NoCall
  /\ UNCHANGED <<resources, aliases, asked, toDo, work>>

\* A function is itself a dependency of its call; a template is filled in.
Invoke ==
  /\ call # NoCall /\ work = << >>
  /\ deps' = IF call.resource.content = "function" /\ ~Loaded(call.resource.name)
             THEN Append(deps, call.resource) ELSE deps
  /\ invoked' = invoked \cup {call.injection}
  /\ call' = NoCall
  /\ UNCHANGED <<resources, aliases, asked, toDo, work>>

-----------------------------------------------------------------------------
StorageInit ==
  /\ resources = [n \in {} |-> n] /\ aliases = [a \in {} |-> a]
  /\ asked = {} /\ toDo = {} /\ call = NoCall /\ work = << >> /\ deps = << >> /\ invoked = {}

StorageNext ==
  \/ \E r \in Resource : AddResource(r)
  \/ \E injections \in SUBSET RuleInjection : Ask(injections)
  \/ \E i \in RuleInjection : Begin(i)
  \/ Collect \/ Skip \/ Fail \/ Invoke

StorageSpec == StorageInit /\ [][StorageNext]_storageVars

StorageTypeOK ==
  /\ resources \in [DOMAIN resources -> Resource] /\ DOMAIN resources \subseteq Ident
  /\ aliases \in [DOMAIN aliases -> Ident] /\ DOMAIN aliases \subseteq Ident
  /\ asked \subseteq RuleInjection /\ toDo \subseteq asked /\ invoked \subseteq asked
  /\ call \in [injection : asked, resource : Resource] \cup {NoCall}
  /\ work \in Seq(Ident) /\ deps \in Seq(Resource)

-----------------------------------------------------------------------------
(* Properties.                                                             *)

\* A resource that was added is found under its name and under each of its
\* aliases, whatever is added or refused after it (add_resource, get_resource).
FoundUnderItsNames ==
  \A n \in DOMAIN resources : \A ident \in Idents(resources[n]) :
    Known(ident) /\ Get(ident) = resources[n]

\* A page's script holds no resource twice, though it may be a dependency of
\* many, and a scriptlet and a dependency at once: "recursively and uniquely".
CollectedOnce ==
  \A i, j \in DOMAIN deps : deps[i].name = deps[j].name => i = j

\* What is collected for a page was allowed by one of its injections, even if
\* that one failed later on (resources/mod.rs:31-33).
CollectedWithPermission ==
  \A i \in DOMAIN deps : \E j \in asked : IsInjectableBy(deps[i], j.permission)

Failed == asked \ (toDo \cup invoked \cup {j \in asked : call # NoCall /\ call.injection = j})

\* As long as no injection has failed, whatever the collected resources depend
\* on is collected too, or about to be: the answer is complete, in any order
\* the scriptlets came.
CompleteUnlessFailed ==
  Failed = {} =>
    \A i \in DOMAIN deps : \A k \in DOMAIN deps[i].dependencies :
      \/ Loaded(deps[i].dependencies[k])
      \/ \E w \in DOMAIN work : work[w] = deps[i].dependencies[k]

\* What an identifier depends on, at any remove: in every set of identifiers
\* that holds its dependencies and those of its members.
Dependencies(ident) == IF Known(ident) THEN {Get(ident).dependencies[k] : k \in DOMAIN Get(ident).dependencies}
                                       ELSE {}
Needed(ident) ==
  {d \in Ident : \A S \in SUBSET Ident :
     Dependencies(ident) \cup UNION {Dependencies(e) : e \in S} \subseteq S => d \in S}

\* resource_storage.rs:304-305, "Add all dependencies of `new_dep` to
\* `prev_deps`, recursively and uniquely. If the given permission is
\* insufficient for any dependency, this will return an `Error`": a scriptlet
\* that is called has all its dependencies, and may have them.
CalledWithDependencies ==
  \A i \in invoked : \A d \in Needed(i.name) : Permissioned(d, i.permission) /\ Loaded(d)
================================================================================
