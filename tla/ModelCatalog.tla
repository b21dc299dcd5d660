----------------------------- MODULE ModelCatalog -----------------------------
(* The models of the provider and their published fallbacks.  A publication  *)
(* makes each of its checks in a transaction of its own and writes in        *)
(* another; a route looks for an eligible model in the catalog it was given. *)
EXTENDS ProviderCredentials, SequencesExt

CONSTANTS
    Models,
    Publications,       \* calls of publishModel
    Published,          \* the model and the fallbacks of each
    Earlier,            \* the fallbacks earlier publications left, under a provider since deprecated
    Routes              \* calls of routeModel with a preferred model

ASSUME CatalogAssumption ==
    /\ Published \in [Publications -> [model : Models, fallbacks : Seq(Models)]]
    /\ Earlier \in [Models -> Seq(Models) \cup {None}]

VARIABLES
    provider,           \* whether the provider's current version is active
    publishing,         \* whether a publishProvider has seen an active credential
    catalog,            \* the fallbacks of each model's active version, or None
    publication,        \* the check each publication makes next
    route               \* each route's catalog and the chains it is still to try

catalogVars == <<provider, publishing, catalog, publication, route>>
vars == <<credentialVars, catalogVars>>

MaxHops == 3
NotRouting == [step |-> "idle", graph |-> None, chains |-> <<>>]

Init ==
    /\ CredentialInit
    /\ provider = FALSE
    /\ publishing = FALSE
    /\ catalog = Earlier
    /\ publication = [p \in Publications |-> "check"]
    /\ route = [r \in Routes |-> NotRouting]

CredentialIsActive == Active # {}
-----------------------------------------------------------------------------
(* The fallback graph                                                        *)

\* Where a model's fallbacks lead; no model beyond MaxHops + 1 is looked at.
WalksFrom(graph, model) ==
    {walk \in BoundedSeq(Models, MaxHops + 2) :
        /\ walk # <<>> /\ walk[1] = model
        /\ \A i \in 2..Len(walk) : graph[walk[i - 1]] # None /\ walk[i] \in ToSet(graph[walk[i - 1]])}

\* No walk is longer than MaxHops, returns to where it was or meets no model.
ValidFrom(graph, model) ==
    \A walk \in WalksFrom(graph, model) :
        Len(walk) <= MaxHops + 1 /\ IsInjective(walk) /\ graph[Last(walk)] # None

\* The graph a publication would leave, of the one it read.
WithModel(p) == [catalog EXCEPT ![Published[p].model] = Published[p].fallbacks]

\* validGraph.
ValidGraph(p) ==
    /\ Len(Published[p].fallbacks) <= MaxHops /\ IsInjective(Published[p].fallbacks)
    /\ ValidFrom(WithModel(p), Published[p].model)
-----------------------------------------------------------------------------
(* publishProvider and publishModel                                          *)

\* credential.isActive, in a transaction before the publication's.
CheckProvider ==
    /\ CredentialIsActive
    /\ publishing' = TRUE
    /\ UNCHANGED <<provider, catalog, publication, route>>

\* The version in use is replaced by another that is active, though its credential may
\* no longer be; none is withdrawn.  A call that fails leaves what there was.
PublishProvider ==
    /\ publishing /\ publishing' = FALSE
    /\ provider' \in {provider, TRUE}
    /\ UNCHANGED <<catalog, publication, route>>

PublicationGoes(p, step, holds, next) ==
    /\ publication[p] = step /\ holds
    /\ publication' = [publication EXCEPT ![p] = next]

\* isProviderActive and credential.isActive: no provider stops being active between
\* the two, so they are one step.  Then the graph that loadFallbackGraph reads.
Check(p) ==
    /\ \/ PublicationGoes(p, "check", provider /\ CredentialIsActive, "graph")
       \/ PublicationGoes(p, "graph", ValidGraph(p), "publish")
    /\ UNCHANGED <<provider, publishing, catalog, route>>

\* One transaction: the model's active version is replaced, its versions are not told apart.
PublishModel(p) ==
    /\ PublicationGoes(p, "publish", provider, "ended")
    /\ catalog' = WithModel(p)
    /\ UNCHANGED <<provider, publishing, route>>

\* A check that refuses, a database that fails, a key that is not free.
PublicationFails(p) ==
    /\ publication[p] # "ended"
    /\ publication' = [publication EXCEPT ![p] = "ended"]
    /\ UNCHANGED <<provider, publishing, catalog, route>>

Publish(p) == Check(p) \/ PublishModel(p) \/ PublicationFails(p)
-----------------------------------------------------------------------------
(* routeModel                                                                *)

To(r, next) == route' = [route EXCEPT ![r] = next] /\ UNCHANGED <<provider, publishing, catalog, publication>>

\* Mutant: the catalog's graph is taken as published.
AnyGraph(graph, model) == graph[model] # None

Routable(graph, model) == ValidFrom(graph, model)

\* FALLBACK_INVALID is a denial without a step of its own.
BeginRoute(r) ==
    /\ route[r].step = "idle"
    /\ \E model \in Models :
           /\ Routable(catalog, model)
           /\ To(r, [step |-> "select", graph |-> catalog, chains |-> <<<<model>>>>])

Chain(r) == Head(route[r].chains)

\* A model passes the request's filters, and its credential and its health are asked for.
Select(r) ==
    /\ route[r].step = "select" /\ CredentialIsActive
    /\ To(r, [route[r] EXCEPT !.step = "allowed", !.chains = <<Chain(r)>>])

\* Or it does not, and its own fallbacks come before the others that are left.
Skip(r) ==
    /\ route[r].step = "select"
    /\ LET fallbacks == route[r].graph[Last(Chain(r))]
           chains == [i \in DOMAIN fallbacks |-> Append(Chain(r), fallbacks[i])] \o Tail(route[r].chains)
       IN  To(r, IF chains = <<>> THEN NotRouting ELSE [route[r] EXCEPT !.chains = chains])

\* The decision is answered, or a dependency failed and it is a denial.
RouteEnds(r) == route[r].step # "idle" /\ To(r, NotRouting)

RouteModel(r) == BeginRoute(r) \/ Select(r) \/ Skip(r) \/ RouteEnds(r)

Next ==
    \/ CredentialNext /\ UNCHANGED catalogVars
    \/ /\ \/ CheckProvider
          \/ PublishProvider
          \/ \E p \in Publications : Publish(p)
          \/ \E r \in Routes : RouteModel(r)
       /\ UNCHANGED credentialVars

Spec == Init /\ [][Next]_vars
-----------------------------------------------------------------------------
(* Properties                                                                *)

\* A decision's chain leads over published fallbacks, within the hops allowed and with
\* no model twice, though publications that raced may have closed a cycle.
ChainsAreFallbacks ==
    \A r \in Routes : route[r].step = "allowed" =>
        /\ Len(Chain(r)) <= MaxHops + 1 /\ IsInjective(Chain(r))
        /\ Chain(r) \in WalksFrom(route[r].graph, Chain(r)[1])

\* The published fallbacks have no cycle.
CatalogIsAcyclic ==
    \A m \in Models : \A walk \in WalksFrom(catalog, m) : IsInjective(walk)
=============================================================================
