--------------------------- MODULE PolicyResolution ---------------------------
(* The effective policy of a member: composed from the layers published when *)
(* a call reads them, kept in Redis under the versions it was composed from, *)
(* audited, and answered only when it allows.                                *)
EXTENDS Tenancy, Integers, FiniteSets, FiniteSetsExt

CONSTANTS
    Requests,           \* calls of resolveEffectivePolicy
    Requester,          \* the member, on one device, each of them is for
    Versions,           \* versions a policy layer can have
    Rules,              \* what each version of each layer says
    Publications        \* bound: the versions of layers that get published

Scopes == {"global", "tenant", "workspace"}
Layers == Scopes \cup Roles
ScopeOf(layer) == IF layer \in Roles THEN "role" ELSE layer
Unpublished == 0

ASSUME PolicyAssumption ==
    /\ Requester \in [Requests -> Users]
    /\ 1 \in Versions /\ Versions \subseteq Nat \ {Unpublished}
    /\ Publications \subseteq Layers \X Versions
    /\ \A key \in Layers \X Versions :
           /\ IsFiniteSet(Rules[key].allowed)
           /\ Rules[key].limit \in Int

VARIABLES
    published,          \* governance_policy_layer: the version published of each layer
    cache,              \* domus:policy:<tenant>:<workspace>:<user>:<device>
    evaluations,        \* governance_policy_evaluation: request, versions and decision
    resolution          \* what each call does next, the layers it read and the policy it holds

policyVars == <<published, cache, evaluations, resolution>>
vars == <<tenancyVars, policyVars>>

\* A policy is a function of its layers and their versions.
Policies == SUBSET (Layers \X Versions)
Ended == {"answered", "denied", "unavailable"}

PolicyTypeOK ==
    /\ TenancyTypeOK
    /\ published \in [Layers -> Versions \cup {Unpublished}]
    /\ cache \in [Users -> Policies \cup {None}]
    /\ evaluations \subseteq [request : Requests, layers : Policies, decision : {"ALLOW", "DENY"}]
    /\ resolution \in [Requests -> [step : {"assert", "load", "get", "audit", "publish", "answer"} \cup Ended,
                                    layers : Policies, effective : Policies, cached : BOOLEAN]]

Init ==
    /\ TenancyInit
    /\ published = [layer \in Layers |-> IF layer \in {"global", "tenant"} THEN 1 ELSE Unpublished]
    /\ cache = [u \in Users |-> None]
    /\ evaluations = {}
    /\ resolution = [r \in Requests |->
           [step |-> "assert", layers |-> {}, effective |-> {}, cached |-> FALSE]]
-----------------------------------------------------------------------------
(* composeEffectivePolicy                                                    *)

RequiredScopes == {"global", "tenant", "workspace", "role"}

\* One layer of each scope, of one currency, without a negative limit.
Allows(layers) ==
    /\ \A scope \in RequiredScopes : Cardinality({key \in layers : ScopeOf(key[1]) = scope}) = 1
    /\ Cardinality({Rules[key].currency : key \in layers}) = 1
    /\ \A key \in layers : Rules[key].limit >= 0

Decision(layers) == IF Allows(layers) THEN "ALLOW" ELSE "DENY"

Allowed(layers) ==
    IF Allows(layers) THEN {item \in UNION {Rules[key].allowed : key \in layers} :
                                \A key \in layers : item \in Rules[key].allowed}
                      ELSE {}

Limit(layers) == IF Allows(layers) THEN Min({Rules[key].limit : key \in layers}) ELSE 0
-----------------------------------------------------------------------------
(* The environment                                                           *)

\* A publisher the repository does not have.  One version of a layer is published
\* at most, each replaces an older one; a workspace's layers need it to exist.
Publish(layer, version) ==
    /\ published[layer] < version
    /\ layer \in {"global", "tenant"} \/ workspace # "absent"
    /\ published' = [published EXCEPT ![layer] = version]
    /\ UNCHANGED <<cache, evaluations, resolution>>

\* The 300 seconds of the entry, which are those of the policy.
CacheExpires(u) ==
    /\ cache[u] # None
    /\ cache' = [cache EXCEPT ![u] = None]
    /\ UNCHANGED <<published, evaluations, resolution>>
-----------------------------------------------------------------------------
(* resolveEffectivePolicy                                                    *)

To(r, next) == resolution' = [resolution EXCEPT ![r] = next]
Advance(r, step) == To(r, [resolution[r] EXCEPT !.step = step])

\* security.assertCurrent: the session and the device, with DEVICE_REVOKED for an answer.
AssertCurrent(r) ==
    /\ resolution[r].step = "assert"
    /\ \E next \in {"load", "denied"} : Advance(r, next)
    /\ UNCHANGED <<published, cache, evaluations>>

\* What row security, and once more the query for the layer of a role, ask for.
Readable(u) == membership[u] # None /\ membership[u].status = "ACTIVE"

\* loadPublished: nothing but for an active member, and the layer of its role.
Visible(u) ==
    IF Readable(u)
      THEN {<<layer, published[layer]>> : layer \in
               {l \in Scopes \cup {membership[u].role} : published[l] # Unpublished}}
      ELSE {}

LoadPublished(r) ==
    /\ resolution[r].step = "load"
    /\ To(r, [resolution[r] EXCEPT !.step = "get", !.layers = Visible(Requester[r])])
    /\ UNCHANGED <<published, cache, evaluations>>

\* Mutant: whatever is cached of the member is its policy.
MatchesAnyVersion(policy, layers) == policy # None

\* cache.get and cacheMatches compare the versions.
Matches(policy, layers) == policy = layers

GetCached(r) ==
    /\ resolution[r].step = "get"
    /\ LET entry == cache[Requester[r]]
           hit == Matches(entry, resolution[r].layers)
       IN  To(r, [resolution[r] EXCEPT !.step = "audit", !.cached = hit,
                      !.effective = IF hit THEN entry ELSE resolution[r].layers])
    /\ UNCHANGED <<published, cache, evaluations>>

\* Mutant: the evaluation is written without waiting for it.
Unheeded(r) == IF resolution[r].cached THEN "answer" ELSE "publish"

\* An audit that fails ends the call.
Heeded(r) == "unavailable"

\* audit.record: the foreign key asks for the workspace.
RecordEvaluation(r) ==
    LET layers == resolution[r].effective IN
    /\ resolution[r].step = "audit" /\ workspace # "absent"
    /\ evaluations' = evaluations \cup {[request |-> r, layers |-> layers, decision |-> Decision(layers)]}
    /\ Advance(r, IF resolution[r].cached THEN "answer" ELSE "publish")
    /\ UNCHANGED <<published, cache>>

AuditFails(r) ==
    /\ resolution[r].step = "audit"
    /\ Advance(r, Heeded(r))
    /\ UNCHANGED <<published, cache, evaluations>>

PublishPolicy(r) ==
    /\ resolution[r].step = "publish"
    /\ cache' = [cache EXCEPT ![Requester[r]] = resolution[r].effective]
    /\ Advance(r, "answer")
    /\ UNCHANGED <<published, evaluations>>

Answer(r) ==
    /\ resolution[r].step = "answer"
    /\ Advance(r, IF Allows(resolution[r].effective) THEN "answered" ELSE "denied")
    /\ UNCHANGED <<published, cache, evaluations>>

\* POLICY_DEPENDENCY_UNAVAILABLE, from the identity, the database or Redis.
ResolutionFails(r) ==
    /\ resolution[r].step \in {"assert", "load", "get", "publish"}
    /\ Advance(r, "unavailable")
    /\ UNCHANGED <<published, cache, evaluations>>

Resolve(r) ==
    \/ AssertCurrent(r) \/ LoadPublished(r) \/ GetCached(r) \/ RecordEvaluation(r)
    \/ PublishPolicy(r) \/ Answer(r) \/ AuditFails(r) \/ ResolutionFails(r)

Next ==
    \/ TenancyNext /\ UNCHANGED policyVars
    \/ /\ \/ \E key \in Publications : Publish(key[1], key[2])
          \/ \E u \in Users : CacheExpires(u)
          \/ \E r \in Requests : Resolve(r)
       /\ UNCHANGED tenancyVars

Spec == Init /\ [][Next]_vars
-----------------------------------------------------------------------------
(* Properties                                                                *)

Answered == {r \in Requests : resolution[r].step = "answered"}

\* An answer allows nothing that one of the layers its own call read denies, and no
\* more than any of them, though another call composed and cached it before.
AnswerWithinLayers ==
    \A r \in Answered :
        LET layers == resolution[r].layers
            answer == resolution[r].effective
        IN  /\ {ScopeOf(key[1]) : key \in layers} = {"global", "tenant", "workspace", "role"}
            /\ \A key \in layers :
                   /\ Allowed(answer) \subseteq Rules[key].allowed
                   /\ Limit(answer) <= Rules[key].limit

\* Nothing is answered whose evaluation is not on record, with the versions and the
\* decision of the answer.
AnswerIsAudited ==
    \A r \in Answered :
        [request |-> r, layers |-> resolution[r].effective, decision |-> "ALLOW"] \in evaluations

\* When no membership command is left, a member who is not active gets no answer
\* from a call that has read no layers yet, whatever the cache holds.
FormerMembersAreDenied ==
    \A r \in Requests :
        []((/\ \A c \in Commands : command[c] = "ended"
            /\ ~Readable(Requester[r])
            /\ resolution[r].step \in {"assert", "load"}) => [](resolution[r].step # "answered"))
=============================================================================
