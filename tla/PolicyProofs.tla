----------------------------- MODULE PolicyProofs -----------------------------
(* Every answered policy is on record and within each published layer its    *)
(* call read; who lost the membership gets none from the cache.  For any     *)
(* number of members, requests, layers and versions.                         *)
EXTENDS PolicyResolution, FiniteSetTheorems, WellFoundedInduction, TLAPS

\* A resolution is a record of these fields.
Shape ==
    resolution = [r \in Requests |->
        [step |-> resolution[r].step, layers |-> resolution[r].layers,
         effective |-> resolution[r].effective, cached |-> resolution[r].cached]]

Recorded(r) ==
    [request |-> r, layers |-> resolution[r].effective,
     decision |-> Decision(resolution[r].effective)] \in evaluations

\* What a call holds after the cache is what it read, cached or not; it is recorded
\* before anybody is told.
ResolutionsInv ==
    \A r \in Requests :
        /\ resolution[r].step \in {"audit", "publish", "answer", "answered"} =>
               resolution[r].effective = resolution[r].layers
        /\ resolution[r].step \in {"publish", "answer", "answered"} => Recorded(r)
        /\ resolution[r].step = "answered" => Allows(resolution[r].effective)

PolicyInv == Shape /\ ResolutionsInv

LEMMA PolicyInvInit == Init => PolicyInv
    BY DEF Init, PolicyInv, Shape, ResolutionsInv

\* A call goes on: it alone, by these fields.
Moves(r, step, layers, effective) ==
    /\ Shape'
    /\ resolution'[r].step = step /\ resolution'[r].layers = layers
    /\ resolution'[r].effective = effective
    /\ \A q \in Requests \ {r} : resolution'[q] = resolution[q]

LEMMA ToMoves ==
    ASSUME Shape, NEW r \in Requests, NEW step, NEW layers, NEW effective, NEW cached,
           To(r, [step |-> step, layers |-> layers, effective |-> effective, cached |-> cached])
    PROVE  Moves(r, step, layers, effective)
<1> DEFINE new == [step |-> step, layers |-> layers, effective |-> effective, cached |-> cached]
<1>1. new = [step |-> new.step, layers |-> new.layers, effective |-> new.effective,
             cached |-> new.cached]
      /\ new.step = step /\ new.layers = layers /\ new.effective = effective
    OBVIOUS
<1>2. resolution' = [resolution EXCEPT ![r] = new] /\ DOMAIN resolution = Requests
    BY DEF To, Shape
<1> HIDE DEF new
<1>3. resolution'[r] = new /\ \A q \in Requests \ {r} : resolution'[q] = resolution[q]
    BY <1>2
<1>4. \A q \in Requests : resolution'[q] =
          [step |-> resolution'[q].step, layers |-> resolution'[q].layers,
           effective |-> resolution'[q].effective, cached |-> resolution'[q].cached]
    BY <1>1, <1>3 DEF Shape
<1>5. resolution' = [q \in Requests |-> resolution'[q]]
    BY <1>2
<1>6. Shape'
    BY <1>4, <1>5 DEF Shape
<1> QED BY <1>1, <1>3, <1>6 DEF Moves

\* What each step of a call writes, field by field.
Fields(old) ==
    old = [step |-> old.step, layers |-> old.layers, effective |-> old.effective,
           cached |-> old.cached]

LEMMA AdvanceWrites ==
    ASSUME NEW r, NEW step, Fields(resolution[r]), Advance(r, step)
    PROVE  To(r, [step |-> step, layers |-> resolution[r].layers,
                  effective |-> resolution[r].effective, cached |-> resolution[r].cached])
<1> DEFINE old == resolution[r]
<1>1. Fields(old) /\ To(r, [old EXCEPT !.step = step])
    BY DEF Advance
<1> HIDE DEF old
<1>2. [old EXCEPT !.step = step] =
          [step |-> step, layers |-> old.layers, effective |-> old.effective, cached |-> old.cached]
    BY <1>1 DEF Fields
<1>3. To(r, [step |-> step, layers |-> old.layers, effective |-> old.effective, cached |-> old.cached])
    BY <1>1, <1>2
<1> QED BY <1>3 DEF old

LEMMA LoadWrites ==
    ASSUME NEW r, Fields(resolution[r]), LoadPublished(r)
    PROVE  To(r, [step |-> "get", layers |-> Visible(Requester[r]),
                  effective |-> resolution[r].effective, cached |-> resolution[r].cached])
<1> DEFINE old == resolution[r]
<1>1. ASSUME NEW layers, To(r, [old EXCEPT !.step = "get", !.layers = layers])
      PROVE  To(r, [step |-> "get", layers |-> layers, effective |-> old.effective,
                    cached |-> old.cached])
    <2> DEFINE got == [old EXCEPT !.step = "get"]
    <2>1. [old EXCEPT !.step = "get", !.layers = layers] = [got EXCEPT !.layers = layers]
        OBVIOUS
    <2>2. Fields(old)
        OBVIOUS
    <2> HIDE DEF old
    <2>3. got = [step |-> "get", layers |-> old.layers, effective |-> old.effective,
                 cached |-> old.cached]
        BY <2>2 DEF Fields
    <2> HIDE DEF got
    <2>4. [got EXCEPT !.layers = layers] =
              [step |-> "get", layers |-> layers, effective |-> old.effective, cached |-> old.cached]
        BY <2>3
    <2> QED BY <1>1, <2>1, <2>4
<1> QED BY <1>1 DEF LoadPublished

\* Whatever the cache says, the call goes on with the layers it read.
LEMMA GetWrites ==
    ASSUME NEW r, Fields(resolution[r]), GetCached(r)
    PROVE  \E hit \in BOOLEAN :
               To(r, [step |-> "audit", layers |-> resolution[r].layers,
                      effective |-> resolution[r].layers, cached |-> hit])
<1> DEFINE old == resolution[r]  entry == cache[Requester[r]]  hit == Matches(entry, old.layers)
           policy == IF hit THEN entry ELSE old.layers
<1>1. hit \in BOOLEAN /\ policy = old.layers
    BY DEF Matches
<1>2. To(r, [old EXCEPT !.step = "audit", !.cached = hit, !.effective = policy])
    BY DEF GetCached
<1> HIDE DEF hit, policy
<1> DEFINE first == [old EXCEPT !.step = "audit"]  second == [first EXCEPT !.cached = hit]
<1>3. [old EXCEPT !.step = "audit", !.cached = hit, !.effective = policy] =
          [second EXCEPT !.effective = policy]
    OBVIOUS
<1>4. Fields(old)
    OBVIOUS
<1> HIDE DEF old
<1>5. first = [step |-> "audit", layers |-> old.layers, effective |-> old.effective,
               cached |-> old.cached]
    BY <1>4 DEF Fields
<1> HIDE DEF first
<1>6. second = [step |-> "audit", layers |-> old.layers, effective |-> old.effective,
                cached |-> hit]
    BY <1>5
<1> HIDE DEF second
<1>7. [second EXCEPT !.effective = policy] =
          [step |-> "audit", layers |-> old.layers, effective |-> old.layers, cached |-> hit]
    BY <1>1, <1>6
<1>8. To(r, [step |-> "audit", layers |-> old.layers, effective |-> old.layers, cached |-> hit])
    BY <1>2, <1>3, <1>7
<1> QED BY <1>1, <1>8 DEF old

LEMMA AdvanceMoves ==
    ASSUME Shape, NEW r \in Requests, NEW step, Advance(r, step)
    PROVE  Moves(r, step, resolution[r].layers, resolution[r].effective)
<1>1. Fields(resolution[r])
    BY DEF Shape, Fields
<1> QED BY <1>1, AdvanceWrites, ToMoves

LEMMA LoadMoves ==
    ASSUME Shape, NEW r \in Requests, LoadPublished(r)
    PROVE  Moves(r, "get", Visible(Requester[r]), resolution[r].effective)
<1>1. Fields(resolution[r])
    BY DEF Shape, Fields
<1> QED BY <1>1, LoadWrites, ToMoves

LEMMA GetMoves ==
    ASSUME Shape, NEW r \in Requests, GetCached(r)
    PROVE  Moves(r, "audit", resolution[r].layers, resolution[r].layers)
<1>1. Fields(resolution[r])
    BY DEF Shape, Fields
<1> QED BY <1>1, GetWrites, ToMoves
-----------------------------------------------------------------------------
(* What a step of a call keeps                                               *)

\* The other calls are as they were, and the evaluations grow.
LEMMA OthersKeep ==
    ASSUME PolicyInv, NEW r \in Requests, NEW step, NEW layers, NEW effective,
           Moves(r, step, layers, effective), evaluations \subseteq evaluations',
           step \in {"audit", "publish", "answer", "answered"} => effective = layers,
           step \in {"publish", "answer", "answered"} =>
               [request |-> r, layers |-> effective, decision |-> Decision(effective)] \in evaluations',
           step = "answered" => Allows(effective)
    PROVE  PolicyInv'
<1>1. Shape'
    BY DEF Moves
<1>2. Recorded(r)' <=> [request |-> r, layers |-> effective,
                        decision |-> Decision(effective)] \in evaluations'
    BY DEF Moves, Recorded, Decision, Allows
<1>3. \A q \in Requests \ {r} : resolution'[q] = resolution[q] /\ (Recorded(q) => Recorded(q)')
    BY DEF Moves, Recorded, Decision, Allows
<1>4. Allows(effective) => Allows(resolution'[r].effective)
    BY DEF Moves
<1>5. ASSUME NEW q \in Requests
      PROVE  /\ resolution'[q].step \in {"audit", "publish", "answer", "answered"} =>
                     resolution'[q].effective = resolution'[q].layers
             /\ resolution'[q].step \in {"publish", "answer", "answered"} => Recorded(q)'
             /\ resolution'[q].step = "answered" => Allows(resolution'[q].effective)
    <2>1. CASE q = r
        BY <1>2, <1>4, <2>1 DEF Moves
    <2>2. CASE q # r
        BY <1>3, <2>2 DEF PolicyInv, ResolutionsInv
    <2> QED BY <2>1, <2>2
<1>6. ResolutionsInv'
    BY <1>5 DEF ResolutionsInv, Allows
<1> QED BY <1>1, <1>6 DEF PolicyInv

LEMMA ResolveKeeps ==
    ASSUME PolicyInv, NEW r \in Requests, Resolve(r)
    PROVE  PolicyInv'
<1> DEFINE layers == resolution[r].layers  effective == resolution[r].effective
<1>1. Shape
    BY DEF PolicyInv
<1>2. CASE AssertCurrent(r) \/ ResolutionFails(r)
    <2>1. PICK next \in {"load", "denied", "unavailable"} : Advance(r, next)
        BY <1>2 DEF AssertCurrent, ResolutionFails
    <2>2. Moves(r, next, layers, effective) /\ evaluations \subseteq evaluations'
        BY <1>1, <1>2, <2>1, AdvanceMoves DEF AssertCurrent, ResolutionFails
    <2> QED BY <2>2, OthersKeep
<1>3. CASE LoadPublished(r)
    BY <1>1, <1>3, LoadMoves, OthersKeep DEF LoadPublished
<1>4. CASE GetCached(r)
    BY <1>1, <1>4, GetMoves, OthersKeep DEF GetCached
<1>5. CASE RecordEvaluation(r)
    <2>1. PICK next \in {"answer", "publish"} : Advance(r, next)
        BY <1>5 DEF RecordEvaluation
    <2>2. Moves(r, next, layers, effective)
        BY <1>1, <2>1, AdvanceMoves
    <2>3. evaluations' = evaluations \cup
              {[request |-> r, layers |-> effective, decision |-> Decision(effective)]}
        BY <1>5 DEF RecordEvaluation
    <2>4. effective = layers
        BY <1>5 DEF RecordEvaluation, PolicyInv, ResolutionsInv
    <2> QED BY <2>2, <2>3, <2>4, OthersKeep
<1>6. CASE AuditFails(r)
    <2>1. Moves(r, "unavailable", layers, effective) /\ evaluations' = evaluations
        BY <1>1, <1>6, AdvanceMoves DEF AuditFails, Heeded
    <2> QED BY <2>1, OthersKeep
<1>7. CASE PublishPolicy(r)
    <2>1. Moves(r, "answer", layers, effective) /\ evaluations' = evaluations
        BY <1>1, <1>7, AdvanceMoves DEF PublishPolicy
    <2>2. effective = layers /\ Recorded(r)
        BY <1>7 DEF PublishPolicy, PolicyInv, ResolutionsInv
    <2> QED BY <2>1, <2>2, OthersKeep DEF Recorded
<1>8. CASE Answer(r)
    <2>1. PICK next \in {"answered", "denied"} :
              Advance(r, next) /\ (next = "answered" => Allows(effective))
        BY <1>8 DEF Answer
    <2>2. Moves(r, next, layers, effective) /\ evaluations' = evaluations
        BY <1>1, <1>8, <2>1, AdvanceMoves DEF Answer
    <2>3. effective = layers /\ Recorded(r)
        BY <1>8 DEF Answer, PolicyInv, ResolutionsInv
    <2> QED BY <2>1, <2>2, <2>3, OthersKeep DEF Recorded
<1> QED BY <1>2, <1>3, <1>4, <1>5, <1>6, <1>7, <1>8 DEF Resolve

LEMMA PolicyInvStep == PolicyInv /\ [Next]_vars => PolicyInv'
<1> SUFFICES ASSUME PolicyInv, [Next]_vars PROVE PolicyInv'
    OBVIOUS
<1>1. CASE UNCHANGED <<evaluations, resolution>>
    BY <1>1 DEF PolicyInv, Shape, ResolutionsInv, Recorded, Decision, Allows
<1> QED BY <1>1, ResolveKeeps DEF Next, Publish, CacheExpires, policyVars, vars

LEMMA PolicyInvariance == Spec => []PolicyInv
    BY PolicyInvInit, PolicyInvStep, PTL DEF Spec

\* No policy is answered that is not on record as allowed.
THEOREM AnswersAreAudited == Spec => []AnswerIsAudited
<1>1. PolicyInv => AnswerIsAudited
    BY DEF PolicyInv, ResolutionsInv, Recorded, Decision, AnswerIsAudited, Answered
<1> QED BY <1>1, PolicyInvariance, PTL
-----------------------------------------------------------------------------
(* Types                                                                     *)

Steps == {"assert", "load", "get", "audit", "publish", "answer"} \cup Ended
Resolutions == [step : Steps, layers : Policies, effective : Policies, cached : BOOLEAN]

LEMMA MembershipTyped ==
    ASSUME TenancyTypeOK, TenancyNext
    PROVE  TenancyTypeOK'
<1> USE TenancyAssumption DEF TenancyTypeOK
<1>1. PICK c \in Commands : WorkspaceCommand(c) \/ ChangeMembership(c)
    BY DEF TenancyNext
<1>2. ASSUME NEW op, End(c, op) PROVE command' \in [Commands -> {"pending", "ended"}]
    BY <1>2 DEF End
<1>3. [role |-> "owner", status |-> "ACTIVE", clearance |-> 3] \in Grants
    BY DEF Grants, Roles, Ranks
<1>4. CASE CreateWorkspace(c)
    <2>1. workspace' = "active" /\ announced' \subseteq Commands
        BY <1>4 DEF CreateWorkspace, InsertWorkspace, AnnounceChange
    <2>2. membership' \in [Users -> Grants \cup {None}]
        BY <1>3, <1>4 DEF CreateWorkspace, InsertWorkspace
    <2> QED BY <1>2, <1>4, <2>1, <2>2 DEF CreateWorkspace
<1>5. CASE ArchiveWorkspace(c)
    BY <1>2, <1>5 DEF ArchiveWorkspace, CloseWorkspace, AnnounceChange
<1>6. CASE Refused(c)
    BY <1>2, <1>6 DEF Refused
<1>7. CASE ChangeMembership(c)
    <2>1. Request[c].op = "change"
        BY <1>7 DEF ChangeMembership, End
    <2>2. Request[c].grant \in Grants
        BY <2>1
    <2>3. workspace' = workspace /\ announced' \subseteq Commands
        BY <1>7 DEF ChangeMembership, UpsertMembership, AnnounceChange
    <2>4. membership' \in [Users -> Grants \cup {None}]
        BY <1>7, <2>2 DEF ChangeMembership, UpsertMembership
    <2> QED BY <1>2, <1>7, <2>3, <2>4 DEF ChangeMembership
<1> QED BY <1>1, <1>4, <1>5, <1>6, <1>7 DEF WorkspaceCommand

\* A call goes on with a policy of published layers.
LEMMA GoesOnTyped ==
    ASSUME resolution \in [Requests -> Resolutions], NEW r \in Requests,
           NEW step \in Steps, NEW layers \in Policies, NEW effective \in Policies, NEW cached \in BOOLEAN,
           To(r, [step |-> step, layers |-> layers, effective |-> effective, cached |-> cached])
    PROVE  resolution' \in [Requests -> Resolutions]
<1>1. [step |-> step, layers |-> layers, effective |-> effective, cached |-> cached] \in Resolutions
    BY DEF Resolutions
<1> QED BY <1>1 DEF To

LEMMA FieldsTyped ==
    ASSUME resolution \in [Requests -> Resolutions], NEW r \in Requests
    PROVE  /\ Fields(resolution[r])
           /\ resolution[r].layers \in Policies /\ resolution[r].effective \in Policies
           /\ resolution[r].cached \in BOOLEAN
    BY DEF Resolutions, Fields

\* What a member may read are versions of layers that exist.
LEMMA VisibleTyped ==
    ASSUME PolicyTypeOK, NEW u \in Users
    PROVE  Visible(u) \in Policies
<1>1. ASSUME Readable(u) PROVE membership[u].role \in Roles
    BY <1>1 DEF Readable, PolicyTypeOK, TenancyTypeOK, Grants
<1>2. ASSUME Readable(u), NEW layer \in Scopes \cup {membership[u].role},
             published[layer] # Unpublished
      PROVE  <<layer, published[layer]>> \in Layers \X Versions
    <2>1. layer \in Layers
        BY <1>1, <1>2 DEF Layers
    <2> QED BY <1>2, <2>1 DEF PolicyTypeOK
<1> QED BY <1>2 DEF Visible, Policies

LEMMA ResolveTyped ==
    ASSUME PolicyTypeOK, NEW r \in Requests, Resolve(r), UNCHANGED tenancyVars
    PROVE  PolicyTypeOK'
<1> DEFINE old == resolution[r]
<1>1. resolution \in [Requests -> Resolutions]
    BY DEF PolicyTypeOK, Resolutions, Steps
<1>2. TenancyTypeOK'
    BY DEF PolicyTypeOK, TenancyTypeOK, tenancyVars
<1>3. /\ Fields(old)
      /\ old.layers \in Policies /\ old.effective \in Policies /\ old.cached \in BOOLEAN
    BY <1>1, FieldsTyped
<1>4. SUFFICES /\ resolution' \in [Requests -> Resolutions]
               /\ published' = published
               /\ cache' \in [Users -> Policies \cup {None}]
               /\ evaluations' \subseteq
                      [request : Requests, layers : Policies, decision : {"ALLOW", "DENY"}]
    BY <1>2 DEF PolicyTypeOK, Resolutions, Steps
<1>5. published' = published
    BY DEF Resolve, AssertCurrent, LoadPublished, GetCached, RecordEvaluation, PublishPolicy, Answer,
           AuditFails, ResolutionFails
<1>6. cache' \in [Users -> Policies \cup {None}]
    <2>1. CASE PublishPolicy(r)
        BY <1>3, <2>1 DEF PublishPolicy, PolicyTypeOK
    <2>2. CASE cache' = cache
        BY <2>2 DEF PolicyTypeOK
    <2> QED BY <2>1, <2>2 DEF Resolve, AssertCurrent, LoadPublished, GetCached, RecordEvaluation,
                  Answer, AuditFails, ResolutionFails
<1>7. evaluations' \subseteq [request : Requests, layers : Policies, decision : {"ALLOW", "DENY"}]
    <2>1. CASE RecordEvaluation(r)
        BY <1>3, <2>1 DEF RecordEvaluation, PolicyTypeOK, Decision
    <2>2. CASE evaluations' = evaluations
        BY <2>2 DEF PolicyTypeOK
    <2> QED BY <2>1, <2>2 DEF Resolve, AssertCurrent, LoadPublished, GetCached, PublishPolicy,
                  Answer, AuditFails, ResolutionFails
<1>8. resolution' \in [Requests -> Resolutions]
    <2>1. {"get", "audit"} \subseteq Steps
        BY DEF Steps
    <2>2. CASE LoadPublished(r)
        <3>1. Visible(Requester[r]) \in Policies
            BY VisibleTyped, PolicyAssumption
        <3> QED BY <1>1, <1>3, <2>1, <2>2, <3>1, LoadWrites, GoesOnTyped
    <2>3. CASE GetCached(r)
        BY <1>1, <1>3, <2>1, <2>3, GetWrites, GoesOnTyped
    <2>4. CASE ~(LoadPublished(r) \/ GetCached(r))
        <3>1. PICK step \in Steps : Advance(r, step)
            BY <2>4 DEF Resolve, AssertCurrent, RecordEvaluation, PublishPolicy, Answer, AuditFails,
                ResolutionFails, Heeded, Steps, Ended
        <3> QED BY <1>1, <1>3, <3>1, AdvanceWrites, GoesOnTyped
    <2> QED BY <2>2, <2>3, <2>4
<1> QED BY <1>5, <1>6, <1>7, <1>8

\* Policies are made of published versions of layers that exist, wherever they are:
\* read, composed, cached, recorded or answered.
THEOREM PoliciesAreTyped == Spec => []PolicyTypeOK
<1>1. Init => PolicyTypeOK
    <2>1. Init => TenancyTypeOK
        BY DEF Init, TenancyInit, TenancyTypeOK
    <2>2. Init => published \in [Layers -> Versions \cup {Unpublished}]
        BY PolicyAssumption DEF Init
    <2>3. Init => resolution \in [Requests -> Resolutions]
        BY DEF Init, Resolutions, Steps, Policies
    <2> QED BY <2>1, <2>2, <2>3 DEF Init, PolicyTypeOK, Resolutions, Steps
<1>2. ASSUME PolicyTypeOK, [Next]_vars PROVE PolicyTypeOK'
    <2>1. ASSUME UNCHANGED policyVars, TenancyTypeOK' PROVE PolicyTypeOK'
        BY <1>2, <2>1 DEF PolicyTypeOK, policyVars
    <2>2. ASSUME UNCHANGED tenancyVars PROVE TenancyTypeOK'
        BY <1>2, <2>2 DEF PolicyTypeOK, TenancyTypeOK, tenancyVars
    <2>3. CASE UNCHANGED vars
        BY <2>1, <2>2, <2>3 DEF vars
    <2>4. CASE TenancyNext /\ UNCHANGED policyVars
        BY <1>2, <2>1, <2>4, MembershipTyped DEF PolicyTypeOK
    <2>5. ASSUME NEW key \in Publications, Publish(key[1], key[2]), UNCHANGED tenancyVars
          PROVE  PolicyTypeOK'
        <3>1. key[2] \in Versions
            BY PolicyAssumption
        <3>2. published' \in [Layers -> Versions \cup {Unpublished}]
            BY <1>2, <2>5, <3>1 DEF Publish, PolicyTypeOK
        <3> QED BY <1>2, <2>2, <2>5, <3>2 DEF Publish, PolicyTypeOK
    <2>6. ASSUME NEW u \in Users, CacheExpires(u), UNCHANGED tenancyVars PROVE PolicyTypeOK'
        <3>1. cache' \in [Users -> Policies \cup {None}]
            BY <1>2, <2>6 DEF CacheExpires, PolicyTypeOK
        <3> QED BY <1>2, <2>2, <2>6, <3>1 DEF CacheExpires, PolicyTypeOK
    <2> QED BY <1>2, <2>3, <2>4, <2>5, <2>6, ResolveTyped DEF Next
<1> QED BY <1>1, <1>2, PTL DEF Spec
-----------------------------------------------------------------------------
(* What an answer allows                                                     *)

LEMMA LeastNat ==
    ASSUME NEW S, S \subseteq Nat, S # {}
    PROVE  \E m \in S : \A n \in S : m <= n
<1>1. PICK m \in S : \A n \in S : <<n, m>> \notin OpToRel(<, Nat)
    BY NatLessThanWellFounded, WFMin
<1>2. ASSUME NEW n \in S PROVE m <= n
    <2>1. <<n, m>> \in OpToRel(<, Nat) <=> n < m
       BY DEF OpToRel
    <2>2. ~(n < m)
       BY <1>1, <2>1
    <2> QED BY <2>2
<1> QED BY <1>2

LEMMA MinBounds ==
    ASSUME NEW S, S \subseteq Nat, NEW x \in S
    PROVE  Min(S) <= x
<1>1. PICK m \in S : \A n \in S : m <= n
    BY LeastNat
<1>2. Min(S) \in S /\ \A n \in S : Min(S) <= n
    BY <1>1 DEF Min
<1> QED BY <1>2

\* Layers that allow have one of every scope, and their policy is within each.
LEMMA AllowedWithin ==
    ASSUME NEW layers \in Policies, Allows(layers)
    PROVE  /\ {ScopeOf(key[1]) : key \in layers} = {"global", "tenant", "workspace", "role"}
           /\ \A key \in layers :
                  /\ Allowed(layers) \subseteq Rules[key].allowed
                  /\ Limit(layers) <= Rules[key].limit
<1>1. ASSUME NEW key \in layers PROVE ScopeOf(key[1]) \in RequiredScopes
    BY DEF Policies, Layers, Scopes, ScopeOf, RequiredScopes
<1>2. ASSUME NEW scope \in RequiredScopes PROVE \E key \in layers : ScopeOf(key[1]) = scope
    <2> DEFINE found == {key \in layers : ScopeOf(key[1]) = scope}
    <2>1. Cardinality(found) = 1
        BY DEF Allows
    <2>2. Cardinality({}) = 0
        BY FS_EmptySet
    <2>3. found # {}
        BY <2>1, <2>2
    <2> QED BY <2>3
<1>3. {ScopeOf(key[1]) : key \in layers} = RequiredScopes
    BY <1>1, <1>2
<1>4. ASSUME NEW key \in layers PROVE Allowed(layers) \subseteq Rules[key].allowed
    BY DEF Allowed
<1>5. ASSUME NEW key \in layers PROVE Limit(layers) <= Rules[key].limit
    <2>1. {Rules[k].limit : k \in layers} \subseteq Nat
        BY PolicyAssumption DEF Policies, Allows
    <2>2. Min({Rules[k].limit : k \in layers}) <= Rules[key].limit
        BY <2>1, MinBounds
    <2> QED BY <2>2 DEF Limit
<1> QED BY <1>3, <1>4, <1>5 DEF RequiredScopes

\* Whoever composed and cached it, an answer allows no more than each layer its call read.
THEOREM AnswersStayWithinLayers == Spec => []AnswerWithinLayers
<1>1. ASSUME PolicyTypeOK, PolicyInv PROVE AnswerWithinLayers
    <2>1. ASSUME NEW r \in Answered
          PROVE  /\ resolution[r].effective = resolution[r].layers
                 /\ Allows(resolution[r].layers) /\ resolution[r].layers \in Policies
        BY <1>1 DEF PolicyInv, ResolutionsInv, PolicyTypeOK, Answered
    <2>2. ASSUME NEW r \in Answered
          PROVE  LET layers == resolution[r].layers
                     answer == resolution[r].effective
                 IN  /\ {ScopeOf(key[1]) : key \in layers} = {"global", "tenant", "workspace", "role"}
                     /\ \A key \in layers :
                            /\ Allowed(answer) \subseteq Rules[key].allowed
                            /\ Limit(answer) <= Rules[key].limit
        BY <2>1, AllowedWithin
    <2> QED BY <2>2 DEF AnswerWithinLayers
<1> QED BY <1>1, PoliciesAreTyped, PolicyInvariance, PTL
-----------------------------------------------------------------------------
(* Former members                                                            *)

\* A call for a member who is not active, and will not be, has read no layer.
ShutOut(r) ==
    /\ \A c \in Commands : command[c] = "ended"
    /\ ~Readable(Requester[r])
    /\ resolution[r].step # "answered"
    /\ resolution[r].step \in {"get", "audit", "publish", "answer"} => resolution[r].layers = {}

\* No layer allows nothing.
LEMMA NothingAllowed == ~Allows({})
<1>1. {key \in {} : ScopeOf(key[1]) = "global"} = {}
    OBVIOUS
<1>2. Cardinality({key \in {} : ScopeOf(key[1]) = "global"}) = 0
    BY <1>1, FS_EmptySet
<1> QED BY <1>2 DEF Allows, RequiredScopes
\* Such a call stays one.
LEMMA ShutOutStep ==
    ASSUME PolicyInv, NEW r \in Requests, ShutOut(r), [Next]_vars
    PROVE  ShutOut(r)'
<1> DEFINE layers == resolution[r].layers  effective == resolution[r].effective
<1>1. UNCHANGED tenancyVars
    BY DEF ShutOut, Next, vars, TenancyNext, WorkspaceCommand, CreateWorkspace, ArchiveWorkspace,
           ChangeMembership, Refused, End
<1>2. (\A c \in Commands : command[c] = "ended")' /\ ~Readable(Requester[r])'
    BY <1>1 DEF ShutOut, Readable, tenancyVars
<1>3. CASE resolution'[r] = resolution[r]
    BY <1>2, <1>3 DEF ShutOut
<1>4. Shape
    BY DEF PolicyInv
<1>5. ASSUME NEW q \in Requests \ {r}, Resolve(q) PROVE resolution'[r] = resolution[r]
    <2>1. ASSUME NEW next, Advance(q, next) PROVE resolution'[r] = resolution[r]
        BY <1>4, <2>1, AdvanceMoves DEF Moves
    <2> QED BY <1>4, <1>5, <2>1, LoadMoves, GetMoves
            DEF Resolve, AssertCurrent, RecordEvaluation, PublishPolicy, Answer, AuditFails,
                ResolutionFails, Moves
<1>6. ASSUME Resolve(r) PROVE ShutOut(r)'
    <2>1. ASSUME NEW next, Moves(r, next, layers, effective), next # "answered",
                 next \in {"get", "audit", "publish", "answer"} => layers = {}
          PROVE  ShutOut(r)'
        BY <1>2, <2>1 DEF ShutOut, Moves
    <2>2. CASE AssertCurrent(r) \/ AuditFails(r) \/ ResolutionFails(r)
        <3>1. PICK next \in {"load", "denied", "unavailable"} : Advance(r, next)
            BY <2>2 DEF AssertCurrent, AuditFails, ResolutionFails, Heeded
        <3> QED BY <1>4, <2>1, <3>1, AdvanceMoves
    <2>3. CASE LoadPublished(r)
        <3>1. Visible(Requester[r]) = {}
            BY DEF ShutOut, Visible
        <3>2. Moves(r, "get", {}, effective)
            BY <1>4, <2>3, <3>1, LoadMoves
        <3> QED BY <1>2, <3>2 DEF ShutOut, Moves
    <2>4. CASE GetCached(r)
        <3>1. Moves(r, "audit", layers, layers) /\ layers = {}
            BY <1>4, <2>4, GetMoves DEF GetCached, ShutOut
        <3> QED BY <1>2, <3>1 DEF ShutOut, Moves
    <2>5. CASE RecordEvaluation(r) \/ PublishPolicy(r)
        <3>1. PICK next \in {"answer", "publish"} : Advance(r, next)
            BY <2>5 DEF RecordEvaluation, PublishPolicy
        <3>2. layers = {}
            BY <2>5 DEF RecordEvaluation, PublishPolicy, ShutOut
        <3> QED BY <1>4, <2>1, <3>1, <3>2, AdvanceMoves
    <2>6. CASE Answer(r)
        <3>1. effective = {}
            BY <2>6 DEF Answer, ShutOut, PolicyInv, ResolutionsInv
        <3>2. Advance(r, "denied")
            BY <2>6, <3>1, NothingAllowed DEF Answer
        <3> QED BY <1>4, <2>1, <3>2, AdvanceMoves
    <2> QED BY <1>6, <2>2, <2>3, <2>4, <2>5, <2>6 DEF Resolve
<1> QED BY <1>3, <1>5, <1>6 DEF Next, Publish, CacheExpires, policyVars, vars

\* Who is not an active member any more is answered nothing, whatever is cached.
THEOREM FormerMembersStayOut == Spec => FormerMembersAreDenied
<1> SUFFICES ASSUME NEW r \in Requests
             PROVE  Spec => []((/\ \A c \in Commands : command[c] = "ended"
                                /\ ~Readable(Requester[r])
                                /\ resolution[r].step \in {"assert", "load"})
                                   => [](resolution[r].step # "answered"))
    BY DEF FormerMembersAreDenied
<1> DEFINE Former == /\ \A c \in Commands : command[c] = "ended"
                     /\ ~Readable(Requester[r])
                     /\ resolution[r].step \in {"assert", "load"}
           Answerless == resolution[r].step # "answered"
<1>1. Former => ShutOut(r)
    BY DEF ShutOut
<1>2. PolicyInv /\ ShutOut(r) /\ [Next]_vars => ShutOut(r)'
    BY ShutOutStep
<1>3. ShutOut(r) => Answerless
    BY DEF ShutOut
<1>4. Spec => [](Former => []Answerless)
    <2> HIDE DEF Former, Answerless
    <2> QED BY <1>1, <1>2, <1>3, PolicyInvariance, PTL DEF Spec
<1> QED BY <1>4
=============================================================================
