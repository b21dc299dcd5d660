--------------------------- MODULE GovernanceProofs ---------------------------
(* Type correctness of a source, its memberships and its connection, and     *)
(* what their races must not break: the outbox tells the row's versions, a   *)
(* stopped source stays stopped and its stop ends the lease, pages are       *)
(* committed by the execution that started last and follow one another.      *)
EXTENDS ConnectorSync, SequenceTheorems, TLAPS

\* A request of each kind carries what its command reads.
LEMMA RequestFields ==
    ASSUME NEW c \in Commands
    PROVE  /\ Request[c].op = "create" => Request[c].member \in Users
           /\ Request[c].op = "change" => Request[c].member \in Users /\ Request[c].grant \in Grants
    BY TenancyAssumption

\* The statements of the tenancy commands keep the types of the rows.
LEMMA TenancyStep ==
    ASSUME TenancyTypeOK, NEW c \in Commands,
           WorkspaceCommand(c) \/ ChangeMembership(c) \/ UNCHANGED tenancyVars
    PROVE  TenancyTypeOK'
<1>1. CASE CreateWorkspace(c)
    <2>1. [role |-> "owner", status |-> "ACTIVE", clearance |-> 3] \in Grants
        BY DEF Grants, Roles, Ranks
    <2> QED BY <1>1, <2>1, RequestFields
            DEF TenancyTypeOK, CreateWorkspace, End, InsertWorkspace, AnnounceChange
<1>2. CASE ArchiveWorkspace(c)
    BY <1>2 DEF TenancyTypeOK, ArchiveWorkspace, End, CloseWorkspace, AnnounceChange
<1>3. CASE ChangeMembership(c)
    <2>1. Request[c].grant \in Grants
        BY <1>3, RequestFields DEF ChangeMembership, End
    <2> QED BY <1>3, <2>1
            DEF TenancyTypeOK, ChangeMembership, End, UpsertMembership, AnnounceChange
<1>4. CASE Refused(c)
    BY <1>4 DEF TenancyTypeOK, Refused, End
<1>5. CASE UNCHANGED tenancyVars
    BY <1>5 DEF TenancyTypeOK, tenancyVars
<1> QED BY <1>1, <1>2, <1>3, <1>4, <1>5 DEF WorkspaceCommand
-----------------------------------------------------------------------------
(* The source                                                                *)

\* What a call has read is the row, or an older version of it; and when it is about
\* to save, the domain function has accepted what it read.
CallsReadVersions ==
    \A k \in Callers : call[k] # Idle =>
        IF call[k].op = "create"
          THEN call[k].row.version = 1 /\ call[k].row.status = "DRAFT"
          ELSE /\ source # Absent
               /\ call[k].row.version <= source.version
               /\ call[k].row.version = source.version => call[k].row = source
               /\ call[k].step \in {"save", "commit"} => Accepts(call[k].op, call[k].row, Actor[k])

\* One transaction at a time has updated the row, and the row is then what it has read.
OneWriter ==
    \A k \in Callers : call[k].step = "commit" =>
        /\ call[k].op # "create" /\ call[k].row = source
        /\ \A j \in Callers \ {k} : call[j].step # "commit"
        /\ \A c \in Commands : pausing[c] # "yes"

\* Open membership commands are of different members, and what one of them pauses
\* is its member's active source until it commits.
PausesActive ==
    \A c \in Commands : pausing[c] # "not begun" =>
        /\ Request[c].op = "change"
        /\ pausing[c] = "yes" => source.status = "ACTIVE" /\ source.owner = Request[c].member
        /\ \A d \in Commands \ {c} :
               pausing[d] # "not begun" => Request[d].member # Request[c].member

SourceInv ==
    /\ SourceTypeOK
    /\ source # Absent => source.version >= 1
    /\ EventsTellVersions
    /\ CallsReadVersions
    /\ OneWriter
    /\ PausesActive

\* A row of the table is not the absent one.
LEMMA RowsHaveStatus ==
    ASSUME NEW row \in Sources
    PROVE  /\ row # Absent /\ row.version \in Nat /\ row.status \in Statuses
           /\ row.owner \in Users \cup {None} /\ row.classification \in Ranks \cup {None}
    BY DEF Sources, Absent, Statuses

\* The row, and the absence of one, read off the variable.
LEMMA SourceFields ==
    ASSUME SourceTypeOK
    PROVE  /\ source # Absent => source \in Sources
           /\ source.version \in Nat
           /\ source = Absent => source.version = 0 /\ source.status = "absent"
<1>1. CASE source = Absent
    BY <1>1 DEF Absent
<1>2. CASE source \in Sources
    BY <1>2, RowsHaveStatus
<1> QED BY <1>1, <1>2 DEF SourceTypeOK

\* The fields of a call under way.
LEMMA CallFields ==
    ASSUME SourceTypeOK, NEW k \in Callers
    PROVE  /\ call[k].step \in {"idle", "eligible", "save", "commit"}
           /\ call[k].step = "idle" <=> call[k] = Idle
           /\ call[k] # Idle => /\ call[k].op \in {"create"} \cup Operations
                                /\ call[k].row \in Sources
                                /\ call[k] = [step |-> call[k].step, op |-> call[k].op, row |-> call[k].row]
<1>1. call[k] \in {Idle} \cup [step : {"eligible", "save", "commit"}, op : {"create"} \cup Operations, row : Sources]
    BY DEF SourceTypeOK
<1>2. CASE call[k] = Idle
    BY <1>2 DEF Idle
<1>3. CASE call[k] \in [step : {"eligible", "save", "commit"}, op : {"create"} \cup Operations, row : Sources]
    BY <1>3 DEF Idle
<1> QED BY <1>1, <1>2, <1>3

\* A domain function makes the next version of a row, active only when it was
\* under review.
LEMMA ChangedRow ==
    ASSUME NEW row \in Sources, NEW op \in Operations, NEW actor, Accepts(op, row, actor)
    PROVE  /\ Changed(op, row) \in Sources
           /\ Changed(op, row).version = row.version + 1
           /\ Changed(op, row).status = "ACTIVE" => row.status = "PENDING_REVIEW"
<1>1. row = [owner |-> row.owner, classification |-> row.classification,
             acceptance |-> row.acceptance, status |-> row.status, version |-> row.version]
      /\ row.version \in Nat /\ row.status \in Statuses
      /\ row.owner \in Users \cup {None} /\ row.classification \in Ranks \cup {None}
      /\ row.acceptance \in {"PENDING", "ACCEPTED"}
    BY DEF Sources
<1> DEFINE acceptance == IF op = "accept" THEN "ACCEPTED" ELSE row.acceptance
           status == CASE op = "submit" -> (IF row.owner = None THEN "PENDING_OWNER" ELSE "PENDING_REVIEW")
                       [] op = "accept" -> row.status
                       [] op = "activate" -> "ACTIVE"
                       [] OTHER -> op
<1>2. status \in Statuses /\ (status = "ACTIVE" => row.status = "PENDING_REVIEW")
    BY <1>1 DEF Operations, Statuses, Accepts
<1>3. acceptance \in {"PENDING", "ACCEPTED"}
    BY <1>1
<1>4. Changed(op, row) = [row EXCEPT !.version = row.version + 1, !.acceptance = acceptance,
                                     !.status = status]
    BY DEF Changed
<1> HIDE DEF acceptance, status
<1>5. Changed(op, row) = [owner |-> row.owner, classification |-> row.classification,
                          acceptance |-> acceptance, status |-> status, version |-> row.version + 1]
    BY <1>1, <1>4
<1> QED BY <1>1, <1>2, <1>3, <1>5 DEF Sources

\* A row written with the next version keeps the outbox telling the row's versions.
LEMMA RecordStep ==
    ASSUME SourceTypeOK, EventsTellVersions,
           NEW row \in Sources, row.version = source.version + 1, Record(row)
    PROVE  /\ source' \in Sources
           /\ sourceEvents' \in Seq([version : Nat, status : Statuses])
           /\ source'.version >= 1
           /\ EventsTellVersions'
<1> DEFINE event == [version |-> row.version, status |-> row.status]
           E == [version : Nat, status : Statuses]
<1>1. event \in E /\ event.version = row.version /\ event.status = row.status
    BY RowsHaveStatus
<1>2. source.version \in Nat
    BY SourceFields
<1>3. sourceEvents \in Seq(E) /\ Len(sourceEvents) = source.version
    BY DEF SourceTypeOK, EventsTellVersions
<1>4. source' = row /\ sourceEvents' = Append(sourceEvents, event)
    BY DEF Record
<1> HIDE DEF event
<1>5. /\ sourceEvents' \in Seq(E) /\ Len(sourceEvents') = source.version + 1
      /\ \A v \in 1..Len(sourceEvents) : sourceEvents'[v] = sourceEvents[v]
      /\ sourceEvents'[source.version + 1] = event
    BY <1>1, <1>2, <1>3, <1>4
<1>6. EventsTellVersions'
    <2>1. ASSUME NEW v \in 1..Len(sourceEvents') PROVE sourceEvents'[v].version = v
        <3>1. CASE v = source.version + 1
            BY <1>1, <1>5, <3>1
        <3>2. CASE v # source.version + 1
            <4>1. v \in 1..Len(sourceEvents)
                BY <1>2, <1>3, <1>5, <3>2
            <4> QED BY <1>5, <4>1 DEF EventsTellVersions
        <3> QED BY <3>1, <3>2
    <2> QED BY <1>1, <1>2, <1>4, <1>5, <2>1 DEF EventsTellVersions
<1> QED BY <1>2, <1>4, <1>5, <1>6

\* A call that goes on without a write, or ends.
LEMMA CallStep ==
    ASSUME SourceInv, NEW k \in Callers, NEW next, CallTo(k, next),
           UNCHANGED <<source, sourceEvents, pausing>>,
           \/ next = Idle
           \/ /\ next \in [step : {"eligible", "save"}, op : {"create"} \cup Operations, row : Sources]
              /\ IF next.op = "create"
                   THEN next.row.version = 1 /\ next.row.status = "DRAFT"
                   ELSE /\ source # Absent
                        /\ next.row.version <= source.version
                        /\ next.row.version = source.version => next.row = source
                        /\ next.step = "save" => Accepts(next.op, next.row, Actor[k])
    PROVE  SourceInv'
<1>1. call' \in [Callers -> {Idle} \cup [step : {"eligible", "save", "commit"},
                                         op : {"create"} \cup Operations, row : Sources]]
    BY DEF SourceInv, SourceTypeOK, CallTo
<1>2. CallsReadVersions'
    <2> SUFFICES ASSUME NEW j \in Callers, call'[j] # Idle
                 PROVE  IF call'[j].op = "create"
                          THEN call'[j].row.version = 1 /\ call'[j].row.status = "DRAFT"
                          ELSE /\ source # Absent
                               /\ call'[j].row.version <= source.version
                               /\ call'[j].row.version = source.version => call'[j].row = source
                               /\ call'[j].step \in {"save", "commit"} => Accepts(call'[j].op, call'[j].row, Actor[j])
        BY DEF CallsReadVersions, Accepts
    <2>1. CASE j = k
        <3>1. call'[j] = next
            BY <2>1 DEF CallTo, SourceInv, SourceTypeOK
        <3> QED BY <2>1, <3>1
    <2>2. CASE j # k
        <3>1. call'[j] = call[j]
            BY <2>2 DEF CallTo, SourceInv, SourceTypeOK
        <3> QED BY <3>1 DEF SourceInv, CallsReadVersions
    <2> QED BY <2>1, <2>2
<1>3. OneWriter'
    <2> SUFFICES ASSUME NEW j \in Callers, call'[j].step = "commit"
                 PROVE  /\ call'[j].op # "create" /\ call'[j].row = source
                        /\ \A i \in Callers \ {j} : call'[i].step # "commit"
                        /\ \A c \in Commands : pausing[c] # "yes"
        BY DEF OneWriter
    <2>1. \A i \in Callers : call'[i].step = "commit" => i # k /\ call'[i] = call[i]
        <3>1. next.step # "commit"
            BY DEF Idle
        <3> QED BY <3>1 DEF CallTo, SourceInv, SourceTypeOK
    <2>2. \A i \in Callers : call'[i].step = "commit" => call[i].step = "commit"
        BY <2>1
    <2> QED BY <2>1, <2>2 DEF SourceInv, OneWriter
<1> QED BY <1>1, <1>2, <1>3 DEF SourceInv, SourceTypeOK, EventsTellVersions, PausesActive

\* What is no newer than a version is older than the next.
LEMMA OlderVersion ==
    ASSUME NEW m \in Nat, NEW n \in Nat, NEW next, next = n + 1, m <= n
    PROVE  m <= next /\ m # next
    OBVIOUS

\* A write of the row leaves what the other calls have read an older version.
LEMMA WriteStep ==
    ASSUME SourceInv, NEW row \in Sources, row.version = source.version + 1, Record(row),
           call' \in [Callers -> {Idle} \cup [step : {"eligible", "save", "commit"},
                                              op : {"create"} \cup Operations, row : Sources]],
           \A k \in Callers : call'[k] # Idle => call'[k] = call[k],
           \A k \in Callers : call'[k].step # "commit",
           pausing' \in [Commands -> {"not begun", "no", "yes"}],
           PausesActive'
    PROVE  SourceInv'
<1>1. /\ source' \in Sources /\ sourceEvents' \in Seq([version : Nat, status : Statuses])
      /\ source'.version >= 1 /\ EventsTellVersions'
    BY RecordStep DEF SourceInv
<1>2. source.version \in Nat /\ source'.version = source.version + 1 /\ source' # Absent
    BY SourceFields, RowsHaveStatus DEF SourceInv, Record
<1>3. CallsReadVersions'
    <2> SUFFICES ASSUME NEW k \in Callers, call'[k] # Idle
                 PROVE  IF call'[k].op = "create"
                          THEN call'[k].row.version = 1 /\ call'[k].row.status = "DRAFT"
                          ELSE /\ source' # Absent
                               /\ call'[k].row.version <= source'.version
                               /\ call'[k].row.version = source'.version => call'[k].row = source'
                               /\ call'[k].step \in {"save", "commit"} => Accepts(call'[k].op, call'[k].row, Actor[k])
        BY DEF CallsReadVersions, Accepts
    <2>1. call'[k] = call[k] /\ call[k].row.version \in Nat
        BY CallFields, RowsHaveStatus DEF SourceInv
    <2>2. CASE call[k].op = "create"
        BY <2>1, <2>2 DEF SourceInv, CallsReadVersions
    <2>3. CASE call[k].op # "create"
        <3>1. call[k].row.version <= source.version
            BY <2>1, <2>3 DEF SourceInv, CallsReadVersions
        <3>2. call[k].step \in {"save", "commit"} => Accepts(call[k].op, call[k].row, Actor[k])
            BY <2>1, <2>3 DEF SourceInv, CallsReadVersions
        <3>3. call[k].row.version <= source'.version /\ call[k].row.version # source'.version
            BY <1>2, <2>1, <3>1, OlderVersion, Zenon
        <3> QED BY <1>2, <2>1, <2>3, <3>2, <3>3, Zenon
    <2> QED BY <2>2, <2>3
<1> QED BY <1>1, <1>2, <1>3 DEF SourceInv, SourceTypeOK, OneWriter

\* What a call loads, checks or gives up keeps the invariant.
LEMMA ReadStep ==
    ASSUME SourceInv, NEW k \in Callers, UNCHANGED pausing,
           RequestSource(k) \/ LoadSource(k) \/ CheckOwner(k) \/ CallFails(k)
    PROVE  SourceInv'
<1>1. CASE RequestSource(k)
    <2> PICK draft \in Drafts :
            LET row == [owner |-> draft.owner, classification |-> draft.classification,
                        acceptance |-> "PENDING", status |-> "DRAFT", version |-> 1]
            IN  CallTo(k, [step |-> IF None \in {row.owner, row.classification} THEN "save" ELSE "eligible",
                           op |-> "create", row |-> row])
        BY <1>1 DEF RequestSource
    <2> DEFINE row == [owner |-> draft.owner, classification |-> draft.classification,
                       acceptance |-> "PENDING", status |-> "DRAFT", version |-> 1]
               step == IF None \in {row.owner, row.classification} THEN "save" ELSE "eligible"
    <2>1. row \in Sources /\ row.version = 1 /\ row.status = "DRAFT"
        BY SourceAssumption DEF Sources, Statuses
    <2>2. CallTo(k, [step |-> step, op |-> "create", row |-> row]) /\ step \in {"eligible", "save"}
        OBVIOUS
    <2> HIDE DEF row, step
    <2> QED BY <1>1, <2>1, <2>2, CallStep DEF RequestSource
<1>2. CASE LoadSource(k)
    <2> PICK op \in Operations :
            IF op \in {"accept", "activate"}
              THEN /\ None \notin {source.owner, source.classification}
                   /\ CallTo(k, [step |-> "eligible", op |-> op, row |-> source])
              ELSE /\ Accepts(op, source, Actor[k])
                   /\ CallTo(k, [step |-> "save", op |-> op, row |-> source])
        BY <1>2 DEF LoadSource
    <2>1. source \in Sources /\ source # Absent /\ source.version <= source.version
        BY <1>2, SourceFields DEF LoadSource, SourceInv
    <2>2. op # "create"
        BY DEF Operations
    <2>3. CASE op \in {"accept", "activate"}
        <3> DEFINE next == [step |-> "eligible", op |-> op, row |-> source]
        <3>1. CallTo(k, next) /\ next.step = "eligible" /\ next.op = op /\ next.row = source
            BY <2>3
        <3>2. next \in [step : {"eligible", "save"}, op : {"create"} \cup Operations, row : Sources]
            BY <2>1
        <3> HIDE DEF next
        <3> QED BY <1>2, <2>1, <2>2, <3>1, <3>2, CallStep DEF LoadSource
    <2>4. CASE op \notin {"accept", "activate"}
        <3> DEFINE next == [step |-> "save", op |-> op, row |-> source]
        <3>1. CallTo(k, next) /\ next.op = op /\ next.row = source
            BY <2>4
        <3>2. next \in [step : {"eligible", "save"}, op : {"create"} \cup Operations, row : Sources]
            BY <2>1
        <3>3. Accepts(next.op, next.row, Actor[k])
            BY <2>4, <3>1
        <3> HIDE DEF next
        <3> QED BY <1>2, <2>1, <2>2, <3>1, <3>2, <3>3, CallStep DEF LoadSource
    <2> QED BY <2>3, <2>4
<1>3. CASE CheckOwner(k)
    <2>1. call[k] # Idle /\ call[k].step = "eligible"
        BY <1>3 DEF CheckOwner, Idle
    <2>2. CASE CallTo(k, Idle)
        BY <1>3, <2>2, CallStep DEF CheckOwner
    <2>3. CASE /\ call[k].op = "create" \/ Accepts(call[k].op, call[k].row, Actor[k])
               /\ CallTo(k, [call[k] EXCEPT !.step = "save"])
        <3> DEFINE next == [step |-> "save", op |-> call[k].op, row |-> call[k].row]
        <3>0. ASSUME NEW c, NEW s, NEW op, NEW row, c = [step |-> s, op |-> op, row |-> row]
              PROVE  [c EXCEPT !.step = "save"] = [step |-> "save", op |-> op, row |-> row]
            BY <3>0
        <3>1. CallTo(k, next) /\ next.op = call[k].op /\ next.row = call[k].row
            <4>1. call[k] = [step |-> call[k].step, op |-> call[k].op, row |-> call[k].row]
                BY <2>1, CallFields DEF SourceInv
            <4>2. [call[k] EXCEPT !.step = "save"] = next
                BY <3>0, <4>1, Zenon
            <4> QED BY <2>3, <4>2
        <3>2. next \in [step : {"eligible", "save"}, op : {"create"} \cup Operations, row : Sources]
            BY <2>1, CallFields DEF SourceInv
        <3>3. next.op = "create" \/ Accepts(next.op, next.row, Actor[k])
            BY <2>3, <3>1
        <3>4. IF next.op = "create"
                THEN next.row.version = 1 /\ next.row.status = "DRAFT"
                ELSE /\ source # Absent
                     /\ next.row.version <= source.version
                     /\ next.row.version = source.version => next.row = source
            BY <2>1, <3>1 DEF SourceInv, CallsReadVersions
        <3> HIDE DEF next
        <3> QED BY <1>3, <3>1, <3>2, <3>3, <3>4, CallStep DEF CheckOwner
    <2> QED BY <1>3, <2>2, <2>3 DEF CheckOwner
<1>4. CASE CallFails(k)
    BY <1>4, CallStep DEF CallFails
<1> QED BY <1>1, <1>2, <1>3, <1>4

\* A call that ends leaves the others as they are.
LEMMA EndOfCall ==
    ASSUME SourceTypeOK, NEW k \in Callers, CallTo(k, Idle)
    PROVE  /\ call' \in [Callers -> {Idle} \cup [step : {"eligible", "save", "commit"},
                                                 op : {"create"} \cup Operations, row : Sources]]
           /\ \A j \in Callers : call'[j] # Idle => call'[j] = call[j]
    BY DEF SourceTypeOK, CallTo

LEMMA PausesKept ==
    ASSUME PausesActive, UNCHANGED <<source, pausing>>
    PROVE  PausesActive'
    BY DEF PausesActive

\* The UPDATE of a call takes the row, which is the one it has read, from nobody.
LEMMA UpdateStep ==
    ASSUME SourceInv, NEW k \in Callers, UNCHANGED pausing, SaveSource(k)
    PROVE  SourceInv'
<1>1. call[k] # Idle /\ call[k].op # "create" /\ call[k].step = "save"
    BY DEF SaveSource, Idle
<1>2. CASE CallTo(k, Idle)
    BY <1>2, CallStep DEF SaveSource
<1>3. CASE StillAt(call[k].row) /\ CallTo(k, [call[k] EXCEPT !.step = "commit"])
    <2> DEFINE next == [step |-> "commit", op |-> call[k].op, row |-> call[k].row]
    <2>0. ASSUME NEW c, NEW s, NEW op, NEW row, c = [step |-> s, op |-> op, row |-> row]
          PROVE  [c EXCEPT !.step = "commit"] = [step |-> "commit", op |-> op, row |-> row]
        BY <2>0
    <2>1. CallTo(k, next) /\ next.step = "commit" /\ next.op = call[k].op /\ next.row = call[k].row
        <3>1. call[k] = [step |-> call[k].step, op |-> call[k].op, row |-> call[k].row]
            BY <1>1, CallFields DEF SourceInv
        <3>2. [call[k] EXCEPT !.step = "commit"] = next
            BY <2>0, <3>1, Zenon
        <3> QED BY <1>3, <3>2
    <2>2. next \in [step : {"eligible", "save", "commit"}, op : {"create"} \cup Operations, row : Sources]
        BY <1>1, CallFields DEF SourceInv
    <2>3. /\ source # Absent /\ call[k].row = source /\ source.version <= source.version
          /\ Accepts(call[k].op, call[k].row, Actor[k])
        BY <1>1, <1>3, SourceFields DEF SourceInv, CallsReadVersions, StillAt
    <2>4. /\ \A j \in Callers : call[j].step # "commit"
          /\ \A c \in Commands : pausing[c] # "yes"
        BY DEF SaveSource, Written
    <2> HIDE DEF next
    <2>5. \A j \in Callers : call'[j] = IF j = k THEN next ELSE call[j]
        BY <2>1 DEF CallTo, SourceInv, SourceTypeOK
    <2>6. SourceTypeOK' /\ EventsTellVersions' /\ PausesActive' /\ (source # Absent => source.version >= 1)'
        <3>1. UNCHANGED <<source, sourceEvents, pausing>>
            BY DEF SaveSource
        <3>2. EventsTellVersions' /\ (source # Absent => source.version >= 1)'
            BY <3>1 DEF SourceInv, EventsTellVersions
        <3>3. PausesActive'
            BY <3>1, PausesKept DEF SourceInv
        <3>4. call' = [call EXCEPT ![k] = next]
            BY <2>1 DEF CallTo
        <3>5. SourceTypeOK'
            BY <2>2, <3>1, <3>4 DEF SourceInv, SourceTypeOK
        <3> QED BY <3>2, <3>3, <3>5
    <2>7. OneWriter'
        BY <1>1, <2>1, <2>3, <2>4, <2>5 DEF SaveSource, OneWriter
    <2>8. CallsReadVersions'
        <3> SUFFICES ASSUME NEW j \in Callers, call'[j] # Idle
                     PROVE  IF call'[j].op = "create"
                              THEN call'[j].row.version = 1 /\ call'[j].row.status = "DRAFT"
                              ELSE /\ source # Absent
                                   /\ call'[j].row.version <= source.version
                                   /\ call'[j].row.version = source.version => call'[j].row = source
                                   /\ call'[j].step \in {"save", "commit"} =>
                                          Accepts(call'[j].op, call'[j].row, Actor[j])
            BY DEF CallsReadVersions, Accepts, SaveSource
        <3>1. CASE j = k
            <4>1. call'[j] = next
                BY <2>5, <3>1
            <4> QED BY <1>1, <2>1, <2>3, <3>1, <4>1
        <3>2. CASE j # k
            <4>1. call'[j] = call[j]
                BY <2>5, <3>2
            <4> QED BY <4>1 DEF SourceInv, CallsReadVersions
        <3> QED BY <3>1, <3>2
    <2> QED BY <2>6, <2>7, <2>8 DEF SourceInv
<1> QED BY <1>2, <1>3 DEF SaveSource

\* What a call writes is the next version of the row.
LEMMA SaveStep ==
    ASSUME SourceInv, NEW k \in Callers, UNCHANGED pausing, InsertSource(k) \/ CommitSave(k)
    PROVE  SourceInv'
<1>1. CallTo(k, Idle) /\ call[k] # Idle /\ call[k].step \in {"save", "commit"} /\ SourceTypeOK
    BY DEF InsertSource, CommitSave, SourceInv, Idle
<1>2. CASE UNCHANGED <<source, sourceEvents>>
    BY <1>1, <1>2, CallStep
<1>3. pausing' \in [Commands -> {"not begun", "no", "yes"}]
    BY DEF SourceInv, SourceTypeOK
<1>4. \A j \in Callers : call'[j].step = "commit" => j # k /\ call'[j] = call[j]
    BY <1>1 DEF CallTo, SourceTypeOK, Idle
<1>5. CASE InsertSource(k) /\ source = Absent /\ Record(call[k].row)
    <2>1. call[k].row \in Sources /\ call[k].row.version = source.version + 1
        <3>1. call[k].op = "create" /\ source.version = 0
            BY <1>5, SourceFields DEF InsertSource, SourceInv
        <3>2. call[k].row \in Sources
            BY <1>1, CallFields
        <3>3. call[k].row.version = 1
            BY <1>1, <3>1 DEF SourceInv, CallsReadVersions
        <3> QED BY <3>1, <3>2, <3>3
    <2>2. PausesActive'
        BY <1>5, SourceFields DEF SourceInv, PausesActive, Idle
    <2>3. \A j \in Callers : call[j].step # "commit"
        BY <1>5, CallFields, RowsHaveStatus DEF SourceInv, OneWriter, Idle
    <2>4. \A j \in Callers : call'[j].step # "commit"
        BY <1>4, <2>3
    <2> QED BY <1>1, <1>3, <1>5, <2>1, <2>2, <2>4, EndOfCall, WriteStep
<1>6. CASE CommitSave(k) /\ Record(Changed(call[k].op, call[k].row))
    <2> DEFINE row == Changed(call[k].op, call[k].row)
    <2>1. /\ call[k].op # "create" /\ call[k].row = source
          /\ \A j \in Callers \ {k} : call[j].step # "commit"
          /\ \A c \in Commands : pausing[c] # "yes"
        BY <1>6 DEF CommitSave, SourceInv, OneWriter
    <2>2. call[k].op \in Operations /\ call[k].row \in Sources
        BY <1>1, <2>1, CallFields
    <2>3. Accepts(call[k].op, call[k].row, Actor[k])
        BY <1>1, <2>1 DEF SourceInv, CallsReadVersions
    <2>4. row \in Sources /\ row.version = source.version + 1
        BY <2>1, <2>2, <2>3, ChangedRow
    <2>5. PausesActive'
        BY <2>1 DEF SourceInv, PausesActive
    <2>6. \A j \in Callers : call'[j].step # "commit"
        BY <1>4, <2>1
    <2> HIDE DEF row
    <2> QED BY <1>1, <1>3, <1>6, <2>4, <2>5, <2>6, EndOfCall, WriteStep DEF row
<1> QED BY <1>2, <1>5, <1>6 DEF InsertSource, CommitSave

\* Of what the row and its outbox say, pausing says nothing.
LEMMA PausingStep ==
    ASSUME SourceInv, UNCHANGED <<source, sourceEvents, call>>,
           pausing' \in [Commands -> {"not begun", "no", "yes"}], PausesActive',
           \A c \in Commands : pausing'[c] = "yes" =>
               pausing[c] = "yes" \/ \A k \in Callers : call[k].step # "commit"
    PROVE  SourceInv'
<1>1. SourceTypeOK'
    BY DEF SourceInv, SourceTypeOK
<1>2. EventsTellVersions' /\ CallsReadVersions'
    BY DEF SourceInv, EventsTellVersions, CallsReadVersions, Accepts
<1>3. OneWriter'
    BY DEF SourceInv, OneWriter
<1> QED BY <1>1, <1>2, <1>3 DEF SourceInv

\* The row is nobody's when no call and no command has updated it.
LEMMA WrittenByNobody ==
    Written = {} <=> /\ \A k \in Callers : call[k].step # "commit"
                     /\ \A c \in Commands : pausing[c] # "yes"
<1>1. \A s : s \in Written <=>
          \/ \E k \in Callers : call[k].step = "commit" /\ s = Changed(call[k].op, call[k].row).status
          \/ \E c \in Commands : pausing[c] = "yes" /\ s = "PAUSED"
    BY DEF Written
<1> QED BY <1>1, Zenon

\* The steps of a membership command: what it finds active it pauses at its COMMIT.
LEMMA CommandStep ==
    ASSUME SourceInv, NEW c \in Commands,
           \/ BeginChange(c)
           \/ CommitChange(c)
           \/ Closes(c) /\ UNCHANGED <<source, sourceEvents>>
    PROVE  SourceInv'
<1>1. CASE BeginChange(c)
    <2>1. PICK found \in {"no", "yes"} :
              /\ pausing' = [pausing EXCEPT ![c] = found]
              /\ found = "yes" => /\ source.status = "ACTIVE" /\ source.owner = Request[c].member
                                  /\ Written = {}
        BY <1>1 DEF BeginChange
    <2>2. /\ Request[c].op = "change" /\ source' = source
          /\ \A d \in Commands : pausing[d] # "not begun" => Request[d].member # Request[c].member
        BY <1>1 DEF BeginChange
    <2>3. \A d \in Commands : pausing'[d] = IF d = c THEN found ELSE pausing[d]
        BY <2>1 DEF SourceInv, SourceTypeOK
    <2>4. pausing' \in [Commands -> {"not begun", "no", "yes"}]
        BY <2>1 DEF SourceInv, SourceTypeOK
    <2>5. PausesActive'
        <3> SUFFICES ASSUME NEW d \in Commands, pausing'[d] # "not begun"
                     PROVE  /\ Request[d].op = "change"
                            /\ pausing'[d] = "yes" =>
                                   source'.status = "ACTIVE" /\ source'.owner = Request[d].member
                            /\ \A e \in Commands \ {d} :
                                   pausing'[e] # "not begun" => Request[e].member # Request[d].member
            BY DEF PausesActive
        <3>1. CASE d = c
            BY <2>1, <2>2, <2>3, <3>1
        <3>2. CASE d # c
            <4>1. pausing'[d] = pausing[d] /\ Request[d].member # Request[c].member
                BY <2>2, <2>3, <3>2
            <4>2. /\ Request[d].op = "change"
                  /\ pausing[d] = "yes" => source.status = "ACTIVE" /\ source.owner = Request[d].member
                  /\ \A e \in Commands \ {d} :
                         pausing[e] # "not begun" => Request[e].member # Request[d].member
                BY <4>1 DEF SourceInv, PausesActive
            <4> QED BY <2>2, <2>3, <4>1, <4>2
        <3> QED BY <3>1, <3>2
    <2>6. \A d \in Commands : pausing'[d] = "yes" =>
              pausing[d] = "yes" \/ \A k \in Callers : call[k].step # "commit"
        BY <2>1, <2>3, WrittenByNobody
    <2> QED BY <1>1, <2>4, <2>5, <2>6, PausingStep DEF BeginChange
<1>2. ASSUME Closes(c)
      PROVE  /\ call' = call
             /\ pausing' \in [Commands -> {"not begun", "no", "yes"}]
             /\ pausing'[c] = "not begun"
             /\ \A d \in Commands \ {c} : pausing'[d] = pausing[d]
    BY <1>2 DEF Closes, SourceInv, SourceTypeOK
<1>3. CASE Closes(c) /\ UNCHANGED <<source, sourceEvents>>
    <2>1. PausesActive'
        BY <1>2, <1>3 DEF SourceInv, PausesActive
    <2> QED BY <1>2, <1>3, <2>1, PausingStep
<1>4. CASE CommitChange(c) /\ pausing[c] = "yes"
    <2> DEFINE row == [source EXCEPT !.status = "PAUSED", !.version = @ + 1]
    <2>1. source.status = "ACTIVE" /\ source.owner = Request[c].member
        BY <1>4 DEF SourceInv, PausesActive
    <2>2. source \in Sources
        BY <2>1, SourceFields DEF SourceInv
    <2>3. row \in Sources /\ row.version = source.version + 1
        <3>1. /\ source = [owner |-> source.owner, classification |-> source.classification,
                           acceptance |-> source.acceptance, status |-> source.status,
                           version |-> source.version]
              /\ source.version \in Nat /\ source.acceptance \in {"PENDING", "ACCEPTED"}
              /\ source.owner \in Users \cup {None} /\ source.classification \in Ranks \cup {None}
            BY <2>2 DEF Sources
        <3>2. row = [source EXCEPT !.status = "PAUSED", !.version = source.version + 1]
            OBVIOUS
        <3> HIDE DEF row
        <3>3. row = [owner |-> source.owner, classification |-> source.classification,
                     acceptance |-> source.acceptance, status |-> "PAUSED",
                     version |-> source.version + 1]
            BY <3>1, <3>2
        <3> QED BY <3>1, <3>3 DEF Sources, Statuses
    <2>4. Record(row) /\ Closes(c)
        BY <1>4 DEF CommitChange
    <2>5. PausesActive'
        <3>1. ASSUME NEW d \in Commands \ {c} PROVE pausing[d] # "yes"
            BY <1>4, <2>1 DEF SourceInv, PausesActive
        <3> QED BY <1>2, <2>4, <3>1 DEF SourceInv, PausesActive
    <2>6. \A k \in Callers : call'[k].step # "commit"
        BY <1>2, <1>4, <2>4 DEF SourceInv, OneWriter
    <2>7. call' \in [Callers -> {Idle} \cup [step : {"eligible", "save", "commit"},
                                             op : {"create"} \cup Operations, row : Sources]]
        BY <1>2, <2>4 DEF SourceInv, SourceTypeOK
    <2> HIDE DEF row
    <2> QED BY <1>2, <2>3, <2>4, <2>5, <2>6, <2>7, WriteStep
<1>5. CASE CommitChange(c) /\ pausing[c] # "yes"
    BY <1>3, <1>5 DEF CommitChange
<1> QED BY <1>1, <1>3, <1>4, <1>5

LEMMA SourceStep ==
    ASSUME TenancyTypeOK, SourceInv, SourceNext \/ UNCHANGED <<tenancyVars, sourceVars>>
    PROVE  TenancyTypeOK' /\ SourceInv'
<1>1. ASSUME NEW c \in Commands,
             \/ BeginChange(c) \/ CommitChange(c)
             \/ WorkspaceCommand(c) /\ Closes(c) /\ UNCHANGED <<source, sourceEvents>>
      PROVE  TenancyTypeOK' /\ SourceInv'
    BY <1>1, TenancyStep, CommandStep DEF BeginChange, CommitChange
<1>2. ASSUME NEW k \in Callers, SourceCalls(k), UNCHANGED <<tenancyVars, pausing>>
      PROVE  TenancyTypeOK' /\ SourceInv'
    <2>1. SourceInv'
        BY <1>2, ReadStep, UpdateStep, SaveStep DEF SourceCalls
    <2>2. TenancyTypeOK'
        BY <1>2 DEF TenancyTypeOK, tenancyVars
    <2> QED BY <2>1, <2>2
<1>3. CASE UNCHANGED <<tenancyVars, sourceVars>>
    <2>1. TenancyTypeOK'
        BY <1>3 DEF TenancyTypeOK, tenancyVars
    <2>2. SourceTypeOK' /\ EventsTellVersions' /\ (source # Absent => source.version >= 1)'
        BY <1>3 DEF sourceVars, SourceInv, SourceTypeOK, EventsTellVersions
    <2>3. CallsReadVersions'
        BY <1>3 DEF sourceVars, SourceInv, CallsReadVersions, Accepts
    <2>4. PausesActive' /\ OneWriter'
        BY <1>3 DEF sourceVars, SourceInv, PausesActive, OneWriter
    <2> QED BY <2>1, <2>2, <2>3, <2>4 DEF SourceInv
<1> QED BY <1>1, <1>2, <1>3 DEF SourceNext

\* Who updates the row keeps it until the end of the transaction, and writes what it
\* said at its COMMIT.
LEMMA WriterKeepsRow ==
    ASSUME SourceInv, SourceNext
    PROVE  \/ Written = {} \/ Written' = {}
           \/ Written' = Written /\ source' = source
<1> SUFFICES ASSUME Written # {} PROVE Written' = {} \/ (Written' = Written /\ source' = source)
    OBVIOUS
<1>1. source # Absent
    <2>1. ASSUME NEW k \in Callers, call[k].step = "commit" PROVE source # Absent
        <3>1. call[k] # Idle /\ call[k].op # "create"
            BY <2>1 DEF SourceInv, OneWriter, Idle
        <3> QED BY <3>1 DEF SourceInv, CallsReadVersions
    <2>2. ASSUME NEW c \in Commands, pausing[c] = "yes" PROVE source # Absent
        BY <2>2, SourceFields DEF SourceInv, PausesActive
    <2> QED BY <2>1, <2>2, WrittenByNobody
<1>2. ASSUME NEW c \in Commands, Closes(c), source' = source \/ pausing[c] = "yes"
      PROVE  Written' = {} \/ (Written' = Written /\ source' = source)
    <2>1. /\ call' = call /\ pausing'[c] = "not begun"
          /\ \A d \in Commands \ {c} : pausing'[d] = pausing[d]
        BY <1>2 DEF Closes, SourceInv, SourceTypeOK
    <2>2. CASE pausing[c] = "yes"
        <3>1. ASSUME NEW d \in Commands \ {c} PROVE pausing[d] # "yes"
            <4>1. pausing[c] # "not begun" /\ source.owner = Request[c].member
                BY <2>2 DEF SourceInv, PausesActive
            <4>2. pausing[d] # "not begun" => Request[d].member # Request[c].member
                BY <4>1 DEF SourceInv, PausesActive
            <4>3. pausing[d] = "yes" => source.owner = Request[d].member
                BY DEF SourceInv, PausesActive
            <4> QED BY <4>1, <4>2, <4>3
        <3>2. \A k \in Callers : call[k].step # "commit"
            BY <2>2 DEF SourceInv, OneWriter
        <3> QED BY <2>1, <3>1, <3>2 DEF Written
    <2>3. CASE pausing[c] # "yes"
        BY <1>2, <2>1, <2>3 DEF Written
    <2> QED BY <2>2, <2>3
<1>3. ASSUME NEW c \in Commands, BeginChange(c)
      PROVE  Written' = Written /\ source' = source
    <2>1. /\ call' = call /\ source' = source /\ pausing[c] = "not begun"
          /\ pausing' = [pausing EXCEPT ![c] = "no"]
        BY <1>3 DEF BeginChange, SourceInv, SourceTypeOK
    <2>2. \A d \in Commands : pausing'[d] = "yes" <=> pausing[d] = "yes"
        BY <2>1 DEF SourceInv, SourceTypeOK
    <2> QED BY <2>1, <2>2 DEF Written
<1>4. ASSUME NEW c \in Commands, CommitChange(c)
      PROVE  Written' = {} \/ (Written' = Written /\ source' = source)
    <2>1. Closes(c) /\ (source' = source \/ pausing[c] = "yes")
        BY <1>4 DEF CommitChange
    <2> QED BY <1>2, <2>1
<1>5. ASSUME NEW k \in Callers, SourceCalls(k), UNCHANGED pausing
      PROVE  Written' = {} \/ (Written' = Written /\ source' = source)
    <2>1. ASSUME NEW next, CallTo(k, next), next.step # "commit", call[k].step # "commit",
                 UNCHANGED source
          PROVE  Written' = Written /\ source' = source
        <3>1. /\ call'[k].step # "commit"
              /\ \A j \in Callers \ {k} : call'[j] = call[j]
            BY <2>1 DEF CallTo, SourceInv, SourceTypeOK
        <3> QED BY <1>5, <2>1, <3>1 DEF Written
    <2>2. Idle.step # "commit"
        BY DEF Idle
    <2>3. CASE call[k].step = "commit"
        <3>1. CallTo(k, Idle)
            BY <1>5, <2>2, <2>3
               DEF SourceCalls, RequestSource, LoadSource, CheckOwner, InsertSource, SaveSource, CommitSave,
                   CallFails
        <3>2. \A j \in Callers : call'[j].step # "commit"
            BY <2>2, <2>3, <3>1 DEF CallTo, SourceInv, SourceTypeOK, OneWriter
        <3>3. \A c \in Commands : pausing'[c] # "yes"
            BY <1>5, <2>3 DEF SourceInv, OneWriter
        <3> QED BY <3>2, <3>3 DEF Written
    <2>4. CASE call[k].step # "commit" /\ (RequestSource(k) \/ LoadSource(k))
        <3>1. PICK next : CallTo(k, next) /\ next.step \in {"save", "eligible"} /\ UNCHANGED source
            BY <2>4 DEF RequestSource, LoadSource
        <3> QED BY <2>1, <2>4, <3>1
    <2>5. CASE CheckOwner(k)
        <3>1. CASE CallTo(k, Idle)
            BY <2>1, <2>2, <2>5, <3>1 DEF CheckOwner
        <3>2. CASE CallTo(k, [call[k] EXCEPT !.step = "save"])
            <4>1. call[k] # Idle /\ call[k].step # "commit"
                BY <2>5 DEF CheckOwner, Idle
            <4>2. call[k] = [step |-> call[k].step, op |-> call[k].op, row |-> call[k].row]
                BY <4>1, CallFields DEF SourceInv
            <4>3. [call[k] EXCEPT !.step = "save"].step = "save"
                BY <4>2
            <4> QED BY <2>1, <2>5, <3>2, <4>1, <4>3 DEF CheckOwner
        <3> QED BY <2>5, <3>1, <3>2 DEF CheckOwner
    <2>6. CASE InsertSource(k)
        BY <1>1, <2>1, <2>2, <2>6 DEF InsertSource
    <2>7. CASE call[k].step # "commit" /\ CallFails(k)
        BY <2>1, <2>2, <2>7 DEF CallFails
    <2>8. ~SaveSource(k)
        BY DEF SaveSource
    <2> QED BY <1>5, <2>3, <2>4, <2>5, <2>6, <2>7, <2>8 DEF SourceCalls, CommitSave
<1> QED BY <1>2, <1>3, <1>4, <1>5 DEF SourceNext

\* An active source is stopped by the COMMIT of the transaction that has written its stop.
LEMMA StopsAreWritten ==
    ASSUME SourceInv, SourceNext, source.status = "ACTIVE", source'.status # "ACTIVE"
    PROVE  SourceStops
<1>1. ASSUME NEW c \in Commands, CommitChange(c), source' # source PROVE SourceStops
    <2>1. "PAUSED" \in Written
        BY <1>1 DEF CommitChange, Written
    <2> QED BY <2>1 DEF SourceStops
<1>2. ASSUME NEW k \in Callers, SourceCalls(k), source' # source PROVE SourceStops
    <2>1. ~InsertSource(k)
        BY <1>2, SourceFields DEF InsertSource, SourceInv
    <2>2. CommitSave(k)
        BY <1>2, <2>1 DEF SourceCalls, RequestSource, LoadSource, CheckOwner, SaveSource, CallFails
    <2>3. source'.status \in Written
        BY <2>2 DEF CommitSave, Record, Written
    <2> QED BY <2>3 DEF SourceStops
<1> QED BY <1>1, <1>2 DEF SourceNext, BeginChange
-----------------------------------------------------------------------------
(* The connection                                                            *)

Connections ==
    [state : States, cursor : 0..LastPage, cursorVersion : Nat, fence : 0..MaxFence,
     leaseOwner : Workers \cup {Nobody}, expired : BOOLEAN]
SyncEvents ==
    [type : {"started", "page_completed", "completed"}, execution : Workers,
     cursor : 0..LastPage]

\* The lease is the last event's execution's.
LeaseIsOfLastEvent ==
    connection.state = "SYNCING" =>
        Len(syncEvents) >= 1 /\ syncEvents[Len(syncEvents)].execution = connection.leaseOwner

\* A lease that is there while the source is being stopped is ended with it, unless it
\* was taken under the stop's own eyes.
StopsEndLeases == connection.state = "SYNCING" /\ SourceStops => stopping \/ late

SyncInv ==
    /\ SyncTypeOK
    /\ connection.leaseOwner # Nobody => connection.state = "SYNCING"
    /\ LeaseNeedsActiveSource /\ StopsEndLeases
    /\ LeaseIsOfLastEvent /\ PagesAreOfLastStart

\* A connection, column by column.
LEMMA ConnectionFields ==
    ASSUME NEW c \in Connections
    PROVE  /\ c = [state |-> c.state, cursor |-> c.cursor, cursorVersion |-> c.cursorVersion,
                   fence |-> c.fence, leaseOwner |-> c.leaseOwner, expired |-> c.expired]
           /\ c.state \in States /\ c.cursor \in 0..LastPage /\ c.cursorVersion \in Nat
           /\ c.fence \in 0..MaxFence /\ c.leaseOwner \in Workers \cup {Nobody}
           /\ c.expired \in BOOLEAN
    BY DEF Connections

\* A connection whose lease is taken away keeps its other columns.
LEMMA ToStateFields ==
    ASSUME SyncTypeOK, NEW state \in States
    PROVE  /\ ToState(state) \in Connections
           /\ ToState(state).state = state /\ ToState(state).leaseOwner = Nobody
           /\ ToState(state).fence = connection.fence
           /\ ToState(state).cursor = connection.cursor
           /\ ToState(state).cursorVersion = connection.cursorVersion
    BY DEF SyncTypeOK, ToState, Connections

\* A connection without a lease promises nothing of the source.
LEMMA ReleaseStep ==
    ASSUME SyncInv, NEW state \in States \ {"SYNCING"}, connection' = ToState(state),
           UNCHANGED <<syncEvents, worker, asking, late>>, stopping' \in BOOLEAN
    PROVE  SyncInv'
<1>1. /\ connection' \in Connections /\ connection'.state # "SYNCING"
      /\ connection'.leaseOwner = Nobody
    BY ToStateFields DEF SyncInv
<1>2. SyncTypeOK'
    BY <1>1 DEF SyncInv, SyncTypeOK, Connections
<1> QED BY <1>1, <1>2 DEF SyncInv, LeaseNeedsActiveSource, StopsEndLeases, LeaseIsOfLastEvent,
                          PagesAreOfLastStart

\* What the open transactions have written changes with the calls and the commands only.
LEMMA WrittenKept ==
    ASSUME UNCHANGED sourceVars
    PROVE  Written' = Written /\ (SourceStops' <=> SourceStops) /\ UNCHANGED <<source, sourceEvents>>
<1>1. UNCHANGED <<source, sourceEvents, call, pausing>>
    BY DEF sourceVars
<1>2. Written' = Written
    BY <1>1 DEF Written, Changed
<1> QED BY <1>1, <1>2 DEF SourceStops

\* The steps of administrators and of time.
LEMMA AdministerStep ==
    ASSUME SyncInv, Administer, UNCHANGED <<source, sourceEvents, call, pausing, stopping>>
    PROVE  SyncInv'
<1>1. UNCHANGED <<syncEvents, worker, asking, late>> /\ stopping' \in BOOLEAN
    BY DEF Administer, SyncInv, SyncTypeOK
<1>2. CASE LeaseExpires
    <2>1. connection' = [connection EXCEPT !.expired = TRUE] /\ connection \in Connections
        BY <1>2 DEF LeaseExpires, SyncInv, SyncTypeOK, Connections
    <2>2. /\ connection' \in Connections /\ connection'.state = connection.state
          /\ connection'.leaseOwner = connection.leaseOwner
        BY <2>1 DEF Connections
    <2>3. SyncTypeOK'
        BY <1>1, <2>2 DEF SyncInv, SyncTypeOK, Connections
    <2>4. SourceStops' <=> SourceStops
        BY WrittenKept DEF sourceVars
    <2>5. LeaseNeedsActiveSource' /\ StopsEndLeases'
        BY <1>1, <2>2, <2>4 DEF SyncInv, LeaseNeedsActiveSource, StopsEndLeases
    <2>6. LeaseIsOfLastEvent' /\ PagesAreOfLastStart'
        BY <1>1, <2>2 DEF SyncInv, LeaseIsOfLastEvent, PagesAreOfLastStart
    <2> QED BY <2>2, <2>3, <2>5, <2>6 DEF SyncInv
<1>3. CASE Connect \/ Validate \/ Resume \/ RevokeCredential \/ PauseConnection \/ FailSync
    <2>1. PICK state \in States \ {"SYNCING"} : connection' = ToState(state)
        BY <1>3 DEF Connect, Validate, Resume, RevokeCredential, PauseConnection, FailSync, Leaves, States
    <2> QED BY <1>1, <2>1, ReleaseStep
<1> QED BY <1>2, <1>3 DEF Administer

\* A step of the source: what the trigger has paused stays paused at its COMMIT, and an
\* UPDATE that stops the source finds the lease.
LEMMA TriggerStep ==
    ASSUME SourceInv, SyncInv, SourceNext, Trigger, UNCHANGED <<syncEvents, worker, asking, late>>
    PROVE  SyncInv'
<1>1. stopping' \in BOOLEAN
    BY DEF Trigger, SyncInv, SyncTypeOK
<1>2. CASE connection' = ToState("PAUSED")
    BY <1>1, <1>2, ReleaseStep DEF States
<1>3. CASE connection' = connection /\ (~stopping \/ source' = source)
    <2>1. SyncTypeOK'
        BY <1>1, <1>3 DEF SyncInv, SyncTypeOK
    <2>2. LeaseIsOfLastEvent' /\ PagesAreOfLastStart'
        BY <1>3 DEF SyncInv, LeaseIsOfLastEvent, PagesAreOfLastStart
    <2>3. LeaseNeedsActiveSource'
        <3> SUFFICES ASSUME connection.state = "SYNCING", source'.status # "ACTIVE" PROVE late
            BY <1>3 DEF LeaseNeedsActiveSource
        <3>1. CASE source.status # "ACTIVE"
            BY <3>1 DEF SyncInv, LeaseNeedsActiveSource
        <3>2. CASE source.status = "ACTIVE"
            <4>1. SourceStops /\ source' # source
                BY <3>2, StopsAreWritten
            <4> QED BY <1>3, <4>1 DEF SyncInv, StopsEndLeases
        <3> QED BY <3>1, <3>2
    <2>4. StopsEndLeases'
        <3> SUFFICES ASSUME connection.state = "SYNCING", SourceStops' PROVE stopping' \/ late
            BY <1>3 DEF StopsEndLeases
        <3>1. Written' # {}
            BY DEF SourceStops
        <3>2. CASE Written = {}
            BY <3>1, <3>2 DEF Trigger, Pausable
        <3>3. CASE Written # {}
            <4>1. Written' = Written /\ source' = source
                BY <3>1, <3>3, WriterKeepsRow
            <4>2. SourceStops /\ stopping' = stopping
                BY <3>1, <3>3, <4>1 DEF SourceStops, Trigger
            <4> QED BY <4>2 DEF SyncInv, StopsEndLeases
        <3> QED BY <3>2, <3>3
    <2> QED BY <1>3, <2>1, <2>2, <2>3, <2>4 DEF SyncInv
<1> QED BY <1>2, <1>3 DEF Trigger

\* An event of the execution that started last.
LEMMA AnnounceStep ==
    ASSUME SyncInv,
           NEW w \in Workers, NEW type \in {"started", "page_completed", "completed"},
           NEW cursor \in 0..LastPage, Announce(w, type, cursor),
           type = "started" \/ (connection.state = "SYNCING" /\ connection.leaseOwner = w)
    PROVE  /\ syncEvents' \in Seq(SyncEvents)
           /\ PagesAreOfLastStart'
           /\ Len(syncEvents') >= 1 /\ syncEvents'[Len(syncEvents')].execution = w
<1> DEFINE event == [type |-> type, execution |-> w, cursor |-> cursor]
           n == Len(syncEvents)
<1>1. event \in SyncEvents /\ event.type = type /\ event.execution = w
    BY DEF SyncEvents
<1>2. syncEvents \in Seq(SyncEvents) /\ syncEvents' = Append(syncEvents, event)
    BY DEF SyncInv, SyncTypeOK, SyncEvents, Announce
<1> HIDE DEF event
<1>3. /\ syncEvents' \in Seq(SyncEvents) /\ Len(syncEvents') = n + 1 /\ n \in Nat
      /\ \A i \in 1..n : syncEvents'[i] = syncEvents[i]
      /\ syncEvents'[n + 1] = event
    BY <1>1, <1>2
<1>4. ASSUME NEW i \in 2..Len(syncEvents'), syncEvents'[i].type # "started"
      PROVE  syncEvents'[i].execution = syncEvents'[i - 1].execution
    <2>1. CASE i = n + 1
        <3>1. n >= 1 /\ syncEvents[n].execution = w
            BY <1>1, <1>3, <1>4, <2>1 DEF SyncInv, LeaseIsOfLastEvent
        <3> QED BY <1>1, <1>3, <2>1, <3>1
    <2>2. CASE i # n + 1
        <3>1. i \in 2..n /\ syncEvents'[i] = syncEvents[i] /\ syncEvents'[i - 1] = syncEvents[i - 1]
            BY <1>3, <2>2
        <3> QED BY <1>4, <3>1 DEF SyncInv, PagesAreOfLastStart
    <2> QED BY <2>1, <2>2
<1> QED BY <1>1, <1>3, <1>4 DEF PagesAreOfLastStart

\* A statement of acquire that begins changes no row.
LEMMA AskStep ==
    ASSUME SyncInv, NEW w \in Workers, Ask(w), UNCHANGED <<source, sourceEvents, call, pausing, stopping>>
    PROVE  SyncInv'
<1>1. UNCHANGED <<connection, syncEvents, worker, late>> /\ (SourceStops' <=> SourceStops)
    BY WrittenKept DEF Ask, sourceVars
<1>2. SyncTypeOK'
    BY <1>1 DEF Ask, SyncInv, SyncTypeOK
<1> QED BY <1>1, <1>2 DEF SyncInv, LeaseNeedsActiveSource, StopsEndLeases, LeaseIsOfLastEvent,
                          PagesAreOfLastStart

\* A lease that is taken of a source stopped or being stopped is told from the others.
LEMMA AcquireStep ==
    ASSUME SyncInv, NEW w \in Workers, Acquire(w),
           UNCHANGED <<source, sourceEvents, call, pausing, stopping>>
    PROVE  SyncInv'
<1> USE SyncAssumption
<1>1. 0 \in 0..LastPage /\ (SourceStops' <=> SourceStops)
    BY WrittenKept DEF sourceVars
<1>2. /\ syncEvents' \in Seq(SyncEvents)
      /\ PagesAreOfLastStart'
      /\ Len(syncEvents') >= 1 /\ syncEvents'[Len(syncEvents')].execution = w
    BY <1>1, AnnounceStep DEF Acquire
<1>3. /\ connection \in Connections
      /\ connection' = [connection EXCEPT !.state = "SYNCING", !.leaseOwner = w, !.fence = @ + 1]
      /\ connection.fence < MaxFence
    BY DEF Acquire, SyncInv, SyncTypeOK, Connections
<1>4. /\ connection' \in Connections /\ connection'.state = "SYNCING"
      /\ connection'.leaseOwner = w
    <2> DEFINE c == connection
    <2>1. c' = [c EXCEPT !.state = "SYNCING", !.leaseOwner = w, !.fence = c.fence + 1]
        BY <1>3
    <2>2. c.fence + 1 \in 0..MaxFence
        BY <1>3, ConnectionFields
    <2>3. c' = [state |-> "SYNCING", cursor |-> c.cursor, cursorVersion |-> c.cursorVersion,
                fence |-> c.fence + 1, leaseOwner |-> w, expired |-> c.expired]
        BY <1>3, <2>1, ConnectionFields
    <2> QED BY <1>3, <2>2, <2>3, ConnectionFields DEF Connections, States
<1>5. worker' \in [Workers -> [fence : 0..MaxFence, cursorVersion : Nat, page : 0..LastPage]]
    <2>1. /\ [fence |-> connection'.fence, cursorVersion |-> connection.cursorVersion,
              page |-> connection.cursor] \in [fence : 0..MaxFence, cursorVersion : Nat, page : 0..LastPage]
          /\ NotRunning \in [fence : 0..MaxFence, cursorVersion : Nat, page : 0..LastPage]
        BY <1>3, <1>4 DEF Connections, NotRunning
    <2> QED BY <2>1 DEF Acquire, SyncInv, SyncTypeOK
<1>6. asking' \subseteq Workers /\ stopping' \in BOOLEAN
    BY DEF Acquire, SyncInv, SyncTypeOK
<1>7. late' \in BOOLEAN /\ (late' <=> source.status # "ACTIVE" \/ SourceStops)
    BY DEF Acquire
<1>8. SyncTypeOK'
    BY <1>2, <1>4, <1>5, <1>6, <1>7 DEF SyncTypeOK, Connections, SyncEvents
<1>9. LeaseNeedsActiveSource' /\ StopsEndLeases'
    BY <1>1, <1>7 DEF LeaseNeedsActiveSource, StopsEndLeases
<1> QED BY <1>2, <1>4, <1>8, <1>9 DEF SyncInv, LeaseIsOfLastEvent

\* A page is committed under the lease.
LEMMA CommitStep ==
    ASSUME SyncInv, NEW w \in Workers, CommitPage(w),
           UNCHANGED <<source, sourceEvents, call, pausing, stopping>>
    PROVE  SyncInv'
<1> USE SyncAssumption
<1> DEFINE page == worker[w].page
           runs == [fence : 0..MaxFence, cursorVersion : Nat, page : 0..LastPage]
<1>1. /\ connection.state = "SYNCING" /\ connection.leaseOwner = w
      /\ UNCHANGED <<asking, late>> /\ (SourceStops' <=> SourceStops)
    BY WrittenKept DEF CommitPage, HoldsLease, sourceVars
<1>2. page \in 0..LastPage /\ NextCursor(page) \in 0..LastPage
    BY DEF SyncInv, SyncTypeOK, NextCursor, HasMore
<1>3. /\ syncEvents' \in Seq(SyncEvents)
      /\ PagesAreOfLastStart'
      /\ Len(syncEvents') >= 1 /\ syncEvents'[Len(syncEvents')].execution = w
    <2>1. (IF HasMore(page) THEN "page_completed" ELSE "completed")
              \in {"started", "page_completed", "completed"}
        OBVIOUS
    <2>2. Announce(w, IF HasMore(page) THEN "page_completed" ELSE "completed", NextCursor(page))
        BY DEF CommitPage
    <2> HIDE DEF page
    <2> QED BY <1>1, <1>2, <2>1, <2>2, AnnounceStep
<1>4. /\ connection' \in Connections
      /\ connection'.leaseOwner # Nobody => connection'.state = "SYNCING"
      /\ connection'.state = "SYNCING" => connection'.leaseOwner = w
    <2> PICK base \in {connection, ToState("READY")} :
            /\ connection' = [base EXCEPT !.cursor = NextCursor(page), !.cursorVersion = @ + 1]
        BY DEF CommitPage
    <2>1. /\ base \in Connections
          /\ base.leaseOwner # Nobody => base.state = "SYNCING"
          /\ base.state = "SYNCING" => base.leaseOwner = w
        BY <1>1, ToStateFields DEF SyncInv, SyncTypeOK, Connections, States
    <2> HIDE DEF page
    <2>2. /\ connection' \in Connections /\ connection'.state = base.state
          /\ connection'.leaseOwner = base.leaseOwner
        <3> DEFINE next == NextCursor(page)
        <3>1. connection' = [base EXCEPT !.cursor = next, !.cursorVersion = base.cursorVersion + 1]
            OBVIOUS
        <3> HIDE DEF next
        <3>2. connection' = [state |-> base.state, cursor |-> next,
                             cursorVersion |-> base.cursorVersion + 1, fence |-> base.fence,
                             leaseOwner |-> base.leaseOwner, expired |-> base.expired]
            BY <2>1, <3>1, ConnectionFields
        <3> QED BY <1>2, <2>1, <3>2, ConnectionFields DEF Connections, next
    <2> QED BY <2>1, <2>2
<1>5. worker' \in [Workers -> runs]
    <2>1. worker \in [Workers -> runs] /\ NotRunning \in runs
        BY DEF SyncInv, SyncTypeOK, NotRunning
    <2>2. AfterPage(worker[w]) \in runs
        BY <1>2, <2>1 DEF AfterPage
    <2> HIDE DEF runs
    <2> QED BY <2>1, <2>2 DEF CommitPage
<1>6. SyncTypeOK'
    <2>1. asking' \subseteq Workers /\ stopping' \in BOOLEAN /\ late' \in BOOLEAN
        BY <1>1 DEF SyncInv, SyncTypeOK
    <2> QED BY <1>3, <1>4, <1>5, <2>1 DEF SyncTypeOK, Connections, SyncEvents
<1>7. LeaseNeedsActiveSource' /\ StopsEndLeases'
    BY <1>1 DEF SyncInv, LeaseNeedsActiveSource, StopsEndLeases
<1> QED BY <1>3, <1>4, <1>6, <1>7 DEF SyncInv, LeaseIsOfLastEvent

\* A worker that stops leaves its lease where it is.
LEMMA StopStep ==
    ASSUME SyncInv, NEW w \in Workers, Stop(w), UNCHANGED <<source, sourceEvents, call, pausing, stopping>>
    PROVE  SyncInv'
<1>1. UNCHANGED <<connection, syncEvents, late>> /\ (SourceStops' <=> SourceStops)
    BY WrittenKept DEF Stop, sourceVars
<1>2. SyncTypeOK'
    <2>1. NotRunning \in [fence : 0..MaxFence, cursorVersion : Nat, page : 0..LastPage]
        BY SyncAssumption DEF NotRunning, SyncInv, SyncTypeOK
    <2> QED BY <1>1, <2>1 DEF Stop, SyncInv, SyncTypeOK
<1> QED BY <1>1, <1>2 DEF SyncInv, LeaseNeedsActiveSource, StopsEndLeases, LeaseIsOfLastEvent,
                          PagesAreOfLastStart
-----------------------------------------------------------------------------
(* The theorems                                                              *)

Inv == TenancyTypeOK /\ SourceInv /\ SyncInv

LEMMA InvInit == Init => Inv
<1> SUFFICES ASSUME Init PROVE Inv
    OBVIOUS
<1>1. TenancyTypeOK
    BY DEF Init, TenancyInit, TenancyTypeOK
<1>2. SourceInv
    <2>1. /\ source = Absent /\ source.version = 0 /\ sourceEvents = <<>>
          /\ \A k \in Callers : call[k] = Idle /\ call[k].step = "idle"
          /\ \A c \in Commands : pausing[c] = "not begun"
        BY DEF Init, SourceInit, Absent, Idle
    <2>2. SourceTypeOK
        <3>1. /\ call \in [Callers -> {Idle} \cup [step : {"eligible", "save", "commit"},
                                                    op : {"create"} \cup Operations, row : Sources]]
              /\ pausing \in [Commands -> {"not begun", "no", "yes"}]
            BY DEF Init, SourceInit
        <3>2. sourceEvents \in Seq([version : Nat, status : Statuses])
            BY EmptySeq DEF Init, SourceInit
        <3> QED BY <2>1, <3>1, <3>2 DEF SourceTypeOK
    <2>3. EventsTellVersions
        <3>1. Len(sourceEvents) = 0
            BY DEF Init, SourceInit
        <3>2. \A v \in 1..Len(sourceEvents) : FALSE
            BY <3>1
        <3> QED BY <2>1, <3>1, <3>2, Zenon DEF EventsTellVersions
    <2>4. CallsReadVersions /\ OneWriter /\ PausesActive
        BY <2>1 DEF CallsReadVersions, OneWriter, PausesActive
    <2> QED BY <2>1, <2>2, <2>3, <2>4 DEF SourceInv
<1>3. SyncTypeOK
    <2>1. syncEvents = <<>> /\ asking = {} /\ stopping = FALSE /\ late = FALSE
        BY DEF Init
    <2>2. /\ connection \in Connections
          /\ worker \in [Workers -> [fence : 0..MaxFence, cursorVersion : Nat, page : 0..LastPage]]
        BY SyncAssumption DEF Init, Connections, States, Nobody, NotRunning
    <2>3. syncEvents \in Seq(SyncEvents)
        BY <2>1, EmptySeq
    <2> QED BY <2>1, <2>2, <2>3 DEF SyncTypeOK, Connections, SyncEvents
<1>4. connection.state = "absent" /\ connection.leaseOwner = Nobody /\ syncEvents = <<>>
    BY DEF Init
<1>5. SyncInv
    BY <1>3, <1>4 DEF SyncInv, LeaseNeedsActiveSource, StopsEndLeases, LeaseIsOfLastEvent,
                      PagesAreOfLastStart
<1> QED BY <1>1, <1>2, <1>5 DEF Inv

LEMMA InvStep == Inv /\ [Next]_vars => Inv'
<1> SUFFICES ASSUME Inv, [Next]_vars PROVE Inv'
    OBVIOUS
<1>1. CASE SourceNext /\ Trigger /\ UNCHANGED <<syncEvents, worker, asking, late>>
    BY <1>1, SourceStep, TriggerStep DEF Inv
<1>2. CASE Administer /\ UNCHANGED <<tenancyVars, sourceVars, stopping>>
    BY <1>2, SourceStep, AdministerStep DEF Inv, sourceVars
<1>3. ASSUME NEW w \in Workers, Work(w), UNCHANGED <<tenancyVars, sourceVars, stopping>> PROVE Inv'
    BY <1>3, SourceStep, AskStep, AcquireStep, CommitStep, StopStep DEF Inv, Work, sourceVars
<1>4. CASE UNCHANGED vars
    <2>1. UNCHANGED <<tenancyVars, sourceVars>> /\ UNCHANGED syncVars
        BY <1>4 DEF vars
    <2>2. SourceStops' <=> SourceStops
        BY <2>1, WrittenKept
    <2>3. SyncInv'
        BY <2>1, <2>2 DEF Inv, syncVars, sourceVars, SyncInv, SyncTypeOK, LeaseNeedsActiveSource,
                          StopsEndLeases, LeaseIsOfLastEvent, PagesAreOfLastStart
    <2> QED BY <2>1, <2>3, SourceStep DEF Inv
<1> QED BY <1>1, <1>2, <1>3, <1>4 DEF Next

LEMMA Invariance == Spec => []Inv
    BY InvInit, InvStep, PTL DEF Spec

\* The rows, the calls and the workers keep their types, and only a synchronising
\* connection has a lease.
THEOREM TypeCorrect == Spec => []GovernanceTypeOK
<1>1. Inv => GovernanceTypeOK
    BY DEF Inv, SourceInv, SyncInv, GovernanceTypeOK
<1> QED BY <1>1, Invariance, PTL

\* However many callers and membership commands race for the row, its outbox has
\* each version once.
THEOREM OutboxTellsVersions == Spec => []EventsTellVersions
<1>1. Inv => EventsTellVersions
    BY DEF Inv, SourceInv
<1> QED BY <1>1, Invariance, PTL

\* The trigger ends every lease with the source's activity, but those that were taken
\* when the stop's transaction was open already, or by a statement begun before it ended.
THEOREM LeaseOfActiveSource == Spec => []LeaseNeedsActiveSource
<1>1. Inv => LeaseNeedsActiveSource
    BY DEF Inv, SyncInv
<1> QED BY <1>1, Invariance, PTL

\* The fence keeps a worker whose lease was taken from committing a page.
THEOREM PagesOfLastStart == Spec => []PagesAreOfLastStart
<1>1. Inv => PagesAreOfLastStart
    BY DEF Inv, SyncInv
<1> QED BY <1>1, Invariance, PTL

\* No call that read the source before undoes a stop.
LEMMA StoppedStep ==
    ASSUME Inv, [Next]_vars, source.status \in {"PAUSED", "DISCONNECTED", "ARCHIVED"}
    PROVE  source'.status # "ACTIVE"
<1>1. CASE UNCHANGED source
    BY <1>1
<1>2. ASSUME NEW k \in Callers, CommitSave(k) PROVE source'.status # "ACTIVE"
    <2>1. call[k] # Idle /\ call[k].op # "create" /\ call[k].row = source
        BY <1>2 DEF CommitSave, Inv, SourceInv, OneWriter, Idle
    <2>2. /\ call[k].op \in Operations /\ call[k].row \in Sources
          /\ Accepts(call[k].op, call[k].row, Actor[k])
        BY <1>2, <2>1, CallFields DEF CommitSave, Inv, SourceInv, CallsReadVersions
    <2>3. source'.status = "ACTIVE" => source.status = "PENDING_REVIEW"
        <3>1. source' = Changed(call[k].op, call[k].row)
            BY <1>2 DEF CommitSave, Record
        <3> QED BY <2>1, <2>2, <3>1, ChangedRow
    <2> QED BY <2>3
<1>3. ASSUME NEW k \in Callers, InsertSource(k), source' # source PROVE source'.status # "ACTIVE"
    BY <1>3, SourceFields DEF InsertSource, Inv, SourceInv
<1>4. ASSUME NEW c \in Commands, CommitChange(c), source' # source PROVE source'.status # "ACTIVE"
    BY <1>4 DEF CommitChange, Inv, SourceInv, PausesActive
<1>5. ASSUME SourceNext, source' # source PROVE source'.status # "ACTIVE"
    BY <1>2, <1>3, <1>4, <1>5
       DEF SourceNext, SourceCalls, BeginChange, RequestSource, LoadSource, CheckOwner, SaveSource, CallFails
<1> QED BY <1>1, <1>5 DEF Next, vars, sourceVars

\* A source that was stopped is not active again.
THEOREM StoppedStays == Spec => StoppedForGood
<1>1. Inv /\ [Next]_vars =>
          [source.status \in {"PAUSED", "DISCONNECTED", "ARCHIVED"} => source'.status # "ACTIVE"]_sourceVars
    BY StoppedStep
<1> QED BY <1>1, Invariance, PTL DEF Spec, StoppedForGood
-----------------------------------------------------------------------------
(* The pages of a pass                                                       *)

\* The row's cursor is the one of the page committed last.
CursorIsOfLastPage ==
    /\ PageEvents = {} => connection.cursor = 0
    /\ \A i \in PageEvents :
           (\A k \in PageEvents : k <= i) => connection.cursor = syncEvents[i].cursor

\* A worker's run is of this version of the cursor, and then of its page, or of an older one.
RunsReadCursor ==
    \A w \in Workers : worker[w] # NotRunning =>
        /\ worker[w].cursorVersion <= connection.cursorVersion
        /\ CursorIsCurrent(w) => worker[w].page = connection.cursor

PassInv == CursorIsOfLastPage /\ RunsReadCursor /\ PagesFollowOneAnother

\* An event adds its page, behind the others, or none.
LEMMA PagesAnnounced ==
    ASSUME SyncInv, NEW w \in Workers,
           NEW type \in {"started", "page_completed", "completed"},
           NEW cursor \in 0..LastPage, Announce(w, type, cursor)
    PROVE  LET n == Len(syncEvents) + 1
           IN  /\ \A i \in PageEvents : i \in Nat /\ i < n /\ syncEvents'[i] = syncEvents[i]
               /\ n \in Nat
               /\ type = "started" => PageEvents' = PageEvents
               /\ type # "started" => PageEvents' = PageEvents \cup {n} /\ syncEvents'[n].cursor = cursor
<1> DEFINE event == [type |-> type, execution |-> w, cursor |-> cursor]
           n == Len(syncEvents)
<1>1. event \in SyncEvents /\ event.type = type /\ event.cursor = cursor
    BY DEF SyncEvents
<1>2. syncEvents \in Seq(SyncEvents) /\ syncEvents' = Append(syncEvents, event)
    BY DEF SyncInv, SyncTypeOK, SyncEvents, Announce
<1> HIDE DEF event
<1>3. /\ Len(syncEvents') = n + 1 /\ n \in Nat
      /\ \A i \in 1..n : syncEvents'[i] = syncEvents[i]
      /\ syncEvents'[n + 1] = event
    BY <1>1, <1>2
<1> HIDE DEF n
<1>4. /\ 1..(n + 1) = 1..n \cup {n + 1}
      /\ \A i \in 1..n : i \in Nat /\ i < n + 1
    BY <1>3
<1>5. PageEvents = {i \in 1..n : syncEvents[i].type # "started"}
    BY DEF PageEvents, n
<1>6. PageEvents' = {i \in 1..n \cup {n + 1} : syncEvents'[i].type # "started"}
    BY <1>3, <1>4 DEF PageEvents
<1>7. \A i \in PageEvents : i \in Nat /\ i < n + 1 /\ syncEvents'[i] = syncEvents[i]
    BY <1>3, <1>4, <1>5
<1>8. type = "started" => PageEvents' = PageEvents
    BY <1>1, <1>3, <1>5, <1>6
<1>9. type # "started" => PageEvents' = PageEvents \cup {n + 1}
    BY <1>1, <1>3, <1>5, <1>6
<1>10. syncEvents'[n + 1].cursor = cursor
    BY <1>1, <1>3
<1>11. n + 1 \in Nat
    BY <1>3
<1> QED BY <1>7, <1>8, <1>9, <1>10, <1>11 DEF n

\* Steps that commit no page: they leave the cursor, and whoever runs goes on or stops,
\* or begins with what the row says.
LEMMA CursorKept ==
    ASSUME SyncInv, PassInv, PageEvents' = PageEvents,
           \A i \in PageEvents : syncEvents'[i] = syncEvents[i],
           connection'.cursor = connection.cursor,
           connection'.cursorVersion = connection.cursorVersion,
           \A w \in Workers :
               \/ worker'[w] \in {worker[w], NotRunning}
               \/ /\ worker'[w].cursorVersion = connection.cursorVersion
                  /\ worker'[w].page = connection.cursor
    PROVE  PassInv'
<1>1. CursorIsOfLastPage'
    BY DEF PassInv, CursorIsOfLastPage
<1>2. connection.cursorVersion \in Nat
    BY DEF SyncInv, SyncTypeOK
<1>3. RunsReadCursor'
    BY <1>2 DEF PassInv, RunsReadCursor, CursorIsCurrent
<1>4. PagesFollowOneAnother'
    BY DEF PassInv, PagesFollowOneAnother, Adjacent
<1> QED BY <1>1, <1>3, <1>4 DEF PassInv

LEMMA AcquirePass ==
    ASSUME SyncInv, PassInv, NEW w \in Workers, Acquire(w)
    PROVE  PassInv'
<1>1. /\ PageEvents' = PageEvents
      /\ \A i \in PageEvents : syncEvents'[i] = syncEvents[i]
    <2>1. Announce(w, "started", 0) /\ 0 \in 0..LastPage
        BY SyncAssumption DEF Acquire
    <2> QED BY <2>1, PagesAnnounced
<1>2. connection'.cursor = connection.cursor /\ connection'.cursorVersion = connection.cursorVersion
    <2> DEFINE c == connection
    <2>1. /\ connection \in Connections
          /\ connection' = [connection EXCEPT !.state = "SYNCING", !.leaseOwner = w, !.fence = @ + 1]
        BY DEF Acquire, SyncInv, SyncTypeOK, Connections
    <2>2. c' = [c EXCEPT !.state = "SYNCING", !.leaseOwner = w, !.fence = c.fence + 1]
        BY <2>1
    <2>3. c' = [state |-> "SYNCING", cursor |-> c.cursor, cursorVersion |-> c.cursorVersion,
                fence |-> c.fence + 1, leaseOwner |-> w, expired |-> c.expired]
        BY <2>1, <2>2, ConnectionFields
    <2> QED BY <2>3
<1>3. ASSUME NEW v \in Workers
      PROVE  \/ worker'[v] \in {worker[v], NotRunning}
             \/ /\ worker'[v].cursorVersion = connection.cursorVersion
                /\ worker'[v].page = connection.cursor
    <2>1. worker \in [Workers -> [fence : 0..MaxFence, cursorVersion : Nat, page : 0..LastPage]]
        BY DEF SyncInv, SyncTypeOK
    <2>2. worker' \in {worker, [worker EXCEPT ![w] =
                                   [fence |-> connection'.fence,
                                    cursorVersion |-> connection.cursorVersion,
                                    page |-> connection.cursor]]}
        BY DEF Acquire
    <2> QED BY <2>1, <2>2
<1> QED BY <1>1, <1>2, <1>3, CursorKept

LEMMA StopPass ==
    ASSUME SyncInv, PassInv, NEW w \in Workers, Stop(w)
    PROVE  PassInv'
<1>1. UNCHANGED <<connection, syncEvents>> /\ worker' = [worker EXCEPT ![w] = NotRunning]
    BY DEF Stop
<1>2. worker \in [Workers -> [fence : 0..MaxFence, cursorVersion : Nat, page : 0..LastPage]]
    BY DEF SyncInv, SyncTypeOK
<1>3. PageEvents' = PageEvents
    BY <1>1 DEF PageEvents
<1>4. \A v \in Workers : worker'[v] \in {worker[v], NotRunning}
    BY <1>1, <1>2
<1> QED BY <1>1, <1>3, <1>4, CursorKept

\* The lease changes hands and the cursor stays.
LEMMA LeasePass ==
    ASSUME SyncInv, PassInv, UNCHANGED <<syncEvents, worker>>,
           connection' = connection \/ LeaseExpires \/ \E state \in States : connection' = ToState(state)
    PROVE  PassInv'
<1>1. PageEvents' = PageEvents
    BY DEF PageEvents
<1>2. connection'.cursor = connection.cursor /\ connection'.cursorVersion = connection.cursorVersion
    <2>1. CASE connection' = connection
        BY <2>1
    <2>2. CASE LeaseExpires
        <3>1. connection \in Connections /\ connection' = [connection EXCEPT !.expired = TRUE]
            BY <2>2 DEF LeaseExpires, SyncInv, SyncTypeOK, Connections
        <3> QED BY <3>1 DEF Connections
    <2>3. ASSUME NEW state \in States, connection' = ToState(state)
          PROVE  /\ connection'.cursor = connection.cursor
                 /\ connection'.cursorVersion = connection.cursorVersion
        BY <2>3, ToStateFields DEF SyncInv
    <2> QED BY <2>1, <2>2, <2>3
<1> QED BY <1>1, <1>2, CursorKept

\* A page is the one that the row's cursor names, and moves the cursor on.
LEMMA CommitPass ==
    ASSUME SyncInv, PassInv, NEW w \in Workers, CommitPage(w)
    PROVE  PassInv'
<1> DEFINE page == worker[w].page  next == NextCursor(page)  n == Len(syncEvents) + 1
<1>1. page \in 0..LastPage /\ next \in 0..LastPage
    BY SyncAssumption DEF SyncInv, SyncTypeOK, NextCursor, HasMore
<1>2. page = connection.cursor /\ worker[w].cursorVersion = connection.cursorVersion
    BY DEF CommitPage, PassInv, RunsReadCursor, CursorIsCurrent
<1>3. /\ \A i \in PageEvents : i \in Nat /\ i < n /\ syncEvents'[i] = syncEvents[i]
      /\ n \in Nat
      /\ PageEvents' = PageEvents \cup {n} /\ syncEvents'[n].cursor = next
    <2>1. PICK type \in {"page_completed", "completed"} : Announce(w, type, next)
        BY DEF CommitPage
    <2> HIDE DEF page, next
    <2> QED BY <1>1, <2>1, PagesAnnounced
<1>4. connection'.cursor = next /\ connection'.cursorVersion = connection.cursorVersion + 1
    <2> PICK base \in {connection, ToState("READY")} :
            connection' = [base EXCEPT !.cursor = next, !.cursorVersion = @ + 1]
        BY DEF CommitPage
    <2>1. /\ base \in Connections /\ base.cursorVersion = connection.cursorVersion
        BY ToStateFields DEF SyncInv, SyncTypeOK, Connections, States
    <2> HIDE DEF next
    <2>2. connection' = [base EXCEPT !.cursor = next, !.cursorVersion = base.cursorVersion + 1]
        OBVIOUS
    <2>3. connection' = [state |-> base.state, cursor |-> next,
                         cursorVersion |-> base.cursorVersion + 1, fence |-> base.fence,
                         leaseOwner |-> base.leaseOwner, expired |-> base.expired]
        BY <2>1, <2>2, ConnectionFields
    <2> QED BY <2>1, <2>3
<1>5. RunsReadCursor'
    <2>1. /\ worker \in [Workers -> [fence : 0..MaxFence, cursorVersion : Nat, page : 0..LastPage]]
          /\ connection.cursorVersion \in Nat
        BY DEF SyncInv, SyncTypeOK
    <2>2. worker' \in {worker, [worker EXCEPT ![w] = AfterPage(worker[w])]}
        BY DEF CommitPage
    <2>3. \/ AfterPage(worker[w]) = NotRunning
          \/ /\ AfterPage(worker[w]).cursorVersion = connection.cursorVersion + 1
             /\ AfterPage(worker[w]).page = next
        BY <1>2 DEF AfterPage
    <2> HIDE DEF next, page
    <2>4. ASSUME NEW v \in Workers, worker'[v] # NotRunning
          PROVE  /\ worker'[v].cursorVersion <= connection.cursorVersion + 1
                 /\ worker'[v].cursorVersion = connection.cursorVersion + 1 => worker'[v].page = next
        <3>1. CASE worker'[v] = worker[v]
            <4>1. worker[v].cursorVersion <= connection.cursorVersion /\ worker[v].cursorVersion \in Nat
                BY <2>1, <2>4, <3>1 DEF PassInv, RunsReadCursor
            <4> QED BY <2>1, <3>1, <4>1
        <3>2. CASE v = w /\ worker'[v] = AfterPage(worker[w])
            BY <2>1, <2>3, <2>4, <3>2
        <3> QED BY <2>1, <2>2, <3>1, <3>2
    <2> QED BY <1>4, <2>4 DEF RunsReadCursor, CursorIsCurrent
<1>6. CursorIsOfLastPage'
    BY <1>3, <1>4 DEF CursorIsOfLastPage
<1>7. PagesFollowOneAnother'
    <2>1. ASSUME NEW j \in PageEvents', \A i \in PageEvents' : j <= i
          PROVE  syncEvents'[j].cursor = NextCursor(0)
        <3>1. CASE j = n
            <4>1. PageEvents = {}
                BY <1>3, <2>1, <3>1
            <4>2. page = 0
                BY <1>2, <4>1 DEF PassInv, CursorIsOfLastPage
            <4> QED BY <1>3, <3>1, <4>2
        <3>2. CASE j # n
            <4>1. j \in PageEvents /\ \A i \in PageEvents : j <= i
                BY <1>3, <2>1, <3>2
            <4> QED BY <1>3, <4>1 DEF PassInv, PagesFollowOneAnother
        <3> QED BY <3>1, <3>2
    <2>2. ASSUME NEW i \in PageEvents', NEW j \in PageEvents', Adjacent(i, j)'
          PROVE  syncEvents'[j].cursor = NextCursor(syncEvents'[i].cursor)
        <3>1. i < j /\ \A k \in PageEvents' : k <= i \/ j <= k
            BY <2>2 DEF Adjacent
        <3>2. i \in PageEvents
            BY <1>3, <3>1
        <3>3. CASE j = n
            <4>1. \A k \in PageEvents : k <= i
                BY <1>3, <3>1, <3>3
            <4>2. page = syncEvents[i].cursor
                BY <1>2, <3>2, <4>1 DEF PassInv, CursorIsOfLastPage
            <4> QED BY <1>3, <3>2, <3>3, <4>2
        <3>4. CASE j # n
            <4>1. j \in PageEvents /\ Adjacent(i, j)
                BY <1>3, <3>1, <3>4 DEF Adjacent
            <4> QED BY <1>3, <3>2, <4>1 DEF PassInv, PagesFollowOneAnother
        <3> QED BY <3>3, <3>4
    <2> QED BY <2>1, <2>2 DEF PagesFollowOneAnother, NextCursor, HasMore
<1> QED BY <1>5, <1>6, <1>7 DEF PassInv

LEMMA PassStep == Inv /\ PassInv /\ [Next]_vars => PassInv'
<1> SUFFICES ASSUME Inv, PassInv, [Next]_vars PROVE PassInv'
    OBVIOUS
<1> USE DEF Inv
<1>1. CASE Trigger /\ UNCHANGED <<syncEvents, worker>>
    <2>1. connection' = connection \/ \E state \in States : connection' = ToState(state)
        BY <1>1 DEF Trigger, States
    <2> QED BY <1>1, <2>1, LeasePass
<1>2. CASE Administer
    <2>1. LeaseExpires \/ \E state \in States : connection' = ToState(state)
        BY <1>2 DEF Administer, Connect, Validate, Resume, RevokeCredential, PauseConnection, FailSync,
                    Leaves, States
    <2> QED BY <1>2, <2>1, LeasePass DEF Administer
<1>3. ASSUME NEW w \in Workers, Work(w) PROVE PassInv'
    BY <1>3, AcquirePass, CommitPass, StopPass, LeasePass DEF Work, Ask
<1>4. CASE UNCHANGED vars
    BY <1>4, LeasePass DEF vars, syncVars
<1> QED BY <1>1, <1>2, <1>3, <1>4 DEF Next

\* No page is skipped and none committed twice in a pass: the version of the cursor
\* keeps out whoever lists from a cursor that has moved.
THEOREM PagesFollow == Spec => []PagesFollowOneAnother
<1>1. Init => PassInv
    <2>1. Init => PageEvents = {}
        <3>1. Init => Len(syncEvents) = 0
            BY DEF Init
        <3> QED BY <3>1 DEF PageEvents
    <2> QED BY <2>1 DEF Init, PassInv, CursorIsOfLastPage, RunsReadCursor, PagesFollowOneAnother
<1>2. PassInv => PagesFollowOneAnother
    BY DEF PassInv
<1> QED BY <1>1, <1>2, PassStep, Invariance, PTL DEF Spec
=============================================================================
