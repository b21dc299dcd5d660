---------------------------- MODULE SourceRegistry ----------------------------
(* One source of the workspace: its row and its outbox, written by the calls *)
(* of sourceService and by the membership commands.  A call loads the row,   *)
(* may look at the owner's membership and saves the row it computed if the   *)
(* version is still the one it read, each in a transaction of its own.  The  *)
(* transactions that update the row hold its lock until they end.            *)
EXTENDS Tenancy, Sequences

CONSTANTS
    Callers,            \* administrators with a request to sourceService under way
    Actor,              \* the user each of them is
    Drafts,             \* the owner and the classification a source may be created with
    MaxSourceVersion    \* bound: no call starts on a row of this version

ASSUME SourceAssumption ==
    /\ Actor \in [Callers -> Users]
    /\ Drafts \subseteq [owner : Users \cup {None}, classification : Ranks \cup {None}]
    /\ MaxSourceVersion \in Nat

VARIABLES
    source,             \* the row of source_registry, or "absent"
    sourceEvents,       \* source_registry_outbox: versions and statuses, as committed
    call,               \* what each caller does next, and the row it has read
    pausing             \* whether a membership command's open transaction has paused the source

sourceVars == <<source, sourceEvents, call, pausing>>

Absent == [status |-> "absent", version |-> 0]
Operations == {"submit", "accept", "activate", "PAUSED", "DISCONNECTED", "ARCHIVED"}
Statuses == {"DRAFT", "PENDING_OWNER", "PENDING_REVIEW", "ACTIVE",
             "PAUSED", "DISCONNECTED", "ARCHIVED"}
Sources == [owner : Users \cup {None}, classification : Ranks \cup {None},
            acceptance : {"PENDING", "ACCEPTED"}, status : Statuses, version : Nat]

Idle == [step |-> "idle"]

SourceTypeOK ==
    /\ source \in Sources \cup {Absent}
    /\ sourceEvents \in Seq([version : Nat, status : Statuses])
    /\ call \in [Callers -> {Idle} \cup [step : {"eligible", "save", "commit"},
                                         op : {"create"} \cup Operations, row : Sources]]
    /\ pausing \in [Commands -> {"not begun", "no", "yes"}]

SourceInit ==
    /\ source = Absent
    /\ sourceEvents = <<>>
    /\ call = [k \in Callers |-> Idle]
    /\ pausing = [c \in Commands |-> "not begun"]
-----------------------------------------------------------------------------
(* The domain functions                                                      *)

\* Whether the domain function of an operation accepts the row.
Accepts(op, row, actor) ==
    CASE op = "submit" -> row.status \in {"DRAFT", "PENDING_OWNER", "PENDING_REVIEW"}
      [] op = "accept" -> row.status = "PENDING_REVIEW" /\ row.owner = actor
      [] op = "activate" -> row.status = "PENDING_REVIEW" /\ row.acceptance = "ACCEPTED"
      [] op = "ARCHIVED" -> row.status # "ARCHIVED"
      [] OTHER -> row.status = "ACTIVE"

\* The row it returns.
Changed(op, row) ==
    [row EXCEPT
        !.version = @ + 1,
        !.acceptance = IF op = "accept" THEN "ACCEPTED" ELSE @,
        !.status = CASE op = "submit" -> (IF row.owner = None THEN "PENDING_OWNER" ELSE "PENDING_REVIEW")
                     [] op = "accept" -> @
                     [] op = "activate" -> "ACTIVE"
                     [] OTHER -> op]

\* ownerIsEligible.
Eligible(owner, classification) ==
    /\ membership[owner] # None /\ membership[owner].status = "ACTIVE"
    /\ membership[owner].clearance >= classification
-----------------------------------------------------------------------------
(* The calls of sourceService                                                *)

CallTo(k, next) == call' = [call EXCEPT ![k] = next]

\* Created without an owner or a classification, a source skips the check.
RequestSource(k) ==
    /\ call[k] = Idle /\ source = Absent
    /\ \E draft \in Drafts :
           LET row == [owner |-> draft.owner, classification |-> draft.classification,
                       acceptance |-> "PENDING", status |-> "DRAFT", version |-> 1]
           IN  CallTo(k, [step |-> IF None \in {row.owner, row.classification} THEN "save" ELSE "eligible",
                          op |-> "create", row |-> row])
    /\ UNCHANGED <<source, sourceEvents>>

\* load, when the version is the one the caller expects.  Acceptance and activation
\* ask for the owner's eligibility before the domain function.
LoadSource(k) ==
    /\ call[k] = Idle /\ source # Absent /\ source.version < MaxSourceVersion
    /\ \E op \in Operations :
           IF op \in {"accept", "activate"}
             THEN /\ None \notin {source.owner, source.classification}
                  /\ CallTo(k, [step |-> "eligible", op |-> op, row |-> source])
             ELSE /\ Accepts(op, source, Actor[k])
                  /\ CallTo(k, [step |-> "save", op |-> op, row |-> source])
    /\ UNCHANGED <<source, sourceEvents>>

CheckOwner(k) ==
    /\ call[k].step = "eligible"
    /\ LET row == call[k].row IN
       IF /\ Eligible(row.owner, row.classification)
          /\ call[k].op = "create" \/ Accepts(call[k].op, row, Actor[k])
         THEN CallTo(k, [call[k] EXCEPT !.step = "save"])
         ELSE CallTo(k, Idle)
    /\ UNCHANGED <<source, sourceEvents>>

Record(row) ==
    /\ source' = row
    /\ sourceEvents' = Append(sourceEvents, [version |-> row.version, status |-> row.status])

\* Keys refuse a second row and an owner who was never a member.
InsertSource(k) ==
    /\ call[k].step = "save" /\ call[k].op = "create"
    /\ CallTo(k, Idle)
    /\ LET row == call[k].row IN
       IF source = Absent /\ workspace # "absent" /\ (row.owner # None => membership[row.owner] # None)
         THEN Record(row)
         ELSE UNCHANGED <<source, sourceEvents>>

\* The status in the row as the transaction that has updated it has left it, not yet
\* committed; nobody else's UPDATE gets past it.
Written ==
    {Changed(call[k].op, call[k].row).status : k \in {j \in Callers : call[j].step = "commit"}}
    \cup {"PAUSED" : c \in {d \in Commands : pausing[d] = "yes"}}

\* Mutant: UPDATE without "version = $10".
SavesAnyway(row) == TRUE

StillAt(row) == source.version = row.version

\* The UPDATE of save; it waits for the row.  SOURCE_VERSION_CONFLICT ends the call.
SaveSource(k) ==
    /\ call[k].step = "save" /\ call[k].op # "create" /\ Written = {}
    /\ CallTo(k, IF StillAt(call[k].row) THEN [call[k] EXCEPT !.step = "commit"] ELSE Idle)
    /\ UNCHANGED <<source, sourceEvents>>

\* The audit, the outbox and COMMIT.
CommitSave(k) ==
    /\ call[k].step = "commit"
    /\ CallTo(k, Idle)
    /\ Record(Changed(call[k].op, call[k].row))

CallFails(k) ==
    /\ call[k] # Idle
    /\ CallTo(k, Idle)
    /\ UNCHANGED <<source, sourceEvents>>
-----------------------------------------------------------------------------
(* The membership commands pause what their member may no longer own         *)

Pauses(grant) == grant.status # "ACTIVE" \/ source.classification > grant.clearance

\* The statements of changeMembership: the member's row is locked, then the source's
\* if it is found active; it waits for whoever has updated that row.  A source that an
\* open transaction is activating is not found.
BeginChange(c) ==
    /\ command[c] = "pending" /\ Request[c].op = "change" /\ workspace # "absent"
    /\ \A d \in Commands : pausing[d] # "not begun" => Request[d].member # Request[c].member
    /\ IF /\ source.status = "ACTIVE" /\ source.owner = Request[c].member
          /\ Pauses(Request[c].grant)
         THEN Written = {} /\ pausing' = [pausing EXCEPT ![c] = "yes"]
         ELSE pausing' = [pausing EXCEPT ![c] = "no"]
    /\ UNCHANGED <<tenancyVars, source, sourceEvents, call>>

Closes(c) == pausing' = [pausing EXCEPT ![c] = "not begun"] /\ UNCHANGED call

\* Its COMMIT.
CommitChange(c) ==
    /\ pausing[c] # "not begun" /\ ChangeMembership(c) /\ Closes(c)
    /\ IF pausing[c] = "yes"
         THEN Record([source EXCEPT !.status = "PAUSED", !.version = @ + 1])
         ELSE UNCHANGED <<source, sourceEvents>>

SourceCalls(k) ==
    \/ RequestSource(k) \/ LoadSource(k) \/ CheckOwner(k) \/ InsertSource(k)
    \/ SaveSource(k) \/ CommitSave(k) \/ CallFails(k)

SourceNext ==
    \/ \E c \in Commands :
           \/ BeginChange(c) \/ CommitChange(c)
           \/ WorkspaceCommand(c) /\ Closes(c) /\ UNCHANGED <<source, sourceEvents>>
    \/ \E k \in Callers : SourceCalls(k) /\ UNCHANGED <<tenancyVars, pausing>>
-----------------------------------------------------------------------------
(* Properties                                                                *)

\* The outbox tells the row's history: one event for each version up to the
\* present one, the last of them of the present status, whoever raced to write it.
EventsTellVersions ==
    /\ Len(sourceEvents) = source.version
    /\ \A v \in 1..Len(sourceEvents) : sourceEvents[v].version = v
    /\ source # Absent => sourceEvents[source.version].status = source.status

\* An active source has an owner who may own it.
ActiveOwnerIsEligible == source.status = "ACTIVE" => Eligible(source.owner, source.classification)

\* What was paused, disconnected or archived is not active again, neither by a call
\* that read it before nor by one that pauses it together with another.
StoppedForGood ==
    [][source.status \in {"PAUSED", "DISCONNECTED", "ARCHIVED"} => source'.status # "ACTIVE"]_sourceVars
=============================================================================
