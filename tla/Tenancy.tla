------------------------------- MODULE Tenancy -------------------------------
(* The commands on one workspace and its memberships.  Each reads the rows   *)
(* that permit it, which nothing in the repository writes, and then writes   *)
(* in one transaction with its event.                                        *)
EXTENDS Naturals

CONSTANTS
    Users,              \* the users that can be members
    Commands,           \* calls of the three tenancy commands
    Request,            \* what each call asks for
    None                \* NULL, or no row

Roles == {"member", "manager", "owner", "admin"}
Ranks == 0..3
Grants == [role : Roles, status : {"ACTIVE", "SUSPENDED", "REVOKED"}, clearance : Ranks]

ASSUME TenancyAssumption ==
    /\ None \notin Grants \cup Users \cup Ranks
    /\ Request \in [Commands -> [op : {"create"}, member : Users]
                                  \cup [op : {"archive"}]
                                  \cup [op : {"change"}, member : Users, grant : Grants]]

VARIABLES
    workspace,          \* iam_workspace.status
    membership,         \* iam_workspace_membership of each user
    command,            \* whether each call is still to write
    announced           \* the calls whose event is in iam_outbox_event

tenancyVars == <<workspace, membership, command, announced>>

TenancyTypeOK ==
    /\ workspace \in {"absent", "active", "archived"}
    /\ membership \in [Users -> Grants \cup {None}]
    /\ command \in [Commands -> {"pending", "ended"}]
    /\ announced \subseteq Commands

TenancyInit ==
    /\ workspace = "absent"
    /\ membership = [u \in Users |-> None]
    /\ command = [c \in Commands |-> "pending"]
    /\ announced = {}

End(c, op) ==
    /\ command[c] = "pending" /\ Request[c].op = op
    /\ command' = [command EXCEPT ![c] = "ended"]

\* Not a tenant's administrator, a member who is not active, a dependency that
\* fails or a row that does not permit the write.
Refused(c) ==
    /\ End(c, Request[c].op)
    /\ UNCHANGED <<workspace, membership, announced>>

\* The repository's transactions, each with its event.  The primary key refuses a
\* second workspace; a membership asks for the workspace, not for its status.
InsertWorkspace(owner) ==
    /\ workspace = "absent" /\ workspace' = "active"
    /\ membership' = [membership EXCEPT ![owner] =
                        [role |-> "owner", status |-> "ACTIVE", clearance |-> 3]]

CloseWorkspace ==
    /\ workspace = "active" /\ workspace' = "archived"
    /\ UNCHANGED membership

UpsertMembership(member, grant) ==
    /\ workspace # "absent"
    /\ membership' = [membership EXCEPT ![member] = grant]
    /\ UNCHANGED workspace

AnnounceChange(c) == announced' = announced \cup {c}

CreateWorkspace(c) == End(c, "create") /\ InsertWorkspace(Request[c].member) /\ AnnounceChange(c)
ArchiveWorkspace(c) == End(c, "archive") /\ CloseWorkspace /\ AnnounceChange(c)
ChangeMembership(c) ==
    End(c, "change") /\ UpsertMembership(Request[c].member, Request[c].grant) /\ AnnounceChange(c)

\* The commands that change no membership but that of a workspace's first owner.
WorkspaceCommand(c) == CreateWorkspace(c) \/ ArchiveWorkspace(c) \/ Refused(c)

TenancyNext == \E c \in Commands : WorkspaceCommand(c) \/ ChangeMembership(c)
=============================================================================
