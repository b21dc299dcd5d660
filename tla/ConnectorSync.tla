----------------------------- MODULE ConnectorSync -----------------------------
(* The connection of the source to its remote system: workers take a lease,  *)
(* list the remote from the cursor and commit page after page.  A trigger on *)
(* the source's row takes the lease away when the source stops being active: *)
(* it runs inside the UPDATE, in a transaction that commits later.           *)
EXTENDS SourceRegistry

CONSTANTS
    Workers,            \* executions of a synchronisation
    LastPage,           \* the pages of the remote system are 0..LastPage
    MaxFence            \* bound: no lease is taken after this one

ASSUME SyncAssumption == LastPage \in Nat /\ MaxFence \in Nat

VARIABLES
    connection,         \* the row of source_connection
    syncEvents,         \* connector_sync_outbox, as committed
    worker,             \* the lease each worker believes it has, and the page it commits next
    asking,             \* the workers whose UPDATE of acquire has seen an active source
    stopping,           \* whether the trigger, uncommitted, has paused and locked the connection
    late                \* history, read by no action: whether the last lease was taken of a
                        \* source that was stopped already or that an open transaction stops

syncVars == <<connection, syncEvents, worker, asking, stopping, late>>
vars == <<tenancyVars, sourceVars, syncVars>>

States == {"absent", "PENDING", "READY", "SYNCING", "BACKOFF", "PAUSED", "REVOKED", "DEAD_LETTER"}
Nobody == "nobody"
NotRunning == [fence |-> 0, cursorVersion |-> 0, page |-> 0]

\* A cursor is the page to list next; NULL lists from the start and is page 0.
SyncTypeOK ==
    /\ connection \in [state : States, cursor : 0..LastPage, cursorVersion : Nat, fence : 0..MaxFence,
                       leaseOwner : Workers \cup {Nobody}, expired : BOOLEAN]
    /\ syncEvents \in Seq([type : {"started", "page_completed", "completed"}, execution : Workers,
                           cursor : 0..LastPage])
    /\ worker \in [Workers -> [fence : 0..MaxFence, cursorVersion : Nat, page : 0..LastPage]]
    /\ asking \subseteq Workers /\ stopping \in BOOLEAN /\ late \in BOOLEAN

Init ==
    /\ TenancyInit /\ SourceInit
    /\ connection = [state |-> "absent", cursor |-> 0, cursorVersion |-> 0, fence |-> 0,
                     leaseOwner |-> Nobody, expired |-> FALSE]
    /\ syncEvents = <<>>
    /\ worker = [w \in Workers |-> NotRunning]
    /\ asking = {} /\ stopping = FALSE /\ late = FALSE

\* Mutant: the lease's columns are left.
KeepsLease(state) == [connection EXCEPT !.state = state]

ToState(state) == [connection EXCEPT !.state = state, !.leaseOwner = Nobody, !.expired = FALSE]

\* An UPDATE of the row by another transaction than the trigger's waits for it.
Leaves(from, state) == ~stopping /\ connection.state \in from /\ connection' = ToState(state)
-----------------------------------------------------------------------------
(* The trigger on source_registry                                            *)

\* Mutant: a connection at work is left to finish.
PausableAtRest == {"PENDING", "READY", "BACKOFF", "DEAD_LETTER"}

Pausable == {"PENDING", "READY", "SYNCING", "BACKOFF", "DEAD_LETTER"}

\* Whether an open transaction has changed the status to another than ACTIVE.
SourceStops == \E status \in Written : status \notin {source.status, "ACTIVE"}

\* pause_source_connection_when_ineligible, in the UPDATE of the source's row: a
\* connection that it finds paused, or does not find, it leaves and does not lock.
\* The source's COMMIT makes the pause visible, its ROLLBACK forgets it.
Trigger ==
    /\ stopping' = IF Written' = {} THEN FALSE
                   ELSE IF Written = {} THEN SourceStops' /\ connection.state \in Pausable
                   ELSE stopping
    /\ connection' = IF stopping /\ source' # source THEN ToState("PAUSED") ELSE connection
-----------------------------------------------------------------------------
(* The administrators' services, of which the repository has the interfaces  *)

Connect == source # Absent /\ Leaves({"absent"}, "PENDING")
Validate == Leaves({"PENDING"}, "READY")
Resume == Leaves({"PAUSED"}, "READY")
RevokeCredential == Leaves(States \ {"absent", "REVOKED"}, "REVOKED")

\* pauseConnection.
PauseConnection == Leaves(States \ {"absent", "REVOKED"}, "PAUSED")

\* failSync: whoever reports, while anyone synchronises.
FailSync == \E state \in {"BACKOFF", "DEAD_LETTER"} : Leaves({"SYNCING"}, state)

LeaseExpires ==
    /\ connection.state = "SYNCING" /\ ~connection.expired
    /\ connection' = [connection EXCEPT !.expired = TRUE]

Administer ==
    /\ Connect \/ Validate \/ Resume \/ RevokeCredential \/ PauseConnection \/ FailSync \/ LeaseExpires
    /\ UNCHANGED <<syncEvents, worker, asking, late>>
-----------------------------------------------------------------------------
(* The workers                                                               *)

Announce(w, type, cursor) ==
    syncEvents' = Append(syncEvents, [type |-> type, execution |-> w, cursor |-> cursor])

\* Mutant: UPDATE without the EXISTS on the source.
AcquirableInAnySource == connection.state \in {"READY", "BACKOFF"}

\* No state but SYNCING has a lease: an expired one is never free again.
Acquirable ==
    /\ connection.state \in {"READY", "BACKOFF"}
    /\ source.status = "ACTIVE"

\* The statement begins: it sees the source as committed by now.
Ask(w) ==
    /\ worker[w] = NotRunning /\ w \notin asking
    /\ Acquirable
    /\ asking' = asking \cup {w}
    /\ UNCHANGED <<connection, syncEvents, worker, late>>

\* It gets the connection's row, waiting for the trigger's transaction, and looks at
\* that row once more, not at the source's.
\* COMMIT's answer may be lost, and then nobody works on the lease.
Acquire(w) ==
    /\ w \in asking /\ connection.fence < MaxFence /\ ~stopping
    /\ connection.state \in {"READY", "BACKOFF"}
    /\ connection' = [connection EXCEPT !.state = "SYNCING", !.leaseOwner = w, !.fence = @ + 1]
    /\ Announce(w, "started", 0)
    /\ worker' \in {worker, [worker EXCEPT ![w] =
                                [fence |-> connection'.fence, cursorVersion |-> connection.cursorVersion,
                                 page |-> connection.cursor]]}
    /\ asking' = asking \ {w}
    /\ late' = (source.status # "ACTIVE" \/ SourceStops)

\* Mutant: the cursor's version without the lease.
HoldsAnyLease(w) == TRUE

HoldsLease(w) ==
    /\ connection.leaseOwner = w /\ connection.fence = worker[w].fence
    /\ ~connection.expired

\* Mutant: UPDATE without "cursor_version = $11".
AnyCursor(w) == TRUE

CursorIsCurrent(w) == connection.cursorVersion = worker[w].cursorVersion

HasMore(page) == page < LastPage
NextCursor(page) == IF HasMore(page) THEN page + 1 ELSE 0

AfterPage(run) ==
    IF HasMore(run.page)
      THEN [fence |-> run.fence, cursorVersion |-> run.cursorVersion + 1, page |-> NextCursor(run.page)]
      ELSE NotRunning

\* The page's items are inserted once, by their keys, or all of it is rolled back.
\* A lost answer leaves the worker at the page it has committed.
CommitPage(w) ==
    LET page == worker[w].page IN
    /\ worker[w] # NotRunning /\ ~stopping
    /\ connection.state = "SYNCING" /\ HoldsLease(w) /\ CursorIsCurrent(w)
    /\ connection' = [(IF HasMore(page) THEN connection ELSE ToState("READY")) EXCEPT
                         !.cursor = NextCursor(page), !.cursorVersion = @ + 1]
    /\ Announce(w, IF HasMore(page) THEN "page_completed" ELSE "completed", NextCursor(page))
    /\ worker' \in {worker, [worker EXCEPT ![w] = AfterPage(@)]}
    /\ UNCHANGED <<asking, late>>

\* CONNECTOR_LEASE_DENIED, CONNECTOR_FENCE_STALE, or a process that dies.
Stop(w) ==
    /\ worker[w] # NotRunning \/ w \in asking
    /\ worker' = [worker EXCEPT ![w] = NotRunning]
    /\ asking' = asking \ {w}
    /\ UNCHANGED <<connection, syncEvents, late>>

Work(w) == Ask(w) \/ Acquire(w) \/ CommitPage(w) \/ Stop(w)

Next ==
    \/ SourceNext /\ Trigger /\ UNCHANGED <<syncEvents, worker, asking, late>>
    \/ (Administer \/ \E w \in Workers : Work(w)) /\ UNCHANGED <<tenancyVars, sourceVars, stopping>>

Spec == Init /\ [][Next]_vars
-----------------------------------------------------------------------------
(* Properties                                                                *)

\* Every row keeps its columns' types, and its CHECK that only a synchronising
\* connection has a lease.
GovernanceTypeOK ==
    /\ TenancyTypeOK /\ SourceTypeOK /\ SyncTypeOK
    /\ connection.leaseOwner # Nobody => connection.state = "SYNCING"

\* A lease on a source that is not active was taken of one that was stopped already, or
\* by a transaction still open: the trigger ends every other in the stop's transaction.
LeaseNeedsActiveSource ==
    connection.state = "SYNCING" /\ source.status # "ACTIVE" => late

\* The pages committed, by their places in the outbox.
PageEvents == {i \in 1..Len(syncEvents) : syncEvents[i].type # "started"}
Adjacent(i, j) == i < j /\ \A k \in PageEvents : k <= i \/ j <= k

\* The committed pages follow one another: none is skipped and none committed twice
\* in a pass, though workers stop, lose answers and lose their leases to others.  After
\* the last page the cursor is NULL and the next pass lists from the start.
PagesFollowOneAnother ==
    /\ \A j \in PageEvents :
           (\A i \in PageEvents : j <= i) => syncEvents[j].cursor = NextCursor(0)
    /\ \A i, j \in PageEvents :
           Adjacent(i, j) => syncEvents[j].cursor = NextCursor(syncEvents[i].cursor)

\* A page is committed by the execution that started last.
PagesAreOfLastStart ==
    \A i \in 2..Len(syncEvents) :
        syncEvents[i].type # "started" => syncEvents[i].execution = syncEvents[i - 1].execution
=============================================================================
