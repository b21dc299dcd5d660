------------------------------- MODULE Ingestion -------------------------------
(* process_ingestion over PostgresIngestionRepository for one logical key:   *)
(* the identity of ObjectAdmission, one parser profile and version.  Each    *)
(* attempt is one execution by a worker; a redelivery or takeover is another *)
(* attempt, with its own fencing token and perhaps its own job id.  What an   *)
(* attempt answers its caller is left out: the row and the outbox tell.      *)
EXTENDS ObjectAdmission

CONSTANTS
    Attempts,       \* executions of process_ingestion
    JobId,          \* job_id of each attempt
    Fence,          \* fencing_token of each attempt
    Normal,         \* what the parser makes of a content
    Unparsable,     \* INVALID_ENCODING, CORRUPT_CONTENT, PARSER_RESOURCE_LIMIT, ...
    NoJob           \* no row in knowledge_ingestion_job

ASSUME AttemptAssumption ==
    /\ Fence \in [Attempts -> Nat \ {0}]
    /\ DOMAIN JobId = Attempts
    /\ DOMAIN Normal = Contents

VARIABLES
    job,            \* the row of the logical key
    artifacts,      \* the normalized contents stored for it
    events,         \* the succeeded events of knowledge_ingestion_outbox
    attempt         \* what each attempt does next

ingestionVars == <<job, artifacts, events, attempt>>
intakeVars == <<objectVars, ingestionVars>>

JobIds == {JobId[t] : t \in Attempts}
Artifacts == {Normal[c] : c \in Contents} \ {Unparsable}
AttemptSteps == {"find", "begin", "read", "parse", "overrun", "succeed", "ended"}

\* artifact is a set of at most one element: empty while the column is NULL.
Job ==
    [id: JobIds, fence: Nat, original: Contents, state: {"running", "succeeded"},
     artifact: SUBSET Artifacts]

ASSUME JobAssumption == NoJob \notin Job

Event == [by: Attempts, original: Contents, artifact: Artifacts]

IntakeTypeOK ==
    /\ ObjectTypeOK
    /\ job \in Job \cup {NoJob}
    /\ artifacts \subseteq Artifacts
    /\ events \in Seq(Event)
    /\ attempt \in [Attempts -> AttemptSteps]

IntakeInit ==
    /\ ObjectInit
    /\ job = NoJob
    /\ artifacts = {}
    /\ events = <<>>
    /\ attempt = [t \in Attempts |-> "find"]

Step(t, next) == attempt' = [attempt EXCEPT ![t] = next]

Original == Offered[record.version]
-----------------------------------------------------------------------------
\* The record must be AVAILABLE in originals; a result repository.find returns ends
\* the attempt, as its answer or, were its checksum another, as a conflict.
Find(t) ==
    /\ attempt[t] = "find" /\ record # NoRecord
    /\ Step(t, IF record.state # "AVAILABLE" THEN "ended"
               ELSE IF job # NoJob /\ job.state = "succeeded" THEN "ended"
               ELSE "begin")
    /\ UNCHANGED <<job, artifacts, events>>

\* Mutant: ON CONFLICT DO UPDATE without its WHERE.
SupersedesAlways(t) == TRUE

Supersedes(t) == job.fence < Fence[t]

\* Mutant: the table lacks CHECK((state='succeeded')=(normalized_checksum IS NOT NULL ...)).
NoRowCheck(row) == TRUE

RowCheck(row) == (row.state = "succeeded") = (row.artifact # {})

\* INSERT ... ON CONFLICT(version, parser) DO UPDATE ... WHERE fencing_token < EXCLUDED's.
\* A row that is not superseded is left alone, and the attempt goes on all the same.
Begin(t) ==
    LET reopened == [job EXCEPT !.fence = Fence[t], !.state = "running"] IN
    /\ attempt[t] = "begin"
    /\ IF job = NoJob
         THEN /\ job' = [id |-> JobId[t], fence |-> Fence[t], original |-> Original,
                         state |-> "running", artifact |-> {}]
              /\ Step(t, "read")
       ELSE IF ~Supersedes(t) THEN UNCHANGED job /\ Step(t, "read")
       ELSE IF RowCheck(reopened) THEN job' = reopened /\ Step(t, "read")
       ELSE UNCHANGED job /\ Step(t, "ended")
    /\ UNCHANGED <<artifacts, events>>

\* Mutant: a version that is gone is waited for.
ReadWaits(t) ==
    /\ attempt[t] = "read" /\ VersionExists
    /\ Step(t, "parse")
    /\ UNCHANGED <<job, artifacts, events>>

\* read_version and the check of size and SHA-256.
Read(t) ==
    /\ attempt[t] = "read"
    /\ Step(t, IF VersionExists THEN "parse" ELSE "ended")
    /\ UNCHANGED <<job, artifacts, events>>

\* Mutant: the artifact is stored later, by somebody else.
ParseWithoutPut(t) ==
    /\ attempt[t] = "parse" /\ Normal[Original] # Unparsable
    /\ Step(t, "succeed")
    /\ UNCHANGED <<job, artifacts, events>>

\* The parser is deterministic; put_immutable of equal content under one key is a no-op.
ParseAndPut(t) ==
    /\ attempt[t] = "parse"
    /\ IF Normal[Original] = Unparsable
         THEN Step(t, "ended") /\ UNCHANGED artifacts
         ELSE Step(t, "succeed") /\ artifacts' = artifacts \cup {Normal[Original]}
    /\ UNCHANGED <<job, events>>

\* result(timeout) raises, and leaving the executor waits for the worker.
ParserOverruns(t) ==
    /\ attempt[t] = "parse"
    /\ Step(t, "overrun")
    /\ UNCHANGED <<job, artifacts, events>>

\* The worker ends in the end, and PARSER_TIMEOUT with it.
ParserReturns(t) ==
    /\ attempt[t] = "overrun"
    /\ Step(t, "ended")
    /\ UNCHANGED <<job, artifacts, events>>

Announcement(t) == [by |-> t, original |-> Original, artifact |-> Normal[Original]]

\* Mutant: the UPDATE does not compare the fencing token.
HoldsUnfenced(t) == job.id = JobId[t] /\ job.state = "running"

Holds(t) == HoldsUnfenced(t) /\ job.fence = Fence[t]

\* UPDATE of the row, whose rowcount is not read, and INSERT of the event, whose
\* job_id must exist, in one transaction.
Succeed(t) ==
    /\ attempt[t] = "succeed"
    /\ IF job.id = JobId[t]
         THEN /\ job' = IF ~Holds(t) THEN job
                        ELSE [job EXCEPT !.state = "succeeded",
                                         !.artifact = {Normal[Original]}]
              /\ events' = Append(events, Announcement(t))
         ELSE UNCHANGED <<job, events>>
    /\ Step(t, "ended")
    /\ UNCHANGED artifacts

\* A failed dependency or a dead process: the row is left as it is.
AttemptFails(t) ==
    /\ attempt[t] \notin {"find", "ended"}
    /\ Step(t, "ended")
    /\ UNCHANGED <<job, artifacts, events>>

Process(t) ==
    Find(t) \/ Begin(t) \/ Read(t) \/ ParseAndPut(t) \/ ParserOverruns(t) \/ Succeed(t)

IntakeNext ==
    \/ ObjectNext /\ UNCHANGED ingestionVars
    \/ \E t \in Attempts : (Process(t) \/ ParserReturns(t) \/ AttemptFails(t)) /\ UNCHANGED objectVars

IntakeSpec == IntakeInit /\ [][IntakeNext]_intakeVars

\* A worker that lives goes on: the parser's result or its timeout comes.  Nothing is
\* assumed of admissions or deletions, nor that a parser past its timeout returns.
IntakeFairSpec ==
    IntakeSpec /\ \A t \in Attempts : WF_intakeVars(Process(t) /\ UNCHANGED objectVars)
-----------------------------------------------------------------------------
(* Properties                                                                *)

\* A succeeded row carries the normal form of the admitted original, stored before
\* the row named it, and of an original that was scanned clean.
ResultIsOfOriginal ==
    job # NoJob /\ job.state = "succeeded" =>
        /\ job.original = Original /\ job.original \notin Infected
        /\ job.artifact = {Normal[Original]}
        /\ job.artifact \subseteq artifacts

\* No takeover, redelivery or late worker reopens or rewrites a succeeded row.
SucceededIsFinal ==
    [][job # NoJob /\ job.state = "succeeded" => UNCHANGED job]_intakeVars

\* The row never falls behind an attempt that got through begin, so a worker that
\* was taken over cannot be the one whose success the row accepts.
AttemptsAreFenced ==
    \A t \in Attempts :
        attempt[t] \in {"read", "parse", "succeed"} => Fence[t] <= job.fence

\* Only the newest worker's success is written: the event of the attempt that holds
\* the row's token is in the outbox when the row says succeeded.
SuccessIsAnnounced ==
    job # NoJob /\ job.state = "succeeded" =>
        \E i \in DOMAIN events :
            Fence[events[i].by] = job.fence /\ events[i].artifact \in job.artifact

\* Every attempt that has begun ends, also when its original is deleted meanwhile, or
\* waits for a parser past its timeout: nothing in the code ends that wait.
AttemptsEnd ==
    \A t \in Attempts : attempt[t] = "begin" ~> attempt[t] \in {"ended", "overrun"}

\* Two workers never both publish the version.
PublishedOnce == Len(events) <= 1
=============================================================================
