----------------------------- MODULE IntakeProofs -----------------------------
(* An original in its two stores and its ingestion, for any number of        *)
(* admissions and attempts, whichever of them fails, dies or is late.        *)
EXTENDS Ingestion, SequenceTheorems, TLAPS

\* What a call about to save has put is there, and the scanner let it through.
SavesInv ==
    \A a \in Admissions :
        /\ admission[a] = "save originals" =>
               blobs["originals"] = a /\ Offered[a] \notin Infected
        /\ admission[a] = "save quarantine" => blobs["quarantine"] = a

\* The row names a call that has ended; the outbox has the row once.
RecordInv ==
    /\ objectEvents = IF record = NoRecord THEN <<>> ELSE <<record>>
    /\ deletion # "none" => record # NoRecord
    /\ record # NoRecord =>
           /\ admission[record.version] \in {"returned", "raised"}
           /\ record.state = "AVAILABLE" =>
                  record.bucket = "originals" /\ Offered[record.version] \notin Infected
    /\ RecordHasItsBytes
    /\ ReturnedIsRecorded

ObjectInv == ObjectTypeOK /\ SavesInv /\ RecordInv

Working == {"begin", "read", "parse", "succeed"}

\* An attempt works on an available original and, once it began, on a row whose token
\* is not below its own; before it succeeds its artifact is stored.
AttemptsInv ==
    \A t \in Attempts :
        /\ attempt[t] \in Working => record # NoRecord /\ record.state = "AVAILABLE"
        /\ attempt[t] \in Working \ {"begin"} => job # NoJob /\ Fence[t] <= job.fence
        /\ attempt[t] = "succeed" => Normal[Original] \in artifacts

\* The row is of the admitted original and, succeeded, has its stored artifact and
\* the event of the attempt whose token it carries.
JobInv ==
    job # NoJob =>
        /\ record # NoRecord /\ record.state = "AVAILABLE" /\ job.original = Original
        /\ job.state = "running" => job.artifact = {}
        /\ job.state = "succeeded" =>
               /\ job.artifact = {Normal[Original]}
               /\ job.artifact \subseteq artifacts
               /\ SuccessIsAnnounced

IngestionTypeOK ==
    /\ job \in Job \cup {NoJob}
    /\ artifacts \subseteq Artifacts
    /\ events \in Seq(Event)
    /\ attempt \in [Attempts -> AttemptSteps]

IntakeInv == ObjectInv /\ IngestionTypeOK /\ AttemptsInv /\ JobInv

LEMMA IntakeInvInit == IntakeInit => IntakeInv
    BY ContentAssumption, RecordAssumption, JobAssumption
    DEF IntakeInit, ObjectInit, IntakeInv, ObjectInv, ObjectTypeOK, SavesInv, RecordInv,
        RecordHasItsBytes, ReturnedIsRecorded, IngestionTypeOK, AttemptsInv, JobInv, Buckets,
        AdmissionSteps, AttemptSteps, Working
-----------------------------------------------------------------------------
(* The two stores                                                            *)

\* The outbox after its first row.
LEMMA FirstEvent ==
    ASSUME NEW S, NEW x \in S
    PROVE  Append(<<>>, x) = <<x>> /\ <<x>> \in Seq(S)
<1>1. <<>> \in Seq(S) /\ Len(<<>>) = 0
    BY EmptySeq
<1>2. Append(<<>>, x) \in Seq(S) /\ Len(Append(<<>>, x)) = 1 /\ Append(<<>>, x)[1] = x
    BY <1>1, AppendProperties
<1>3. <<x>> = [i \in 1..1 |-> x]
    OBVIOUS
<1>4. Append(<<>>, x) = [i \in 1..1 |-> Append(<<>>, x)[i]]
    BY <1>2, LenProperties
<1>5. Append(<<>>, x) = <<x>>
    BY <1>2, <1>3, <1>4
<1> QED BY <1>2, <1>5

LEMMA SavedRecord ==
    ASSUME NEW a \in Admissions
    PROVE  /\ Saved(a) \in Record /\ Saved(a) # NoRecord /\ Saved(a).version = a
           /\ admission[a] = "save originals" => Saved(a).bucket = "originals"
           /\ admission[a] = "save quarantine" =>
                  Saved(a).bucket = "quarantine" /\ Saved(a).state = "QUARANTINED"
<1> DEFINE new == Saved(a)
<1>1. CASE admission[a] = "save originals"
    <2>1. new = [version |-> a, bucket |-> "originals", state |-> "AVAILABLE"]
        BY <1>1 DEF Saved
    <2>2. new \in Record
        BY <2>1 DEF Record, Buckets
    <2>3. new.version = a /\ new.bucket = "originals"
        BY <2>1
    <2> HIDE DEF new
    <2>4. new # NoRecord
        BY <2>2, RecordAssumption
    <2> QED BY <1>1, <2>2, <2>3, <2>4 DEF new
<1>2. CASE admission[a] # "save originals"
    <2>1. new = [version |-> a, bucket |-> "quarantine", state |-> "QUARANTINED"]
        BY <1>2 DEF Saved
    <2>2. new \in Record
        BY <2>1 DEF Record, Buckets
    <2>3. new.version = a /\ new.bucket = "quarantine" /\ new.state = "QUARANTINED"
        BY <2>1
    <2> HIDE DEF new
    <2>4. new # NoRecord
        BY <2>2, RecordAssumption
    <2> QED BY <1>2, <2>2, <2>3, <2>4 DEF new
<1> QED BY <1>1, <1>2

LEMMA SaveStep ==
    ASSUME ObjectInv, NEW a \in Admissions, AdmitSave(a)
    PROVE  ObjectInv'
<1> USE DEF ObjectInv, ObjectTypeOK, AdmitSave, To
<1>1. CASE record = NoRecord
    <2> DEFINE new == Saved(a)
    <2>1. new \in Record /\ new # NoRecord /\ new.version = a
        BY SavedRecord
    <2>2. /\ blobs[new.bucket] = a
          /\ new.state = "AVAILABLE" => new.bucket = "originals" /\ Offered[a] \notin Infected
        BY SavedRecord DEF SavesInv
    <2>3. record' = new /\ objectEvents' = Append(objectEvents, new)
        BY <1>1
    <2> HIDE DEF new
    <2>4. objectEvents' = <<new>>
        <3>1. objectEvents = <<>>
            BY <1>1 DEF RecordInv
        <3> QED BY <2>1, <2>3, <3>1, FirstEvent
    <2>5. ObjectTypeOK'
        <3>1. objectEvents' \in Seq(Record)
            BY <2>1, <2>4, FirstEvent
        <3>2. record' \in Record
            BY <2>1, <2>3
        <3>3. UNCHANGED <<blobs, deletion>> /\ admission' \in [Admissions -> AdmissionSteps]
            BY <1>1 DEF AdmissionSteps
        <3> QED BY <3>1, <3>2, <3>3
    <2>6. SavesInv'
        BY <1>1 DEF SavesInv, AdmissionSteps
    <2>7. \A b \in Admissions \ {a} : admission'[b] = admission[b] /\ admission[b] # "returned"
        BY <1>1 DEF RecordInv, ReturnedIsRecorded
    <2>8. RecordInv'
        BY <1>1, <2>1, <2>2, <2>3, <2>4, <2>7
           DEF RecordInv, RecordHasItsBytes, VersionExists, ReturnedIsRecorded
    <2> QED BY <2>5, <2>6, <2>8
<1>2. CASE record # NoRecord
    <2>1. To(a, "raised") /\ UNCHANGED <<blobs, record, objectEvents, deletion>>
        BY <1>2
    <2>2. ObjectTypeOK'
        BY <2>1 DEF AdmissionSteps
    <2>3. SavesInv'
        BY <2>1 DEF SavesInv
    <2>4. RecordInv'
        BY <2>1, <1>2 DEF RecordInv, RecordHasItsBytes, VersionExists, ReturnedIsRecorded, Record
    <2> QED BY <2>2, <2>3, <2>4
<1> QED BY <1>1, <1>2

LEMMA ObjectInvStep ==
    ASSUME ObjectInv, ObjectNext
    PROVE  ObjectInv'
<1> USE ContentAssumption DEF ObjectInv, ObjectTypeOK, To
<1>1. ASSUME NEW a \in Admissions, AdmitFind(a) PROVE ObjectInv'
    BY <1>1 DEF AdmitFind, SameChecksum, SavesInv, RecordInv, RecordHasItsBytes, VersionExists,
                ReturnedIsRecorded, AdmissionSteps, Record
<1>2. ASSUME NEW a \in Admissions, AdmitPut(a) PROVE ObjectInv'
    <2>1. PICK bucket \in ScannedInto(Offered[a]) :
              IF PutAllowed(bucket)
                THEN /\ blobs' = [blobs EXCEPT ![bucket] = a]
                     /\ To(a, IF bucket = "originals" THEN "save originals" ELSE "save quarantine")
                ELSE To(a, "raised") /\ UNCHANGED blobs
        BY <1>2 DEF AdmitPut
    <2>2. bucket \in Buckets /\ (Offered[a] \in Infected => bucket = "quarantine")
        BY <2>1 DEF ScannedInto, Buckets
    <2>3. ObjectTypeOK'
        BY <1>2, <2>1, <2>2 DEF AdmitPut, AdmissionSteps
    <2>4. admission[a] = "put" /\ UNCHANGED <<record, objectEvents, deletion>>
        BY <1>2 DEF AdmitPut
    <2>5. CASE ~PutAllowed(bucket)
        <3>1. To(a, "raised") /\ UNCHANGED blobs
            BY <2>1, <2>5
        <3>2. SavesInv'
            BY <3>1 DEF SavesInv
        <3>3. RecordInv'
            BY <2>4, <3>1 DEF RecordInv, RecordHasItsBytes, VersionExists, ReturnedIsRecorded, Record
        <3> QED BY <2>3, <3>2, <3>3
    <2>6. CASE PutAllowed(bucket)
        <3>1. /\ blobs' = [blobs EXCEPT ![bucket] = a] /\ blobs[bucket] = NoVersion
              /\ To(a, IF bucket = "originals" THEN "save originals" ELSE "save quarantine")
            BY <2>1, <2>6 DEF PutAllowed
        <3>2. SavesInv'
            BY <2>2, <3>1 DEF SavesInv, Buckets
        <3>3. RecordInv'
            BY <2>2, <2>4, <3>1
               DEF RecordInv, RecordHasItsBytes, VersionExists, ReturnedIsRecorded, Buckets, Record
        <3> QED BY <2>3, <3>2, <3>3
    <2> QED BY <2>5, <2>6
<1>3. ASSUME NEW a \in Admissions, AdmitFails(a) PROVE ObjectInv'
    BY <1>3 DEF AdmitFails, SavesInv, RecordInv, RecordHasItsBytes, VersionExists,
                ReturnedIsRecorded, AdmissionSteps, Record
<1>4. CASE RequestDeletion
    BY <1>4 DEF RequestDeletion, SavesInv, RecordInv, RecordHasItsBytes, VersionExists,
                ReturnedIsRecorded
<1>5. CASE CompleteDeletion
    <2>1. SavesInv'
        BY <1>5 DEF CompleteDeletion, SavesInv, RecordInv, VersionExists, Record, Buckets
    <2>2. RecordInv'
        BY <1>5 DEF CompleteDeletion, RecordInv, RecordHasItsBytes, VersionExists,
                    ReturnedIsRecorded, Record, Buckets
    <2>3. ObjectTypeOK'
        BY <1>5 DEF CompleteDeletion, VersionExists
    <2> QED BY <2>1, <2>2, <2>3
<1> QED BY <1>1, <1>2, <1>3, <1>4, <1>5, SaveStep DEF ObjectNext, Admit

\* A row, once there, is not written again.
LEMMA RecordStays ==
    ASSUME ObjectNext, record # NoRecord
    PROVE  record' = record
    BY DEF ObjectNext, Admit, AdmitFind, AdmitPut, AdmitSave, AdmitFails, RequestDeletion,
           CompleteDeletion
LEMMA ObjectStep ==
    ASSUME IntakeInv, ObjectNext, UNCHANGED ingestionVars
    PROVE  IntakeInv'
<1> USE DEF IntakeInv, ingestionVars
<1>1. ObjectInv' /\ IngestionTypeOK'
    BY ObjectInvStep DEF IngestionTypeOK
<1>2. record # NoRecord => record' = record /\ Original' = Original
    BY RecordStays DEF Original
<1>3. AttemptsInv'
    BY <1>2 DEF AttemptsInv, Working
<1>4. JobInv'
    BY <1>2 DEF JobInv, SuccessIsAnnounced
<1> QED BY <1>1, <1>3, <1>4
-----------------------------------------------------------------------------
(* The attempts                                                              *)

LEMMA SameObjects ==
    ASSUME ObjectInv, UNCHANGED objectVars
    PROVE  /\ ObjectInv' /\ Original' = Original
           /\ UNCHANGED <<blobs, record, objectEvents, admission, deletion>>
    BY DEF ObjectInv, objectVars, ObjectTypeOK, SavesInv, RecordInv, RecordHasItsBytes,
           ReturnedIsRecorded, VersionExists, Original

\* The row, and the row a takeover would leave.
LEMMA JobFields ==
    ASSUME job \in Job, NEW fence \in Nat
    PROVE  /\ job.fence \in Nat /\ job.state \in {"running", "succeeded"}
           /\ [job EXCEPT !.fence = fence, !.state = "running"] =
                  [id |-> job.id, fence |-> fence, original |-> job.original,
                   state |-> "running", artifact |-> job.artifact]
           /\ [id |-> job.id, fence |-> fence, original |-> job.original,
               state |-> "running", artifact |-> job.artifact] \in Job
<1> DEFINE fenced == [job EXCEPT !.fence = fence]
<1>1. /\ job = [id |-> job.id, fence |-> job.fence, original |-> job.original,
                state |-> job.state, artifact |-> job.artifact]
      /\ job.id \in JobIds /\ job.fence \in Nat /\ job.original \in Contents
      /\ job.state \in {"running", "succeeded"} /\ job.artifact \in SUBSET Artifacts
    BY DEF Job
<1>2. fenced = [id |-> job.id, fence |-> fence, original |-> job.original,
                state |-> job.state, artifact |-> job.artifact]
    BY <1>1
<1> HIDE DEF fenced
<1>3. [fenced EXCEPT !.state = "running"] =
          [id |-> job.id, fence |-> fence, original |-> job.original,
           state |-> "running", artifact |-> job.artifact]
    BY <1>2
<1>4. [job EXCEPT !.fence = fence, !.state = "running"] = [fenced EXCEPT !.state = "running"]
    BY DEF fenced
<1>5. [id |-> job.id, fence |-> fence, original |-> job.original,
       state |-> "running", artifact |-> job.artifact] \in Job
    BY <1>1 DEF Job
<1> QED BY <1>1, <1>3, <1>4, <1>5, Zenon

LEMMA AnnouncementFields ==
    ASSUME NEW t \in Attempts, record \in Record, Normal[Original] # Unparsable
    PROVE  /\ Announcement(t) \in Event
           /\ Announcement(t).by = t /\ Announcement(t).artifact = Normal[Original]
           /\ Normal[Original] \in Artifacts
<1>1. Original \in Contents
    BY ContentAssumption DEF Original, Record
<1>2. Normal[Original] \in Artifacts
    BY <1>1 DEF Artifacts
<1> QED BY <1>1, <1>2 DEF Announcement, Event

\* The steps that leave the row and the outbox alone.
LEMMA QuietStep ==
    ASSUME IntakeInv, NEW t \in Attempts, UNCHANGED objectVars,
           \/ Find(t) \/ Read(t) \/ ParseAndPut(t)
           \/ ParserOverruns(t) \/ ParserReturns(t) \/ AttemptFails(t)
    PROVE  IntakeInv'
<1> USE DEF IntakeInv, Step, IngestionTypeOK
<1>1. ObjectInv' /\ Original' = Original /\ record' = record
    BY SameObjects
<1>2. UNCHANGED <<job, events>> /\ artifacts \subseteq artifacts'
    BY DEF Find, Read, ParseAndPut, ParserOverruns, ParserReturns, AttemptFails
<1>3. JobInv'
    BY <1>1, <1>2 DEF JobInv, SuccessIsAnnounced
<1>4. CASE Find(t)
    <2>1. IngestionTypeOK'
        BY <1>4 DEF Find, AttemptSteps
    <2>2. AttemptsInv'
        BY <1>1, <1>4 DEF Find, AttemptsInv, Working
    <2> QED BY <1>1, <1>3, <2>1, <2>2
<1>5. CASE Read(t)
    <2>1. IngestionTypeOK'
        BY <1>5 DEF Read, AttemptSteps
    <2>2. AttemptsInv'
        BY <1>1, <1>5 DEF Read, AttemptsInv, Working
    <2> QED BY <1>1, <1>3, <2>1, <2>2
<1>6. CASE ParseAndPut(t)
    <2>1. Normal[Original] # Unparsable => Normal[Original] \in Artifacts
        BY <1>6, AnnouncementFields
           DEF ParseAndPut, AttemptsInv, Working, ObjectInv, ObjectTypeOK
    <2>2. IngestionTypeOK'
        BY <1>6, <2>1 DEF ParseAndPut, AttemptSteps
    <2>3. AttemptsInv'
        BY <1>1, <1>6 DEF ParseAndPut, AttemptsInv, Working
    <2> QED BY <1>1, <1>3, <2>2, <2>3
<1>7. CASE ParserOverruns(t) \/ ParserReturns(t) \/ AttemptFails(t)
    <2>1. IngestionTypeOK'
        BY <1>7 DEF ParserOverruns, ParserReturns, AttemptFails, AttemptSteps
    <2>2. AttemptsInv'
        BY <1>1, <1>7 DEF ParserOverruns, ParserReturns, AttemptFails, AttemptsInv, Working
    <2> QED BY <1>1, <1>3, <2>1, <2>2
<1> QED BY <1>4, <1>5, <1>6, <1>7

\* The upsert of begin: a row of its own, a takeover, or a row left alone.
LEMMA BeginStep ==
    ASSUME IntakeInv, NEW t \in Attempts, UNCHANGED objectVars, Begin(t)
    PROVE  IntakeInv' /\ (job # NoJob /\ job.state = "succeeded" => job' = job)
<1> USE AttemptAssumption DEF IntakeInv, Step
<1>1. ObjectInv' /\ Original' = Original /\ record' = record
    BY SameObjects
<1>2. /\ attempt[t] = "begin" /\ UNCHANGED <<artifacts, events>>
      /\ record # NoRecord /\ record.state = "AVAILABLE" /\ record \in Record
    BY DEF Begin, AttemptsInv, Working, ObjectInv, ObjectTypeOK
<1>3. CASE job = NoJob
    <2> DEFINE new == [id |-> JobId[t], fence |-> Fence[t], original |-> Original,
                       state |-> "running", artifact |-> {}]
    <2>1. job' = new /\ Step(t, "read")
        BY <1>3 DEF Begin
    <2>2. new \in Job
        BY <1>2, ContentAssumption DEF Job, JobIds, Original, Record
    <2>3. new.fence = Fence[t] /\ new.state = "running" /\ new.artifact = {}
          /\ new.original = Original
        OBVIOUS
    <2> HIDE DEF new
    <2>4. IngestionTypeOK'
        BY <1>2, <2>1, <2>2 DEF IngestionTypeOK, AttemptSteps
    <2>5. JobInv'
        BY <1>1, <1>2, <2>1, <2>3 DEF JobInv
    <2>6. new # NoJob
        BY <2>2, JobAssumption
    <2>7. AttemptsInv'
        BY <1>1, <1>2, <1>3, <2>1, <2>3, <2>6 DEF AttemptsInv, Working, IngestionTypeOK
    <2> QED BY <1>1, <1>3, <2>4, <2>5, <2>7
<1>4. CASE job # NoJob /\ UNCHANGED job /\ (Step(t, "ended") \/ (Step(t, "read") /\ ~Supersedes(t)))
    <2>1. IngestionTypeOK'
        BY <1>2, <1>4 DEF IngestionTypeOK, AttemptSteps
    <2>2. JobInv'
        BY <1>1, <1>2, <1>4 DEF JobInv, SuccessIsAnnounced
    <2>3. job.fence \in Nat
        BY <1>4, JobFields DEF IngestionTypeOK
    <2>4. ~Supersedes(t) => Fence[t] <= job.fence
        BY <2>3 DEF Supersedes
    <2>5. AttemptsInv'
        BY <1>1, <1>2, <1>4, <2>4 DEF AttemptsInv, Working, IngestionTypeOK
    <2> QED BY <1>1, <1>4, <2>1, <2>2, <2>5
<1>5. CASE job # NoJob /\ Supersedes(t) /\ Step(t, "read")
           /\ job' = [job EXCEPT !.fence = Fence[t], !.state = "running"] /\ RowCheck(job')
    <2> DEFINE new == [id |-> job.id, fence |-> Fence[t], original |-> job.original,
                       state |-> "running", artifact |-> job.artifact]
    <2>1. job \in Job /\ job.fence \in Nat /\ job' = new /\ new \in Job
        BY <1>5, JobFields DEF IngestionTypeOK
    <2>2. new.fence = Fence[t] /\ new.state = "running" /\ new.artifact = job.artifact
          /\ new.original = job.original
        OBVIOUS
    <2> HIDE DEF new
    <2>3. job.artifact = {} /\ job.state = "running"
        BY <1>5, <2>1, <2>2, JobFields DEF RowCheck, JobInv
    <2>4. IngestionTypeOK'
        BY <1>2, <1>5, <2>1 DEF IngestionTypeOK, AttemptSteps
    <2>5. JobInv'
        BY <1>1, <1>2, <1>5, <2>1, <2>2, <2>3 DEF JobInv
    <2>6. new # NoJob
        BY <2>1, JobAssumption
    <2>7. job.fence < Fence[t]
        BY <1>5 DEF Supersedes
    <2>8. AttemptsInv'
        BY <1>1, <1>2, <1>5, <2>1, <2>2, <2>6, <2>7 DEF AttemptsInv, Working, IngestionTypeOK
    <2> QED BY <1>1, <2>3, <2>4, <2>5, <2>8
<1>6. CASE job # NoJob
    <2> DEFINE reopened == [job EXCEPT !.fence = Fence[t], !.state = "running"]
    <2>1. IF ~Supersedes(t) THEN UNCHANGED job /\ Step(t, "read")
          ELSE IF RowCheck(reopened) THEN job' = reopened /\ Step(t, "read")
          ELSE UNCHANGED job /\ Step(t, "ended")
        BY <1>6, Zenon DEF Begin
    <2> HIDE DEF reopened
    <2>2. \/ UNCHANGED job /\ (Step(t, "ended") \/ (Step(t, "read") /\ ~Supersedes(t)))
          \/ Supersedes(t) /\ Step(t, "read") /\ job' = reopened /\ RowCheck(job')
        BY <2>1
    <2> QED BY <1>4, <1>5, <1>6, <2>2 DEF reopened
<1> QED BY <1>3, <1>6
\* The row the UPDATE of succeed writes.
LEMMA Succeeded ==
    ASSUME job \in Job, NEW artifact \in Artifacts
    PROVE  LET new == [job EXCEPT !.state = "succeeded", !.artifact = {artifact}]
           IN  /\ new \in Job /\ new.fence = job.fence /\ new.original = job.original
               /\ new.state = "succeeded" /\ new.artifact = {artifact}
<1> DEFINE done == [job EXCEPT !.state = "succeeded"]
           new == [done EXCEPT !.artifact = {artifact}]
<1>1. /\ job = [id |-> job.id, fence |-> job.fence, original |-> job.original,
                state |-> job.state, artifact |-> job.artifact]
      /\ job.id \in JobIds /\ job.fence \in Nat /\ job.original \in Contents
    BY DEF Job
<1>2. done = [id |-> job.id, fence |-> job.fence, original |-> job.original,
              state |-> "succeeded", artifact |-> job.artifact]
    BY <1>1
<1> HIDE DEF done
<1>3. new = [id |-> job.id, fence |-> job.fence, original |-> job.original,
             state |-> "succeeded", artifact |-> {artifact}]
    BY <1>2
<1>4. [job EXCEPT !.state = "succeeded", !.artifact = {artifact}] = new
    BY DEF done
<1> HIDE DEF new
<1>5. new \in Job
    BY <1>1, <1>3 DEF Job
<1>6. new.fence = job.fence /\ new.original = job.original
      /\ new.state = "succeeded" /\ new.artifact = {artifact}
    BY <1>3
<1> QED BY <1>4, <1>5, <1>6

\* The UPDATE of succeed, which may change nothing, and its event.
LEMMA SucceedStep ==
    ASSUME IntakeInv, NEW t \in Attempts, UNCHANGED objectVars, Succeed(t)
    PROVE  IntakeInv' /\ (job # NoJob /\ job.state = "succeeded" => job' = job)
<1> USE DEF IntakeInv, Step
<1>1. ObjectInv' /\ Original' = Original /\ record' = record
    BY SameObjects
<1>2. /\ attempt[t] = "succeed" /\ Step(t, "ended") /\ UNCHANGED artifacts
      /\ record # NoRecord /\ record.state = "AVAILABLE" /\ record \in Record
      /\ job # NoJob /\ job \in Job /\ Normal[Original] \in artifacts
    BY DEF Succeed, AttemptsInv, Working, ObjectInv, ObjectTypeOK, IngestionTypeOK
<1>3. Normal[Original] \in Artifacts /\ Normal[Original] # Unparsable
    BY <1>2 DEF IngestionTypeOK, Artifacts
<1>4. CASE UNCHANGED <<job, events>>
    <2>1. IngestionTypeOK'
        BY <1>2, <1>4 DEF IngestionTypeOK, AttemptSteps
    <2>2. AttemptsInv'
        BY <1>1, <1>2, <1>4 DEF AttemptsInv, Working, IngestionTypeOK
    <2>3. JobInv'
        BY <1>1, <1>2, <1>4 DEF JobInv, SuccessIsAnnounced
    <2> QED BY <1>1, <1>4, <2>1, <2>2, <2>3
<1>5. CASE job.id = JobId[t]
    <2> DEFINE event == Announcement(t)
               new == [job EXCEPT !.state = "succeeded", !.artifact = {Normal[Original]}]
    <2>1. job' = (IF ~Holds(t) THEN job ELSE new) /\ events' = Append(events, event)
        BY <1>5, Zenon DEF Succeed
    <2>2. event \in Event /\ event.by = t /\ event.artifact = Normal[Original]
        BY <1>2, <1>3, AnnouncementFields
    <2>3. new \in Job /\ new.fence = job.fence /\ new.original = job.original
          /\ new.state = "succeeded" /\ new.artifact = {Normal[Original]}
        BY <1>2, <1>3, Succeeded
    <2> HIDE DEF event, new
    <2>4. /\ events' \in Seq(Event) /\ Len(events) \in Nat /\ Len(events') = Len(events) + 1
          /\ \A i \in DOMAIN events : i \in DOMAIN events' /\ events'[i] = events[i]
          /\ Len(events') \in DOMAIN events' /\ events'[Len(events')] = event
        BY <2>1, <2>2, AppendProperties, LenProperties DEF IngestionTypeOK
    <2>5. job' \in Job /\ job'.fence = job.fence /\ job'.original = job.original
        BY <1>2, <2>1, <2>3
    <2>6. IngestionTypeOK'
        BY <1>2, <2>4, <2>5 DEF IngestionTypeOK, AttemptSteps
    <2>7. job' # NoJob
        BY <2>5, JobAssumption
    <2>8. AttemptsInv'
        BY <1>1, <1>2, <2>5, <2>7 DEF AttemptsInv, Working, IngestionTypeOK
    <2>9. CASE ~Holds(t)
        <3>1. job' = job
            BY <2>1, <2>9
        <3>2. SuccessIsAnnounced /\ job.state = "succeeded" => SuccessIsAnnounced'
            BY <1>2, <2>4, <3>1 DEF SuccessIsAnnounced
        <3>3. JobInv'
            BY <1>1, <1>2, <3>1, <3>2 DEF JobInv, SuccessIsAnnounced
        <3> QED BY <1>1, <2>6, <2>8, <3>1, <3>3
    <2>10. CASE Holds(t)
        <3>1. job' = new /\ job.fence = Fence[t] /\ job.state = "running"
            BY <2>1, <2>10 DEF Holds, HoldsUnfenced
        <3>2. SuccessIsAnnounced'
            BY <2>2, <2>3, <2>4, <3>1 DEF SuccessIsAnnounced
        <3>3. JobInv'
            BY <1>1, <1>2, <2>3, <3>1, <3>2 DEF JobInv
        <3> QED BY <1>1, <2>6, <2>8, <3>1, <3>3
    <2> QED BY <2>9, <2>10
<1> QED BY <1>4, <1>5 DEF Succeed
-----------------------------------------------------------------------------
LEMMA IntakeInvStep == IntakeInv /\ [IntakeNext]_intakeVars => IntakeInv'
<1> SUFFICES ASSUME IntakeInv, [IntakeNext]_intakeVars PROVE IntakeInv'
    OBVIOUS
<1>1. CASE UNCHANGED intakeVars
    <2>1. ObjectInv' /\ Original' = Original /\ record' = record
        BY <1>1, SameObjects DEF intakeVars, IntakeInv
    <2>2. UNCHANGED <<job, artifacts, events, attempt>>
        BY <1>1 DEF intakeVars, ingestionVars
    <2> QED BY <2>1, <2>2 DEF IntakeInv, IngestionTypeOK, AttemptsInv, JobInv, SuccessIsAnnounced
<1> QED BY <1>1, ObjectStep, QuietStep, BeginStep, SucceedStep DEF IntakeNext, Process

LEMMA IntakeInvariance == IntakeSpec => []IntakeInv
    BY IntakeInvInit, IntakeInvStep, PTL DEF IntakeSpec

\* The stores and the ingestion keep their types.
THEOREM IntakeTypeCorrect == IntakeSpec => []IntakeTypeOK
<1>1. IntakeInv => IntakeTypeOK
    BY DEF IntakeInv, ObjectInv, IngestionTypeOK, IntakeTypeOK
<1> QED BY <1>1, IntakeInvariance, PTL

\* Until its deletion begins, the record's version is in its bucket.
THEOREM RecordsHaveBytes == IntakeSpec => []RecordHasItsBytes
    BY IntakeInvariance, PTL DEF IntakeInv, ObjectInv, RecordInv

\* A call that returned was answered with a record of what it brought.
THEOREM ReturnsAreRecorded == IntakeSpec => []ReturnedIsRecorded
    BY IntakeInvariance, PTL DEF IntakeInv, ObjectInv, RecordInv

\* A succeeded row carries the stored normal form of a clean original.
THEOREM ResultsAreOfOriginals == IntakeSpec => []ResultIsOfOriginal
<1>1. IntakeInv => ResultIsOfOriginal
    BY DEF IntakeInv, ObjectInv, RecordInv, JobInv, Original, ResultIsOfOriginal
<1> QED BY <1>1, IntakeInvariance, PTL

\* The row's token is never below that of an attempt that began.
THEOREM AttemptsStayFenced == IntakeSpec => []AttemptsAreFenced
<1>1. IntakeInv => AttemptsAreFenced
    BY DEF IntakeInv, AttemptsInv, Working, AttemptsAreFenced
<1> QED BY <1>1, IntakeInvariance, PTL

\* A succeeded row has the event of the attempt that wrote it.
THEOREM SuccessesAreAnnounced == IntakeSpec => []SuccessIsAnnounced
<1>1. IntakeInv => SuccessIsAnnounced
    BY DEF IntakeInv, JobInv, SuccessIsAnnounced
<1> QED BY <1>1, IntakeInvariance, PTL

\* No attempt, however late, reopens or rewrites a succeeded row.
THEOREM SucceededForGood == IntakeSpec => SucceededIsFinal
<1>1. IntakeInv /\ [IntakeNext]_intakeVars =>
          [job # NoJob /\ job.state = "succeeded" => UNCHANGED job]_intakeVars
    BY BeginStep, SucceedStep
       DEF IntakeNext, Process, Find, Read, ParseAndPut, ParserOverruns, ParserReturns, AttemptFails,
           ingestionVars
<1> QED BY <1>1, IntakeInvariance, PTL DEF IntakeSpec, SucceededIsFinal
=============================================================================
