---------------------------- MODULE ObjectAdmission ----------------------------
(* admit_object and the lifecycle functions over two stores without a common *)
(* transaction: the bucket holds an original's bytes, PostgreSQL its record, *)
(* audit and outbox row.  One identity (asset version): object key and       *)
(* primary key are functions of it, so identities share no state.            *)
EXTENDS Naturals, Sequences

CONSTANTS
    Admissions,     \* calls of admit_object for the identity
    Contents,       \* byte strings, told apart by their SHA-256
    Infected,       \* the contents the scanner calls MALWARE
    Offered,        \* the content each admission brings
    NoVersion,      \* no object under the key
    NoRecord        \* no row in knowledge_asset_version

ASSUME ContentAssumption ==
    /\ Infected \subseteq Contents
    /\ Offered \in [Admissions -> Contents]
    /\ NoVersion \notin Admissions

VARIABLES
    blobs,          \* the object version under the identity's key in each bucket,
                    \* named by the admission whose put created it
    record,         \* the identity's row
    objectEvents,   \* knowledge_object_outbox, in commit order
    admission,      \* what each admit_object call does next
    deletion        \* the state of the record the lifecycle caller holds

objectVars == <<blobs, record, objectEvents, admission, deletion>>

Buckets == {"originals", "quarantine"}

Record == [version: Admissions, bucket: Buckets, state: {"AVAILABLE", "QUARANTINED"}]

ASSUME RecordAssumption == NoRecord \notin Record

AdmissionSteps ==
    {"find", "put", "save originals", "save quarantine", "returned", "raised"}

ObjectTypeOK ==
    /\ blobs \in [Buckets -> Admissions \cup {NoVersion}]
    /\ record \in Record \cup {NoRecord}
    /\ objectEvents \in Seq(Record)
    /\ admission \in [Admissions -> AdmissionSteps]
    /\ deletion \in {"none", "DELETION_PENDING", "DELETED"}

ObjectInit ==
    /\ blobs = [b \in Buckets |-> NoVersion]
    /\ record = NoRecord
    /\ objectEvents = <<>>
    /\ admission = [a \in Admissions |-> "find"]
    /\ deletion = "none"

To(a, step) == admission' = [admission EXCEPT ![a] = step]

\* Mutant: a record found counts as this call's, whatever its checksum.
ConflictIgnored(a) == TRUE

SameChecksum(a) == Offered[record.version] = Offered[a]

\* repository.find: an existing record answers the call or conflicts with it.
AdmitFind(a) ==
    /\ admission[a] = "find"
    /\ To(a, IF record = NoRecord THEN "put"
             ELSE IF SameChecksum(a) THEN "returned" ELSE "raised")
    /\ UNCHANGED <<blobs, record, objectEvents, deletion>>

\* The bucket the scan decides: the scanner may be inconclusive on any content.
ScannedInto(content) ==
    IF content \in Infected THEN {"quarantine"} ELSE Buckets

\* Mutant: put_object without IfNoneMatch.
PutOverwrites(bucket) == TRUE

PutAllowed(bucket) == blobs[bucket] = NoVersion

\* scan, then a conditional put; a key that exists fails the call.
AdmitPut(a) ==
    /\ admission[a] = "put"
    /\ \E bucket \in ScannedInto(Offered[a]) :
        IF PutAllowed(bucket)
          THEN /\ blobs' = [blobs EXCEPT ![bucket] = a]
               /\ To(a, IF bucket = "originals" THEN "save originals" ELSE "save quarantine")
          ELSE To(a, "raised") /\ UNCHANGED blobs
    /\ UNCHANGED <<record, objectEvents, deletion>>

Saved(a) ==
    IF admission[a] = "save originals"
      THEN [version |-> a, bucket |-> "originals", state |-> "AVAILABLE"]
      ELSE [version |-> a, bucket |-> "quarantine", state |-> "QUARANTINED"]

\* save_admission: record, audit and outbox in one transaction; the primary key
\* fails it when another call saved first.  COMMIT's answer may be lost.
AdmitSave(a) ==
    /\ admission[a] \in {"save originals", "save quarantine"}
    /\ IF record = NoRecord
         THEN /\ record' = Saved(a)
              /\ objectEvents' = Append(objectEvents, Saved(a))
              /\ To(a, "returned") \/ To(a, "raised")
         ELSE To(a, "raised") /\ UNCHANGED <<record, objectEvents>>
    /\ UNCHANGED <<blobs, deletion>>

\* A dependency fails, the put's answer is lost, or the process dies.  A call
\* that ends before its put has changed nothing: it is one that was not made.
AdmitFails(a) ==
    /\ admission[a] \in {"save originals", "save quarantine"}
    /\ To(a, "raised")
    /\ UNCHANGED <<blobs, record, objectEvents, deletion>>

\* request_deletion and complete_deletion work on the record their caller holds;
\* no statement of the repository writes the new state back.
RequestDeletion ==
    /\ record # NoRecord /\ deletion = "none"
    /\ deletion' = "DELETION_PENDING"
    /\ UNCHANGED <<blobs, record, objectEvents, admission>>

VersionExists == blobs[record.bucket] = record.version

\* complete_deletion: delete_version of the exact version, idempotent, then
\* version_exists.  A call that fails or finds the bytes still there
\* (KNOWLEDGE_DELETION_AMBIGUOUS) leaves the record pending, to be tried again.
CompleteDeletion ==
    /\ deletion = "DELETION_PENDING"
    /\ blobs' = IF VersionExists THEN [blobs EXCEPT ![record.bucket] = NoVersion] ELSE blobs
    /\ deletion' \in {"DELETED", "DELETION_PENDING"}
    /\ UNCHANGED <<record, objectEvents, admission>>

Admit(a) == AdmitFind(a) \/ AdmitPut(a) \/ AdmitSave(a)

ObjectNext ==
    \/ \E a \in Admissions : Admit(a) \/ AdmitFails(a)
    \/ RequestDeletion \/ CompleteDeletion

ObjectSpec == ObjectInit /\ [][ObjectNext]_objectVars
-----------------------------------------------------------------------------
(* Properties                                                                *)

\* The two stores agree: unless its deletion began, a record's version is in its
\* bucket, however its admission interleaved with others that failed after the
\* put, lost the race for the row or brought other bytes.
RecordHasItsBytes ==
    record # NoRecord /\ deletion = "none" => VersionExists

\* A call that returned was answered with a record of the bytes it brought, and
\* the outbox announces that record once, whoever else tried.
ReturnedIsRecorded ==
    \A a \in Admissions :
        admission[a] = "returned" =>
            /\ record # NoRecord
            /\ Offered[record.version] = Offered[a]
            /\ objectEvents = <<record>>
=============================================================================
