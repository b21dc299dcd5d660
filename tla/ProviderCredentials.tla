------------------------- MODULE ProviderCredentials -------------------------
(* The credentials of one provider: a row for each in PostgreSQL, its secret *)
(* in Vault.  Rotations and revocations cross both stores step by step; each *)
(* call of either may fail, or take effect and have its answer lost.  A call *)
(* whose process dies is one that fails and compensates nothing.             *)
EXTENDS Naturals, FiniteSets, FiniteSetsExt

CONSTANTS
    Rotations,          \* calls of rotateProviderCredential; each is its credential's id
    Revocations,        \* calls of revokeProviderCredential
    Uses,               \* callers of useProviderCredential
    None                \* no credential

ASSUME CredentialAssumption == None \notin Rotations /\ Rotations \cap Revocations = {}

VARIABLES
    binding,            \* provider_credential_binding, by credential
    vault,              \* the credentials whose secret Vault has
    cleanups,           \* the credentials of the audit's cleanup_required rows
    call,               \* what each rotation and revocation does next
    use                 \* what each use does next, with which credential

credentialVars == <<binding, vault, cleanups, call, use>>

Calls == Rotations \cup Revocations
Credentials == Rotations

NoRow == [version |-> 0, state |-> "absent", tested |-> FALSE]

CredentialInit ==
    /\ binding = [c \in Credentials |-> NoRow]
    /\ vault = {}
    /\ cleanups = {}
    /\ call = [k \in Calls |-> [step |-> "start", version |-> 0, credential |-> None]]
    /\ use = [u \in Uses |-> [step |-> "find", credential |-> None]]

InState(state) == {c \in Credentials : binding[c].state = state}
Active == InState("active")
-----------------------------------------------------------------------------
(* Calls across the stores                                                   *)

\* Call k, at a step, goes on to one of those that follow.
Goes(k, step, next) == call[k].step = step /\ call' = [call EXCEPT ![k].step = next]

\* Vault's DELETE: done and answered, done without an answer, or not done.
Removes(k, step, credential, done, failed) ==
    \/ vault' = vault \ {credential} /\ Goes(k, step, done)
    \/ vault' \in {vault, vault \ {credential}} /\ Goes(k, step, failed)

\* A PostgreSQL transaction: committed and answered, committed, or rolled back.
Commits(k, step, rows, done, failed) ==
    \/ binding' = rows /\ Goes(k, step, done)
    \/ binding' \in {binding, rows} /\ Goes(k, step, failed)

Revoked(credentials) ==
    [c \in Credentials |-> IF c \in credentials THEN [binding[c] EXCEPT !.state = "revoked"]
                                                ELSE binding[c]]
-----------------------------------------------------------------------------
(* registerProviderCredential                                                *)

\* nextVersion.  The administrator may name a credential seen active as the previous.
NextVersion(r) ==
    /\ call[r].step = "start"
    /\ \E previous \in {None} \cup Active \cup InState("revoked") :
           call' = [call EXCEPT ![r] =
               [step |-> "write", credential |-> previous,
                version |-> Max({binding[c].version : c \in Credentials}) + 1]]
    /\ UNCHANGED <<binding, vault, cleanups, use>>

WriteSecret(r) ==
    /\ \/ vault' = vault \cup {r} /\ Goes(r, "write", "save")
       \/ vault' \in {vault, vault \cup {r}} /\ Goes(r, "write", "failed")
    /\ UNCHANGED <<binding, cleanups, use>>

\* UNIQUE (provider_key, version).
VersionIsFree(r) == \A c \in Credentials : binding[c].version # call[r].version

SavePending(r) ==
    /\ IF VersionIsFree(r)
         THEN Commits(r, "save", [binding EXCEPT ![r] = [version |-> call[r].version, state |-> "pending",
                                                         tested |-> FALSE]], "test", "discard")
         ELSE Goes(r, "save", "discard") /\ UNCHANGED binding
    /\ UNCHANGED <<vault, cleanups, use>>

DiscardSecret(r) == Removes(r, "discard", r, "failed", "failed") /\ UNCHANGED <<binding, cleanups, use>>

Register(r) == NextVersion(r) \/ WriteSecret(r) \/ SavePending(r) \/ DiscardSecret(r)
-----------------------------------------------------------------------------
(* testProviderCredential and rotateProviderCredential                       *)

\* recordTest.
RecordTest(c) ==
    /\ c \in InState("pending")
    /\ \E passed \in BOOLEAN : binding' = [binding EXCEPT ![c].tested = passed]
    /\ UNCHANGED <<vault, cleanups, call, use>>

\* A caller that only registers ends here.
TestSecret(r) ==
    /\ \E next \in {"activate", "failed"} : Goes(r, "test", next)
    /\ UNCHANGED <<binding, vault, cleanups, use>>

AfterActivation(r) == IF call[r].credential = None THEN "answered" ELSE "remove"

\* activateReplacing, under the provider's advisory lock.
Activate(r) ==
    /\ r \in InState("pending")
    /\ Commits(r, "activate", [Revoked(Active) EXCEPT ![r].state = "active", ![r].tested = TRUE],
               AfterActivation(r), "failed")
    /\ UNCHANGED <<vault, cleanups, use>>

\* Mutant: the reference of the credential activateReplacing returned.
RemovesReplacing(k) == IF k \in Rotations THEN k ELSE call[k].credential

\* The previous credential a rotation was given, or the one that was revoked.
Removed(k) == call[k].credential

\* Mutant: the failure is logged and the call goes on.
FailureIsIgnored(k) == "answered"

FailedRemoval(k) == "record"

RemoveSecret(k) ==
    /\ Removes(k, "remove", Removed(k), "answered", FailedRemoval(k))
    /\ UNCHANGED <<binding, cleanups, use>>

\* A rotation records its own credential, not the one it could not remove.
CleanupOf(k) == IF k \in Rotations THEN k ELSE call[k].credential

RecordCleanupRequired(k) ==
    /\ Goes(k, "record", "failed")
    /\ cleanups' \in {cleanups, cleanups \cup {CleanupOf(k)}}
    /\ UNCHANGED <<binding, vault, use>>

Rotate(r) == TestSecret(r) \/ Activate(r) \/ RemoveSecret(r) \/ RecordCleanupRequired(r)
-----------------------------------------------------------------------------
(* revokeProviderCredential                                                  *)

\* CREDENTIAL_UNAVAILABLE without an active one.
RevokeActive(v) ==
    /\ call[v].step = "start"
    /\ IF Active = {}
         THEN call' = [call EXCEPT ![v].step = "failed"] /\ UNCHANGED binding
         ELSE /\ binding' \in {binding, Revoked(Active)}
              /\ \E step \in {"failed"} \cup {s \in {"remove"} : binding' # binding}, c \in Active :
                     call' = [call EXCEPT ![v] = [step |-> step, version |-> 0, credential |-> c]]
    /\ UNCHANGED <<vault, cleanups, use>>

Revoke(v) == RevokeActive(v) \/ RemoveSecret(v) \/ RecordCleanupRequired(v)
-----------------------------------------------------------------------------
(* useProviderCredential                                                     *)

FindActive(u) ==
    /\ use[u].step = "find"
    /\ \E c \in Active : use' = [use EXCEPT ![u] = [step |-> "get", credential |-> c]]

UseGoes(u, step, next) == use[u].step = step /\ use' = [use EXCEPT ![u].step = next]

\* Vault answers the GET.
GetSecret(u) == use[u].credential \in vault /\ UseGoes(u, "get", "got")

\* The answer is read, and its secret handed to the operation.
Operate(u) == UseGoes(u, "got", "operate")

\* Or the use ends in CREDENTIAL_UNAVAILABLE.
UseEnds(u) ==
    /\ use[u].step # "find"
    /\ use' = [use EXCEPT ![u] = [step |-> "find", credential |-> None]]

Use(u) ==
    /\ FindActive(u) \/ GetSecret(u) \/ Operate(u) \/ UseEnds(u)
    /\ UNCHANGED <<binding, vault, cleanups, call>>

CredentialNext ==
    \/ \E r \in Rotations : Register(r) \/ Rotate(r) \/ RecordTest(r)
    \/ \E v \in Revocations : Revoke(v)
    \/ \E u \in Uses : Use(u)
-----------------------------------------------------------------------------
(* Properties                                                                *)

\* The one active credential was tested, and Vault has its secret, whichever calls
\* failed or lost their answers while it replaced another.
ActiveIsUsable ==
    /\ Cardinality(Active) <= 1
    /\ \A c \in Active : binding[c].tested /\ c \in vault

\* What an answered revocation revoked, or an answered rotation replaced.
Withdrawn == {call[k].credential : k \in {j \in Calls : call[j].step = "answered"}}

\* Use u has the credential's secret, or Vault's answer with it.
Has(u, c) == use[u].credential = c /\ use[u].step \in {"got", "operate"}

\* Once its withdrawal is answered Vault gives a secret to nobody, not even to a use
\* that found the credential active before.  A use that Vault had answered before that
\* keeps the secret, and may still hand it to its operation.
WithdrawnIsUnusable ==
    [][\A u \in Uses : \A c \in Withdrawn : Has(u, c)' => Has(u, c)]_credentialVars
=============================================================================
