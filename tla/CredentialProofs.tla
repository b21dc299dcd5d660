--------------------------- MODULE CredentialProofs ---------------------------
(* One provider's credentials over two stores: the active one is one, tested *)
(* and with its secret in Vault; nobody gains the secret of a withdrawn one; *)
(* and routes follow its models' fallbacks.  For any number of rotations,    *)
(* revocations, uses, models, publications and routes.                       *)
EXTENDS ModelCatalog, FiniteSetTheorems, SequenceTheorems, TLAPS

\* Rows and calls are records of these fields; a version may be any.
Shape ==
    /\ binding = [c \in Rotations |-> [version |-> binding[c].version, state |-> binding[c].state,
                                       tested |-> binding[c].tested]]
    /\ call = [k \in Calls |-> [step |-> call[k].step, version |-> call[k].version,
                                credential |-> call[k].credential]]

RowsInv ==
    /\ \A c \in Rotations :
           /\ binding[c].state \in {"absent", "pending", "active", "revoked"}
           /\ binding[c].state = "active" => binding[c].tested /\ c \in vault
    /\ \A c, d \in Rotations : binding[c].state = "active" /\ binding[d].state = "active" => c = d
    /\ vault \subseteq Rotations

\* Until it activates, a rotation's own row is pending at most and its secret is kept.
RotationsInv ==
    \A r \in Rotations :
        /\ call[r].step \in {"start", "write", "save"} => binding[r].state = "absent"
        /\ call[r].step = "discard" => binding[r].state \in {"absent", "pending"}
        /\ call[r].step \in {"test", "activate"} => binding[r].state = "pending"
        /\ call[r].step \in {"save", "test", "activate"} => r \in vault

\* The credential a call replaces or revokes was active, is revoked by the time its
\* secret is removed, and has none once the call is answered.
WithdrawalsInv ==
    \A k \in Calls :
        /\ call[k].credential # None =>
               /\ call[k].credential \in Rotations
               /\ binding[call[k].credential].state \in {"active", "revoked"}
               /\ call[k].step \in {"remove", "record", "answered"} =>
                      binding[call[k].credential].state = "revoked"
               /\ call[k].step = "answered" => call[k].credential \notin vault
        /\ call[k].step \in {"remove", "record"} => call[k].credential # None

CredentialInv == Shape /\ RowsInv /\ RotationsInv /\ WithdrawalsInv

\* A step of one call leaves the others.
LEMMA GoesFields ==
    ASSUME Shape, NEW k \in Calls, NEW step, NEW next, Goes(k, step, next)
    PROVE  /\ call' = [j \in Calls |-> [step |-> call'[j].step, version |-> call'[j].version,
                                        credential |-> call'[j].credential]]
           /\ call[k].step = step /\ call'[k].step = next
           /\ call'[k].credential = call[k].credential
           /\ \A j \in Calls \ {k} : call'[j] = call[j]
<1>1. call' = [call EXCEPT ![k] = [call[k] EXCEPT !.step = next]]
    BY DEF Goes
<1> DEFINE old == call[k]  new == [old EXCEPT !.step = next]
<1>2. old = [step |-> old.step, version |-> old.version, credential |-> old.credential]
    BY DEF Shape
<1>3. new = [step |-> next, version |-> old.version, credential |-> old.credential]
    <2> DEFINE version == old.version  credential == old.credential
    <2>1. old = [step |-> old.step, version |-> version, credential |-> credential]
        BY <1>2
    <2> HIDE DEF version, credential, old
    <2>2. [old EXCEPT !.step = next]
            = [step |-> next, version |-> version, credential |-> credential]
        BY <2>1
    <2> QED BY <2>2 DEF version, credential
<1>4. DOMAIN call = Calls
    BY DEF Shape
<1> HIDE DEF new, old
<1>5. call'[k] = new /\ \A j \in Calls \ {k} : call'[j] = call[j]
    BY <1>1, <1>4 DEF new, old
<1>6. \A j \in Calls : call'[j] = [step |-> call'[j].step, version |-> call'[j].version,
                                  credential |-> call'[j].credential]
    BY <1>3, <1>5 DEF Shape
<1>7. call' = [j \in Calls |-> call'[j]]
    BY <1>1, <1>4
<1>8. call' = [j \in Calls |-> [step |-> call'[j].step, version |-> call'[j].version,
                               credential |-> call'[j].credential]]
    BY <1>6, <1>7
<1>9. call[k].step = step /\ call'[k].step = next /\ call'[k].credential = call[k].credential
    BY <1>3, <1>5 DEF Goes, old
<1> QED BY <1>5, <1>8, <1>9

\* The rows once some credentials are revoked and, perhaps, another is active.
LEMMA RevokedRows ==
    ASSUME Shape, NEW S \in SUBSET Rotations, NEW c \in Rotations
    PROVE  /\ DOMAIN Revoked(S) = Rotations
           /\ Revoked(S)[c] = [version |-> binding[c].version,
                               state |-> IF c \in S THEN "revoked" ELSE binding[c].state,
                               tested |-> binding[c].tested]
<1> DEFINE row == binding[c]
<1>1. row = [version |-> row.version, state |-> row.state, tested |-> row.tested]
    BY DEF Shape
<1> HIDE DEF row
<1>2. [row EXCEPT !.state = "revoked"] = [version |-> row.version, state |-> "revoked", tested |-> row.tested]
    BY <1>1
<1>3. Revoked(S)[c] = IF c \in S THEN [row EXCEPT !.state = "revoked"] ELSE row
    BY DEF Revoked, Credentials, row
<1> QED BY <1>1, <1>2, <1>3 DEF Revoked, Credentials, row

LEMMA ActiveRows ==
    /\ Active \in SUBSET Rotations
    /\ \A c \in Rotations : c \in Active <=> binding[c].state = "active"
    BY DEF Active, InState, Credentials

\* A step that changes neither store, of one call.
LEMMA CallOnly ==
    ASSUME CredentialInv, NEW k \in Calls, NEW step, NEW next, Goes(k, step, next),
           UNCHANGED <<binding, vault>>,
           k \in Rotations =>
               /\ next \in {"start", "write", "save"} => binding[k].state = "absent"
               /\ next = "discard" => binding[k].state \in {"absent", "pending"}
               /\ next \in {"test", "activate"} => binding[k].state = "pending"
               /\ next \in {"save", "test", "activate"} => k \in vault,
           next \notin {"remove", "record", "answered"} \/ (next = "record" /\ step \in {"remove", "record"})
    PROVE  CredentialInv'
<1>1. Shape' /\ RowsInv'
    BY GoesFields DEF CredentialInv, Shape, RowsInv
<1>2. RotationsInv'
    BY GoesFields DEF CredentialInv, RotationsInv, Calls
<1>3. WithdrawalsInv'
    BY GoesFields DEF CredentialInv, WithdrawalsInv
<1> QED BY <1>1, <1>2, <1>3 DEF CredentialInv

\* A secret that goes is of a credential no longer pending in a rotation, and not active.
LEMMA SecretGoes ==
    ASSUME CredentialInv, NEW k \in Calls, NEW step, NEW next, Goes(k, step, next),
           NEW c \in Rotations, vault' \in {vault, vault \ {c}}, UNCHANGED binding,
           next \in {"failed", "answered", "record"},
           \/ step = "discard" /\ c = k /\ next = "failed"
           \/ step = "remove" /\ c = call[k].credential /\ (next = "answered" => vault' = vault \ {c})
    PROVE  CredentialInv'
<1>1. /\ call' = [j \in Calls |-> [step |-> call'[j].step, version |-> call'[j].version,
                                   credential |-> call'[j].credential]]
      /\ call[k].step = step /\ call'[k].step = next
      /\ call'[k].credential = call[k].credential
      /\ \A j \in Calls \ {k} : call'[j] = call[j]
    BY GoesFields DEF CredentialInv
<1>2. binding[c].state # "active" /\ (step = "remove" => binding[c].state = "revoked")
    BY <1>1 DEF CredentialInv, RotationsInv, WithdrawalsInv
<1>3. ASSUME NEW r \in Rotations, call'[r].step \in {"save", "test", "activate"} PROVE r # c
    <2>1. r # k /\ call'[r] = call[r] /\ r \in Calls
        BY <1>1, <1>3 DEF Calls
    <2>2. binding[r].state \in {"absent", "pending"}
        BY <1>3, <2>1 DEF CredentialInv, RotationsInv
    <2> QED BY <1>2, <2>1, <2>2
<1>4. Shape' /\ RowsInv'
    BY <1>1, <1>2 DEF CredentialInv, Shape, RowsInv
<1>5. RotationsInv'
    BY <1>1, <1>3 DEF CredentialInv, RotationsInv, Calls
<1>6. WithdrawalsInv'
    BY <1>1, <1>2 DEF CredentialInv, WithdrawalsInv
<1> QED BY <1>4, <1>5, <1>6 DEF CredentialInv

LEMMA RegisterStep ==
    ASSUME CredentialInv, NEW r \in Rotations, Register(r)
    PROVE  CredentialInv'
<1>0. r \in Calls
    BY DEF Calls
<1>1. CASE NextVersion(r)
    <2>1. PICK version, previous :
              /\ previous \in {None} \cup Active \cup InState("revoked")
              /\ call[r].step = "start"
              /\ call' = [call EXCEPT ![r] = [step |-> "write", credential |-> previous, version |-> version]]
              /\ UNCHANGED <<binding, vault>>
        BY <1>1 DEF NextVersion
    <2>2. previous # None => previous \in Rotations /\ binding[previous].state \in {"active", "revoked"}
        BY <2>1 DEF Active, InState, Credentials
    <2>3. /\ DOMAIN call' = Calls
          /\ call'[r] = [step |-> "write", version |-> version, credential |-> previous]
          /\ \A j \in Calls \ {r} : call'[j] = call[j]
        BY <1>0, <2>1 DEF CredentialInv, Shape
    <2>4. call' = [j \in Calls |-> [step |-> call'[j].step, version |-> call'[j].version,
                                    credential |-> call'[j].credential]]
        <3>1. \A j \in Calls : call'[j] = [step |-> call'[j].step, version |-> call'[j].version,
                                           credential |-> call'[j].credential]
            BY <2>3 DEF CredentialInv, Shape
        <3>2. call' = [j \in Calls |-> call'[j]]
            BY <2>1 DEF CredentialInv, Shape
        <3> QED BY <3>1, <3>2
    <2>5. Shape' /\ RowsInv'
        BY <2>1, <2>4 DEF CredentialInv, Shape, RowsInv
    <2>6. RotationsInv'
        BY <2>1, <2>3 DEF CredentialInv, RotationsInv, Calls
    <2>7. WithdrawalsInv'
        BY <2>1, <2>2, <2>3 DEF CredentialInv, WithdrawalsInv
    <2> QED BY <2>5, <2>6, <2>7 DEF CredentialInv
<1>2. CASE WriteSecret(r)
    <2>1. PICK next \in {"save", "failed"} : Goes(r, "write", next) /\ (next = "save" => vault' = vault \cup {r})
        BY <1>2 DEF WriteSecret
    <2>2. /\ vault' \in {vault, vault \cup {r}} /\ UNCHANGED binding
        BY <1>2 DEF WriteSecret
    <2>3. /\ call' = [j \in Calls |-> [step |-> call'[j].step, version |-> call'[j].version,
                                       credential |-> call'[j].credential]]
          /\ call[r].step = "write" /\ call'[r].step = next
          /\ call'[r].credential = call[r].credential
          /\ \A j \in Calls \ {r} : call'[j] = call[j]
        BY <1>0, <2>1, GoesFields DEF CredentialInv
    <2>4. binding[r].state = "absent"
        BY <2>3 DEF CredentialInv, RotationsInv
    <2>5. Shape' /\ RowsInv'
        BY <2>2, <2>3 DEF CredentialInv, Shape, RowsInv
    <2>6. RotationsInv'
        BY <2>1, <2>2, <2>3, <2>4 DEF CredentialInv, RotationsInv, Calls
    <2>7. WithdrawalsInv'
        BY <2>1, <2>2, <2>3, <2>4 DEF CredentialInv, WithdrawalsInv
    <2> QED BY <2>5, <2>6, <2>7 DEF CredentialInv
<1>3. CASE SavePending(r)
    <2>1. call[r].step = "save" /\ binding[r].state = "absent" /\ r \in vault /\ UNCHANGED vault
        BY <1>3 DEF SavePending, Commits, Goes, CredentialInv, RotationsInv
    <2>2. CASE UNCHANGED binding /\ Goes(r, "save", "discard")
        BY <1>0, <2>1, <2>2, CallOnly
    <2>3. CASE /\ binding' = [binding EXCEPT ![r] = [version |-> call[r].version, state |-> "pending",
                                                    tested |-> FALSE]]
               /\ \E next \in {"test", "discard"} : Goes(r, "save", next)
        <3> PICK next \in {"test", "discard"} : Goes(r, "save", next)
            BY <2>3
        <3>1. /\ call' = [j \in Calls |-> [step |-> call'[j].step, version |-> call'[j].version,
                                           credential |-> call'[j].credential]]
              /\ call[r].step = "save" /\ call'[r].step = next
              /\ call'[r].credential = call[r].credential
              /\ \A j \in Calls \ {r} : call'[j] = call[j]
            BY <1>0, GoesFields DEF CredentialInv
        <3>2. /\ DOMAIN binding' = Rotations
              /\ binding'[r] = [version |-> call[r].version, state |-> "pending", tested |-> FALSE]
              /\ \A c \in Rotations \ {r} : binding'[c] = binding[c]
            BY <2>3 DEF CredentialInv, Shape
        <3>3. binding' = [c \in Rotations |-> [version |-> binding'[c].version, state |-> binding'[c].state,
                                               tested |-> binding'[c].tested]]
            <4>1. \A c \in Rotations : binding'[c] = [version |-> binding'[c].version,
                                                     state |-> binding'[c].state, tested |-> binding'[c].tested]
                BY <3>2 DEF CredentialInv, Shape
            <4>2. binding' = [c \in Rotations |-> binding'[c]]
                BY <2>3 DEF CredentialInv, Shape
            <4> QED BY <4>1, <4>2
        <3>4. binding'[r].state = "pending"
            BY <3>2
        <3>5. RowsInv'
            BY <2>1, <3>2, <3>4 DEF CredentialInv, RowsInv
        <3>6. RotationsInv'
            BY <2>1, <3>1, <3>2, <3>4 DEF CredentialInv, RotationsInv, Calls
        <3>7. WithdrawalsInv'
            BY <2>1, <3>1, <3>2 DEF CredentialInv, WithdrawalsInv
        <3> QED BY <3>1, <3>3, <3>5, <3>6, <3>7 DEF CredentialInv, Shape
    <2> QED BY <1>3, <2>2, <2>3 DEF SavePending, Commits
<1>4. CASE DiscardSecret(r)
    <2>1. /\ Goes(r, "discard", "failed") /\ vault' \in {vault, vault \ {r}} /\ UNCHANGED binding
        BY <1>4 DEF DiscardSecret, Removes
    <2> QED BY <1>0, <2>1, SecretGoes
<1> QED BY <1>1, <1>2, <1>3, <1>4 DEF Register

\* RemoveSecret and RecordCleanupRequired, of a rotation or a revocation.
LEMMA CleanupStep ==
    ASSUME CredentialInv, NEW k \in Calls, RemoveSecret(k) \/ RecordCleanupRequired(k)
    PROVE  CredentialInv'
<1>1. CASE RemoveSecret(k)
    <2>1. PICK next \in {"answered", "record"} :
              /\ Goes(k, "remove", next) /\ UNCHANGED binding
              /\ vault' \in {vault, vault \ {call[k].credential}}
              /\ next = "answered" => vault' = vault \ {call[k].credential}
        BY <1>1 DEF RemoveSecret, Removes, Removed, FailedRemoval
    <2>2. call[k].credential \in Rotations
        BY <2>1 DEF Goes, CredentialInv, WithdrawalsInv
    <2> DEFINE c == call[k].credential
    <2>3. c \in Rotations /\ c = call[k].credential /\ vault' \in {vault, vault \ {c}}
          /\ (next = "answered" => vault' = vault \ {c})
        BY <2>1, <2>2
    <2> HIDE DEF c
    <2> QED BY <2>1, <2>3, SecretGoes
<1>2. CASE RecordCleanupRequired(k)
    BY <1>2, CallOnly DEF RecordCleanupRequired
<1> QED BY <1>1, <1>2

\* A test's result changes no state.
LEMMA RecordTestStep ==
    ASSUME CredentialInv, NEW c \in Rotations, RecordTest(c)
    PROVE  CredentialInv'
<1>1. PICK passed \in BOOLEAN : binding' = [binding EXCEPT ![c] = [binding[c] EXCEPT !.tested = passed]]
    BY DEF RecordTest
<1> DEFINE row == binding[c]  new == [row EXCEPT !.tested = passed]
<1>2. row = [version |-> row.version, state |-> row.state, tested |-> row.tested]
    BY DEF CredentialInv, Shape
<1>3. row.state = "pending" /\ UNCHANGED <<vault, call>>
    BY DEF RecordTest, InState
<1>4. new = [version |-> row.version, state |-> row.state, tested |-> passed]
    BY <1>2
<1>5. DOMAIN binding = Rotations
    BY DEF CredentialInv, Shape
<1> HIDE DEF row, new
<1>6. /\ binding' = [d \in Rotations |-> binding'[d]] /\ binding'[c] = new
      /\ \A d \in Rotations \ {c} : binding'[d] = binding[d]
    BY <1>1, <1>5 DEF new, row
<1>7. \A d \in Rotations : binding'[d] = [version |-> binding'[d].version, state |-> binding'[d].state,
                                         tested |-> binding'[d].tested]
    BY <1>4, <1>6 DEF CredentialInv, Shape
<1>8. Shape'
    BY <1>3, <1>6, <1>7 DEF CredentialInv, Shape
<1>9. \A d \in Rotations : binding'[d].state = binding[d].state /\ (d # c => binding'[d] = binding[d])
    BY <1>4, <1>6 DEF row
<1>10. RowsInv'
    BY <1>3, <1>9 DEF CredentialInv, RowsInv, row
<1>11. RotationsInv' /\ WithdrawalsInv'
    BY <1>3, <1>9 DEF CredentialInv, RotationsInv, WithdrawalsInv
<1> QED BY <1>8, <1>10, <1>11 DEF CredentialInv

\* The rows after a transaction that revokes the active ones.
LEMMA RevokedInv ==
    ASSUME CredentialInv, binding' = Revoked(Active)
    PROVE  /\ binding' = [c \in Rotations |-> [version |-> binding'[c].version, state |-> binding'[c].state,
                                              tested |-> binding'[c].tested]]
           /\ \A c \in Rotations : binding'[c].state =
                  IF binding[c].state = "active" THEN "revoked" ELSE binding[c].state
<1>1. \A c \in Rotations :
          Revoked(Active)[c] = [version |-> binding[c].version,
                                state |-> IF c \in Active THEN "revoked" ELSE binding[c].state,
                                tested |-> binding[c].tested]
    BY ActiveRows, RevokedRows DEF CredentialInv
<1>2. ASSUME NEW c \in Rotations
      PROVE  /\ binding'[c] = [version |-> binding'[c].version, state |-> binding'[c].state,
                               tested |-> binding'[c].tested]
             /\ binding'[c].state = IF binding[c].state = "active" THEN "revoked" ELSE binding[c].state
    <2> DEFINE state == IF c \in Active THEN "revoked" ELSE binding[c].state
    <2>1. state = IF binding[c].state = "active" THEN "revoked" ELSE binding[c].state
        BY ActiveRows
    <2>2. binding'[c] = [version |-> binding[c].version, state |-> state, tested |-> binding[c].tested]
        BY <1>1
    <2> HIDE DEF state
    <2> QED BY <2>1, <2>2
<1>3. binding' = [c \in Rotations |-> binding'[c]]
    BY DEF Revoked, Credentials
<1> QED BY <1>2, <1>3

LEMMA ActivateStep ==
    ASSUME CredentialInv, NEW r \in Rotations, Activate(r)
    PROVE  CredentialInv'
<1>0. r \in Calls /\ UNCHANGED vault
    BY DEF Activate, Calls
<1>1. call[r].step = "activate" /\ binding[r].state = "pending" /\ r \in vault
    BY DEF Activate, Commits, Goes, CredentialInv, RotationsInv
<1>2. CASE UNCHANGED binding /\ Goes(r, "activate", "failed")
    BY <1>0, <1>2, CallOnly
<1>3. CASE /\ binding' = [Revoked(Active) EXCEPT ![r].state = "active", ![r].tested = TRUE]
           /\ \E next \in {AfterActivation(r), "failed"} : Goes(r, "activate", next)
    <2> PICK next \in {AfterActivation(r), "failed"} : Goes(r, "activate", next)
        BY <1>3
    <2>1. /\ call' = [j \in Calls |-> [step |-> call'[j].step, version |-> call'[j].version,
                                       credential |-> call'[j].credential]]
          /\ call'[r].step = next /\ call'[r].credential = call[r].credential
          /\ \A j \in Calls \ {r} : call'[j] = call[j]
        BY <1>0, GoesFields DEF CredentialInv
    <2>2. /\ next \in {"answered", "remove", "failed"}
          /\ next = "answered" => call[r].credential = None
          /\ next = "remove" => call[r].credential # None
        BY DEF AfterActivation
    <2> DEFINE rows == Revoked(Active)
    <2>3. /\ DOMAIN rows = Rotations
          /\ \A c \in Rotations :
                 rows[c] = [version |-> binding[c].version,
                            state |-> IF c \in Active THEN "revoked" ELSE binding[c].state,
                            tested |-> binding[c].tested]
        BY ActiveRows, RevokedRows DEF CredentialInv
    <2> DEFINE row == rows[r]
    <2>4. binding' = [rows EXCEPT ![r] = [row EXCEPT !.state = "active", !.tested = TRUE]]
        BY <1>3, <2>3
    <2>5. row = [version |-> row.version, state |-> row.state, tested |-> row.tested]
        BY <2>3
    <2> HIDE DEF row
    <2>6. [row EXCEPT !.state = "active", !.tested = TRUE]
              = [version |-> row.version, state |-> "active", tested |-> TRUE]
        <3> DEFINE activated == [row EXCEPT !.state = "active"]
        <3>1. activated = [version |-> row.version, state |-> "active", tested |-> row.tested]
            BY <2>5
        <3> HIDE DEF activated
        <3>2. ASSUME NEW t
              PROVE  [activated EXCEPT !.tested = t] = [version |-> row.version, state |-> "active", tested |-> t]
            BY <3>1
        <3>3. [activated EXCEPT !.tested = TRUE] = [version |-> row.version, state |-> "active", tested |-> TRUE]
            BY <3>2, Zenon
        <3> QED BY <3>3, Zenon DEF activated
    <2> HIDE DEF rows
    <2>7. /\ binding' = [c \in Rotations |-> binding'[c]]
          /\ binding'[r] = [version |-> row.version, state |-> "active", tested |-> TRUE]
          /\ \A c \in Rotations \ {r} : binding'[c] = rows[c]
        BY <2>3, <2>4, <2>6 DEF row
    <2>8. \A c \in Rotations : binding'[c] = [version |-> binding'[c].version, state |-> binding'[c].state,
                                             tested |-> binding'[c].tested]
        BY <2>3, <2>7
    <2>9. /\ binding'[r].state = "active" /\ binding'[r].tested
          /\ \A c \in Rotations \ {r} :
                 binding'[c].state = IF binding[c].state = "active" THEN "revoked" ELSE binding[c].state
        BY <2>3, <2>7, ActiveRows
    <2>10. Shape'
        BY <2>1, <2>7, <2>8 DEF Shape
    <2>11. RowsInv'
        BY <1>0, <1>1, <2>9 DEF CredentialInv, RowsInv
    <2>12. RotationsInv'
        BY <1>0, <1>1, <2>1, <2>2, <2>9 DEF CredentialInv, RotationsInv, Calls
    <2>13. WithdrawalsInv'
        BY <1>0, <1>1, <2>1, <2>2, <2>9 DEF CredentialInv, WithdrawalsInv
    <2> QED BY <2>10, <2>11, <2>12, <2>13 DEF CredentialInv
<1> QED BY <1>2, <1>3 DEF Activate, Commits

LEMMA RevokeActiveStep ==
    ASSUME CredentialInv, NEW v \in Revocations, RevokeActive(v)
    PROVE  CredentialInv'
<1>0. v \in Calls /\ v \notin Rotations /\ UNCHANGED vault /\ call[v].step = "start"
    BY CredentialAssumption DEF RevokeActive, Calls
<1>1. CASE UNCHANGED binding /\ call' = [call EXCEPT ![v].step = "failed"]
    <2>1. Goes(v, "start", "failed")
        BY <1>0, <1>1 DEF Goes
    <2> QED BY <1>0, <1>1, <2>1, CallOnly
<1>2. CASE /\ binding' \in {binding, Revoked(Active)}
           /\ \E step \in {"failed"} \cup {s \in {"remove"} : binding' # binding}, c \in Active :
                  call' = [call EXCEPT ![v] = [step |-> step, version |-> 0, credential |-> c]]
    <2> PICK step \in {"failed", "remove"}, c \in Active :
            /\ step = "remove" => binding' # binding
            /\ call' = [call EXCEPT ![v] = [step |-> step, version |-> 0, credential |-> c]]
        BY <1>2
    <2>1. /\ call' = [j \in Calls |-> call'[j]]
          /\ call'[v] = [step |-> step, version |-> 0, credential |-> c]
          /\ \A j \in Calls \ {v} : call'[j] = call[j]
        BY <1>0 DEF CredentialInv, Shape
    <2>2. \A j \in Calls : call'[j] = [step |-> call'[j].step, version |-> call'[j].version,
                                      credential |-> call'[j].credential]
        BY <2>1 DEF CredentialInv, Shape
    <2>3. call'[v].step = step /\ call'[v].credential = c
        BY <2>1
    <2>4. c \in Rotations /\ binding[c].state = "active" /\ c # None
        BY ActiveRows, CredentialAssumption
    <2>5. CASE UNCHANGED binding
        <3>1. step = "failed"
            BY <2>5
        <3>2. Shape' /\ RowsInv'
            <4>1. call' = [j \in Calls |-> [step |-> call'[j].step, version |-> call'[j].version,
                                           credential |-> call'[j].credential]]
                BY <2>1, <2>2
            <4>2. Shape'
                BY <1>0, <2>5, <4>1 DEF CredentialInv, Shape
            <4> QED BY <1>0, <2>5, <4>2 DEF CredentialInv, RowsInv
        <3>3. RotationsInv'
            BY <1>0, <2>1, <2>5 DEF CredentialInv, RotationsInv, Calls
        <3>4. WithdrawalsInv'
            BY <1>0, <2>1, <2>3, <2>4, <2>5, <3>1 DEF CredentialInv, WithdrawalsInv
        <3> QED BY <3>2, <3>3, <3>4 DEF CredentialInv
    <2>6. CASE binding' = Revoked(Active)
        <3>1. /\ binding' = [d \in Rotations |-> [version |-> binding'[d].version,
                                                  state |-> binding'[d].state,
                                                  tested |-> binding'[d].tested]]
              /\ \A d \in Rotations : binding'[d].state =
                     IF binding[d].state = "active" THEN "revoked" ELSE binding[d].state
            BY <2>6, RevokedInv
        <3>2. Shape'
            BY <2>1, <2>2, <3>1 DEF Shape
        <3>3. RowsInv'
            BY <1>0, <3>1 DEF CredentialInv, RowsInv
        <3>4. RotationsInv'
            BY <1>0, <2>1, <3>1 DEF CredentialInv, RotationsInv, Calls
        <3>5. WithdrawalsInv'
            BY <1>0, <2>1, <2>3, <2>4, <3>1 DEF CredentialInv, WithdrawalsInv
        <3> QED BY <3>2, <3>3, <3>4, <3>5 DEF CredentialInv
    <2> QED BY <1>2, <2>5, <2>6
<1> QED BY <1>1, <1>2 DEF RevokeActive
-----------------------------------------------------------------------------
(* The theorems                                                              *)

LEMMA CredentialInvInit == Init => CredentialInv
<1> SUFFICES ASSUME Init PROVE CredentialInv
    OBVIOUS
<1>1. /\ binding = [c \in Rotations |-> NoRow] /\ vault = {}
      /\ call = [k \in Calls |-> [step |-> "start", version |-> 0, credential |-> None]]
    BY DEF Init, CredentialInit, Credentials
<1>2. /\ \A c \in Rotations : binding[c] = [version |-> 0, state |-> "absent", tested |-> FALSE]
      /\ \A c \in Rotations : binding[c].state = "absent"
    BY <1>1 DEF NoRow
<1>3. \A k \in Calls : call[k].step = "start" /\ call[k].credential = None
    BY <1>1
<1>4. Shape
    BY <1>1, <1>2 DEF Shape, NoRow
<1> QED BY <1>1, <1>2, <1>3, <1>4 DEF CredentialInv, RowsInv, RotationsInv, WithdrawalsInv, Calls

LEMMA CredentialInvStep == CredentialInv /\ [Next]_vars => CredentialInv'
<1> SUFFICES ASSUME CredentialInv, [Next]_vars PROVE CredentialInv'
    OBVIOUS
<1>1. ASSUME NEW r \in Rotations, Register(r) \/ Rotate(r) \/ RecordTest(r) PROVE CredentialInv'
    <2>1. r \in Calls
        BY DEF Calls
    <2>2. CASE TestSecret(r)
        <3>1. PICK next \in {"activate", "failed"} : Goes(r, "test", next)
            BY <2>2 DEF TestSecret
        <3>2. UNCHANGED <<binding, vault>> /\ binding[r].state = "pending" /\ r \in vault
            BY <2>2, <3>1 DEF TestSecret, Goes, CredentialInv, RotationsInv
        <3> QED BY <2>1, <3>1, <3>2, CallOnly
    <2> QED BY <1>1, <2>1, <2>2, RegisterStep, ActivateStep, CleanupStep, RecordTestStep DEF Rotate
<1>2. ASSUME NEW v \in Revocations, Revoke(v) PROVE CredentialInv'
    BY <1>2, RevokeActiveStep, CleanupStep DEF Revoke, Calls
<1>3. CASE UNCHANGED <<binding, vault, call>>
    BY <1>3 DEF CredentialInv, Shape, RowsInv, RotationsInv, WithdrawalsInv
<1> QED BY <1>1, <1>2, <1>3 DEF Next, CredentialNext, Use, vars, credentialVars

LEMMA CredentialInvariance == Spec => []CredentialInv
    BY CredentialInvInit, CredentialInvStep, PTL DEF Spec

\* At most one credential is active; it was tested and Vault has its secret.
THEOREM ActiveCredentialIsUsable == Spec => []ActiveIsUsable
<1>1. CredentialInv => ActiveIsUsable
    <2> SUFFICES ASSUME CredentialInv PROVE ActiveIsUsable
        OBVIOUS
    <2>1. \A c \in Active : binding[c].tested /\ c \in vault
        BY ActiveRows DEF CredentialInv, RowsInv
    <2>2. Cardinality(Active) <= 1
        <3>1. CASE Active = {}
            BY <3>1, FS_EmptySet
        <3>2. CASE Active # {}
            <4> PICK c \in Active : TRUE
                BY <3>2
            <4>1. Active = {c}
                BY ActiveRows DEF CredentialInv, RowsInv
            <4>2. Cardinality({c}) = 1
                BY FS_Singleton
            <4>3. Cardinality(Active) = 1
                BY <4>1, <4>2, Zenon
            <4> QED BY <4>3
        <3> QED BY <3>1, <3>2
    <2> QED BY <2>1, <2>2 DEF ActiveIsUsable
<1> QED BY <1>1, CredentialInvariance, PTL

\* A use is a record of a step and a credential.
UseShape == use = [u \in Uses |-> [step |-> use[u].step, credential |-> use[u].credential]]

LEMMA UseFields ==
    ASSUME UseShape, NEW u \in Uses, NEW step, NEW next, UseGoes(u, step, next)
    PROVE  /\ use' = [v \in Uses |-> IF v = u THEN [step |-> next, credential |-> use[u].credential]
                                              ELSE use[v]]
           /\ use[u].step = step
<1>1. use' = [use EXCEPT ![u] = [use[u] EXCEPT !.step = next]] /\ use[u].step = step
    BY DEF UseGoes
<1> DEFINE old == use[u]  c == old.credential
<1>2. old = [step |-> old.step, credential |-> c]
    BY DEF UseShape
<1> HIDE DEF c
<1>3. [old EXCEPT !.step = next] = [step |-> next, credential |-> c]
    BY <1>2
<1> HIDE DEF old
<1>4. use' = [v \in Uses |-> IF v = u THEN [old EXCEPT !.step = next] ELSE use[v]]
    BY <1>1 DEF UseShape, old
<1> QED BY <1>1, <1>3, <1>4 DEF c, old

\* What a step changes of the uses: one finds a credential, has an answer, hands it
\* over or ends.
LEMMA UseStep ==
    ASSUME UseShape, [Next]_vars
    PROVE  /\ UseShape'
           /\ \A u \in Uses : \A c : Has(u, c)' => Has(u, c) \/ c \in vault
<1>1. CASE UNCHANGED use
    BY <1>1 DEF UseShape, Has
<1>2. ASSUME NEW u \in Uses, NEW step, NEW credential,
             use' = [v \in Uses |-> IF v = u THEN [step |-> step, credential |-> credential] ELSE use[v]]
      PROVE  /\ UseShape'
             /\ use'[u].step = step /\ use'[u].credential = credential
             /\ \A v \in Uses \ {u} : use'[v] = use[v]
    <2>1. \A v \in Uses : use'[v] = IF v = u THEN [step |-> step, credential |-> credential] ELSE use[v]
        BY <1>2
    <2>2. \A v \in Uses : use'[v] = [step |-> use'[v].step, credential |-> use'[v].credential]
        BY <2>1 DEF UseShape
    <2>3. use' = [v \in Uses |-> use'[v]]
        BY <1>2
    <2>4. UseShape'
        BY <2>2, <2>3 DEF UseShape
    <2> QED BY <2>1, <2>4
<1>3. ASSUME NEW u \in Uses, FindActive(u) \/ GetSecret(u) \/ Operate(u) \/ UseEnds(u)
      PROVE  /\ UseShape'
             /\ \A v \in Uses : \A c : Has(v, c)' => Has(v, c) \/ c \in vault
    <2>1. CASE FindActive(u)
        <3>1. PICK c : use' = [use EXCEPT ![u] = [step |-> "get", credential |-> c]]
            BY <2>1 DEF FindActive
        <3>2. use' = [v \in Uses |-> IF v = u THEN [step |-> "get", credential |-> c] ELSE use[v]]
            BY <3>1 DEF UseShape
        <3> QED BY <1>2, <3>2 DEF Has
    <2>2. CASE GetSecret(u)
        <3>1. UseGoes(u, "get", "got") /\ use[u].credential \in vault
            BY <2>2 DEF GetSecret
        <3>2. use' = [v \in Uses |-> IF v = u THEN [step |-> "got", credential |-> use[u].credential]
                                              ELSE use[v]]
            BY <3>1, UseFields
        <3> QED BY <1>2, <3>1, <3>2 DEF Has
    <2>3. CASE Operate(u)
        <3>1. UseGoes(u, "got", "operate")
            BY <2>3 DEF Operate
        <3>2. /\ use' = [v \in Uses |-> IF v = u THEN [step |-> "operate", credential |-> use[u].credential]
                                                 ELSE use[v]]
              /\ use[u].step = "got"
            BY <3>1, UseFields
        <3> QED BY <1>2, <3>2 DEF Has
    <2>4. CASE UseEnds(u)
        <3>1. use' = [v \in Uses |-> IF v = u THEN [step |-> "find", credential |-> None] ELSE use[v]]
            BY <2>4 DEF UseEnds, UseShape
        <3> QED BY <1>2, <3>1 DEF Has
    <2> QED BY <1>3, <2>1, <2>2, <2>3, <2>4
<1>4. UNCHANGED use \/ \E u \in Uses : FindActive(u) \/ GetSecret(u) \/ Operate(u) \/ UseEnds(u)
    <2>1. ASSUME NEW r \in Rotations, Register(r) PROVE UNCHANGED use
        BY <2>1 DEF Register, NextVersion, WriteSecret, SavePending, DiscardSecret
    <2>2. ASSUME NEW r \in Rotations, Rotate(r) PROVE UNCHANGED use
        BY <2>2 DEF Rotate, TestSecret, Activate, RemoveSecret, RecordCleanupRequired
    <2>3. ASSUME NEW r \in Rotations, RecordTest(r) PROVE UNCHANGED use
        BY <2>3 DEF RecordTest
    <2>4. ASSUME NEW v \in Revocations, Revoke(v) PROVE UNCHANGED use
        BY <2>4 DEF Revoke, RevokeActive, RemoveSecret, RecordCleanupRequired
    <2> QED BY <2>1, <2>2, <2>3, <2>4 DEF Next, CredentialNext, Use, credentialVars, vars
<1> QED BY <1>1, <1>3, <1>4

\* Nobody gains a secret whose withdrawal was answered: whoever has one after a step
\* had it before.
THEOREM WithdrawnSecretsStayIn == Spec => WithdrawnIsUnusable
<1>1. Init => UseShape
    BY DEF Init, CredentialInit, UseShape
<1>2. UseShape /\ [Next]_vars => UseShape'
    BY UseStep
<1>3. CredentialInv /\ UseShape /\ [Next]_vars =>
          [\A u \in Uses : \A c \in Withdrawn : Has(u, c)' => Has(u, c)]_credentialVars
    <2> SUFFICES ASSUME CredentialInv, UseShape, [Next]_vars,
                        NEW u \in Uses, NEW c \in Withdrawn, Has(u, c)'
                 PROVE  Has(u, c)
        OBVIOUS
    <2>1. PICK k \in Calls : call[k].step = "answered" /\ call[k].credential = c
        BY DEF Withdrawn
    <2>2. c \notin vault
        BY <2>1, CredentialAssumption DEF CredentialInv, WithdrawalsInv, RowsInv
    <2> QED BY <2>2, UseStep
<1> QED BY <1>1, <1>2, <1>3, CredentialInvariance, PTL DEF Spec, WithdrawnIsUnusable
-----------------------------------------------------------------------------
(* Routes over the published fallbacks                                       *)

Graphs == [Models -> Seq(Models) \cup {None}]

\* The chains a route has left are walks of the graph it was given, from one model
\* from which every walk is valid.
RouteInv(step) ==
    step.step # "idle" =>
        /\ step = [step |-> step.step, graph |-> step.graph, chains |-> step.chains]
        /\ step.graph \in Graphs
        /\ \E model \in Models :
               /\ ValidFrom(step.graph, model)
               /\ step.chains \in Seq(WalksFrom(step.graph, model))
               /\ step.chains # <<>>

RoutingInv ==
    /\ catalog \in Graphs
    /\ DOMAIN route = Routes
    /\ \A r \in Routes : RouteInv(route[r])

LEMMA BoundedIsShort ==
    ASSUME NEW S, NEW n \in Nat, NEW s
    PROVE  s \in BoundedSeq(S, n) <=> s \in Seq(S) /\ Len(s) <= n
<1>1. s \in BoundedSeq(S, n) <=> \E m \in 0..n : s \in [1..m -> S]
    BY DEF BoundedSeq, SeqOf
<1>2. ASSUME NEW m \in 0..n, s \in [1..m -> S] PROVE s \in Seq(S) /\ Len(s) <= n
    BY <1>2
<1>3. ASSUME s \in Seq(S), Len(s) <= n PROVE Len(s) \in 0..n /\ s \in [1..Len(s) -> S]
    BY <1>3
<1> QED BY <1>1, <1>2, <1>3

\* What a walk is, step by step.
LEMMA WalkSteps ==
    ASSUME NEW graph, NEW model, NEW walk
    PROVE  walk \in WalksFrom(graph, model) <=>
               /\ walk \in Seq(Models) /\ Len(walk) \in 1..(MaxHops + 2) /\ walk[1] = model
               /\ \A i \in 2..Len(walk) :
                      graph[walk[i - 1]] # None /\ walk[i] \in ToSet(graph[walk[i - 1]])
<1>1. walk \in BoundedSeq(Models, MaxHops + 2) <=> walk \in Seq(Models) /\ Len(walk) <= MaxHops + 2
    BY BoundedIsShort DEF MaxHops
<1> DEFINE Follows == \A i \in 2..Len(walk) :
                          graph[walk[i - 1]] # None /\ walk[i] \in ToSet(graph[walk[i - 1]])
<1>2. walk \in WalksFrom(graph, model) <=>
          walk \in BoundedSeq(Models, MaxHops + 2) /\ walk # <<>> /\ walk[1] = model /\ Follows
    BY DEF WalksFrom
<1> HIDE DEF Follows
<1> DEFINE n == Len(walk)
<1>3. ASSUME walk \in Seq(Models)
      PROVE  n \in Nat /\ (n = 0 => walk = <<>>) /\ (walk = <<>> => n = 0)
    BY <1>3
<1> HIDE DEF n
<1>4. ASSUME n \in Nat PROVE n \in 1..5 <=> n # 0 /\ n <= 5
    BY <1>4
<1>5. MaxHops + 2 = 5
    BY DEF MaxHops
<1>6. walk \in WalksFrom(graph, model) <=>
          walk \in Seq(Models) /\ n <= 5 /\ walk # <<>> /\ walk[1] = model /\ Follows
    BY <1>1, <1>2, <1>5 DEF n
<1>7. walk \in WalksFrom(graph, model) <=>
          walk \in Seq(Models) /\ n \in 1..5 /\ walk[1] = model /\ Follows
    BY <1>3, <1>4, <1>6
<1> QED BY <1>5, <1>7 DEF Follows, n

LEMMA FirstWalk ==
    ASSUME NEW graph, NEW model \in Models
    PROVE  <<model>> \in WalksFrom(graph, model)
<1>1. <<model>> \in Seq(Models) /\ Len(<<model>>) = 1 /\ <<model>>[1] = model
    OBVIOUS
<1>2. 2..1 = {} /\ 1 \in 1..(MaxHops + 2)
    BY DEF MaxHops
<1> QED BY <1>1, <1>2, WalkSteps

\* A valid walk goes on to any fallback of the model where it ends.
LEMMA LongerWalk ==
    ASSUME NEW graph \in Graphs, NEW model, ValidFrom(graph, model),
           NEW walk \in WalksFrom(graph, model)
    PROVE  /\ graph[Last(walk)] \in Seq(Models)
           /\ \A i \in DOMAIN graph[Last(walk)] :
                  Append(walk, graph[Last(walk)][i]) \in WalksFrom(graph, model)
<1> DEFINE n == Len(walk)
<1>1. /\ walk \in Seq(Models) /\ n \in 1..(MaxHops + 2) /\ walk[1] = model
      /\ \A i \in 2..n : graph[walk[i - 1]] # None /\ walk[i] \in ToSet(graph[walk[i - 1]])
    BY WalkSteps
<1>2. n <= MaxHops + 1 /\ graph[walk[n]] # None
    BY DEF ValidFrom, Last
<1>3. walk[n] \in Models
    BY <1>1
<1>4. graph[walk[n]] \in Seq(Models)
    BY <1>2, <1>3 DEF Graphs
<1>5. ASSUME NEW i \in DOMAIN graph[walk[n]]
      PROVE  Append(walk, graph[walk[n]][i]) \in WalksFrom(graph, model)
    <2> DEFINE next == graph[walk[n]][i]  longer == Append(walk, next)
    <2>1. next \in Models /\ next \in ToSet(graph[walk[n]])
        BY <1>4, <1>5 DEF ToSet
    <2> HIDE DEF next
    <2>2. /\ longer \in Seq(Models) /\ Len(longer) = n + 1 /\ longer[n + 1] = next
          /\ \A j \in 1..n : longer[j] = walk[j]
        BY <1>1, <2>1
    <2> HIDE DEF longer
    <2>3. Len(longer) \in 1..(MaxHops + 2) /\ longer[1] = model
        BY <1>1, <1>2, <2>2 DEF MaxHops
    <2>4. ASSUME NEW j \in 2..Len(longer)
          PROVE  graph[longer[j - 1]] # None /\ longer[j] \in ToSet(graph[longer[j - 1]])
        <3>1. CASE j = n + 1
            <4>1. longer[j - 1] = walk[n] /\ longer[j] = next
                BY <1>1, <2>2, <3>1
            <4> QED BY <1>2, <2>1, <4>1
        <3>2. CASE j # n + 1
            <4>1. j \in 2..n /\ j - 1 \in 1..n /\ j \in 1..n
                BY <1>1, <2>2, <3>2
            <4>2. longer[j - 1] = walk[j - 1] /\ longer[j] = walk[j]
                BY <2>2, <4>1
            <4> QED BY <1>1, <4>1, <4>2
        <3> QED BY <3>1, <3>2
    <2>5. longer \in WalksFrom(graph, model)
        BY <2>2, <2>3, <2>4, WalkSteps
    <2> QED BY <2>5 DEF longer, next
<1> QED BY <1>4, <1>5 DEF Last

-----------------------------------------------------------------------------
(* What the steps of a route keep                                            *)

\* A catalog that is published is a graph.
LEMMA CatalogTyped ==
    ASSUME catalog \in Graphs, NEW p \in Publications
    PROVE  WithModel(p) \in Graphs
<1>1. Published[p].model \in Models /\ Published[p].fallbacks \in Seq(Models)
    BY CatalogAssumption
<1> QED BY <1>1 DEF WithModel, Graphs

\* One route goes on; the others are as they were.
LEMMA RouteGoes ==
    ASSUME RoutingInv, NEW r \in Routes, NEW next, To(r, next), RouteInv(next)
    PROVE  RoutingInv'
<1>1. route' = [route EXCEPT ![r] = next] /\ catalog' = catalog
    BY DEF To
<1>2. DOMAIN route' = Routes /\ \A q \in Routes : route'[q] = next \/ route'[q] = route[q]
    BY <1>1 DEF RoutingInv
<1>3. ASSUME NEW q \in Routes PROVE RouteInv(route[q])'
    <2>1. RouteInv(route'[q])
        BY <1>2 DEF RoutingInv
    <2> QED BY <2>1 DEF RouteInv, ValidFrom, WalksFrom
<1> QED BY <1>1, <1>2, <1>3 DEF RoutingInv

LEMMA RouteStays == RouteInv(NotRouting)
    BY DEF RouteInv, NotRouting

LEMMA BeginRouteStep ==
    ASSUME RoutingInv, NEW r \in Routes, BeginRoute(r)
    PROVE  RoutingInv'
<1>1. PICK model \in Models :
          /\ ValidFrom(catalog, model)
          /\ To(r, [step |-> "select", graph |-> catalog, chains |-> <<<<model>>>>])
    BY DEF BeginRoute, Routable
<1> DEFINE next == [step |-> "select", graph |-> catalog, chains |-> <<<<model>>>>]
<1>2. <<<<model>>>> \in Seq(WalksFrom(catalog, model)) /\ <<<<model>>>> # <<>>
    <2>1. <<model>> \in WalksFrom(catalog, model)
        BY FirstWalk
    <2> DEFINE walk == <<model>>
    <2> HIDE DEF walk
    <2>2. walk \in WalksFrom(catalog, model) => <<walk>> \in Seq(WalksFrom(catalog, model)) /\ <<walk>> # <<>>
        OBVIOUS
    <2> QED BY <2>1, <2>2 DEF walk
<1>3. RouteInv(next)
    <2> DEFINE chains == <<<<model>>>>
    <2>1. chains \in Seq(WalksFrom(catalog, model)) /\ chains # <<>>
        BY <1>2
    <2> HIDE DEF chains
    <2>2. RouteInv([step |-> "select", graph |-> catalog, chains |-> chains])
        BY <1>1, <2>1 DEF RouteInv, RoutingInv
    <2> QED BY <2>2 DEF chains
<1> QED BY <1>1, <1>3, RouteGoes

LEMMA SelectStep ==
    ASSUME RoutingInv, NEW r \in Routes, Select(r)
    PROVE  RoutingInv'
<1> DEFINE old == route[r]
<1>1. old.step = "select" /\ RouteInv(old)
    BY DEF Select, RoutingInv
<1>2. To(r, [old EXCEPT !.step = "allowed", !.chains = <<Chain(r)>>])
    BY DEF Select
<1>3. Chain(r) = Head(old.chains)
    BY DEF Chain
<1> HIDE DEF old
<1>4. old.step # "idle" /\ old.graph \in Graphs
      /\ old = [step |-> old.step, graph |-> old.graph, chains |-> old.chains]
    BY <1>1 DEF RouteInv
<1>5. PICK model \in Models :
          ValidFrom(old.graph, model) /\ old.chains \in Seq(WalksFrom(old.graph, model)) /\ old.chains # <<>>
    BY <1>1, <1>4 DEF RouteInv
<1>6. <<Chain(r)>> \in Seq(WalksFrom(old.graph, model)) /\ <<Chain(r)>> # <<>>
    <2>1. Head(old.chains) \in WalksFrom(old.graph, model)
        BY <1>5
    <2> QED BY <1>3, <2>1
<1>7. ASSUME NEW chains, chains \in Seq(WalksFrom(old.graph, model)), chains # <<>>
      PROVE  RouteInv([old EXCEPT !.step = "allowed", !.chains = chains])
    <2>1. [old EXCEPT !.step = "allowed", !.chains = chains] =
              [step |-> "allowed", graph |-> old.graph, chains |-> chains]
        <3> DEFINE chosen == [old EXCEPT !.step = "allowed"]
        <3>1. chosen = [step |-> "allowed", graph |-> old.graph, chains |-> old.chains]
            BY <1>4
        <3>2. [old EXCEPT !.step = "allowed", !.chains = chains] = [chosen EXCEPT !.chains = chains]
            OBVIOUS
        <3> HIDE DEF chosen
        <3> QED BY <3>1, <3>2
    <2>2. RouteInv([step |-> "allowed", graph |-> old.graph, chains |-> chains])
        BY <1>4, <1>5, <1>7 DEF RouteInv
    <2> QED BY <2>1, <2>2
<1> QED BY <1>2, <1>6, <1>7, RouteGoes

LEMMA SkipStep ==
    ASSUME RoutingInv, NEW r \in Routes, Skip(r)
    PROVE  RoutingInv'
<1> DEFINE old == route[r]  walk == Chain(r)  fallbacks == old.graph[Last(walk)]
           longer == [i \in DOMAIN fallbacks |-> Append(walk, fallbacks[i])]
           chains == longer \o Tail(old.chains)
<1>1. old.step = "select" /\ RouteInv(old)
    BY DEF Skip, RoutingInv
<1>2. To(r, IF chains = <<>> THEN NotRouting ELSE [old EXCEPT !.chains = chains])
    BY DEF Skip
<1>3. walk = Head(old.chains)
    BY DEF Chain
<1> HIDE DEF old, walk
<1>4. old.step # "idle" /\ old.graph \in Graphs
      /\ old = [step |-> old.step, graph |-> old.graph, chains |-> old.chains]
    BY <1>1 DEF RouteInv
<1>5. PICK model \in Models :
          ValidFrom(old.graph, model) /\ old.chains \in Seq(WalksFrom(old.graph, model)) /\ old.chains # <<>>
    BY <1>1, <1>4 DEF RouteInv
<1> DEFINE Walks == WalksFrom(old.graph, model)
<1>6. walk \in Walks /\ Tail(old.chains) \in Seq(Walks)
    <2> HIDE DEF Walks
    <2>1. old.chains \in Seq(Walks) /\ old.chains # <<>>
        BY <1>5 DEF Walks
    <2> QED BY <1>3, <2>1
<1>7. fallbacks \in Seq(Models) /\ \A i \in DOMAIN fallbacks : Append(walk, fallbacks[i]) \in Walks
    BY <1>4, <1>5, <1>6, LongerWalk
<1> HIDE DEF fallbacks, Walks
<1>8. longer \in Seq(Walks)
    <2>1. DOMAIN fallbacks = 1..Len(fallbacks) /\ Len(fallbacks) \in Nat
        BY <1>7
    <2>2. longer \in [1..Len(fallbacks) -> Walks]
        BY <1>7, <2>1
    <2> HIDE DEF longer
    <2> QED BY <2>1, <2>2
<1> HIDE DEF longer
<1>9. chains \in Seq(Walks)
    BY <1>6, <1>8
<1> HIDE DEF chains
<1>10. ASSUME chains # <<>> PROVE RouteInv([old EXCEPT !.chains = chains])
    <2>1. [old EXCEPT !.chains = chains] = [step |-> old.step, graph |-> old.graph, chains |-> chains]
        BY <1>4
    <2>2. RouteInv([step |-> old.step, graph |-> old.graph, chains |-> chains])
        BY <1>4, <1>5, <1>9, <1>10 DEF RouteInv, Walks
    <2> QED BY <2>1, <2>2
<1> QED BY <1>2, <1>10, RouteStays, RouteGoes

LEMMA RoutingInvStep == RoutingInv /\ [Next]_vars => RoutingInv'
<1> SUFFICES ASSUME RoutingInv, [Next]_vars PROVE RoutingInv'
    OBVIOUS
<1>1. ASSUME UNCHANGED route, catalog' \in Graphs PROVE RoutingInv'
    <2>1. ASSUME NEW q \in Routes PROVE RouteInv(route[q])'
        <3>1. route'[q] = route[q] /\ RouteInv(route[q])
            BY <1>1 DEF RoutingInv
        <3>2. RouteInv(route'[q])
            BY <3>1
        <3> QED BY <3>2 DEF RouteInv, ValidFrom, WalksFrom
    <2> QED BY <1>1, <2>1 DEF RoutingInv
<1>2. CASE UNCHANGED <<route, catalog>>
    BY <1>1, <1>2 DEF RoutingInv
<1>3. ASSUME NEW p \in Publications, Publish(p) PROVE RoutingInv'
    BY <1>1, <1>2, <1>3, CatalogTyped
       DEF Publish, Check, PublishModel, PublicationFails, RoutingInv
<1>4. ASSUME NEW r \in Routes, RouteModel(r) PROVE RoutingInv'
    BY <1>4, BeginRouteStep, SelectStep, SkipStep, RouteStays, RouteGoes DEF RouteModel, RouteEnds
<1> QED BY <1>2, <1>3, <1>4 DEF Next, CheckProvider, PublishProvider, catalogVars, vars

\* A chain is a walk over the fallbacks of the catalog its route was given, within the
\* hops allowed and without a model twice, however publications raced.
THEOREM ChainsFollowFallbacks == Spec => []ChainsAreFallbacks
<1>1. Init => RoutingInv
    BY CatalogAssumption, RouteStays DEF Init, RoutingInv, Graphs
<1>2. ASSUME RoutingInv PROVE ChainsAreFallbacks
    <2> SUFFICES ASSUME NEW r \in Routes, route[r].step = "allowed"
                 PROVE  /\ Len(Chain(r)) <= MaxHops + 1 /\ IsInjective(Chain(r))
                        /\ Chain(r) \in WalksFrom(route[r].graph, Chain(r)[1])
        BY DEF ChainsAreFallbacks
    <2> DEFINE graph == route[r].graph
    <2>1. PICK model \in Models :
              /\ ValidFrom(graph, model)
              /\ route[r].chains \in Seq(WalksFrom(graph, model)) /\ route[r].chains # <<>>
        BY <1>2 DEF RoutingInv, RouteInv
    <2>2. Chain(r) \in WalksFrom(graph, model)
        BY <2>1 DEF Chain
    <2>3. Chain(r)[1] = model
        BY <2>2, WalkSteps
    <2> QED BY <2>1, <2>2, <2>3 DEF ValidFrom
<1> QED BY <1>1, <1>2, RoutingInvStep, PTL DEF Spec
=============================================================================
