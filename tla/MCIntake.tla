------------------------------- MODULE MCIntake -------------------------------
EXTENDS Ingestion, TLC

CONSTANTS a1, a2, a3, t1, t2, t3, clean, infected, jobA, jobB, text

\* a2 retries a1's bytes and a3 brings infected ones; t2 takes over from t1 under
\* the same job id, t3 under a new one.
MCAdmissions == {a1, a2, a3}
MCContents == {clean, infected}
MCInfected == {infected}
MCOffered == (a1 :> clean) @@ (a2 :> clean) @@ (a3 :> infected)
MCAttempts == {t1, t2, t3}
MCJobId == (t1 :> jobA) @@ (t2 :> jobA) @@ (t3 :> jobB)
MCFence == (t1 :> 1) @@ (t2 :> 2) @@ (t3 :> 3)
MCNormal == (clean :> text) @@ (infected :> Unparsable)
=============================================================================
