----------------------------- MODULE MCServices -----------------------------
(***************************************************************************)
(* Model checking of five services of the API that share no row: sessions, *)
(* idempotency records, model providers, stored files and the transcript   *)
(* of a run.  A behaviour exercises one of them, chosen at its start, and  *)
(* leaves the others where they began: the states of the run are the sum   *)
(* of theirs.                                                              *)
(***************************************************************************)
EXTENDS Sessions, Idempotency, ModelProviders, StoredFiles, Transcript

CONSTANTS a1, u1, l1, i1, i2, t1, t2, r1, r2, q1, q2, q3, q4, k1, k2, b1, b2

VARIABLE part   \* the service that moves

\* Three attempts of one key, the last with another body, and one that creates
\* a credential.
KeyOfRequest == [q \in Requests |-> IF q = q4 THEN k2 ELSE k1]
BodyOfRequest == [q \in Requests |-> IF q = q3 THEN b2 ELSE b1]

LinkedUser == [l \in Links |-> u1]

Parts == {"sessions", "commands", "providers", "images", "audio", "log", "browser"}

servicesVars == <<part, identityVars, idemVars, providerVars, fileVars, transcriptVars>>

Init ==
    /\ part \in Parts
    /\ IdentityInit /\ IdempotencyInit /\ ProvidersInit /\ FilesInit /\ TranscriptInit
    /\ part \notin {"log", "browser"} => turn.driver = "host"

\* The log is written beside sessions that are saved late; a browser follows a
\* run of fewer streams that leaves one place of its message free.
Next ==
    /\ UNCHANGED part
    /\ \/ part = "sessions" /\ IdentityNext /\ UNCHANGED <<idemVars, providerVars, fileVars, transcriptVars>>
       \/ part = "commands" /\ IdempotencyNext /\ UNCHANGED <<identityVars, providerVars, fileVars, transcriptVars>>
       \/ part = "providers" /\ ProvidersNext /\ UNCHANGED <<identityVars, idemVars, fileVars, transcriptVars>>
       \/ part = "images" /\ (ImageNext \/ FilesStop) /\ UNCHANGED <<identityVars, idemVars, providerVars, transcriptVars>>
       \/ part = "audio" /\ (AudioNext \/ FilesStop) /\ UNCHANGED <<identityVars, idemVars, providerVars, transcriptVars>>
       \/ part = "log" /\ (WriterNext \/ SessionNext) /\ UNCHANGED <<identityVars, idemVars, providerVars, fileVars>>
       \/ /\ part = "browser" /\ (WriterNext \/ ViewerNext) /\ turn'.streams < MaxStreams /\ (FreeIdx # {})'
          /\ UNCHANGED <<identityVars, idemVars, providerVars, fileVars>>

Spec == Init /\ [][Next]_servicesVars

=============================================================================
