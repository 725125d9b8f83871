----------------------------- MODULE MCLibrary -----------------------------
(* Two hosts that share the folder, the first with three threads.          *)
EXTENDS Library, TLC

CONSTANTS h1, h2, t1, t2, t3, t4

MCThreads == {t1, t2, t3, t4}

MCHosts == {h1, h2}
MCHostOf == t1 :> h1 @@ t2 :> h1 @@ t3 :> h1 @@ t4 :> h2
Symmetry == Permutations({t1, t2, t3})

\* Of parameters fetched while a host used them, or made by two hosts at one
\* time, nothing is claimed but what is about one host; and the next fetch with
\* no host running leaves the same states behind it as if there had been none
\* before.  Such states are followed as far as the files are concerned.
AtTheFiles ==
  /\ \A h \in Hosts : host[h].verifier = NoVerifier
  /\ \A t \in Threads : ~ Inside(t) /\ ~ At(t, "vparams")

Unspoilt ==
  /\ live \/ overlap => AtTheFiles
  /\ live => fetch = "DEGREE" /\ \A h \in Hosts : host[h].prover = NoSetup
=============================================================================
