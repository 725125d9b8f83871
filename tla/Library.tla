------------------------------- MODULE Library -------------------------------
(***************************************************************************)
(* The C library (ffi/src) in the host programs that load it, and what its *)
(* prover and verifier (Prover::from_fpath, zkevm/src/verifier.rs) take    *)
(* from the folder of the KZG parameters, which download_params.sh may     *)
(* replace at any time.  PROVER and VERIFIER are statics that the threads  *)
(* of a host use with no lock.  A panic is taken to end the host, which    *)
(* may be started again.  On this toolchain one that leaves an extern "C"  *)
(* function is undefined: of a host that lives on nothing is said.         *)
(*                                                                         *)
(* A parameter file is absent, partial, of full length with a hole, or     *)
(* holds the parameters of one setup; the writing and reading of its       *)
(* pieces is in ParamsFile.                                                *)
(***************************************************************************)
EXTENDS Prover, Integers

CONSTANTS
  Hosts,
  Threads,
  HostOf       \* the host each thread belongs to

ASSUME LibraryAssumption == HostOf \in [Threads -> Hosts]

VARIABLES
  paramSeed,   \* PARAM_SEED is not empty
  seedThere,   \* the seed file is there
  file,        \* what is in params<DEGREE> and params<AGG_DEGREE>
  fetch,       \* how far download_params.sh has got
  host,        \* the statics of each host
  thread,      \* what each thread of a host is doing in the library
  proofs,      \* setups of the proofs made since the last fetch began, with
               \* no data race: nothing is known of those made after one
  live,        \* history: they were fetched while a host was using them
  overlap,     \* history: two hosts were making one of the files at one time
  refused      \* history: a verifier with the key of one of these proofs has
               \* refused one of them

folderVars == <<file, fetch>>
given == <<paramSeed, seedThere>>
history == <<live, overlap, refused>>
vars == <<given, folderVars, host, thread, proofs, history>>

Degrees == <<"DEGREE", "AGG_DEGREE">>
DegreeNames == {"DEGREE", "AGG_DEGREE"}

\* The setups parameters come from: the ceremony, PARAM_SEED, or a number
\* drawn for the file.  A drawn setup is named by its file: two draws never
\* agree, and no two of one file are ever compared.  Parameters read from a
\* file with a hole are of no setup, and pass for parameters all the same.
Holed == "holed"
Setups == {"ceremony", "seed", Holed} \cup DegreeNames

\* Mutant: the number is drawn whatever PARAM_SEED says.
Origin_Drawn(d) == d

\* create_params.  A host whose PARAM_SEED is too short for it dies instead.
Origin(d) == IF paramSeed THEN "seed" ELSE d

\* A proof is of no drawn setup: the files of its prover are of one.
ProofSetups == Setups \ DegreeNames

NoSetup == "none"
NoVerifier == [params |-> NoSetup, vk |-> NoSetup]

\* "raced": two threads have used the keys of the prover at one time, one of
\* them to change them.  From then on the host may get anything for a proof.
Fresh == [logger |-> FALSE, prover |-> NoSetup, verifier |-> NoVerifier,
          keys |-> {}, raced |-> FALSE]

\* "held" has the setups of the parameters loaded so far, "vk" the key that
\* init_verifier has read, "step" the item of a proving call.
Out == [pc |-> "out", held |-> <<>>, vk |-> NoSetup, step |-> 1]

\* "cut": another host has truncated the file under the writer.
Loading == {"params", "create", "write", "cut", "unlinked"}
Proving == {"call", "keygen", "prove"}
Places == {"out", "seed", "vparams"} \cup Loading \cup Proving

Init ==
  /\ paramSeed \in BOOLEAN /\ seedThere \in BOOLEAN
  /\ file = [d \in DegreeNames |-> "absent"]
  /\ fetch = "never"
  /\ host = [h \in Hosts |-> Fresh]
  /\ thread = [t \in Threads |-> Out]
  /\ proofs = {}
  /\ live = FALSE /\ overlap = FALSE /\ refused = FALSE

Here(t) == host[HostOf[t]]
At(t, pc) == thread[t].pc = pc
Mates(t) == {u \in Threads \ {t} : HostOf[u] = HostOf[t]}
Inside(u) == thread[u].pc \in Proving
Fetching == fetch \in DegreeNames

\* The file a thread loads next.
NextFile(t) == Degrees[Len(thread[t].held) + 1]
FullLength(d) == file[d] \in Setups

MakersOf(d) == {u \in Threads : thread[u].pc \in {"write", "cut"} /\ NextFile(u) = d}

\* What load_params gets from a file.  A writer that was cut may have made a
\* hole before one that began to read a file of full length gets there.
Readable(d) ==
  (Setups \cap {file[d]}) \cup {Holed : u \in {v \in MakersOf(d) : At(v, "cut")}}

\* A panic in a library call, or the death of the host for another reason.
Dies(h) ==
  /\ host' = [host EXCEPT ![h] = Fresh]
  /\ thread' = [t \in Threads |-> IF HostOf[t] = h THEN Out ELSE thread[t]]
  /\ UNCHANGED <<given, folderVars, proofs, history>>

Panics(t) == Dies(HostOf[t])

\* A thread steps on inside the library and changes nothing else.
StepTo(t, to) ==
  /\ thread' = [thread EXCEPT ![t] = to]
  /\ UNCHANGED <<given, folderVars, host, proofs, history>>

-----------------------------------------------------------------------------
(* init_prover.                                                            *)

\* env_logger::init sets the logger of the process once and for all.
SetLogger(t) ==
  /\ ~ Here(t).logger
  /\ host' = [host EXCEPT ![HostOf[t]].logger = TRUE]
  /\ live' = (live \/ Fetching)

BeginProver(t) ==
  /\ At(t, "out")
  /\ SetLogger(t)
  /\ thread' = [thread EXCEPT ![t].pc = "params"]
  /\ UNCHANGED <<given, folderVars, proofs, overlap, refused>>

\* The second of two calls of init_prover or init_verifier.
LoggerSet(t) == At(t, "out") /\ Here(t).logger /\ Panics(t)

\* Mutant: the parameters of one file are enough.
Hold_First(t, setup) ==
  [thread[t] EXCEPT !.held = Append(@, setup), !.pc = "seed"]

\* Parameters in hand: the next file, or on to the seed.
Hold(t, setup) ==
  LET held == Append(thread[t].held, setup)
  IN  [thread[t] EXCEPT !.held = held,
                        !.pc = IF Len(held) = Len(Degrees) THEN "seed" ELSE "params"]

\* Mutant: parameters are made though the file has some.
LoadParams_MadeAnew(t) ==
  /\ At(t, "params") /\ FullLength(NextFile(t))
  /\ StepTo(t, Hold(t, Origin(NextFile(t))))

\* load_or_create_params: the file is loaded ...
LoadParams(t) ==
  /\ At(t, "params")
  /\ \E setup \in Readable(NextFile(t)) : StepTo(t, Hold(t, setup))

\* ... or is missing or of the wrong length, and is made.
ParamsUnusable(t) ==
  /\ At(t, "params") /\ ~ FullLength(NextFile(t))
  /\ StepTo(t, [thread[t] EXCEPT !.pc = "create"])

\* File::create truncates what is there by now, and what others are writing.
CreateParams(t) ==
  LET d == NextFile(t)
      others == MakersOf(d)
  IN  /\ At(t, "create")
      /\ file' = [file EXCEPT ![d] = "partial"]
      /\ thread' = [u \in Threads |->
           IF u = t THEN [thread[t] EXCEPT !.pc = "write"]
           ELSE IF u \in others THEN [thread[u] EXCEPT !.pc = "cut"] ELSE thread[u]]
      /\ overlap' = (overlap \/ others # {})
      /\ UNCHANGED <<given, fetch, host, proofs, live, refused>>

\* The last to truncate the file writes all of it.
WriteParams(t) ==
  LET d == NextFile(t)
  IN  /\ At(t, "write")
      /\ file' = [file EXCEPT ![d] = Origin(d)]
      /\ thread' = [thread EXCEPT ![t] = Hold(t, Origin(d))]
      /\ UNCHANGED <<given, fetch, host, proofs, history>>

\* One that was cut wrote on at its own offset.  What lies below is lost, if
\* no other writer fills it: the file ends short, with a hole (two draws mixed
\* are as bad), or whole.
WriteCut(t) ==
  LET d == NextFile(t)
  IN  /\ At(t, "cut")
      /\ \E content \in IF file[d] = "seed" THEN {"seed"} ELSE {file[d], Holed, Origin(d)} :
           file' = [file EXCEPT ![d] = content]
      /\ thread' = [thread EXCEPT ![t] = Hold(t, Origin(d))]
      /\ UNCHANGED <<given, fetch, host, proofs, history>>

\* The file was removed while it was written: the bytes go nowhere.
WriteUnlinked(t) ==
  /\ At(t, "unlinked")
  /\ StepTo(t, Hold(t, Origin(NextFile(t))))

\* load_seed fails, and expect panics: the library does not make a seed.
SeedMissing(t) == At(t, "seed") /\ ~ seedThere /\ Panics(t)

HasHole(t) == Holed \in {thread[t].held[1], thread[t].held[2]}
SetupsMatch(t) == thread[t].held[1] = thread[t].held[2] /\ ~ HasHole(t)

\* debug_assert_eq of from_params_and_seed; the release profile keeps it.
AssertionFails(t) ==
  At(t, "seed") /\ seedThere /\ ~ SetupsMatch(t) /\ Panics(t)

\* PROVER.set.  The assertion compares points at the end of each file, which
\* a hole before them may leave as they were.
ProverReady(t) ==
  /\ At(t, "seed") /\ seedThere /\ (SetupsMatch(t) \/ HasHole(t))
  /\ host' = [host EXCEPT ![HostOf[t]].prover =
       IF HasHole(t) THEN Holed ELSE thread[t].held[1]]
  /\ thread' = [thread EXCEPT ![t] = Out]
  /\ UNCHANGED <<given, folderVars, proofs, history>>

-----------------------------------------------------------------------------
(* create_agg_proof and create_agg_proof_multi: the program of an          *)
(* aggregation; debug_dir is empty, so that nothing is stored.             *)

CallProgram == <<ProveCircuit("super"), Convert("super"), ProveCircuit("agg")>>

Item(t) == CallProgram[thread[t].step]
AtItem(t) == At(t, "call") /\ thread[t].step \in DOMAIN CallProgram
KeyOf(t) == Item(t).arg[1]

BeginCall(t) ==
  /\ At(t, "out") /\ Here(t).prover # NoSetup
  /\ StepTo(t, [thread[t] EXCEPT !.pc = "call"])

\* PROVER.get_mut().unwrap().
NotInitialised(t) == At(t, "out") /\ Here(t).prover = NoSetup /\ Panics(t)

\* The trace cannot be parsed or proved, which unwrap turns into a panic.
CallPanics(t) == AtItem(t) /\ Proves(Item(t)) /\ Panics(t)

\* Mutant: the key is made whether it is there or not.
KeyMissing_Always(t) ==
  /\ AtItem(t) /\ Proves(Item(t))
  /\ StepTo(t, [thread[t] EXCEPT !.pc = "keygen"])

\* contains_key, agg_pk.is_none(): the key is made, which takes a while ...
KeyMissing(t) ==
  /\ AtItem(t) /\ Proves(Item(t)) /\ KeyOf(t) \notin Here(t).keys
  /\ StepTo(t, [thread[t] EXCEPT !.pc = "keygen"])

KeyThere(t) ==
  /\ AtItem(t) /\ Proves(Item(t)) /\ KeyOf(t) \in Here(t).keys
  /\ StepTo(t, [thread[t] EXCEPT !.pc = "prove"])

\* The keys change, with other threads inside the prover or not.
SetKeys(t, changed) ==
  host' = [host EXCEPT
    ![HostOf[t]].keys = KeysAfter(Item(t), @),
    ![HostOf[t]].raced = @ \/ (changed /\ \E u \in Mates(t) : Inside(u))]

\* ... and then inserted, in place of one that another thread has inserted.
InsertKey(t) ==
  /\ At(t, "keygen")
  /\ SetKeys(t, TRUE)
  /\ thread' = [thread EXCEPT ![t].pc = "prove"]
  /\ UNCHANGED <<given, folderVars, proofs, history>>

\* create_proof with the key borrowed from the map.
ProveItem(t) ==
  /\ At(t, "prove")
  /\ StepTo(t, [thread[t] EXCEPT !.pc = "call", !.step = @ + 1])

\* convert_target_proof, which releases the key under OPT_MEM.
ConvertItem(t) ==
  /\ AtItem(t) /\ ~ Proves(Item(t))
  /\ SetKeys(t, KeysAfter(Item(t), Here(t).keys) # Here(t).keys)
  /\ thread' = [thread EXCEPT ![t].step = @ + 1]
  /\ UNCHANGED <<given, folderVars, proofs, history>>

\* The proof goes to the host.
EndCall(t) ==
  /\ At(t, "call") /\ ~ AtItem(t)
  /\ proofs' = IF Here(t).raced THEN proofs ELSE proofs \cup {Here(t).prover}
  /\ thread' = [thread EXCEPT ![t] = Out]
  /\ UNCHANGED <<given, folderVars, host, history>>

-----------------------------------------------------------------------------
(* init_verifier and verify_agg_proof.                                     *)

\* Mutant: init_verifier leaves the logger to the host.
BeginVerifier_NoLogger(t) ==
  /\ At(t, "out")
  /\ \E key \in ProofSetups :
       thread' = [thread EXCEPT ![t].pc = "vparams", ![t].vk = key]
  /\ live' = (live \/ Fetching)
  /\ UNCHANGED <<given, folderVars, host, proofs, overlap, refused>>

\* The logger, and the key from a file: that of any proof, be it one made from
\* a folder of another setup or before the last fetch.
BeginVerifier(t) ==
  /\ At(t, "out")
  /\ SetLogger(t)
  /\ \E key \in ProofSetups :
       thread' = [thread EXCEPT ![t].pc = "vparams", ![t].vk = key]
  /\ UNCHANGED <<given, folderVars, proofs, overlap, refused>>

\* Verifier::from_fpath: load_params makes no file.
LoadVerifier(t) ==
  /\ At(t, "vparams") /\ Len(thread[t].held) < 2
  /\ \E setup \in Readable(NextFile(t)) :
       StepTo(t, [thread[t] EXCEPT !.held = Append(@, setup)])

VerifierUnloadable(t) ==
  /\ At(t, "vparams") /\ Len(thread[t].held) < 2 /\ ~ FullLength(NextFile(t))
  /\ Panics(t)

\* VERIFIER = Some(..), which keeps the parameters of both files.
VerifierReady(t) ==
  /\ At(t, "vparams") /\ Len(thread[t].held) = 2
  /\ host' = [host EXCEPT ![HostOf[t]].verifier =
       [params |-> thread[t].held[2], vk |-> thread[t].vk]]
  /\ thread' = [thread EXCEPT ![t] = Out]
  /\ UNCHANGED <<given, folderVars, proofs, history>>

\* verify_proof with the verifier's key, whatever key came with the proof.  Of
\* parameters with a hole the worst is assumed.
Accepts(v, setup) == setup = v.params /\ setup = v.vk /\ setup # Holed

Verify(t) ==
  LET v == Here(t).verifier
  IN  /\ At(t, "out") /\ v # NoVerifier
      /\ \E p \in proofs :
           refused' = (refused \/ (v.vk \in proofs /\ ~ Accepts(v, p)))
      /\ UNCHANGED <<given, folderVars, host, thread, proofs, live, overlap>>

\* The key file cannot be read, VERIFIER is None, the proof is no JSON, or its
\* instance or a key other than the verifier's is cut short.
VerifyPanics(t) == At(t, "out") /\ Panics(t)

-----------------------------------------------------------------------------
(* The surroundings.                                                       *)

\* download_params.sh: both files are removed, then fetched one by one.
FetchBegin ==
  /\ ~ Fetching
  /\ fetch' = "DEGREE"
  /\ file' = [d \in DegreeNames |-> IF d = "DEGREE" THEN "partial" ELSE "absent"]
  /\ thread' = [t \in Threads |->
       IF thread[t].pc \in {"write", "cut"}
       THEN [thread[t] EXCEPT !.pc = "unlinked"] ELSE thread[t]]
  /\ proofs' = {}
  /\ live' = \E h \in Hosts : host[h].logger
  /\ overlap' = FALSE /\ refused' = FALSE
  /\ UNCHANGED <<given, host>>

\* A file a host has truncated meanwhile may end as a mixture, that is, as
\* neither; this is left to what "live" excludes.
FetchFile ==
  /\ Fetching
  /\ \/ fetch = "DEGREE" /\ fetch' = "AGG_DEGREE"
        /\ file' = [file EXCEPT !["DEGREE"] = "ceremony", !["AGG_DEGREE"] = "partial"]
     \/ fetch = "AGG_DEGREE" /\ fetch' = "done"
        /\ file' = [file EXCEPT !["AGG_DEGREE"] = "ceremony"]
  /\ UNCHANGED <<given, host, thread, proofs, history>>

\* set -e: it stops at the first failure.
FetchStops ==
  /\ Fetching
  /\ fetch' = "stopped"
  /\ UNCHANGED <<given, file, host, thread, proofs, history>>

Step(t) ==
  \/ BeginProver(t) \/ LoggerSet(t)
  \/ LoadParams(t) \/ ParamsUnusable(t)
  \/ CreateParams(t) \/ WriteParams(t) \/ WriteCut(t) \/ WriteUnlinked(t)
  \/ SeedMissing(t) \/ AssertionFails(t) \/ ProverReady(t)
  \/ BeginCall(t) \/ NotInitialised(t) \/ CallPanics(t)
  \/ KeyMissing(t) \/ KeyThere(t) \/ InsertKey(t)
  \/ ProveItem(t) \/ ConvertItem(t) \/ EndCall(t)
  \/ BeginVerifier(t) \/ LoadVerifier(t) \/ VerifierUnloadable(t)
  \/ VerifierReady(t) \/ Verify(t) \/ VerifyPanics(t)

Next ==
  \/ \E t \in Threads : Step(t)
  \/ \E h \in Hosts : Dies(h)
  \/ FetchBegin \/ FetchFile \/ FetchStops

Spec == Init /\ [][Next]_vars

-----------------------------------------------------------------------------
TypeOK ==
  /\ paramSeed \in BOOLEAN /\ seedThere \in BOOLEAN
  /\ file \in [DegreeNames -> Setups \cup {"absent", "partial"}]
  /\ fetch \in DegreeNames \cup {"never", "done", "stopped"}
  /\ host \in [Hosts ->
       [logger : BOOLEAN, prover : Setups \cup {NoSetup},
        verifier : [params : Setups \cup {NoSetup}, vk : Setups \cup {NoSetup}],
        keys : SUBSET Keys, raced : BOOLEAN]]
  /\ \A t \in Threads :
       /\ thread[t] \in [pc : Places, held : Seq(Setups),
                         vk : Setups \cup {NoSetup}, step : Nat \ {0}]
       /\ thread[t].pc \in Loading => Len(thread[t].held) < 2
       /\ thread[t].pc = "seed" => Len(thread[t].held) = 2
  /\ proofs \subseteq Setups
  /\ live \in BOOLEAN /\ overlap \in BOOLEAN /\ refused \in BOOLEAN

(***************************************************************************)
(* A process is a prover or a verifier, never both: initialising the       *)
(* second, or the first again, at any time and from any thread, ends it.   *)
(***************************************************************************)
Initialises(t) == thread[t].pc \in Loading \cup {"seed", "vparams"}

OneRole ==
  \A h \in Hosts :
    /\ host[h].prover = NoSetup \/ host[h].verifier = NoVerifier
    /\ \A t \in Threads : HostOf[t] = h /\ Initialises(t) =>
         /\ host[h].prover = NoSetup /\ host[h].verifier = NoVerifier
         /\ \A u \in Mates(t) : ~ Initialises(u) /\ ~ Inside(u)

(***************************************************************************)
(* Calls on several threads need no lock once the prover is warm: without  *)
(* OPT_MEM, a host that has made both keys with no data race can have none *)
(* any more, so one aggregation ahead of the threads is enough.            *)
(***************************************************************************)
WarmIsSafe ==
  [][~ OptMem =>
       \A h \in Hosts :
         {"super", "agg"} \subseteq host[h].keys /\ ~ host[h].raced
           => ~ host'[h].raced]_vars

(***************************************************************************)
(* A prover never meets parameters of two setups, or with a hole, whose    *)
(* assertion would kill every host for good: if both files were fetched to *)
(* the end while no host was running; or if nothing was ever fetched, with *)
(* PARAM_SEED set, and no two hosts made one file at one time.  It then    *)
(* does not matter which hosts made them, or died in between.              *)
(***************************************************************************)
OneSource ==
  ~ live /\ (fetch = "done" \/ (fetch = "never" /\ paramSeed /\ ~ overlap))

SetupsAgree ==
  OneSource => \A t \in Threads : At(t, "seed") => SetupsMatch(t)

(***************************************************************************)
(* Proofs and verifiers of different hosts fit: unless the parameters were *)
(* fetched while hosts used them, or two hosts made one file at one time,  *)
(* no verifier refuses a proof made with no data race since the last       *)
(* fetch, whichever hosts made the files.  Its key may come from any of    *)
(* these proofs, but not from one of another setup: a verifier that was    *)
(* given the key of a folder since replaced refuses them all.              *)
(***************************************************************************)
RoundTrip == live \/ overlap \/ ~ refused
=============================================================================
