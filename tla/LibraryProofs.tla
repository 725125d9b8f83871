---------------------------- MODULE LibraryProofs ----------------------------
(***************************************************************************)
(* Theorems about the C library in its hosts, for any hosts and threads:   *)
(* its types, the one role of a process, the safety of a warm prover; and  *)
(* whatever hosts make the parameter files, every prover, verifier and     *)
(* proof is of the setup the files are of, or will be of.                  *)
(***************************************************************************)
EXTENDS Library, TLAPS

HostType ==
  [logger : BOOLEAN, prover : Setups \cup {NoSetup},
   verifier : [params : Setups \cup {NoSetup}, vk : Setups \cup {NoSetup}],
   keys : SUBSET Keys, raced : BOOLEAN]

ThreadType ==
  [pc : Places, held : Seq(Setups), vk : Setups \cup {NoSetup}, step : Nat \ {0}]

Starting == Loading \cup {"seed", "vparams"}

\* What a thread may be doing, given the statics of its host.
ThreadOK(t, r) ==
  /\ r \in ThreadType
  /\ r.pc \in Loading => Len(r.held) < 2
  /\ r.pc = "seed" => Len(r.held) = 2
  /\ r.pc = "out" => r = Out
  /\ r.pc # "out" => Here(t).logger
  /\ r.pc \in Starting =>
       Here(t).prover = NoSetup /\ Here(t).verifier = NoVerifier
  /\ r.pc \in Proving => Here(t).prover # NoSetup
  /\ r.pc \in {"keygen", "prove"} =>
       r.step \in DOMAIN CallProgram /\ Proves(CallProgram[r.step])
  /\ r.pc = "keygen" /\ ~ Here(t).raced =>
       CallProgram[r.step].arg[1] \notin Here(t).keys

HostOK(h) ==
  /\ ~ host[h].logger =>
       host[h].prover = NoSetup /\ host[h].verifier = NoVerifier
  /\ host[h].prover = NoSetup \/ host[h].verifier = NoVerifier

OneStarts ==
  \A t, u \in Threads :
    t # u /\ HostOf[t] = HostOf[u] =>
      thread[t].pc \notin Starting \/ thread[u].pc \notin Starting

RestOK ==
  /\ paramSeed \in BOOLEAN /\ seedThere \in BOOLEAN
  /\ file \in [DegreeNames -> Setups \cup {"absent", "partial"}]
  /\ fetch \in DegreeNames \cup {"never", "done", "stopped"}
  /\ proofs \subseteq Setups
  /\ live \in BOOLEAN /\ overlap \in BOOLEAN /\ refused \in BOOLEAN
  /\ host \in [Hosts -> HostType] /\ thread \in [Threads -> ThreadType]

LibInv ==
  /\ RestOK
  /\ \A t \in Threads : ThreadOK(t, thread[t])
  /\ \A h \in Hosts : HostOK(h)
  /\ OneStarts

-----------------------------------------------------------------------------
(* Constants.                                                              *)

LEMMA ProgramOfCall ==
  /\ DOMAIN CallProgram = 1..3
  /\ \A k \in 1..3 : CallProgram[k].arg[1] \in Keys
  /\ \A k \in 1..3 : Proves(CallProgram[k]) => CallProgram[k].arg[1] \in {"super", "agg"}
  /\ \A k \in 1..3 : ~ Proves(CallProgram[k]) => CallProgram[k].op = "convert"
  /\ \A k \in 1..3, keys \in SUBSET Keys : KeysAfter(CallProgram[k], keys) \in SUBSET Keys
BY DEF CallProgram, ProveCircuit, Convert, Proves, Keys, Circuits, KeysAfter

LEMMA SetupNames ==
  /\ NoSetup \notin Setups /\ "absent" \notin Setups /\ "partial" \notin Setups
  /\ Holed \in Setups /\ ProofSetups \subseteq Setups
  /\ \A d \in DegreeNames : Origin(d) \in Setups
  /\ Degrees \in Seq(DegreeNames) /\ Len(Degrees) = 2
  /\ DegreeNames = {"DEGREE", "AGG_DEGREE"}
  /\ Degrees[1] = "DEGREE" /\ Degrees[2] = "AGG_DEGREE"
BY DEF NoSetup, Setups, Holed, ProofSetups, DegreeNames, Origin, Degrees

LEMMA FreshIsOK ==
  /\ Fresh \in HostType
  /\ Out \in ThreadType
  /\ NoVerifier \in [params : Setups \cup {NoSetup}, vk : Setups \cup {NoSetup}]
BY DEF Fresh, HostType, Out, ThreadType, NoVerifier, Keys, Places

\* A thread's record with some fields changed.
LEMMA ThreadFields ==
  ASSUME NEW r \in ThreadType, NEW pc \in Places, NEW held \in Seq(Setups),
         NEW step \in Nat \ {0}, NEW vk \in Setups
  PROVE  /\ LET s == [r EXCEPT !.pc = pc, !.step = step]
            IN  s \in ThreadType /\ s.pc = pc /\ s.step = step /\ s.held = r.held
         /\ LET s == [r EXCEPT !.held = held, !.pc = pc]
            IN  s \in ThreadType /\ s.pc = pc /\ s.held = held
         /\ LET s == [r EXCEPT !.held = held]
            IN  s \in ThreadType /\ s.pc = r.pc /\ s.held = held /\ s.vk = r.vk
         /\ LET s == [r EXCEPT !.pc = pc, !.vk = vk]
            IN  s \in ThreadType /\ s.pc = pc /\ s.held = r.held /\ s.vk = vk
BY DEF ThreadType

LEMMA InitInv == Init => LibInv
<1> SUFFICES ASSUME Init PROVE LibInv
  OBVIOUS
<1>1. \A t \in Threads : ThreadOK(t, thread[t])
  BY FreshIsOK, LibraryAssumption
     DEF Init, ThreadOK, Out, Starting, Loading, Proving
<1>2. \A h \in Hosts : HostOK(h)
  BY FreshIsOK DEF Init, HostOK, Fresh
<1> QED
  BY <1>1, <1>2, FreshIsOK DEF Init, LibInv, OneStarts, RestOK, Out, Starting, Loading

-----------------------------------------------------------------------------
(* The steps.                                                              *)

\* A thread moves, and the statics of the hosts stay as they are.
LEMMA MoveKeeps ==
  ASSUME LibInv, NEW t \in Threads, NEW to, ThreadOK(t, to),
         to.pc \in Starting => thread[t].pc \in Starting,
         thread' = [thread EXCEPT ![t] = to], UNCHANGED <<given, host>>,
         fetch' = fetch, file' \in [DegreeNames -> Setups \cup {"absent", "partial"}],
         proofs' \subseteq Setups, UNCHANGED history
  PROVE  LibInv'
<1>1. /\ thread' \in [Threads -> ThreadType]
      /\ thread'[t] = to /\ \A u \in Threads \ {t} : thread'[u] = thread[u]
  BY DEF LibInv, RestOK, ThreadOK
<1>2. host' = host /\ (\A u \in Threads : Here(u)' = Here(u))
  BY DEF Here
<1>3. RestOK'
  BY <1>1 DEF LibInv, RestOK, given, history
<1>4. \A u \in Threads : ThreadOK(u, thread[u])'
  BY <1>1, <1>2 DEF LibInv, ThreadOK
<1>5. \A h \in Hosts : HostOK(h)'
  BY <1>2 DEF LibInv, HostOK
<1>6. OneStarts'
  BY <1>1 DEF LibInv, OneStarts
<1> QED
  BY <1>3, <1>4, <1>5, <1>6 DEF LibInv

LEMMA StepToKeeps ==
  ASSUME LibInv, NEW t \in Threads, NEW to, StepTo(t, to), ThreadOK(t, to),
         to.pc \in Starting => thread[t].pc \in Starting
  PROVE  LibInv'
<1>1. /\ file' \in [DegreeNames -> Setups \cup {"absent", "partial"}]
      /\ proofs' \subseteq Setups /\ UNCHANGED history
      /\ fetch' = fetch
  BY DEF StepTo, LibInv, RestOK, folderVars
<1> QED
  BY <1>1, MoveKeeps DEF StepTo

\* A thread moves, and the statics of its host change.
LEMMA HostKeeps ==
  ASSUME LibInv, NEW t \in Threads, NEW to \in ThreadType, NEW hr \in HostType,
         thread' = [thread EXCEPT ![t] = to],
         host' = [host EXCEPT ![HostOf[t]] = hr],
         UNCHANGED <<given, folderVars, proofs, overlap, refused>>, live' \in BOOLEAN,
         ~ hr.logger => hr.prover = NoSetup /\ hr.verifier = NoVerifier,
         hr.prover = NoSetup \/ hr.verifier = NoVerifier,
         Here(t)' = hr => ThreadOK(t, to)',
         Here(t)' = hr => \A u \in Mates(t) : Here(u)' = hr => ThreadOK(u, thread[u])',
         to.pc \in Starting =>
           thread[t].pc \in Starting \/ \A u \in Mates(t) : thread[u].pc \notin Starting
  PROVE  LibInv'
<1> USE LibraryAssumption
<1>1. /\ thread' \in [Threads -> ThreadType]
      /\ thread'[t] = to /\ \A u \in Threads \ {t} : thread'[u] = thread[u]
  BY DEF LibInv, RestOK
<1>2. /\ host' \in [Hosts -> HostType]
      /\ host'[HostOf[t]] = hr /\ \A h \in Hosts \ {HostOf[t]} : host'[h] = host[h]
  BY DEF LibInv, RestOK
<1>3. \A u \in Threads : Here(u)' = IF HostOf[u] = HostOf[t] THEN hr ELSE Here(u)
  BY <1>2 DEF Here
<1>4. RestOK'
  BY <1>1, <1>2 DEF LibInv, RestOK, given, folderVars
<1>5. \A u \in Threads : ThreadOK(u, thread[u])'
  <2>1. ThreadOK(t, thread[t])'
    BY <1>1, <1>3 DEF ThreadOK
  <2>2. \A u \in Mates(t) : ThreadOK(u, thread[u])'
    BY <1>3 DEF Mates
  <2>3. ASSUME NEW u \in Threads, HostOf[u] # HostOf[t]
        PROVE  ThreadOK(u, thread[u])'
    BY <1>1, <1>3, <2>3 DEF LibInv, ThreadOK
  <2> QED
    BY <2>1, <2>2, <2>3 DEF Mates
<1>6. \A h \in Hosts : HostOK(h)'
  BY <1>2 DEF LibInv, HostOK
<1>7. OneStarts'
  BY <1>1 DEF LibInv, OneStarts, Mates
<1> QED
  BY <1>4, <1>5, <1>6, <1>7 DEF LibInv

\* Parameters in hand.
LEMMA HoldIsOK ==
  ASSUME LibInv, NEW t \in Threads, NEW setup \in Setups,
         thread[t].pc \in {"params", "unlinked", "write", "cut"}
  PROVE  ThreadOK(t, Hold(t, setup)) /\ Hold(t, setup).pc \in Starting
<1> USE DEF Starting, Loading, Proving, Places, ThreadOK, ThreadType
<1> DEFINE held == Append(thread[t].held, setup)
           pc == IF Len(held) = 2 THEN "seed" ELSE "params"
           r == [thread[t] EXCEPT !.held = held, !.pc = pc]
<1>0. ThreadOK(t, thread[t])
  BY DEF LibInv
<1>1. thread[t] \in ThreadType /\ thread[t].held \in Seq(Setups) /\ Len(thread[t].held) < 2
  BY <1>0
<1>2. held \in Seq(Setups) /\ Len(held) <= 2 /\ pc \in {"seed", "params"}
      /\ (pc = "params" => Len(held) < 2)
  BY <1>1
<1>3. r \in ThreadType /\ r.pc = pc /\ r.held = held
  BY <1>1, <1>2, ThreadFields
<1>4. Hold(t, setup) = r
  BY SetupNames DEF Hold
<1> HIDE DEF r
<1> QED
  BY <1>0, <1>2, <1>3, <1>4

\* The steps that change a thread and nothing else.
LEMMA StepToActions ==
  ASSUME LibInv, NEW t \in Threads,
         \/ LoadParams(t) \/ ParamsUnusable(t) \/ WriteUnlinked(t)
         \/ BeginCall(t) \/ KeyMissing(t) \/ KeyThere(t) \/ ProveItem(t)
         \/ LoadVerifier(t)
  PROVE  LibInv'
<1> USE DEF Starting, Loading, Proving, Places, ThreadOK, ThreadType, At, DegreeNames
<1>0. ThreadOK(t, thread[t]) /\ file \in [DegreeNames -> Setups \cup {"absent", "partial"}]
  BY DEF LibInv, RestOK
<1>2. thread[t].pc \in Loading \cup {"vparams"} /\ Len(thread[t].held) < 2
        => NextFile(t) \in DegreeNames
  BY <1>0, SetupNames DEF NextFile
<1>3. CASE LoadParams(t)
  <2>1. PICK setup \in Readable(NextFile(t)) : StepTo(t, Hold(t, setup))
    BY <1>3 DEF LoadParams
  <2>2. setup \in Setups /\ thread[t].pc = "params"
    BY <1>3, SetupNames DEF LoadParams, Readable
  <2> QED
    BY <2>1, <2>2, HoldIsOK, StepToKeeps
<1>4. CASE ParamsUnusable(t)
  <2> DEFINE to == [thread[t] EXCEPT !.pc = "create"]
  <2>1. ThreadOK(t, to) /\ to.pc \in Starting /\ thread[t].pc \in Starting
    BY <1>0, <1>4 DEF ParamsUnusable
  <2> QED
    BY <1>4, <2>1, StepToKeeps DEF ParamsUnusable
<1>5. CASE WriteUnlinked(t)
  <2>1. Origin(NextFile(t)) \in Setups /\ thread[t].pc = "unlinked"
    BY <1>0, <1>2, <1>5, SetupNames DEF WriteUnlinked
  <2> QED
    BY <1>5, <2>1, HoldIsOK, StepToKeeps DEF WriteUnlinked
<1>6. CASE BeginCall(t)
  <2> DEFINE to == [thread[t] EXCEPT !.pc = "call"]
  <2>1. HostOK(HostOf[t]) /\ Here(t).prover # NoSetup
    BY <1>6, LibraryAssumption DEF LibInv, BeginCall
  <2>2. ThreadOK(t, to) /\ to.pc \notin Starting
    BY <1>0, <1>6, <2>1 DEF BeginCall, HostOK, Here
  <2> QED
    BY <1>6, <2>2, StepToKeeps DEF BeginCall
<1>7. CASE KeyMissing(t)
  <2> DEFINE to == [thread[t] EXCEPT !.pc = "keygen"]
  <2>1. ThreadOK(t, to) /\ to.pc \notin Starting
    BY <1>0, <1>7 DEF KeyMissing, AtItem, Item, KeyOf
  <2> QED
    BY <1>7, <2>1, StepToKeeps DEF KeyMissing
<1>8. CASE KeyThere(t)
  <2> DEFINE to == [thread[t] EXCEPT !.pc = "prove"]
  <2>1. ThreadOK(t, to) /\ to.pc \notin Starting
    BY <1>0, <1>8 DEF KeyThere, AtItem, Item, KeyOf
  <2> QED
    BY <1>8, <2>1, StepToKeeps DEF KeyThere
<1>9. CASE ProveItem(t)
  <2> DEFINE to == [thread[t] EXCEPT !.pc = "call", !.step = @ + 1]
  <2>1. thread[t].step + 1 \in Nat \ {0} /\ thread[t].pc = "prove"
    BY <1>0, <1>9 DEF ProveItem
  <2>2. to \in ThreadType /\ to.pc = "call"
    BY <1>0, <2>1, ThreadFields
  <2>3. ThreadOK(t, to) /\ to.pc \notin Starting
    <3> HIDE DEF to
    <3> QED  BY <1>0, <2>1, <2>2
  <2> QED
    BY <1>9, <2>3, StepToKeeps DEF ProveItem
<1>10. CASE LoadVerifier(t)
  <2>0. PICK setup \in Readable(NextFile(t)) :
          StepTo(t, [thread[t] EXCEPT !.held = Append(@, setup)])
    BY <1>10 DEF LoadVerifier
  <2> DEFINE to == [thread[t] EXCEPT !.held = Append(@, setup)]
  <2>1. setup \in Setups /\ thread[t].pc = "vparams"
    BY <1>10, SetupNames DEF LoadVerifier, Readable
  <2>2. to \in ThreadType /\ to.pc = "vparams"
    <3>1. Append(thread[t].held, setup) \in Seq(Setups)
      BY <1>0, <2>1
    <3> QED
      BY <1>0, <2>1, <3>1, ThreadFields
  <2>3. ThreadOK(t, to) /\ to.pc \in Starting
    <3> HIDE DEF to
    <3> QED  BY <1>0, <2>1, <2>2
  <2> QED
    BY <2>0, <2>1, <2>3, StepToKeeps
<1> QED
  BY <1>3, <1>4, <1>5, <1>6, <1>7, <1>8, <1>9, <1>10

\* Parameters are written, and a proof goes to the host.
LEMMA FileActions ==
  ASSUME LibInv, NEW t \in Threads, WriteParams(t) \/ WriteCut(t) \/ EndCall(t)
  PROVE  LibInv'
<1> USE DEF Starting, Loading, Proving, Places, DegreeNames, At
<1>0. ThreadOK(t, thread[t]) /\ RestOK
  BY DEF LibInv
<1>1. CASE WriteParams(t) \/ WriteCut(t)
  <2> DEFINE d == NextFile(t)
             to == Hold(t, Origin(d))
  <2>1. thread[t].pc \in {"write", "cut"} /\ d \in DegreeNames
    BY <1>0, <1>1, SetupNames DEF WriteParams, WriteCut, ThreadOK, ThreadType, NextFile
  <2>2. Origin(d) \in Setups /\ file[d] \in Setups \cup {"absent", "partial"}
    BY <1>0, <2>1, SetupNames DEF RestOK
  <2>3. ThreadOK(t, to) /\ to.pc \in Starting
    BY <2>1, <2>2, HoldIsOK
  <2>4. PICK content \in {"seed", file[d], Holed, Origin(d)} :
          file' = [file EXCEPT ![d] = content]
    BY <1>1 DEF WriteParams, WriteCut
  <2>5. file' \in [DegreeNames -> Setups \cup {"absent", "partial"}]
    BY <1>0, <2>2, <2>4, SetupNames DEF RestOK, Setups
  <2> HIDE DEF to, d
  <2>6. /\ thread' = [thread EXCEPT ![t] = to] /\ fetch' = fetch /\ UNCHANGED <<given, host>>
        /\ proofs' \subseteq Setups /\ UNCHANGED history
    BY <1>0, <1>1 DEF WriteParams, WriteCut, RestOK, to, d
  <2> QED
    BY <2>1, <2>3, <2>5, <2>6, MoveKeeps
<1>2. CASE EndCall(t)
  <2>1. ThreadOK(t, Out) /\ Out.pc \notin Starting
    BY FreshIsOK DEF ThreadOK, Out
  <2>2. Here(t).prover \in Setups
    BY <1>0, <1>2, LibraryAssumption DEF EndCall, ThreadOK, Here, RestOK, HostType
  <2>3. /\ thread' = [thread EXCEPT ![t] = Out] /\ UNCHANGED <<given, folderVars, host>>
        /\ proofs' \subseteq Setups /\ UNCHANGED history
    BY <1>0, <1>2, <2>2 DEF EndCall, RestOK
  <2>4. file' \in [DegreeNames -> Setups \cup {"absent", "partial"}] /\ fetch' = fetch
    BY <1>0, <2>3 DEF folderVars, RestOK
  <2> QED
    BY <2>1, <2>3, <2>4, MoveKeeps
<1> QED
  BY <1>1, <1>2

\* init_prover and init_verifier, first step and last.
LEMMA RoleActions ==
  ASSUME LibInv, NEW t \in Threads,
         BeginProver(t) \/ ProverReady(t) \/ BeginVerifier(t) \/ VerifierReady(t)
  PROVE  LibInv'
<1> USE LibraryAssumption DEF Starting, Loading, Proving, Places, At
<1>0. ThreadOK(t, thread[t]) /\ RestOK /\ HostOK(HostOf[t])
  BY DEF LibInv
<1>1. /\ thread[t] \in ThreadType /\ host[HostOf[t]] \in HostType /\ HostOf[t] \in Hosts
      /\ Here(t) = host[HostOf[t]]
      /\ \A u \in Mates(t) : u \in Threads /\ ThreadOK(u, thread[u]) /\ Here(u) = Here(t)
                             /\ u # t /\ HostOf[u] = HostOf[t]
  BY <1>0 DEF RestOK, Here, Mates, LibInv
<1>2. ASSUME NEW to \in ThreadType, to.pc \in {"params", "vparams"}, SetLogger(t),
             (to.pc = "params" => Len(to.held) < 2),
             thread' = [thread EXCEPT ![t] = to],
             UNCHANGED <<given, folderVars, proofs, overlap, refused>>
      PROVE  LibInv'
  <2> DEFINE hr == [host[HostOf[t]] EXCEPT !.logger = TRUE]
  <2>1. /\ hr \in HostType /\ hr.logger /\ hr.prover = NoSetup /\ hr.verifier = NoVerifier
        /\ host' = [host EXCEPT ![HostOf[t]] = hr]
    BY <1>0, <1>1, <1>2 DEF SetLogger, HostOK, HostType
  <2>2. \A u \in Mates(t) : thread[u].pc = "out" /\ thread'[u] = thread[u]
    BY <1>0, <1>1, <1>2 DEF SetLogger, ThreadOK, RestOK
  <2>3. live' \in BOOLEAN
    BY <1>0, <1>2 DEF SetLogger, RestOK
  <2> HIDE DEF hr
  <2>4. Here(t)' = hr => ThreadOK(t, to)'
    BY <1>2, <2>1 DEF ThreadOK
  <2>5. \A u \in Mates(t) : ThreadOK(u, thread[u])'
    BY <1>1, <2>2 DEF ThreadOK, Out
  <2> QED
    BY <1>2, <2>1, <2>2, <2>3, <2>4, <2>5, HostKeeps
<1>3. CASE BeginProver(t)
  <2> DEFINE to == [thread[t] EXCEPT !.pc = "params"]
  <2>1. to \in ThreadType /\ to.pc = "params" /\ Len(to.held) < 2
    BY <1>0, <1>3 DEF BeginProver, ThreadOK, ThreadType, Out
  <2>2. thread' = [thread EXCEPT ![t] = to] /\ UNCHANGED <<given, folderVars, proofs, overlap, refused>>
    BY <1>3 DEF BeginProver
  <2> HIDE DEF to
  <2> QED
    BY <1>2, <1>3, <2>1, <2>2 DEF BeginProver
<1>4. CASE BeginVerifier(t)
  <2>1. PICK p \in Setups : thread' = [thread EXCEPT ![t].pc = "vparams", ![t].vk = p]
    BY <1>4, SetupNames DEF BeginVerifier
  <2> DEFINE to == [thread[t] EXCEPT !.pc = "vparams", !.vk = p]
  <2>2. to \in ThreadType /\ to.pc = "vparams"
    BY <1>0, <1>1 DEF RestOK, ThreadType
  <2>3. thread' = [thread EXCEPT ![t] = to] /\ UNCHANGED <<given, folderVars, proofs, overlap, refused>>
    BY <1>0, <1>4, <2>1 DEF BeginVerifier, RestOK, ThreadType
  <2> HIDE DEF to
  <2> QED
    BY <1>2, <1>4, <2>2, <2>3 DEF BeginVerifier
<1>5. ASSUME NEW hr \in HostType, hr.logger,
             hr.prover = NoSetup \/ hr.verifier = NoVerifier,
             thread[t].pc \in Starting, thread' = [thread EXCEPT ![t] = Out],
             host' = [host EXCEPT ![HostOf[t]] = hr],
             UNCHANGED <<given, folderVars, proofs, history>>
      PROVE  LibInv'
  <2>1. \A u \in Mates(t) : thread[u].pc = "out"
    <3>1. \A u \in Mates(t) : thread[u].pc \notin Starting
      BY <1>1, <1>5 DEF LibInv, OneStarts
    <3>2. \A u \in Mates(t) : thread[u].pc \notin Proving
      BY <1>0, <1>1, <1>5 DEF ThreadOK
    <3> QED
      BY <1>1, <3>1, <3>2 DEF ThreadOK, ThreadType
  <2>2. \A u \in Mates(t) : ThreadOK(u, thread[u])'
    BY <1>0, <1>1, <1>5, <2>1 DEF ThreadOK, Out, RestOK
  <2>3. ThreadOK(t, Out)' /\ Out.pc \notin Starting
    BY FreshIsOK DEF ThreadOK, Out
  <2>4. live' \in BOOLEAN /\ UNCHANGED <<overlap, refused>>
    BY <1>0, <1>5 DEF RestOK, history
  <2> QED
    BY <1>5, <2>2, <2>3, <2>4, FreshIsOK, HostKeeps
<1>6. CASE ProverReady(t)
  <2> DEFINE setup == IF HasHole(t) THEN Holed ELSE thread[t].held[1]
             hr == [host[HostOf[t]] EXCEPT !.prover = setup]
  <2>1. setup \in Setups
    BY <1>0, <1>1, <1>6, SetupNames DEF ProverReady, ThreadOK, ThreadType
  <2> HIDE DEF setup
  <2>2. /\ hr \in HostType /\ hr.logger /\ hr.verifier = NoVerifier
        /\ host' = [host EXCEPT ![HostOf[t]] = hr]
    BY <1>0, <1>1, <1>6, <2>1 DEF ProverReady, ThreadOK, HostType, setup
  <2> HIDE DEF hr
  <2> QED
    BY <1>5, <1>6, <2>2 DEF ProverReady
<1>7. CASE VerifierReady(t)
  <2> DEFINE v == [params |-> thread[t].held[2], vk |-> thread[t].vk]
             hr == [host[HostOf[t]] EXCEPT !.verifier = v]
  <2>1. v \in [params : Setups \cup {NoSetup}, vk : Setups \cup {NoSetup}]
    BY <1>1, <1>7 DEF VerifierReady, ThreadType
  <2> HIDE DEF v
  <2>2. /\ hr \in HostType /\ hr.logger /\ hr.prover = NoSetup
        /\ host' = [host EXCEPT ![HostOf[t]] = hr]
    BY <1>0, <1>1, <1>7, <2>1 DEF VerifierReady, ThreadOK, HostType, v
  <2> HIDE DEF hr
  <2> QED
    BY <1>5, <1>7, <2>2 DEF VerifierReady
<1> QED
  BY <1>3, <1>4, <1>6, <1>7

\* The keys of the prover change: threads that were making the same key go on
\* with a race behind them.
LEMMA KeyActions ==
  ASSUME LibInv, NEW t \in Threads, InsertKey(t) \/ ConvertItem(t)
  PROVE  LibInv'
<1> USE LibraryAssumption DEF Starting, Loading, Proving, Places, At
<1>0. ThreadOK(t, thread[t]) /\ RestOK /\ HostOK(HostOf[t])
  BY DEF LibInv
<1>1. /\ thread[t] \in ThreadType /\ host[HostOf[t]] \in HostType /\ HostOf[t] \in Hosts
      /\ Here(t) = host[HostOf[t]]
      /\ \A u \in Mates(t) : u \in Threads /\ ThreadOK(u, thread[u]) /\ Here(u) = Here(t)
                             /\ u # t /\ HostOf[u] = HostOf[t]
  BY <1>0 DEF RestOK, Here, Mates, LibInv
<1> DEFINE keys == KeysAfter(Item(t), Here(t).keys)
<1>2. ASSUME NEW to \in ThreadType, to.pc \in {"call", "prove"}, NEW changed \in BOOLEAN,
             thread[t].pc \in Proving, thread[t].step \in DOMAIN CallProgram,
             keys # Here(t).keys => changed,
             to.pc = "prove" => to.step \in DOMAIN CallProgram /\ Proves(CallProgram[to.step]),
             SetKeys(t, changed), thread' = [thread EXCEPT ![t] = to],
             UNCHANGED <<given, folderVars, proofs, history>>
      PROVE  LibInv'
  <2> DEFINE raced == Here(t).raced \/ (changed /\ \E u \in Mates(t) : Inside(u))
             hr == [host[HostOf[t]] EXCEPT !.keys = keys, !.raced = raced]
  <2>1. keys \in SUBSET Keys
    BY <1>1, <1>2, ProgramOfCall DEF HostType, Item
  <2>2. raced \in BOOLEAN
    BY <1>1 DEF HostType
  <2>3. host' = [host EXCEPT ![HostOf[t]] = hr]
    <3>1. host' = [host EXCEPT ![HostOf[t]].keys = keys, ![HostOf[t]].raced = raced]
      BY <1>1, <1>2 DEF SetKeys
    <3> HIDE DEF keys, raced
    <3> QED
      BY <1>0, <1>1, <3>1 DEF RestOK, HostType
  <2>4. /\ hr \in HostType /\ hr.logger = Here(t).logger /\ hr.prover = Here(t).prover
        /\ hr.verifier = Here(t).verifier /\ hr.keys = keys /\ hr.raced = raced
    <3> HIDE DEF keys, raced
    <3> QED
      BY <1>1, <2>1, <2>2 DEF HostType
  <2> HIDE DEF hr, keys
  <2>5. Here(t)' = hr => ThreadOK(t, to)'
    BY <1>0, <1>2, <2>4 DEF ThreadOK
  <2>6. ASSUME Here(t)' = hr, NEW u \in Mates(t), Here(u)' = hr
        PROVE  ThreadOK(u, thread[u])'
    <3>1. thread'[u] = thread[u]
      BY <1>0, <1>1, <1>2 DEF RestOK
    <3>2. thread[u].pc = "keygen" /\ ~ raced => keys = Here(u).keys /\ ~ Here(u).raced
      BY <1>1, <1>2 DEF Inside
    <3>3. ThreadOK(u, thread[u]) /\ Here(u) = Here(t)
      BY <1>1
    <3> HIDE DEF raced
    <3> QED
      BY <2>4, <2>6, <3>1, <3>2, <3>3 DEF ThreadOK
  <2>7. live' \in BOOLEAN /\ UNCHANGED <<overlap, refused>>
    BY <1>0, <1>2 DEF RestOK, history
  <2> QED
    BY <1>0, <1>1, <1>2, <2>3, <2>4, <2>5, <2>6, <2>7, HostKeeps DEF HostOK
<1>3. CASE InsertKey(t)
  <2> DEFINE to == [thread[t] EXCEPT !.pc = "prove"]
  <2>1. /\ to \in ThreadType /\ to.pc = "prove" /\ to.step = thread[t].step
        /\ thread[t].pc = "keygen" /\ thread' = [thread EXCEPT ![t] = to]
        /\ to.step \in DOMAIN CallProgram /\ Proves(CallProgram[to.step])
    BY <1>0, <1>1, <1>3 DEF InsertKey, ThreadOK, ThreadType
  <2> HIDE DEF to
  <2> QED
    BY <1>2, <1>3, <2>1 DEF InsertKey
<1>4. CASE ConvertItem(t)
  <2> DEFINE to == [thread[t] EXCEPT !.step = @ + 1]
  <2>1. thread[t].step + 1 \in Nat \ {0} /\ thread[t].pc = "call"
    BY <1>1, <1>4 DEF ConvertItem, AtItem, ThreadType
  <2>2. /\ to \in ThreadType /\ to.pc = "call" /\ thread' = [thread EXCEPT ![t] = to]
        /\ thread[t].step \in DOMAIN CallProgram
    BY <1>1, <1>4, <2>1 DEF ConvertItem, AtItem, ThreadType
  <2>3. SetKeys(t, keys # Here(t).keys)
    BY <1>4 DEF ConvertItem
  <2> HIDE DEF to, keys
  <2>4. (keys # Here(t).keys) \in BOOLEAN
    OBVIOUS
  <2> QED
    BY <1>2, <1>4, <2>1, <2>2, <2>3, <2>4 DEF ConvertItem
<1> QED
  BY <1>3, <1>4

\* A host dies, by a panic or otherwise.
LEMMA DeathKeeps ==
  ASSUME LibInv, NEW h \in Hosts, Dies(h)
  PROVE  LibInv'
<1> USE LibraryAssumption
<1>1. /\ host' \in [Hosts -> HostType] /\ host'[h] = Fresh
      /\ \A g \in Hosts \ {h} : host'[g] = host[g]
  BY FreshIsOK DEF LibInv, RestOK, Dies
<1>2. /\ thread' \in [Threads -> ThreadType]
      /\ \A u \in Threads : thread'[u] = IF HostOf[u] = h THEN Out ELSE thread[u]
  BY FreshIsOK DEF LibInv, RestOK, Dies
<1>3. \A u \in Threads : HostOf[u] # h => Here(u)' = Here(u)
  BY <1>1 DEF Here
<1>4. RestOK'
  BY <1>1, <1>2 DEF LibInv, RestOK, Dies, given, folderVars, history
<1>5. \A u \in Threads : ThreadOK(u, thread[u])'
  BY <1>2, <1>3, FreshIsOK DEF LibInv, ThreadOK, Out, Starting, Loading, Proving
<1>6. \A g \in Hosts : HostOK(g)'
  BY <1>1 DEF LibInv, HostOK, Fresh
<1>7. OneStarts'
  BY <1>2 DEF LibInv, OneStarts, Out, Starting, Loading
<1> QED
  BY <1>4, <1>5, <1>6, <1>7 DEF LibInv

\* A proof is verified, a file is truncated or the script goes on: no statics,
\* and no threads but those that make files.
LEMMA OtherActions ==
  ASSUME LibInv,
         (\E t \in Threads : Verify(t) \/ CreateParams(t)) \/ FetchBegin \/ FetchFile \/ FetchStops
  PROVE  LibInv'
<1>1. /\ host' = host /\ UNCHANGED given
      /\ \A u \in Threads : Here(u)' = Here(u)
  BY DEF Verify, CreateParams, FetchBegin, FetchFile, FetchStops, Here
<1>2. /\ file' \in [DegreeNames -> Setups \cup {"absent", "partial"}]
      /\ fetch' \in DegreeNames \cup {"never", "done", "stopped"}
      /\ proofs' \subseteq Setups
      /\ live' \in BOOLEAN /\ overlap' \in BOOLEAN /\ refused' \in BOOLEAN
  <2> USE DEF LibInv, RestOK, DegreeNames, Setups, folderVars, history
  <2>1. CASE \E t \in Threads : Verify(t)
    BY <2>1 DEF Verify
  <2>2. ASSUME NEW t \in Threads, CreateParams(t)
        PROVE  /\ file' \in [DegreeNames -> Setups \cup {"absent", "partial"}]
               /\ fetch' = fetch /\ proofs' = proofs
               /\ UNCHANGED <<live, refused>> /\ overlap' \in BOOLEAN
    <3>1. overlap' \in BOOLEAN
      BY <2>2 DEF CreateParams
    <3>2. file' = [file EXCEPT ![NextFile(t)] = "partial"]
          /\ UNCHANGED <<fetch, proofs, live, refused>>
      BY <2>2 DEF CreateParams
    <3> QED
      BY <3>1, <3>2
  <2>3. CASE FetchBegin
    BY <2>3 DEF FetchBegin
  <2>4. CASE FetchFile
    BY <2>4 DEF FetchFile
  <2>5. CASE FetchStops
    BY <2>5 DEF FetchStops
  <2> QED
    BY <2>1, <2>2, <2>3, <2>4, <2>5
<1> DEFINE Pushed(u) ==
             thread[u].pc \in Loading
               /\ \E pc \in {"write", "cut", "unlinked"} :
                    thread'[u] = [thread[u] EXCEPT !.pc = pc]
<1>3. /\ thread' \in [Threads -> ThreadType]
      /\ \A u \in Threads : thread'[u] = thread[u] \/ Pushed(u)
  <2>1. CASE FetchBegin
    BY <2>1 DEF LibInv, RestOK, FetchBegin, At, ThreadType, Places, Loading
  <2>2. CASE thread' = thread
    BY <2>2 DEF LibInv, RestOK
  <2>3. ASSUME NEW t \in Threads, CreateParams(t)
        PROVE  /\ thread' \in [Threads -> ThreadType]
               /\ \A u \in Threads : thread'[u] = thread[u] \/ Pushed(u)
    <3>1. thread' = [u \in Threads |->
            IF u = t THEN [thread[t] EXCEPT !.pc = "write"]
            ELSE IF u \in MakersOf(NextFile(t)) THEN [thread[u] EXCEPT !.pc = "cut"]
            ELSE thread[u]]
      BY <2>3 DEF CreateParams
    <3>2. ASSUME NEW u \in Threads
          PROVE  thread'[u] \in ThreadType /\ (thread'[u] = thread[u] \/ Pushed(u))
      <4>1. thread[u] \in ThreadType
        BY DEF LibInv, RestOK
      <4>2. \A pc \in {"write", "cut"} : [thread[u] EXCEPT !.pc = pc] \in ThreadType
        BY <4>1 DEF ThreadType, Places, Loading
      <4>3. u = t => thread[u].pc = "create"
        BY <2>3 DEF CreateParams, At
      <4>4. u \in MakersOf(NextFile(t)) => thread[u].pc \in {"write", "cut"}
        BY DEF MakersOf
      <4> QED
        BY <3>1, <4>1, <4>2, <4>3, <4>4 DEF Loading
    <3> HIDE DEF Pushed
    <3> QED
      BY <3>1, <3>2
  <2> QED
    BY <2>1, <2>2, <2>3 DEF Verify, FetchFile, FetchStops
<1>4. ASSUME NEW u \in Threads
      PROVE  /\ ThreadOK(u, thread[u])'
             /\ thread'[u].pc \in Starting => thread[u].pc \in Starting
  <2>1. ThreadOK(u, thread[u]) /\ thread[u] \in ThreadType
    BY DEF LibInv, RestOK
  <2>2. CASE thread'[u] = thread[u]
    BY <1>1, <2>1, <2>2 DEF ThreadOK
  <2>3. CASE Pushed(u)
    <3>0. PICK pc \in {"write", "cut", "unlinked"} :
            thread'[u] = [thread[u] EXCEPT !.pc = pc]
      BY <2>3
    <3>1. thread'[u].pc = pc /\ thread'[u].held = thread[u].held
          /\ thread'[u] \in ThreadType
      BY <1>3, <2>1, <3>0 DEF ThreadType
    <3> QED
      BY <1>1, <2>1, <2>3, <3>1 DEF ThreadOK, Starting, Loading, Proving
  <2> QED
    BY <1>3, <2>2, <2>3
<1>5. RestOK'
  BY <1>1, <1>2, <1>3 DEF LibInv, RestOK, given
<1>6. \A h \in Hosts : HostOK(h)'
  BY <1>1 DEF LibInv, HostOK
<1>7. OneStarts'
  BY <1>4 DEF LibInv, OneStarts
<1> QED
  BY <1>4, <1>5, <1>6, <1>7 DEF LibInv

LEMMA NextInv == LibInv /\ [Next]_vars => LibInv'
<1> SUFFICES ASSUME LibInv, [Next]_vars PROVE LibInv'
  OBVIOUS
<1>1. ASSUME NEW t \in Threads, Step(t) PROVE LibInv'
  <2>1. HostOf[t] \in Hosts
    BY LibraryAssumption
  <2>2. CASE Dies(HostOf[t])
    BY <2>1, <2>2, DeathKeeps
  <2>3. CASE Verify(t) \/ CreateParams(t)
    BY <2>3, OtherActions
  <2> QED
    BY <1>1, <2>2, <2>3, StepToActions, FileActions, RoleActions, KeyActions
       DEF Step, Panics, LoggerSet, SeedMissing, AssertionFails, NotInitialised,
           CallPanics, VerifierUnloadable, VerifyPanics
<1>2. CASE UNCHANGED vars
  BY <1>2 DEF vars, given, folderVars, history, LibInv, RestOK, ThreadOK, HostOK, OneStarts, Here
<1> QED
  BY <1>1, <1>2, DeathKeeps, OtherActions DEF Next

LEMMA LibInvariant == Spec => []LibInv
BY InitInv, NextInv, PTL DEF Spec

(***************************************************************************)
(* Types of the library, its hosts, the folder and the script.             *)
(***************************************************************************)
THEOREM LibraryTypeCorrect == Spec => []TypeOK
<1>1. LibInv => TypeOK
  BY DEF LibInv, RestOK, TypeOK, ThreadOK, HostType, ThreadType
<1> QED
  BY <1>1, LibInvariant, PTL

(***************************************************************************)
(* No process ever has a prover and a verifier, nor begins with one while  *)
(* it has or makes the other.                                              *)
(***************************************************************************)
THEOREM OneRoleHolds == Spec => []OneRole
<1>1. LibInv => OneRole
  <2> SUFFICES ASSUME LibInv PROVE OneRole
    OBVIOUS
  <2> USE DEF LibInv
  <2>1. \A h \in Hosts : host[h].prover = NoSetup \/ host[h].verifier = NoVerifier
    BY DEF HostOK
  <2>2. ASSUME NEW t \in Threads, Initialises(t)
        PROVE  /\ Here(t).prover = NoSetup /\ Here(t).verifier = NoVerifier
               /\ \A u \in Mates(t) : ~ Initialises(u) /\ ~ Inside(u)
    <3>1. thread[t].pc \in Starting
      BY <2>2 DEF Initialises, Starting
    <3>2. Here(t).prover = NoSetup /\ Here(t).verifier = NoVerifier
      BY <3>1 DEF ThreadOK
    <3>3. ASSUME NEW u \in Mates(t)
          PROVE  ~ Initialises(u) /\ ~ Inside(u)
      <4>1. u \in Threads /\ u # t /\ HostOf[u] = HostOf[t] /\ Here(u) = Here(t)
        BY DEF Mates, Here
      <4> QED
        BY <3>1, <3>2, <4>1 DEF OneStarts, ThreadOK, Initialises, Inside, Starting
    <3> QED
      BY <3>2, <3>3
  <2> QED
    BY <2>1, <2>2 DEF OneRole, Here
<1> QED
  BY <1>1, LibInvariant, PTL

\* A step on a prover that has both keys.
LEMMA WarmStep ==
  ASSUME LibInv, [Next]_vars, ~ OptMem, NEW h \in Hosts,
         {"super", "agg"} \subseteq host[h].keys, ~ host[h].raced
  PROVE  ~ host'[h].raced
<1> USE LibraryAssumption DEF LibInv, RestOK
<1>1. ASSUME NEW t \in Threads, NEW changed, SetKeys(t, changed), HostOf[t] # h \/ ~ changed
      PROVE  ~ host'[h].raced
  BY <1>1 DEF SetKeys, HostType
<1>2. ASSUME NEW t \in Threads, HostOf[t] = h, InsertKey(t) PROVE FALSE
  <2>1. ThreadOK(t, thread[t]) /\ thread[t].pc = "keygen" /\ ~ Here(t).raced
    BY <1>2 DEF InsertKey, At, Here
  <2> QED
    BY <1>2, <2>1, ProgramOfCall DEF ThreadOK, Here
<1>3. ASSUME NEW t \in Threads, ConvertItem(t)
      PROVE  SetKeys(t, FALSE)
  <2>1. thread[t].step \in 1..3 /\ ~ Proves(Item(t))
    BY <1>3, ProgramOfCall DEF ConvertItem, AtItem
  <2>2. KeysAfter(Item(t), Here(t).keys) = Here(t).keys
    <3>1. Item(t).op = "convert"
      BY <2>1, ProgramOfCall DEF Item
    <3> QED
      BY <3>1 DEF KeysAfter
  <2> QED
    BY <1>3, <2>2 DEF ConvertItem
<1>4. ASSUME NEW t \in Threads, InsertKey(t) \/ ConvertItem(t)
      PROVE  ~ host'[h].raced
  BY <1>1, <1>2, <1>3, <1>4 DEF InsertKey
<1>5. ASSUME NEW t \in Threads,
             BeginProver(t) \/ ProverReady(t) \/ BeginVerifier(t) \/ VerifierReady(t)
      PROVE  ~ host'[h].raced
  <2>1. CASE BeginProver(t) \/ BeginVerifier(t)
    BY <2>1 DEF BeginProver, BeginVerifier, SetLogger, HostType
  <2>2. ASSUME NEW setup, host' = [host EXCEPT ![HostOf[t]].prover = setup]
        PROVE  ~ host'[h].raced
    BY <2>2 DEF HostType
  <2>3. ASSUME NEW v, host' = [host EXCEPT ![HostOf[t]].verifier = v]
        PROVE  ~ host'[h].raced
    BY <2>3 DEF HostType
  <2> QED
    BY <1>5, <2>1, <2>2, <2>3 DEF ProverReady, VerifierReady
<1>6. ASSUME NEW g \in Hosts, Dies(g)
      PROVE  ~ host'[h].raced
  BY <1>6 DEF Dies, Fresh
<1>7. CASE host' = host
  BY <1>7
<1>8. ASSUME NEW t \in Threads, Step(t)
      PROVE  ~ host'[h].raced
  <2>1. CASE Dies(HostOf[t])
    BY <1>6, <2>1
  <2>2. CASE \/ LoadParams(t) \/ ParamsUnusable(t) \/ CreateParams(t) \/ WriteParams(t)
             \/ WriteCut(t) \/ WriteUnlinked(t) \/ BeginCall(t) \/ KeyMissing(t) \/ KeyThere(t)
             \/ ProveItem(t) \/ EndCall(t) \/ LoadVerifier(t) \/ Verify(t)
    BY <1>7, <2>2
       DEF LoadParams, ParamsUnusable, CreateParams, WriteParams, WriteCut, WriteUnlinked,
           BeginCall, KeyMissing, KeyThere, ProveItem, EndCall, LoadVerifier, Verify, StepTo
  <2> QED
    BY <1>4, <1>5, <1>8, <2>1, <2>2
       DEF Step, Panics, LoggerSet, SeedMissing, AssertionFails, NotInitialised,
           CallPanics, VerifierUnloadable, VerifyPanics
<1> QED
  BY <1>6, <1>7, <1>8 DEF Next, FetchBegin, FetchFile, FetchStops, vars

(***************************************************************************)
(* Without OPT_MEM, a host that has made both keys with no data race can   *)
(* have none any more, whatever its threads call.                          *)
(***************************************************************************)
THEOREM WarmIsSafeHolds == Spec => WarmIsSafe
<1>1. LibInv /\ [Next]_vars =>
        [~ OptMem => \A h \in Hosts :
           {"super", "agg"} \subseteq host[h].keys /\ ~ host[h].raced
             => ~ host'[h].raced]_vars
  BY WarmStep
<1> QED
  BY <1>1, LibInvariant, PTL DEF Spec, WarmIsSafe

-----------------------------------------------------------------------------
(* The setups of provers, verifiers and proofs.                            *)

\* The setup that a file is of, or will be of once a host makes it.
Will(d) == IF file[d] = "ceremony" THEN "ceremony" ELSE Origin(d)

Making == {"create", "write", "cut", "unlinked"}

\* What a thread has loaded, it has from the files as they are; it makes none
\* that was fetched, and no other host is at its file.
FromSource(r) ==
  /\ \A i \in 1..2 : i <= Len(r.held) => r.held[i] = Will(Degrees[i])
  /\ \A d \in DegreeNames :
       file[d] = "ceremony" /\ r.pc \in Making => Degrees[Len(r.held) + 1] # d
  /\ r.pc # "cut"

HostFromSource(hr) ==
  /\ hr.prover # NoSetup => hr.prover = Will("AGG_DEGREE")
  /\ hr.verifier # NoVerifier => hr.verifier.params = Will("AGG_DEGREE")

FilesFromSource ==
  /\ \A d \in DegreeNames : file[d] \in {"absent", "partial", "ceremony", Origin(d)}
  /\ fetch = "never" => \A d \in DegreeNames : file[d] # "ceremony"
  /\ fetch = "AGG_DEGREE" => file["DEGREE"] = "ceremony"
  /\ fetch = "done" => \A d \in DegreeNames : file[d] = "ceremony"

NobodyHere == \A h \in Hosts : ~ host[h].logger

\* Whatever the hosts do, they do not meet at a file that was fetched.
FetchInv ==
  ~ live =>
    /\ Fetching => NobodyHere
    /\ Fetching \/ fetch = "done" => ~ overlap

Sourced ==
  /\ FilesFromSource
  /\ \A t \in Threads : FromSource(thread[t])
  /\ \A h \in Hosts : HostFromSource(host[h])
  /\ proofs \subseteq {Will("AGG_DEGREE")}
  /\ Fetching => proofs = {}
  /\ ~ refused

Clean == ~ live /\ ~ overlap

SourceInv == FetchInv /\ (Clean => Sourced)

-----------------------------------------------------------------------------
(* What a step does to the files, and what it leaves alone.                *)

\* Hosts only touch files that were not fetched, and make them what they
\* would be made anyway.
FilesKept ==
  \A d \in DegreeNames :
    \/ file'[d] = file[d]
    \/ file[d] # "ceremony" /\ file'[d] \in {"partial", Origin(d)}

LEMMA OriginIsMade == \A d \in DegreeNames : Origin(d) # "ceremony"
BY DEF Origin, DegreeNames

LEMMA WillStays ==
  ASSUME FilesKept, UNCHANGED given
  PROVE  \A d \in DegreeNames : Will(d)' = Will(d) /\ Origin(d)' = Origin(d)
                                /\ (file'[d] = "ceremony" <=> file[d] = "ceremony")
<1>1. paramSeed' = paramSeed
  BY DEF given
<1>2. \A d \in DegreeNames : Origin(d)' = Origin(d)
  BY <1>1 DEF Origin
<1>3. \A d \in DegreeNames : file'[d] = "ceremony" <=> file[d] = "ceremony"
  BY OriginIsMade DEF FilesKept
<1> QED
  BY <1>2, <1>3 DEF Will

LEMMA WillIsSetup == \A d \in DegreeNames : Will(d) \in Setups /\ Will(d) # Holed
BY SetupNames DEF Will, Setups, Origin, Holed, DegreeNames

\* Without a logger, no thread is inside and nothing is ready.
LEMMA NobodyInside ==
  ASSUME LibInv, NobodyHere
  PROVE  /\ \A t \in Threads : thread[t] = Out
         /\ \A h \in Hosts : host[h].prover = NoSetup /\ host[h].verifier = NoVerifier
BY LibraryAssumption DEF LibInv, ThreadOK, HostOK, NobodyHere, Here, RestOK, ThreadType

LEMMA NothingHeld == FromSource(Out) /\ HostFromSource(Fresh)
BY DEF FromSource, Out, HostFromSource, Fresh, Making

\* A thread moves while nothing is fetched.
LEMMA MoveFromSource ==
  ASSUME LibInv, Sourced, ~ Fetching,
         NEW t \in Threads, NEW to, FromSource(to),
         thread' = [thread EXCEPT ![t] = to],
         UNCHANGED given, fetch' = fetch, FilesKept,
         \A h \in Hosts :
           /\ host'[h].prover \in {host[h].prover, Will("AGG_DEGREE")}
           /\ \/ host'[h].verifier = host[h].verifier
              \/ host'[h].verifier.params = Will("AGG_DEGREE"),
         proofs' \subseteq {Will("AGG_DEGREE")}, ~ refused'
  PROVE  Sourced'
<1>1. /\ \A d \in DegreeNames : Will(d)' = Will(d) /\ Origin(d)' = Origin(d)
      /\ \A d \in DegreeNames : file'[d] = "ceremony" <=> file[d] = "ceremony"
  BY WillStays
<1>2. Will("AGG_DEGREE")' = Will("AGG_DEGREE")
  BY <1>1 DEF DegreeNames
<1>3. FilesFromSource'
  BY <1>1 DEF Sourced, FilesFromSource, FilesKept, DegreeNames
<1>4. \A u \in Threads : thread'[u] = IF u = t THEN to ELSE thread[u]
  BY DEF LibInv, RestOK
<1>5. \A u \in Threads : FromSource(thread'[u])
  BY <1>4 DEF Sourced
<1>6. \A u \in Threads : FromSource(thread[u])'
  <2> SUFFICES ASSUME NEW u \in Threads PROVE FromSource(thread[u])'
    OBVIOUS
  <2>1. \A i \in 1..2 : Will(Degrees[i])' = Will(Degrees[i])
    BY <1>1, SetupNames
  <2> QED
    BY <1>1, <1>5, <2>1 DEF FromSource
<1>7. \A h \in Hosts : HostFromSource(host[h])'
  BY <1>2 DEF Sourced, HostFromSource
<1>8. ~ Fetching'
  BY DEF Fetching
<1> QED
  BY <1>2, <1>3, <1>6, <1>7, <1>8 DEF Sourced

\* The same for the steps that leave the statics of the hosts alone.
LEMMA QuietMove ==
  ASSUME LibInv, Sourced, ~ Fetching,
         NEW t \in Threads, NEW to, FromSource(to),
         thread' = [thread EXCEPT ![t] = to],
         UNCHANGED <<given, fetch, host, proofs, refused>>, FilesKept
  PROVE  Sourced'
<1>1. /\ \A h \in Hosts :
           /\ host'[h].prover \in {host[h].prover, Will("AGG_DEGREE")}
           /\ host'[h].verifier = host[h].verifier
      /\ proofs' \subseteq {Will("AGG_DEGREE")} /\ ~ refused' /\ fetch' = fetch
      /\ UNCHANGED given
  BY DEF Sourced
<1> QED
  BY <1>1, MoveFromSource

\* A thread inside the library is there while nothing is fetched.
LEMMA InsideNoFetch ==
  ASSUME LibInv, FetchInv, ~ live, NEW t \in Threads, thread[t].pc # "out"
  PROVE  ~ Fetching /\ ThreadOK(t, thread[t]) /\ thread[t] \in ThreadType
<1>1. SUFFICES ~ Fetching
  BY DEF LibInv, RestOK
<1>2. ASSUME Fetching PROVE FALSE
  BY <1>2, NobodyInside DEF FetchInv, Out
<1> QED
  BY <1>2

LEMMA HoldFromSource ==
  ASSUME LibInv, NEW t \in Threads, thread[t].pc \in {"params", "unlinked", "write"},
         FromSource(thread[t])
  PROVE  FromSource(Hold(t, Will(NextFile(t))))
<1> DEFINE setup == Will(NextFile(t))
           held == Append(thread[t].held, setup)
           pc == IF Len(held) = 2 THEN "seed" ELSE "params"
           r == [thread[t] EXCEPT !.held = held, !.pc = pc]
<1>1. /\ thread[t] \in ThreadType /\ thread[t].held \in Seq(Setups)
      /\ Len(thread[t].held) < 2
  BY DEF LibInv, ThreadOK, ThreadType, Loading
<1>2. NextFile(t) \in DegreeNames /\ NextFile(t) = Degrees[Len(thread[t].held) + 1]
  BY <1>1, SetupNames DEF NextFile
<1>3. setup \in Setups
  BY <1>2, WillIsSetup
<1> HIDE DEF setup
<1>4. held \in Seq(Setups) /\ pc \in {"seed", "params"}
  BY <1>1, <1>3
<1>5. r.pc = pc /\ r.held = held
  <2> HIDE DEF held, pc
  <2> QED
    BY <1>1 DEF ThreadType
<1>6. Hold(t, setup) = r
  BY SetupNames DEF Hold
<1>7. \A i \in 1..2 : i <= Len(held) => held[i] = Will(Degrees[i])
  BY <1>1, <1>2, <1>3 DEF FromSource, setup
<1> HIDE DEF r, held
<1>8. FromSource(r)
  BY <1>4, <1>5, <1>7 DEF FromSource, Making
<1> QED
  BY <1>6, <1>8 DEF setup

-----------------------------------------------------------------------------
(* The steps.                                                              *)

\* Loading and making parameters.
LEMMA LoadingFromSource ==
  ASSUME LibInv, FetchInv, Sourced, ~ live, ~ overlap', NEW t \in Threads,
         \/ LoadParams(t) \/ ParamsUnusable(t) \/ CreateParams(t) \/ WriteParams(t)
         \/ WriteCut(t) \/ WriteUnlinked(t) \/ LoadVerifier(t)
  PROVE  Sourced'
<1> DEFINE d == NextFile(t)
<1>1. thread[t].pc # "out"
  BY DEF At, LoadParams, ParamsUnusable, CreateParams, WriteParams, WriteCut,
         WriteUnlinked, LoadVerifier
<1>2. /\ ~ Fetching /\ FromSource(thread[t]) /\ ThreadOK(t, thread[t])
      /\ thread[t] \in ThreadType /\ ~ WriteCut(t)
  BY <1>1, InsideNoFetch DEF Sourced, FromSource, WriteCut, At
<1>3. Len(thread[t].held) < 2 /\ thread[t].held \in Seq(Setups)
  BY <1>2 DEF At, LoadParams, ParamsUnusable, CreateParams, WriteParams, WriteUnlinked,
              LoadVerifier, ThreadOK, ThreadType, Loading
<1>4. d \in DegreeNames /\ d = Degrees[Len(thread[t].held) + 1]
  BY <1>3, SetupNames DEF NextFile
<1>5. /\ \A setup \in Readable(d) : setup = Will(d)
      /\ thread[t].pc \in Making => file[d] # "ceremony" /\ Will(d) = Origin(d)
  <2>1. \A u \in MakersOf(d) : ~ At(u, "cut")
    BY DEF MakersOf, At, Sourced, FromSource
  <2>2. file[d] \in Setups => file[d] = Will(d)
    BY <1>4, SetupNames DEF Sourced, FilesFromSource, Will
  <2>3. \A setup \in Readable(d) : setup = Will(d)
    BY <2>1, <2>2 DEF Readable
  <2> QED
    BY <1>2, <1>4, <2>3 DEF Will, FromSource
<1> HIDE DEF d
<1>6. file' = file => FilesKept
  BY DEF FilesKept
<1>7. CASE LoadParams(t)
  <2>1. /\ thread[t].pc = "params" /\ StepTo(t, Hold(t, Will(d)))
    BY <1>5, <1>7 DEF LoadParams, At, d
  <2>2. FromSource(Hold(t, Will(d)))
    BY <1>2, <2>1, HoldFromSource DEF d
  <2> QED
    BY <1>1, <1>2, <1>6, <2>1, <2>2, QuietMove DEF StepTo, folderVars, history
<1>8. CASE WriteUnlinked(t)
  <2>1. /\ thread[t].pc = "unlinked" /\ StepTo(t, Hold(t, Will(d)))
    BY <1>5, <1>8 DEF WriteUnlinked, At, d, Making
  <2>2. FromSource(Hold(t, Will(d)))
    BY <1>2, <2>1, HoldFromSource DEF d
  <2> QED
    BY <1>1, <1>2, <1>6, <2>1, <2>2, QuietMove DEF StepTo, folderVars, history
<1>9. CASE ParamsUnusable(t)
  <2> DEFINE to == [thread[t] EXCEPT !.pc = "create"]
  <2>1. to.pc = "create" /\ to.held = thread[t].held
    BY <1>2 DEF ThreadType
  <2>2. file[d] # "ceremony"
    BY <1>9 DEF ParamsUnusable, FullLength, Setups, d
  <2>3. StepTo(t, to)
    BY <1>9 DEF ParamsUnusable
  <2> HIDE DEF to
  <2>4. FromSource(to)
    BY <1>2, <1>4, <2>1, <2>2 DEF FromSource
  <2> QED
    BY <1>1, <1>2, <1>6, <2>3, <2>4, QuietMove DEF StepTo, folderVars, history
<1>10. CASE CreateParams(t)
  <2> DEFINE to == [thread[t] EXCEPT !.pc = "write"]
  <2>1. to.pc = "write" /\ to.held = thread[t].held /\ thread[t].pc = "create"
    BY <1>2, <1>10 DEF ThreadType, CreateParams, At
  <2>2. file[d] # "ceremony"
    BY <1>5, <2>1 DEF Making
  <2>3. /\ thread' = [thread EXCEPT ![t] = to]
        /\ UNCHANGED <<given, fetch, host, proofs, refused>>
    <3>1. MakersOf(d) = {}
      BY <1>10 DEF CreateParams, d
    <3> QED
      BY <1>10, <3>1 DEF CreateParams, LibInv, RestOK, d
  <2>4. FilesKept
    BY <1>4, <1>10, <2>2 DEF CreateParams, FilesKept, LibInv, RestOK, d
  <2> HIDE DEF to
  <2>5. FromSource(to)
    BY <1>2, <1>4, <2>1, <2>2 DEF FromSource
  <2> QED
    BY <1>1, <1>2, <2>3, <2>4, <2>5, QuietMove
<1>11. CASE WriteParams(t)
  <2>1. /\ thread[t].pc = "write" /\ Will(d) = Origin(d) /\ file[d] # "ceremony"
    BY <1>5, <1>11 DEF WriteParams, At, Making
  <2>2. /\ thread' = [thread EXCEPT ![t] = Hold(t, Will(d))]
        /\ UNCHANGED <<given, fetch, host, proofs, refused>>
    BY <1>11, <2>1 DEF WriteParams, history, d
  <2>3. FilesKept
    BY <1>4, <1>11, <2>1 DEF WriteParams, FilesKept, LibInv, RestOK, d
  <2>4. FromSource(Hold(t, Will(d)))
    BY <1>2, <2>1, HoldFromSource DEF d
  <2> QED
    BY <1>1, <1>2, <2>2, <2>3, <2>4, QuietMove
<1>12. CASE LoadVerifier(t)
  <2> DEFINE held == Append(thread[t].held, Will(d))
             to == [thread[t] EXCEPT !.held = held]
  <2>1. /\ thread[t].pc = "vparams" /\ StepTo(t, to)
    BY <1>5, <1>12 DEF LoadVerifier, At, d
  <2>2. to.pc = "vparams" /\ to.held = held /\ to.vk = thread[t].vk
    BY <1>2, <2>1 DEF ThreadType
  <2>3. \A i \in 1..2 : i <= Len(held) => held[i] = Will(Degrees[i])
    BY <1>2, <1>3, <1>4, WillIsSetup DEF FromSource
  <2> HIDE DEF to, held
  <2>4. FromSource(to)
    BY <1>2, <2>1, <2>2, <2>3 DEF FromSource, Making
  <2> QED
    BY <1>1, <1>2, <1>6, <2>1, <2>4, QuietMove DEF StepTo, folderVars, history
<1> QED
  BY <1>2, <1>7, <1>8, <1>9, <1>10, <1>11, <1>12

\* A prover or a verifier is begun with, or is ready.
LEMMA RolesFromSource ==
  ASSUME LibInv, FetchInv, Sourced, ~ live, ~ live', NEW t \in Threads,
         BeginProver(t) \/ ProverReady(t) \/ BeginVerifier(t) \/ VerifierReady(t)
  PROVE  Sourced'
<1> USE LibraryAssumption DEF At
<1>1. host \in [Hosts -> HostType] /\ thread[t] \in ThreadType /\ ThreadOK(t, thread[t])
      /\ FromSource(thread[t]) /\ Will("AGG_DEGREE") \in Setups
  BY WillIsSetup DEF LibInv, RestOK, Sourced, DegreeNames
<1>2. FilesKept /\ UNCHANGED given /\ fetch' = fetch /\ ~ refused'
      /\ proofs' \subseteq {Will("AGG_DEGREE")}
  BY DEF BeginProver, ProverReady, BeginVerifier, VerifierReady, FilesKept, folderVars,
         Sourced, history
<1>3. ASSUME SetLogger(t)
      PROVE  /\ ~ Fetching
             /\ \A h \in Hosts : host'[h].prover = host[h].prover
                                 /\ host'[h].verifier = host[h].verifier
  BY <1>1, <1>3 DEF SetLogger, HostType
<1>4. CASE BeginProver(t)
  <2> DEFINE to == [thread[t] EXCEPT !.pc = "params"]
  <2>1. to.pc = "params" /\ to.held = thread[t].held
        /\ thread' = [thread EXCEPT ![t] = to] /\ SetLogger(t)
    BY <1>1, <1>4 DEF BeginProver, ThreadType
  <2> HIDE DEF to
  <2>2. FromSource(to)
    BY <1>1, <2>1 DEF FromSource, Making
  <2> QED
    BY <1>2, <1>3, <2>1, <2>2, MoveFromSource
<1>5. CASE BeginVerifier(t)
  <2>1. PICK key \in Setups : thread' = [thread EXCEPT ![t].pc = "vparams", ![t].vk = key]
    BY <1>5, SetupNames DEF BeginVerifier
  <2> DEFINE to == [thread[t] EXCEPT !.pc = "vparams", !.vk = key]
  <2>2. to.pc = "vparams" /\ to.held = thread[t].held
    BY <1>1 DEF ThreadType
  <2>3. thread' = [thread EXCEPT ![t] = to] /\ SetLogger(t)
    BY <1>5, <2>1 DEF BeginVerifier, LibInv, RestOK, ThreadType
  <2> HIDE DEF to
  <2>4. FromSource(to)
    BY <1>1, <2>2 DEF FromSource, Making
  <2> QED
    BY <1>2, <1>3, <2>3, <2>4, MoveFromSource
<1>6. CASE ProverReady(t)
  <2>1. ~ Fetching /\ thread'= [thread EXCEPT ![t] = Out] /\ thread[t].pc = "seed"
    BY <1>6, InsideNoFetch DEF ProverReady
  <2>2. thread[t].held[2] = Will("AGG_DEGREE") /\ ~ HasHole(t)
    <3>1. thread[t].held[1] = Will("DEGREE") /\ thread[t].held[2] = Will("AGG_DEGREE")
      BY <1>1, <2>1, SetupNames DEF ThreadOK, FromSource
    <3> QED
      BY <3>1, WillIsSetup DEF HasHole, DegreeNames
  <2>4. host' = [host EXCEPT ![HostOf[t]].prover = Will("AGG_DEGREE")]
    BY <1>6, <2>2 DEF ProverReady, SetupsMatch
  <2>3. \A h \in Hosts : /\ host'[h].prover \in {host[h].prover, Will("AGG_DEGREE")}
                         /\ host'[h].verifier = host[h].verifier
    BY <1>1, <2>4 DEF HostType
  <2> QED
    BY <1>2, <2>1, <2>3, NothingHeld, MoveFromSource
<1>7. CASE VerifierReady(t)
  <2>1. ~ Fetching /\ thread'= [thread EXCEPT ![t] = Out] /\ thread[t].pc = "vparams"
    BY <1>7, InsideNoFetch DEF VerifierReady
  <2> DEFINE v == [params |-> thread[t].held[2], vk |-> thread[t].vk]
  <2>2. v.params = Will("AGG_DEGREE")
    BY <1>1, <1>7, <2>1, SetupNames DEF VerifierReady, FromSource
  <2>3. host' = [host EXCEPT ![HostOf[t]].verifier = v]
    BY <1>7 DEF VerifierReady
  <2> HIDE DEF v
  <2>4. \A h \in Hosts : /\ host'[h].prover = host[h].prover
                         /\ host'[h].verifier \in {host[h].verifier, v}
    BY <1>1, <2>3 DEF HostType
  <2> QED
    BY <1>2, <2>1, <2>2, <2>4, NothingHeld, MoveFromSource
<1> QED
  BY <1>4, <1>5, <1>6, <1>7

\* Proving and verifying.
LEMMA CallsFromSource ==
  ASSUME LibInv, FetchInv, Sourced, ~ live, NEW t \in Threads,
         \/ BeginCall(t) \/ KeyMissing(t) \/ KeyThere(t) \/ InsertKey(t)
         \/ ProveItem(t) \/ ConvertItem(t) \/ EndCall(t) \/ Verify(t)
  PROVE  Sourced'
<1> USE LibraryAssumption DEF At
<1>1. /\ host \in [Hosts -> HostType] /\ thread \in [Threads -> ThreadType]
      /\ thread[t] \in ThreadType /\ ThreadOK(t, thread[t]) /\ FromSource(thread[t])
  BY DEF LibInv, RestOK, Sourced
<1>2. FilesKept /\ UNCHANGED <<given, fetch>>
  <2>1. UNCHANGED <<given, folderVars>>
    BY DEF BeginCall, KeyMissing, KeyThere, InsertKey, ProveItem, ConvertItem, EndCall,
           Verify, StepTo
  <2> QED
    BY <2>1 DEF FilesKept, folderVars
<1>3. ~ Fetching
  <2>1. CASE thread[t].pc # "out"
    BY <2>1, InsideNoFetch
  <2>2. CASE BeginCall(t) \/ Verify(t)
    BY <2>2, NobodyInside DEF BeginCall, Verify, FetchInv, Here
  <2> QED
    BY <2>1, <2>2 DEF KeyMissing, KeyThere, InsertKey, ProveItem, ConvertItem, EndCall, AtItem
<1>4. ASSUME NEW pc \in {"call", "keygen", "prove"}, NEW step \in Nat \ {0}
      PROVE  FromSource([thread[t] EXCEPT !.pc = pc, !.step = step])
  <2> DEFINE to == [thread[t] EXCEPT !.pc = pc, !.step = step]
  <2>1. to.pc = pc /\ to.held = thread[t].held
    BY <1>1 DEF ThreadType
  <2> HIDE DEF to
  <2>2. FromSource(to)
    BY <1>1, <2>1 DEF FromSource, Making
  <2> QED
    BY <2>2 DEF to
<1>5. ASSUME NEW pc \in {"call", "keygen", "prove"}, NEW step \in Nat \ {0},
             thread' = [thread EXCEPT ![t] = [thread[t] EXCEPT !.pc = pc, !.step = step]],
             \A h \in Hosts : host'[h].prover = host[h].prover
                              /\ host'[h].verifier = host[h].verifier,
             UNCHANGED <<proofs, refused>>
      PROVE  Sourced'
  <2> DEFINE to == [thread[t] EXCEPT !.pc = pc, !.step = step]
  <2>1. FromSource(to)
    BY <1>4
  <2> HIDE DEF to
  <2>2. thread' = [thread EXCEPT ![t] = to] /\ ~ refused'
        /\ proofs' \subseteq {Will("AGG_DEGREE")}
    BY <1>5 DEF to, Sourced
  <2> QED
    BY <1>2, <1>3, <1>5, <2>1, <2>2, MoveFromSource
<1>6. ASSUME NEW changed, SetKeys(t, changed)
      PROVE  \A h \in Hosts : host'[h].prover = host[h].prover
                              /\ host'[h].verifier = host[h].verifier
  BY <1>1, <1>6 DEF SetKeys, HostType
<1>7. CASE BeginCall(t) \/ KeyMissing(t) \/ KeyThere(t) \/ InsertKey(t)
  <2>1. PICK pc \in {"call", "keygen", "prove"} :
          thread' = [thread EXCEPT ![t] = [thread[t] EXCEPT !.pc = pc]]
    BY <1>1, <1>7 DEF BeginCall, KeyMissing, KeyThere, InsertKey, StepTo
  <2>2. /\ thread[t].step \in Nat \ {0}
        /\ [thread[t] EXCEPT !.pc = pc] =
             [thread[t] EXCEPT !.pc = pc, !.step = thread[t].step]
    BY <1>1 DEF ThreadType
  <2>3. /\ UNCHANGED <<proofs, refused>>
        /\ \A h \in Hosts : host'[h].prover = host[h].prover
                            /\ host'[h].verifier = host[h].verifier
    BY <1>6, <1>7 DEF BeginCall, KeyMissing, KeyThere, InsertKey, StepTo, history
  <2> QED
    BY <1>5, <2>1, <2>2, <2>3
<1>8. CASE ProveItem(t) \/ ConvertItem(t)
  <2>1. /\ thread[t].step + 1 \in Nat \ {0}
        /\ thread' = [thread EXCEPT ![t] =
             [thread[t] EXCEPT !.pc = "call", !.step = thread[t].step + 1]]
    <3>1. thread[t].step + 1 \in Nat \ {0}
      BY <1>1 DEF ThreadType
    <3>2. CASE ProveItem(t)
      BY <3>1, <3>2 DEF ProveItem, StepTo
    <3>3. CASE ConvertItem(t)
      BY <1>1, <3>1, <3>3 DEF ConvertItem, AtItem, ThreadType
    <3> QED
      BY <1>8, <3>1, <3>2, <3>3
  <2>2. /\ UNCHANGED <<proofs, refused>>
        /\ \A h \in Hosts : host'[h].prover = host[h].prover
                            /\ host'[h].verifier = host[h].verifier
    BY <1>6, <1>8 DEF ProveItem, ConvertItem, StepTo, history
  <2> QED
    BY <1>5, <2>1, <2>2
<1>9. CASE EndCall(t)
  <2>1. Here(t).prover = Will("AGG_DEGREE")
    BY <1>1, <1>9 DEF EndCall, ThreadOK, Proving, Sourced, HostFromSource, Here
  <2>2. proofs' \subseteq {Will("AGG_DEGREE")} /\ ~ refused' /\ host' = host
        /\ thread' = [thread EXCEPT ![t] = Out]
    BY <1>9, <2>1 DEF EndCall, Sourced, history
  <2> QED
    BY <1>2, <1>3, <2>2, NothingHeld, MoveFromSource
<1>10. CASE Verify(t)
  <2>1. Here(t).verifier.params = Will("AGG_DEGREE")
    BY <1>10 DEF Verify, Sourced, HostFromSource, Here
  <2>2. \A p \in proofs : Here(t).verifier.vk \in proofs => Accepts(Here(t).verifier, p)
    BY <2>1, WillIsSetup DEF Sourced, Accepts, DegreeNames
  <2>3. ~ refused' /\ UNCHANGED <<host, proofs, thread>>
    BY <1>10, <2>2 DEF Verify, Sourced
  <2>4. thread' = [thread EXCEPT ![t] = thread[t]]
    BY <1>1, <2>3
  <2> QED
    BY <1>1, <1>2, <1>3, <2>3, <2>4, MoveFromSource DEF Sourced
<1> QED
  BY <1>7, <1>8, <1>9, <1>10

\* A host dies: what is left is as it was.
LEMMA DeathFromSource ==
  ASSUME LibInv, SourceInv, NEW h \in Hosts, Dies(h)
  PROVE  SourceInv'
<1>1. UNCHANGED <<given, file, fetch, proofs, live, overlap, refused>>
  BY DEF Dies, folderVars, history
<1>2. FilesKept /\ UNCHANGED given
  BY <1>1 DEF FilesKept
<1>3. Will("AGG_DEGREE")' = Will("AGG_DEGREE")
      /\ (\A i \in 1..2 : Will(Degrees[i])' = Will(Degrees[i]))
      /\ (\A d \in DegreeNames : Origin(d)' = Origin(d))
  BY <1>2, WillStays, SetupNames DEF DegreeNames
<1>4. \A g \in Hosts : host'[g] = IF g = h THEN Fresh ELSE host[g]
  BY DEF Dies, LibInv, RestOK
<1>5. ASSUME Sourced PROVE Sourced'
  <2>1. \A u \in Threads : FromSource(thread'[u])
    BY <1>5, NothingHeld DEF Dies, Sourced
  <2>2. \A u \in Threads : FromSource(thread[u])'
    BY <1>1, <1>3, <2>1 DEF FromSource
  <2>3. \A g \in Hosts : HostFromSource(host[g])'
    BY <1>1, <1>3, <1>4, <1>5, NothingHeld DEF Sourced, HostFromSource
  <2>4. FilesFromSource'
    BY <1>1, <1>3, <1>5 DEF Sourced, FilesFromSource
  <2> QED
    BY <1>1, <1>3, <1>5, <2>2, <2>3, <2>4 DEF Sourced, Fetching
<1>6. FetchInv'
  BY <1>1, <1>4 DEF SourceInv, FetchInv, Fetching, NobodyHere, Fresh
<1> QED
  BY <1>1, <1>5, <1>6 DEF SourceInv, Clean

\* The script: no host is running, or the history remembers.
LEMMA FetchFromSource ==
  ASSUME LibInv, SourceInv, FetchBegin \/ FetchFile \/ FetchStops
  PROVE  SourceInv'
<1> SUFFICES ASSUME ~ live' PROVE SourceInv'
  BY DEF SourceInv, FetchInv, Clean
<1>1. NobodyHere /\ host' = host /\ proofs' = {} /\ ~ refused' /\ UNCHANGED given
      /\ ~ overlap'
  <2>1. CASE FetchBegin
    BY <2>1 DEF FetchBegin, NobodyHere
  <2>2. CASE FetchFile \/ FetchStops
    BY <2>2 DEF FetchFile, FetchStops, SourceInv, FetchInv, Sourced, Clean, history
  <2> QED
    BY <2>1, <2>2
<1>2. /\ \A t \in Threads : thread[t] = Out
      /\ \A h \in Hosts : host[h].prover = NoSetup /\ host[h].verifier = NoVerifier
  BY <1>1, NobodyInside
<1>3. \A t \in Threads : thread'[t] = Out
  <2>1. CASE FetchBegin
    BY <1>2, <2>1 DEF FetchBegin, At, Out
  <2>2. CASE FetchFile \/ FetchStops
    BY <1>2, <2>2 DEF FetchFile, FetchStops
  <2> QED
    BY <2>1, <2>2
<1>4. \A t \in Threads : FromSource(thread[t])'
  BY <1>3 DEF FromSource, Out, Making
<1>5. \A h \in Hosts : HostFromSource(host[h])'
  BY <1>1, <1>2 DEF HostFromSource
<1>6. NobodyHere'
  BY <1>1 DEF NobodyHere
<1>7. \A d \in DegreeNames : Origin(d)' = Origin(d)
  BY <1>1 DEF Origin, given
<1>8. FilesFromSource'
  <2>1. CASE FetchBegin
    BY <2>1 DEF FetchBegin, FilesFromSource, DegreeNames
  <2>2. CASE FetchFile
    BY <1>7, <2>2 DEF FetchFile, FilesFromSource, DegreeNames, SourceInv, FetchInv, Sourced,
            Clean, history, LibInv, RestOK
  <2>3. CASE FetchStops
    BY <1>7, <2>3 DEF FetchStops, FilesFromSource, SourceInv, FetchInv, Sourced, Clean,
            history
  <2> QED
    BY <2>1, <2>2, <2>3
<1> QED
  BY <1>1, <1>4, <1>5, <1>6, <1>8 DEF SourceInv, FetchInv, Sourced, Clean

LEMMA InitSource == Init => SourceInv
<1> SUFFICES ASSUME Init PROVE SourceInv
  OBVIOUS
<1>1. FilesFromSource /\ ~ Fetching
  BY DEF Init, FilesFromSource, Fetching, DegreeNames
<1> QED
  BY <1>1, NothingHeld DEF Init, SourceInv, FetchInv, Sourced, Clean, Fetching

\* What a thread does to the histories, and when it does anything at all.
LEMMA StepFetchInv ==
  ASSUME LibInv, SourceInv, NEW t \in Threads, Step(t), ~ Dies(HostOf[t]), ~ live'
  PROVE  ~ live /\ FetchInv' /\ (~ overlap' => ~ overlap)
<1> DEFINE Begins == BeginProver(t) \/ BeginVerifier(t)
           Calls == BeginCall(t) \/ Verify(t)
<1>1. ~ live /\ fetch' = fetch /\ (CreateParams(t) \/ overlap' = overlap)
  <2>1. CASE \/ LoadParams(t) \/ ParamsUnusable(t) \/ WriteUnlinked(t)
             \/ BeginCall(t) \/ KeyMissing(t) \/ KeyThere(t) \/ ProveItem(t)
             \/ LoadVerifier(t)
    <3>1. PICK to : StepTo(t, to)
      BY <2>1 DEF LoadParams, ParamsUnusable, WriteUnlinked, BeginCall, KeyMissing,
                  KeyThere, ProveItem, LoadVerifier
    <3> QED
      BY <3>1 DEF StepTo, folderVars, history
  <2>2. CASE CreateParams(t)
    BY <2>2, Zenon DEF CreateParams
  <2>3. CASE WriteParams(t) \/ WriteCut(t)
    BY <2>3 DEF WriteParams, WriteCut, history
  <2>4. CASE EndCall(t)
    BY <2>4 DEF EndCall, folderVars, history
  <2>5. CASE Verify(t)
    BY <2>5 DEF Verify, folderVars
  <2>6. CASE ProverReady(t) \/ InsertKey(t) \/ ConvertItem(t) \/ VerifierReady(t)
    <3>1. UNCHANGED <<folderVars, history>>
      BY <2>6, Zenon DEF ProverReady, InsertKey, ConvertItem, VerifierReady
    <3> QED
      BY <3>1 DEF folderVars, history
  <2>7. CASE Begins
    BY <2>7 DEF BeginProver, BeginVerifier, SetLogger, folderVars
  <2> QED
    BY <2>1, <2>2, <2>3, <2>4, <2>5, <2>6, <2>7
       DEF Step, Panics, LoggerSet, SeedMissing, AssertionFails, NotInitialised,
           CallPanics, VerifierUnloadable, VerifyPanics
<1>2. Begins \/ Calls \/ thread[t].pc # "out"
  BY DEF Step, Panics, LoggerSet, SeedMissing, AssertionFails, NotInitialised, CallPanics,
         VerifierUnloadable, VerifyPanics, At, AtItem, LoadParams, ParamsUnusable,
         CreateParams, WriteParams, WriteCut, WriteUnlinked, ProverReady, KeyMissing,
         KeyThere, InsertKey, ProveItem, ConvertItem, EndCall, LoadVerifier, VerifierReady
<1>3. ~ Fetching
  <2>1. CASE Begins
    BY <2>1 DEF BeginProver, BeginVerifier, SetLogger
  <2>2. ASSUME Calls, Fetching PROVE FALSE
    <3>1. HostOf[t] \in Hosts /\ NobodyHere
      BY <1>1, <2>2, LibraryAssumption DEF SourceInv, FetchInv
    <3> QED
      BY <2>2, <3>1, NobodyInside DEF BeginCall, Verify, Here
  <2>3. CASE thread[t].pc # "out"
    BY <1>1, <2>3, InsideNoFetch DEF SourceInv
  <2> QED
    BY <1>2, <2>1, <2>2, <2>3
<1>4. ~ overlap' => ~ overlap
  BY <1>1 DEF CreateParams
<1>5. CreateParams(t) => fetch # "done"
  <2> SUFFICES ASSUME CreateParams(t), fetch = "done" PROVE FALSE
    OBVIOUS
  <2>1. Sourced /\ thread[t].pc = "create"
    BY <1>1 DEF SourceInv, FetchInv, Clean, CreateParams, At
  <2>2. /\ Len(thread[t].held) < 2 /\ thread[t].held \in Seq(Setups)
    BY <2>1 DEF LibInv, ThreadOK, ThreadType, Loading
  <2>3. Degrees[Len(thread[t].held) + 1] \in DegreeNames
    BY <2>2, SetupNames
  <2> QED
    BY <2>1, <2>3 DEF Sourced, FilesFromSource, FromSource, Making
<1>6. FetchInv'
  BY <1>1, <1>3, <1>5 DEF SourceInv, FetchInv, Fetching
<1> QED
  BY <1>1, <1>4, <1>6

LEMMA NextSource == LibInv /\ SourceInv /\ [Next]_vars => SourceInv'
<1> SUFFICES ASSUME LibInv, SourceInv, [Next]_vars PROVE SourceInv'
  OBVIOUS
<1>1. ASSUME NEW t \in Threads, Step(t) PROVE SourceInv'
  <2>1. CASE Dies(HostOf[t])
    BY <2>1, LibraryAssumption, DeathFromSource
  <2>2. CASE live'
    BY <2>2 DEF SourceInv, FetchInv, Clean
  <2>3. CASE ~ live' /\ ~ Dies(HostOf[t])
    <3>1. ~ live /\ FetchInv' /\ (~ overlap' => ~ overlap)
      BY <1>1, <2>3, StepFetchInv
    <3>2. ASSUME ~ overlap' PROVE Sourced'
      <4>1. FetchInv /\ Sourced
        BY <3>1, <3>2 DEF SourceInv, Clean
      <4> QED
        BY <1>1, <2>3, <3>1, <3>2, <4>1,
           LoadingFromSource, RolesFromSource, CallsFromSource
           DEF Step, Panics, LoggerSet, SeedMissing, AssertionFails, NotInitialised,
               CallPanics, VerifierUnloadable, VerifyPanics
    <3> QED
      BY <3>1, <3>2 DEF SourceInv, Clean
  <2> QED
    BY <2>1, <2>2, <2>3
<1>2. CASE UNCHANGED vars
  BY <1>2 DEF vars, given, folderVars, history, SourceInv, FetchInv, Sourced, Clean,
              FilesFromSource, FromSource, Will, Origin, HostFromSource, Fetching,
              NobodyHere
<1> QED
  BY <1>1, <1>2, DeathFromSource, FetchFromSource DEF Next

LEMMA SourceInvariant == Spec => [](LibInv /\ SourceInv)
BY InitInv, NextInv, InitSource, NextSource, PTL DEF Spec

(***************************************************************************)
(* A prover never meets parameters of two setups, nor with a hole, when    *)
(* both files were fetched with no host running; or when nothing was       *)
(* fetched, PARAM_SEED is set and no two hosts made one file at one time.  *)
(***************************************************************************)
THEOREM SetupsAgreeHolds == Spec => []SetupsAgree
<1>1. LibInv /\ SourceInv => SetupsAgree
  <2> SUFFICES ASSUME LibInv, SourceInv, OneSource, NEW t \in Threads, At(t, "seed")
               PROVE  SetupsMatch(t)
    BY DEF SetupsAgree
  <2>1. Sourced
    BY DEF OneSource, SourceInv, FetchInv, Clean
  <2>2. /\ thread[t].held[1] = Will("DEGREE") /\ thread[t].held[2] = Will("AGG_DEGREE")
    BY <2>1, SetupNames DEF Sourced, FromSource, LibInv, ThreadOK, At
  <2>3. Will("DEGREE") = Will("AGG_DEGREE")
    BY <2>1 DEF OneSource, Sourced, FilesFromSource, Will, Origin, DegreeNames
  <2> QED
    BY <2>2, <2>3, WillIsSetup DEF SetupsMatch, HasHole, DegreeNames
<1> QED
  BY <1>1, SourceInvariant, PTL

(***************************************************************************)
(* No verifier with the key of a proof made with no data race since the    *)
(* last fetch refuses one of these proofs, unless the parameters were      *)
(* fetched while hosts used them or two hosts made a file at one time.     *)
(***************************************************************************)
THEOREM RoundTripHolds == Spec => []RoundTrip
<1>1. SourceInv => RoundTrip
  BY DEF SourceInv, Clean, Sourced, RoundTrip
<1> QED
  BY <1>1, SourceInvariant, PTL
=============================================================================
