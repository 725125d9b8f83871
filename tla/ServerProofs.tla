---------------------------- MODULE ServerProofs ----------------------------
(***************************************************************************)
(* Theorems of ProverServer, for any number of threads and calls, any      *)
(* traces and requests, and any number of crashes and disk failures: its   *)
(* types, one seed on disk, and no torn file without a fault.              *)
(***************************************************************************)
EXTENDS ProverServer, TLAPS

-----------------------------------------------------------------------------
(* The programs of the prover.                                             *)

\* Every item of a prover's program works on a file or a key there is.
LEMMA ProgramItems ==
  AggJob \in Seq(Items) /\ \A c \in Circuits : TargetJob[c] \in Seq(Items)
<1> USE DEF Items, Files, Circuits, AggFileKinds, Store, ProveCircuit, Convert, Solidity
<1>1. \A c \in Circuits : TargetProgram(c) \in Seq(Items)
  BY DEF TargetProgram
<1>2. AggProgram \in Seq(Items)
  <2>1. <<Convert("super"), ProveCircuit("agg")>> \in Seq(Items)
    OBVIOUS
  <2> QED
    BY <1>1, <2>1 DEF AggProgram
<1>3. WriteAggProof \in Seq(Items) /\ WriteSolidity \in Seq(Items)
  BY DEF WriteAggProof, WriteSolidity
<1>4. ASSUME NEW c \in Circuits
      PROVE  TargetJob[c] \in Seq(Items)
  <2>1. <<Store(<<c, "proof">>)>> \in Seq(Items)
    OBVIOUS
  <2>2. TargetJob[c] = TargetProgram(c) \o <<Store(<<c, "proof">>)>>
    BY DEF TargetJob
  <2> HIDE DEF Items, Store
  <2> QED
    BY <1>1, <2>1, <2>2
<1> QED
  BY <1>2, <1>3, <1>4 DEF AggJob

LEMMA ProofTypeNames ==
  \A value : ProofTypeOf(value) \in {"evm", "state", "super", "agg", "none"}
BY DEF ProofTypeOf, ProofTypes

LEMMA KeysStayKeys ==
  ASSUME NEW item \in Items, NEW keys \in SUBSET Keys
  PROVE  KeysAfter(item, keys) \in SUBSET Keys
BY DEF KeysAfter, Items, Files, Keys, AggFileKinds

-----------------------------------------------------------------------------
(* The inductive invariant for the types.                                  *)

\* A busy thread works on a call that passed the checks of the handler.
JobsAdmitted ==
  \A w \in Workers : worker[w].stage # "idle" =>
    /\ worker[w].call \in Calls
    /\ Asks(JobOf(w)) /\ Admissible(JobOf(w))

\* A prover is built for a numbered block and with a seed in hand.
RunsSeeded ==
  \A w \in Workers : Running(w) =>
    TraceOf(w).height # NoHeight /\ seedPc[w] = "ok"

ServerInv == TypeOK /\ JobsAdmitted /\ RunsSeeded

LEMMA RequestTypes ==
  ASSUME NEW r \in Requests, Asks(r), Admissible(r)
  PROVE  /\ r.trace \in Traces
         /\ r.trace \in TraceType
         /\ ProgramOf(r) \in Seq(Items)
<1>1. r \in ProveRequests
  BY ServerAssumption DEF SpecRequest, Asks, ProveRequests
<1>2. r.trace \in Traces /\ r.trace \in TraceType
  BY <1>1, ServerAssumption DEF ProveRequests
<1>3. ProofTypeOf(r.type) \in {"evm", "state", "super", "agg"}
  BY ProofTypeNames DEF Admissible
<1>4. ProgramOf(r) = IF ProofTypeOf(r.type) = "agg" THEN AggJob
                     ELSE TargetJob[ProofTypeOf(r.type)]
  BY DEF ProgramOf
<1>5. ProofTypeOf(r.type) # "agg" => ProofTypeOf(r.type) \in Circuits
  BY <1>3 DEF Circuits
<1> QED
  BY <1>2, <1>4, <1>5, ProgramItems

LEMMA JobTypes ==
  ASSUME TypeOK, JobsAdmitted, NEW w \in Workers, worker[w].stage # "idle"
  PROVE  /\ JobOf(w) \in Requests
         /\ TraceOf(w) \in Traces
         /\ TraceOf(w) \in TraceType
         /\ Program(w) \in Seq(Items)
         /\ AtItem(w) => Item(w) \in Items
<1>1. JobOf(w) \in Requests
  BY DEF TypeOK, JobsAdmitted, JobOf
<1>2. Asks(JobOf(w)) /\ Admissible(JobOf(w))
  BY DEF JobsAdmitted
<1>3. Program(w) \in Seq(Items)
  BY <1>1, <1>2, RequestTypes DEF Program
<1> QED
  BY <1>1, <1>2, <1>3, RequestTypes DEF TraceOf, AtItem, Item

\* A file of a numbered block has a place under ./out_proof.
LEMMA SlotTypes ==
  ASSUME TypeOK, JobsAdmitted, RunsSeeded,
         NEW w \in Workers, Running(w), NEW item \in Items
  PROVE  SlotOf(w, item) \in Slots
<1>1. TraceOf(w) \in Traces /\ TraceOf(w).height # NoHeight
  BY JobTypes DEF Running, RunsSeeded
<1>2. item.arg \in Files
  BY DEF Items
<1> QED
  BY <1>1, <1>2 DEF SlotOf, Slots, Heights

\* The operations on the seed file keep its types, and disturb no caller but
\* their own.
LEMMA SeedTypes ==
  ASSUME Seed!SeedTypeOK
  PROVE  /\ UNCHANGED seedVars => Seed!SeedTypeOK'
         /\ \A w \in Workers : Seed!SeedStep(w) =>
              /\ Seed!SeedTypeOK'
              /\ seedPc[w] # "ok"
              /\ \A v \in Workers \ {w} : seedPc'[v] = seedPc[v]
         /\ \A dead \in SUBSET Workers : Seed!SeedAbandon(dead) =>
              /\ Seed!SeedTypeOK'
              /\ \A v \in Workers \ dead : seedPc'[v] = seedPc[v]
<1> USE DEF Seed!SeedTypeOK, Seed!FileContents, Seed!Seeds, Seed!SeedPcs, Seed!NoSeed
<1>1. UNCHANGED seedVars => Seed!SeedTypeOK'
  BY DEF seedVars
<1>2. ASSUME NEW w \in Workers, Seed!SeedStep(w)
      PROVE  /\ Seed!SeedTypeOK'
             /\ seedPc[w] # "ok"
             /\ \A v \in Workers \ {w} : seedPc'[v] = seedPc[v]
  <2> USE DEF Seed!GoTo
  <2>1. CASE Seed!SeedExists(w) \/ Seed!SeedMissing(w)
    BY <2>1 DEF Seed!SeedExists, Seed!SeedMissing
  <2>2. CASE Seed!LoadSeed(w) \/ Seed!LoadSeedFails(w)
    BY <2>2 DEF Seed!LoadSeed, Seed!LoadSeedFails
  <2>3. CASE Seed!CreateSeed(w) \/ Seed!WriteSeed(w)
    BY <2>3 DEF Seed!CreateSeed, Seed!WriteSeed
  <2> QED
    BY <1>2, <2>1, <2>2, <2>3 DEF Seed!SeedStep
<1>3. ASSUME NEW dead \in SUBSET Workers, Seed!SeedAbandon(dead)
      PROVE  /\ Seed!SeedTypeOK'
             /\ \A v \in Workers \ dead : seedPc'[v] = seedPc[v]
  BY <1>3 DEF Seed!SeedAbandon
<1> QED
  BY <1>1, <1>2, <1>3

-----------------------------------------------------------------------------
(* Every step keeps the invariant.                                         *)

WorkerType ==
  [stage : Stages, call : Calls \cup {NoCall}, step : Nat \ {0},
   open : BOOLEAN, keys : SUBSET Keys, alone : BOOLEAN]

LEMMA ResolveTypes ==
  ASSUME TypeOK, NEW i, NEW to \in Service!Answers, Resolve(i, to)
  PROVE  answer' \in [Calls -> Service!Answers]
BY DEF TypeOK, Resolve

LEMMA IdleType == Idle \in WorkerType
BY DEF Idle, WorkerType, Stages

\* The steps that leave the threads and their seeds alone.
LEMMA InvQuietSteps ==
  ASSUME ServerInv, UNCHANGED <<request, worker, seedVars>>,
         answer' \in [Calls -> Service!Answers], inbox' \subseteq Calls,
         DOMAIN disk' \subseteq Slots, params' \subseteq Degrees, faults' \in 0..MaxFaults
  PROVE  ServerInv'
<1>1. TypeOK'
  BY SeedTypes DEF ServerInv, TypeOK
<1>2. JobsAdmitted' /\ RunsSeeded'
  BY DEF ServerInv, JobsAdmitted, RunsSeeded, Running, TraceOf, JobOf, seedVars
<1> QED
  BY <1>1, <1>2 DEF ServerInv

LEMMA InvCallers ==
  ASSUME ServerInv,
         \/ \E i \in Calls : Send(i) \/ GiveUp(i)
         \/ \E d \in Degrees : ProvideParams(d)
         \/ UNCHANGED vars
  PROVE  ServerInv'
<1> USE DEF ServerInv, TypeOK, callVars, seedVars
<1>1. ASSUME NEW i \in Calls, Send(i)
      PROVE  ServerInv'
  <2>1. answer' \in [Calls -> Service!Answers]
    BY <1>1 DEF Send, Service!Answers
  <2> QED
    BY <1>1, <2>1, InvQuietSteps DEF Send
<1>2. ASSUME NEW i \in Calls, GiveUp(i)
      PROVE  ServerInv'
  <2>1. answer' \in [Calls -> Service!Answers]
    BY <1>2 DEF GiveUp, Service!Answers
  <2> QED
    BY <1>2, <2>1, InvQuietSteps DEF GiveUp
<1>3. ASSUME NEW d \in Degrees, ProvideParams(d)
      PROVE  ServerInv'
  BY <1>3, InvQuietSteps DEF ProvideParams
<1>4. CASE UNCHANGED vars
  BY <1>4, InvQuietSteps DEF vars
<1> QED
  BY <1>1, <1>2, <1>3, <1>4

\* One thread moves on with its job, or takes one up.
LEMMA InvOneWorker ==
  ASSUME ServerInv, NEW w \in Workers, NEW job \in WorkerType,
         worker' = [worker EXCEPT ![w] = job], UNCHANGED <<request, params>>,
         faults' \in 0..MaxFaults, answer' \in [Calls -> Service!Answers], inbox' \subseteq Calls,
         DOMAIN disk' \subseteq Slots, Seed!SeedTypeOK',
         \A v \in Workers \ {w} : seedPc'[v] = seedPc[v],
         job.stage # "idle" =>
           /\ job.call \in Calls
           /\ Asks(request[job.call]) /\ Admissible(request[job.call]),
         job.stage = "run" =>
           request[job.call].trace.height # NoHeight /\ seedPc'[w] = "ok"
  PROVE  ServerInv'
<1>1. /\ worker' \in [Workers -> WorkerType]
      /\ worker'[w] = job
      /\ \A v \in Workers \ {w} : worker'[v] = worker[v]
  BY DEF ServerInv, TypeOK, WorkerType
<1>2. TypeOK'
  BY <1>1 DEF ServerInv, TypeOK, WorkerType
<1>3. JobsAdmitted'
  BY <1>1 DEF ServerInv, JobsAdmitted, JobOf
<1>4. RunsSeeded'
  BY <1>1 DEF ServerInv, RunsSeeded, Running, TraceOf, JobOf
<1> QED
  BY <1>2, <1>3, <1>4 DEF ServerInv

LEMMA InvTake ==
  ASSUME ServerInv, NEW w \in Workers, TakeAny(w)
  PROVE  ServerInv'
<1>1. PICK i \in Calls :
        AnswerSpec(w, i) \/ Refuse(w, i) \/ StartJob(w, i)
  BY DEF TakeAny
<1>2. inbox' \subseteq Calls
  BY <1>1 DEF AnswerSpec, Refuse, StartJob, Take, ServerInv, TypeOK
<1>3. CASE AnswerSpec(w, i)
  <2>1. answer' \in [Calls -> Service!Answers]
    BY <1>3, ResolveTypes DEF AnswerSpec, ServerInv, Service!Answers
  <2> QED
    BY <1>2, <1>3, <2>1, InvQuietSteps DEF AnswerSpec, Take, ServerInv, TypeOK
<1>4. CASE Refuse(w, i)
  <2>1. answer' \in [Calls -> Service!Answers]
    BY <1>4, ResolveTypes DEF Refuse, ServerInv, Service!Answers
  <2> QED
    BY <1>2, <1>4, <2>1, InvQuietSteps DEF Refuse, Take, ServerInv, TypeOK
<1>5. CASE StartJob(w, i)
  <2> DEFINE job == [worker[w] EXCEPT !.stage = "params", !.call = i]
  <2>1. job \in WorkerType /\ job.stage = "params" /\ job.call = i
    BY DEF ServerInv, TypeOK, WorkerType, Stages
  <2>2. worker' = [worker EXCEPT ![w] = job]
    BY <1>5 DEF StartJob, ServerInv, TypeOK, WorkerType
  <2>3. Seed!SeedTypeOK' /\ UNCHANGED seedPc
    BY <1>5, SeedTypes DEF StartJob, Take, ServerInv, TypeOK, seedVars
  <2>4. /\ UNCHANGED <<request, params, answer, disk, faults>>
        /\ Asks(request[i]) /\ Admissible(request[i])
    BY <1>5 DEF StartJob, Take
  <2> HIDE DEF job
  <2> QED
    BY <1>2, <2>1, <2>2, <2>3, <2>4, InvOneWorker DEF ServerInv, TypeOK
<1> QED
  BY <1>1, <1>3, <1>4, <1>5

\* The ways a job ends: an answer, a panic, a disk failure.
LEMMA InvEndJob ==
  ASSUME ServerInv, NEW w \in Workers, NEW to \in {"proof", "dropped"},
         EndJob(w, to), UNCHANGED disk, faults' \in 0..MaxFaults
  PROVE  ServerInv'
<1>1. answer' \in [Calls -> Service!Answers]
  BY ResolveTypes DEF EndJob, ServerInv, Service!Answers
<1>2. Seed!SeedTypeOK' /\ \A v \in Workers \ {w} : seedPc'[v] = seedPc[v]
  BY SeedTypes DEF EndJob, ServerInv, TypeOK
<1>3. Idle.stage = "idle"
  BY DEF Idle
<1> QED
  BY <1>1, <1>2, <1>3, IdleType, InvOneWorker DEF EndJob, ServerInv, TypeOK

LEMMA InvEndings ==
  ASSUME ServerInv, NEW w \in Workers,
         \/ ParamsMissing(w) \/ SeedUnreadable(w) \/ HeightMissing(w)
         \/ ComputeFails(w) \/ StoreFails(w) \/ AnswerProof(w)
  PROVE  ServerInv'
<1>1. CASE AnswerProof(w)
  BY <1>1, InvEndJob DEF AnswerProof, ServerInv, TypeOK
<1>2. CASE StoreFails(w)
  <2>1. faults' \in 0..MaxFaults
    BY <1>2, ServerAssumption DEF StoreFails, ServerInv, TypeOK
  <2> QED
    BY <1>2, <2>1, InvEndJob DEF StoreFails
<1>3. CASE ParamsMissing(w) \/ SeedUnreadable(w) \/ HeightMissing(w) \/ ComputeFails(w)
  <2>1. Panic(w)
    BY <1>3 DEF ParamsMissing, SeedUnreadable, HeightMissing, ComputeFails
  <2> QED
    BY <2>1, InvEndJob DEF Panic, ServerInv, TypeOK
<1> QED
  BY <1>1, <1>2, <1>3

LEMMA InvLoading ==
  ASSUME ServerInv, NEW w \in Workers, LoadParams(w) \/ LoadOrCreateSeed(w)
  PROVE  ServerInv'
<1>1. worker[w].stage # "idle" /\ worker[w] \in WorkerType
  BY DEF LoadParams, LoadOrCreateSeed, ServerInv, TypeOK, WorkerType
<1>2. CASE LoadParams(w)
  <2> DEFINE job == [worker[w] EXCEPT !.stage = "seed"]
  <2>1. job \in WorkerType /\ job.stage = "seed" /\ job.call = worker[w].call
    BY <1>1 DEF WorkerType, Stages
  <2>2. worker' = [worker EXCEPT ![w] = job]
    BY <1>2 DEF LoadParams
  <2>3. Seed!SeedTypeOK' /\ UNCHANGED seedPc
    BY <1>2, SeedTypes DEF LoadParams, ServerInv, TypeOK, seedVars
  <2> QED
    BY <1>1, <1>2, <2>1, <2>2, <2>3, InvOneWorker
       DEF LoadParams, callVars, ServerInv, TypeOK, JobsAdmitted, JobOf
<1>3. CASE LoadOrCreateSeed(w)
  <2>1. /\ Seed!SeedTypeOK'
        /\ \A v \in Workers \ {w} : seedPc'[v] = seedPc[v]
    BY <1>3, SeedTypes DEF LoadOrCreateSeed, ServerInv, TypeOK
  <2>2. worker' = [worker EXCEPT ![w] = worker[w]] /\ worker[w].stage = "seed"
    BY <1>3 DEF LoadOrCreateSeed, ServerInv, TypeOK
  <2> QED
    BY <1>1, <1>3, <2>1, <2>2, InvOneWorker
       DEF LoadOrCreateSeed, callVars, ServerInv, TypeOK, JobsAdmitted, JobOf
<1> QED
  BY <1>2, <1>3

LEMMA InvBuildProver ==
  ASSUME ServerInv, NEW w \in Workers, BuildProver(w)
  PROVE  ServerInv'
<1> DEFINE rivals == {v \in Workers \ {w} : Rivals(v, w)}
           job(v) == CASE v = w -> [worker[w] EXCEPT !.stage = "run", !.alone = rivals = {}]
                       [] v \in rivals -> [worker[v] EXCEPT !.alone = FALSE]
                       [] OTHER -> worker[v]
<1>a. /\ worker' = [v \in Workers |-> job(v)]
      /\ \A v \in Workers : worker[v] \in WorkerType
  BY DEF BuildProver, ServerInv, TypeOK, WorkerType
<1>b. ASSUME NEW v \in Workers
      PROVE  /\ job(v) \in WorkerType /\ job(v).call = worker[v].call
             /\ v # w => job(v).stage = worker[v].stage
  <2>1. worker[v] \in WorkerType /\ worker[w] \in WorkerType
    BY <1>a
  <2>2. w \notin rivals
    OBVIOUS
  <2> HIDE DEF rivals
  <2>3. CASE v = w
    BY <2>1, <2>3 DEF WorkerType, Stages
  <2>4. CASE v # w
    BY <2>1, <2>4 DEF WorkerType
  <2> QED
    BY <2>3, <2>4
<1> HIDE DEF job
<1>1. /\ worker' \in [Workers -> WorkerType]
      /\ \A v \in Workers : worker'[v].call = worker[v].call
      /\ \A v \in Workers \ {w} : worker'[v].stage = worker[v].stage
  BY <1>a, <1>b
<1>2. TypeOK'
  BY <1>1, SeedTypes DEF BuildProver, callVars, ServerInv, TypeOK, WorkerType
<1>3. UNCHANGED <<request, seedPc>>
  BY DEF BuildProver, callVars, seedVars
<1>4. /\ worker[w].stage = "seed" /\ seedPc[w] = "ok"
      /\ request[worker[w].call].trace.height # NoHeight
  BY DEF BuildProver, TraceOf, JobOf
<1>5. JobsAdmitted'
  BY <1>1, <1>3, <1>4 DEF ServerInv, JobsAdmitted, JobOf
<1>6. RunsSeeded'
  BY <1>1, <1>3, <1>4 DEF ServerInv, RunsSeeded, Running, TraceOf, JobOf
<1> QED
  BY <1>2, <1>5, <1>6 DEF ServerInv

\* A step of the program changes the step, the open file and the keys only.
LEMMA InvProgramStep ==
  ASSUME ServerInv, NEW w \in Workers, Running(w),
         NEW step \in Nat \ {0}, NEW open \in BOOLEAN, NEW keys \in SUBSET Keys,
         worker' = [worker EXCEPT ![w] =
           [worker[w] EXCEPT !.step = step, !.open = open, !.keys = keys]],
         UNCHANGED <<callVars, params, faults, seedVars>>,
         DOMAIN disk' \subseteq Slots
  PROVE  ServerInv'
<1> DEFINE job == [worker[w] EXCEPT !.step = step, !.open = open, !.keys = keys]
<1>1. /\ job \in WorkerType
      /\ job.stage = "run" /\ job.call = worker[w].call
  BY DEF ServerInv, TypeOK, WorkerType, Running
<1>2. /\ job.call \in Calls
      /\ Asks(request[job.call]) /\ Admissible(request[job.call])
      /\ request[job.call].trace.height # NoHeight
      /\ seedPc[w] = "ok"
  BY <1>1 DEF ServerInv, JobsAdmitted, RunsSeeded, JobOf, TraceOf, Running
<1>3. Seed!SeedTypeOK' /\ UNCHANGED seedPc
  BY SeedTypes DEF ServerInv, TypeOK, seedVars
<1>4. worker' = [worker EXCEPT ![w] = job]
  OBVIOUS
<1>5. /\ UNCHANGED <<request, params>>
      /\ answer' \in [Calls -> Service!Answers]
      /\ inbox' \subseteq Calls
      /\ faults' \in 0..MaxFaults
  BY DEF callVars, ServerInv, TypeOK
<1> HIDE DEF job
<1> QED
  BY <1>1, <1>2, <1>3, <1>4, <1>5, InvOneWorker

LEMMA InvProgram ==
  ASSUME ServerInv, NEW w \in Workers,
         Compute(w) \/ OpenFile(w) \/ WriteFile(w)
  PROVE  ServerInv'
<1>1. /\ Running(w) /\ worker[w] \in WorkerType
      /\ Item(w) \in Items
      /\ SlotOf(w, Item(w)) \in Slots
  BY JobTypes, SlotTypes
     DEF Compute, OpenFile, WriteFile, AtItem, Running, ServerInv, TypeOK, WorkerType
<1>2. CASE Compute(w)
  <2>1. KeysAfter(Item(w), worker[w].keys) \in SUBSET Keys
    BY <1>1, KeysStayKeys DEF WorkerType
  <2>2. worker' = [worker EXCEPT ![w] =
          [worker[w] EXCEPT !.step = worker[w].step + 1, !.open = worker[w].open,
                            !.keys = KeysAfter(Item(w), worker[w].keys)]]
    BY <1>1, <1>2 DEF Compute, ServerInv, TypeOK, WorkerType
  <2>3. /\ UNCHANGED <<callVars, params, faults, seedVars>>
        /\ DOMAIN disk' \subseteq Slots
    BY <1>2 DEF Compute, ServerInv, TypeOK
  <2>4. worker[w].step + 1 \in Nat \ {0} /\ worker[w].open \in BOOLEAN
    BY <1>1 DEF WorkerType
  <2> QED
    BY <1>1, <2>1, <2>2, <2>3, <2>4, InvProgramStep
<1>3. CASE OpenFile(w)
  <2>1. worker' = [worker EXCEPT ![w] =
          [worker[w] EXCEPT !.step = worker[w].step, !.open = TRUE,
                            !.keys = worker[w].keys]]
    BY <1>1, <1>3 DEF OpenFile, ServerInv, TypeOK, WorkerType
  <2>2. /\ UNCHANGED <<callVars, params, faults, seedVars>>
        /\ DOMAIN disk' \subseteq Slots
    BY <1>1, <1>3 DEF OpenFile, Put, ServerInv, TypeOK
  <2>3. worker[w].step \in Nat \ {0} /\ worker[w].keys \in SUBSET Keys
    BY <1>1 DEF WorkerType
  <2> QED
    BY <1>1, <2>1, <2>2, <2>3, InvProgramStep
<1>4. CASE WriteFile(w)
  <2>1. worker' = [worker EXCEPT ![w] =
          [worker[w] EXCEPT !.step = worker[w].step + 1, !.open = FALSE,
                            !.keys = worker[w].keys]]
    BY <1>1, <1>4 DEF WriteFile, ServerInv, TypeOK, WorkerType
  <2>2. /\ UNCHANGED <<callVars, params, faults, seedVars>>
        /\ DOMAIN disk' \subseteq Slots
    BY <1>1, <1>4 DEF WriteFile, Put, ServerInv, TypeOK
  <2>3. worker[w].step + 1 \in Nat \ {0} /\ worker[w].keys \in SUBSET Keys
    BY <1>1 DEF WorkerType
  <2> QED
    BY <1>1, <2>1, <2>2, <2>3, InvProgramStep
<1> QED
  BY <1>2, <1>3, <1>4

LEMMA InvCrash == ServerInv /\ Crash => ServerInv'
<1> SUFFICES ASSUME ServerInv, Crash
             PROVE  ServerInv'
  OBVIOUS
<1>1. answer' \in [Calls -> Service!Answers]
  BY DEF Crash, ServerInv, TypeOK, Service!Answers
<1>2. worker' \in [Workers -> WorkerType]
  BY IdleType DEF Crash
<1>3. faults' \in 0..MaxFaults
  BY ServerAssumption DEF Crash, ServerInv, TypeOK
<1>4. Seed!SeedTypeOK'
  BY SeedTypes DEF Crash, ServerInv, TypeOK
<1>5. TypeOK'
  BY <1>1, <1>2, <1>3, <1>4 DEF Crash, ServerInv, TypeOK, WorkerType
<1>6. JobsAdmitted' /\ RunsSeeded'
  BY DEF Crash, Idle, JobsAdmitted, RunsSeeded, Running
<1> QED
  BY <1>5, <1>6 DEF ServerInv

LEMMA InvInit == Init => ServerInv
<1> SUFFICES ASSUME Init
             PROVE  ServerInv
  OBVIOUS
<1>1. Seed!SeedTypeOK
  BY DEF Init, Seed!SeedInit, Seed!SeedTypeOK, Seed!FileContents, Seed!Seeds,
         Seed!SeedPcs, Seed!NoSeed
<1>2. worker \in [Workers -> WorkerType]
  BY IdleType DEF Init
<1>3. DOMAIN disk = {}
  BY DEF Init
<1>4. TypeOK
  BY <1>1, <1>2, <1>3, ServerAssumption
     DEF Init, TypeOK, WorkerType, Service!Answers
<1>5. JobsAdmitted /\ RunsSeeded
  BY DEF Init, Idle, JobsAdmitted, RunsSeeded, Running
<1> QED
  BY <1>4, <1>5 DEF ServerInv

LEMMA InvNext == ServerInv /\ [Next]_vars => ServerInv'
<1> SUFFICES ASSUME ServerInv, [Next]_vars
             PROVE  ServerInv'
  OBVIOUS
<1>1. ASSUME NEW w \in Workers, WorkerStep(w) \/ StoreFails(w)
      PROVE  ServerInv'
  BY <1>1, InvTake, InvEndings, InvLoading, InvBuildProver, InvProgram DEF WorkerStep
<1>2. CASE \E i \in Calls : Send(i) \/ GiveUp(i)
  BY <1>2, InvCallers
<1>3. CASE \E d \in Degrees : ProvideParams(d)
  BY <1>3, InvCallers
<1>4. CASE Crash
  BY <1>4, InvCrash
<1>5. CASE AllServed \/ UNCHANGED vars
  BY <1>5, InvCallers DEF AllServed
<1> QED
  BY <1>1, <1>2, <1>3, <1>4, <1>5 DEF Next

LEMMA ServerInvariant == Spec => []ServerInv
BY InvInit, InvNext, PTL DEF Spec

(***************************************************************************)
(* The server's variables keep their types; in particular whatever a job   *)
(* stores goes under a name of its program in the directory of a block     *)
(* number, never elsewhere.                                                *)
(***************************************************************************)
THEOREM ServerTypeCorrect == Spec => []TypeOK
<1>1. ServerInv => TypeOK
  BY DEF ServerInv
<1> QED
  BY <1>1, ServerInvariant, PTL

-----------------------------------------------------------------------------
(* The inductive invariant for the files and the seed.                     *)

\* Only a thread that stores a file has one open, and that file is there.
OpenFilesExist ==
  \A w \in Workers : worker[w].open =>
    /\ AtItem(w) /\ Stores(Item(w))
    /\ SlotOf(w, Item(w)) \in DOMAIN disk

\* The seed of all provers: the operator's, or else the constant.
Origin == IF seedFile = "operator" THEN "operator" ELSE "fixed"

SeedsAgree ==
  \A w \in Workers :
    /\ seedFile = "operator" => seedPc[w] \notin {"create", "write"}
    /\ seedPc[w] = "ok" => seedOf[w] = Origin

DiskSeeded ==
  \A slot \in DOMAIN disk : \A b \in disk[slot] : b.of = "trace" => b.seed = Origin

DiskInv ==
  ServerInv /\ OpenFilesExist /\ SeedsAgree /\ DiskSeeded /\ TornOnlyInFlight

-----------------------------------------------------------------------------
(* The seed file.                                                          *)

LEMMA SeedOrigin ==
  ASSUME ServerInv, SeedsAgree,
         \/ UNCHANGED seedVars
         \/ \E w \in Workers : Seed!SeedStep(w)
         \/ \E dead \in SUBSET Workers : Seed!SeedAbandon(dead)
  PROVE  SeedsAgree' /\ Origin' = Origin
<1> USE DEF SeedsAgree, Origin
<1>0. /\ seedFile \in {"absent", "short", "fixed", "operator"}
      /\ seedPc \in [Workers -> {"out", "load", "create", "write", "ok", "failed"}]
      /\ seedOf \in [Workers -> {"fixed", "operator", "none"}]
  BY DEF ServerInv, TypeOK, Seed!SeedTypeOK, Seed!FileContents, Seed!Seeds,
         Seed!SeedPcs, Seed!NoSeed
<1>1. CASE UNCHANGED seedVars
  BY <1>1 DEF seedVars
<1>2. CASE \E w \in Workers : Seed!SeedStep(w)
  <2>1. PICK w \in Workers : Seed!SeedStep(w)
    BY <1>2
  <2> USE DEF Seed!GoTo
  <2>2. CASE Seed!SeedExists(w)
    BY <1>0, <2>2 DEF Seed!SeedExists
  <2>3. CASE Seed!SeedMissing(w)
    BY <1>0, <2>3 DEF Seed!SeedMissing
  <2>4. CASE Seed!LoadSeed(w)
    BY <1>0, <2>4 DEF Seed!LoadSeed, Seed!Seeds
  <2>5. CASE Seed!LoadSeedFails(w)
    BY <1>0, <2>5 DEF Seed!LoadSeedFails
  <2>6. CASE Seed!CreateSeed(w)
    BY <1>0, <2>6 DEF Seed!CreateSeed
  <2>7. CASE Seed!WriteSeed(w)
    BY <1>0, <2>7 DEF Seed!WriteSeed
  <2> QED
    BY <2>1, <2>2, <2>3, <2>4, <2>5, <2>6, <2>7 DEF Seed!SeedStep
<1>3. CASE \E dead \in SUBSET Workers : Seed!SeedAbandon(dead)
  BY <1>0, <1>3 DEF Seed!SeedAbandon
<1> QED
  BY <1>1, <1>2, <1>3

-----------------------------------------------------------------------------
(* Steps and what they do to threads and files.                            *)

\* The thread stays at the same item of the same job.
StaysAt(v) ==
  /\ worker'[v].stage = worker[v].stage
  /\ worker'[v].call = worker[v].call
  /\ worker'[v].step = worker[v].step

Stays(v) == StaysAt(v) /\ worker'[v].open = worker[v].open

LEMMA SameItem ==
  ASSUME NEW v \in Workers, UNCHANGED request, StaysAt(v)
  PROVE  /\ AtItem(v)' = AtItem(v)
         /\ Item(v)' = Item(v)
         /\ \A item : SlotOf(v, item)' = SlotOf(v, item)
BY DEF StaysAt, AtItem, Running, Item, Program, SlotOf, TraceOf, JobOf

\* A step that leaves the files alone and closes none of them, but for a fault.
LEMMA QuietDisk ==
  ASSUME DiskInv, UNCHANGED <<request, disk>>, faults' \in Nat,
         \A v \in Workers : worker'[v].open => Stays(v),
         faults' > 0 \/ (faults' = faults /\ \A v \in Workers : worker[v].open => Stays(v))
  PROVE  OpenFilesExist' /\ TornOnlyInFlight'
<1>1. OpenFilesExist'
  <2> SUFFICES ASSUME NEW v \in Workers, worker'[v].open
               PROVE  /\ AtItem(v)' /\ Stores(Item(v)')
                      /\ SlotOf(v, Item(v))' \in DOMAIN disk
    BY DEF OpenFilesExist, Stores
  <2>1. StaysAt(v) /\ worker[v].open
    BY DEF Stays
  <2>2. AtItem(v) /\ Stores(Item(v)) /\ SlotOf(v, Item(v)) \in DOMAIN disk
    BY <2>1 DEF DiskInv, OpenFilesExist
  <2>3. SlotOf(v, Item(v))' = SlotOf(v, Item(v))
    BY <2>1 DEF StaysAt, Item, Program, SlotOf, TraceOf, JobOf
  <2> QED
    BY <2>1, <2>2, <2>3, SameItem
<1>2. CASE faults' > 0
  BY <1>1, <1>2 DEF TornOnlyInFlight
<1>3. CASE faults' = faults /\ \A v \in Workers : worker[v].open => Stays(v)
  <2> SUFFICES ASSUME NEW slot \in DOMAIN disk, disk[slot] = {}, ~ (faults > 0)
               PROVE  \E v \in Workers : Opened(v, slot)'
    BY <1>1, <1>3 DEF TornOnlyInFlight
  <2>1. PICK v \in Workers : Opened(v, slot)
    BY DEF DiskInv, TornOnlyInFlight
  <2>2. StaysAt(v) /\ worker'[v].open /\ AtItem(v)
    BY <1>3, <2>1 DEF Opened, Stays
  <2>3. SlotOf(v, Item(v))' = SlotOf(v, Item(v))
    BY <2>2 DEF StaysAt, Item, Program, SlotOf, TraceOf, JobOf
  <2> QED
    BY <2>1, <2>2, <2>3, SameItem DEF Opened
<1> QED
  BY <1>1, <1>2, <1>3

LEMMA QuietBytes ==
  ASSUME DiskSeeded, UNCHANGED disk, Origin' = Origin
  PROVE  DiskSeeded'
BY DEF DiskSeeded

-----------------------------------------------------------------------------
(* Every step keeps the invariant.                                         *)

\* A thread's job ends where it stands, with its file closed or by a fault.
LEMMA EndedDisk ==
  ASSUME DiskInv, NEW w \in Workers, NEW to, EndJob(w, to), UNCHANGED disk,
         \/ faults' = faults /\ ~ worker[w].open
         \/ faults' \in Nat /\ faults' > 0
  PROVE  OpenFilesExist' /\ TornOnlyInFlight'
<1>1. /\ UNCHANGED request
      /\ worker' = [worker EXCEPT ![w] = Idle]
      /\ worker \in [Workers -> WorkerType]
      /\ faults \in Nat
  BY ServerAssumption DEF EndJob, DiskInv, ServerInv, TypeOK, WorkerType
<1>2. worker'[w].open = FALSE /\ \A v \in Workers \ {w} : worker'[v] = worker[v]
  BY <1>1 DEF Idle
<1>3. \A v \in Workers \ {w} : Stays(v)
  BY <1>2 DEF Stays, StaysAt
<1> QED
  BY <1>1, <1>2, <1>3, QuietDisk

\* No thread moves within its program, and no file is touched.
LEMMA StandingDisk ==
  ASSUME DiskInv, UNCHANGED <<request, disk, faults>>,
         \A v \in Workers : worker[v].open \/ worker'[v].open => Stays(v)
  PROVE  OpenFilesExist' /\ TornOnlyInFlight'
<1>1. faults \in Nat
  BY ServerAssumption DEF DiskInv, ServerInv, TypeOK
<1> QED
  BY <1>1, QuietDisk

\* Threads that take a call, or prepare the run of a job.
LEMMA PreparingDisk ==
  ASSUME DiskInv, NEW w \in Workers,
         \/ TakeAny(w) \/ LoadParams(w) \/ LoadOrCreateSeed(w)
         \/ BuildProver(w) \/ Compute(w)
  PROVE  OpenFilesExist' /\ TornOnlyInFlight'
<1>0. /\ worker \in [Workers -> WorkerType]
      /\ \A v \in Workers : worker[v].open => AtItem(v) /\ Stores(Item(v))
  BY DEF DiskInv, ServerInv, TypeOK, WorkerType, OpenFilesExist
<1>1. UNCHANGED <<request, disk, faults>>
  BY DEF TakeAny, AnswerSpec, Refuse, StartJob, Take, LoadParams, LoadOrCreateSeed,
         BuildProver, Compute, callVars
<1>2. CASE TakeAny(w)
  <2>1. UNCHANGED worker \/ (worker[w].stage = "idle" /\ \E i \in Calls :
          worker' = [worker EXCEPT ![w].stage = "params", ![w].call = i])
    BY <1>2 DEF TakeAny, AnswerSpec, Refuse, StartJob, Take
  <2>2. worker[w].stage = "idle" => ~ worker[w].open
    BY <1>0 DEF AtItem, Running
  <2>3. \A v \in Workers : worker[v].open \/ worker'[v].open => Stays(v)
    BY <1>0, <2>1, <2>2 DEF Stays, StaysAt, WorkerType
  <2> QED
    BY <1>1, <2>3, StandingDisk
<1>3. CASE LoadParams(w) \/ LoadOrCreateSeed(w)
  <2>1. UNCHANGED worker \/ (worker[w].stage = "params"
          /\ worker' = [worker EXCEPT ![w].stage = "seed"])
    BY <1>3 DEF LoadParams, LoadOrCreateSeed
  <2>2. worker[w].stage = "params" => ~ worker[w].open
    BY <1>0 DEF AtItem, Running
  <2>3. \A v \in Workers : worker[v].open \/ worker'[v].open => Stays(v)
    BY <1>0, <2>1, <2>2 DEF Stays, StaysAt, WorkerType
  <2> QED
    BY <1>1, <2>3, StandingDisk
<1>4. CASE BuildProver(w)
  <2>1. ~ worker[w].open
    BY <1>0, <1>4 DEF BuildProver, AtItem, Running
  <2>2. \A v \in Workers \ {w} : Stays(v)
    BY <1>0, <1>4 DEF BuildProver, Stays, StaysAt, WorkerType
  <2>3. worker'[w].open = worker[w].open
    BY <1>0, <1>4 DEF BuildProver, WorkerType
  <2> QED
    BY <1>1, <2>1, <2>2, <2>3, StandingDisk
<1>5. CASE Compute(w)
  <2>1. ~ worker[w].open
    BY <1>0, <1>5 DEF Compute
  <2>2. /\ worker'[w].open = worker[w].open
        /\ \A v \in Workers \ {w} : Stays(v)
    BY <1>0, <1>5 DEF Compute, Stays, StaysAt, WorkerType
  <2> QED
    BY <1>1, <2>1, <2>2, StandingDisk
<1> QED
  BY <1>2, <1>3, <1>4, <1>5

\* Panics, answers, disk failures: none closes a file but a disk failure.
LEMMA EndingsDisk ==
  ASSUME DiskInv, NEW w \in Workers,
         \/ ParamsMissing(w) \/ SeedUnreadable(w) \/ HeightMissing(w)
         \/ ComputeFails(w) \/ AnswerProof(w) \/ StoreFails(w)
  PROVE  OpenFilesExist' /\ TornOnlyInFlight'
<1>0. worker[w].open => AtItem(w) /\ Running(w) /\ Stores(Item(w))
  BY DEF DiskInv, OpenFilesExist, AtItem
<1>1. CASE ParamsMissing(w) \/ SeedUnreadable(w) \/ HeightMissing(w) \/ ComputeFails(w)
  <2>1. Panic(w) /\ ~ worker[w].open
    BY <1>0, <1>1
       DEF ParamsMissing, SeedUnreadable, HeightMissing, ComputeFails, Running
  <2> QED
    BY <2>1, EndedDisk DEF Panic
<1>2. CASE AnswerProof(w)
  <2>1. EndJob(w, "proof") /\ UNCHANGED <<disk, faults>> /\ ~ worker[w].open
    BY <1>0, <1>2 DEF AnswerProof
  <2> QED
    BY <2>1, EndedDisk
<1>3. CASE StoreFails(w)
  <2>1. EndJob(w, "dropped") /\ UNCHANGED disk
    BY <1>3 DEF StoreFails
  <2>2. faults' \in Nat /\ faults' > 0
    BY <1>3, ServerAssumption DEF StoreFails, DiskInv, ServerInv, TypeOK
  <2> QED
    BY <2>1, <2>2, EndedDisk
<1> QED
  BY <1>1, <1>2, <1>3

LEMMA CrashDisk ==
  ASSUME DiskInv, Crash
  PROVE  OpenFilesExist' /\ TornOnlyInFlight'
<1>1. \A v \in Workers : ~ worker'[v].open
  BY DEF Crash, Idle
<1>2. faults' \in Nat /\ faults' > 0 /\ UNCHANGED <<request, disk>>
  BY ServerAssumption DEF Crash, DiskInv, ServerInv, TypeOK
<1> QED
  BY <1>1, <1>2, QuietDisk

\* What a thread creates or writes is in place; other files stay as they are.
LEMMA PutFile ==
  ASSUME NEW slot, NEW bytes, Put(slot, bytes)
  PROVE  /\ DOMAIN disk' = DOMAIN disk \cup {slot}
         /\ disk'[slot] = bytes
         /\ \A s \in DOMAIN disk : s # slot => disk'[s] = disk[s]
BY DEF Put

\* One thread stores a file; it has the file open afterwards or has filled it.
LEMMA StoredDisk ==
  ASSUME DiskInv, NEW w \in Workers, AtItem(w), Stores(Item(w)),
         NEW bytes, Put(SlotOf(w, Item(w)), bytes),
         UNCHANGED <<request, faults>>,
         \A v \in Workers \ {w} : worker'[v] = worker[v],
         \/ StaysAt(w) /\ worker'[w].open
         \/ ~ worker'[w].open /\ bytes # {}
  PROVE  OpenFilesExist' /\ TornOnlyInFlight'
<1> DEFINE slot == SlotOf(w, Item(w))
<1>1. /\ DOMAIN disk' = DOMAIN disk \cup {slot}
      /\ disk'[slot] = bytes
      /\ \A s \in DOMAIN disk : s # slot => disk'[s] = disk[s]
  BY PutFile
<1>2. \A v \in Workers \ {w} : Stays(v)
  BY DEF Stays, StaysAt
<1>3. ASSUME NEW v \in Workers, worker'[v].open
      PROVE  /\ AtItem(v)' /\ Item(v)' = Item(v) /\ Stores(Item(v))
             /\ SlotOf(v, Item(v))' = SlotOf(v, Item(v))
             /\ SlotOf(v, Item(v)) \in DOMAIN disk'
  <2>1. StaysAt(v) /\ AtItem(v) /\ Stores(Item(v))
    BY <1>2, <1>3 DEF Stays, DiskInv, OpenFilesExist
  <2>2. AtItem(v)' = AtItem(v) /\ Item(v)' = Item(v)
    BY <2>1, SameItem
  <2>3. SlotOf(v, Item(v))' = SlotOf(v, Item(v))
    BY <2>1 DEF StaysAt, Item, Program, SlotOf, TraceOf, JobOf
  <2>4. v # w => SlotOf(v, Item(v)) \in DOMAIN disk
    BY <1>3 DEF DiskInv, OpenFilesExist
  <2> QED
    BY <1>1, <2>1, <2>2, <2>3, <2>4
<1>4. OpenFilesExist'
  BY <1>3 DEF OpenFilesExist, Stores
<1>5. TornOnlyInFlight'
  <2> SUFFICES ASSUME NEW s \in DOMAIN disk', disk'[s] = {}, ~ (faults > 0)
               PROVE  \E v \in Workers : Opened(v, s)'
    BY DEF TornOnlyInFlight
  <2>1. CASE s = slot
    <3>1. worker'[w].open
      BY <1>1, <2>1
    <3>2. Opened(w, s)'
      BY <1>3, <2>1, <3>1 DEF Opened
    <3> QED
      BY <3>2
  <2>2. CASE s # slot
    <3>1. s \in DOMAIN disk /\ disk[s] = {}
      BY <1>1, <2>2
    <3>2. PICK v \in Workers : Opened(v, s)
      BY <3>1 DEF DiskInv, TornOnlyInFlight
    <3>3. v # w
      BY <2>2, <3>2 DEF Opened
    <3>4. worker'[v].open
      BY <3>2, <3>3 DEF Opened
    <3>5. Opened(v, s)'
      BY <1>3, <3>2, <3>4 DEF Opened
    <3> QED
      BY <3>5
  <2> QED
    BY <2>1, <2>2
<1> QED
  BY <1>4, <1>5

LEMMA StoringDisk ==
  ASSUME DiskInv, NEW w \in Workers, OpenFile(w) \/ WriteFile(w)
  PROVE  OpenFilesExist' /\ TornOnlyInFlight'
<1>0. worker \in [Workers -> WorkerType]
  BY DEF DiskInv, ServerInv, TypeOK, WorkerType
<1>1. CASE OpenFile(w)
  <2>1. /\ AtItem(w) /\ Stores(Item(w)) /\ Put(SlotOf(w, Item(w)), {})
        /\ UNCHANGED <<request, faults>>
    BY <1>1 DEF OpenFile, callVars
  <2>2. /\ \A v \in Workers \ {w} : worker'[v] = worker[v]
        /\ StaysAt(w) /\ worker'[w].open
    BY <1>0, <1>1 DEF OpenFile, StaysAt, WorkerType
  <2> QED
    BY <2>1, <2>2, StoredDisk
<1>2. CASE WriteFile(w)
  <2>1. /\ AtItem(w) /\ Stores(Item(w))
        /\ UNCHANGED <<request, faults>>
    BY <1>2 DEF WriteFile, callVars
  <2>2. PICK bytes : Put(SlotOf(w, Item(w)), bytes) /\ bytes # {}
    BY <1>2 DEF WriteFile
  <2>3. /\ \A v \in Workers \ {w} : worker'[v] = worker[v]
        /\ ~ worker'[w].open
    BY <1>0, <1>2 DEF WriteFile, WorkerType
  <2> QED
    BY <2>1, <2>2, <2>3, StoredDisk
<1> QED
  BY <1>1, <1>2

\* Whatever a step does to the seed file, all provers keep their one seed.
LEMMA NextSeeds ==
  ASSUME DiskInv, [Next]_vars
  PROVE  SeedsAgree' /\ Origin' = Origin
<1>1. ASSUME NEW w \in Workers, WorkerStep(w) \/ StoreFails(w)
      PROVE  UNCHANGED seedVars \/ Seed!SeedStep(w) \/ Seed!SeedAbandon({w})
  BY <1>1 DEF WorkerStep, TakeAny, AnswerSpec, Refuse, StartJob, Take, LoadParams,
              ParamsMissing, LoadOrCreateSeed, SeedUnreadable, HeightMissing, BuildProver,
              Compute, ComputeFails, OpenFile, WriteFile, AnswerProof, StoreFails,
              Panic, EndJob
<1>2. CASE \E w \in Workers : WorkerStep(w) \/ StoreFails(w)
  <2>1. PICK w \in Workers : WorkerStep(w) \/ StoreFails(w)
    BY <1>2
  <2>2. {w} \in SUBSET Workers
    OBVIOUS
  <2> QED
    BY <1>1, <2>1, <2>2, SeedOrigin DEF DiskInv
<1>3. CASE Crash
  <2>1. Seed!SeedAbandon(Workers) /\ Workers \in SUBSET Workers
    BY <1>3 DEF Crash
  <2> QED
    BY <2>1, SeedOrigin DEF DiskInv
<1>4. CASE \/ \E i \in Calls : Send(i) \/ GiveUp(i)
           \/ \E d \in Degrees : ProvideParams(d)
           \/ AllServed \/ UNCHANGED vars
  <2>1. UNCHANGED seedVars
    BY <1>4 DEF Send, GiveUp, ProvideParams, AllServed, vars
  <2> QED
    BY <2>1, SeedOrigin DEF DiskInv
<1> QED
  BY <1>2, <1>3, <1>4 DEF Next

\* Bytes are added to the disk by WriteFile only, made with the thread's seed.
LEMMA NextBytes ==
  ASSUME DiskInv, [Next]_vars
  PROVE  DiskSeeded'
<1>1. Origin' = Origin
  BY NextSeeds
<1>2. ASSUME NEW w \in Workers, OpenFile(w) \/ WriteFile(w)
      PROVE  DiskSeeded'
  <2> DEFINE slot == SlotOf(w, Item(w))
  <2>1. Running(w) /\ AtItem(w)
    BY <1>2 DEF OpenFile, WriteFile, AtItem
  <2>2. seedOf[w] = Origin
    BY <2>1 DEF DiskInv, ServerInv, RunsSeeded, SeedsAgree
  <2>3. BytesOf(w, Item(w)).of = "trace" => BytesOf(w, Item(w)).seed = Origin
    BY <2>2 DEF BytesOf, FileBytes
  <2>4. CASE OpenFile(w)
    <3>1. Put(slot, {})
      BY <2>4 DEF OpenFile
    <3>2. /\ DOMAIN disk' = DOMAIN disk \cup {slot} /\ disk'[slot] = {}
          /\ \A s \in DOMAIN disk : s # slot => disk'[s] = disk[s]
      BY <3>1, PutFile
    <3> HIDE DEF slot
    <3> QED
      BY <1>1, <3>2 DEF DiskInv, DiskSeeded
  <2>5. CASE WriteFile(w)
    <3>1. PICK bytes \in {{BytesOf(w, Item(w))}, {BytesOf(w, Item(w))} \cup disk[slot]} :
            Put(slot, bytes)
      BY <2>5 DEF WriteFile
    <3>2. /\ DOMAIN disk' = DOMAIN disk \cup {slot} /\ disk'[slot] = bytes
          /\ \A s \in DOMAIN disk : s # slot => disk'[s] = disk[s]
      BY <3>1, PutFile
    <3>3. slot \in DOMAIN disk
      BY <2>5 DEF WriteFile, DiskInv, OpenFilesExist
    <3>4. \A b \in bytes : b = BytesOf(w, Item(w)) \/ b \in disk[slot]
      BY <3>1
    <3> HIDE DEF slot
    <3>5. \A b \in bytes : b.of = "trace" => b.seed = Origin
      BY <2>3, <3>3, <3>4 DEF DiskInv, DiskSeeded
    <3> QED
      BY <1>1, <3>2, <3>5 DEF DiskInv, DiskSeeded
  <2> QED
    BY <1>2, <2>4, <2>5
<1>3. CASE UNCHANGED disk
  BY <1>1, <1>3, QuietBytes DEF DiskInv
<1>4. ASSUME NEW w \in Workers, WorkerStep(w) \/ StoreFails(w)
      PROVE  OpenFile(w) \/ WriteFile(w) \/ UNCHANGED disk
  BY <1>4 DEF WorkerStep, TakeAny, AnswerSpec, Refuse, StartJob, Take, LoadParams,
              ParamsMissing, LoadOrCreateSeed, SeedUnreadable, HeightMissing, BuildProver,
              Compute, ComputeFails, AnswerProof, StoreFails, Panic
<1>5. CASE Crash \/ AllServed \/ UNCHANGED vars
  BY <1>3, <1>5 DEF Crash, AllServed, vars
<1>6. CASE \/ \E i \in Calls : Send(i) \/ GiveUp(i)
           \/ \E d \in Degrees : ProvideParams(d)
  BY <1>3, <1>6 DEF Send, GiveUp, ProvideParams
<1> QED
  BY <1>2, <1>3, <1>4, <1>5, <1>6 DEF Next

LEMMA NextFiles ==
  ASSUME DiskInv, [Next]_vars
  PROVE  OpenFilesExist' /\ TornOnlyInFlight'
<1>1. ASSUME NEW w \in Workers, WorkerStep(w) \/ StoreFails(w)
      PROVE  OpenFilesExist' /\ TornOnlyInFlight'
  BY <1>1, PreparingDisk, EndingsDisk, StoringDisk DEF WorkerStep
<1>2. CASE Crash
  BY <1>2, CrashDisk
<1>3. CASE \/ \E i \in Calls : Send(i) \/ GiveUp(i)
           \/ \E d \in Degrees : ProvideParams(d)
           \/ AllServed \/ UNCHANGED vars
  <2>1. UNCHANGED <<request, disk, faults, worker>>
    BY <1>3 DEF Send, GiveUp, ProvideParams, AllServed, vars, callVars
  <2>2. \A v \in Workers : Stays(v)
    BY <2>1 DEF Stays, StaysAt
  <2> QED
    BY <2>1, <2>2, StandingDisk
<1> QED
  BY <1>1, <1>2, <1>3 DEF Next

LEMMA DiskInit == Init => DiskInv
<1> SUFFICES ASSUME Init
             PROVE  DiskInv
  OBVIOUS
<1>1. DOMAIN disk = {} /\ worker = [w \in Workers |-> Idle]
  BY DEF Init
<1>2. OpenFilesExist /\ DiskSeeded /\ TornOnlyInFlight
  BY <1>1 DEF Idle, OpenFilesExist, DiskSeeded, TornOnlyInFlight
<1>3. SeedsAgree
  BY DEF Init, Seed!SeedInit, SeedsAgree
<1> QED
  BY <1>2, <1>3, InvInit DEF DiskInv

LEMMA DiskNext == DiskInv /\ [Next]_vars => DiskInv'
<1> SUFFICES ASSUME DiskInv, [Next]_vars
             PROVE  DiskInv'
  OBVIOUS
<1>1. ServerInv'
  BY InvNext DEF DiskInv
<1> QED
  BY <1>1, NextSeeds, NextBytes, NextFiles DEF DiskInv

LEMMA DiskInvariant == Spec => []DiskInv
BY DiskInit, DiskNext, PTL DEF Spec

-----------------------------------------------------------------------------
(* The theorems about the files.                                           *)

(***************************************************************************)
(* All proofs on disk were made with one seed, that of the seed file, for  *)
(* any number of threads that race through load_or_create_seed and any     *)
(* number of crashes between its steps: the file is one an operator put    *)
(* there and stays so, or whoever creates it writes the same constant.     *)
(***************************************************************************)
THEOREM OneSeedOnDiskHolds == Spec => []OneSeedOnDisk
<1>1. DiskInv => OneSeedOnDisk
  <2> SUFFICES ASSUME DiskInv
               PROVE  OneSeedOnDisk
    OBVIOUS
  <2>1. \A b \in TraceBytes : b.seed = Origin
    BY DEF TraceBytes, DiskInv, DiskSeeded
  <2>2. seedFile \in Seed!Seeds => seedFile = Origin
    BY DEF Seed!Seeds, Origin
  <2> QED
    BY <2>1, <2>2 DEF OneSeedOnDisk
<1> QED
  BY <1>1, DiskInvariant, PTL

(***************************************************************************)
(* An empty file under ./out_proof belongs to a thread that is about to    *)
(* write it, or a crash or a disk failure left it, whatever traces are     *)
(* refused, fail to be proved or lack a block number in other threads.     *)
(***************************************************************************)
THEOREM TornOnlyInFlightHolds == Spec => []TornOnlyInFlight
<1>1. DiskInv => TornOnlyInFlight
  BY DEF DiskInv
<1> QED
  BY <1>1, DiskInvariant, PTL
=============================================================================
