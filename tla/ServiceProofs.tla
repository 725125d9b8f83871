---------------------------- MODULE ServiceProofs ----------------------------
(***************************************************************************)
(* What the server's jobs do, for any number of threads, calls, traces and *)
(* faults: what their files hold, what a job that runs alone finds on      *)
(* disk, that computed proofs are returned, and that every step of the     *)
(* server is one that ProveService allows.                                 *)
(***************************************************************************)
EXTENDS ServerProofs

-----------------------------------------------------------------------------
(* The programs of the jobs, item by item.                                 *)

\* The aggregation: two proofs, nine files and a contract.
LEMMA AggJobItems ==
  /\ Len(AggJob) = 12
  /\ AggJob[1] = ProveCircuit("super")
  /\ AggJob[2] = Store(<<"super", "vk">>)
  /\ AggJob[3] = Store(<<"super", "json">>)
  /\ AggJob[4] = Convert("super")
  /\ AggJob[5] = ProveCircuit("agg")
  /\ AggJob[6] = Store(<<"agg", "final_pair">>)
  /\ AggJob[7] = Store(<<"agg", "instance">>)
  /\ AggJob[8] = Store(<<"agg", "proof">>)
  /\ AggJob[9] = Store(<<"agg", "vkey">>)
  /\ AggJob[10] = Store(<<"agg", "full_proof">>)
  /\ AggJob[11] = Solidity
  /\ AggJob[12] = Store(<<"agg", "sol">>)
<1> HIDE DEF Store, ProveCircuit, Convert, Solidity
<1> QED
  BY DEF AggJob, AggProgram, TargetProgram, WriteAggProof, WriteSolidity

LEMMA TargetJobItems ==
  ASSUME NEW c \in Circuits
  PROVE  /\ Len(TargetJob[c]) = 4
         /\ TargetJob[c][1] = ProveCircuit(c)
         /\ TargetJob[c][2] = Store(<<c, "vk">>)
         /\ TargetJob[c][3] = Store(<<c, "json">>)
         /\ TargetJob[c][4] = Store(<<c, "proof">>)
BY DEF TargetJob, TargetProgram

\* What holds of the programs of the jobs: a file is stored after the proof
\* it belongs to and once only, the contract is made after both proofs.
ProvesFirst(program, k, c) ==
  \E l \in 1..(k - 1) : Proves(program[l]) /\ program[l].arg[1] = c

WellOrdered(program) ==
  /\ program \in Seq(Items)
  /\ \E k \in DOMAIN program :
       Proves(program[k]) /\ \A l \in DOMAIN program : Proves(program[l]) => l <= k
  /\ \A k \in DOMAIN program : Stores(program[k]) => ProvesFirst(program, k, program[k].arg[1])
  /\ \A k \in DOMAIN program : program[k].op = "solidity" =>
       ProvesFirst(program, k, "super") /\ ProvesFirst(program, k, "agg")
  /\ \A k, l \in DOMAIN program :
       Stores(program[k]) /\ Stores(program[l]) /\ program[k].arg = program[l].arg => k = l

LEMMA AggJobOrder == WellOrdered(AggJob)
<1>0. AggJob \in Seq(Items)
  BY ProgramItems
<1> DEFINE P == AggJob
<1>1. DOMAIN P = 1..12
  BY <1>0, AggJobItems
<1>2. /\ Proves(P[1]) /\ P[1].arg[1] = "super"
      /\ Proves(P[5]) /\ P[5].arg[1] = "agg"
      /\ P[11].op = "solidity"
      /\ \A k \in 1..12 : P[k].op = "solidity" => k = 11
      /\ \A k \in 1..12 : Proves(P[k]) => k <= 5
      /\ \A k \in 1..12 : Stores(P[k]) => k \in {2, 3, 6, 7, 8, 9, 10, 12}
  BY AggJobItems DEF ProveCircuit, Store, Convert, Solidity, Proves, Stores
<1>3. /\ P[2].arg = <<"super", "vk">> /\ P[3].arg = <<"super", "json">>
      /\ P[6].arg = <<"agg", "final_pair">> /\ P[7].arg = <<"agg", "instance">>
      /\ P[8].arg = <<"agg", "proof">> /\ P[9].arg = <<"agg", "vkey">>
      /\ P[10].arg = <<"agg", "full_proof">> /\ P[12].arg = <<"agg", "sol">>
  BY AggJobItems DEF Store
<1> HIDE DEF P
<1>4. ASSUME NEW k \in 1..12, Stores(P[k])
      PROVE  ProvesFirst(P, k, P[k].arg[1])
  <2>1. CASE k \in {2, 3}
    <3>1. 1 \in 1..(k - 1) /\ P[k].arg[1] = "super"
      BY <1>3, <2>1
    <3> QED
      BY <1>2, <3>1 DEF ProvesFirst
  <2>2. CASE k \in {6, 7, 8, 9, 10, 12}
    <3>1. 5 \in 1..(k - 1) /\ P[k].arg[1] = "agg"
      BY <1>3, <2>2
    <3> QED
      BY <1>2, <3>1 DEF ProvesFirst
  <2> QED
    BY <1>2, <1>4, <2>1, <2>2
<1>5. ProvesFirst(P, 11, "super") /\ ProvesFirst(P, 11, "agg")
  <2>1. 1 \in 1..(11 - 1) /\ 5 \in 1..(11 - 1)
    OBVIOUS
  <2> QED
    BY <1>2, <2>1 DEF ProvesFirst
<1>6. ASSUME NEW k \in 1..12, NEW l \in 1..12, Stores(P[k]), Stores(P[l]), P[k].arg = P[l].arg
      PROVE  k = l
  <2>1. k \in {2, 3, 6, 7, 8, 9, 10, 12} /\ l \in {2, 3, 6, 7, 8, 9, 10, 12}
    BY <1>2, <1>6
  <2>2. P[k].arg[1] = P[l].arg[1] /\ P[k].arg[2] = P[l].arg[2]
    BY <1>6
  <2> QED
    BY <1>3, <2>1, <2>2
<1>7. /\ 5 \in DOMAIN P /\ \A k \in DOMAIN P : Proves(P[k]) => k <= 5
      /\ \A k \in DOMAIN P : P[k].op = "solidity" => k = 11
  BY <1>1, <1>2
<1> QED
  BY <1>0, <1>1, <1>2, <1>4, <1>5, <1>6, <1>7 DEF WellOrdered, P

LEMMA TargetJobOrder ==
  ASSUME NEW c \in Circuits
  PROVE  WellOrdered(TargetJob[c])
<1>0. TargetJob[c] \in Seq(Items)
  BY ProgramItems
<1> DEFINE P == TargetJob[c]
<1>a. /\ Len(P) = 4 /\ P[1] = ProveCircuit(c) /\ P[2] = Store(<<c, "vk">>)
      /\ P[3] = Store(<<c, "json">>) /\ P[4] = Store(<<c, "proof">>)
  <2> HIDE DEF Store, ProveCircuit
  <2> QED
    BY TargetJobItems, Zenon
<1> HIDE DEF P
<1>1. DOMAIN P = 1..4
  BY <1>0, <1>a DEF P
<1>2. /\ Proves(P[1]) /\ P[1].arg[1] = c
      /\ P[2].arg = <<c, "vk">> /\ P[3].arg = <<c, "json">> /\ P[4].arg = <<c, "proof">>
      /\ \A k \in 1..4 : P[k].op # "solidity"
      /\ \A k \in 1..4 : Proves(P[k]) => k <= 1
      /\ \A k \in 1..4 : Stores(P[k]) => k \in 2..4
  BY <1>a DEF ProveCircuit, Store, Proves, Stores
<1>3. ASSUME NEW k \in 1..4, Stores(P[k])
      PROVE  ProvesFirst(P, k, P[k].arg[1])
  <2>1. k \in 2..4
    BY <1>2, <1>3
  <2>2. 1 \in 1..(k - 1) /\ P[k].arg[1] = c
    BY <1>2, <2>1
  <2> QED
    BY <1>2, <2>2 DEF ProvesFirst
<1>4. ASSUME NEW k \in 1..4, NEW l \in 1..4, Stores(P[k]), Stores(P[l]), P[k].arg = P[l].arg
      PROVE  k = l
  <2>1. k \in {2, 3, 4} /\ l \in {2, 3, 4}
    BY <1>2, <1>4
  <2>2. P[k].arg[2] = P[l].arg[2]
    BY <1>4
  <2> QED
    BY <1>2, <2>1, <2>2
<1>5. 1 \in DOMAIN P /\ \A k \in DOMAIN P : Proves(P[k]) => k <= 1
  BY <1>1, <1>2
<1> QED
  BY <1>0, <1>1, <1>2, <1>3, <1>4, <1>5 DEF WellOrdered, P

LEMMA JobOrder ==
  ASSUME NEW r, Admissible(r)
  PROVE  WellOrdered(ProgramOf(r))
<1>1. ProofTypeOf(r.type) \in {"evm", "state", "super", "agg"}
  BY ProofTypeNames DEF Admissible
<1>2. ProgramOf(r) = IF ProofTypeOf(r.type) = "agg" THEN AggJob
                     ELSE TargetJob[ProofTypeOf(r.type)]
  BY DEF ProgramOf
<1>3. ProofTypeOf(r.type) # "agg" => ProofTypeOf(r.type) \in Circuits
  BY <1>1 DEF Circuits
<1> QED
  BY <1>2, <1>3, AggJobOrder, TargetJobOrder

-----------------------------------------------------------------------------
(* The inductive invariant for jobs and their files.                       *)

\* A thread begins its program at the first item, with no file open.
Fresh ==
  \A w \in Workers : ~ Running(w) => worker[w].step = 1 /\ ~ worker[w].open

\* A program goes on only after a proof that succeeded, and but for OPT_MEM
\* the key it was made with is still there.
ProvedSoFar ==
  \A w \in Workers : Running(w) =>
    \A k \in DOMAIN Program(w) : k < worker[w].step /\ Proves(Program(w)[k]) =>
      /\ Program(w)[k].arg[1] \in TraceOf(w).provable
      /\ OptMem \/ Program(w)[k].arg[1] \in worker[w].keys

\* No thread runs for another trace of the height of one that runs alone.
NoRivals ==
  \A w \in Workers : Running(w) /\ worker[w].alone =>
    \A v \in Workers \ {w} : ~ Rivals(v, w)

\* Of such a thread, what is stored and what is open holds its own bytes.
OwnBytes(w, item) == FileBytes(item.arg, TraceOf(w), Origin)

Touched(w, k) ==
  /\ Stores(Program(w)[k])
  /\ k < worker[w].step \/ (k = worker[w].step /\ worker[w].open)

StoredAlone ==
  \A w \in Workers : Running(w) /\ worker[w].alone =>
    \A k \in DOMAIN Program(w) : Touched(w, k) =>
      /\ SlotOf(w, Program(w)[k]) \in DOMAIN disk
      /\ disk[SlotOf(w, Program(w)[k])] \in {{OwnBytes(w, Program(w)[k])}, {}}

JobInv ==
  /\ DiskInv /\ Fresh /\ ProvedSoFar /\ OnlyProvedOnDisk
  /\ NoRivals /\ StoredAlone

-----------------------------------------------------------------------------
(* Steps.  Most of them touch no file and no thread that runs a program.   *)

Rests(v) ==
  \/ worker'[v] = worker[v]
  \/ worker'[v].stage # "run" /\ worker'[v].step = 1 /\ worker'[v].open = FALSE

LEMMA WorkerRests ==
  ASSUME DiskInv, Fresh, NEW w \in Workers,
         \/ TakeAny(w) \/ LoadParams(w) \/ ParamsMissing(w) \/ LoadOrCreateSeed(w)
         \/ SeedUnreadable(w) \/ HeightMissing(w) \/ ComputeFails(w) \/ AnswerProof(w)
         \/ StoreFails(w)
  PROVE  UNCHANGED <<request, disk>> /\ \A v \in Workers : Rests(v)
<1>0. /\ worker \in [Workers -> WorkerType]
      /\ worker[w].stage # "run" => worker[w].step = 1 /\ worker[w].open = FALSE
  BY DEF DiskInv, ServerInv, TypeOK, WorkerType, Fresh, Running
<1>1. CASE TakeAny(w)
  <2>1. PICK i \in Calls :
          AnswerSpec(w, i) \/ Refuse(w, i) \/ StartJob(w, i)
    BY <1>1 DEF TakeAny
  <2>2. UNCHANGED <<request, disk>> /\ worker[w].stage = "idle"
    BY <2>1 DEF AnswerSpec, Refuse, StartJob, Take
  <2>3. \/ UNCHANGED worker
        \/ worker' = [worker EXCEPT ![w].stage = "params", ![w].call = i]
    BY <2>1 DEF AnswerSpec, Refuse, StartJob
  <2> QED
    BY <1>0, <2>2, <2>3 DEF Rests, WorkerType
<1>2. CASE LoadParams(w) \/ LoadOrCreateSeed(w)
  <2>1. /\ UNCHANGED <<request, disk>>
        /\ \/ UNCHANGED worker
           \/ worker[w].stage = "params" /\ worker' = [worker EXCEPT ![w].stage = "seed"]
    BY <1>2 DEF LoadParams, LoadOrCreateSeed, callVars
  <2> QED
    BY <1>0, <2>1 DEF Rests, WorkerType
<1>3. CASE \/ ParamsMissing(w) \/ SeedUnreadable(w) \/ HeightMissing(w)
           \/ ComputeFails(w) \/ AnswerProof(w) \/ StoreFails(w)
  <2>1. UNCHANGED <<request, disk>> /\ worker' = [worker EXCEPT ![w] = Idle]
    BY <1>3 DEF ParamsMissing, SeedUnreadable, HeightMissing, ComputeFails, AnswerProof,
                StoreFails, Panic, EndJob
  <2> QED
    BY <1>0, <2>1 DEF Rests, Idle
<1> QED
  BY <1>1, <1>2, <1>3

LEMMA StepKinds ==
  ASSUME DiskInv, Fresh, [Next]_vars
  PROVE  \/ UNCHANGED <<request, disk>> /\ \A v \in Workers : Rests(v)
         \/ \E w \in Workers : BuildProver(w) \/ Compute(w) \/ OpenFile(w) \/ WriteFile(w)
<1>1. CASE \E w \in Workers : WorkerStep(w) \/ StoreFails(w)
  BY <1>1, WorkerRests DEF WorkerStep
<1>2. CASE Crash
  BY <1>2 DEF Crash, Rests, Idle
<1>3. CASE \/ \E i \in Calls : Send(i) \/ GiveUp(i)
           \/ \E d \in Degrees : ProvideParams(d)
           \/ AllServed \/ UNCHANGED vars
  BY <1>3 DEF Send, GiveUp, ProvideParams, AllServed, vars, callVars, Rests
<1> QED
  BY <1>1, <1>2, <1>3 DEF Next

\* Requests never change, so a job and its program stay as long as its call.
LEMMA RequestsStay == ASSUME [Next]_vars PROVE UNCHANGED request
<1>1. ASSUME NEW w \in Workers, WorkerStep(w) \/ StoreFails(w)
      PROVE  UNCHANGED request
  BY <1>1 DEF WorkerStep, TakeAny, AnswerSpec, Refuse, StartJob, Take, LoadParams,
              ParamsMissing, LoadOrCreateSeed, SeedUnreadable, HeightMissing, BuildProver,
              Compute, ComputeFails, OpenFile, WriteFile, AnswerProof, StoreFails,
              Panic, EndJob, callVars
<1>2. CASE \/ \E i \in Calls : Send(i) \/ GiveUp(i)
           \/ \E d \in Degrees : ProvideParams(d)
           \/ Crash \/ AllServed \/ UNCHANGED vars
  BY <1>2 DEF Send, GiveUp, ProvideParams, Crash, AllServed, vars, callVars
<1> QED
  BY <1>1, <1>2 DEF Next

LEMMA SameJob ==
  ASSUME NEW v \in Workers, UNCHANGED request, worker'[v].call = worker[v].call
  PROVE  /\ JobOf(v)' = JobOf(v) /\ TraceOf(v)' = TraceOf(v) /\ Program(v)' = Program(v)
         /\ \A item : SlotOf(v, item)' = SlotOf(v, item)
BY DEF JobOf, TraceOf, Program, SlotOf

\* The program of a running thread is well ordered.
LEMMA RunningOrder ==
  ASSUME ServerInv, NEW w \in Workers, Running(w)
  PROVE  WellOrdered(Program(w))
<1>1. Admissible(JobOf(w))
  BY DEF ServerInv, JobsAdmitted, Running
<1> QED
  BY <1>1, JobOrder DEF Program

-----------------------------------------------------------------------------
(* Every step keeps the invariant.                                         *)

\* A thread that runs after a step of another ran before, for the same trace.
LEMMA StillRunning ==
  ASSUME NEW v \in Workers, UNCHANGED request, worker'[v] = worker[v]
  PROVE  /\ Running(v)' = Running(v)
         /\ JobOf(v)' = JobOf(v) /\ TraceOf(v)' = TraceOf(v) /\ Program(v)' = Program(v)
         /\ \A item : SlotOf(v, item)' = SlotOf(v, item)
         /\ \A k : Touched(v, k)' = Touched(v, k)
         /\ Origin' = Origin => \A item : OwnBytes(v, item)' = OwnBytes(v, item)
<1>1. /\ JobOf(v)' = JobOf(v) /\ TraceOf(v)' = TraceOf(v) /\ Program(v)' = Program(v)
      /\ \A item : SlotOf(v, item)' = SlotOf(v, item)
  BY SameJob
<1> QED
  BY <1>1 DEF Running, Touched, OwnBytes

LEMMA ProvedStays ==
  ASSUME OnlyProvedOnDisk, UNCHANGED <<request, disk>>
  PROVE  OnlyProvedOnDisk'
BY DEF OnlyProvedOnDisk

LEMMA QuietJobs ==
  ASSUME JobInv, UNCHANGED <<request, disk>>, \A v \in Workers : Rests(v), Origin' = Origin
  PROVE  Fresh' /\ ProvedSoFar' /\ OnlyProvedOnDisk' /\ NoRivals' /\ StoredAlone'
<1>1. ASSUME NEW v \in Workers, Running(v)'
      PROVE  worker'[v] = worker[v] /\ Running(v)
  BY <1>1 DEF Rests, Running
<1>2. Fresh'
  BY DEF JobInv, Fresh, Rests, Running
<1>3. ProvedSoFar'
  <2> SUFFICES ASSUME NEW v \in Workers, Running(v)',
                      NEW k \in DOMAIN Program(v)', k < worker'[v].step, Proves(Program(v)[k])'
               PROVE  /\ (Program(v)[k].arg[1])' \in (TraceOf(v).provable)'
                      /\ OptMem \/ (Program(v)[k].arg[1])' \in worker'[v].keys
    BY DEF ProvedSoFar
  <2>1. Running(v) /\ worker'[v] = worker[v]
    BY <1>1
  <2>2. Program(v)' = Program(v) /\ TraceOf(v)' = TraceOf(v)
    BY <2>1, StillRunning
  <2> QED
    BY <2>1, <2>2 DEF JobInv, ProvedSoFar, Proves
<1>4. NoRivals'
  <2> SUFFICES ASSUME NEW w \in Workers, Running(w)', worker'[w].alone,
                      NEW v \in Workers \ {w}, Rivals(v, w)'
               PROVE  FALSE
    BY DEF NoRivals
  <2>1. Running(w) /\ worker'[w] = worker[w] /\ Running(v) /\ worker'[v] = worker[v]
    BY <1>1 DEF Rivals
  <2>2. TraceOf(w)' = TraceOf(w) /\ TraceOf(v)' = TraceOf(v)
    BY <2>1, StillRunning
  <2> QED
    BY <2>1, <2>2 DEF JobInv, NoRivals, Rivals
<1>5. StoredAlone'
  <2> SUFFICES ASSUME NEW w \in Workers, Running(w)', worker'[w].alone,
                      NEW k \in DOMAIN Program(w)', Touched(w, k)'
               PROVE  /\ SlotOf(w, Program(w)[k])' \in DOMAIN disk'
                      /\ disk'[SlotOf(w, Program(w)[k])'] \in {{OwnBytes(w, Program(w)[k])'}, {}}
    BY DEF StoredAlone
  <2>1. Running(w) /\ worker'[w] = worker[w]
    BY <1>1
  <2>2. Program(w)' = Program(w) /\ Touched(w, k)
    BY <2>1, StillRunning
  <2>3. /\ SlotOf(w, Program(w)[k])' = SlotOf(w, Program(w)[k])
        /\ OwnBytes(w, Program(w)[k])' = OwnBytes(w, Program(w)[k])
    BY <2>1, <2>2, StillRunning DEF SlotOf, OwnBytes
  <2> QED
    BY <2>1, <2>2, <2>3 DEF JobInv, StoredAlone
<1> QED
  BY <1>2, <1>3, <1>4, <1>5, ProvedStays DEF JobInv

\* A thread that starts to run marks those it competes with, and itself.
LEMMA BuildJobs ==
  ASSUME JobInv, NEW w \in Workers, BuildProver(w), Origin' = Origin
  PROVE  Fresh' /\ ProvedSoFar' /\ OnlyProvedOnDisk' /\ NoRivals' /\ StoredAlone'
<1> DEFINE rivals == {v \in Workers \ {w} : Rivals(v, w)}
<1>0. /\ worker \in [Workers -> WorkerType] /\ ~ Running(w)
      /\ UNCHANGED <<request, disk>>
  BY DEF JobInv, DiskInv, ServerInv, TypeOK, WorkerType, BuildProver, Running, callVars
<1>1. /\ worker'[w] = [worker[w] EXCEPT !.stage = "run", !.alone = rivals = {}]
      /\ \A v \in rivals : worker'[v] = [worker[v] EXCEPT !.alone = FALSE]
      /\ \A v \in Workers \ {w} : v \notin rivals => worker'[v] = worker[v]
  BY DEF BuildProver
<1>2. /\ worker'[w].stage = "run" /\ worker'[w].step = 1 /\ worker'[w].open = FALSE
      /\ worker'[w].alone = (rivals = {})
      /\ worker'[w].call = worker[w].call
  <2>1. worker[w] \in WorkerType /\ worker[w].step = 1 /\ worker[w].open = FALSE
    BY <1>0 DEF JobInv, Fresh, WorkerType
  <2> HIDE DEF rivals
  <2> QED
    BY <1>1, <2>1 DEF WorkerType
<1>3. ASSUME NEW v \in Workers \ {w}
      PROVE  /\ worker'[v].stage = worker[v].stage /\ worker'[v].step = worker[v].step
             /\ worker'[v].open = worker[v].open /\ worker'[v].keys = worker[v].keys
             /\ worker'[v].call = worker[v].call
             /\ worker'[v].alone => worker[v].alone /\ v \notin rivals
  <2>1. worker[v] \in WorkerType
    BY <1>0
  <2> HIDE DEF rivals
  <2>2. CASE v \in rivals
    <3>1. worker'[v] = [worker[v] EXCEPT !.alone = FALSE]
      BY <1>1, <2>2
    <3> QED
      BY <2>1, <3>1 DEF WorkerType
  <2>3. CASE v \notin rivals
    BY <1>1, <2>3
  <2> QED
    BY <2>2, <2>3
<1>4. \A v \in Workers : /\ JobOf(v)' = JobOf(v) /\ TraceOf(v)' = TraceOf(v)
                         /\ Program(v)' = Program(v)
                         /\ \A item : SlotOf(v, item)' = SlotOf(v, item)
  BY <1>0, <1>2, <1>3, SameJob
<1>5. Fresh'
  BY <1>2, <1>3 DEF JobInv, Fresh, Running
<1>6. ASSUME NEW v \in Workers
      PROVE  Program(v) = Program(v)' /\ (v = w => \A k \in DOMAIN Program(v)' : ~ k < worker'[v].step)
  <2>1. v = w => Program(v) \in Seq(Items)
    BY JobTypes DEF JobInv, DiskInv, ServerInv, BuildProver
  <2>2. v = w => DOMAIN Program(v) = 1..Len(Program(v)) /\ Len(Program(v)) \in Nat
    BY <2>1
  <2> QED
    BY <1>2, <1>4, <2>2
<1>7. ProvedSoFar'
  <2> SUFFICES ASSUME NEW v \in Workers, Running(v)',
                      NEW k \in DOMAIN Program(v)', k < worker'[v].step, Proves(Program(v)[k])'
               PROVE  /\ (Program(v)[k].arg[1])' \in (TraceOf(v).provable)'
                      /\ OptMem \/ (Program(v)[k].arg[1])' \in worker'[v].keys
    BY DEF ProvedSoFar
  <2>1. v # w
    BY <1>6
  <2> QED
    BY <1>3, <1>4, <2>1 DEF JobInv, ProvedSoFar, Proves, Running
<1>8. NoRivals'
  <2> SUFFICES ASSUME NEW u \in Workers, Running(u)', worker'[u].alone,
                      NEW v \in Workers \ {u}, Rivals(v, u)'
               PROVE  FALSE
    BY DEF NoRivals
  <2>1. CASE u = w
    <3>1. v \in Workers \ {w} /\ Rivals(v, w)
      BY <1>3, <1>4, <2>1 DEF Rivals, Running
    <3> QED
      BY <1>2, <2>1, <3>1
  <2>2. CASE u # w /\ v = w
    <3>1. Rivals(u, w)
      BY <1>3, <1>4, <2>2 DEF Rivals, Running
    <3> QED
      BY <1>3, <2>2, <3>1
  <2>3. CASE u # w /\ v # w
    <3>1. Rivals(v, u) /\ Running(u) /\ worker[u].alone
      BY <1>3, <1>4, <2>3 DEF Rivals, Running
    <3> QED
      BY <3>1 DEF JobInv, NoRivals
  <2> QED
    BY <2>1, <2>2, <2>3
<1>9. StoredAlone'
  <2> SUFFICES ASSUME NEW v \in Workers, Running(v)', worker'[v].alone,
                      NEW k \in DOMAIN Program(v)', Touched(v, k)'
               PROVE  /\ SlotOf(v, Program(v)[k])' \in DOMAIN disk'
                      /\ disk'[SlotOf(v, Program(v)[k])'] \in {{OwnBytes(v, Program(v)[k])'}, {}}
    BY DEF StoredAlone
  <2>1. v # w
    BY <1>2, <1>6 DEF Touched
  <2>2. Running(v) /\ worker[v].alone /\ Touched(v, k)
    BY <1>3, <1>4, <2>1 DEF Touched, Running
  <2>3. /\ SlotOf(v, Program(v)[k])' = SlotOf(v, Program(v)[k])
        /\ OwnBytes(v, Program(v)[k])' = OwnBytes(v, Program(v)[k])
    BY <1>4 DEF SlotOf, OwnBytes
  <2> QED
    BY <1>0, <1>4, <2>2, <2>3 DEF JobInv, StoredAlone
<1> QED
  BY <1>0, <1>5, <1>7, <1>8, <1>9, ProvedStays DEF JobInv

\* One thread moves within its program.
MovesOn(w) ==
  /\ AtItem(w)
  /\ UNCHANGED request
  /\ \A v \in Workers \ {w} : worker'[v] = worker[v]
  /\ worker'[w].stage = "run" /\ worker'[w].call = worker[w].call
  /\ worker'[w].alone = worker[w].alone

LEMMA MovedJob ==
  ASSUME NEW w \in Workers, MovesOn(w), NEW v \in Workers
  PROVE  /\ Running(v)' = Running(v) /\ worker'[v].alone = worker[v].alone
         /\ JobOf(v)' = JobOf(v) /\ TraceOf(v)' = TraceOf(v) /\ Program(v)' = Program(v)
         /\ \A item : SlotOf(v, item)' = SlotOf(v, item)
<1>1. worker'[v].call = worker[v].call /\ UNCHANGED request
  BY DEF MovesOn
<1>2. Running(v)' = Running(v) /\ worker'[v].alone = worker[v].alone
  BY DEF MovesOn, AtItem, Running
<1> QED
  BY <1>1, <1>2, SameJob

LEMMA ProgramJobs ==
  ASSUME JobInv, NEW w \in Workers, MovesOn(w),
         OptMem \/ worker[w].keys \subseteq worker'[w].keys,
         \/ worker'[w].step = worker[w].step
         \/ /\ worker'[w].step = worker[w].step + 1
            /\ Proves(Item(w)) => /\ Item(w).arg[1] \in TraceOf(w).provable
                                  /\ OptMem \/ Item(w).arg[1] \in worker'[w].keys
  PROVE  Fresh' /\ ProvedSoFar' /\ NoRivals'
<1>1. Fresh'
  BY DEF JobInv, Fresh, MovesOn, Running
<1>2. ProvedSoFar'
  <2> SUFFICES ASSUME NEW v \in Workers, Running(v)',
                      NEW k \in DOMAIN Program(v)', k < worker'[v].step, Proves(Program(v)[k])'
               PROVE  /\ (Program(v)[k].arg[1])' \in (TraceOf(v).provable)'
                      /\ OptMem \/ (Program(v)[k].arg[1])' \in worker'[v].keys
    BY DEF ProvedSoFar
  <2>1. /\ Running(v) /\ Program(v)' = Program(v) /\ TraceOf(v)' = TraceOf(v)
        /\ Proves(Program(v)[k])
    BY MovedJob DEF Proves
  <2>2. CASE v # w
    BY <2>1, <2>2 DEF JobInv, ProvedSoFar, MovesOn
  <2>3. CASE v = w /\ k < worker[w].step
    BY <2>1, <2>3 DEF JobInv, ProvedSoFar
  <2>4. CASE v = w /\ ~ k < worker[w].step
    <3>1. worker[w].step \in Nat /\ k \in Nat
      <4>1. Program(w) \in Seq(Items)
        BY <2>1, <2>4, RunningOrder DEF WellOrdered, JobInv, DiskInv
      <4>2. DOMAIN Program(w) \subseteq Nat
        BY <4>1
      <4> QED
        BY <2>1, <2>4, <4>2 DEF JobInv, DiskInv, ServerInv, TypeOK
    <3>2. k = worker[w].step /\ worker'[w].step = worker[w].step + 1
      BY <2>4, <3>1
    <3>3. Item(w) = Program(w)[k]
      BY <3>2 DEF Item
    <3> QED
      BY <2>1, <2>4, <3>1, <3>2, <3>3
  <2> QED
    BY <2>2, <2>3, <2>4
<1>3. NoRivals'
  <2> SUFFICES ASSUME NEW u \in Workers, Running(u)', worker'[u].alone,
                      NEW v \in Workers \ {u}, Rivals(v, u)'
               PROVE  FALSE
    BY DEF NoRivals
  <2>1. /\ Running(u) /\ worker[u].alone
        /\ TraceOf(u)' = TraceOf(u) /\ TraceOf(v)' = TraceOf(v) /\ Running(v)' = Running(v)
    BY MovedJob
  <2> QED
    BY <2>1 DEF JobInv, NoRivals, Rivals
<1> QED
  BY <1>1, <1>2, <1>3

LEMMA ComputeJobs ==
  ASSUME JobInv, NEW w \in Workers, Compute(w), Origin' = Origin
  PROVE  Fresh' /\ ProvedSoFar' /\ OnlyProvedOnDisk' /\ NoRivals' /\ StoredAlone'
<1>0. /\ worker \in [Workers -> WorkerType] /\ AtItem(w) /\ Running(w)
      /\ UNCHANGED <<request, disk>>
  BY DEF JobInv, DiskInv, ServerInv, TypeOK, WorkerType, Compute, AtItem, callVars
<1>1. /\ worker'[w].step = worker[w].step + 1
      /\ worker'[w].keys = KeysAfter(Item(w), worker[w].keys)
      /\ worker'[w].stage = "run" /\ worker'[w].call = worker[w].call
      /\ worker'[w].alone = worker[w].alone /\ worker'[w].open = worker[w].open
      /\ \A v \in Workers \ {w} : worker'[v] = worker[v]
  BY <1>0 DEF Compute, WorkerType, Running
<1>2. MovesOn(w)
  BY <1>0, <1>1 DEF MovesOn
<1>3. ~ ItemFails(Item(w), worker[w].keys, TraceOf(w)) /\ ~ Stores(Item(w))
  BY DEF Compute
<1>4. OptMem \/ worker[w].keys \subseteq worker'[w].keys
  BY <1>1 DEF KeysAfter
<1>5. Proves(Item(w)) => /\ Item(w).arg[1] \in TraceOf(w).provable
                         /\ Item(w).arg[1] \in worker'[w].keys
  BY <1>1, <1>3 DEF ItemFails, Proves, KeysAfter
<1>6. Fresh' /\ ProvedSoFar' /\ NoRivals'
  BY <1>1, <1>2, <1>4, <1>5, ProgramJobs
<1>7. StoredAlone'
  <2> SUFFICES ASSUME NEW v \in Workers, Running(v)', worker'[v].alone,
                      NEW k \in DOMAIN Program(v)', Touched(v, k)'
               PROVE  /\ SlotOf(v, Program(v)[k])' \in DOMAIN disk'
                      /\ disk'[SlotOf(v, Program(v)[k])'] \in {{OwnBytes(v, Program(v)[k])'}, {}}
    BY DEF StoredAlone
  <2>1. /\ Running(v) /\ worker[v].alone
        /\ Program(v)' = Program(v) /\ TraceOf(v)' = TraceOf(v)
        /\ SlotOf(v, Program(v)[k])' = SlotOf(v, Program(v)[k])
    BY <1>2, MovedJob DEF SlotOf
  <2>2. Touched(v, k)
    <3>1. CASE v # w
      BY <1>1, <2>1, <3>1 DEF Touched
    <3>2. CASE v = w
      <4>1. worker[w].step \in Nat /\ k \in Nat /\ ~ worker[w].open
        <5>1. Program(w) \in Seq(Items)
          BY <1>0, RunningOrder DEF WellOrdered, JobInv, DiskInv
        <5>2. DOMAIN Program(w) \subseteq Nat
          BY <5>1
        <5> QED
          BY <1>0, <1>3, <2>1, <3>2, <5>2
             DEF WorkerType, JobInv, DiskInv, ServerInv, OpenFilesExist
      <4>2. Stores(Program(w)[k]) /\ k < worker[w].step + 1
        BY <1>1, <2>1, <3>2, <4>1 DEF Touched
      <4>3. k # worker[w].step
        BY <1>3, <4>2 DEF Item
      <4> QED
        BY <3>2, <4>1, <4>2, <4>3 DEF Touched
    <3> QED
      BY <3>1, <3>2
  <2>3. OwnBytes(v, Program(v)[k])' = OwnBytes(v, Program(v)[k])
    BY <2>1 DEF OwnBytes
  <2> QED
    BY <1>0, <2>1, <2>2, <2>3 DEF JobInv, StoredAlone
<1> QED
  BY <1>0, <1>6, <1>7, ProvedStays DEF JobInv

\* A thread at an item opens its file or fills it: with its own bytes, to
\* which those that are there may be joined when the file was open.
LEMMA StoringAlone ==
  ASSUME JobInv, NEW w \in Workers, MovesOn(w), Stores(Item(w)), Origin' = Origin,
         NEW bytes, Put(SlotOf(w, Item(w)), bytes),
         \/ bytes \in {{}, {OwnBytes(w, Item(w))}}
         \/ worker[w].open /\ bytes = {OwnBytes(w, Item(w))} \cup disk[SlotOf(w, Item(w))],
         \A k \in DOMAIN Program(w) : Touched(w, k)' => Touched(w, k) \/ k = worker[w].step
  PROVE  StoredAlone'
<1> DEFINE slot == SlotOf(w, Item(w))
           own == OwnBytes(w, Item(w))
<1>1. /\ DOMAIN disk' = DOMAIN disk \cup {slot}
      /\ disk'[slot] = bytes
      /\ \A s \in DOMAIN disk : s # slot => disk'[s] = disk[s]
  BY PutFile
<1>2. AtItem(w) /\ Running(w) /\ UNCHANGED request
  BY DEF MovesOn, AtItem
<1> SUFFICES ASSUME NEW v \in Workers, Running(v)', worker'[v].alone,
                    NEW k \in DOMAIN Program(v)', Touched(v, k)'
             PROVE  /\ SlotOf(v, Program(v)[k])' \in DOMAIN disk'
                    /\ disk'[SlotOf(v, Program(v)[k])'] \in {{OwnBytes(v, Program(v)[k])'}, {}}
  BY DEF StoredAlone
<1>3. /\ Running(v) /\ worker[v].alone
      /\ Program(v)' = Program(v) /\ TraceOf(v)' = TraceOf(v)
      /\ SlotOf(v, Program(v)[k])' = SlotOf(v, Program(v)[k])
  BY MovedJob DEF SlotOf
<1>4. OwnBytes(v, Program(v)[k])' = OwnBytes(v, Program(v)[k])
  BY <1>3 DEF OwnBytes
<1>5. Touched(v, k) \/ (v = w /\ k = worker[w].step)
  <2>1. CASE v = w
    BY <1>3, <2>1
  <2>2. CASE v # w
    BY <1>3, <2>2 DEF Touched, MovesOn
  <2> QED
    BY <2>1, <2>2
<1>6. Touched(v, k) =>
        /\ SlotOf(v, Program(v)[k]) \in DOMAIN disk
        /\ disk[SlotOf(v, Program(v)[k])] \in {{OwnBytes(v, Program(v)[k])}, {}}
  BY <1>3 DEF JobInv, StoredAlone
<1>7. CASE SlotOf(v, Program(v)[k]) # slot
  <2>1. Touched(v, k)
    BY <1>5, <1>7 DEF Item
  <2> QED
    BY <1>1, <1>3, <1>4, <1>6, <1>7, <2>1
<1>8. CASE SlotOf(v, Program(v)[k]) = slot
  <2>1. TraceOf(v).height = TraceOf(w).height /\ Program(v)[k].arg = Item(w).arg
    BY <1>8 DEF SlotOf
  <2>2. TraceOf(v) = TraceOf(w)
    BY <1>2, <1>3, <2>1 DEF JobInv, NoRivals, Rivals
  <2>3. OwnBytes(v, Program(v)[k]) = own
    BY <2>1, <2>2 DEF OwnBytes
  <2>4. worker[w].open => Touched(v, k) \/ Touched(w, k)
    BY <1>5, <1>3 DEF Touched
  <2>5. worker[w].open => disk[slot] \in {{own}, {}}
    <3>1. CASE Touched(v, k)
      BY <1>6, <1>8, <2>3, <3>1
    <3>2. CASE ~ Touched(v, k)
      <4>1. v = w /\ (worker[w].open => Touched(w, k))
        BY <1>5, <2>4, <3>2
      <4> QED
        BY <3>2, <4>1
    <3> QED
      BY <3>1, <3>2
  <2>6. bytes \in {{own}, {}}
    BY <2>5
  <2> QED
    BY <1>1, <1>3, <1>4, <1>8, <2>3, <2>6
<1> QED
  BY <1>7, <1>8

\* What a thread stores is a proof its circuits have made, of an admitted trace.
LEMMA OwnIsProved ==
  ASSUME JobInv, NEW w \in Workers, AtItem(w), Stores(Item(w))
  PROVE  LET b == BytesOf(w, Item(w))
             slot == SlotOf(w, Item(w))
         IN  /\ b = OwnBytes(w, Item(w))
             /\ b.of = "trace" =>
                  /\ b.trace.height = slot[1]
                  /\ slot[2][1] \in b.trace.provable
                  /\ \E i \in Calls : Asks(request[i]) /\ Admissible(request[i])
                                     /\ request[i].trace = b.trace
<1>1. Running(w) /\ worker[w].step \in DOMAIN Program(w)
  BY DEF AtItem
<1>2. seedOf[w] = Origin
  BY <1>1 DEF JobInv, DiskInv, ServerInv, RunsSeeded, SeedsAgree
<1>3. BytesOf(w, Item(w)).of = "trace" => BytesOf(w, Item(w)).trace = TraceOf(w)
  BY DEF BytesOf, FileBytes
<1>4. SlotOf(w, Item(w))[1] = TraceOf(w).height /\ SlotOf(w, Item(w))[2] = Item(w).arg
  BY DEF SlotOf
<1>5. Item(w).arg[1] \in TraceOf(w).provable
  <2>1. WellOrdered(Program(w)) /\ DOMAIN Program(w) = 1..Len(Program(w)) /\ Len(Program(w)) \in Nat
    BY <1>1, RunningOrder DEF JobInv, DiskInv, WellOrdered
  <2>2. ProvesFirst(Program(w), worker[w].step, Item(w).arg[1])
    BY <1>1, <2>1 DEF WellOrdered, Item
  <2>3. PICK l \in 1..(worker[w].step - 1) :
          Proves(Program(w)[l]) /\ Program(w)[l].arg[1] = Item(w).arg[1]
    BY <2>2 DEF ProvesFirst
  <2>4. l \in DOMAIN Program(w) /\ l < worker[w].step
    BY <1>1, <2>1
  <2> QED
    BY <1>1, <2>3, <2>4 DEF JobInv, ProvedSoFar
<1>6. /\ worker[w].call \in Calls
      /\ Asks(JobOf(w)) /\ Admissible(JobOf(w))
  BY <1>1 DEF JobInv, DiskInv, ServerInv, JobsAdmitted, Running
<1>7. BytesOf(w, Item(w)) = OwnBytes(w, Item(w))
  BY <1>2 DEF BytesOf, OwnBytes
<1> QED
  BY <1>3, <1>4, <1>5, <1>6, <1>7 DEF TraceOf, JobOf

LEMMA StoringProved ==
  ASSUME JobInv, NEW w \in Workers, AtItem(w), Stores(Item(w)), UNCHANGED request,
         NEW bytes, Put(SlotOf(w, Item(w)), bytes),
         \A b \in bytes : \/ b = BytesOf(w, Item(w))
                         \/ /\ SlotOf(w, Item(w)) \in DOMAIN disk
                            /\ b \in disk[SlotOf(w, Item(w))]
  PROVE  OnlyProvedOnDisk'
<1> DEFINE slot == SlotOf(w, Item(w))
<1>1. /\ DOMAIN disk' = DOMAIN disk \cup {slot}
      /\ disk'[slot] = bytes
      /\ \A s \in DOMAIN disk : s # slot => disk'[s] = disk[s]
  BY PutFile
<1> SUFFICES ASSUME NEW s \in DOMAIN disk', NEW b \in disk'[s], b.of = "trace"
             PROVE  /\ b.trace.height = s[1]
                    /\ s[2][1] \in b.trace.provable
                    /\ \E i \in Calls : Asks(request[i]) /\ Admissible(request[i])
                                       /\ request[i].trace = b.trace
  BY DEF OnlyProvedOnDisk
<1>2. CASE s = slot /\ b = BytesOf(w, Item(w))
  BY <1>2, OwnIsProved
<1>3. CASE ~ (s = slot /\ b = BytesOf(w, Item(w)))
  <2>1. s \in DOMAIN disk /\ b \in disk[s]
    BY <1>1, <1>3
  <2> QED
    BY <2>1 DEF JobInv, OnlyProvedOnDisk
<1> QED
  BY <1>2, <1>3

LEMMA StoreJobs ==
  ASSUME JobInv, NEW w \in Workers, OpenFile(w) \/ WriteFile(w), Origin' = Origin
  PROVE  Fresh' /\ ProvedSoFar' /\ OnlyProvedOnDisk' /\ NoRivals' /\ StoredAlone'
<1>0. /\ worker \in [Workers -> WorkerType] /\ AtItem(w) /\ Running(w) /\ Stores(Item(w))
      /\ UNCHANGED request
      /\ worker[w].step \in Nat /\ DOMAIN Program(w) \subseteq Nat
  <2>1. /\ worker \in [Workers -> WorkerType] /\ AtItem(w) /\ Running(w) /\ Stores(Item(w))
        /\ UNCHANGED request
    BY DEF JobInv, DiskInv, ServerInv, TypeOK, WorkerType, OpenFile, WriteFile, AtItem, callVars
  <2>2. Program(w) \in Seq(Items)
    BY <2>1, RunningOrder DEF WellOrdered, JobInv, DiskInv
  <2>3. DOMAIN Program(w) \subseteq Nat
    BY <2>2
  <2> QED
    BY <2>1, <2>3 DEF WorkerType
<1>1. ~ Proves(Item(w))
  BY <1>0 DEF Stores, Proves
<1>2. /\ worker'[w].stage = "run" /\ worker'[w].call = worker[w].call
      /\ worker'[w].alone = worker[w].alone /\ worker'[w].keys = worker[w].keys
      /\ \A v \in Workers \ {w} : worker'[v] = worker[v]
  BY <1>0 DEF OpenFile, WriteFile, WorkerType, Running
<1>3. MovesOn(w)
  BY <1>0, <1>2 DEF MovesOn
<1>4. BytesOf(w, Item(w)) = OwnBytes(w, Item(w))
  BY <1>0, OwnIsProved
<1>5. Program(w)' = Program(w)
  BY <1>3, MovedJob
<1>6. CASE OpenFile(w)
  <2>1. /\ worker'[w].step = worker[w].step /\ ~ worker[w].open
        /\ Put(SlotOf(w, Item(w)), {})
    BY <1>0, <1>6 DEF OpenFile, WorkerType
  <2>2. \A k \in DOMAIN Program(w) : Touched(w, k)' => Touched(w, k) \/ k = worker[w].step
    BY <1>5, <2>1 DEF Touched
  <2>3. StoredAlone'
    BY <1>0, <1>3, <2>1, <2>2, StoringAlone
  <2>4. OnlyProvedOnDisk'
    BY <1>0, <2>1, StoringProved
  <2> QED
    BY <1>2, <1>3, <2>1, <2>3, <2>4, ProgramJobs
<1>7. CASE WriteFile(w)
  <2>1. /\ worker'[w].step = worker[w].step + 1 /\ worker[w].open /\ ~ worker'[w].open
    BY <1>0, <1>7 DEF WriteFile, WorkerType
  <2>2. PICK bytes : /\ Put(SlotOf(w, Item(w)), bytes)
                     /\ \/ bytes = {BytesOf(w, Item(w))}
                        \/ bytes = {BytesOf(w, Item(w))} \cup disk[SlotOf(w, Item(w))]
    BY <1>7 DEF WriteFile
  <2>3. \A k \in DOMAIN Program(w) : Touched(w, k)' => Touched(w, k) \/ k = worker[w].step
    BY <1>0, <1>5, <2>1 DEF Touched
  <2>4. StoredAlone'
    BY <1>0, <1>3, <1>4, <2>1, <2>2, <2>3, StoringAlone
  <2>5. SlotOf(w, Item(w)) \in DOMAIN disk
    BY <2>1 DEF JobInv, DiskInv, OpenFilesExist
  <2>6. OnlyProvedOnDisk'
    BY <1>0, <2>2, <2>5, StoringProved
  <2> QED
    BY <1>1, <1>2, <1>3, <2>1, <2>4, <2>6, ProgramJobs
<1> QED
  BY <1>6, <1>7

LEMMA JobInit == Init => JobInv
<1> SUFFICES ASSUME Init
             PROVE  JobInv
  OBVIOUS
<1>1. \A w \in Workers : worker[w] = Idle
  BY DEF Init
<1>2. \A w \in Workers : ~ Running(w)
  BY <1>1 DEF Running, Idle
<1>3. Fresh
  BY <1>1 DEF Fresh, Idle
<1>4. DOMAIN disk = {}
  BY DEF Init
<1> QED
  BY <1>2, <1>3, <1>4, DiskInit
     DEF JobInv, ProvedSoFar, OnlyProvedOnDisk, NoRivals, StoredAlone

LEMMA JobNext == JobInv /\ [Next]_vars => JobInv'
<1> SUFFICES ASSUME JobInv, [Next]_vars
             PROVE  JobInv'
  OBVIOUS
<1>1. DiskInv' /\ Origin' = Origin
  BY DiskNext, NextSeeds DEF JobInv
<1>2. Fresh' /\ ProvedSoFar' /\ OnlyProvedOnDisk' /\ NoRivals' /\ StoredAlone'
  BY <1>1, StepKinds, QuietJobs, BuildJobs, ComputeJobs, StoreJobs DEF JobInv
<1> QED
  BY <1>1, <1>2 DEF JobInv

LEMMA JobInvariant == Spec => []JobInv
BY JobInit, JobNext, PTL DEF Spec

-----------------------------------------------------------------------------
(* Computed proofs are returned.                                           *)

\* A call that waits for a thread, or that one works on, has been sent, and
\* no two threads work on one call.
Busy(w) == worker[w].stage # "idle"

CallsApart ==
  /\ \A i \in inbox : answer[i] # "unsent"
  /\ \A w \in Workers : Busy(w) =>
       worker[w].call \notin inbox /\ answer[worker[w].call] # "unsent"
  /\ \A w \in Workers : \A v \in Workers \ {w} :
       Busy(w) /\ Busy(v) => worker[v].call # worker[w].call

\* No step takes a call back, and but for those taken by the thread that
\* starts a job, threads keep their calls or end their jobs.
LEMMA AnswersStay ==
  ASSUME TypeOK, NEW i \in Calls, NEW to, to # "unsent", Resolve(i, to)
  PROVE  \A j \in Calls : answer[j] # "unsent" => answer'[j] # "unsent"
<1>1. answer \in [Calls -> Service!Answers]
  BY DEF TypeOK
<1> QED
  BY <1>1 DEF Resolve

KeepsCalls ==
  /\ inbox' \subseteq inbox
  /\ \A j \in Calls : answer[j] # "unsent" => answer'[j] # "unsent"
  /\ \A v \in Workers :
       Busy(v)' => Busy(v) /\ worker'[v].call = worker[v].call

LEMMA KeepingCalls ==
  ASSUME ServerInv, CallsApart, KeepsCalls
  PROVE  CallsApart'
<1>1. inbox \subseteq Calls /\ \A w \in Workers : Busy(w) => worker[w].call \in Calls
  BY DEF ServerInv, TypeOK, JobsAdmitted, Busy
<1>2. \A i \in inbox' : answer'[i] # "unsent"
  BY <1>1 DEF KeepsCalls, CallsApart
<1>3. ASSUME NEW w \in Workers, Busy(w)'
      PROVE  worker'[w].call \notin inbox' /\ answer'[worker'[w].call] # "unsent"
  BY <1>1, <1>3 DEF KeepsCalls, CallsApart
<1>4. ASSUME NEW w \in Workers, NEW v \in Workers \ {w}, Busy(w)', Busy(v)'
      PROVE  worker'[v].call # worker'[w].call
  BY <1>4 DEF KeepsCalls, CallsApart
<1> QED
  BY <1>2, <1>3, <1>4 DEF CallsApart, Busy

LEMMA TakeCalls ==
  ASSUME ServerInv, CallsApart, NEW w \in Workers, TakeAny(w)
  PROVE  CallsApart'
<1>0. worker \in [Workers -> WorkerType] /\ inbox \subseteq Calls /\ TypeOK
  BY DEF ServerInv, TypeOK, WorkerType
<1>1. PICK i \in Calls :
        AnswerSpec(w, i) \/ Refuse(w, i) \/ StartJob(w, i)
  BY DEF TakeAny
<1>2. worker[w].stage = "idle" /\ i \in inbox /\ inbox' = inbox \ {i}
  BY <1>1 DEF AnswerSpec, Refuse, StartJob, Take
<1>3. CASE AnswerSpec(w, i) \/ Refuse(w, i)
  <2>1. UNCHANGED worker /\ \E to \in {"spec", "refused", "dropped"} : Resolve(i, to)
    BY <1>3 DEF AnswerSpec, Refuse
  <2>2. \A j \in Calls : answer[j] # "unsent" => answer'[j] # "unsent"
    BY <1>0, <2>1, AnswersStay
  <2>3. KeepsCalls
    BY <1>2, <2>1, <2>2 DEF KeepsCalls, Busy
  <2> QED
    BY <2>3, KeepingCalls
<1>4. CASE StartJob(w, i)
  <2>1. /\ UNCHANGED answer
        /\ worker' = [worker EXCEPT ![w].stage = "params", ![w].call = i]
    BY <1>4 DEF StartJob
  <2>2. /\ worker'[w].stage = "params" /\ worker'[w].call = i
        /\ \A v \in Workers \ {w} : worker'[v] = worker[v]
    BY <1>0, <2>1 DEF WorkerType
  <2>3. \A v \in Workers \ {w} : Busy(v) => worker[v].call # i
    BY <1>2 DEF CallsApart
  <2>4. ASSUME NEW u \in Workers, Busy(u)'
        PROVE  worker'[u].call \notin inbox' /\ answer'[worker'[u].call] # "unsent"
    <3>1. CASE u = w
      BY <1>2, <2>1, <2>2, <3>1 DEF CallsApart
    <3>2. CASE u # w
      <4>1. worker'[u] = worker[u] /\ Busy(u)
        BY <2>2, <2>4, <3>2 DEF Busy
      <4>2. worker[u].call \notin inbox /\ answer[worker[u].call] # "unsent"
        BY <4>1 DEF CallsApart
      <4>3. answer' = answer /\ inbox' \subseteq inbox
        BY <1>2, <2>1
      <4> QED
        BY <4>1, <4>2, <4>3, Zenon
    <3> QED
      BY <3>1, <3>2
  <2>5. ASSUME NEW u \in Workers, NEW v \in Workers \ {u}, Busy(u)', Busy(v)'
        PROVE  worker'[v].call # worker'[u].call
    BY <2>2, <2>3, <2>5 DEF CallsApart, Busy
  <2>6. \A j \in inbox' : answer'[j] # "unsent"
    BY <1>2, <2>1 DEF CallsApart
  <2> QED
    BY <2>4, <2>5, <2>6 DEF CallsApart, Busy
<1> QED
  BY <1>1, <1>3, <1>4

LEMMA SendCalls ==
  ASSUME ServerInv, CallsApart, NEW i \in Calls, Send(i)
  PROVE  CallsApart'
<1>0. answer \in [Calls -> Service!Answers]
  BY DEF ServerInv, TypeOK
<1>1. /\ answer[i] = "unsent" /\ inbox' = inbox \cup {i} /\ UNCHANGED worker
      /\ \A j \in Calls : answer'[j] = IF j = i THEN "waiting" ELSE answer[j]
  BY <1>0 DEF Send
<1>2. inbox \subseteq Calls /\ \A w \in Workers : Busy(w) => worker[w].call \in Calls
  BY DEF ServerInv, TypeOK, JobsAdmitted, Busy
<1>3. \A j \in inbox' : answer'[j] # "unsent"
  BY <1>1, <1>2 DEF CallsApart
<1>4. ASSUME NEW w \in Workers, Busy(w)'
      PROVE  worker'[w].call \notin inbox' /\ answer'[worker'[w].call] # "unsent"
  BY <1>1, <1>2, <1>4 DEF CallsApart, Busy
<1> QED
  BY <1>1, <1>3, <1>4 DEF CallsApart, Busy

LEMMA EndCalls ==
  ASSUME ServerInv, CallsApart, NEW w \in Workers,
         \/ ParamsMissing(w) \/ SeedUnreadable(w) \/ HeightMissing(w)
         \/ ComputeFails(w) \/ AnswerProof(w) \/ StoreFails(w)
  PROVE  CallsApart'
<1>0. worker \in [Workers -> WorkerType] /\ TypeOK
  BY DEF ServerInv, TypeOK, WorkerType
<1>1. UNCHANGED inbox /\ worker' = [worker EXCEPT ![w] = Idle]
  BY DEF ParamsMissing, SeedUnreadable, HeightMissing, ComputeFails, AnswerProof, StoreFails,
         Panic, EndJob
<1>2. \E to \in {"dropped", "proof"} : Resolve(worker[w].call, to)
  BY DEF ParamsMissing, SeedUnreadable, HeightMissing, ComputeFails, AnswerProof, StoreFails,
         Panic, EndJob
<1>3. worker[w].call \in Calls
  BY DEF ServerInv, JobsAdmitted, ParamsMissing, SeedUnreadable, HeightMissing, ComputeFails,
         AnswerProof, StoreFails, AtItem, Running
<1>4. \A j \in Calls : answer[j] # "unsent" => answer'[j] # "unsent"
  BY <1>0, <1>2, <1>3, AnswersStay
<1>5. KeepsCalls
  BY <1>0, <1>1, <1>4 DEF KeepsCalls, Busy, Idle
<1> QED
  BY <1>5, KeepingCalls

LEMMA RunCalls ==
  ASSUME ServerInv, CallsApart, NEW w \in Workers,
         \/ LoadParams(w) \/ LoadOrCreateSeed(w) \/ BuildProver(w)
         \/ Compute(w) \/ OpenFile(w) \/ WriteFile(w)
  PROVE  CallsApart'
<1>0. worker \in [Workers -> WorkerType]
  BY DEF ServerInv, TypeOK, WorkerType
<1>1. UNCHANGED <<answer, inbox>>
  BY DEF LoadParams, LoadOrCreateSeed, BuildProver, Compute, OpenFile, WriteFile, callVars
<1>2. CASE BuildProver(w)
  <2>1. Busy(w)
    BY <1>2 DEF BuildProver, Busy
  <2>2. \A v \in Workers : worker'[v].call = worker[v].call /\ (Busy(v)' => Busy(v))
    <3> SUFFICES ASSUME NEW v \in Workers
                 PROVE  worker'[v].call = worker[v].call /\ (Busy(v)' => Busy(v))
      OBVIOUS
    <3>1. worker[v] \in WorkerType
      BY <1>0
    <3>2. \E alone :
            \/ v = w /\ worker'[v] = [worker[v] EXCEPT !.stage = "run", !.alone = alone]
            \/ worker'[v] = [worker[v] EXCEPT !.alone = FALSE]
            \/ worker'[v] = worker[v]
      BY <1>2 DEF BuildProver
    <3> QED
      BY <2>1, <3>1, <3>2 DEF WorkerType, Busy
  <2>3. KeepsCalls
    BY <1>1, <2>2 DEF KeepsCalls
  <2> QED
    BY <2>3, KeepingCalls
<1>3. CASE ~ BuildProver(w)
  <2>1. \/ UNCHANGED worker
        \/ Busy(w) /\ worker' = [worker EXCEPT ![w].stage = "seed"]
        \/ Busy(w) /\ worker' = [worker EXCEPT ![w].open = TRUE]
        \/ Busy(w) /\ worker' = [worker EXCEPT ![w].step = @ + 1, ![w].open = FALSE]
        \/ Busy(w) /\ worker' = [worker EXCEPT ![w].step = @ + 1,
                                               ![w].keys = KeysAfter(Item(w), @)]
    BY <1>3 DEF LoadParams, LoadOrCreateSeed, Compute, OpenFile, WriteFile, Busy, AtItem, Running
  <2>2. \A v \in Workers : Busy(v)' => Busy(v) /\ worker'[v].call = worker[v].call
    BY <1>0, <2>1 DEF WorkerType, Busy
  <2>3. KeepsCalls
    BY <1>1, <2>2 DEF KeepsCalls
  <2> QED
    BY <2>3, KeepingCalls
<1> QED
  BY <1>2, <1>3

LEMMA CallsInvariant == Spec => [](JobInv /\ CallsApart)
<1>1. Init => CallsApart
  BY DEF Init, CallsApart, Busy, Idle
<1>2. ASSUME JobInv, CallsApart, [Next]_vars
      PROVE  CallsApart'
  <2>0. ServerInv /\ answer \in [Calls -> Service!Answers]
    BY <1>2 DEF JobInv, DiskInv, ServerInv, TypeOK
  <2>1. ASSUME NEW w \in Workers, WorkerStep(w) \/ StoreFails(w)
        PROVE  CallsApart'
    BY <1>2, <2>0, <2>1, TakeCalls, EndCalls, RunCalls DEF WorkerStep
  <2>2. ASSUME NEW i \in Calls, GiveUp(i)
        PROVE  CallsApart'
    <3>1. KeepsCalls
      BY <2>0, <2>2 DEF GiveUp, KeepsCalls, Busy
    <3> QED
      BY <1>2, <2>0, <3>1, KeepingCalls
  <2>3. CASE Crash
    <3>1. KeepsCalls
      BY <2>0, <2>3 DEF Crash, KeepsCalls, Busy, Idle
    <3> QED
      BY <1>2, <2>0, <3>1, KeepingCalls
  <2>4. CASE (\E d \in Degrees : ProvideParams(d)) \/ AllServed \/ UNCHANGED vars
    <3>1. KeepsCalls
      BY <2>4 DEF ProvideParams, AllServed, vars, callVars, KeepsCalls, Busy
    <3> QED
      BY <1>2, <2>0, <3>1, KeepingCalls
  <2> QED
    BY <1>2, <2>0, <2>1, <2>2, <2>3, <2>4, SendCalls DEF Next
<1> QED
  BY <1>1, <1>2, JobInvariant, PTL DEF Spec

\* But for OPT_MEM, the keys a contract is made with are those of proofs that
\* the job has made.
LEMMA ContractKeys ==
  ASSUME JobInv, NEW w \in Workers, Running(w), worker[w].step \in DOMAIN Program(w),
         Program(w)[worker[w].step].op = "solidity",
         ItemFails(Program(w)[worker[w].step], worker[w].keys, TraceOf(w))
  PROVE  OptMem
<1> SUFFICES ASSUME ~ OptMem
             PROVE  FALSE
  OBVIOUS
<1> DEFINE P == Program(w)
           n == worker[w].step
<1>1. WellOrdered(P) /\ n \in Nat
  BY RunningOrder DEF JobInv, DiskInv, ServerInv, TypeOK
<1>2. DOMAIN P = 1..Len(P) /\ Len(P) \in Nat
  BY <1>1 DEF WellOrdered
<1>3. ~ {"super", "agg"} \subseteq worker[w].keys
  BY DEF ItemFails
<1>4. ASSUME NEW c, ProvesFirst(P, n, c)
      PROVE  c \in worker[w].keys
  <2>1. PICK l \in 1..(n - 1) : Proves(P[l]) /\ P[l].arg[1] = c
    BY <1>4 DEF ProvesFirst
  <2>2. l \in DOMAIN P /\ l < n
    BY <1>1, <1>2
  <2> QED
    BY <2>1, <2>2 DEF JobInv, ProvedSoFar
<1>5. ProvesFirst(P, n, "super") /\ ProvesFirst(P, n, "agg")
  BY <1>1 DEF WellOrdered
<1> QED
  BY <1>3, <1>4, <1>5

\* Past its last proof a job fails to compute nothing.
LEMMA PastLastProof ==
  ASSUME JobInv, ~ OptMem, NEW w \in Workers, Running(w), LastProof(w) < worker[w].step,
         ComputeFails(w)
  PROVE  FALSE
<1> DEFINE P == Program(w)
           n == worker[w].step
<1>1. WellOrdered(P) /\ n \in Nat
  BY RunningOrder DEF JobInv, DiskInv, ServerInv, TypeOK
<1>2. n \in DOMAIN P /\ ItemFails(P[n], worker[w].keys, TraceOf(w)) /\ DOMAIN P \subseteq Nat
  <2>1. P \in Seq(Items)
    BY <1>1 DEF WellOrdered
  <2> QED
    BY <2>1 DEF ComputeFails, AtItem, Item
<1>3. LastProof(w) \in DOMAIN P /\ \A l \in DOMAIN P : Proves(P[l]) => l <= LastProof(w)
  BY <1>1 DEF WellOrdered, LastProof
<1>4. ~ Proves(P[n])
  BY <1>1, <1>2, <1>3
<1>5. P[n].op = "solidity"
  BY <1>2, <1>4 DEF ItemFails, Proves
<1> QED
  BY <1>2, <1>5, ContractKeys

\* Whoever drops a call works on it or has taken it from the queue.
LEMMA DroppedBy ==
  ASSUME JobInv, CallsApart, NEW w \in Workers, Running(w), NEW v \in Workers,
         WorkerStep(v),
         answer'[worker[w].call] = "dropped", answer[worker[w].call] # "dropped"
  PROVE  v = w /\ ComputeFails(w)
<1> DEFINE i == worker[w].call
<1>0. answer \in [Calls -> Service!Answers] /\ i \in Calls /\ Busy(w) /\ i \notin inbox
  BY DEF JobInv, DiskInv, ServerInv, TypeOK, JobsAdmitted, CallsApart, Busy, Running
<1>1. \A j, to : Resolve(j, to) => (j = i /\ to = "dropped")
  BY <1>0 DEF Resolve
<1>2. ~ TakeAny(v)
  BY <1>0, <1>1 DEF TakeAny, AnswerSpec, Refuse, StartJob, Take
<1>3. ~ AnswerProof(v)
  BY <1>1 DEF AnswerProof, EndJob
<1>4. ~ (LoadParams(v) \/ LoadOrCreateSeed(v) \/ BuildProver(v) \/ Compute(v)
         \/ OpenFile(v) \/ WriteFile(v))
  BY DEF LoadParams, LoadOrCreateSeed, BuildProver, Compute, OpenFile, WriteFile, callVars
<1>5. ParamsMissing(v) \/ SeedUnreadable(v) \/ HeightMissing(v) \/ ComputeFails(v)
  BY <1>2, <1>3, <1>4 DEF WorkerStep
<1>6. Resolve(worker[v].call, "dropped") /\ Busy(v)
  BY <1>5 DEF ParamsMissing, SeedUnreadable, HeightMissing, ComputeFails, Panic, EndJob,
              AtItem, Running, Busy
<1>7. v = w
  BY <1>0, <1>1, <1>6 DEF CallsApart
<1> QED
  BY <1>5, <1>7 DEF ParamsMissing, SeedUnreadable, HeightMissing, Running

-----------------------------------------------------------------------------
(* The server keeps the promise of ProveService, step by step.             *)

LEMMA ResolveWaiting ==
  ASSUME NEW i, NEW to, Resolve(i, to)
  PROVE  \/ UNCHANGED answer
         \/ answer[i] = "waiting" /\ answer' = [answer EXCEPT ![i] = to]
BY DEF Resolve

\* A thread whose program has no item left has proved all it had to.
LEMMA ProgramOver ==
  ASSUME JobInv, NEW w \in Workers, Running(w), ~ AtItem(w)
  PROVE  Provable(JobOf(w))
<1>1. WellOrdered(Program(w)) /\ worker[w].step \in Nat \ {0}
  BY RunningOrder DEF JobInv, DiskInv, ServerInv, TypeOK
<1>2. DOMAIN Program(w) = 1..Len(Program(w)) /\ Len(Program(w)) \in Nat
  BY <1>1 DEF WellOrdered
<1>3. \A k \in DOMAIN Program(w) : k < worker[w].step
  BY <1>1, <1>2 DEF AtItem
<1>4. \A k \in DOMAIN Program(w) :
        Proves(Program(w)[k]) => Program(w)[k].arg[1] \in TraceOf(w).provable
  BY <1>3 DEF JobInv, ProvedSoFar
<1>5. TraceOf(w).height # NoHeight
  BY DEF JobInv, DiskInv, ServerInv, RunsSeeded
<1> QED
  BY <1>4, <1>5 DEF Provable, Program, TraceOf

\* A thread fails to read the seed while it serves a call, and goes no further.
FailedServing == \A w \in Workers : seedPc[w] = "failed" => worker[w].stage = "seed"

LEMMA EndJobSeed ==
  ASSUME ServerInv, NEW w \in Workers, NEW to, EndJob(w, to)
  PROVE  /\ \A v \in Workers \ {w} : seedPc'[v] = seedPc[v] /\ worker'[v] = worker[v]
         /\ seedPc'[w] = "out"
<1>1. worker' = [worker EXCEPT ![w] = Idle] /\ Seed!SeedAbandon({w})
  BY DEF EndJob
<1>2. worker \in [Workers -> WorkerType]
  BY DEF ServerInv, TypeOK, WorkerType
<1> QED
  BY <1>1, <1>2 DEF Seed!SeedAbandon

LEMMA SeedStepOf ==
  ASSUME ServerInv, NEW w \in Workers, Seed!SeedStep(w)
  PROVE  /\ \A v \in Workers \ {w} : seedPc'[v] = seedPc[v]
         /\ \/ seedPc'[w] # "failed" /\ seedPc[w] # "failed"
            \/ seedPc'[w] = "failed" /\ seedFile \notin Seed!Seeds
<1>1. seedPc \in [Workers -> Seed!SeedPcs]
  BY DEF ServerInv, TypeOK, Seed!SeedTypeOK
<1>2. PICK from \in {"out", "load", "create", "write"},
            to \in {"load", "create", "write", "ok", "failed"} :
        /\ Seed!GoTo(w, from, to)
        /\ to = "failed" => seedFile \notin Seed!Seeds
  BY DEF Seed!SeedStep, Seed!SeedExists, Seed!SeedMissing, Seed!LoadSeed,
         Seed!LoadSeedFails, Seed!CreateSeed, Seed!WriteSeed
<1> QED
  BY <1>1, <1>2 DEF Seed!GoTo

LEMMA FailedServingNext ==
  ASSUME ServerInv, FailedServing, [Next]_vars
  PROVE  FailedServing'
<1>0. worker \in [Workers -> WorkerType]
  BY DEF ServerInv, TypeOK, WorkerType
<1>1. ASSUME NEW w \in Workers, TakeAny(w)
      PROVE  FailedServing'
  <2>1. PICK i \in Calls : AnswerSpec(w, i) \/ Refuse(w, i) \/ StartJob(w, i)
    BY <1>1 DEF TakeAny
  <2>2. UNCHANGED seedPc /\ worker[w].stage = "idle"
    BY <2>1 DEF AnswerSpec, Refuse, StartJob, Take, seedVars
  <2>3. \A v \in Workers \ {w} : worker'[v] = worker[v]
    BY <1>0, <2>1 DEF AnswerSpec, Refuse, StartJob
  <2> QED
    BY <2>2, <2>3 DEF FailedServing
<1>2. ASSUME NEW w \in Workers,
             \/ ParamsMissing(w) \/ SeedUnreadable(w) \/ HeightMissing(w)
             \/ ComputeFails(w) \/ AnswerProof(w) \/ StoreFails(w)
      PROVE  FailedServing'
  <2>1. \E to : EndJob(w, to)
    BY <1>2 DEF ParamsMissing, SeedUnreadable, HeightMissing, ComputeFails, AnswerProof,
                StoreFails, Panic
  <2> QED
    BY <2>1, EndJobSeed DEF FailedServing
<1>3. ASSUME NEW w \in Workers, LoadOrCreateSeed(w)
      PROVE  FailedServing'
  <2>1. UNCHANGED worker /\ worker[w].stage = "seed" /\ Seed!SeedStep(w)
    BY <1>3 DEF LoadOrCreateSeed
  <2> QED
    BY <2>1, SeedStepOf DEF FailedServing
<1>4. ASSUME NEW w \in Workers, LoadParams(w) \/ Compute(w) \/ OpenFile(w) \/ WriteFile(w)
      PROVE  FailedServing'
  <2>1. UNCHANGED seedPc /\ worker[w].stage \in {"params", "run"}
    BY <1>4 DEF LoadParams, Compute, OpenFile, WriteFile, AtItem, Running, seedVars
  <2>2. \A v \in Workers \ {w} : worker'[v] = worker[v]
    BY <1>0, <1>4 DEF LoadParams, Compute, OpenFile, WriteFile
  <2> QED
    BY <2>1, <2>2 DEF FailedServing
<1>5. ASSUME NEW w \in Workers, BuildProver(w)
      PROVE  FailedServing'
  <2>1. UNCHANGED seedPc /\ seedPc[w] = "ok"
    BY <1>5 DEF BuildProver, seedVars
  <2>2. \A v \in Workers \ {w} : worker'[v].stage = worker[v].stage
    <3> SUFFICES ASSUME NEW v \in Workers \ {w}
                 PROVE  worker'[v].stage = worker[v].stage
      OBVIOUS
    <3>1. worker[v] \in WorkerType
      BY <1>0
    <3>2. worker'[v] = [worker[v] EXCEPT !.alone = FALSE] \/ worker'[v] = worker[v]
      BY <1>5 DEF BuildProver
    <3> QED
      BY <3>1, <3>2 DEF WorkerType
  <2> QED
    BY <2>1, <2>2 DEF FailedServing
<1>6. CASE Crash
  BY <1>6 DEF Crash, Seed!SeedAbandon, FailedServing
<1>7. CASE \/ \E i \in Calls : Send(i) \/ GiveUp(i)
           \/ \E d \in Degrees : ProvideParams(d)
           \/ AllServed \/ UNCHANGED vars
  BY <1>7 DEF Send, GiveUp, ProvideParams, AllServed, vars, callVars, seedVars, FailedServing
<1> QED
  BY <1>1, <1>2, <1>3, <1>4, <1>5, <1>6, <1>7 DEF Next, WorkerStep

LEMMA ServingInvariant == Spec => [](JobInv /\ CallsApart /\ FailedServing)
<1>1. Init => FailedServing
  BY DEF Init, Seed!SeedInit, FailedServing
<1>2. JobInv => ServerInv
  BY DEF JobInv, DiskInv
<1> QED
  BY <1>1, <1>2, FailedServingNext, CallsInvariant, PTL DEF Spec

\* Only aggregations make a contract.
LEMMA ContractOfAgg ==
  ASSUME NEW r, Admissible(r),
         NEW k \in DOMAIN ProgramOf(r), ProgramOf(r)[k].op = "solidity"
  PROVE  ProofTypeOf(r.type) = "agg"
<1> SUFFICES ASSUME ProofTypeOf(r.type) # "agg"
             PROVE  FALSE
  OBVIOUS
<1>1. PICK c \in Circuits : ProgramOf(r) = TargetJob[c]
  BY ProofTypeNames DEF Admissible, ProgramOf, Circuits
<1> DEFINE P == TargetJob[c]
<1>a. /\ Len(P) = 4 /\ P[1] = ProveCircuit(c) /\ P[2] = Store(<<c, "vk">>)
      /\ P[3] = Store(<<c, "json">>) /\ P[4] = Store(<<c, "proof">>)
  <2> HIDE DEF Store, ProveCircuit
  <2> QED
    BY TargetJobItems, Zenon
<1>3. DOMAIN P = 1..Len(P)
  BY TargetJobOrder DEF WellOrdered
<1>b. P = ProgramOf(r)
  BY <1>1
<1> HIDE DEF P
<1>2. \A l \in 1..4 : P[l].op # "solidity"
  BY <1>a DEF ProveCircuit, Store
<1> QED
  BY <1>a, <1>b, <1>2, <1>3

\* Computing fails for a reason: the trace, or OPT_MEM.
LEMMA ComputeReason ==
  ASSUME JobInv, NEW w \in Workers, ComputeFails(w)
  PROVE  ~ Provable(JobOf(w)) \/ Forfeits(JobOf(w))
<1> DEFINE P == Program(w)
           n == worker[w].step
<1>1. /\ Running(w) /\ n \in DOMAIN P /\ P = ProgramOf(JobOf(w))
      /\ ItemFails(P[n], worker[w].keys, TraceOf(w))
  BY DEF ComputeFails, AtItem, Item, Program
<1>2. Admissible(JobOf(w))
  BY <1>1 DEF JobInv, DiskInv, ServerInv, JobsAdmitted, Running
<1>3. CASE Proves(P[n])
  <2>1. P[n].arg[1] \notin JobOf(w).trace.provable
    BY <1>1, <1>3 DEF ItemFails, Proves, TraceOf
  <2> QED
    BY <1>1, <1>3, <2>1 DEF Provable
<1>4. CASE ~ Proves(P[n])
  <2>1. P[n].op = "solidity"
    BY <1>1, <1>4 DEF ItemFails, Proves
  <2>2. ProofTypeOf(JobOf(w).type) = "agg"
    BY <1>1, <1>2, <2>1, ContractOfAgg
  <2>3. OptMem
    BY <1>1, <2>1, ContractKeys
  <2> QED
    BY <2>2, <2>3 DEF Forfeits
<1> QED
  BY <1>3, <1>4

LEMMA TakeService ==
  ASSUME JobInv, FailedServing, NEW w \in Workers, TakeAny(w)
  PROVE  Service!ServiceNext \/ UNCHANGED Service!serviceVars
<1>1. PICK i \in Calls : AnswerSpec(w, i) \/ Refuse(w, i) \/ StartJob(w, i)
  BY DEF TakeAny
<1>2. UNCHANGED <<request, faults, seedPc>> /\ worker[w].stage = "idle"
  BY <1>1 DEF AnswerSpec, Refuse, StartJob, Take, seedVars
<1>3. Unlucky' = Unlucky
  <2>1. worker \in [Workers -> WorkerType] /\ seedPc[w] # "failed"
    BY <1>2 DEF JobInv, DiskInv, ServerInv, TypeOK, WorkerType, FailedServing
  <2>2. \A v \in Workers \ {w} : worker'[v] = worker[v]
    BY <1>1, <2>1 DEF AnswerSpec, Refuse, StartJob
  <2> QED
    BY <1>2, <2>1, <2>2 DEF Unlucky
<1>4. CASE UNCHANGED answer
  BY <1>2, <1>3, <1>4 DEF Service!serviceVars
<1>5. CASE AnswerSpec(w, i) /\ ~ UNCHANGED answer
  <2>1. Service!AnswerSpec(i)
    BY <1>2, <1>3, <1>5, ResolveWaiting DEF AnswerSpec, Service!AnswerSpec, Service!Becomes
  <2> QED
    BY <2>1 DEF Service!ServiceNext
<1>6. CASE Refuse(w, i) /\ ~ UNCHANGED answer
  <2>1. Service!Refuse(i)
    BY <1>2, <1>3, <1>6, ResolveWaiting DEF Refuse, Service!Refuse, Service!Becomes
  <2> QED
    BY <2>1 DEF Service!ServiceNext
<1>7. CASE StartJob(w, i)
  BY <1>4, <1>7 DEF StartJob
<1> QED
  BY <1>1, <1>4, <1>5, <1>6, <1>7

LEMMA EndService ==
  ASSUME JobInv, FailedServing, NEW w \in Workers,
         \/ ParamsMissing(w) \/ SeedUnreadable(w) \/ HeightMissing(w)
         \/ ComputeFails(w) \/ AnswerProof(w) \/ StoreFails(w)
  PROVE  Service!ServiceNext \/ UNCHANGED Service!serviceVars
<1> DEFINE i == worker[w].call
<1>1. worker[w].stage # "idle"
  BY DEF ParamsMissing, SeedUnreadable, HeightMissing, ComputeFails, AnswerProof, StoreFails,
         AtItem, Running
<1>2. i \in Calls /\ Asks(request[i]) /\ Admissible(request[i])
  BY <1>1 DEF JobInv, DiskInv, ServerInv, JobsAdmitted, JobOf
<1>3. Unlucky' \subseteq Unlucky /\ UNCHANGED request
  <2>1. PICK to : EndJob(w, to)
    BY DEF ParamsMissing, SeedUnreadable, HeightMissing, ComputeFails, AnswerProof,
           StoreFails, Panic
  <2>2. \A v \in Workers : seedPc'[v] = "failed" =>
          seedPc[v] = "failed" /\ worker'[v] = worker[v]
    BY <2>1, EndJobSeed DEF JobInv, DiskInv
  <2> QED
    BY <2>1, <2>2 DEF Unlucky, EndJob
<1>4. CASE AnswerProof(w)
  <2>1. UNCHANGED faults /\ Resolve(i, "proof") /\ Running(w) /\ ~ AtItem(w)
    BY <1>4 DEF AnswerProof, EndJob
  <2>2. Provable(request[i])
    BY <2>1, ProgramOver DEF JobOf
  <2>3. \/ Service!Forget
        \/ Service!AnswerProof(i)
    BY <1>2, <1>3, <2>1, <2>2, ResolveWaiting
       DEF Service!AnswerProof, Service!Becomes, Service!Forget
  <2> QED
    BY <1>2, <2>3 DEF Service!ServiceNext
<1>5. CASE ParamsMissing(w) \/ SeedUnreadable(w) \/ HeightMissing(w) \/ ComputeFails(w)
  <2>1. UNCHANGED faults /\ Resolve(i, "dropped")
    BY <1>5 DEF ParamsMissing, SeedUnreadable, HeightMissing, ComputeFails, Panic, EndJob
  <2>2. \/ ~ Provable(request[i]) \/ Forfeits(request[i])
        \/ ~ (params = Degrees)
        \/ i \in Unlucky
    <3>1. CASE ParamsMissing(w)
      BY <3>1 DEF ParamsMissing
    <3>2. CASE SeedUnreadable(w)
      BY <3>2 DEF SeedUnreadable, Unlucky
    <3>3. CASE HeightMissing(w)
      BY <3>3 DEF HeightMissing, Provable, TraceOf, JobOf
    <3>4. CASE ComputeFails(w)
      BY <3>4, ComputeReason DEF JobOf
    <3> QED
      BY <1>5, <3>1, <3>2, <3>3, <3>4
  <2>3. Service!Forget \/ Service!Drop(i)
    BY <1>2, <1>3, <2>1, <2>2, ResolveWaiting
       DEF Service!Drop, Service!Becomes, Service!Forget
  <2> QED
    BY <1>2, <2>3 DEF Service!ServiceNext
<1>6. CASE StoreFails(w)
  <2>1. faults' = faults + 1 /\ Resolve(i, "dropped")
    BY <1>6 DEF StoreFails, EndJob
  <2>2. answer \in [Calls -> Service!Answers] /\ answer' \in [Calls -> Service!Answers]
    BY <1>2, <2>1, ResolveTypes
       DEF JobInv, DiskInv, ServerInv, TypeOK, Service!Answers
  <2>3. \A j \in Calls :
          answer'[j] = answer[j] \/ (answer[j] = "waiting" /\ answer'[j] = "dropped")
    BY <1>2, <2>1, <2>2, ResolveWaiting
  <2> QED
    BY <1>3, <2>1, <2>2, <2>3 DEF Service!ServiceNext, Service!Fail
<1> QED
  BY <1>4, <1>5, <1>6

LEMMA SeedService ==
  ASSUME JobInv, CallsApart, NEW w \in Workers, LoadOrCreateSeed(w)
  PROVE  Service!ServiceNext \/ UNCHANGED Service!serviceVars
<1> DEFINE i == worker[w].call
<1>1. UNCHANGED <<request, answer, faults, worker>> /\ worker[w].stage = "seed"
  BY DEF LoadOrCreateSeed, callVars
<1>2. i \in Calls /\ answer[i] # "unsent"
  BY <1>1 DEF JobInv, DiskInv, ServerInv, JobsAdmitted, CallsApart, Busy
<1>3. /\ \A v \in Workers \ {w} : seedPc'[v] = seedPc[v]
      /\ \/ seedPc'[w] # "failed" /\ seedPc[w] # "failed"
         \/ seedPc'[w] = "failed" /\ seedFile \notin Seed!Seeds
  BY SeedStepOf DEF LoadOrCreateSeed, JobInv, DiskInv
<1>4. CASE seedPc'[w] # "failed" /\ seedPc[w] # "failed"
  <2>1. Unlucky' = Unlucky
    BY <1>1, <1>3, <1>4 DEF Unlucky
  <2> QED
    BY <1>1, <2>1 DEF Service!serviceVars
<1>5. CASE seedPc'[w] = "failed" /\ seedFile \notin Seed!Seeds
  <2>1. Unlucky' = Unlucky \cup {i}
    BY <1>1, <1>3, <1>5 DEF Unlucky
  <2>2. Service!MeetNoSeed(i)
    BY <1>1, <1>2, <1>5, <2>1 DEF Service!MeetNoSeed
  <2> QED
    BY <1>2, <2>2 DEF Service!ServiceNext
<1> QED
  BY <1>3, <1>4, <1>5

\* The other steps of a thread show nothing.
LEMMA QuietService ==
  ASSUME JobInv, NEW w \in Workers,
         LoadParams(w) \/ BuildProver(w) \/ Compute(w) \/ OpenFile(w) \/ WriteFile(w)
  PROVE  UNCHANGED Service!serviceVars
<1>1. UNCHANGED <<request, answer, faults, seedPc>>
  BY DEF LoadParams, BuildProver, Compute, OpenFile, WriteFile, callVars, seedVars
<1>2. \A v \in Workers : worker'[v].call = worker[v].call
  <2> SUFFICES ASSUME NEW v \in Workers
               PROVE  worker'[v].call = worker[v].call
    OBVIOUS
  <2>1. worker \in [Workers -> WorkerType] /\ worker[v] \in WorkerType
    BY DEF JobInv, DiskInv, ServerInv, TypeOK, WorkerType
  <2>2. CASE BuildProver(w)
    <3>1. \E alone :
            \/ worker'[v] = [worker[v] EXCEPT !.stage = "run", !.alone = alone]
            \/ worker'[v] = [worker[v] EXCEPT !.alone = FALSE]
            \/ worker'[v] = worker[v]
      BY <2>2 DEF BuildProver
    <3> QED
      BY <2>1, <3>1 DEF WorkerType
  <2>3. CASE ~ BuildProver(w)
    BY <2>1, <2>3 DEF LoadParams, Compute, OpenFile, WriteFile, WorkerType
  <2> QED
    BY <2>2, <2>3
<1>3. Unlucky' = Unlucky
  BY <1>1, <1>2 DEF Unlucky
<1> QED
  BY <1>1, <1>3 DEF Service!serviceVars

LEMMA CallersService ==
  ASSUME JobInv, \/ \E i \in Calls : Send(i) \/ GiveUp(i)
                 \/ Crash
  PROVE  Service!ServiceNext
<1>1. ASSUME NEW i \in Calls, Send(i) \/ GiveUp(i)
      PROVE  Service!ServiceNext
  <2>1. Unlucky' = Unlucky
    BY <1>1 DEF Send, GiveUp, seedVars, Unlucky
  <2>2. Service!Send(i) \/ Service!GiveUp(i)
    BY <1>1, <2>1 DEF Send, GiveUp, Service!Send, Service!GiveUp, Service!Becomes
  <2> QED
    BY <2>2 DEF Service!ServiceNext
<1>2. CASE Crash
  <2>1. answer \in [Calls -> Service!Answers]
    BY DEF JobInv, DiskInv, ServerInv, TypeOK
  <2>2. answer' = [i \in Calls |-> IF answer[i] = "waiting" THEN "dropped" ELSE answer[i]]
    BY <1>2 DEF Crash
  <2>3. answer' \in [Calls -> Service!Answers]
    BY <2>1, <2>2 DEF Service!Answers
  <2>4. Unlucky' \subseteq Unlucky
    BY <1>2 DEF Crash, Seed!SeedAbandon, Unlucky
  <2>5. Service!Fail
    BY <1>2, <2>2, <2>3, <2>4 DEF Crash, Service!Fail
  <2> QED
    BY <2>5 DEF Service!ServiceNext
<1> QED
  BY <1>1, <1>2

LEMMA ServiceSteps ==
  JobInv /\ CallsApart /\ FailedServing /\ [Next]_vars =>
    [Service!ServiceNext]_(Service!serviceVars)
<1> SUFFICES ASSUME JobInv, CallsApart, FailedServing, [Next]_vars
             PROVE  Service!ServiceNext \/ UNCHANGED Service!serviceVars
  OBVIOUS
<1>1. ASSUME NEW w \in Workers, WorkerStep(w) \/ StoreFails(w)
      PROVE  Service!ServiceNext \/ UNCHANGED Service!serviceVars
  BY <1>1, TakeService, EndService, SeedService, QuietService DEF WorkerStep
<1>2. CASE (\E i \in Calls : Send(i) \/ GiveUp(i)) \/ Crash
  BY <1>2, CallersService
<1>3. CASE (\E d \in Degrees : ProvideParams(d)) \/ AllServed \/ UNCHANGED vars
  BY <1>3 DEF ProvideParams, AllServed, vars, callVars, seedVars, Unlucky, Service!serviceVars
<1> QED
  BY <1>1, <1>2, <1>3 DEF Next

-----------------------------------------------------------------------------
(* The theorems.                                                           *)

(***************************************************************************)
(* Of whatever is proved at the same time and whatever fails, a file under *)
(* ./out_proof/<height>/ only ever holds bytes of admitted traces of that  *)
(* height, proved by the circuit the file is of.                           *)
(***************************************************************************)
THEOREM OnlyProvedOnDiskHolds == Spec => []OnlyProvedOnDisk
<1>1. JobInv => OnlyProvedOnDisk
  BY DEF JobInv
<1> QED
  BY <1>1, JobInvariant, PTL

(***************************************************************************)
(* A job with no fork of its block beside it finds on disk what it stored, *)
(* whole and its own, or about to be written once more with the same bytes *)
(* by a thread that retries the same trace.                                *)
(***************************************************************************)
THEOREM AloneIsCoherentHolds == Spec => []AloneIsCoherent
<1>1. JobInv => AloneIsCoherent
  <2> SUFFICES ASSUME JobInv, NEW w \in Workers, Running(w), worker[w].alone,
                      NEW k \in StoredSoFar(w)
               PROVE  LET slot == SlotOf(w, Program(w)[k])
                          own == {BytesOf(w, Program(w)[k])}
                      IN  /\ slot \in DOMAIN disk
                          /\ disk[slot] \in {own, {}}
                          /\ disk[slot] = {} =>
                               faults > 0 \/ \E v \in Workers \ {w} : Opened(v, slot)
    BY DEF AloneIsCoherent
  <2>1. k \in DOMAIN Program(w) /\ k < worker[w].step /\ Stores(Program(w)[k])
    BY DEF StoredSoFar
  <2>2. BytesOf(w, Program(w)[k]) = OwnBytes(w, Program(w)[k])
    <3>1. seedOf[w] = Origin
      BY DEF JobInv, DiskInv, ServerInv, RunsSeeded, SeedsAgree
    <3> QED
      BY <3>1 DEF BytesOf, OwnBytes
  <2>3. /\ SlotOf(w, Program(w)[k]) \in DOMAIN disk
        /\ disk[SlotOf(w, Program(w)[k])] \in {{OwnBytes(w, Program(w)[k])}, {}}
    BY <2>1 DEF JobInv, StoredAlone, Touched
  <2>4. ASSUME disk[SlotOf(w, Program(w)[k])] = {}, ~ faults > 0
        PROVE  \E v \in Workers \ {w} : Opened(v, SlotOf(w, Program(w)[k]))
    <3>1. PICK v \in Workers : Opened(v, SlotOf(w, Program(w)[k]))
      BY <2>3, <2>4 DEF JobInv, DiskInv, TornOnlyInFlight
    <3>2. ASSUME v = w
          PROVE  FALSE
      <4>1. AtItem(w) /\ Stores(Item(w)) /\ SlotOf(w, Program(w)[k]) = SlotOf(w, Item(w))
        BY <3>1, <3>2 DEF Opened, JobInv, DiskInv, OpenFilesExist
      <4>2. Program(w)[k].arg = Item(w).arg
        BY <4>1 DEF SlotOf
      <4>3. k = worker[w].step
        BY <2>1, <4>1, <4>2, RunningOrder DEF WellOrdered, Item, AtItem, JobInv, DiskInv
      <4>4. worker[w].step \in Nat
        BY DEF JobInv, DiskInv, ServerInv, TypeOK
      <4> QED
        BY <2>1, <4>3, <4>4
    <3> QED
      BY <3>1, <3>2
  <2> QED
    BY <2>2, <2>3, <2>4
<1> QED
  BY <1>1, JobInvariant, PTL

(***************************************************************************)
(* The safety part of ServicePromise: threads, queues, files and keys make *)
(* no step that ProveService does not allow, so no caller is given a proof *)
(* of a trace that was not admitted or cannot be proved, or a refusal      *)
(* without a reason; and a call is dropped only when its trace cannot be   *)
(* proved, OPT_MEM forbids its contract, a parameter file is missing, the  *)
(* seed file was not whole when it was read for the call, or the server or *)
(* the disk fails.                                                         *)
(***************************************************************************)
THEOREM ServiceSafetyHolds ==
  Spec => Service!ServiceInit /\ [][Service!ServiceNext]_(Service!serviceVars)
<1>1. Init => Service!ServiceInit
  BY DEF Init, Service!ServiceInit, Seed!SeedInit, Unlucky
<1> QED
  BY <1>1, ServiceSteps, ServingInvariant, PTL DEF Spec

(***************************************************************************)
(* Unless OPT_MEM releases keys, a job that has computed its last proof is *)
(* answered with it: only a crash or a disk failure drops its call.        *)
(***************************************************************************)
THEOREM ComputedProofReturnedHolds ==
  ASSUME ~ OptMem
  PROVE  Spec => ComputedProofReturned
<1> DEFINE Returned ==
      \A w \in Workers :
        Running(w) /\ LastProof(w) < worker[w].step =>
          LET i == worker[w].call
          IN  answer'[i] = "dropped" => answer[i] = "dropped" \/ faults' > faults
<1>1. ASSUME JobInv, CallsApart, [Next]_vars
      PROVE  Returned \/ UNCHANGED vars
  <2> SUFFICES ASSUME ~ UNCHANGED vars, NEW w \in Workers,
                      Running(w), LastProof(w) < worker[w].step,
                      answer'[worker[w].call] = "dropped", answer[worker[w].call] # "dropped"
               PROVE  faults' > faults
    OBVIOUS
  <2>0. /\ faults \in Nat /\ worker[w].call \in Calls
        /\ answer \in [Calls -> Service!Answers]
    BY <1>1, ServerAssumption DEF JobInv, DiskInv, ServerInv, TypeOK, JobsAdmitted, Running
  <2>1. ASSUME NEW v \in Workers, WorkerStep(v)
        PROVE  FALSE
    BY <1>1, <2>1, DroppedBy, PastLastProof
  <2>2. CASE Crash \/ \E v \in Workers : StoreFails(v)
    <3>1. faults' = faults + 1
      BY <2>2 DEF Crash, StoreFails
    <3> QED
      BY <2>0, <3>1
  <2>3. ASSUME NEW i \in Calls, Send(i) \/ GiveUp(i)
        PROVE  FALSE
    BY <2>0, <2>3 DEF Send, GiveUp
  <2>4. ASSUME (\E d \in Degrees : ProvideParams(d)) \/ AllServed
        PROVE  FALSE
    BY <2>4 DEF ProvideParams, AllServed, callVars
  <2> QED
    BY <1>1, <2>1, <2>2, <2>3, <2>4 DEF Next
<1>2. JobInv /\ CallsApart /\ [Next]_vars => [Returned]_vars
  BY <1>1
<1>3. ComputedProofReturned <=> [][Returned]_vars
  BY DEF ComputedProofReturned
<1> QED
  BY <1>2, <1>3, CallsInvariant, PTL DEF Spec
=============================================================================
