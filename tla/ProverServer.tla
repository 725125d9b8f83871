---------------------------- MODULE ProverServer ----------------------------
(***************************************************************************)
(* The JSON-RPC prover server (prover-server/src): the worker threads of   *)
(* ServerBuilder::threads(3), the prove handler with its checks, and       *)
(* create_proof, which loads the KZG parameters, agrees on a seed through  *)
(* the unlocked seed file (SeedFile), prepares ./out_proof/<height>/, runs *)
(* the program of the requested proof (Prover) and answers.  Threads share *)
(* nothing but the disk, and all of them write under the same names there. *)
(***************************************************************************)
EXTENDS Prover, Integers

CONSTANTS
  ParamsAtStart,  \* which parameter files may be in place at the start
  Workers,    \* threads of the server
  Calls,      \* calls made in a behaviour; a retry is another call
  Requests,   \* what a call may ask: a subset of RequestType
  Traces,     \* the block traces requests carry: a subset of TraceType
  ChainId,    \* CHAIN_ID
  MaxTxs,     \* MAX_TXS
  MaxFaults   \* bound of the model: crashes and disk failures

(***************************************************************************)
(* What the handler and the prover can tell of a trace.  "name" tells      *)
(* traces of one height apart (forks).  "parses" is false of a string that *)
(* is no JSON block trace, as one whose chainID is no u64 is (u64_to_word), *)
(* "height" is NoHeight when header.number is null, and "provable" has the *)
(* circuits that can prove the trace.                                      *)
(***************************************************************************)
NoHeight == -1

TraceType == [name : STRING, parses : BOOLEAN, txs : Nat, chain : Nat,
              height : Nat \cup {NoHeight}, provable : SUBSET Keys]

SpecRequest == [method |-> "spec"]
ProveRequests == [method : {"prove"}, type : Int, trace : Traces]

Degrees == {"DEGREE", "AGG_DEGREE"}

ASSUME ServerAssumption ==
  /\ Traces \subseteq TraceType
  /\ Requests \subseteq ProveRequests \cup {SpecRequest}
  /\ ParamsAtStart \subseteq SUBSET Degrees
  /\ ChainId \in Nat /\ MaxTxs \in Nat /\ MaxFaults \in Nat

VARIABLES
  request,    \* what each call asks
  answer,     \* what each call has got so far
  inbox,      \* calls that wait for a thread
  worker,     \* what each thread is doing
  disk,       \* files that exist under ./out_proof, and what is in them
  params,     \* the files params<DEGREE>, params<AGG_DEGREE> that are in place
  faults,     \* crashes and disk failures so far
  seedFile, seedPc, seedOf  \* those of SeedFile

callVars == <<request, answer, inbox>>
seedVars == <<seedFile, seedPc, seedOf>>
vars == <<callVars, worker, disk, params, faults, seedVars>>

Seed == INSTANCE SeedFile WITH Callers <- Workers

NoCall == "none"
Stages == {"idle", "params", "seed", "run"}

\* "open" is the state of the file the current item stores: created, and so
\* empty, but not written yet.  "alone" is a history variable: no thread has
\* run at the same time for another trace of the same height.
Idle == [stage |-> "idle", call |-> NoCall, step |-> 1, open |-> FALSE,
         keys |-> {}, alone |-> TRUE]

-----------------------------------------------------------------------------
\* ProofType::from_value.
ProofTypes == <<"evm", "state", "super", "agg">>
ProofTypeOf(value) ==
  IF value \in DOMAIN ProofTypes THEN ProofTypes[value] ELSE "none"

Asks(r) == r.method = "prove"

\* The checks of the prove handler; each refuses with invalid_params.
Admissible(r) ==
  /\ ProofTypeOf(r.type) # "none"
  /\ r.trace.parses
  /\ r.trace.txs <= MaxTxs
  /\ r.trace.chain = ChainId

\* create_target_proof and create_agg_proof: what the prover does, and what
\* the server stores afterwards.
AggJob == AggProgram \o WriteAggProof \o WriteSolidity

TargetJob == [c \in Circuits |-> TargetProgram(c) \o <<Store(<<c, "proof">>)>>]

ProgramOf(r) ==
  LET type == ProofTypeOf(r.type)
  IN  IF type = "agg" THEN AggJob ELSE TargetJob[type]

Provable(r) ==
  /\ r.trace.height # NoHeight
  /\ \A k \in DOMAIN ProgramOf(r) :
       Proves(ProgramOf(r)[k]) => ProgramOf(r)[k].arg[1] \in r.trace.provable

\* Under OPT_MEM the contract of an aggregation cannot be made.
Forfeits(r) == OptMem /\ ProofTypeOf(r.type) = "agg"

Heights == {t.height : t \in Traces} \ {NoHeight}
Slots == Heights \X Files

\* The job of a busy thread.
JobOf(w) == request[worker[w].call]
TraceOf(w) == JobOf(w).trace
Program(w) == ProgramOf(JobOf(w))
Running(w) == worker[w].stage = "run"
AtItem(w) == Running(w) /\ worker[w].step \in DOMAIN Program(w)
Item(w) == Program(w)[worker[w].step]
SlotOf(w, item) == <<TraceOf(w).height, item.arg>>
BytesOf(w, item) == FileBytes(item.arg, TraceOf(w), seedOf[w])

Opened(w, slot) ==
  AtItem(w) /\ worker[w].open /\ slot = SlotOf(w, Item(w))

\* Two threads write the files of one height for different traces.
Rivals(v, w) ==
  /\ Running(v)
  /\ TraceOf(v).height = TraceOf(w).height /\ TraceOf(v) # TraceOf(w)

Init ==
  /\ request \in [Calls -> Requests]
  /\ answer = [i \in Calls |-> "unsent"]
  /\ inbox = {}
  /\ worker = [w \in Workers |-> Idle]
  /\ disk = <<>>
  /\ params \in ParamsAtStart
  /\ faults = 0
  /\ Seed!SeedInit
-----------------------------------------------------------------------------
(* Callers.                                                                *)

\* The call ends as "to", unless the caller has given up on it.
Resolve(i, to) ==
  answer' = IF answer[i] = "waiting" THEN [answer EXCEPT ![i] = to] ELSE answer

Send(i) ==
  /\ answer[i] = "unsent"
  /\ answer' = [answer EXCEPT ![i] = "waiting"]
  /\ inbox' = inbox \cup {i}
  /\ UNCHANGED <<request, worker, disk, params, faults, seedVars>>

\* Mutant: the caller's hanging up cancels the thread that works for it.
GiveUp_Cancels(i) ==
  /\ answer[i] = "waiting"
  /\ answer' = [answer EXCEPT ![i] = "timeout"]
  /\ inbox' \in {inbox, inbox \ {i}}
  /\ worker' = [w \in Workers |-> IF worker[w].call = i THEN Idle ELSE worker[w]]
  /\ Seed!SeedAbandon({w \in Workers : worker[w].call = i})
  /\ UNCHANGED <<request, disk, params, faults>>

\* CLIENT_TIMEOUT_SEC: the caller stops waiting.  A thread that works on the
\* call goes on; a call still queued may or may not reach a thread later.
GiveUp(i) ==
  /\ answer[i] = "waiting"
  /\ answer' = [answer EXCEPT ![i] = "timeout"]
  /\ inbox' \in {inbox, inbox \ {i}}
  /\ UNCHANGED <<request, worker, disk, params, faults, seedVars>>

-----------------------------------------------------------------------------
(* A thread takes a call: the checks of the handler.                       *)

Take(w, i) ==
  /\ worker[w].stage = "idle"
  /\ i \in inbox
  /\ inbox' = inbox \ {i}
  /\ UNCHANGED <<request, disk, params, faults, seedVars>>

AnswerSpec(w, i) ==
  /\ ~ Asks(request[i])
  /\ Take(w, i)
  /\ Resolve(i, "spec")
  /\ UNCHANGED worker

Refuse(w, i) ==
  /\ Asks(request[i])
  /\ ~ Admissible(request[i])
  /\ Take(w, i)
  /\ Resolve(i, "refused")
  /\ UNCHANGED worker

\* Mutant: a job starts without the checks.
StartJob_Unchecked(w, i) ==
  /\ Asks(request[i])
  /\ Take(w, i)
  /\ worker' = [worker EXCEPT ![w].stage = "params", ![w].call = i]
  /\ UNCHANGED answer

StartJob(w, i) ==
  /\ Asks(request[i]) /\ Admissible(request[i])
  /\ Take(w, i)
  /\ worker' = [worker EXCEPT ![w].stage = "params", ![w].call = i]
  /\ UNCHANGED answer

-----------------------------------------------------------------------------
(* create_proof.                                                           *)

\* The job is over: the thread is free and the Prover value is dropped.
EndJob(w, to) ==
  /\ Resolve(worker[w].call, to)
  /\ worker' = [worker EXCEPT ![w] = Idle]
  /\ Seed!SeedAbandon({w})
  /\ UNCHANGED <<request, inbox, params>>

\* A panic unwinds the handler: its connection closes without an answer.
Panic(w) == EndJob(w, "dropped") /\ UNCHANGED <<disk, faults>>

LoadParams(w) ==
  /\ worker[w].stage = "params"
  /\ params = Degrees
  /\ worker' = [worker EXCEPT ![w].stage = "seed"]
  /\ UNCHANGED <<callVars, disk, params, faults, seedVars>>

\* load_kzg_params panics when either file is missing, whatever is asked.
ParamsMissing(w) ==
  /\ worker[w].stage = "params"
  /\ params # Degrees
  /\ Panic(w)

LoadOrCreateSeed(w) ==
  /\ worker[w].stage = "seed"
  /\ Seed!SeedStep(w)
  /\ UNCHANGED <<callVars, worker, disk, params, faults>>

SeedUnreadable(w) ==
  /\ worker[w].stage = "seed"
  /\ seedPc[w] = "failed"
  /\ Panic(w)

\* header.number.unwrap().
HeightMissing(w) ==
  /\ worker[w].stage = "seed"
  /\ seedPc[w] = "ok"
  /\ TraceOf(w).height = NoHeight
  /\ Panic(w)

\* create_dir_all (an error is ignored), Prover::from_params_and_rng.
BuildProver(w) ==
  LET rivals == {v \in Workers \ {w} : Rivals(v, w)}
  IN  /\ worker[w].stage = "seed"
      /\ seedPc[w] = "ok"
      /\ TraceOf(w).height # NoHeight
      /\ worker' = [v \in Workers |->
           CASE v = w -> [worker[w] EXCEPT !.stage = "run", !.alone = rivals = {}]
             [] v \in rivals -> [worker[v] EXCEPT !.alone = FALSE]
             [] OTHER -> worker[v]]
      /\ UNCHANGED <<callVars, disk, params, faults, seedVars>>

-----------------------------------------------------------------------------
(* The program of the job.                                                 *)

\* Proving, converting, making the verifier: changes the keys only.
Compute(w) ==
  /\ AtItem(w) /\ ~ Stores(Item(w))
  /\ ~ ItemFails(Item(w), worker[w].keys, TraceOf(w))
  /\ worker' = [worker EXCEPT ![w].step = @ + 1,
                              ![w].keys = KeysAfter(Item(w), @)]
  /\ UNCHANGED <<callVars, disk, params, faults, seedVars>>

ComputeFails(w) ==
  /\ AtItem(w) /\ ~ Stores(Item(w))
  /\ ItemFails(Item(w), worker[w].keys, TraceOf(w))
  /\ Panic(w)

Put(slot, bytes) ==
  disk' = [s \in DOMAIN disk \cup {slot} |-> IF s = slot THEN bytes ELSE disk[s]]

\* Mutant: the file is opened without truncation and its end is kept.
OpenFile_Kept(w) ==
  LET slot == SlotOf(w, Item(w))
  IN  /\ AtItem(w) /\ Stores(Item(w)) /\ ~ worker[w].open
      /\ Put(slot, IF slot \in DOMAIN disk THEN disk[slot] ELSE {})
      /\ worker' = [worker EXCEPT ![w].open = TRUE]
      /\ UNCHANGED <<callVars, params, faults, seedVars>>

\* File::create makes or truncates the file ...
OpenFile(w) ==
  /\ AtItem(w) /\ Stores(Item(w)) /\ ~ worker[w].open
  /\ Put(SlotOf(w, Item(w)), {})
  /\ worker' = [worker EXCEPT ![w].open = TRUE]
  /\ UNCHANGED <<callVars, params, faults, seedVars>>

\* ... and the writes follow.  Bytes that another thread has put there since
\* the file was truncated are written over, or stay in part.
WriteFile(w) ==
  LET slot == SlotOf(w, Item(w))
      own == {BytesOf(w, Item(w))}
  IN  /\ AtItem(w) /\ Stores(Item(w)) /\ worker[w].open
      /\ \E bytes \in {own, own \cup disk[slot]} : Put(slot, bytes)
      /\ worker' = [worker EXCEPT ![w].step = @ + 1, ![w].open = FALSE]
      /\ UNCHANGED <<callVars, params, faults, seedVars>>

\* Creating or writing the file fails (the disk is full, the directory could
\* not be made): unwrap panics and the file stays as it is.
StoreFails(w) ==
  /\ faults < MaxFaults
  /\ AtItem(w) /\ Stores(Item(w))
  /\ EndJob(w, "dropped")
  /\ faults' = faults + 1
  /\ UNCHANGED disk

\* Mutant: the answer does not wait for the last file.
AnswerProof_Early(w) ==
  /\ Running(w) /\ worker[w].step >= Len(Program(w))
  /\ EndJob(w, "proof")
  /\ UNCHANGED <<disk, faults>>

AnswerProof(w) ==
  /\ Running(w) /\ ~ AtItem(w)
  /\ EndJob(w, "proof")
  /\ UNCHANGED <<disk, faults>>

-----------------------------------------------------------------------------
(* The process and its surroundings.                                       *)

\* The process dies and is started again.  Queued calls go with it.
Crash ==
  /\ faults < MaxFaults
  /\ faults' = faults + 1
  /\ answer' = [i \in Calls |->
       IF answer[i] = "waiting" THEN "dropped" ELSE answer[i]]
  /\ inbox' = {}
  /\ worker' = [w \in Workers |-> Idle]
  /\ Seed!SeedAbandon(Workers)
  /\ UNCHANGED <<request, disk, params>>

\* The parameter files are made or fetched by other programs.
ProvideParams(d) ==
  /\ d \notin params
  /\ params' = params \cup {d}
  /\ UNCHANGED <<callVars, worker, disk, faults, seedVars>>

\* All calls of the model are over: the server waits for more.
AllServed ==
  /\ \A i \in Calls : answer[i] \notin {"unsent", "waiting"}
  /\ inbox = {} /\ \A w \in Workers : worker[w].stage = "idle"
  /\ UNCHANGED vars

-----------------------------------------------------------------------------
TakeAny(w) ==
  \E i \in Calls : AnswerSpec(w, i) \/ Refuse(w, i) \/ StartJob(w, i)

WorkerStep(w) ==
  \/ TakeAny(w)
  \/ LoadParams(w) \/ ParamsMissing(w)
  \/ LoadOrCreateSeed(w) \/ SeedUnreadable(w) \/ HeightMissing(w)
  \/ BuildProver(w) \/ Compute(w) \/ ComputeFails(w)
  \/ OpenFile(w) \/ WriteFile(w) \/ AnswerProof(w)

Next ==
  \/ \E w \in Workers : WorkerStep(w) \/ StoreFails(w)
  \/ \E i \in Calls : Send(i) \/ GiveUp(i)
  \/ \E d \in Degrees : ProvideParams(d)
  \/ Crash \/ AllServed

\* Each thread runs on: a prover never waits for another.
Spec == Init /\ [][Next]_vars /\ \A w \in Workers : WF_vars(WorkerStep(w))

-----------------------------------------------------------------------------
\* The promise of the server, with the requests and answers as they are here.
\* A call is unlucky from the moment its thread fails to read the seed.
Unlucky == {worker[w].call : w \in {v \in Workers : seedPc[v] = "failed"}}

Service == INSTANCE ProveService WITH
  paramsReady <- params = Degrees,
  seedReady <- seedFile \in Seed!Seeds,
  unlucky <- Unlucky

TypeOK ==
  /\ request \in [Calls -> Requests]
  /\ answer \in [Calls -> Service!Answers]
  /\ inbox \subseteq Calls
  /\ worker \in [Workers ->
       [stage : Stages, call : Calls \cup {NoCall}, step : Nat \ {0},
        open : BOOLEAN, keys : SUBSET Keys, alone : BOOLEAN]]
  /\ DOMAIN disk \subseteq Slots
  /\ params \subseteq Degrees
  /\ faults \in 0..MaxFaults
  /\ Seed!SeedTypeOK

(***************************************************************************)
(* A file is left empty under its final name only while a thread is about  *)
(* to write it, or by a crash or a disk failure: no error path of a job    *)
(* panics between File::create and the write.                              *)
(***************************************************************************)
TornOnlyInFlight ==
  \A slot \in DOMAIN disk :
    disk[slot] = {} => faults > 0 \/ \E w \in Workers : Opened(w, slot)

(***************************************************************************)
(* While no thread works on a fork of its block, what a job has stored so  *)
(* far under ./out_proof/<height>/ is there and is its own, all of it, up  *)
(* to the moment it answers, though retries of the same trace rewrite the  *)
(* same files meanwhile: a file is whole, or being written once more with  *)
(* the same bytes.                                                         *)
(***************************************************************************)
StoredSoFar(w) ==
  {k \in DOMAIN Program(w) : k < worker[w].step /\ Stores(Program(w)[k])}

AloneIsCoherent ==
  \A w \in Workers : Running(w) /\ worker[w].alone =>
    \A k \in StoredSoFar(w) :
      LET slot == SlotOf(w, Program(w)[k])
          own == {BytesOf(w, Program(w)[k])}
      IN  /\ slot \in DOMAIN disk
          /\ disk[slot] \in {own, {}}
          /\ disk[slot] = {} =>
               faults > 0 \/ \E v \in Workers \ {w} : Opened(v, slot)

(***************************************************************************)
(* All proofs on disk were made with one seed, that of the seed file:      *)
(* threads that race to create it, a crash between File::create and the    *)
(* write, and an operator's own file do not make two of them.              *)
(***************************************************************************)
TraceBytes == {b \in UNION {disk[s] : s \in DOMAIN disk} : b.of = "trace"}

OneSeedOnDisk ==
  \A b \in TraceBytes :
    /\ \A c \in TraceBytes : c.seed = b.seed
    /\ seedFile \in Seed!Seeds => b.seed = seedFile

(***************************************************************************)
(* Only traces that passed the checks of the handler leave bytes on disk,  *)
(* in the directory of their own height and only in files of a circuit     *)
(* that proved them: nothing is stored ahead of the proof it belongs to.   *)
(***************************************************************************)
OnlyProvedOnDisk ==
  \A slot \in DOMAIN disk : \A b \in disk[slot] : b.of = "trace" =>
    /\ b.trace.height = slot[1]
    /\ slot[2][1] \in b.trace.provable
    /\ \E i \in Calls : Asks(request[i]) /\ Admissible(request[i])
                       /\ request[i].trace = b.trace

(***************************************************************************)
(* What the comment on prove says: it returns the proof generated with the *)
(* trace.  Once a job has computed its last proof, its caller gets it,     *)
(* unless it gives up or the server or the disk fails.                     *)
(***************************************************************************)
LastProof(w) ==
  CHOOSE k \in DOMAIN Program(w) :
    /\ Proves(Program(w)[k])
    /\ \A l \in DOMAIN Program(w) : Proves(Program(w)[l]) => l <= k

ComputedProofReturned ==
  [][\A w \in Workers :
       Running(w) /\ LastProof(w) < worker[w].step =>
         LET i == worker[w].call
         IN  answer'[i] = "dropped" => answer[i] = "dropped" \/ faults' > faults]_vars

(***************************************************************************)
(* The server, threads, files and keys, keeps the promise of ProveService: *)
(* proofs and refusals come only to those requests they are for, every     *)
(* dropped connection has a reason, whatever other calls are served at the *)
(* same time, and every call is answered.                                  *)
(***************************************************************************)
ServicePromise == Service!ServiceSpec

(***************************************************************************)
(* Work outlives the wait for it: a job that reached the prover with a     *)
(* trace it can prove has at some later time all its files on disk, also   *)
(* when the caller gave up, unless the server or the disk fails first.     *)
(***************************************************************************)
AllStored(i) ==
  LET r == request[i]
  IN  /\ Asks(r) /\ Admissible(r)
      /\ \A k \in DOMAIN ProgramOf(r) :
           LET item == ProgramOf(r)[k]
               slot == <<r.trace.height, item.arg>>
           IN  Stores(item) => slot \in DOMAIN disk /\ disk[slot] # {}

WorkSurvives ==
  \A i \in Calls :
    (\E w \in Workers : Running(w) /\ worker[w].call = i /\ Provable(request[i]))
      ~> (AllStored(i) \/ faults > 0)
=============================================================================
