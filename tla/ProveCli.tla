------------------------------ MODULE ProveCli ------------------------------
(***************************************************************************)
(* The prove binary (bin/src/prove.rs).  One run loads the parameters and  *)
(* the seed, reads every trace of a directory into a HashMap, and takes    *)
(* the traces one by one, in no order, through one Prover value: its keys  *)
(* are kept from trace to trace, its debug_dir is set for each.  Any error *)
(* is a panic that ends the run.  A run that was killed or failed leaves   *)
(* its files behind, and the same command may be run again over them.      *)
(***************************************************************************)
EXTENDS Prover, Naturals

CONSTANTS
  Commands,      \* what a command may ask for: options and trace files
  ParamsAtStart, \* which parameter files may be in place
  MaxTxs,        \* MAX_TXS
  MaxFaults      \* bound of the model: kills and disk failures

Degrees == {"DEGREE", "AGG_DEGREE"}

(***************************************************************************)
(* --evm, --state and --agg: absent, "false" (make the proof) or "true"    *)
(* (make it and output it).  Of a trace file, "name" is the file stem, and *)
(* so the name of the output directory.                                    *)
(***************************************************************************)
Options == {"absent", "false", "true"}

TraceType == [name : STRING, parses : BOOLEAN, txs : Nat, provable : SUBSET Keys]

CommandType ==
  [evm : Options, state : Options, agg : Options, traces : SUBSET TraceType]

ASSUME CliAssumption ==
  /\ Commands \subseteq CommandType
  /\ \A c \in Commands : \A s, t \in c.traces : s.name = t.name => s = t
  /\ ParamsAtStart \subseteq SUBSET Degrees
  /\ MaxTxs \in Nat /\ MaxFaults \in Nat

VARIABLES
  args,       \* the command
  params,     \* the parameter files in place
  stage,      \* where the run stands
  left,       \* traces the loop has not taken yet
  trace,      \* the trace the loop is at
  debugDir,   \* Prover.debug_dir
  step, open, \* the item of its program, and whether its file is created
  keys,       \* the proving keys of the Prover value
  disk,       \* files in the output directories, and what is in them
  faults,     \* kills and disk failures so far
  seedFile, seedPc, seedOf  \* those of SeedFile

seedVars == <<seedFile, seedPc, seedOf>>
proverVars == <<trace, debugDir, step, open, keys>>
vars == <<args, params, stage, left, proverVars, disk, faults, seedVars>>

Run == "run"
Seed == INSTANCE SeedFile WITH Callers <- {Run}

NoTrace == [name |-> "", parses |-> FALSE, txs |-> 0, provable |-> {}]

-----------------------------------------------------------------------------
\* What main does for one trace.
TargetPart(c, option) ==
  CASE option = "absent" -> <<>>
    [] option = "false" -> TargetProgram(c)
    [] option = "true" -> TargetProgram(c) \o <<Store(<<c, "proof">>)>>

AggPart(option) ==
  CASE option = "absent" -> <<>>
    [] option = "false" -> AggProgram \o WriteSolidity
    [] option = "true" -> AggProgram \o WriteAggProof \o WriteSolidity

Program ==
  TargetPart("evm", args.evm) \o TargetPart("state", args.state) \o AggPart(args.agg)

AtItem == stage = "prove" /\ step \in DOMAIN Program
Item == Program[step]

\* The key and the JSON proof go where the prover was told, the rest where
\* main says.
SlotOf(item) ==
  <<IF item.arg[2] \in {"vk", "json"} THEN debugDir ELSE trace.name, item.arg>>

Torn == [of |-> "torn"]

Init ==
  /\ args \in Commands
  /\ params \in ParamsAtStart
  /\ stage = "off"
  /\ left = {}
  /\ trace = NoTrace /\ debugDir = "" /\ step = 1 /\ open = FALSE /\ keys = {}
  /\ disk = <<>>
  /\ faults = 0
  /\ Seed!SeedInit
-----------------------------------------------------------------------------
(* The run, up to its loop.                                                *)

Goto(from, to) == stage = from /\ stage' = to

\* A run begins: the first, or the same command once more.
Launch ==
  /\ stage \in {"off", "panicked"}
  /\ stage' = "params"
  /\ left' = args.traces
  /\ trace' = NoTrace /\ debugDir' = "" /\ step' = 1 /\ open' = FALSE /\ keys' = {}
  /\ Seed!SeedAbandon({Run})
  /\ UNCHANGED <<args, params, disk, faults>>

LoadParams ==
  /\ params = Degrees
  /\ Goto("params", "seed")
  /\ UNCHANGED <<args, params, left, proverVars, disk, faults, seedVars>>

ParamsMissing ==
  /\ params # Degrees
  /\ Goto("params", "panicked")
  /\ UNCHANGED <<args, params, left, proverVars, disk, faults, seedVars>>

LoadOrCreateSeed ==
  /\ stage = "seed"
  /\ Seed!SeedStep(Run)
  /\ UNCHANGED <<args, params, stage, left, proverVars, disk, faults>>

SeedUnreadable ==
  /\ seedPc[Run] = "failed"
  /\ Goto("seed", "panicked")
  /\ UNCHANGED <<args, params, left, proverVars, disk, faults, seedVars>>

\* All files are read before the first is proved; one that does not parse
\* panics.
ReadTraces ==
  /\ seedPc[Run] = "ok"
  /\ \A t \in args.traces : t.parses
  /\ Goto("seed", "pick")
  /\ UNCHANGED <<args, params, left, proverVars, disk, faults, seedVars>>

TraceUnreadable ==
  /\ seedPc[Run] = "ok"
  /\ \E t \in args.traces : ~ t.parses
  /\ Goto("seed", "panicked")
  /\ UNCHANGED <<args, params, left, proverVars, disk, faults, seedVars>>

-----------------------------------------------------------------------------
(* The loop over the HashMap.                                              *)

Pick(t) ==
  /\ t \in left
  /\ left' = left \ {t}
  /\ trace' = t
  /\ step' = 1
  /\ UNCHANGED <<args, params, open, keys, disk, faults, seedVars>>

TooManyTxs(t) ==
  /\ t.txs > MaxTxs
  /\ Goto("pick", "panicked")
  /\ Pick(t)
  /\ UNCHANGED debugDir

\* Mutant: debug_dir is set for the first trace only.
TakeTrace_StaleDir(t) ==
  /\ t.txs <= MaxTxs
  /\ Goto("pick", "prove")
  /\ Pick(t)
  /\ debugDir' = IF debugDir = "" THEN t.name ELSE debugDir

TakeTrace(t) ==
  /\ t.txs <= MaxTxs
  /\ Goto("pick", "prove")
  /\ Pick(t)
  /\ debugDir' = t.name

AllTaken ==
  /\ left = {}
  /\ Goto("pick", "done")
  /\ UNCHANGED <<args, params, left, proverVars, disk, faults, seedVars>>

-----------------------------------------------------------------------------
(* The program of one trace.                                               *)

Compute ==
  /\ AtItem /\ ~ Stores(Item)
  /\ ~ ItemFails(Item, keys, trace)
  /\ step' = step + 1
  /\ keys' = KeysAfter(Item, keys)
  /\ UNCHANGED <<args, params, stage, left, trace, debugDir, open, disk, faults, seedVars>>

ComputeFails ==
  /\ AtItem /\ ~ Stores(Item)
  /\ ItemFails(Item, keys, trace)
  /\ Goto("prove", "panicked")
  /\ UNCHANGED <<args, params, left, proverVars, disk, faults, seedVars>>

Put(slot, bytes) ==
  disk' = [s \in DOMAIN disk \cup {slot} |-> IF s = slot THEN bytes ELSE disk[s]]

OpenFile ==
  /\ AtItem /\ Stores(Item) /\ ~ open
  /\ Put(SlotOf(Item), Torn)
  /\ open' = TRUE
  /\ UNCHANGED <<args, params, stage, left, trace, debugDir, step, keys, faults, seedVars>>

WriteFile ==
  /\ AtItem /\ Stores(Item) /\ open
  /\ Put(SlotOf(Item), FileBytes(Item.arg, trace, seedOf[Run]))
  /\ step' = step + 1 /\ open' = FALSE
  /\ UNCHANGED <<args, params, stage, left, trace, debugDir, keys, faults, seedVars>>

\* Mutant: the loop goes on before the last file.
TraceDone_Early ==
  /\ step >= Len(Program)
  /\ Goto("prove", "pick")
  /\ trace' = NoTrace /\ open' = FALSE
  /\ UNCHANGED <<args, params, left, debugDir, step, keys, disk, faults, seedVars>>

TraceDone ==
  /\ ~ AtItem
  /\ Goto("prove", "pick")
  /\ trace' = NoTrace
  /\ UNCHANGED <<args, params, left, debugDir, step, open, keys, disk, faults, seedVars>>

\* Making a directory, creating or writing a file fails: a panic.
StoreFails ==
  /\ faults < MaxFaults
  /\ AtItem /\ Stores(Item)
  /\ faults' = faults + 1
  /\ Goto("prove", "panicked")
  /\ UNCHANGED <<args, params, left, proverVars, disk, seedVars>>

\* The run is killed where it stands.
Kill ==
  /\ faults < MaxFaults
  /\ stage \notin {"off", "done", "panicked"}
  /\ faults' = faults + 1
  /\ stage' = "panicked"
  /\ Seed!SeedAbandon({Run})
  /\ UNCHANGED <<args, params, left, proverVars, disk>>

\* The run that finished is the last one of the model.
Finished == stage = "done" /\ UNCHANGED vars

-----------------------------------------------------------------------------
RunStep ==
  \/ LoadParams \/ ParamsMissing
  \/ LoadOrCreateSeed \/ SeedUnreadable
  \/ ReadTraces \/ TraceUnreadable
  \/ \E t \in left : TooManyTxs(t) \/ TakeTrace(t)
  \/ AllTaken
  \/ Compute \/ ComputeFails \/ OpenFile \/ WriteFile \/ TraceDone

Next == RunStep \/ Launch \/ StoreFails \/ Kill \/ Finished

\* A run goes on by itself; it is launched by its user, or not.
Spec == Init /\ [][Next]_vars /\ WF_vars(RunStep)

-----------------------------------------------------------------------------
Names == {t.name : t \in args.traces}

TypeOK ==
  /\ args \in Commands /\ params \subseteq Degrees
  /\ stage \in {"off", "params", "seed", "pick", "prove", "done", "panicked"}
  /\ left \subseteq args.traces
  /\ trace \in args.traces \cup {NoTrace}
  /\ debugDir \in Names \cup {""}
  /\ step \in Nat \ {0} /\ open \in BOOLEAN /\ keys \subseteq Keys
  /\ DOMAIN disk \subseteq Names \X Files
  /\ faults \in 0..MaxFaults
  /\ Seed!SeedTypeOK

(***************************************************************************)
(* Every trace the loop has behind it has all its files in its own         *)
(* directory, whole and made from it, whatever earlier traces left in the  *)
(* Prover value, and whatever earlier runs of the command left on disk: a  *)
(* run that ends well repairs what a killed one has torn, and a run that   *)
(* panics at one trace leaves those before it complete.                    *)
(***************************************************************************)
Whole(t) ==
  \A k \in DOMAIN Program : Stores(Program[k]) =>
    LET slot == <<t.name, Program[k].arg>>
    IN  /\ slot \in DOMAIN disk
        /\ disk[slot] \in {FileBytes(slot[2], t, s) : s \in Seed!Seeds}

TakenAreWhole ==
  stage \in {"pick", "prove", "done", "panicked"} =>
    \A t \in args.traces \ (left \cup {trace}) : Whole(t)

(***************************************************************************)
(* A directory never holds bytes of another trace, or of a circuit that    *)
(* did not prove its trace, and a torn file is the one being written or is *)
(* due to a kill or a disk failure.                                        *)
(***************************************************************************)
OwnDirectories ==
  \A slot \in DOMAIN disk :
    CASE disk[slot].of = "torn" -> faults > 0 \/ (AtItem /\ open /\ slot = SlotOf(Item))
      [] disk[slot].of = "circuit" -> \E t \in args.traces :
           t.name = slot[1] /\ slot[2][1] \in t.provable
      [] disk[slot].of = "trace" ->
           /\ disk[slot].trace.name = slot[1]
           /\ slot[2][1] \in disk[slot].trace.provable

(***************************************************************************)
(* A run over good traces, with its parameters in place and a seed file    *)
(* that is whole or absent, ends with all of them proved unless it is      *)
(* killed or the disk fails, also when earlier runs did not.               *)
(***************************************************************************)
Needs == {Program[k].arg[1] : k \in {l \in DOMAIN Program : Proves(Program[l])}}
Good(t) == t.parses /\ t.txs <= MaxTxs /\ Needs \subseteq t.provable

CleanRunSucceeds ==
  \A n \in 0..MaxFaults :
    (/\ stage = "params" /\ faults = n
     /\ params = Degrees /\ seedFile # "short"
     /\ \A t \in args.traces : Good(t))
      ~> (stage = "done" \/ faults > n)
=============================================================================
