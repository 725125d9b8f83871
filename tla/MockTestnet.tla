----------------------------- MODULE MockTestnet -----------------------------
(***************************************************************************)
(* The mock_testnet program (bin/src/mock_testnet.rs): for one batch after *)
(* the other it requests the block traces, builds their witness            *)
(* (WitnessBuilder), counts its rows and reports how that went.  The       *)
(* services it asks are external: a node that returns traces and, in Block *)
(* mode, a rollup explorer that knows which blocks a batch has and learns  *)
(* of further batches while the program runs.                              *)
(***************************************************************************)
EXTENDS Integers, Sequences

CONSTANTS
  Batches,     \* the batches of the rollup: sequences of block traces
  Accounts,
  ChainId,     \* CHAIN_ID
  EndBatch     \* PROVE_END_BATCH; the first one is batch 1

VARIABLES
  proveType,   \* PROVE_TYPE
  known,       \* how many batches the rollup has
  current,     \* i, the batch the loop is at
  phase,       \* where the loop stands, or how the program ended
  wanted,      \* the traces of the current batch still to be requested
  traces,      \* those that have come
  reports,     \* what has been logged of the batches before
  batch, stage, index, state, chain, txs, next, headers \* of WitnessBuilder

builderVars == <<batch, stage, index, state, chain, txs, next, headers>>
vars == <<proveType, known, current, phase, wanted, traces, reports, builderVars>>

Builder == INSTANCE WitnessBuilder

ASSUME TestnetAssumption == EndBatch \in Nat /\ Builder!GivenBatches

\* A batch of the rollup is a part of its chain.
ASSUME ChainAssumption == \A b \in Batches : Builder!FromChain(b)

Phases == {"loop", "fetch", "build", "end", "panic"}

Init ==
  /\ proveType \in {"batch", "block"}
  /\ known \in 0..EndBatch
  /\ current = 1 /\ phase = "loop"
  /\ wanted = <<>> /\ traces = <<>> /\ reports = <<>>
  /\ Builder!BuilderInit

InLoop == phase = "loop" /\ current <= EndBatch

\* The loop goes on with everything but what is said to change.
Goto(from, to) ==
  phase = from /\ phase' = to /\ UNCHANGED <<proveType, known>>
-----------------------------------------------------------------------------
(* Requesting the traces of a batch.                                       *)

\* get_traces_by_batch_api: one request for all blocks.
RequestBatch ==
  /\ InLoop /\ proveType = "batch" /\ current <= known
  /\ Goto("loop", "build")
  /\ \E b \in Batches : traces' = b /\ Builder!CallBuilder(b)
  /\ UNCHANGED <<current, wanted, reports>>

\* get_traces_by_block_api: the range of blocks of the batch ...
RequestRange ==
  /\ InLoop /\ proveType = "block" /\ current <= known
  /\ Goto("loop", "fetch")
  /\ wanted' \in Batches
  /\ traces' = <<>>
  /\ UNCHANGED <<current, reports, builderVars>>

\* ... and then block by block.
RequestBlock ==
  /\ wanted # <<>>
  /\ Goto("fetch", "fetch")
  /\ traces' = Append(traces, Head(wanted))
  /\ wanted' = Tail(wanted)
  /\ UNCHANGED <<current, reports, builderVars>>

AllRequested ==
  /\ wanted = <<>>
  /\ Goto("fetch", "build")
  /\ Builder!CallBuilder(traces)
  /\ UNCHANGED <<current, wanted, traces, reports>>

\* No such batch: None in Block mode, which ends the loop.  In Batch mode
\* there is no None: the null of the node cannot be read as a sequence of
\* traces, and the error makes the loop panic.
NoSuchBatch ==
  /\ InLoop /\ current > known
  /\ Goto("loop", IF proveType = "block" THEN "end" ELSE "panic")
  /\ UNCHANGED <<current, wanted, traces, reports, builderVars>>

\* A request fails: panic.
RequestFails ==
  /\ phase = "fetch" \/ InLoop
  /\ phase' = "panic"
  /\ UNCHANGED <<proveType, known, current, wanted, traces, reports, builderVars>>

-----------------------------------------------------------------------------
(* The witness of the batch.                                               *)

BuildStep ==
  /\ Goto("build", "build")
  /\ Builder!Build
  /\ UNCHANGED <<current, wanted, traces, reports>>

\* What is logged, and two facts about the batch to judge it by.
Outcome == [ok |-> stage = "witness", buildable |-> Builder!Buildable(traces),
            flawless |-> \A k \in DOMAIN traces : traces[k].flaw = "none"]

\* Mutant: a failure ends the loop.
Report_Stops ==
  /\ stage \in {"witness", "error"}
  /\ Goto("build", IF stage = "witness" THEN "loop" ELSE "end")
  /\ reports' = Append(reports, Outcome)
  /\ current' = current + 1
  /\ traces' = <<>> /\ Builder!BuilderLeft
  /\ UNCHANGED wanted

\* The result is logged, be it an error or not, and the loop goes on; the
\* traces and the witness are gone.
Report ==
  /\ stage \in {"witness", "error"}
  /\ Goto("build", "loop")
  /\ reports' = Append(reports, Outcome)
  /\ current' = current + 1
  /\ traces' = <<>> /\ Builder!BuilderLeft
  /\ UNCHANGED wanted

\* A panic of the builder ends the program.
BuilderPanics ==
  /\ stage = "panic"
  /\ Goto("build", "panic")
  /\ UNCHANGED <<current, wanted, traces, reports, builderVars>>

LoopEnds ==
  /\ current > EndBatch
  /\ Goto("loop", "end")
  /\ UNCHANGED <<current, wanted, traces, reports, builderVars>>

\* The rollup goes on while the program runs.
BatchComes ==
  /\ known < EndBatch /\ phase \notin {"end", "panic"}
  /\ known' = known + 1
  /\ UNCHANGED <<proveType, current, phase, wanted, traces, reports, builderVars>>

Ended == phase \in {"end", "panic"} /\ UNCHANGED vars

Step ==
  \/ RequestBatch \/ RequestRange \/ RequestBlock \/ AllRequested
  \/ NoSuchBatch \/ BuildStep \/ Report \/ BuilderPanics \/ LoopEnds

Next == Step \/ RequestFails \/ BatchComes \/ Ended

\* One thread, which only waits for requests; each is answered or fails.
Spec == Init /\ [][Next]_vars /\ WF_vars(Step)

-----------------------------------------------------------------------------
TypeOK ==
  /\ proveType \in {"batch", "block"}
  /\ known \in 0..EndBatch /\ current \in 1..(EndBatch + 1)
  /\ phase \in Phases
  /\ wanted # <<>> => phase \in {"fetch", "panic"}
  /\ phase = "build" => traces = batch /\ stage # "out"
  /\ reports \in Seq([ok : BOOLEAN, buildable : BOOLEAN, flawless : BOOLEAN])
  /\ Len(reports) = current - 1
  /\ Builder!BuilderTypeOK

(***************************************************************************)
(* When a block is about to be replayed, the state is the one its own      *)
(* proofs attest: merging the proofs of all blocks last to first gives the *)
(* state before the first, and replaying keeps up with the chain.          *)
(***************************************************************************)
ReplayAgreesWithProofs == Builder!ReplayAgreesWithProofs

(***************************************************************************)
(* The witness has the chain id of the users' transactions of the batch,   *)
(* whatever deposits (of chain 0) come before them.                        *)
(***************************************************************************)
ChainOfUsers == Builder!ChainOfUsers

(***************************************************************************)
(* A batch without a flaw, in which no deposit follows another transaction *)
(* of its sender in one block, becomes a witness that has all its blocks,  *)
(* whatever became of the batches before it.                               *)
(***************************************************************************)
WitnessBuilt ==
  (phase = "build" /\ Builder!Buildable(batch))
    ~> (stage = "witness" /\ headers = {batch[k].number : k \in DOMAIN batch})

(***************************************************************************)
(* The loop stops early only for want of batches: when it ends, every      *)
(* batch up to the last one wanted, or up to one that the rollup did not   *)
(* have, has been reported, those that failed in the middle like others,   *)
(* and each as it deserves.  It says nothing of a program that panics, and *)
(* in Batch mode it does where, by the comments on the functions that      *)
(* request a batch, it should have ended (NoSuchBatch).                    *)
(***************************************************************************)
EachReported ==
  phase = "end" =>
    /\ current > EndBatch \/ current > known
    /\ \A k \in DOMAIN reports :
         /\ reports[k].buildable => reports[k].ok
         /\ reports[k].ok => reports[k].flawless

(***************************************************************************)
(* What the comment in the loop over the blocks says: deposits are given   *)
(* the known nonce from the state, so that the assert of the replay does   *)
(* not fail.                                                               *)
(***************************************************************************)
NonceKnown == Builder!NonceKnown
=============================================================================
