----------------------------- MODULE BatchProof -----------------------------
(***************************************************************************)
(* create_target_circuit_proof_batch and mock_prove_target_circuit_batch   *)
(* of the super circuit (zkevm/src/prover.rs) and the capacity check both  *)
(* start with (zkevm/src/circuit/builder.rs): the rows that each block     *)
(* needs are added up sub-circuit by sub-circuit, the batch is cut before  *)
(* the first block that would fill the circuit, and what is left is        *)
(* proved, mock-proved, or one after the other with MOCK_PROVE.            *)
(***************************************************************************)
EXTENDS Integers, Sequences

CONSTANTS
  Batches,         \* the batches a caller may give: sequences of blocks
  SubCircuits,     \* SUB_CIRCUIT_NAMES
  DegreeRows,      \* 2^DEGREE
  Spared,          \* the 256 rows check_batch_capacity keeps free
  MaxInnerBlocks   \* MAX_INNER_BLOCKS

\* What the check can tell of a block: the rows it needs in each sub-circuit,
\* its transactions, its number, whether its header has a hash, and whether
\* its witness can be built.
BlockType == [rows : [SubCircuits -> Nat], txs : Nat, number : Nat,
              hashed : BOOLEAN, sound : BOOLEAN]

\* A circuit has rows left to use: DEGREE is 19 or 21 where it is not set.
ASSUME BatchAssumption ==
  /\ SubCircuits # {}
  /\ DegreeRows \in Nat /\ Spared \in 0..(DegreeRows - 1) /\ MaxInnerBlocks \in Nat
  /\ Batches \subseteq Seq(BlockType)

VARIABLES
  call,          \* which of the two functions
  batch,         \* the batch as it was given
  autoTruncate,  \* AUTO_TRUNCATE
  infoLogged,    \* is the info level enabled? (RUST_LOG)
  mockProve,     \* MOCK_PROVE
  stage,         \* where the call stands, or how it ended
  blocks,        \* the local, shortened copy of the batch
  acc,           \* rows so far; the empty vector of the code is all zero
  index,         \* the block the loop looks at
  proved         \* proved_block_count of the proof

given == <<call, batch, autoTruncate, infoLogged, mockProve>>
vars == <<given, stage, blocks, acc, index, proved>>

Calls == {"prove", "mock_prove"}
Stages ==
  {"count", "rows", "kept", "log", "mock", "prove", "proof", "mocked", "error",
   "panic"}

TxsOf(bs) ==
  LET sum[k \in 0..Len(bs)] == IF k = 0 THEN 0 ELSE sum[k - 1] + bs[k].txs
  IN  sum[Len(bs)]

Numbers(bs) == {bs[k].number : k \in DOMAIN bs}

\* How many headers the witness has: they are keyed by block number.
Distinct(bs) ==
  LET count[k \in 0..Len(bs)] ==
        IF k = 0 THEN 0
        ELSE IF \E l \in 1..(k - 1) : bs[l].number = bs[k].number
             THEN count[k - 1] ELSE count[k - 1] + 1
  IN  count[Len(bs)]

Zero == [s \in SubCircuits |-> 0]
Plus(rows, block) == [s \in SubCircuits |-> rows[s] + block.rows[s]]
\* Mutant: the limit itself is let through.
Full_Above(rows) == \E s \in SubCircuits : rows[s] > DegreeRows - Spared

Full(rows) == \E s \in SubCircuits : rows[s] >= DegreeRows - Spared

Init ==
  /\ call \in Calls /\ batch \in Batches
  /\ autoTruncate \in BOOLEAN /\ infoLogged \in BOOLEAN /\ mockProve \in BOOLEAN
  /\ stage = "count"
  /\ blocks = batch
  /\ acc = Zero
  /\ index = 1
  /\ proved = 0

-----------------------------------------------------------------------------
(* check_batch_capacity.                                                   *)

GoTo(from, to) == stage = from /\ stage' = to /\ UNCHANGED given

TooManyBlocks ==
  /\ Len(blocks) > MaxInnerBlocks
  /\ GoTo("count", "error")
  /\ UNCHANGED <<blocks, acc, index, proved>>

KeepAsIs ==
  /\ Len(blocks) <= MaxInnerBlocks
  /\ ~ autoTruncate
  /\ GoTo("count", "log")
  /\ UNCHANGED <<blocks, acc, index, proved>>

CountRows ==
  /\ Len(blocks) <= MaxInnerBlocks
  /\ autoTruncate
  /\ GoTo("count", "rows")
  /\ UNCHANGED <<blocks, acc, index, proved>>

\* calculate_row_usage_of_trace fails on a block whose witness cannot be built.
RowsFail ==
  /\ index <= Len(blocks) /\ ~ blocks[index].sound
  /\ GoTo("rows", "error")
  /\ UNCHANGED <<blocks, acc, index, proved>>

AddRows ==
  LET sum == Plus(acc, blocks[index])
  IN  /\ index <= Len(blocks) /\ blocks[index].sound
      /\ ~ Full(sum)
      /\ GoTo("rows", "rows")
      /\ acc' = sum
      /\ index' = index + 1
      /\ UNCHANGED <<blocks, proved>>

\* Mutant: one block too many is cut.
Truncate_OneLess ==
  LET sum == Plus(acc, blocks[index])
  IN  /\ index <= Len(blocks) /\ blocks[index].sound
      /\ Full(sum)
      /\ GoTo("rows", "kept")
      /\ blocks' = SubSeq(blocks, 1, index - 2)
      /\ acc' = sum
      /\ UNCHANGED <<index, proved>>

\* truncate_idx = idx: the block that fills the circuit goes, and all after it.
Truncate ==
  LET sum == Plus(acc, blocks[index])
  IN  /\ index <= Len(blocks) /\ blocks[index].sound
      /\ Full(sum)
      /\ GoTo("rows", "kept")
      /\ blocks' = SubSeq(blocks, 1, index - 1)
      /\ acc' = sum
      /\ UNCHANGED <<index, proved>>

AllFit ==
  /\ index > Len(blocks)
  /\ GoTo("rows", "kept")
  /\ UNCHANGED <<blocks, acc, index, proved>>

\* Mutant: the check looks at blocks, not at transactions.
LostAllTxs_Blocks == batch # <<>> /\ blocks = <<>>

\* Mutant: no check.
LostAllTxs_Never == FALSE

LostAllTxs == TxsOf(batch) # 0 /\ TxsOf(blocks) = 0

NotEnough ==
  /\ LostAllTxs
  /\ GoTo("kept", "error")
  /\ UNCHANGED <<blocks, acc, index, proved>>

Enough ==
  /\ ~ LostAllTxs
  /\ GoTo("kept", "log")
  /\ UNCHANGED <<blocks, acc, index, proved>>

-----------------------------------------------------------------------------
(* The witness of what is left, and its proof.                             *)

\* block_traces_to_witness_block or from_witness_block fails, always on a
\* block that is not sound and perhaps on others: the witness of the batch is
\* not that of its blocks, whose rows were counted one by one.
WitnessFails ==
  /\ blocks # <<>>
  /\ GoTo("log", "error")
  /\ UNCHANGED <<blocks, acc, index, proved>>

\* The info! line takes the hashes of block_traces[0] and of the last block;
\* its arguments are evaluated only when the level is enabled.
LogIsSafe ==
  infoLogged =>
    blocks # <<>> /\ blocks[1].hashed /\ blocks[Len(blocks)].hashed

LogPanics ==
  /\ call = "prove" /\ ~ LogIsSafe
  /\ GoTo("log", "panic")
  /\ UNCHANGED <<blocks, acc, index, proved>>

LogsBatch ==
  /\ call = "prove" /\ LogIsSafe
  /\ \A k \in DOMAIN blocks : blocks[k].sound
  /\ GoTo("log", IF mockProve THEN "mock" ELSE "prove")
  /\ UNCHANGED <<blocks, acc, index, proved>>

\* mock_prove_target_circuit_batch logs what every batch has.
LogsMock ==
  /\ call = "mock_prove"
  /\ \A k \in DOMAIN blocks : blocks[k].sound
  /\ GoTo("log", "mock")
  /\ UNCHANGED <<blocks, acc, index, proved>>

\* MockProver finds a constraint that the witness does not satisfy, or none.
MockFails ==
  /\ GoTo("mock", "error")
  /\ UNCHANGED <<blocks, acc, index, proved>>

MockHolds ==
  /\ GoTo("mock", IF call = "mock_prove" THEN "mocked" ELSE "prove")
  /\ UNCHANGED <<blocks, acc, index, proved>>

\* Mutant: the proof claims the whole batch.
ProveBatch_Whole ==
  /\ GoTo("prove", "proof")
  /\ proved' = Len(batch)
  /\ UNCHANGED <<blocks, acc, index>>

\* Mutant: the last header is not counted.
ProveBatch_OneLess ==
  /\ GoTo("prove", "proof")
  /\ proved' = Distinct(blocks) - 1
  /\ UNCHANGED <<blocks, acc, index>>

\* create_proof, and proved_block_count from the headers, keyed by number.
ProveBatch ==
  /\ GoTo("prove", "proof")
  /\ proved' = Distinct(blocks)
  /\ UNCHANGED <<blocks, acc, index>>

Ended == stage \in {"proof", "mocked", "error", "panic"} /\ UNCHANGED vars

Next ==
  \/ TooManyBlocks \/ KeepAsIs \/ CountRows
  \/ RowsFail \/ AddRows \/ Truncate \/ AllFit \/ NotEnough \/ Enough
  \/ WitnessFails \/ LogPanics \/ LogsBatch \/ LogsMock
  \/ MockFails \/ MockHolds \/ ProveBatch \/ Ended

Spec == Init /\ [][Next]_vars

-----------------------------------------------------------------------------
TypeOK ==
  /\ call \in Calls /\ batch \in Batches
  /\ autoTruncate \in BOOLEAN /\ infoLogged \in BOOLEAN /\ mockProve \in BOOLEAN
  /\ stage \in Stages
  /\ stage \in {"prove", "proof", "panic"} => call = "prove"
  /\ blocks \in Seq(BlockType)
  /\ acc \in [SubCircuits -> Nat]
  /\ index \in 1..(Len(batch) + 1)
  /\ proved \in Nat

\* The rows of the first n blocks, each sub-circuit on its own.
RowsUpTo(bs, n, s) ==
  LET sum[k \in 0..n] == IF k = 0 THEN 0 ELSE sum[k - 1] + bs[k].rows[s]
  IN  sum[n]

Fits(bs, n) == \A s \in SubCircuits : RowsUpTo(bs, n, s) < DegreeRows - Spared

Checked ==
  stage \in {"log", "mock", "prove", "proof", "mocked", "panic"} /\ autoTruncate

(***************************************************************************)
(* A batch that passed the capacity check fits the circuit: in every       *)
(* sub-circuit the rows of all the blocks kept stay below the limit.       *)
(***************************************************************************)
AcceptedFits == Checked => Fits(blocks, Len(blocks))

(***************************************************************************)
(* No more is cut than has to be: what is kept are the first blocks of the *)
(* batch, and with the block after them they would not fit.                *)
(***************************************************************************)
KeepsLongestFit ==
  Checked =>
    /\ blocks = SubSeq(batch, 1, Len(blocks))
    /\ Len(blocks) < Len(batch) => ~ Fits(batch, Len(blocks) + 1)

(***************************************************************************)
(* A batch with transactions is neither proved nor mock-proved by a prefix *)
(* without any.                                                            *)
(***************************************************************************)
ProofKeepsTxs ==
  stage \in {"proof", "mocked"} /\ TxsOf(batch) > 0 => TxsOf(blocks) > 0

(***************************************************************************)
(* proved_block_count tells the blocks the proof is about: it exceeds      *)
(* neither them nor the batch, and falls short of them only when two of    *)
(* them have the same number.                                              *)
(***************************************************************************)
ProvedCountHonest ==
  stage = "proof" =>
    /\ proved <= Len(blocks) /\ Len(blocks) <= Len(batch)
    /\ proved = Len(blocks) <=>
         \A k, l \in DOMAIN blocks : blocks[k].number = blocks[l].number => k = l

(***************************************************************************)
(* The log line that indexes block_traces[0] cannot panic on a batch that  *)
(* has transactions and the hashes of its blocks, however it was cut, nor  *)
(* on one that was not cut unless it is empty.                             *)
(***************************************************************************)
PanicOnlyWithoutTxs ==
  stage = "panic" =>
    \/ \E k \in DOMAIN blocks : ~ blocks[k].hashed
    \/ TxsOf(batch) = 0 /\ (batch = <<>> \/ autoTruncate)
=============================================================================
