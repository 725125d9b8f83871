---------------------------- MODULE MCBatchProof ----------------------------
(***************************************************************************)
(* Batches of up to four blocks for two sub-circuits.  The limit is three  *)
(* rows: one block fills the circuit alone, others do so together, in one  *)
(* sub-circuit or the other.                                               *)
(***************************************************************************)
EXTENDS BatchProof, SequencesExt

Block(x, y, txs, number, sound) ==
  [rows |-> ("evm" :> x @@ "state" :> y), txs |-> txs, number |-> number,
   hashed |-> number # 4, sound |-> sound]

Blocks ==
  {Block(r[1], r[2], txs, 1, TRUE) : r \in {<<1, 0>>, <<1, 2>>, <<0, 3>>}, txs \in 0..1}
  \cup {Block(1, 0, 1, 2, TRUE), Block(1, 0, 0, 3, FALSE), Block(1, 0, 1, 4, TRUE)}

MCBatches == BoundedSeq(Blocks, 4)
MCSubCircuits == {"evm", "state"}
=============================================================================
