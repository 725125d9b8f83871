------------------------------- MODULE Prover -------------------------------
(***************************************************************************)
(* What one Prover value does for one trace (zkevm/src/prover.rs): the     *)
(* programs of proving, storing and converting that its callers run, and   *)
(* the proving keys the value holds between their items.  Pure operators;  *)
(* the modules that run a prover keep its keys as state.                   *)
(***************************************************************************)
EXTENDS Sequences

CONSTANT OptMem  \* OPT_MEM: release the key of a target circuit once proved

ASSUME OptMemAssumption == OptMem \in BOOLEAN

Circuits == {"evm", "state", "super"}

\* target_circuit_pks is keyed by circuit name; "agg" stands for agg_pk.
Keys == Circuits \cup {"agg"}

(***************************************************************************)
(* The items of a program.  A file is named by the circuit it belongs to   *)
(* and its kind.                                                           *)
(***************************************************************************)
AggFileKinds == {"final_pair", "instance", "proof", "vkey", "full_proof"}

Files == (Circuits \X {"vk", "json", "proof"})
         \cup ({"agg"} \X (AggFileKinds \cup {"sol"}))

ProveCircuit(c) == [op |-> "prove", arg |-> <<c, "proof">>]
Convert(c) == [op |-> "convert", arg |-> <<c, "vk">>]
Solidity == [op |-> "solidity", arg |-> <<"agg", "sol">>]
Store(file) == [op |-> "store", arg |-> file]

Items == [op : {"prove", "convert", "solidity", "store"}, arg : Files]

Proves(item) == item.op = "prove"
Stores(item) == item.op = "store"

-----------------------------------------------------------------------------
\* create_target_circuit_proof_batch with a debug_dir: the key is made when
\* it is missing, and the key file and the proof file follow the proof.
TargetProgram(c) ==
  <<ProveCircuit(c), Store(<<c, "vk">>), Store(<<c, "json">>)>>

\* create_agg_circuit_proof_batch: prove_circuit of the super circuit (which
\* converts the proof), then create_agg_circuit_proof_impl.
AggProgram == TargetProgram("super") \o <<Convert("super"), ProveCircuit("agg")>>

\* AggCircuitProof::write_to_dir, in its order.
WriteAggProof ==
  <<Store(<<"agg", "final_pair">>), Store(<<"agg", "instance">>),
    Store(<<"agg", "proof">>), Store(<<"agg", "vkey">>),
    Store(<<"agg", "full_proof">>)>>

\* Mutant: the verifier contract goes to a name of its own (verifier.sol).
WriteSolidity_OtherName == <<Solidity, Store(<<"super", "sol">>)>>

\* write_solidity: create_solidity_verifier, then the file.
WriteSolidity == <<Solidity, Store(<<"agg", "sol">>)>>

-----------------------------------------------------------------------------
\* Mutant: the key is released whatever OPT_MEM says.
KeysAfter_Released(item, keys) ==
  CASE item.op = "prove" -> keys \cup {item.arg[1]}
    [] item.op = "convert" -> keys \ {item.arg[1]}
    [] OTHER -> keys

\* The keys held after an item.  Mutating the key set is all that outlasts it.
KeysAfter(item, keys) ==
  CASE item.op = "prove" -> keys \cup {item.arg[1]}
    [] item.op = "convert" /\ OptMem -> keys \ {item.arg[1]}
    [] OTHER -> keys

\* Mutant: the errors of proving are dropped.
ItemFails_Unchecked(item, keys, trace) ==
  item.op = "solidity" /\ ~ {"super", "agg"} \subseteq keys

\* An item ends in an error or a panic: a trace the circuit cannot prove
\* (capacity, witness or constraint errors), or a Solidity verifier asked
\* for while the key of the super circuit or of the aggregation is missing.
ItemFails(item, keys, trace) ==
  \/ item.op = "prove" /\ item.arg[1] \notin trace.provable
  \/ item.op = "solidity" /\ ~ {"super", "agg"} \subseteq keys

\* The bytes an item stores.  Keys of target circuits are made from
\* C::empty(), so their files are the same for every trace and seed; all
\* else depends on the trace and, through self.rng, on the seed.
FileBytes(file, trace, seed) ==
  IF file[2] = "vk" THEN [of |-> "circuit"]
  ELSE [of |-> "trace", trace |-> trace, seed |-> seed]
=============================================================================
