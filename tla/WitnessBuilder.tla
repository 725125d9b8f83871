--------------------------- MODULE WitnessBuilder ---------------------------
(***************************************************************************)
(* block_traces_to_witness_block (zkevm/src/circuit/builder.rs): the state *)
(* proofs of all blocks are merged into the state before the batch, the    *)
(* code database is collected, and the blocks are replayed in order on     *)
(* that state, each deposit transaction with a nonce the code looks up.    *)
(* Of the state only the nonces of accounts are modelled.  ZktrieState,    *)
(* StateDB and handle_block_inner are external and modelled from their use *)
(* here: a proof that is inserted later replaces an earlier one, and a     *)
(* replayed transaction asserts and then increments the sender's nonce.    *)
(* The module has no specification of its own: whoever calls the function  *)
(* instantiates it and takes CallBuilder, then Build.                      *)
(***************************************************************************)
EXTENDS Integers, Sequences, FiniteSets

CONSTANTS
  Batches,   \* the batches a caller may give: sequences of blocks
  Accounts,
  ChainId    \* CHAIN_ID

(***************************************************************************)
(* A transaction trace: deposits carry nonce 0 and chain 0.  A block trace:*)
(* "proofs" gives the nonces its state proofs attest, those before the     *)
(* block, of the accounts it touches; "flaw" is what is wrong with it, if  *)
(* anything: its state proofs, a byte code that is no hex string, a call   *)
(* without the code of its callee, a deposit without mint, or a header     *)
(* that BlockHead::new or the replay rejects.                              *)
(***************************************************************************)
TxType == [deposit : BOOLEAN, from : Accounts, nonce : Nat, chain : Nat]
Flaws == {"none", "proofs", "code_hex", "code_missing", "mint", "header"}

IsBlock(block) ==
  /\ block.txs \in Seq(TxType) /\ block.flaw \in Flaws
  /\ DOMAIN block.proofs \subseteq Accounts
  /\ \A a \in DOMAIN block.proofs : block.proofs[a] \in Nat

\* What the caller's constants are.
GivenBatches ==
  /\ ChainId \in Nat
  /\ \A traces \in Batches :
       /\ traces \in Seq({traces[k] : k \in DOMAIN traces})
       /\ \A k \in DOMAIN traces : IsBlock(traces[k])

SentBy(block, a) == {j \in DOMAIN block.txs : block.txs[j].from = a}

SentBefore(block, a, j) == {i \in SentBy(block, a) : i < j}

(***************************************************************************)
(* Blocks in the order of a chain: users' transactions have one chain id,  *)
(* a block touches the senders of its transactions, a user's transaction   *)
(* has the nonce its sender has by then, and the next block that touches an*)
(* account finds there the nonce that this one left.                       *)
(***************************************************************************)
FromChain(traces) ==
  \A k, l \in DOMAIN traces :
    /\ \A i \in DOMAIN traces[k].txs, j \in DOMAIN traces[l].txs :
         ~ traces[k].txs[i].deposit /\ ~ traces[l].txs[j].deposit =>
           traces[k].txs[i].chain = traces[l].txs[j].chain
    /\ \A i \in DOMAIN traces[k].txs : traces[k].txs[i].from \in DOMAIN traces[k].proofs
    /\ \A i \in DOMAIN traces[k].txs :
         LET tx == traces[k].txs[i]
         IN  ~ tx.deposit =>
               tx.nonce = traces[k].proofs[tx.from]
                            + Cardinality(SentBefore(traces[k], tx.from, i))
    /\ \A a \in DOMAIN traces[k].proofs \cap DOMAIN traces[l].proofs :
         k < l /\ (\A m \in (k + 1)..(l - 1) : a \notin DOMAIN traces[m].proofs) =>
           traces[l].proofs[a] = traces[k].proofs[a] + Cardinality(SentBy(traces[k], a))

VARIABLES
  batch,     \* the block traces
  stage,     \* where the call stands, or how it ended
  index,     \* the block a loop is at
  state,     \* sdb: the nonces of the accounts it has
  chain,     \* the chain id of the witness
  txs,       \* the transactions of the block replayed, with their nonces
  next,      \* the transaction the replay is at
  headers    \* builder.block.headers: the numbers it is keyed by

replay == <<txs, next, headers>>
builderVars == <<batch, stage, index, state, chain, replay>>

Stages == {"out", "merge", "code", "block", "txs", "witness", "error", "panic"}

NonceOf(a) == IF a \in DOMAIN state THEN state[a] ELSE 0

BuilderInit ==
  /\ batch = <<>> /\ stage = "out" /\ index = 0
  /\ state = <<>> /\ chain = ChainId
  /\ txs = <<>> /\ next = 1 /\ headers = {}

\* The result is dropped.
BuilderLeft ==
  /\ batch' = <<>> /\ stage' = "out" /\ index' = 0
  /\ state' = <<>> /\ chain' = ChainId
  /\ txs' = <<>> /\ next' = 1 /\ headers' = {}

\* A call: all of its state is its own.
CallBuilder(traces) ==
  /\ batch' = traces /\ stage' = "merge" /\ index' = Len(traces)
  /\ state' = <<>> /\ chain' = ChainId
  /\ txs' = <<>> /\ next' = 1 /\ headers' = {}

Goto(from, to) == stage = from /\ stage' = to /\ UNCHANGED batch
-----------------------------------------------------------------------------
(* The state before the batch.                                             *)

\* Insertion into the trie: a later proof of an account replaces the earlier.
Insert(proofs) ==
  state' = [a \in DOMAIN state \cup DOMAIN proofs |->
              IF a \in DOMAIN proofs THEN proofs[a] ELSE state[a]]

\* Mutant: the blocks are merged first to last.
MergeProofs_Forward ==
  /\ Goto("merge", "merge")
  /\ index >= 1 /\ batch[index].flaw # "proofs"
  /\ Insert(batch[Len(batch) - index + 1].proofs)
  /\ index' = index - 1
  /\ UNCHANGED <<chain, replay>>

\* from_trace_with_additional over block_traces.iter().rev().
MergeProofs ==
  /\ Goto("merge", "merge")
  /\ index >= 1 /\ batch[index].flaw # "proofs"
  /\ Insert(batch[index].proofs)
  /\ index' = index - 1
  /\ UNCHANGED <<chain, replay>>

ProofsFail ==
  /\ Goto("merge", "error")
  /\ index >= 1 /\ batch[index].flaw = "proofs"
  /\ UNCHANGED <<index, state, chain, replay>>

\* Mutant: a transaction of any type gives the chain id.
GivesChain_Any(tx) == TRUE

GivesChain(tx) == ~ tx.deposit

\* The first such transaction of the first block that has one.
FirstToGive(k, j) ==
  /\ GivesChain(batch[k].txs[j])
  /\ \A i \in 1..(j - 1) : ~ GivesChain(batch[k].txs[i])
  /\ \A l \in 1..(k - 1) : \A i \in DOMAIN batch[l].txs : ~ GivesChain(batch[l].txs[i])

\* chain_ids[0], or CHAIN_ID when the vector is empty; then the codes are
\* collected, last block first.
SetChain ==
  /\ index = 0
  /\ Goto("merge", "code")
  /\ \/ /\ \A k \in DOMAIN batch : \A j \in DOMAIN batch[k].txs : ~ GivesChain(batch[k].txs[j])
        /\ chain' = ChainId
     \/ \E k \in DOMAIN batch : \E j \in DOMAIN batch[k].txs :
          FirstToGive(k, j) /\ chain' = batch[k].txs[j].chain
  /\ index' = Len(batch)
  /\ UNCHANGED <<state, replay>>

-----------------------------------------------------------------------------
(* build_codedb, in reverse order of the blocks.                           *)

CollectCode ==
  /\ Goto("code", "code")
  /\ index >= 1 /\ batch[index].flaw \notin {"code_hex", "code_missing"}
  /\ index' = index - 1
  /\ UNCHANGED <<state, chain, replay>>

\* decode_bytecode fails.
CodeFails ==
  /\ Goto("code", "error")
  /\ index >= 1 /\ batch[index].flaw = "code_hex"
  /\ UNCHANGED <<index, state, chain, replay>>

\* callee_code.unwrap().
CodePanics ==
  /\ Goto("code", "panic")
  /\ index >= 1 /\ batch[index].flaw = "code_missing"
  /\ UNCHANGED <<index, state, chain, replay>>

CodeDone ==
  /\ index = 0
  /\ Goto("code", "block")
  /\ index' = 1
  /\ UNCHANGED <<state, chain, replay>>

-----------------------------------------------------------------------------
(* The replay of one block after the other.                                *)

AtBlock == stage = "block" /\ index <= Len(batch)
AtTx == stage = "txs" /\ next <= Len(txs)

\* to_eth_tx: mint.unwrap().
MintPanics ==
  /\ AtBlock /\ batch[index].flaw = "mint"
  /\ Goto("block", "panic")
  /\ UNCHANGED <<index, state, chain, replay>>

\* BlockHead::new or handle_block_inner fails.
HeaderFails ==
  /\ AtBlock /\ batch[index].flaw = "header"
  /\ Goto("block", "error")
  /\ UNCHANGED <<index, state, chain, replay>>

\* Mutant: deposits keep the nonce 0 they come with.
WithNonces_Zero(block) == block.txs

\* Mutant: the nonce the sender used last.
WithNonces_LastUsed(block) ==
  [j \in DOMAIN block.txs |->
     IF block.txs[j].deposit
     THEN [block.txs[j] EXCEPT !.nonce = NonceOf(block.txs[j].from) - 1]
     ELSE block.txs[j]]

\* Every deposit of the block gets the nonce its sender has now, before any
\* transaction of the block is replayed.
WithNonces(block) ==
  [j \in DOMAIN block.txs |->
     IF block.txs[j].deposit
     THEN [block.txs[j] EXCEPT !.nonce = NonceOf(block.txs[j].from)]
     ELSE block.txs[j]]

\* The nonces, the header, and into handle_block_inner.
BeginBlock ==
  /\ AtBlock /\ batch[index].flaw \notin {"mint", "header"}
  /\ Goto("block", "txs")
  /\ txs' = WithNonces(batch[index])
  /\ next' = 1
  /\ headers' = headers \cup {batch[index].number}
  /\ UNCHANGED <<index, state, chain>>

\* gen_begin_tx_ops asserts the nonce of the sender ...
ReplayTx ==
  LET tx == txs[next]
  IN  /\ AtTx /\ tx.nonce = NonceOf(tx.from)
      /\ Goto("txs", "txs")
      /\ Insert([a \in {tx.from} |-> tx.nonce + 1])
      /\ next' = next + 1
      /\ UNCHANGED <<index, chain, txs, headers>>

\* ... and panics when it is another.
NoncePanics ==
  /\ AtTx /\ txs[next].nonce # NonceOf(txs[next].from)
  /\ Goto("txs", "panic")
  /\ UNCHANGED <<index, state, chain, replay>>

EndBlock ==
  /\ next > Len(txs)
  /\ Goto("txs", "block")
  /\ index' = index + 1
  /\ UNCHANGED <<state, chain, replay>>

\* set_end_block, block_convert, block_apply_mpt_state.
Convert ==
  /\ index > Len(batch)
  /\ Goto("block", "witness")
  /\ UNCHANGED <<index, state, chain, replay>>

Build ==
  \/ MergeProofs \/ ProofsFail \/ SetChain
  \/ CollectCode \/ CodeFails \/ CodePanics \/ CodeDone
  \/ MintPanics \/ HeaderFails \/ BeginBlock
  \/ ReplayTx \/ NoncePanics \/ EndBlock \/ Convert

-----------------------------------------------------------------------------
BuilderTypeOK ==
  /\ stage \in Stages
  /\ index \in 0..(Len(batch) + 1)
  /\ DOMAIN state \subseteq Accounts /\ \A a \in DOMAIN state : state[a] \in Nat
  /\ chain \in Nat
  /\ txs \in Seq(TxType)
  /\ next \in 1..(Len(txs) + 1)
  /\ headers \subseteq {batch[k].number : k \in DOMAIN batch}

(***************************************************************************)
(* When a block is about to be replayed, the state is the one its own      *)
(* proofs attest: merging the proofs of all blocks last to first gives the *)
(* state before the first, and replaying keeps up with the chain.          *)
(***************************************************************************)
ReplayAgreesWithProofs ==
  AtBlock =>
    \A a \in DOMAIN batch[index].proofs : NonceOf(a) = batch[index].proofs[a]

(***************************************************************************)
(* The witness has the chain id of the users' transactions of the batch,   *)
(* whatever deposits (of chain 0) come before them.                        *)
(***************************************************************************)
ChainOfUsers ==
  stage \in {"code", "block", "txs", "witness"} =>
    \A k \in DOMAIN batch : \A j \in DOMAIN batch[k].txs :
      ~ batch[k].txs[j].deposit => chain = batch[k].txs[j].chain

\* A batch the function can build: without a flaw, and with no deposit that
\* follows another transaction of its sender in one block.
LateDeposit(block) ==
  \E i, j \in DOMAIN block.txs :
    i < j /\ block.txs[j].deposit /\ block.txs[i].from = block.txs[j].from

Buildable(traces) ==
  \A k \in DOMAIN traces : traces[k].flaw = "none" /\ ~ LateDeposit(traces[k])

(***************************************************************************)
(* What the comment in the loop says: deposits are given the known nonce   *)
(* from the state, so that the assert of the replay does not fail.         *)
(***************************************************************************)
NonceKnown ==
  AtTx /\ txs[next].deposit =>
    txs[next].nonce = NonceOf(txs[next].from)
=============================================================================
