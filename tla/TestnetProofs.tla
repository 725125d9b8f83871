---------------------------- MODULE TestnetProofs ----------------------------
(***************************************************************************)
(* Theorems of MockTestnet and its WitnessBuilder, for any rollup whose    *)
(* batches are parts of a chain: blocks of any number of transactions, and *)
(* batches of any number of blocks.                                        *)
(***************************************************************************)
EXTENDS MockTestnet, FiniteSetTheorems, SequenceTheorems, TLAPS

-----------------------------------------------------------------------------
(* The inductive invariant.                                                *)

\* What has come and what is still wanted is one batch, of those to prove.
OneBatch ==
  /\ phase \in {"fetch", "build"} => current <= EndBatch
  /\ phase = "fetch" => traces \o wanted \in Batches
  /\ phase = "build" => traces \in Batches
  /\ traces \in Seq({traces[k] : k \in DOMAIN traces})
  /\ wanted \in Seq({wanted[k] : k \in DOMAIN wanted})

\* Outside of the build there is no call of the builder, but for one that
\* panicked.
CallsBuilder ==
  /\ phase \in {"loop", "fetch", "end"} => stage = "out"
  /\ phase = "panic" => stage \in {"out", "panic"}

\* Where the loops of the builder are.
InBounds ==
  /\ stage \in {"merge", "code"} => index \in 0..Len(batch)
  /\ stage = "block" => index \in 1..(Len(batch) + 1)
  /\ stage = "txs" => index \in 1..Len(batch)

\* What the state must be for the blocks from the k-th on: of each account
\* they touch, the nonce that the first of them to do so attests.
StateBefore(k) ==
  \A l \in DOMAIN batch : \A a \in DOMAIN batch[l].proofs :
    l >= k /\ (\A m \in k..(l - 1) : a \notin DOMAIN batch[m].proofs) =>
      Builder!NonceOf(a) = batch[l].proofs[a]

\* In the middle of a block: what it attests and the transactions replayed.
Replayed(a) == {j \in 1..(next - 1) : batch[index].txs[j].from = a}

MidBlock ==
  /\ DOMAIN txs = DOMAIN batch[index].txs
  /\ \A j \in DOMAIN txs :
       /\ txs[j].from = batch[index].txs[j].from
       /\ txs[j].nonce = IF batch[index].txs[j].deposit
                         THEN batch[index].proofs[txs[j].from]
                         ELSE batch[index].txs[j].nonce
  /\ \A a \in DOMAIN batch[index].proofs :
       Builder!NonceOf(a) = batch[index].proofs[a] + Cardinality(Replayed(a))
  /\ \A l \in DOMAIN batch : \A a \in DOMAIN batch[l].proofs :
       l > index /\ (\A m \in index..(l - 1) : a \notin DOMAIN batch[m].proofs) =>
         Builder!NonceOf(a) = batch[l].proofs[a]

KeepsUp ==
  /\ stage = "merge" => StateBefore(index + 1)
  /\ stage = "code" => StateBefore(1)
  /\ stage = "block" => StateBefore(index)
  /\ stage = "txs" => MidBlock

\* Whatever has been passed had no flaw of its kind; an error comes from one.
Passed(flaws, k) == \A l \in DOMAIN batch : l >= k => batch[l].flaw \notin flaws

FlawsPassed ==
  /\ stage = "merge" => Passed({"proofs"}, index + 1)
  /\ stage \in {"code", "block", "txs", "witness"} => Passed({"proofs"}, 1)
  /\ stage = "code" => Passed({"code_hex", "code_missing"}, index + 1)
  /\ stage \in {"block", "txs", "witness"} => Passed({"code_hex", "code_missing"}, 1)
  /\ stage = "block" =>
       \A l \in DOMAIN batch : l < index => batch[l].flaw \notin {"mint", "header"}
  /\ stage = "txs" =>
       \A l \in DOMAIN batch : l <= index => batch[l].flaw \notin {"mint", "header"}
  /\ stage = "witness" => \A l \in DOMAIN batch : batch[l].flaw = "none"
  /\ stage = "error" => \E l \in DOMAIN batch : batch[l].flaw # "none"

\* The headers are those of the blocks passed.
NumbersBelow(k) == {batch[l].number : l \in {m \in DOMAIN batch : m < k}}

HeadersKept ==
  /\ stage \in {"merge", "code"} => headers = {}
  /\ stage = "block" => headers = NumbersBelow(index)
  /\ stage = "txs" => headers = NumbersBelow(index + 1)

\* A batch that can be built does not fail, and its witness has all blocks.
BuildableIsBuilt ==
  Builder!Buildable(batch) =>
    /\ stage \notin {"error", "panic"}
    /\ stage = "witness" => headers = {batch[k].number : k \in DOMAIN batch}

BuildInv ==
  InBounds /\ KeepsUp /\ FlawsPassed /\ ChainOfUsers /\ HeadersKept /\ BuildableIsBuilt

\* What EachReported says of the reports, while the program runs.
ReportsSoFar ==
  \A k \in DOMAIN reports :
    /\ reports[k].buildable => reports[k].ok
    /\ reports[k].ok => reports[k].flawless

TestnetInv ==
  /\ TypeOK /\ OneBatch /\ CallsBuilder /\ BuildInv
  /\ ReportsSoFar /\ EachReported

-----------------------------------------------------------------------------
(* The steps of the builder.                                               *)

LEMMA BatchFacts ==
  ASSUME NEW b \in Batches
  PROVE  /\ Len(b) \in Nat /\ DOMAIN b = 1..Len(b)
         /\ b \in Seq({b[k] : k \in DOMAIN b})
         /\ \A k \in DOMAIN b :
              /\ b[k].txs \in Seq(Builder!TxType)
              /\ Len(b[k].txs) \in Nat /\ DOMAIN b[k].txs = 1..Len(b[k].txs)
              /\ DOMAIN b[k].proofs \subseteq Accounts
              /\ \A a \in DOMAIN b[k].proofs : b[k].proofs[a] \in Nat
              /\ \A j \in DOMAIN b[k].txs : b[k].txs[j].from \in DOMAIN b[k].proofs
<1>1. b \in Seq({b[k] : k \in DOMAIN b}) /\ \A k \in DOMAIN b : Builder!IsBlock(b[k])
  BY TestnetAssumption DEF Builder!GivenBatches
<1>2. Len(b) \in Nat /\ DOMAIN b = 1..Len(b)
  BY <1>1
<1>3. \A k \in DOMAIN b : \A j \in DOMAIN b[k].txs : b[k].txs[j].from \in DOMAIN b[k].proofs
  BY ChainAssumption DEF Builder!FromChain
<1> QED
  BY <1>1, <1>2, <1>3 DEF Builder!IsBlock

\* A call in progress.
InBuild == batch \in Batches /\ Builder!BuilderTypeOK /\ BuildInv

LEMMA BuildFacts ==
  ASSUME InBuild
  PROVE  /\ Len(batch) \in Nat /\ DOMAIN batch = 1..Len(batch) /\ index \in Nat
         /\ \A k \in DOMAIN batch :
              /\ batch[k].txs \in Seq(Builder!TxType)
              /\ Len(batch[k].txs) \in Nat /\ DOMAIN batch[k].txs = 1..Len(batch[k].txs)
              /\ DOMAIN batch[k].proofs \subseteq Accounts
              /\ \A a \in DOMAIN batch[k].proofs : batch[k].proofs[a] \in Nat
              /\ \A j \in DOMAIN batch[k].txs : batch[k].txs[j].from \in DOMAIN batch[k].proofs
<1>1. batch \in Batches
  BY DEF InBuild
<1>2. Len(batch) \in Nat
  BY <1>1, BatchFacts
<1>3. index \in Nat
  BY <1>2 DEF InBuild, Builder!BuilderTypeOK
<1> QED
  BY <1>1, <1>3, BatchFacts

\* The instance has an operator of its own.
LEMMA SameCardinality ==
  ASSUME NEW S
  PROVE  Builder!Cardinality(S) = Cardinality(S)
BY DEF Builder!Cardinality, Cardinality

LEMMA InsertNonces ==
  ASSUME NEW proofs, Builder!Insert(proofs)
  PROVE  /\ DOMAIN state' = DOMAIN state \cup DOMAIN proofs
         /\ \A a \in DOMAIN proofs : state'[a] = proofs[a]
         /\ \A a \in DOMAIN state \ DOMAIN proofs : state'[a] = state[a]
         /\ \A a \in DOMAIN proofs : Builder!NonceOf(a)' = proofs[a]
         /\ \A a : a \notin DOMAIN proofs => Builder!NonceOf(a)' = Builder!NonceOf(a)
BY DEF Builder!Insert, Builder!NonceOf

\* Proofs of one more block, before those of the later ones.
LEMMA MergeStep ==
  ASSUME InBuild, Builder!MergeProofs
  PROVE  InBuild'
<1>0. /\ stage = "merge" /\ stage' = "merge" /\ batch' = batch
      /\ index >= 1 /\ batch[index].flaw # "proofs" /\ index' = index - 1
      /\ Builder!Insert(batch[index].proofs)
      /\ UNCHANGED <<chain, txs, next, headers>>
  BY DEF Builder!MergeProofs, Builder!Goto, Builder!replay
<1>1. index \in DOMAIN batch /\ index \in Nat /\ Len(batch) \in Nat /\ DOMAIN batch = 1..Len(batch)
  BY <1>0, BuildFacts DEF InBuild, BuildInv, InBounds
<1>2. /\ DOMAIN batch[index].proofs \subseteq Accounts
      /\ \A a \in DOMAIN batch[index].proofs : batch[index].proofs[a] \in Nat
  BY <1>1, BuildFacts
<1>3. Builder!BuilderTypeOK'
  <2>1. DOMAIN state' \subseteq Accounts /\ \A a \in DOMAIN state' : state'[a] \in Nat
    BY <1>0, <1>2, InsertNonces DEF InBuild, Builder!BuilderTypeOK
  <2>2. index' \in 0..(Len(batch') + 1)
    BY <1>0, <1>1
  <2> QED
    BY <1>0, <2>1, <2>2 DEF InBuild, Builder!BuilderTypeOK, Builder!Stages, Builder!TxType
<1>4. InBounds'
  BY <1>0, <1>1 DEF InBounds
<1>5. KeepsUp'
  <2> SUFFICES StateBefore(index + 1)'
    BY <1>0 DEF KeepsUp
  <2> SUFFICES ASSUME NEW l \in DOMAIN batch, NEW a \in DOMAIN batch[l].proofs, l >= index,
                      \A m \in index..(l - 1) : a \notin DOMAIN batch[m].proofs
               PROVE  Builder!NonceOf(a)' = batch[l].proofs[a]
    <3>1. index' + 1 = index
      BY <1>0, <1>1
    <3> QED
      BY <1>0, <3>1 DEF StateBefore
  <2>1. CASE l = index
    BY <1>0, <2>1, InsertNonces
  <2>2. CASE l # index
    <3>1. l >= index + 1 /\ index \in index..(l - 1)
      BY <1>1, <2>2
    <3>2. \A m \in (index + 1)..(l - 1) : m \in index..(l - 1)
      BY <1>1
    <3>3. Builder!NonceOf(a) = batch[l].proofs[a]
      BY <1>0, <3>1, <3>2 DEF InBuild, BuildInv, KeepsUp, StateBefore
    <3>4. a \notin DOMAIN batch[index].proofs
      BY <3>1
    <3> QED
      BY <1>0, <3>3, <3>4, InsertNonces
  <2> QED
    BY <2>1, <2>2
<1>6. FlawsPassed'
  <2>1. \A l \in DOMAIN batch : l >= index => l = index \/ l >= index + 1
    BY <1>1
  <2> QED
    BY <1>0, <1>1, <2>1 DEF InBuild, BuildInv, FlawsPassed, Passed
<1>7. ChainOfUsers'
  BY <1>0 DEF ChainOfUsers, Builder!ChainOfUsers
<1>8. HeadersKept' /\ BuildableIsBuilt'
  BY <1>0 DEF InBuild, BuildInv, HeadersKept, BuildableIsBuilt
<1> QED
  BY <1>0, <1>3, <1>4, <1>5, <1>6, <1>7, <1>8 DEF InBuild, BuildInv

\* The state before the batch stays while the codes are collected.
LEMMA StateStays ==
  ASSUME UNCHANGED <<batch, state>>
  PROVE  /\ \A k : StateBefore(k)' <=> StateBefore(k)
         /\ \A a : Builder!NonceOf(a)' = Builder!NonceOf(a)
BY DEF StateBefore, Builder!NonceOf

LEMMA ChainStep ==
  ASSUME InBuild, Builder!SetChain
  PROVE  InBuild'
<1>0. /\ stage = "merge" /\ stage' = "code" /\ batch' = batch
      /\ index = 0 /\ index' = Len(batch)
      /\ UNCHANGED <<state, txs, next, headers>>
  BY DEF Builder!SetChain, Builder!Goto, Builder!replay
<1>1. Len(batch) \in Nat /\ DOMAIN batch = 1..Len(batch)
  BY BuildFacts
<1>2. chain' \in Nat
  <2>1. CASE chain' = ChainId
    BY <2>1, TestnetAssumption DEF Builder!GivenBatches
  <2>2. CASE \E k \in DOMAIN batch : \E j \in DOMAIN batch[k].txs :
               chain' = batch[k].txs[j].chain
    <3>1. PICK k \in DOMAIN batch : \E j \in DOMAIN batch[k].txs :
            chain' = batch[k].txs[j].chain
      BY <2>2
    <3>2. batch[k].txs \in Seq(Builder!TxType)
      BY BuildFacts
    <3>3. \A j \in DOMAIN batch[k].txs : batch[k].txs[j] \in Builder!TxType
      BY <3>2
    <3> QED
      BY <3>1, <3>3 DEF Builder!TxType
  <2> QED
    BY <2>1, <2>2 DEF Builder!SetChain
<1>3. Builder!BuilderTypeOK'
  BY <1>0, <1>1, <1>2 DEF InBuild, Builder!BuilderTypeOK, Builder!Stages, Builder!TxType
<1>4. InBounds'
  BY <1>0, <1>1 DEF InBounds
<1>5. KeepsUp'
  BY <1>0, StateStays DEF InBuild, BuildInv, KeepsUp
<1>6. FlawsPassed'
  <2>1. \A l \in DOMAIN batch : ~ l >= Len(batch) + 1
    BY <1>1
  <2> QED
    BY <1>0, <2>1 DEF InBuild, BuildInv, FlawsPassed, Passed
<1>7. ChainOfUsers'
  <2> SUFFICES ASSUME NEW k \in DOMAIN batch, NEW j \in DOMAIN batch[k].txs,
                      ~ batch[k].txs[j].deposit
               PROVE  chain' = batch[k].txs[j].chain
    BY <1>0 DEF ChainOfUsers, Builder!ChainOfUsers
  <2>1. PICK l \in DOMAIN batch : \E i \in DOMAIN batch[l].txs :
          Builder!FirstToGive(l, i) /\ chain' = batch[l].txs[i].chain
    BY DEF Builder!SetChain, Builder!GivesChain
  <2>2. PICK i \in DOMAIN batch[l].txs :
          ~ batch[l].txs[i].deposit /\ chain' = batch[l].txs[i].chain
    BY <2>1 DEF Builder!FirstToGive, Builder!GivesChain
  <2> QED
    BY <2>2, ChainAssumption DEF InBuild, Builder!FromChain
<1>8. HeadersKept' /\ BuildableIsBuilt'
  BY <1>0 DEF InBuild, BuildInv, HeadersKept, BuildableIsBuilt
<1> QED
  BY <1>0, <1>3, <1>4, <1>5, <1>6, <1>7, <1>8 DEF InBuild, BuildInv

LEMMA CodeSteps ==
  ASSUME InBuild, Builder!CollectCode \/ Builder!CodeDone
  PROVE  InBuild'
<1>0. /\ stage = "code" /\ batch' = batch
      /\ UNCHANGED <<state, chain, txs, next, headers>>
      /\ \/ /\ stage' = "code" /\ index >= 1 /\ index' = index - 1
            /\ batch[index].flaw \notin {"code_hex", "code_missing"}
         \/ stage' = "block" /\ index = 0 /\ index' = 1
  BY DEF Builder!CollectCode, Builder!CodeDone, Builder!Goto, Builder!replay
<1>1. index \in 0..Len(batch) /\ Len(batch) \in Nat /\ DOMAIN batch = 1..Len(batch)
  BY <1>0, BuildFacts DEF InBuild, BuildInv, InBounds
<1>2. Builder!BuilderTypeOK'
  <2>1. index' \in 0..(Len(batch') + 1) /\ stage' \in Builder!Stages
    BY <1>0, <1>1 DEF Builder!Stages
  <2> QED
    BY <1>0, <2>1 DEF InBuild, Builder!BuilderTypeOK, Builder!TxType
<1>3. InBounds'
  BY <1>0, <1>1 DEF InBounds
<1>4. KeepsUp'
  BY <1>0, StateStays DEF InBuild, BuildInv, KeepsUp
<1>5. FlawsPassed'
  <2>1. \A l \in DOMAIN batch : /\ l >= index => l = index \/ l >= index + 1
                                /\ index = 0 => l >= index + 1
                                /\ l >= 1 /\ ~ l < 1
    BY <1>1
  <2> QED
    BY <1>0, <1>1, <2>1 DEF InBuild, BuildInv, FlawsPassed, Passed
<1>6. ChainOfUsers'
  BY <1>0 DEF InBuild, BuildInv, ChainOfUsers, Builder!ChainOfUsers
<1>7. HeadersKept' /\ BuildableIsBuilt'
  <2>1. \A l \in DOMAIN batch : ~ l < 1
    BY <1>1
  <2> QED
    BY <1>0, <2>1 DEF InBuild, BuildInv, HeadersKept, NumbersBelow, BuildableIsBuilt
<1> QED
  BY <1>0, <1>2, <1>3, <1>4, <1>5, <1>6, <1>7 DEF InBuild, BuildInv

\* The deposits of a block get the nonces of the state.
LEMMA BeginStep ==
  ASSUME InBuild, Builder!BeginBlock
  PROVE  InBuild'
<1>0. /\ stage = "block" /\ stage' = "txs" /\ batch' = batch
      /\ index <= Len(batch) /\ batch[index].flaw \notin {"mint", "header"}
      /\ txs' = Builder!WithNonces(batch[index]) /\ next' = 1
      /\ headers' = headers \cup {batch[index].number}
      /\ UNCHANGED <<index, state, chain>>
  BY DEF Builder!BeginBlock, Builder!AtBlock, Builder!Goto
<1>1. index \in 1..Len(batch) /\ Len(batch) \in Nat /\ DOMAIN batch = 1..Len(batch)
  BY <1>0, BuildFacts DEF InBuild, BuildInv, InBounds
<1> DEFINE given == batch[index].txs
<1>2. /\ given \in Seq(Builder!TxType) /\ Len(given) \in Nat /\ DOMAIN given = 1..Len(given)
      /\ \A a \in DOMAIN batch[index].proofs : batch[index].proofs[a] \in Nat
  BY <1>1, BuildFacts
<1>3. \A a : a \in Accounts => Builder!NonceOf(a) \in Nat
  BY DEF InBuild, Builder!BuilderTypeOK, Builder!NonceOf
<1>4. /\ DOMAIN txs' = DOMAIN given /\ txs' = [j \in 1..Len(given) |-> txs'[j]]
      /\ \A j \in DOMAIN given :
           /\ txs'[j] \in Builder!TxType /\ txs'[j].from = given[j].from
           /\ txs'[j].nonce = IF given[j].deposit THEN Builder!NonceOf(given[j].from)
                              ELSE given[j].nonce
  <2>1. ASSUME NEW j \in DOMAIN given
        PROVE  /\ txs'[j] \in Builder!TxType /\ txs'[j].from = given[j].from
               /\ txs'[j].nonce = IF given[j].deposit THEN Builder!NonceOf(given[j].from)
                                  ELSE given[j].nonce
    <3>1. given[j] \in Builder!TxType
      BY <1>2
    <3>2. given[j].from \in Accounts
      BY <3>1 DEF Builder!TxType
    <3>3. txs'[j] = IF given[j].deposit
                    THEN [given[j] EXCEPT !.nonce = Builder!NonceOf(given[j].from)]
                    ELSE given[j]
      BY <1>0 DEF Builder!WithNonces
    <3>4. Builder!NonceOf(given[j].from) \in Nat
      BY <1>3, <3>2
    <3> HIDE DEF given
    <3> QED
      BY <3>1, <3>3, <3>4 DEF Builder!TxType
  <2>2. DOMAIN txs' = DOMAIN given /\ txs' = [j \in 1..Len(given) |-> txs'[j]]
    BY <1>0, <1>2 DEF Builder!WithNonces
  <2> QED
    BY <2>1, <2>2
<1>5. txs' \in Seq(Builder!TxType) /\ Len(txs') \in Nat /\ DOMAIN txs' = 1..Len(txs')
  <2> HIDE DEF given
  <2> QED
    BY <1>2, <1>4
<1>6. Builder!BuilderTypeOK'
  <2>1. next' \in 1..(Len(txs') + 1)
    BY <1>0, <1>5
  <2>2. headers' \subseteq {batch'[k].number : k \in DOMAIN batch'}
    BY <1>0, <1>1 DEF InBuild, Builder!BuilderTypeOK
  <2> QED
    BY <1>0, <1>5, <2>1, <2>2 DEF InBuild, Builder!BuilderTypeOK, Builder!Stages, Builder!TxType
<1>7. InBounds'
  BY <1>0, <1>1 DEF InBounds
<1>8. KeepsUp'
  <2>1. StateBefore(index)
    BY <1>0 DEF InBuild, BuildInv, KeepsUp
  <2>2. \A a : Builder!NonceOf(a)' = Builder!NonceOf(a)
    BY <1>0, StateStays
  <2>3. ASSUME NEW a \in DOMAIN batch[index].proofs
        PROVE  /\ Builder!NonceOf(a) = batch[index].proofs[a]
               /\ Builder!NonceOf(a) = batch[index].proofs[a] + Cardinality(Replayed(a))'
    <3>1. Replayed(a)' = {}
      BY <1>0 DEF Replayed
    <3>2. Cardinality(Replayed(a))' = 0
      BY <3>1, FS_EmptySet
    <3>3. \A m \in index..(index - 1) : FALSE
      BY <1>1
    <3>4. Builder!NonceOf(a) = batch[index].proofs[a]
      BY <1>1, <2>1, <3>3 DEF StateBefore
    <3> QED
      BY <1>2, <3>2, <3>4
  <2>4. ASSUME NEW l \in DOMAIN batch, NEW a \in DOMAIN batch[l].proofs, l > index,
               \A m \in index..(l - 1) : a \notin DOMAIN batch[m].proofs
        PROVE  Builder!NonceOf(a) = batch[l].proofs[a]
    <3>1. l >= index
      BY <1>1, <2>4
    <3> QED
      BY <2>1, <2>4, <3>1 DEF StateBefore
  <2>5. \A j \in DOMAIN txs' :
          txs'[j].nonce = IF given[j].deposit THEN batch[index].proofs[txs'[j].from]
                          ELSE given[j].nonce
    <3>1. \A j \in DOMAIN given : given[j].from \in DOMAIN batch[index].proofs
      BY <1>1, BuildFacts
    <3> QED
      BY <1>4, <2>3, <3>1
  <2>6. MidBlock'
    BY <1>0, <1>4, <2>2, <2>3, <2>4, <2>5 DEF MidBlock
  <2> QED
    BY <1>0, <2>6 DEF KeepsUp
<1>9. FlawsPassed'
  <2>1. \A l \in DOMAIN batch : l <= index => l < index \/ l = index
    BY <1>1
  <2> QED
    BY <1>0, <1>1, <2>1 DEF InBuild, BuildInv, FlawsPassed, Passed
<1>10. ChainOfUsers'
  BY <1>0 DEF InBuild, BuildInv, ChainOfUsers, Builder!ChainOfUsers
<1>11. HeadersKept' /\ BuildableIsBuilt'
  <2>1. \A l \in DOMAIN batch : l < index + 1 <=> l < index \/ l = index
    BY <1>1
  <2>2. headers = NumbersBelow(index)
    BY <1>0 DEF InBuild, BuildInv, HeadersKept
  <2>3. headers' = NumbersBelow(index + 1)
    BY <1>0, <1>1, <2>1, <2>2 DEF NumbersBelow
  <2> QED
    BY <1>0, <2>3 DEF HeadersKept, NumbersBelow, BuildableIsBuilt
<1> QED
  BY <1>0, <1>6, <1>7, <1>8, <1>9, <1>10, <1>11 DEF InBuild, BuildInv

\* A transaction more: the nonce of its sender goes up by one.
LEMMA ReplayStep ==
  ASSUME InBuild, Builder!ReplayTx
  PROVE  InBuild'
<1>0. /\ stage = "txs" /\ stage' = "txs" /\ batch' = batch
      /\ next <= Len(txs) /\ txs[next].nonce = Builder!NonceOf(txs[next].from)
      /\ Builder!Insert([a \in {txs[next].from} |-> txs[next].nonce + 1])
      /\ next' = next + 1
      /\ UNCHANGED <<index, chain, txs, headers>>
  BY DEF Builder!ReplayTx, Builder!AtTx, Builder!Goto
<1>1. index \in 1..Len(batch) /\ Len(batch) \in Nat /\ DOMAIN batch = 1..Len(batch)
  BY <1>0, BuildFacts DEF InBuild, BuildInv, InBounds
<1>2. /\ DOMAIN batch[index].txs = 1..Len(batch[index].txs) /\ Len(batch[index].txs) \in Nat
      /\ \A a \in DOMAIN batch[index].proofs : batch[index].proofs[a] \in Nat
      /\ \A j \in DOMAIN batch[index].txs : batch[index].txs[j].from \in DOMAIN batch[index].proofs
  BY <1>1, BuildFacts
<1>3. /\ txs \in Seq(Builder!TxType) /\ next \in 1..(Len(txs) + 1)
  BY DEF InBuild, Builder!BuilderTypeOK, Builder!TxType
<1>4. next \in DOMAIN txs /\ next \in Nat /\ txs[next] \in Builder!TxType
  BY <1>0, <1>3
<1>5. MidBlock
  BY <1>0 DEF InBuild, BuildInv, KeepsUp
<1>s. PICK sender : sender = txs[next].from
  OBVIOUS
<1>6. /\ sender \in Accounts /\ txs[next].nonce \in Nat
      /\ sender = batch[index].txs[next].from /\ sender \in DOMAIN batch[index].proofs
  BY <1>s, <1>2, <1>4, <1>5 DEF MidBlock, Builder!TxType
<1>7. /\ DOMAIN state' = DOMAIN state \cup {sender}
      /\ state'[sender] = txs[next].nonce + 1
      /\ \A a \in DOMAIN state \ {sender} : state'[a] = state[a]
      /\ Builder!NonceOf(sender)' = Builder!NonceOf(sender) + 1
      /\ \A a : a # sender => Builder!NonceOf(a)' = Builder!NonceOf(a)
  <2>1. PICK proofs : proofs = [a \in {sender} |-> txs[next].nonce + 1]
    OBVIOUS
  <2>2. Builder!Insert(proofs)
    BY <1>0, <1>s, <2>1
  <2>3. DOMAIN proofs = {sender} /\ proofs[sender] = txs[next].nonce + 1
    BY <2>1
  <2>4. txs[next].nonce = Builder!NonceOf(sender)
    BY <1>0, <1>s
  <2> QED
    BY <2>2, <2>3, <2>4, InsertNonces
<1>8. Builder!BuilderTypeOK'
  <2>1. DOMAIN state' \subseteq Accounts /\ \A a \in DOMAIN state' : state'[a] \in Nat
    BY <1>6, <1>7 DEF InBuild, Builder!BuilderTypeOK
  <2>2. next' \in 1..(Len(txs') + 1)
    BY <1>0, <1>3
  <2> QED
    BY <1>0, <2>1, <2>2 DEF InBuild, Builder!BuilderTypeOK, Builder!Stages, Builder!TxType
<1>9. InBounds'
  BY <1>0 DEF InBuild, BuildInv, InBounds
<1>10. MidBlock'
  <2>1. ASSUME NEW a \in DOMAIN batch[index].proofs
        PROVE  Builder!NonceOf(a)' = batch[index].proofs[a] + Cardinality(Replayed(a))'
    <3>0. /\ IsFiniteSet(Replayed(a)) /\ next \notin Replayed(a)
          /\ Cardinality(Replayed(a)) \in Nat
      <4>1. Replayed(a) \in SUBSET (1..(next - 1))
        BY DEF Replayed
      <4>2. IsFiniteSet(1..(next - 1))
        BY <1>4, FS_Interval
      <4>3. IsFiniteSet(Replayed(a))
        BY <4>1, <4>2, FS_Subset
      <4> QED
        BY <1>4, <4>1, <4>3, FS_CardinalityType
    <3>1. CASE a = sender
      <4>1. Replayed(a)' = Replayed(a) \cup {next}
        BY <1>0, <1>4, <1>6, <3>1 DEF Replayed
      <4>2. Cardinality(Replayed(a) \cup {next}) = Cardinality(Replayed(a)) + 1
        BY <3>0, FS_AddElement
      <4>3. Cardinality(Replayed(a))' = Cardinality(Replayed(a)) + 1
        BY <4>1, <4>2
      <4>4. Builder!NonceOf(a) = batch[index].proofs[a] + Cardinality(Replayed(a))
        BY <1>5 DEF MidBlock
      <4>5. batch[index].proofs[a] \in Nat
        BY <1>2
      <4>6. Builder!NonceOf(a)' = Builder!NonceOf(a) + 1
        BY <1>7, <3>1
      <4> QED
        BY <3>0, <4>3, <4>4, <4>5, <4>6
    <3>2. CASE a # sender
      <4>1. Replayed(a)' = Replayed(a)
        BY <1>0, <1>4, <1>6, <3>2 DEF Replayed
      <4> QED
        BY <1>5, <1>7, <3>2, <4>1 DEF MidBlock
    <3> QED
      BY <3>1, <3>2
  <2>2. ASSUME NEW l \in DOMAIN batch, NEW a \in DOMAIN batch[l].proofs, l > index,
               \A m \in index..(l - 1) : a \notin DOMAIN batch[m].proofs
        PROVE  Builder!NonceOf(a)' = batch[l].proofs[a]
    <3>1. index \in index..(l - 1)
      BY <1>1, <2>2
    <3>2. a # sender
      BY <1>6, <2>2, <3>1
    <3> QED
      BY <1>5, <1>7, <2>2, <3>2 DEF MidBlock
  <2> QED
    BY <1>0, <1>5, <2>1, <2>2 DEF MidBlock
<1>11. KeepsUp' /\ FlawsPassed' /\ ChainOfUsers'
  BY <1>0, <1>10 DEF InBuild, BuildInv, KeepsUp, FlawsPassed, Passed, ChainOfUsers,
                     Builder!ChainOfUsers
<1>12. HeadersKept' /\ BuildableIsBuilt'
  BY <1>0 DEF InBuild, BuildInv, HeadersKept, NumbersBelow, BuildableIsBuilt
<1> QED
  BY <1>0, <1>8, <1>9, <1>11, <1>12 DEF InBuild, BuildInv

\* All transactions of the block: the state is the one before the next block.
LEMMA EndStep ==
  ASSUME InBuild, Builder!EndBlock
  PROVE  InBuild'
<1>0. /\ stage = "txs" /\ stage' = "block" /\ batch' = batch
      /\ next > Len(txs) /\ index' = index + 1
      /\ UNCHANGED <<state, chain, txs, next, headers>>
  BY DEF Builder!EndBlock, Builder!Goto, Builder!replay
<1>1. index \in 1..Len(batch) /\ Len(batch) \in Nat /\ DOMAIN batch = 1..Len(batch)
  BY <1>0, BuildFacts DEF InBuild, BuildInv, InBounds
<1>2. Builder!BuilderTypeOK'
  <2>1. index' \in 0..(Len(batch') + 1)
    BY <1>0, <1>1
  <2> QED
    BY <1>0, <2>1 DEF InBuild, Builder!BuilderTypeOK, Builder!Stages, Builder!TxType
<1>3. InBounds'
  BY <1>0, <1>1 DEF InBounds
<1>4. MidBlock
  BY <1>0 DEF InBuild, BuildInv, KeepsUp
<1>5. 1..(next - 1) = DOMAIN batch[index].txs
  <2>1. txs \in Seq(Builder!TxType) /\ next \in 1..(Len(txs) + 1)
    BY DEF InBuild, Builder!BuilderTypeOK, Builder!TxType
  <2>2. Len(txs) \in Nat /\ DOMAIN txs = 1..Len(txs)
    BY <2>1
  <2>3. next - 1 = Len(txs)
    BY <1>0, <2>1, <2>2
  <2> QED
    BY <1>4, <2>2, <2>3 DEF MidBlock
<1>6. \A a : Replayed(a) = Builder!SentBy(batch[index], a)
  BY <1>5 DEF Replayed, Builder!SentBy
<1>7. StateBefore(index + 1)
  <2> SUFFICES ASSUME NEW l \in DOMAIN batch, NEW a \in DOMAIN batch[l].proofs,
                      l >= index + 1,
                      \A m \in (index + 1)..(l - 1) : a \notin DOMAIN batch[m].proofs
               PROVE  Builder!NonceOf(a) = batch[l].proofs[a]
    BY DEF StateBefore
  <2>0. index < l /\ l > index
    BY <1>1
  <2>1. CASE a \in DOMAIN batch[index].proofs
    <3>1. \A k \in DOMAIN batch : \A b \in DOMAIN batch[k].proofs \cap DOMAIN batch[l].proofs :
            k < l /\ (\A m \in (k + 1)..(l - 1) : b \notin DOMAIN batch[m].proofs) =>
              batch[l].proofs[b]
                = batch[k].proofs[b] + Builder!Cardinality(Builder!SentBy(batch[k], b))
      BY ChainAssumption, Zenon DEF InBuild, Builder!FromChain
    <3>2. batch[l].proofs[a]
            = batch[index].proofs[a] + Builder!Cardinality(Builder!SentBy(batch[index], a))
      <4>1. index \in DOMAIN batch
        BY <1>1
      <4> QED
        BY <2>0, <2>1, <3>1, <4>1, Zenon
    <3>3. Builder!NonceOf(a) = batch[index].proofs[a] + Cardinality(Replayed(a))
      BY <1>4, <2>1 DEF MidBlock
    <3> QED
      BY <1>6, <3>2, <3>3, SameCardinality
  <2>2. CASE a \notin DOMAIN batch[index].proofs
    <3>1. \A m \in index..(l - 1) : m = index \/ m \in (index + 1)..(l - 1)
      BY <1>1
    <3> QED
      BY <1>4, <2>0, <2>2, <3>1 DEF MidBlock
  <2> QED
    BY <2>1, <2>2
<1>8. KeepsUp'
  <2>1. StateBefore(index)'
    BY <1>0, <1>7 DEF StateBefore, Builder!NonceOf
  <2> QED
    BY <1>0, <2>1 DEF KeepsUp
<1>9. FlawsPassed'
  <2>1. \A l \in DOMAIN batch : l < index + 1 => l <= index
    BY <1>1
  <2> QED
    BY <1>0, <2>1 DEF InBuild, BuildInv, FlawsPassed, Passed
<1>10. ChainOfUsers'
  BY <1>0 DEF InBuild, BuildInv, ChainOfUsers, Builder!ChainOfUsers
<1>11. HeadersKept' /\ BuildableIsBuilt'
  BY <1>0 DEF InBuild, BuildInv, HeadersKept, NumbersBelow, BuildableIsBuilt
<1> QED
  BY <1>0, <1>2, <1>3, <1>8, <1>9, <1>10, <1>11 DEF InBuild, BuildInv

\* After the last block there is no flaw left that a batch could have.
LEMMA ConvertStep ==
  ASSUME InBuild, Builder!Convert
  PROVE  InBuild'
<1>0. /\ stage = "block" /\ stage' = "witness" /\ index > Len(batch)
      /\ UNCHANGED <<batch, index, state, chain, txs, next, headers>>
  BY DEF Builder!Convert, Builder!Goto, Builder!replay
<1>1. Len(batch) \in Nat /\ DOMAIN batch = 1..Len(batch) /\ index \in Nat
  BY BuildFacts
<1>2. \A l \in DOMAIN batch : batch[l].flaw = "none"
  <2>1. \A l \in DOMAIN batch : batch[l].flaw \in Builder!Flaws
    BY TestnetAssumption DEF InBuild, Builder!GivenBatches, Builder!IsBlock
  <2>2. \A l \in DOMAIN batch : l >= 1 /\ l < index
    BY <1>0, <1>1
  <2> QED
    BY <1>0, <2>1, <2>2 DEF InBuild, BuildInv, FlawsPassed, Passed, Builder!Flaws
<1>3. Builder!BuilderTypeOK'
  BY <1>0 DEF InBuild, Builder!BuilderTypeOK, Builder!Stages, Builder!TxType
<1>4. InBounds' /\ KeepsUp'
  BY <1>0 DEF InBounds, KeepsUp
<1>5. FlawsPassed' /\ ChainOfUsers'
  BY <1>0, <1>2 DEF InBuild, BuildInv, FlawsPassed, Passed, ChainOfUsers, Builder!ChainOfUsers
<1>6. HeadersKept' /\ BuildableIsBuilt'
  <2>1. \A l \in DOMAIN batch : l < index
    BY <1>0, <1>1
  <2>2. headers = NumbersBelow(index)
    BY <1>0 DEF InBuild, BuildInv, HeadersKept
  <2>3. headers = {batch[k].number : k \in DOMAIN batch}
    BY <2>1, <2>2 DEF NumbersBelow
  <2> QED
    BY <1>0, <2>3 DEF HeadersKept, BuildableIsBuilt
<1> QED
  BY <1>0, <1>3, <1>4, <1>5, <1>6 DEF InBuild, BuildInv

\* The transactions of a batch that can be built have the nonces that the
\* replay asserts: those of users by the chain, those of deposits because
\* nothing of their sender was replayed before them.
LEMMA NonceFits ==
  ASSUME InBuild, Builder!AtTx, Builder!Buildable(batch)
  PROVE  txs[next].nonce = Builder!NonceOf(txs[next].from)
<1>0. stage = "txs" /\ next <= Len(txs)
  BY DEF Builder!AtTx
<1>1. index \in 1..Len(batch) /\ index \in DOMAIN batch
  BY <1>0, BuildFacts DEF InBuild, BuildInv, InBounds
<1>2. /\ DOMAIN batch[index].txs = 1..Len(batch[index].txs) /\ Len(batch[index].txs) \in Nat
      /\ \A a \in DOMAIN batch[index].proofs : batch[index].proofs[a] \in Nat
      /\ \A j \in DOMAIN batch[index].txs : batch[index].txs[j].from \in DOMAIN batch[index].proofs
  BY <1>1, BuildFacts
<1>3. txs \in Seq(Builder!TxType) /\ next \in 1..(Len(txs) + 1)
  BY DEF InBuild, Builder!BuilderTypeOK, Builder!TxType
<1>4. MidBlock
  BY <1>0 DEF InBuild, BuildInv, KeepsUp
<1>5. next \in DOMAIN txs /\ next \in DOMAIN batch[index].txs /\ next \in Nat
  BY <1>0, <1>3, <1>4 DEF MidBlock
<1>6. PICK sender : sender = txs[next].from
  OBVIOUS
<1>7. sender = batch[index].txs[next].from /\ sender \in DOMAIN batch[index].proofs
  BY <1>2, <1>4, <1>5, <1>6 DEF MidBlock
<1>8. Builder!NonceOf(sender) = batch[index].proofs[sender] + Cardinality(Replayed(sender))
  BY <1>4, <1>7 DEF MidBlock
<1>9. CASE ~ batch[index].txs[next].deposit
  <2>1. Replayed(sender) = Builder!SentBefore(batch[index], sender, next)
    BY <1>2, <1>5 DEF Replayed, Builder!SentBefore, Builder!SentBy
  <2>2. batch[index].txs[next].nonce
          = batch[index].proofs[sender]
              + Builder!Cardinality(Builder!SentBefore(batch[index], sender, next))
    BY <1>1, <1>5, <1>7, <1>9, ChainAssumption, Zenon DEF InBuild, Builder!FromChain
  <2>3. txs[next].nonce = batch[index].txs[next].nonce
    BY <1>4, <1>5, <1>9 DEF MidBlock
  <2> QED
    BY <1>6, <1>8, <2>1, <2>2, <2>3, SameCardinality
<1>10. CASE batch[index].txs[next].deposit
  <2>1. ~ Builder!LateDeposit(batch[index])
    BY <1>1 DEF Builder!Buildable
  <2>2. Replayed(sender) = {}
    <3>1. \A j \in Replayed(sender) : j \in DOMAIN batch[index].txs /\ j < next
      BY <1>2, <1>5 DEF Replayed
    <3> QED
      BY <1>5, <1>7, <1>10, <2>1, <3>1 DEF Replayed, Builder!LateDeposit
  <2>3. Cardinality(Replayed(sender)) = 0
    BY <2>2, FS_EmptySet
  <2>4. txs[next].nonce = batch[index].proofs[sender]
    BY <1>4, <1>5, <1>6, <1>10 DEF MidBlock
  <2>5. batch[index].proofs[sender] \in Nat
    BY <1>2, <1>7
  <2> QED
    BY <1>6, <1>8, <2>3, <2>4, <2>5
<1> QED
  BY <1>9, <1>10

\* The steps with which the builder fails.
LEMMA FailSteps ==
  ASSUME InBuild,
         \/ Builder!ProofsFail \/ Builder!CodeFails \/ Builder!CodePanics
         \/ Builder!MintPanics \/ Builder!HeaderFails \/ Builder!NoncePanics
  PROVE  InBuild'
<1>1. Len(batch) \in Nat /\ DOMAIN batch = 1..Len(batch) /\ index \in Nat
  BY BuildFacts
<1>2. /\ batch' = batch /\ UNCHANGED <<index, state, chain, txs, next, headers>>
      /\ stage' \in {"error", "panic"}
      /\ stage' = "error" => \E l \in DOMAIN batch : batch[l].flaw # "none"
      /\ ~ Builder!Buildable(batch)
  <2> USE DEF Builder!Goto, Builder!replay
  <2>1. CASE Builder!ProofsFail
    BY <1>1, <2>1 DEF Builder!ProofsFail, InBuild, BuildInv, InBounds, Builder!Buildable
  <2>2. CASE Builder!CodeFails \/ Builder!CodePanics
    BY <1>1, <2>2 DEF Builder!CodeFails, Builder!CodePanics, InBuild, BuildInv, InBounds,
                      Builder!Buildable
  <2>3. CASE Builder!MintPanics \/ Builder!HeaderFails
    BY <1>1, <2>3 DEF Builder!MintPanics, Builder!HeaderFails, Builder!AtBlock, InBuild, BuildInv,
                      InBounds, Builder!Buildable
  <2>4. CASE Builder!NoncePanics
    BY <2>4, NonceFits DEF Builder!NoncePanics
  <2> QED
    BY <2>1, <2>2, <2>3, <2>4
<1>3. Builder!BuilderTypeOK'
  BY <1>2 DEF InBuild, Builder!BuilderTypeOK, Builder!Stages, Builder!TxType
<1>4. InBounds' /\ KeepsUp' /\ ChainOfUsers' /\ HeadersKept'
  BY <1>2 DEF InBounds, KeepsUp, ChainOfUsers, Builder!ChainOfUsers, HeadersKept
<1>5. FlawsPassed'
  BY <1>2 DEF FlawsPassed
<1>6. BuildableIsBuilt'
  BY <1>2 DEF BuildableIsBuilt, Builder!Buildable
<1> QED
  BY <1>2, <1>3, <1>4, <1>5, <1>6 DEF InBuild, BuildInv

\* Any step of the builder.
LEMMA BuilderStep ==
  ASSUME InBuild, Builder!Build
  PROVE  InBuild' /\ batch' = batch /\ stage' # "out"
<1>1. InBuild'
  BY MergeStep, ChainStep, CodeSteps, FailSteps, BeginStep, ReplayStep, EndStep, ConvertStep
     DEF Builder!Build
<1>2. batch' = batch /\ stage' # "out"
  BY DEF Builder!Build, Builder!Goto, Builder!MergeProofs, Builder!ProofsFail, Builder!SetChain,
         Builder!CollectCode, Builder!CodeFails, Builder!CodePanics, Builder!CodeDone,
         Builder!MintPanics, Builder!HeaderFails, Builder!BeginBlock, Builder!ReplayTx,
         Builder!NoncePanics, Builder!EndBlock, Builder!Convert
<1> QED
  BY <1>1, <1>2

-----------------------------------------------------------------------------
(* The calls of the builder.                                               *)

LEMMA BuilderStarts ==
  ASSUME Builder!BuilderInit
  PROVE  Builder!BuilderTypeOK /\ BuildInv /\ stage = "out"
BY TestnetAssumption
   DEF Builder!BuilderInit, Builder!BuilderTypeOK, Builder!Stages, Builder!GivenBatches,
       BuildInv, InBounds, KeepsUp, FlawsPassed, ChainOfUsers, Builder!ChainOfUsers,
       HeadersKept, BuildableIsBuilt

LEMMA BuilderLeaves ==
  ASSUME Builder!BuilderLeft
  PROVE  Builder!BuilderTypeOK' /\ BuildInv' /\ stage' = "out"
BY TestnetAssumption
   DEF Builder!BuilderLeft, Builder!BuilderTypeOK, Builder!Stages, Builder!GivenBatches,
       BuildInv, InBounds, KeepsUp, FlawsPassed, ChainOfUsers, Builder!ChainOfUsers,
       HeadersKept, BuildableIsBuilt

LEMMA BuilderRests ==
  ASSUME Builder!BuilderTypeOK, BuildInv, UNCHANGED builderVars
  PROVE  Builder!BuilderTypeOK' /\ BuildInv' /\ stage' = stage /\ batch' = batch
<1>1. UNCHANGED <<batch, stage, index, state, chain, txs, next, headers>>
  BY DEF builderVars
<1>2. Builder!BuilderTypeOK'
  BY <1>1 DEF Builder!BuilderTypeOK, Builder!Stages, Builder!TxType
<1>3. InBounds' /\ FlawsPassed' /\ ChainOfUsers'
  BY <1>1 DEF BuildInv, InBounds, FlawsPassed, Passed, ChainOfUsers, Builder!ChainOfUsers
<1>4. KeepsUp'
  <2>1. /\ StateBefore(index + 1) => StateBefore(index + 1)'
        /\ StateBefore(1) => StateBefore(1)'
        /\ StateBefore(index) => StateBefore(index)'
    BY <1>1 DEF StateBefore, Builder!NonceOf
  <2>2. MidBlock => MidBlock'
    BY <1>1 DEF MidBlock, Builder!NonceOf, Replayed
  <2> QED
    BY <1>1, <2>1, <2>2 DEF BuildInv, KeepsUp
<1>5. HeadersKept' /\ BuildableIsBuilt'
  BY <1>1 DEF BuildInv, HeadersKept, NumbersBelow, BuildableIsBuilt, Builder!Buildable
<1> QED
  BY <1>1, <1>2, <1>3, <1>4, <1>5 DEF BuildInv

LEMMA BuilderCalled ==
  ASSUME NEW b \in Batches, Builder!CallBuilder(b)
  PROVE  Builder!BuilderTypeOK' /\ BuildInv' /\ stage' = "merge" /\ batch' = b
<1>1. /\ batch' = b /\ stage' = "merge" /\ index' = Len(b) /\ state' = <<>>
      /\ chain' = ChainId /\ txs' = <<>> /\ next' = 1 /\ headers' = {}
  BY DEF Builder!CallBuilder
<1>2. Len(b) \in Nat /\ DOMAIN b = 1..Len(b)
  BY BatchFacts
<1>3. Builder!BuilderTypeOK'
  BY <1>1, <1>2, TestnetAssumption DEF Builder!BuilderTypeOK, Builder!Stages, Builder!GivenBatches
<1>4. \A l \in DOMAIN b : ~ l >= Len(b) + 1
  BY <1>2
<1>5. KeepsUp'
  BY <1>1, <1>4 DEF KeepsUp, StateBefore
<1>6. FlawsPassed'
  BY <1>1, <1>4 DEF FlawsPassed, Passed
<1>7. InBounds' /\ ChainOfUsers'
  BY <1>1, <1>2 DEF InBounds, ChainOfUsers, Builder!ChainOfUsers
<1>8. HeadersKept' /\ BuildableIsBuilt'
  BY <1>1 DEF HeadersKept, BuildableIsBuilt
<1> QED
  BY <1>1, <1>3, <1>5, <1>6, <1>7, <1>8 DEF BuildInv

-----------------------------------------------------------------------------
(* The steps of the program.                                               *)

LEMMA InitHolds ==
  ASSUME Init
  PROVE  TestnetInv
<1>1. Builder!BuilderTypeOK /\ BuildInv /\ stage = "out"
  BY BuilderStarts DEF Init
<1>2. /\ proveType \in {"batch", "block"} /\ known \in 0..EndBatch
      /\ current = 1 /\ phase = "loop" /\ wanted = <<>> /\ traces = <<>> /\ reports = <<>>
  BY DEF Init
<1>3. TypeOK
  BY <1>1, <1>2, TestnetAssumption DEF TypeOK, Phases
<1>4. OneBatch /\ CallsBuilder /\ ReportsSoFar /\ EachReported
  BY <1>1, <1>2 DEF OneBatch, CallsBuilder, ReportsSoFar, EachReported
<1> QED
  BY <1>1, <1>3, <1>4 DEF TestnetInv

LEMMA RequestBatchStep ==
  ASSUME TestnetInv, RequestBatch
  PROVE  TestnetInv'
<1>0. /\ phase = "loop" /\ phase' = "build"
      /\ UNCHANGED <<proveType, known, current, wanted, reports>>
      /\ \E b \in Batches : traces' = b /\ Builder!CallBuilder(b)
  BY DEF RequestBatch, Goto
<1>1. PICK b \in Batches : traces' = b /\ Builder!CallBuilder(b)
  BY <1>0
<1>2. Builder!BuilderTypeOK' /\ BuildInv' /\ stage' = "merge" /\ batch' = b
  BY <1>1, BuilderCalled
<1>3. TypeOK'
  BY <1>0, <1>1, <1>2 DEF TestnetInv, TypeOK, Phases
<1>4. OneBatch'
  <2>1. b \in Seq({b[k] : k \in DOMAIN b})
    BY BatchFacts
  <2> QED
    BY <1>0, <1>1, <2>1 DEF TestnetInv, OneBatch, RequestBatch, InLoop
<1>5. CallsBuilder' /\ ReportsSoFar' /\ EachReported'
  BY <1>0 DEF TestnetInv, CallsBuilder, ReportsSoFar, EachReported
<1> QED
  BY <1>2, <1>3, <1>4, <1>5 DEF TestnetInv

LEMMA RequestRangeStep ==
  ASSUME TestnetInv, RequestRange
  PROVE  TestnetInv'
<1>0. /\ phase = "loop" /\ phase' = "fetch" /\ wanted' \in Batches /\ traces' = <<>>
      /\ UNCHANGED <<proveType, known, current, reports, builderVars>>
  BY DEF RequestRange, Goto
<1>1. Builder!BuilderTypeOK' /\ BuildInv' /\ stage' = stage
  BY <1>0, BuilderRests DEF TestnetInv, TypeOK
<1>2. TypeOK'
  BY <1>0, <1>1 DEF TestnetInv, TypeOK, Phases
<1>3. OneBatch'
  <2>1. PICK b \in Batches : wanted' = b
    BY <1>0
  <2>2. b \in Seq({b[k] : k \in DOMAIN b})
    BY BatchFacts
  <2>3. traces' \o wanted' = b
    BY <1>0, <2>1, <2>2
  <2> QED
    BY <1>0, <2>1, <2>2, <2>3 DEF TestnetInv, OneBatch, RequestRange, InLoop
<1>4. CallsBuilder' /\ ReportsSoFar' /\ EachReported'
  BY <1>0, <1>1 DEF TestnetInv, CallsBuilder, ReportsSoFar, EachReported
<1> QED
  BY <1>1, <1>2, <1>3, <1>4 DEF TestnetInv

LEMMA OwnRange ==
  ASSUME NEW S, NEW s \in Seq(S)
  PROVE  s \in Seq({s[k] : k \in DOMAIN s})
OBVIOUS

\* One block goes over to those that have come.
LEMMA OneOver ==
  ASSUME NEW S, NEW s \in Seq(S), NEW t \in Seq(S), t # <<>>
  PROVE  /\ Append(s, Head(t)) \in Seq(S) /\ Tail(t) \in Seq(S)
         /\ Append(s, Head(t)) \o Tail(t) = s \o t
<1>1. Append(s, Head(t)) \in Seq(S) /\ Tail(t) \in Seq(S)
  OBVIOUS
<1>2. Len(Append(s, Head(t)) \o Tail(t)) = Len(s \o t)
  OBVIOUS
<1>3. \A k \in 1..Len(s \o t) : (Append(s, Head(t)) \o Tail(t))[k] = (s \o t)[k]
  OBVIOUS
<1>4. Append(s, Head(t)) \o Tail(t) \in Seq(S) /\ s \o t \in Seq(S)
  BY <1>1
<1> QED
  BY <1>1, <1>2, <1>3, <1>4, SeqEqual

LEMMA RequestBlockStep ==
  ASSUME TestnetInv, RequestBlock
  PROVE  TestnetInv'
<1>0. /\ phase = "fetch" /\ phase' = "fetch" /\ wanted # <<>>
      /\ traces' = Append(traces, Head(wanted)) /\ wanted' = Tail(wanted)
      /\ UNCHANGED <<proveType, known, current, reports, builderVars>>
  BY DEF RequestBlock, Goto
<1>1. Builder!BuilderTypeOK' /\ BuildInv' /\ stage' = stage
  BY <1>0, BuilderRests DEF TestnetInv, TypeOK
<1>2. TypeOK'
  BY <1>0, <1>1 DEF TestnetInv, TypeOK, Phases
<1>3. OneBatch'
  <2>1. PICK S : S = {traces[k] : k \in DOMAIN traces} \cup {wanted[k] : k \in DOMAIN wanted}
    OBVIOUS
  <2>2. traces \in Seq(S) /\ wanted \in Seq(S)
    BY <2>1 DEF TestnetInv, OneBatch
  <2>3. /\ traces' \in Seq(S) /\ wanted' \in Seq(S) /\ traces' \o wanted' = traces \o wanted
    BY <1>0, <2>2, OneOver
  <2>4. /\ traces' \in Seq({traces'[k] : k \in DOMAIN traces'})
        /\ wanted' \in Seq({wanted'[k] : k \in DOMAIN wanted'})
    BY <2>3, OwnRange
  <2> QED
    BY <1>0, <2>3, <2>4 DEF TestnetInv, OneBatch
<1>4. CallsBuilder' /\ ReportsSoFar' /\ EachReported'
  BY <1>0, <1>1 DEF TestnetInv, CallsBuilder, ReportsSoFar, EachReported
<1> QED
  BY <1>1, <1>2, <1>3, <1>4 DEF TestnetInv

LEMMA AllRequestedStep ==
  ASSUME TestnetInv, AllRequested
  PROVE  TestnetInv'
<1>0. /\ phase = "fetch" /\ phase' = "build" /\ wanted = <<>> /\ Builder!CallBuilder(traces)
      /\ UNCHANGED <<proveType, known, current, wanted, traces, reports>>
  BY DEF AllRequested, Goto
<1>1. traces \in Batches
  BY <1>0 DEF TestnetInv, OneBatch
<1>2. Builder!BuilderTypeOK' /\ BuildInv' /\ stage' = "merge" /\ batch' = traces
  BY <1>0, <1>1, BuilderCalled
<1>3. TypeOK'
  BY <1>0, <1>2 DEF TestnetInv, TypeOK, Phases
<1>4. OneBatch' /\ CallsBuilder' /\ ReportsSoFar' /\ EachReported'
  BY <1>0, <1>1 DEF TestnetInv, OneBatch, CallsBuilder, ReportsSoFar, EachReported
<1> QED
  BY <1>2, <1>3, <1>4 DEF TestnetInv

LEMMA BuildStepStep ==
  ASSUME TestnetInv, BuildStep
  PROVE  TestnetInv'
<1>0. /\ phase = "build" /\ phase' = "build" /\ Builder!Build
      /\ UNCHANGED <<proveType, known, current, wanted, traces, reports>>
  BY DEF BuildStep, Goto
<1>1. InBuild /\ traces = batch
  BY <1>0 DEF TestnetInv, OneBatch, TypeOK, InBuild
<1>2. InBuild' /\ batch' = batch /\ stage' # "out"
  BY <1>0, <1>1, BuilderStep
<1>3. TypeOK'
  BY <1>0, <1>1, <1>2 DEF TestnetInv, TypeOK, Phases, InBuild
<1>4. OneBatch' /\ CallsBuilder' /\ ReportsSoFar' /\ EachReported'
  BY <1>0 DEF TestnetInv, OneBatch, CallsBuilder, ReportsSoFar, EachReported
<1> QED
  BY <1>2, <1>3, <1>4 DEF TestnetInv, InBuild

\* Only a batch with a flaw ends in an error, and none without a witness.
LEMMA ReportStep ==
  ASSUME TestnetInv, Report
  PROVE  TestnetInv'
<1>0. /\ phase = "build" /\ phase' = "loop" /\ stage \in {"witness", "error"}
      /\ reports' = Append(reports, Outcome) /\ current' = current + 1
      /\ traces' = <<>> /\ Builder!BuilderLeft
      /\ UNCHANGED <<proveType, known, wanted>>
  BY DEF Report, Goto
<1>1. Builder!BuilderTypeOK' /\ BuildInv' /\ stage' = "out"
  BY <1>0, BuilderLeaves
<1>2. /\ Outcome \in [ok : BOOLEAN, buildable : BOOLEAN, flawless : BOOLEAN]
      /\ Outcome.buildable => Outcome.ok
      /\ Outcome.ok => Outcome.flawless
  <2>1. traces = batch /\ FlawsPassed
    BY <1>0 DEF TestnetInv, TypeOK, BuildInv
  <2>2. Outcome.buildable => Outcome.ok
    BY <1>0, <2>1 DEF Outcome, FlawsPassed, Builder!Buildable
  <2>3. Outcome.ok => Outcome.flawless
    BY <1>0, <2>1 DEF Outcome, FlawsPassed
  <2>4. Outcome \in [ok : BOOLEAN, buildable : BOOLEAN, flawless : BOOLEAN]
    BY Zenon DEF Outcome, Builder!Buildable
  <2> QED
    BY <2>2, <2>3, <2>4
<1> DEFINE ReportType == [ok : BOOLEAN, buildable : BOOLEAN, flawless : BOOLEAN]
<1>3. reports \in Seq(ReportType) /\ Len(reports) = current - 1
  BY DEF TestnetInv, TypeOK
<1>4. /\ reports' \in Seq(ReportType) /\ Len(reports') = Len(reports) + 1
      /\ \A k \in DOMAIN reports' :
           \/ k \in DOMAIN reports /\ reports'[k] = reports[k]
           \/ reports'[k] = Outcome
  <2> HIDE DEF ReportType
  <2>1. Outcome \in ReportType
    BY <1>2 DEF ReportType
  <2>2. PICK o \in ReportType : o = Outcome
    BY <2>1
  <2> QED
    BY <1>0, <1>3, <2>2
<1>5. TypeOK'
  <2>1. current \in 1..EndBatch
    BY <1>0, TestnetAssumption DEF TestnetInv, TypeOK, OneBatch
  <2>2. Len(reports') = current' - 1
    BY <1>0, <1>3, <1>4, <2>1
  <2> QED
    BY <1>0, <1>1, <1>4, <2>1, <2>2, TestnetAssumption DEF TestnetInv, TypeOK, Phases
<1>6. OneBatch' /\ CallsBuilder' /\ EachReported'
  BY <1>0, <1>1 DEF TestnetInv, OneBatch, CallsBuilder, EachReported
<1>7. ReportsSoFar'
  BY <1>2, <1>4 DEF TestnetInv, ReportsSoFar
<1> QED
  BY <1>1, <1>5, <1>6, <1>7 DEF TestnetInv

\* The steps that leave the builder and the reports alone.
LEMMA OtherSteps ==
  ASSUME TestnetInv,
         \/ NoSuchBatch \/ BuilderPanics \/ LoopEnds \/ RequestFails \/ BatchComes
         \/ UNCHANGED vars
  PROVE  TestnetInv'
<1>0. UNCHANGED <<proveType, current, wanted, traces, reports, builderVars>>
  BY DEF NoSuchBatch, BuilderPanics, LoopEnds, RequestFails, BatchComes, Goto, vars
<1>1. Builder!BuilderTypeOK' /\ BuildInv' /\ stage' = stage /\ batch' = batch
  BY <1>0, BuilderRests DEF TestnetInv, TypeOK
<1>2. /\ known' \in 0..EndBatch
      /\ \/ phase' = phase /\ (phase \in {"end", "panic"} => known' = known)
         \/ known' = known /\ phase' = "panic" /\ phase # "build"
         \/ known' = known /\ phase' = "panic" /\ stage = "panic"
         \/ known' = known /\ phase' = "end" /\ phase = "loop"
            /\ (current > EndBatch \/ (proveType = "block" /\ current > known))
  BY TestnetAssumption
     DEF TestnetInv, TypeOK, NoSuchBatch, BuilderPanics, LoopEnds, RequestFails, BatchComes,
         Goto, InLoop, vars
<1>3. TypeOK'
  BY <1>0, <1>1, <1>2 DEF TestnetInv, TypeOK, Phases
<1>4. OneBatch'
  BY <1>0, <1>2 DEF TestnetInv, OneBatch
<1>5. CallsBuilder'
  BY <1>1, <1>2 DEF TestnetInv, CallsBuilder, TypeOK, Phases
<1>6. ReportsSoFar' /\ EachReported'
  BY <1>0, <1>2 DEF TestnetInv, ReportsSoFar, EachReported
<1> QED
  BY <1>1, <1>3, <1>4, <1>5, <1>6 DEF TestnetInv

LEMMA Invariant == Spec => []TestnetInv
<1>1. Init => TestnetInv
  BY InitHolds
<1>2. TestnetInv /\ [Next]_vars => TestnetInv'
  BY RequestBatchStep, RequestRangeStep, RequestBlockStep, AllRequestedStep, BuildStepStep,
     ReportStep, OtherSteps
     DEF Next, Step, Ended
<1> QED
  BY <1>1, <1>2, PTL DEF Spec

-----------------------------------------------------------------------------
(***************************************************************************)
(* Type correctness: among others, the builder works on the traces that    *)
(* came, and there is one report of each batch before the current one.     *)
(***************************************************************************)
THEOREM TestnetTypeCorrect == Spec => []TypeOK
<1>1. TestnetInv => TypeOK
  BY DEF TestnetInv
<1> QED
  BY <1>1, Invariant, PTL

(***************************************************************************)
(* block_traces_to_witness_block replays every block on the state that its *)
(* own proofs attest: it suffices that the proofs of the blocks are those  *)
(* of one chain, however many blocks there are and whatever accounts they  *)
(* touch.                                                                  *)
(***************************************************************************)
THEOREM ReplayAgreesWithProofsHolds == Spec => []ReplayAgreesWithProofs
<1>1. TestnetInv => ReplayAgreesWithProofs
  <2> SUFFICES ASSUME TestnetInv, Builder!AtBlock, NEW a \in DOMAIN batch[index].proofs
               PROVE  Builder!NonceOf(a) = batch[index].proofs[a]
    BY DEF ReplayAgreesWithProofs, Builder!ReplayAgreesWithProofs
  <2>1. stage = "block" /\ index <= Len(batch)
    BY DEF Builder!AtBlock
  <2>2. batch \in Batches
    BY <2>1 DEF TestnetInv, TypeOK, Phases, CallsBuilder, OneBatch
  <2>3. InBuild
    BY <2>2 DEF TestnetInv, TypeOK, InBuild
  <2>4. index \in DOMAIN batch /\ index >= index /\ \A m \in index..(index - 1) : FALSE
    BY <2>1, <2>3, BuildFacts DEF InBuild, BuildInv, InBounds
  <2> QED
    BY <2>1, <2>4 DEF TestnetInv, BuildInv, KeepsUp, StateBefore
<1> QED
  BY <1>1, Invariant, PTL

(***************************************************************************)
(* The witness has the chain id of the users' transactions, whatever       *)
(* deposits, of chain 0, the blocks begin with.                            *)
(***************************************************************************)
THEOREM ChainOfUsersHolds == Spec => []ChainOfUsers
<1>1. TestnetInv => ChainOfUsers
  BY DEF TestnetInv, BuildInv
<1> QED
  BY <1>1, Invariant, PTL

(***************************************************************************)
(* mock_testnet ends early only for want of batches, and has then reported *)
(* each of those before: a batch that can be built never as a failure, and *)
(* one with a flaw never as a success.                                     *)
(***************************************************************************)
THEOREM EachReportedHolds == Spec => []EachReported
<1>1. TestnetInv => EachReported
  BY DEF TestnetInv
<1> QED
  BY <1>1, Invariant, PTL

(***************************************************************************)
(* The safety half of WitnessBuilt: a batch without a flaw, in which no    *)
(* deposit follows another transaction of its sender in one block, never   *)
(* meets an error or the assert of the replay, and when its witness is     *)
(* made, all of its blocks are in it.                                      *)
(***************************************************************************)
THEOREM BuildableNeverFails == Spec => []BuildableIsBuilt
<1>1. TestnetInv => BuildableIsBuilt
  BY DEF TestnetInv, BuildInv
<1> QED
  BY <1>1, Invariant, PTL
==============================================================================
