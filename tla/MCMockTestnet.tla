--------------------------- MODULE MCMockTestnet ---------------------------
(***************************************************************************)
(* Batches of up to three blocks as a chain makes them: every transaction  *)
(* is executed on the state the earlier ones left, so a user's transaction *)
(* has the right nonce and the proofs of a block attest the state before   *)
(* it.  Some batches have a flaw in their last block, and one has no block.*)
(***************************************************************************)
EXTENDS MockTestnet, SequencesExt, FiniteSets

MCAccounts == {"alice", "bob"}
MCChainId == 255

\* What a block is made of: who sends what, deposits first.
Kinds == [deposit : BOOLEAN, from : MCAccounts]
BlockKinds(n) ==
  {kinds \in BoundedSeq(Kinds, n) :
     \A i, j \in DOMAIN kinds : i < j /\ kinds[j].deposit => kinds[i].deposit}

Outlines ==
  [1..1 -> BlockKinds(3)] \cup [1..2 -> BlockKinds(2)] \cup [1..3 -> BlockKinds(1)]

Sent(kinds, a) == Cardinality({j \in DOMAIN kinds : kinds[j].from = a})

\* The nonce of an account before block k; alice begins with one.
NonceBefore(outline, k, a) ==
  LET n[l \in 1..k] == IF l = 1 THEN IF a = "alice" THEN 1 ELSE 0
                       ELSE n[l - 1] + Sent(outline[l - 1], a)
  IN  n[k]

BlockOf(outline, k, flaw) ==
  LET kinds == outline[k]
  IN  [txs |-> [j \in DOMAIN kinds |->
                  [deposit |-> kinds[j].deposit, from |-> kinds[j].from,
                   nonce |-> IF kinds[j].deposit THEN 0
                             ELSE NonceBefore(outline, k, kinds[j].from)
                                  + Sent(SubSeq(kinds, 1, j - 1), kinds[j].from),
                   chain |-> IF kinds[j].deposit THEN 0 ELSE MCChainId]],
       proofs |-> [a \in {kinds[j].from : j \in DOMAIN kinds} |->
                     NonceBefore(outline, k, a)],
       number |-> k,
       flaw |-> flaw]

BatchOf(outline) == [k \in DOMAIN outline |-> BlockOf(outline, k, "none")]

\* The last block of the batch has the flaw.
Flawed(outline, flaw) ==
  [k \in DOMAIN outline |->
     BlockOf(outline, k, IF k = Len(outline) THEN flaw ELSE "none")]

Deposit(a) == [deposit |-> TRUE, from |-> a]

AllFlaws == {"none", "proofs", "code_hex", "code_missing", "mint", "header"}

MCBatches ==
  {BatchOf(o) : o \in Outlines}
  \cup {Flawed(<<<<Deposit("bob")>>, <<Deposit("bob")>>>>, flaw) : flaw \in AllFlaws}
  \cup {<<>>}
=============================================================================
