--------------------------- MODULE MCProverServer ---------------------------
(***************************************************************************)
(* Small instances of ProverServer: two forks of block 1 of which one is   *)
(* provable by every circuit, a trace that no circuit but the super one    *)
(* proves, and the traces and types the handler turns away.                *)
(***************************************************************************)
EXTENDS ProverServer, TLC

MCChainId == 255
MCMaxTxs == 2

Trace(name, parses, txs, chain, height, provable) ==
  [name |-> name, parses |-> parses, txs |-> txs, chain |-> chain,
   height |-> height, provable |-> provable]

TraceA == Trace("a", TRUE, MCMaxTxs, MCChainId, 1, Keys)
TraceB == Trace("b", TRUE, 0, MCChainId, 1, Keys)
Partial == Trace("partial", TRUE, 1, MCChainId, 1, {"super"})
Unnumbered == Trace("unnumbered", TRUE, 1, MCChainId, NoHeight, Keys)
Garbled == Trace("garbled", FALSE, 0, MCChainId, 1, {})
TooMany == Trace("too_many", TRUE, MCMaxTxs + 1, MCChainId, 1, Keys)
OtherChain == Trace("other_chain", TRUE, 1, MCChainId + 1, 1, Keys)

AllTraces ==
  {TraceA, TraceB, Partial, Unnumbered, Garbled, TooMany, OtherChain}

Prove(type, trace) == [method |-> "prove", type |-> type, trace |-> trace]

\* Super proofs and aggregations of a block and of its fork, each asked for
\* again or at once.
ForkRequests ==
  {Prove(3, TraceA), Prove(3, TraceB), Prove(4, TraceA), Prove(4, TraceB)}
ForkTraces == {TraceA, TraceB}

\* One request of every kind the handler and create_proof tell apart.
EveryRequest ==
  {SpecRequest, Prove(1, TraceB), Prove(4, Partial),
   Prove(0, TraceA), Prove(3, Unnumbered), Prove(3, Garbled),
   Prove(3, TooMany), Prove(3, OtherChain)}

\* A single aggregation.
AggRequests == {Prove(4, TraceA)}
AggTraces == {TraceA}

InPlace == {Degrees}
SomeParams == {{"DEGREE"}, Degrees}

Symmetry == Permutations(Workers) \cup Permutations(Calls)
=============================================================================
