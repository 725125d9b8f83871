------------------------------ MODULE CliProofs ------------------------------
(***************************************************************************)
(* Theorems of ProveCli and VerifyCli, for any commands, traces and number *)
(* of faults: what the prove binary leaves in its output directories, run  *)
(* by run, while the verify binary may be reading them.                    *)
(***************************************************************************)
EXTENDS VerifyCli, TLAPS

-----------------------------------------------------------------------------
(* The program that main runs for a trace.                                 *)

\* A part of a program that is about some circuits: it stores the files of a
\* circuit after it has proved, and each of them once, and makes the verifier
\* contract after the proofs whose keys that takes.
ProvesFirst(program, k, c) ==
  \E l \in 1..(k - 1) : Proves(program[l]) /\ program[l].arg[1] = c

PartOf(program, circuits) ==
  /\ program \in Seq(Items)
  /\ \A k \in DOMAIN program : program[k].arg[1] \in circuits
  /\ \A k \in DOMAIN program : Stores(program[k]) => ProvesFirst(program, k, program[k].arg[1])
  /\ \A k, l \in DOMAIN program :
       Stores(program[k]) /\ Stores(program[l]) /\ program[k].arg = program[l].arg => k = l
  /\ \A k \in DOMAIN program : program[k].op = "solidity" =>
       ProvesFirst(program, k, "super") /\ ProvesFirst(program, k, "agg")

LEMMA JoinParts ==
  ASSUME NEW P, NEW Q, NEW C, NEW D, PartOf(P, C), PartOf(Q, D), C \cap D = {}
  PROVE  PartOf(P \o Q, C \cup D)
<1> DEFINE R == P \o Q
           m == Len(P)
           n == Len(Q)
<1>1. /\ P \in Seq(Items) /\ Q \in Seq(Items) /\ R \in Seq(Items)
      /\ m \in Nat /\ n \in Nat
      /\ DOMAIN P = 1..m /\ DOMAIN Q = 1..n /\ DOMAIN R = 1..(m + n)
  BY DEF PartOf
<1>2. /\ \A k \in 1..m : R[k] = P[k]
      /\ \A k \in 1..(m + n) : ~ k <= m => k - m \in 1..n /\ R[k] = Q[k - m]
  <2>1. P \in Seq(Items) /\ Q \in Seq(Items)
    BY <1>1
  <2>2. \A k \in 1..(m + n) : R[k] = IF k <= m THEN P[k] ELSE Q[k - m]
    BY <2>1
  <2> HIDE DEF R, m, n
  <2>3. ASSUME NEW k \in 1..m
        PROVE  R[k] = P[k]
    <3>1. k \in 1..(m + n) /\ k <= m
      BY <1>1
    <3> QED
      BY <2>2, <3>1
  <2>4. ASSUME NEW k \in 1..(m + n), ~ k <= m
        PROVE  k - m \in 1..n /\ R[k] = Q[k - m]
    <3>1. k - m \in 1..n
      BY <1>1, <2>4
    <3> QED
      BY <2>2, <2>4, <3>1
  <2> QED
    BY <2>3, <2>4
<1> HIDE DEF R, m, n
<1>3. ASSUME NEW k \in 1..(m + n)
      PROVE  R[k].arg[1] \in C \cup D /\ (R[k].arg[1] \in C <=> k <= m)
  <2>1. CASE k <= m
    <3>1. k \in 1..m
      BY <1>1, <2>1
    <3> QED
      BY <1>1, <1>2, <2>1, <3>1 DEF PartOf
  <2>2. CASE ~ k <= m
    <3>1. k - m \in 1..n /\ R[k] = Q[k - m]
      BY <1>2, <2>2
    <3>2. R[k].arg[1] \in D
      BY <1>1, <3>1 DEF PartOf
    <3> QED
      BY <2>2, <3>2
  <2> QED
    BY <2>1, <2>2
<1>4. ASSUME NEW k \in 1..(m + n), NEW c,
             k <= m => ProvesFirst(P, k, c), ~ k <= m => ProvesFirst(Q, k - m, c)
      PROVE  ProvesFirst(R, k, c)
  <2>1. CASE k <= m
    <3>1. k \in 1..m
      BY <1>1, <2>1
    <3>2. PICK l \in 1..(k - 1) : Proves(P[l]) /\ P[l].arg[1] = c
      BY <1>4, <2>1 DEF ProvesFirst
    <3>3. R[l] = P[l]
      BY <1>1, <1>2, <3>1, <3>2
    <3> QED
      BY <3>2, <3>3 DEF ProvesFirst
  <2>2. CASE ~ k <= m
    <3>1. k - m \in 1..n
      BY <1>2, <2>2
    <3>2. PICK l \in 1..(k - m - 1) : Proves(Q[l]) /\ Q[l].arg[1] = c
      BY <1>4, <2>2 DEF ProvesFirst
    <3>3. /\ k \in Nat /\ m \in Nat /\ n \in Nat /\ l \in Nat
          /\ 1 <= l /\ l <= k - m - 1 /\ k <= m + n
      BY <1>1, <3>1, <3>2
    <3>4. l + m \in 1..(m + n)
      BY <3>3
    <3>5. PICK j \in 1..(m + n) : j = l + m
      BY <3>4
    <3>6. j \in 1..(k - 1) /\ R[j] = Q[l]
      <4>1. j - m = l /\ ~ j <= m /\ j \in 1..(k - 1)
        BY <3>3, <3>5
      <4>2. R[j] = Q[j - m]
        BY <1>2, <4>1
      <4> QED
        BY <4>1, <4>2
    <3> QED
      BY <3>2, <3>6 DEF ProvesFirst
  <2> QED
    BY <2>1, <2>2
<1>5. ASSUME NEW k \in 1..(m + n)
      PROVE  /\ Stores(R[k]) => ProvesFirst(R, k, R[k].arg[1])
             /\ R[k].op = "solidity" => ProvesFirst(R, k, "super") /\ ProvesFirst(R, k, "agg")
  <2>1. CASE k <= m
    <3>1. k \in 1..m /\ k \in DOMAIN P /\ R[k] = P[k]
      BY <1>1, <1>2, <2>1
    <3> QED
      BY <1>4, <2>1, <3>1 DEF PartOf
  <2>2. CASE ~ k <= m
    <3>1. k - m \in DOMAIN Q /\ R[k] = Q[k - m]
      BY <1>1, <1>2, <2>2
    <3>2. PICK j \in DOMAIN Q : j = k - m
      BY <3>1
    <3>3. /\ Stores(Q[j]) => ProvesFirst(Q, j, Q[j].arg[1])
          /\ Q[j].op = "solidity" => ProvesFirst(Q, j, "super") /\ ProvesFirst(Q, j, "agg")
      BY DEF PartOf
    <3> QED
      BY <1>4, <2>2, <3>1, <3>2, <3>3
  <2> QED
    BY <2>1, <2>2
<1>6. ASSUME NEW k \in 1..(m + n), NEW l \in 1..(m + n),
             Stores(R[k]), Stores(R[l]), R[k].arg = R[l].arg
      PROVE  k = l
  <2>1. k <= m <=> l <= m
    BY <1>3, <1>6
  <2>2. CASE k <= m
    <3>1. k \in 1..m /\ l \in 1..m /\ R[k] = P[k] /\ R[l] = P[l]
      BY <1>1, <1>2, <2>1, <2>2
    <3> QED
      BY <1>1, <1>6, <3>1 DEF PartOf
  <2>3. CASE ~ k <= m
    <3>1. k - m \in 1..n /\ l - m \in 1..n /\ R[k] = Q[k - m] /\ R[l] = Q[l - m]
      BY <1>2, <2>1, <2>3
    <3>2. k - m = l - m
      BY <1>1, <1>6, <3>1 DEF PartOf
    <3> QED
      BY <1>1, <3>2
  <2> QED
    BY <2>2, <2>3
<1>7. PartOf(R, C \cup D)
  BY <1>1, <1>3, <1>5, <1>6 DEF PartOf
<1> QED
  BY <1>7 DEF R

LEMMA EmptyPart == \A C : PartOf(<<>>, C)
BY DEF PartOf

\* The proof of a circuit, its key and its JSON form, and the raw proof.
LEMMA TargetPartIs ==
  ASSUME NEW c \in Circuits, NEW option \in Options
  PROVE  PartOf(TargetPart(c, option), {c})
<1>1. CASE option = "absent"
  BY <1>1, EmptyPart DEF TargetPart
<1>2. CASE option \in {"false", "true"}
  <2> DEFINE P == TargetPart(c, option)
             n == IF option = "true" THEN 4 ELSE 3
  <2>0. <<c, "vk">> \in Files /\ <<c, "json">> \in Files /\ <<c, "proof">> \in Files
    BY DEF Files
  <2>1. /\ P \in Seq(Items) /\ Len(P) = n
        /\ P[1] = ProveCircuit(c) /\ P[2] = Store(<<c, "vk">>) /\ P[3] = Store(<<c, "json">>)
        /\ option = "true" => P[4] = Store(<<c, "proof">>)
    <3>1. ProveCircuit(c) \in Items /\ \A f \in Files : Store(f) \in Items
      BY <2>0 DEF Items, ProveCircuit, Store
    <3> HIDE DEF ProveCircuit, Store, Items, Files
    <3>2. TargetProgram(c) \in Seq(Items) /\ <<Store(<<c, "proof">>)>> \in Seq(Items)
      BY <2>0, <3>1 DEF TargetProgram
    <3>3. CASE option = "false"
      BY <3>2, <3>3 DEF TargetPart, TargetProgram
    <3>4. CASE option = "true"
      BY <3>2, <3>4 DEF TargetPart, TargetProgram
    <3> HIDE DEF P
    <3>5. n = IF option = "true" THEN 4 ELSE 3
      OBVIOUS
    <3> HIDE DEF n
    <3> QED
      BY <1>2, <3>3, <3>4, <3>5
  <2>a. n \in 3..4 /\ (4 \in 1..n => option = "true")
    BY <1>2
  <2> HIDE DEF P, n
  <2>2. DOMAIN P = 1..n /\ n \in 3..4 /\ (4 \in 1..n => option = "true")
    BY <2>1, <2>a
  <2>3. /\ Proves(P[1]) /\ P[1].arg[1] = c /\ ~ Stores(P[1])
        /\ P[2].arg = <<c, "vk">> /\ P[3].arg = <<c, "json">>
        /\ 4 \in 1..n => P[4].arg = <<c, "proof">>
        /\ \A k \in {1, 2, 3} : P[k].op # "solidity"
        /\ 4 \in 1..n => P[4].op # "solidity"
    BY <2>1, <2>2 DEF ProveCircuit, Store, Proves, Stores
  <2>4. \A k \in 1..n : P[k].arg[1] = c
    <3>1. \A k \in 1..n : k \in {1, 2, 3} \/ (k = 4 /\ 4 \in 1..n)
      BY <2>2
    <3> QED
      BY <2>3, <3>1
  <2>5. ASSUME NEW k \in 1..n, Stores(P[k])
        PROVE  ProvesFirst(P, k, P[k].arg[1])
    <3>1. 1 \in 1..(k - 1)
      BY <2>2, <2>3, <2>5
    <3> QED
      BY <2>3, <2>4, <3>1 DEF ProvesFirst
  <2>6. ASSUME NEW k \in 1..n, NEW l \in 1..n, Stores(P[k]), Stores(P[l]), P[k].arg = P[l].arg
        PROVE  k = l
    <3>1. k \in {2, 3, 4} /\ l \in {2, 3, 4}
      BY <2>2, <2>3, <2>6
    <3>2. P[k].arg[2] = P[l].arg[2]
      BY <2>6
    <3> QED
      BY <2>3, <3>1, <3>2
  <2>7. \A k \in 1..n : P[k].op # "solidity"
    <3>1. \A k \in 1..n : k \in {1, 2, 3} \/ (k = 4 /\ 4 \in 1..n)
      BY <2>2
    <3> QED
      BY <2>3, <3>1
  <2>8. PartOf(P, {c})
    BY <2>1, <2>2, <2>4, <2>5, <2>6, <2>7 DEF PartOf
  <2> QED
    BY <2>8 DEF P
<1> QED
  BY <1>1, <1>2 DEF Options

\* The aggregation: the super circuit's part and its own.
LEMMA AggPartIs ==
  ASSUME NEW option \in Options
  PROVE  PartOf(AggPart(option), {"super", "agg"})
<1>0. /\ ProveCircuit("super") \in Items /\ ProveCircuit("agg") \in Items
      /\ Convert("super") \in Items /\ Solidity \in Items
      /\ \A f \in {"super"} \X {"vk", "json"} : Store(f) \in Items
      /\ \A f \in {"agg"} \X {"final_pair", "instance", "proof", "vkey", "full_proof", "sol"} :
           Store(f) \in Items
  BY DEF Items, Files, Circuits, AggFileKinds, ProveCircuit, Convert, Solidity, Store
<1>1. CASE option = "absent"
  BY <1>1, EmptyPart DEF AggPart
<1>2. CASE option = "false"
  <2> DEFINE P == AggPart(option)
  <2>1. /\ P \in Seq(Items) /\ Len(P) = 7
        /\ P[1] = ProveCircuit("super") /\ P[2] = Store(<<"super", "vk">>)
        /\ P[3] = Store(<<"super", "json">>) /\ P[4] = Convert("super")
        /\ P[5] = ProveCircuit("agg") /\ P[6] = Solidity /\ P[7] = Store(<<"agg", "sol">>)
    <3> HIDE DEF ProveCircuit, Store, Convert, Solidity, Items
    <3>1. P = AggProgram \o WriteSolidity
      BY <1>2 DEF AggPart
    <3> HIDE DEF P
    <3> QED
      BY <1>0, <3>1 DEF AggProgram, TargetProgram, WriteSolidity
  <2>2. DOMAIN P = 1..7
    BY <2>1
  <2> HIDE DEF P
  <2>3. /\ Proves(P[1]) /\ P[1].arg[1] = "super"
        /\ Proves(P[5]) /\ P[5].arg[1] = "agg"
        /\ P[2].arg = <<"super", "vk">> /\ P[3].arg = <<"super", "json">>
        /\ P[7].arg = <<"agg", "sol">>
        /\ \A k \in 1..7 : Stores(P[k]) => k \in {2, 3, 7}
        /\ \A k \in 1..7 : P[k].op = "solidity" => k = 6
        /\ \A k \in 1..7 : P[k].arg[1] \in {"super", "agg"}
    BY <2>1 DEF ProveCircuit, Store, Convert, Solidity, Proves, Stores
  <2>4. ASSUME NEW k \in 1..7, Stores(P[k])
        PROVE  ProvesFirst(P, k, P[k].arg[1])
    <3>1. k \in {2, 3, 7}
      BY <2>3, <2>4
    <3>2. CASE k \in {2, 3}
      <4>1. 1 \in 1..(k - 1) /\ P[k].arg[1] = "super"
        BY <2>3, <3>2
      <4> QED
        BY <2>3, <4>1 DEF ProvesFirst
    <3>3. CASE k = 7
      <4>1. 5 \in 1..(k - 1) /\ P[k].arg[1] = "agg"
        BY <2>3, <3>3
      <4> QED
        BY <2>3, <4>1 DEF ProvesFirst
    <3> QED
      BY <3>1, <3>2, <3>3
  <2>5. ASSUME NEW k \in 1..7, NEW l \in 1..7, Stores(P[k]), Stores(P[l]), P[k].arg = P[l].arg
        PROVE  k = l
    <3>1. k \in {2, 3, 7} /\ l \in {2, 3, 7}
      BY <2>3, <2>5
    <3>2. P[k].arg[2] = P[l].arg[2]
      BY <2>5
    <3> QED
      BY <2>3, <3>1, <3>2
  <2>6. \A k \in 1..7 : P[k].op = "solidity" =>
          ProvesFirst(P, k, "super") /\ ProvesFirst(P, k, "agg")
    <3>1. 1 \in 1..(6 - 1) /\ 5 \in 1..(6 - 1)
      OBVIOUS
    <3> QED
      BY <2>3, <3>1 DEF ProvesFirst
  <2>7. PartOf(P, {"super", "agg"})
    BY <2>1, <2>2, <2>3, <2>4, <2>5, <2>6 DEF PartOf
  <2> QED
    BY <2>7 DEF P
<1>3. CASE option = "true"
  <2> DEFINE P == AggPart(option)
  <2>1. /\ P \in Seq(Items) /\ Len(P) = 12
        /\ P[1] = ProveCircuit("super") /\ P[2] = Store(<<"super", "vk">>)
        /\ P[3] = Store(<<"super", "json">>) /\ P[4] = Convert("super")
        /\ P[5] = ProveCircuit("agg") /\ P[6] = Store(<<"agg", "final_pair">>)
        /\ P[7] = Store(<<"agg", "instance">>) /\ P[8] = Store(<<"agg", "proof">>)
        /\ P[9] = Store(<<"agg", "vkey">>) /\ P[10] = Store(<<"agg", "full_proof">>)
        /\ P[11] = Solidity /\ P[12] = Store(<<"agg", "sol">>)
    <3> HIDE DEF ProveCircuit, Store, Convert, Solidity, Items
    <3>1. P = AggProgram \o WriteAggProof \o WriteSolidity
      BY <1>3 DEF AggPart
    <3> HIDE DEF P
    <3> QED
      BY <1>0, <3>1 DEF AggProgram, TargetProgram, WriteAggProof, WriteSolidity
  <2>2. DOMAIN P = 1..12
    BY <2>1
  <2> HIDE DEF P
  <2>3. /\ Proves(P[1]) /\ P[1].arg[1] = "super"
        /\ Proves(P[5]) /\ P[5].arg[1] = "agg"
        /\ P[2].arg = <<"super", "vk">> /\ P[3].arg = <<"super", "json">>
        /\ P[6].arg = <<"agg", "final_pair">> /\ P[7].arg = <<"agg", "instance">>
        /\ P[8].arg = <<"agg", "proof">> /\ P[9].arg = <<"agg", "vkey">>
        /\ P[10].arg = <<"agg", "full_proof">> /\ P[12].arg = <<"agg", "sol">>
        /\ \A k \in 1..12 : Stores(P[k]) => k \in {2, 3, 6, 7, 8, 9, 10, 12}
        /\ \A k \in 1..12 : P[k].op = "solidity" => k = 11
        /\ \A k \in 1..12 : P[k].arg[1] \in {"super", "agg"}
    BY <2>1 DEF ProveCircuit, Store, Convert, Solidity, Proves, Stores
  <2>4. ASSUME NEW k \in 1..12, Stores(P[k])
        PROVE  ProvesFirst(P, k, P[k].arg[1])
    <3>1. CASE k \in {2, 3}
      <4>1. 1 \in 1..(k - 1) /\ P[k].arg[1] = "super"
        BY <2>3, <3>1
      <4> QED
        BY <2>3, <4>1 DEF ProvesFirst
    <3>2. CASE k \in {6, 7, 8, 9, 10, 12}
      <4>1. 5 \in 1..(k - 1) /\ P[k].arg[1] = "agg"
        BY <2>3, <3>2
      <4> QED
        BY <2>3, <4>1 DEF ProvesFirst
    <3> QED
      BY <2>3, <2>4, <3>1, <3>2
  <2>5. ASSUME NEW k \in 1..12, NEW l \in 1..12, Stores(P[k]), Stores(P[l]), P[k].arg = P[l].arg
        PROVE  k = l
    <3>1. k \in {2, 3, 6, 7, 8, 9, 10, 12} /\ l \in {2, 3, 6, 7, 8, 9, 10, 12}
      BY <2>3, <2>5
    <3>2. P[k].arg[1] = P[l].arg[1] /\ P[k].arg[2] = P[l].arg[2]
      BY <2>5
    <3> QED
      BY <2>3, <3>1, <3>2
  <2>6. \A k \in 1..12 : P[k].op = "solidity" =>
          ProvesFirst(P, k, "super") /\ ProvesFirst(P, k, "agg")
    <3>1. 1 \in 1..(11 - 1) /\ 5 \in 1..(11 - 1)
      OBVIOUS
    <3> QED
      BY <2>3, <3>1 DEF ProvesFirst
  <2>7. PartOf(P, {"super", "agg"})
    BY <2>1, <2>2, <2>3, <2>4, <2>5, <2>6 DEF PartOf
  <2> QED
    BY <2>7 DEF P
<1> QED
  BY <1>1, <1>2, <1>3 DEF Options

LEMMA ProgramIs ==
  ASSUME args \in Commands
  PROVE  PartOf(Program, Keys)
<1>1. args.evm \in Options /\ args.state \in Options /\ args.agg \in Options
  BY CliAssumption DEF CommandType
<1>2. /\ PartOf(TargetPart("evm", args.evm), {"evm"})
      /\ PartOf(TargetPart("state", args.state), {"state"})
  BY <1>1, TargetPartIs DEF Circuits
<1>3. PartOf(AggPart(args.agg), {"super", "agg"})
  BY <1>1, AggPartIs
<1>4. PartOf(TargetPart("evm", args.evm) \o TargetPart("state", args.state), {"evm"} \cup {"state"})
  BY <1>2, JoinParts
<1>5. PartOf(Program, ({"evm"} \cup {"state"}) \cup {"super", "agg"})
  BY <1>3, <1>4, JoinParts DEF Program
<1>6. Keys = ({"evm"} \cup {"state"}) \cup {"super", "agg"}
  BY DEF Keys, Circuits
<1> QED
  BY <1>5, <1>6

-----------------------------------------------------------------------------
(* The inductive invariant.                                                *)

\* Before the loop, and between two traces, nothing is left of an earlier one.
BetweenTraces ==
  /\ stage \in {"params", "seed", "pick"} => trace = NoTrace /\ ~ open
  /\ stage \in {"params", "seed"} => left = args.traces

\* The loop runs over traces that all parse, with a seed.
LoopReady ==
  /\ stage \in {"pick", "prove"} =>
       seedPc[Run] = "ok" /\ \A t \in args.traces : t.parses
  /\ seedPc[Run] = "ok" => seedOf[Run] \in Seed!Seeds

AtTrace ==
  stage = "prove" =>
    /\ trace \in args.traces \ left /\ debugDir = trace.name
    /\ open => AtItem /\ Stores(Item)

ProvedSoFar ==
  stage = "prove" =>
    \A k \in DOMAIN Program : k < step /\ Proves(Program[k]) =>
      Program[k].arg[1] \in trace.provable

\* A file that is whole, of a trace.
WholeFile(t, item) ==
  LET slot == <<t.name, item.arg>>
  IN  /\ slot \in DOMAIN disk
      /\ disk[slot] \in {FileBytes(slot[2], t, s) : s \in Seed!Seeds}

StoredSoFar ==
  stage = "prove" =>
    \A k \in DOMAIN Program : k < step /\ Stores(Program[k]) => WholeFile(trace, Program[k])

DiskTypes == \A slot \in DOMAIN disk : disk[slot].of \in {"torn", "circuit", "trace"}

CliInv ==
  /\ TypeOK /\ BetweenTraces /\ LoopReady /\ AtTrace
  /\ ProvedSoFar /\ StoredSoFar
  /\ DiskTypes /\ TakenAreWhole /\ OwnDirectories

\* What a caller of load_or_create_seed knows of the file.
SeedTested ==
  /\ seedPc[Run] = "load" => seedFile # "absent"
  /\ seedPc[Run] = "failed" => seedFile = "short"

\* The keys of the circuits that were proved are there when the verifier
\* contract is made.
KeysHeld ==
  stage = "prove" =>
    \A k \in DOMAIN Program : k < step /\ Proves(Program[k]) =>
      OptMem \/ Program[k].arg[1] \in keys

CleanInv == CliInv /\ SeedTested /\ KeysHeld

\* What CleanRunSucceeds asks of a run, at any time of it.
CleanRun ==
  /\ params = Degrees /\ \A t \in args.traces : Good(t)
  /\ seedFile # "short" \/ seedPc[Run] = "write"

OnlyFaultsEnd ==
  CleanRun /\ stage \notin {"off", "done", "panicked"} =>
    \/ faults' > faults
    \/ CleanRun' /\ stage' # "panicked"

\* What the verify binary has logged and has left to check is what it was
\* asked to check; it begins with nothing logged.
ChecksAll ==
  /\ verifyStage \in {"params", "vk"} => verdicts = {}
  /\ verifyStage = "proofs" =>
       {v[1] : v \in verdicts} \cup {unchecked[k] : k \in DOMAIN unchecked}
         = {o \in Checkable : Wanted(o)}

\* What a verify command with the right files of finished traces will find.
FilesInPlace ==
  /\ Readable(VkFile)
  /\ \A option \in Checkable : Wanted(option) =>
       /\ Readable(verifyArgs[option])
       /\ verifyArgs[option][2] = <<option, FormatOf(option)>>

RightFilesInPlace ==
  stage \in {"pick", "prove", "done", "panicked"} /\ RightCommand => FilesInPlace

\* It does not fail, and logs nothing but that a proof is good.
NoFalseAlarm ==
  stage \in {"pick", "prove", "done", "panicked"} /\ RightCommand =>
    /\ ~ VkUnreadable /\ ~ ProofUnreadable
    /\ VerifyOne => verdicts' = verdicts \cup {<<Option, TRUE>>}

BothInv == CliInv /\ VerifyTypeOK /\ ChecksAll

-----------------------------------------------------------------------------
(* Every step of the prove binary keeps the invariant.                     *)

CliStages == {"off", "params", "seed", "pick", "prove", "done", "panicked"}

LEMMA SeedKeeps ==
  ASSUME Seed!SeedTypeOK, seedPc[Run] = "ok" => seedOf[Run] \in Seed!Seeds,
         UNCHANGED seedVars \/ Seed!SeedStep(Run) \/ Seed!SeedAbandon({Run})
  PROVE  Seed!SeedTypeOK' /\ (seedPc'[Run] = "ok" => seedOf'[Run] \in Seed!Seeds)
<1> USE DEF Seed!SeedTypeOK, Seed!FileContents, Seed!Seeds, Seed!SeedPcs, Seed!NoSeed,
            Seed!GoTo
<1>1. CASE UNCHANGED seedVars
  BY <1>1 DEF seedVars
<1>2. CASE Seed!SeedAbandon({Run})
  BY <1>2 DEF Seed!SeedAbandon
<1>3. CASE Seed!SeedExists(Run) \/ Seed!SeedMissing(Run)
  BY <1>3 DEF Seed!SeedExists, Seed!SeedMissing
<1>4. CASE Seed!LoadSeed(Run) \/ Seed!LoadSeedFails(Run)
  BY <1>4 DEF Seed!LoadSeed, Seed!LoadSeedFails
<1>5. CASE Seed!CreateSeed(Run) \/ Seed!WriteSeed(Run)
  BY <1>5 DEF Seed!CreateSeed, Seed!WriteSeed
<1> QED
  BY <1>1, <1>2, <1>3, <1>4, <1>5 DEF Seed!SeedStep

\* While the command and the files stay, so does what is whole.
LEMMA SameFiles ==
  ASSUME UNCHANGED <<args, disk>>
  PROVE  /\ Program' = Program /\ Names' = Names
         /\ \A t : Whole(t)' <=> Whole(t)
         /\ \A t, item : WholeFile(t, item)' <=> WholeFile(t, item)
BY DEF Program, Names, Whole, WholeFile, Seed!Seeds

\* The steps that leave the Prover value, the loop and the files alone and
\* do not start on a trace.
Quiet ==
  /\ UNCHANGED <<args, params, left, trace, debugDir, step, open, keys, disk>>
  /\ faults' \in 0..MaxFaults /\ (faults > 0 => faults' > 0)
  /\ stage' \in CliStages /\ stage # "off" /\ stage' # "off"
  /\ stage' # "prove"
  /\ stage' \in {"params", "seed"} => stage \in {"params", "seed"}
  /\ stage' = "pick" => /\ stage = "seed"
                        /\ seedPc'[Run] = "ok" /\ \A t \in args.traces : t.parses
  /\ stage = "prove" => faults' > 0 \/ ~ open
  /\ stage \in {"params", "seed", "pick", "prove", "panicked", "done"}
  /\ UNCHANGED seedVars \/ Seed!SeedStep(Run) \/ Seed!SeedAbandon({Run})

LEMMA QuietSteps ==
  ASSUME CliInv,
         \/ LoadParams \/ ParamsMissing \/ LoadOrCreateSeed \/ SeedUnreadable
         \/ ReadTraces \/ TraceUnreadable \/ AllTaken \/ ComputeFails
         \/ StoreFails \/ Kill
  PROVE  Quiet
<1>0. /\ faults \in 0..MaxFaults /\ MaxFaults \in Nat /\ stage \in CliStages
      /\ stage = "prove" /\ open => AtItem /\ Stores(Item)
  BY CliAssumption DEF CliInv, TypeOK, CliStages, AtTrace
<1> USE DEF Quiet, proverVars, Goto, CliStages
<1>1. CASE LoadParams \/ ParamsMissing
  BY <1>0, <1>1 DEF LoadParams, ParamsMissing
<1>2. CASE LoadOrCreateSeed \/ SeedUnreadable
  BY <1>0, <1>2 DEF LoadOrCreateSeed, SeedUnreadable
<1>3. CASE ReadTraces \/ TraceUnreadable
  BY <1>0, <1>3 DEF ReadTraces, TraceUnreadable, seedVars
<1>4. CASE AllTaken
  BY <1>0, <1>4 DEF AllTaken
<1>5. CASE ComputeFails
  BY <1>0, <1>5 DEF ComputeFails
<1>6. CASE StoreFails
  BY <1>0, <1>6 DEF StoreFails
<1>7. CASE Kill
  BY <1>0, <1>7 DEF Kill
<1> QED
  BY <1>1, <1>2, <1>3, <1>4, <1>5, <1>6, <1>7

LEMMA QuietCli ==
  ASSUME CliInv, Quiet
  PROVE  CliInv'
<1>0. /\ Program' = Program /\ Names' = Names
      /\ \A t : Whole(t)' <=> Whole(t)
  BY SameFiles DEF Quiet
<1>1. TypeOK'
  <2>1. Seed!SeedTypeOK'
    BY SeedKeeps DEF CliInv, TypeOK, LoopReady, Quiet
  <2> QED
    BY <1>0, <2>1 DEF CliInv, TypeOK, Quiet, CliStages
<1>2. BetweenTraces' /\ AtTrace' /\ ProvedSoFar' /\ StoredSoFar'
  BY DEF CliInv, Quiet, BetweenTraces, AtTrace, ProvedSoFar, StoredSoFar
<1>3. LoopReady'
  <2>1. seedPc'[Run] = "ok" => seedOf'[Run] \in Seed!Seeds
    BY SeedKeeps DEF CliInv, TypeOK, LoopReady, Quiet
  <2> QED
    BY <2>1 DEF Quiet, LoopReady, Seed!Seeds
<1>4. DiskTypes'
  BY DEF CliInv, Quiet, DiskTypes
<1>5. TakenAreWhole'
  <2> SUFFICES ASSUME stage' # "off", NEW t \in args.traces \ (left \cup {trace})
               PROVE  Whole(t)
    BY <1>0 DEF TakenAreWhole, Quiet
  <2>1. stage \notin {"params", "seed"}
    BY DEF CliInv, BetweenTraces
  <2> QED
    BY <2>1 DEF CliInv, TakenAreWhole, Quiet
<1>6. OwnDirectories'
  <2> SUFFICES ASSUME NEW slot \in DOMAIN disk
               PROVE  /\ disk[slot].of = "torn" => faults' > 0
                      /\ disk[slot].of = "circuit" => \E t \in args.traces :
                           t.name = slot[1] /\ slot[2][1] \in t.provable
                      /\ disk[slot].of = "trace" =>
                           /\ disk[slot].trace.name = slot[1]
                           /\ slot[2][1] \in disk[slot].trace.provable
    BY DEF OwnDirectories, CliInv, DiskTypes, Quiet
  <2>1. faults > 0 \/ (AtItem /\ open) => faults' > 0
    BY DEF Quiet, AtItem
  <2> QED
    BY <2>1 DEF CliInv, OwnDirectories, DiskTypes
<1> QED
  BY <1>1, <1>2, <1>3, <1>4, <1>5, <1>6 DEF CliInv

\* A run begins anew, over the files of the one before.
LEMMA LaunchCli ==
  ASSUME CliInv, Launch
  PROVE  CliInv'
<1>0. /\ UNCHANGED <<args, params, disk, faults>> /\ stage \in {"off", "panicked"}
      /\ stage' = "params" /\ left' = args.traces
      /\ trace' = NoTrace /\ debugDir' = "" /\ step' = 1 /\ open' = FALSE /\ keys' = {}
      /\ Seed!SeedAbandon({Run})
  BY DEF Launch
<1>1. Program' = Program /\ Names' = Names
  BY <1>0, SameFiles
<1>2. Seed!SeedTypeOK' /\ (seedPc'[Run] = "ok" => seedOf'[Run] \in Seed!Seeds)
  BY <1>0, SeedKeeps DEF CliInv, TypeOK, LoopReady
<1>3. TypeOK'
  <2>1. left' \subseteq args'.traces /\ trace' \in args'.traces \cup {NoTrace}
    BY <1>0
  <2>2. open' \in BOOLEAN /\ keys' \subseteq Keys /\ step' \in Nat \ {0}
    <3>1. open' = FALSE
      BY DEF Launch
    <3>2. open' \in BOOLEAN
      BY <3>1, Zenon
    <3>3. keys' = {} /\ step' = 1
      BY DEF Launch
    <3>4. keys' \subseteq Keys /\ step' \in Nat \ {0}
      BY <3>3
    <3> QED
      BY <3>2, <3>4
  <2>3. /\ args' \in Commands /\ params' \subseteq Degrees
        /\ faults' \in 0..MaxFaults /\ DOMAIN disk' \subseteq Names' \X Files
    BY <1>0, <1>1 DEF CliInv, TypeOK
  <2> QED
    BY <1>0, <1>2, <2>1, <2>2, <2>3 DEF TypeOK
<1>4. /\ BetweenTraces' /\ AtTrace' /\ ProvedSoFar' /\ StoredSoFar' /\ LoopReady'
      /\ TakenAreWhole'
  BY <1>0, <1>2 DEF BetweenTraces, AtTrace, ProvedSoFar, StoredSoFar, LoopReady, TakenAreWhole,
                    Seed!Seeds
<1>5. DiskTypes'
  BY <1>0 DEF CliInv, DiskTypes
<1>6. OwnDirectories'
  <2> SUFFICES ASSUME NEW slot \in DOMAIN disk
               PROVE  /\ disk[slot].of = "torn" => faults > 0
                      /\ disk[slot].of = "circuit" => \E t \in args.traces :
                           t.name = slot[1] /\ slot[2][1] \in t.provable
                      /\ disk[slot].of = "trace" =>
                           /\ disk[slot].trace.name = slot[1]
                           /\ slot[2][1] \in disk[slot].trace.provable
    BY <1>0 DEF OwnDirectories, CliInv, DiskTypes
  <2>1. ~ AtItem
    BY <1>0 DEF AtItem
  <2> QED
    BY <2>1 DEF CliInv, OwnDirectories, DiskTypes
<1> QED
  BY <1>3, <1>4, <1>5, <1>6 DEF CliInv

\* The loop takes a trace: no file is open, and all that was taken is whole.
LEMMA PickCli ==
  ASSUME CliInv, NEW t \in left, TooManyTxs(t) \/ TakeTrace(t)
  PROVE  CliInv'
<1>0. /\ UNCHANGED <<args, params, open, keys, disk, faults, seedVars>>
      /\ stage = "pick" /\ stage' \in {"prove", "panicked"}
      /\ left' = left \ {t} /\ trace' = t /\ step' = 1
      /\ debugDir' \in {debugDir, t.name} /\ (stage' = "prove" => debugDir' = t.name)
  BY DEF TooManyTxs, TakeTrace, Pick, Goto
<1>1. /\ Program' = Program /\ Names' = Names
      /\ \A u : Whole(u)' <=> Whole(u)
  BY <1>0, SameFiles
<1>2. t \in args.traces /\ trace = NoTrace /\ ~ open
  BY <1>0 DEF CliInv, TypeOK, BetweenTraces
<1>3. Seed!SeedTypeOK' /\ (seedPc'[Run] = "ok" => seedOf'[Run] \in Seed!Seeds)
  BY <1>0, SeedKeeps DEF CliInv, TypeOK, LoopReady
<1>4. TypeOK'
  <2>1. t.name \in Names
    BY <1>2 DEF Names
  <2>2. left' \subseteq args'.traces /\ trace' \in args'.traces \cup {NoTrace}
    BY <1>0, <1>2 DEF CliInv, TypeOK
  <2>3. /\ args' \in Commands /\ params' \subseteq Degrees
        /\ open' \in BOOLEAN /\ keys' \subseteq Keys /\ step' \in Nat \ {0}
        /\ faults' \in 0..MaxFaults /\ DOMAIN disk' \subseteq Names' \X Files
    <3>1. open \in BOOLEAN /\ open' = open
      BY <1>0, Zenon DEF CliInv, TypeOK
    <3>2. /\ args' \in Commands /\ params' \subseteq Degrees /\ keys' \subseteq Keys
          /\ faults' \in 0..MaxFaults /\ DOMAIN disk' \subseteq Names' \X Files
      BY <1>0, <1>1 DEF CliInv, TypeOK
    <3>3. step' \in Nat \ {0}
      BY <1>0
    <3> QED
      BY <3>1, <3>2, <3>3
  <2>4. debugDir' \in Names' \cup {""}
    BY <1>0, <1>1, <2>1 DEF CliInv, TypeOK
  <2> QED
    BY <1>0, <1>3, <2>2, <2>3, <2>4 DEF TypeOK
<1>5. LoopReady'
  BY <1>0, <1>3 DEF CliInv, LoopReady, seedVars, Seed!Seeds
<1>6. BetweenTraces' /\ AtTrace'
  BY <1>0, <1>2 DEF BetweenTraces, AtTrace
<1>7. ProvedSoFar' /\ StoredSoFar'
  <2>1. Program \in Seq(Items)
    BY ProgramIs DEF CliInv, TypeOK, PartOf
  <2>2. \A k \in DOMAIN Program : ~ k < 1
    BY <2>1
  <2> QED
    BY <1>0, <1>1, <2>2 DEF ProvedSoFar, StoredSoFar
<1>8. TakenAreWhole'
  <2> SUFFICES ASSUME NEW u \in args.traces \ ((left \ {t}) \cup {t})
               PROVE  Whole(u)
    BY <1>0, <1>1 DEF TakenAreWhole
  <2>1. u \notin left /\ u.parses
    BY <1>0 DEF CliInv, LoopReady
  <2>2. ~ NoTrace.parses
    BY DEF NoTrace
  <2> QED
    BY <1>0, <1>2, <2>1, <2>2 DEF CliInv, TakenAreWhole
<1>9. DiskTypes'
  BY <1>0 DEF CliInv, DiskTypes
<1>10. OwnDirectories'
  <2> SUFFICES ASSUME NEW slot \in DOMAIN disk
               PROVE  /\ disk[slot].of = "torn" => faults > 0
                      /\ disk[slot].of = "circuit" => \E u \in args.traces :
                           u.name = slot[1] /\ slot[2][1] \in u.provable
                      /\ disk[slot].of = "trace" =>
                           /\ disk[slot].trace.name = slot[1]
                           /\ slot[2][1] \in disk[slot].trace.provable
    BY <1>0 DEF OwnDirectories, CliInv, DiskTypes
  <2> QED
    BY <1>2 DEF CliInv, OwnDirectories, DiskTypes
<1> QED
  BY <1>4, <1>5, <1>6, <1>7, <1>8, <1>9, <1>10 DEF CliInv

\* The loop is done with a trace: none of its files is left to be stored.
LEMMA DoneCli ==
  ASSUME CliInv, TraceDone
  PROVE  CliInv'
<1>0. /\ UNCHANGED <<args, params, left, debugDir, step, open, keys, disk, faults, seedVars>>
      /\ stage = "prove" /\ stage' = "pick" /\ ~ AtItem /\ trace' = NoTrace
  BY DEF TraceDone, Goto
<1>1. /\ Program' = Program /\ Names' = Names
      /\ \A u : Whole(u)' <=> Whole(u)
  BY <1>0, SameFiles
<1>2. ~ open
  BY <1>0 DEF CliInv, AtTrace
<1>3. Seed!SeedTypeOK' /\ (seedPc'[Run] = "ok" => seedOf'[Run] \in Seed!Seeds)
  BY <1>0, SeedKeeps DEF CliInv, TypeOK, LoopReady
<1>4. TypeOK'
  <2>1. open' \in BOOLEAN
    <3>1. open \in BOOLEAN /\ open' = open
      BY <1>0, Zenon DEF CliInv, TypeOK
    <3> QED
      BY <3>1, Zenon
  <2>2. /\ args' \in Commands /\ params' \subseteq Degrees
        /\ left' \subseteq args'.traces /\ trace' \in args'.traces \cup {NoTrace}
        /\ debugDir' \in Names' \cup {""} /\ step' \in Nat \ {0} /\ keys' \subseteq Keys
        /\ faults' \in 0..MaxFaults /\ DOMAIN disk' \subseteq Names' \X Files
    BY <1>0, <1>1 DEF CliInv, TypeOK
  <2> QED
    BY <1>0, <1>3, <2>1, <2>2 DEF TypeOK
<1>5. LoopReady'
  BY <1>0, <1>3 DEF CliInv, LoopReady, seedVars, Seed!Seeds
<1>6. BetweenTraces' /\ AtTrace' /\ ProvedSoFar' /\ StoredSoFar'
  BY <1>0, <1>2 DEF BetweenTraces, AtTrace, ProvedSoFar, StoredSoFar
<1>7. TakenAreWhole'
  <2>1. Whole(trace)
    <3>1. /\ Program \in Seq(Items) /\ step \in Nat \ {0} /\ step \notin DOMAIN Program
      BY <1>0, ProgramIs DEF CliInv, TypeOK, PartOf, AtItem
    <3>2. \A k \in DOMAIN Program : k < step
      BY <3>1
    <3> QED
      BY <1>0, <3>2 DEF CliInv, StoredSoFar, WholeFile, Whole
  <2> SUFFICES ASSUME NEW u \in args.traces \ left
               PROVE  Whole(u)
    BY <1>0, <1>1 DEF TakenAreWhole
  <2> QED
    BY <1>0, <2>1 DEF CliInv, TakenAreWhole
<1>8. DiskTypes'
  BY <1>0 DEF CliInv, DiskTypes
<1>9. OwnDirectories'
  <2> SUFFICES ASSUME NEW slot \in DOMAIN disk
               PROVE  /\ disk[slot].of = "torn" => faults > 0
                      /\ disk[slot].of = "circuit" => \E u \in args.traces :
                           u.name = slot[1] /\ slot[2][1] \in u.provable
                      /\ disk[slot].of = "trace" =>
                           /\ disk[slot].trace.name = slot[1]
                           /\ slot[2][1] \in disk[slot].trace.provable
    BY <1>0 DEF OwnDirectories, CliInv, DiskTypes
  <2> QED
    BY <1>2 DEF CliInv, OwnDirectories, DiskTypes
<1> QED
  BY <1>4, <1>5, <1>6, <1>7, <1>8, <1>9 DEF CliInv

LEMMA AtItemIs ==
  ASSUME CliInv, AtItem
  PROVE  /\ stage = "prove" /\ step \in Nat \ {0} /\ step \in DOMAIN Program
         /\ Program \in Seq(Items) /\ Item \in Items /\ Item = Program[step]
<1>1. stage = "prove" /\ step \in DOMAIN Program
  BY DEF AtItem
<1>2. step \in Nat \ {0} /\ args \in Commands
  BY DEF CliInv, TypeOK
<1>3. Program \in Seq(Items)
  BY <1>2, ProgramIs DEF PartOf
<1>4. Item = Program[step]
  BY DEF Item
<1>5. Item \in Items
  BY <1>1, <1>3, <1>4
<1> QED
  BY <1>1, <1>2, <1>3, <1>4, <1>5

\* An item that stores nothing: a circuit that proves has its trace provable.
LEMMA ComputeCli ==
  ASSUME CliInv, Compute
  PROVE  CliInv'
<1>0. /\ UNCHANGED <<args, params, stage, left, trace, debugDir, open, disk, faults, seedVars>>
      /\ AtItem /\ ~ Stores(Item) /\ ~ ItemFails(Item, keys, trace)
      /\ step' = step + 1 /\ keys' = KeysAfter(Item, keys)
  BY DEF Compute
<1>1. /\ Program' = Program /\ Names' = Names
      /\ \A u : Whole(u)' <=> Whole(u)
      /\ \A u, item : WholeFile(u, item)' <=> WholeFile(u, item)
  BY <1>0, SameFiles
<1>2. ~ open /\ stage = "prove"
  BY <1>0 DEF CliInv, AtTrace, AtItem
<1>3. Seed!SeedTypeOK' /\ (seedPc'[Run] = "ok" => seedOf'[Run] \in Seed!Seeds)
  BY <1>0, SeedKeeps DEF CliInv, TypeOK, LoopReady
<1>4. /\ Program \in Seq(Items) /\ step \in Nat \ {0} /\ Item \in Items
      /\ Item = Program[step]
  BY <1>0, AtItemIs
<1>5. TypeOK'
  <2>1. open' \in BOOLEAN
    <3>1. open \in BOOLEAN /\ open' = open
      BY <1>0, Zenon DEF CliInv, TypeOK
    <3> QED
      BY <3>1, Zenon
  <2>2. /\ args' \in Commands /\ params' \subseteq Degrees
        /\ left' \subseteq args'.traces /\ trace' \in args'.traces \cup {NoTrace}
        /\ debugDir' \in Names' \cup {""} /\ stage' \in CliStages
        /\ faults' \in 0..MaxFaults /\ DOMAIN disk' \subseteq Names' \X Files
    BY <1>0, <1>1 DEF CliInv, TypeOK, CliStages
  <2>3. step' \in Nat \ {0}
    BY <1>0, <1>4
  <2>4. keys' \subseteq Keys
    <3>1. keys \subseteq Keys
      BY DEF CliInv, TypeOK
    <3>2. Item.arg[1] \in Keys
      BY <1>4 DEF Items, Files, Keys
    <3> QED
      BY <1>0, <3>1, <3>2 DEF KeysAfter
  <2> QED
    BY <1>3, <2>1, <2>2, <2>3, <2>4 DEF TypeOK, CliStages
<1>6. LoopReady'
  BY <1>0, <1>3 DEF CliInv, LoopReady, seedVars, Seed!Seeds
<1>7. BetweenTraces' /\ AtTrace'
  BY <1>0, <1>2 DEF CliInv, BetweenTraces, AtTrace
<1>8. ProvedSoFar' /\ StoredSoFar'
  <2>1. \A k \in DOMAIN Program : k < step + 1 => k < step \/ k = step
    BY <1>4
  <2>2. Proves(Program[step]) => Program[step].arg[1] \in trace.provable
    BY <1>0, <1>4 DEF ItemFails, Proves
  <2> QED
    BY <1>0, <1>1, <1>2, <1>4, <2>1, <2>2 DEF CliInv, ProvedSoFar, StoredSoFar
<1>9. TakenAreWhole'
  BY <1>0, <1>1 DEF CliInv, TakenAreWhole
<1>10. DiskTypes'
  BY <1>0 DEF CliInv, DiskTypes
<1>11. OwnDirectories'
  <2> SUFFICES ASSUME NEW slot \in DOMAIN disk
               PROVE  /\ disk[slot].of = "torn" => faults > 0
                      /\ disk[slot].of = "circuit" => \E u \in args.traces :
                           u.name = slot[1] /\ slot[2][1] \in u.provable
                      /\ disk[slot].of = "trace" =>
                           /\ disk[slot].trace.name = slot[1]
                           /\ slot[2][1] \in disk[slot].trace.provable
    BY <1>0 DEF OwnDirectories, CliInv, DiskTypes
  <2> QED
    BY <1>2 DEF CliInv, OwnDirectories, DiskTypes
<1> QED
  BY <1>5, <1>6, <1>7, <1>8, <1>9, <1>10, <1>11 DEF CliInv

\* A file that is put where it belongs leaves the files stored before it, and
\* those of all other traces, as they were.
LEMMA PutKeeps ==
  ASSUME CliInv, AtItem, Stores(Item), NEW bytes, Put(SlotOf(Item), bytes),
         UNCHANGED <<args, left, trace>>
  PROVE  /\ Program' = Program /\ Names' = Names
         /\ SlotOf(Item) = <<trace.name, Item.arg>> /\ SlotOf(Item) \in Names \X Files
         /\ trace \in args.traces
         /\ DOMAIN disk' = DOMAIN disk \cup {SlotOf(Item)}
         /\ disk'[SlotOf(Item)] = bytes
         /\ \A slot \in DOMAIN disk : slot # SlotOf(Item) => disk'[slot] = disk[slot]
         /\ \A k \in DOMAIN Program :
              k < step /\ Stores(Program[k]) => WholeFile(trace, Program[k])'
         /\ \A u \in args.traces \ (left \cup {trace}) : Whole(u)'
         /\ ProvesFirst(Program, step, Item.arg[1])
<1> DEFINE here == SlotOf(Item)
<1>1. /\ DOMAIN disk' = DOMAIN disk \cup {here} /\ disk'[here] = bytes
      /\ \A slot \in DOMAIN disk : slot # here => disk'[slot] = disk[slot]
  BY DEF Put
<1>2. Program' = Program /\ Names' = Names
  BY DEF Program, Names
<1>3. /\ stage = "prove" /\ step \in DOMAIN Program /\ Item = Program[step]
      /\ Program \in Seq(Items) /\ Item \in Items /\ step \in Nat \ {0}
  BY AtItemIs
<1>4. trace \in args.traces \ left /\ here = <<trace.name, Item.arg>>
  BY <1>3 DEF CliInv, AtTrace, SlotOf
<1>5. here \in Names \X Files
  <2>1. trace.name \in Names /\ Item.arg \in Files
    BY <1>3, <1>4 DEF Names, Items
  <2> QED
    BY <1>4, <2>1
<1>6. PartOf(Program, Keys)
  BY ProgramIs DEF CliInv, TypeOK
<1> HIDE DEF here
<1>7. ASSUME NEW u, NEW item, WholeFile(u, item), <<u.name, item.arg>> # here
      PROVE  WholeFile(u, item)'
  BY <1>1, <1>7 DEF WholeFile, Seed!Seeds
<1>8. ASSUME NEW k \in DOMAIN Program, k < step, Stores(Program[k])
      PROVE  WholeFile(trace, Program[k])'
  <2>1. WholeFile(trace, Program[k])
    BY <1>3, <1>8 DEF CliInv, StoredSoFar
  <2>2. k # step
    BY <1>3, <1>8
  <2>3. Program[k].arg # Item.arg
    BY <1>3, <1>6, <1>8, <2>2 DEF PartOf
  <2>4. WholeFile(trace, Program[k])'  <=> WholeFile(trace, Program[k])
    BY <1>1, <1>2, <1>4, <2>1, <2>3 DEF WholeFile, Seed!Seeds
  <2> QED
    BY <2>1, <2>4
<1>9. ASSUME NEW u \in args.traces \ (left \cup {trace})
      PROVE  Whole(u)'
  <2>1. Whole(u)
    BY <1>3, <1>9 DEF CliInv, TakenAreWhole
  <2>2. u.name # trace.name
    BY <1>4, <1>9, CliAssumption DEF CliInv, TypeOK
  <2> QED
    BY <1>1, <1>2, <1>4, <2>1, <2>2 DEF Whole, Seed!Seeds
<1>10. ProvesFirst(Program, step, Item.arg[1])
  BY <1>3, <1>6 DEF PartOf
<1> QED
  BY <1>1, <1>2, <1>4, <1>5, <1>8, <1>9, <1>10 DEF here

\* File::create: what is torn is the file at the step the run is at.
LEMMA OpenCli ==
  ASSUME CliInv, OpenFile
  PROVE  CliInv'
<1>0. /\ UNCHANGED <<args, params, stage, left, trace, debugDir, step, keys, faults, seedVars>>
      /\ AtItem /\ Stores(Item) /\ Put(SlotOf(Item), Torn)
  BY DEF OpenFile
<1>1. ~ open /\ open' = TRUE
  BY DEF OpenFile
<1> DEFINE here == SlotOf(Item)
<1>2. /\ Program' = Program /\ Names' = Names
      /\ here = <<trace.name, Item.arg>> /\ here \in Names \X Files
      /\ DOMAIN disk' = DOMAIN disk \cup {here} /\ disk'[here] = Torn
      /\ \A slot \in DOMAIN disk : slot # here => disk'[slot] = disk[slot]
      /\ \A k \in DOMAIN Program :
           k < step /\ Stores(Program[k]) => WholeFile(trace, Program[k])'
      /\ \A u \in args.traces \ (left \cup {trace}) : Whole(u)'
  BY <1>0, PutKeeps
<1>3. stage = "prove"
  BY <1>0 DEF AtItem
<1>4. AtItem' /\ Item' = Item /\ here' = here
  BY <1>0, <1>2 DEF AtItem, Item, SlotOf
<1>5. Seed!SeedTypeOK' /\ (seedPc'[Run] = "ok" => seedOf'[Run] \in Seed!Seeds)
  BY <1>0, SeedKeeps DEF CliInv, TypeOK, LoopReady
<1> HIDE DEF here
<1>6. TypeOK'
  <2>1. open' \in BOOLEAN
    BY <1>1, Zenon
  <2>2. /\ args' \in Commands /\ params' \subseteq Degrees /\ stage' \in CliStages
        /\ left' \subseteq args'.traces /\ trace' \in args'.traces \cup {NoTrace}
        /\ debugDir' \in Names' \cup {""} /\ step' \in Nat \ {0} /\ keys' \subseteq Keys
        /\ faults' \in 0..MaxFaults /\ DOMAIN disk \subseteq Names' \X Files
    BY <1>0, <1>2 DEF CliInv, TypeOK, CliStages
  <2>3. DOMAIN disk' \subseteq Names' \X Files
    BY <1>2, <2>2
  <2> QED
    BY <1>5, <2>1, <2>2, <2>3 DEF TypeOK, CliStages
<1>7. LoopReady'
  BY <1>0, <1>5 DEF CliInv, LoopReady, seedVars, Seed!Seeds
<1>8. BetweenTraces'
  BY <1>0, <1>3 DEF CliInv, BetweenTraces
<1>9. AtTrace'
  <2>1. Stores(Item')
    BY <1>0, <1>4
  <2> QED
    BY <1>0, <1>3, <1>4, <2>1 DEF CliInv, AtTrace
<1>10. ProvedSoFar' /\ StoredSoFar'
  BY <1>0, <1>2, <1>3 DEF CliInv, ProvedSoFar, StoredSoFar
<1>11. DiskTypes'
  <2> SUFFICES ASSUME NEW slot \in DOMAIN disk'
               PROVE  disk'[slot].of \in {"torn", "circuit", "trace"}
    BY DEF DiskTypes
  <2>1. CASE slot = here
    BY <1>2, <2>1 DEF Torn
  <2>2. CASE slot # here
    BY <1>2, <2>2 DEF CliInv, DiskTypes
  <2> QED
    BY <2>1, <2>2
<1>12. TakenAreWhole'
  BY <1>0, <1>2 DEF TakenAreWhole
<1>13. OwnDirectories'
  <2> SUFFICES ASSUME NEW slot \in DOMAIN disk'
               PROVE  /\ disk'[slot].of = "torn" =>
                           faults' > 0 \/ (AtItem' /\ open' /\ slot = here')
                      /\ disk'[slot].of = "circuit" => \E u \in args'.traces :
                           u.name = slot[1] /\ slot[2][1] \in u.provable
                      /\ disk'[slot].of = "trace" =>
                           /\ disk'[slot].trace.name = slot[1]
                           /\ slot[2][1] \in disk'[slot].trace.provable
    BY <1>11 DEF OwnDirectories, DiskTypes, here
  <2>1. CASE slot = here
    BY <1>1, <1>2, <1>4, <2>1 DEF Torn
  <2>2. CASE slot # here
    <3>1. slot \in DOMAIN disk /\ disk'[slot] = disk[slot]
      BY <1>2, <2>2
    <3>2. disk[slot].of = "torn" => faults > 0
      BY <1>1, <3>1 DEF CliInv, OwnDirectories
    <3> QED
      BY <1>0, <3>1, <3>2 DEF CliInv, OwnDirectories, DiskTypes
  <2> QED
    BY <2>1, <2>2
<1> QED
  BY <1>6, <1>7, <1>8, <1>9, <1>10, <1>11, <1>12, <1>13 DEF CliInv

\* write_all: the bytes are those of the trace that the loop is at, and of a
\* circuit that has proved it.
LEMMA WriteCli ==
  ASSUME CliInv, WriteFile
  PROVE  CliInv'
<1> DEFINE here == SlotOf(Item)
           bytes == FileBytes(Item.arg, trace, seedOf[Run])
<1>0. /\ UNCHANGED <<args, params, stage, left, trace, debugDir, keys, faults, seedVars>>
      /\ AtItem /\ Stores(Item) /\ Put(here, bytes) /\ step' = step + 1
  BY DEF WriteFile
<1>1. open /\ open' = FALSE
  BY DEF WriteFile
<1>2. /\ Program' = Program /\ Names' = Names
      /\ here = <<trace.name, Item.arg>> /\ here \in Names \X Files
      /\ trace \in args.traces
      /\ DOMAIN disk' = DOMAIN disk \cup {here} /\ disk'[here] = bytes
      /\ \A slot \in DOMAIN disk : slot # here => disk'[slot] = disk[slot]
      /\ \A k \in DOMAIN Program :
           k < step /\ Stores(Program[k]) => WholeFile(trace, Program[k])'
      /\ \A u \in args.traces \ (left \cup {trace}) : Whole(u)'
      /\ ProvesFirst(Program, step, Item.arg[1])
  BY <1>0, PutKeeps
<1>3. /\ stage = "prove" /\ step \in Nat \ {0} /\ step \in DOMAIN Program
      /\ Program \in Seq(Items) /\ Item \in Items /\ Item = Program[step]
  BY <1>0, AtItemIs
<1>4. Seed!SeedTypeOK' /\ (seedPc'[Run] = "ok" => seedOf'[Run] \in Seed!Seeds)
  BY <1>0, SeedKeeps DEF CliInv, TypeOK, LoopReady
<1>5. seedOf[Run] \in Seed!Seeds
  BY <1>3 DEF CliInv, LoopReady
<1>6. Item.arg[1] \in trace.provable
  <2>1. PICK l \in 1..(step - 1) : Proves(Program[l]) /\ Program[l].arg[1] = Item.arg[1]
    BY <1>2 DEF ProvesFirst
  <2>2. l \in DOMAIN Program /\ l < step
    BY <1>3
  <2> QED
    BY <1>3, <2>1, <2>2 DEF CliInv, ProvedSoFar
<1>7. /\ bytes \in {[of |-> "circuit"], [of |-> "trace", trace |-> trace, seed |-> seedOf[Run]]}
      /\ bytes \in {FileBytes(here[2], trace, s) : s \in Seed!Seeds}
  BY <1>2, <1>5 DEF FileBytes
<1> HIDE DEF here, bytes
<1>8. TypeOK'
  <2>1. open' \in BOOLEAN
    BY <1>1, Zenon
  <2>2. /\ args' \in Commands /\ params' \subseteq Degrees /\ stage' \in CliStages
        /\ left' \subseteq args'.traces /\ trace' \in args'.traces \cup {NoTrace}
        /\ debugDir' \in Names' \cup {""} /\ keys' \subseteq Keys
        /\ faults' \in 0..MaxFaults /\ DOMAIN disk \subseteq Names' \X Files
    BY <1>0, <1>2 DEF CliInv, TypeOK, CliStages
  <2>3. DOMAIN disk' \subseteq Names' \X Files
    BY <1>2, <2>2
  <2>4. step' \in Nat \ {0}
    BY <1>0, <1>3
  <2> QED
    BY <1>4, <2>1, <2>2, <2>3, <2>4 DEF TypeOK, CliStages
<1>9. LoopReady'
  BY <1>0, <1>4 DEF CliInv, LoopReady, seedVars, Seed!Seeds
<1>10. BetweenTraces' /\ AtTrace'
  BY <1>0, <1>1, <1>3 DEF CliInv, BetweenTraces, AtTrace
<1>11. \A k \in DOMAIN Program : k < step + 1 => k < step \/ k = step
  BY <1>3
<1>12. ProvedSoFar'
  <2>1. ~ Proves(Program[step])
    BY <1>0, <1>3 DEF Proves, Stores
  <2> QED
    BY <1>0, <1>2, <1>3, <1>11, <2>1 DEF CliInv, ProvedSoFar
<1>13. StoredSoFar'
  <2> SUFFICES ASSUME NEW k \in DOMAIN Program, k < step + 1, Stores(Program[k])
               PROVE  WholeFile(trace, Program[k])'
    BY <1>0, <1>2 DEF StoredSoFar
  <2>1. CASE k < step
    BY <1>2, <2>1
  <2>2. CASE k = step
    <3>1. Program'[k] = Item /\ trace' = trace
      BY <1>0, <1>2, <1>3, <2>2
    <3>2. here \in DOMAIN disk' /\ here = <<trace.name, Item.arg>>
      BY <1>2
    <3>3. disk'[here] \in {FileBytes(Item.arg, trace, s) : s \in Seed!Seeds}
      BY <1>2, <1>7
    <3> QED
      BY <3>1, <3>2, <3>3 DEF WholeFile, Seed!Seeds
  <2> QED
    BY <1>11, <2>1, <2>2
<1>14. TakenAreWhole'
  BY <1>0, <1>2 DEF TakenAreWhole
<1>15. DiskTypes'
  <2> SUFFICES ASSUME NEW slot \in DOMAIN disk'
               PROVE  disk'[slot].of \in {"torn", "circuit", "trace"}
    BY DEF DiskTypes
  <2>1. CASE slot = here
    BY <1>2, <1>7, <2>1
  <2>2. CASE slot # here
    BY <1>2, <2>2 DEF CliInv, DiskTypes
  <2> QED
    BY <2>1, <2>2
<1>16. OwnDirectories'
  <2> SUFFICES ASSUME NEW slot \in DOMAIN disk'
               PROVE  /\ disk'[slot].of = "torn" => faults' > 0
                      /\ disk'[slot].of = "circuit" => \E u \in args'.traces :
                           u.name = slot[1] /\ slot[2][1] \in u.provable
                      /\ disk'[slot].of = "trace" =>
                           /\ disk'[slot].trace.name = slot[1]
                           /\ slot[2][1] \in disk'[slot].trace.provable
    BY <1>15 DEF OwnDirectories, DiskTypes
  <2>1. CASE slot = here
    <3>1. slot[1] = trace.name /\ slot[2][1] = Item.arg[1]
      BY <1>2, <2>1
    <3>2. bytes.of # "torn" /\ (bytes.of = "trace" => bytes.trace = trace)
      BY <1>7
    <3> QED
      BY <1>0, <1>2, <1>6, <2>1, <3>1, <3>2
  <2>2. CASE slot # here
    <3>1. slot \in DOMAIN disk /\ disk'[slot] = disk[slot]
      BY <1>2, <2>2
    <3>2. disk[slot].of = "torn" => faults > 0
      BY <2>2, <3>1 DEF CliInv, OwnDirectories, here
    <3> QED
      BY <1>0, <3>1, <3>2 DEF CliInv, OwnDirectories, DiskTypes
  <2> QED
    BY <2>1, <2>2
<1> QED
  BY <1>8, <1>9, <1>10, <1>12, <1>13, <1>14, <1>15, <1>16 DEF CliInv

LEMMA CliInit ==
  ASSUME Init
  PROVE  CliInv
<1>1. /\ args \in Commands /\ params \in ParamsAtStart /\ stage = "off" /\ left = {}
      /\ trace = NoTrace /\ debugDir = "" /\ step = 1 /\ keys = {}
      /\ disk = <<>> /\ faults = 0 /\ Seed!SeedInit
  BY DEF Init
<1>0. DOMAIN disk = {}
  <2>1. disk = <<>>
    BY DEF Init
  <2>2. DOMAIN <<>> = {}
    OBVIOUS
  <2> QED
    BY <2>1, <2>2, Zenon
<1>2. TypeOK
  <2>1. open = FALSE
    BY DEF Init
  <2>2. open \in BOOLEAN
    BY <2>1, Zenon
  <2>3. Seed!SeedTypeOK
    BY <1>1 DEF Seed!SeedInit, Seed!SeedTypeOK, Seed!FileContents, Seed!Seeds, Seed!SeedPcs
  <2>4. keys \subseteq Keys /\ step \in Nat \ {0}
    <3>1. keys = {} /\ step = 1
      BY DEF Init
    <3> QED
      BY <3>1
  <2>5. params \subseteq Degrees /\ faults \in 0..MaxFaults
    <3>1. params \in ParamsAtStart /\ faults = 0
      BY DEF Init
    <3> QED
      BY <3>1, CliAssumption
  <2>6. DOMAIN disk \subseteq Names \X Files
    BY <1>0
  <2> QED
    BY <1>1, <2>2, <2>3, <2>4, <2>5, <2>6 DEF TypeOK
<1>3. seedPc[Run] # "ok"
  BY <1>1 DEF Seed!SeedInit
<1>4. BetweenTraces /\ LoopReady /\ AtTrace /\ ProvedSoFar /\ StoredSoFar /\ TakenAreWhole
  BY <1>1, <1>3 DEF BetweenTraces, LoopReady, AtTrace, ProvedSoFar, StoredSoFar, TakenAreWhole
<1>5. DiskTypes /\ OwnDirectories
  BY <1>0 DEF DiskTypes, OwnDirectories
<1> QED
  BY <1>2, <1>4, <1>5 DEF CliInv

LEMMA IdleCli ==
  ASSUME CliInv, UNCHANGED vars
  PROVE  CliInv'
<1>0. UNCHANGED <<args, params, stage, left, trace, debugDir, step, open, keys, disk, faults,
                  seedFile, seedPc, seedOf>>
  BY DEF vars, proverVars, seedVars
<1>1. /\ Program' = Program /\ Names' = Names
      /\ \A t : Whole(t)' <=> Whole(t)
      /\ \A t, item : WholeFile(t, item)' <=> WholeFile(t, item)
  BY <1>0, SameFiles
<1>2. AtItem' = AtItem /\ Item' = Item /\ SlotOf(Item)' = SlotOf(Item)
  BY <1>0, <1>1 DEF AtItem, Item, SlotOf
<1>3. TypeOK'
  BY <1>0, <1>1 DEF CliInv, TypeOK, Seed!SeedTypeOK, Seed!FileContents, Seed!Seeds, Seed!SeedPcs,
                    Seed!NoSeed
<1>4. BetweenTraces' /\ LoopReady' /\ AtTrace'
  BY <1>0, <1>2 DEF CliInv, BetweenTraces, LoopReady, AtTrace, Seed!Seeds
<1>5. ProvedSoFar' /\ StoredSoFar' /\ TakenAreWhole'
  BY <1>0, <1>1 DEF CliInv, ProvedSoFar, StoredSoFar, TakenAreWhole
<1>6. DiskTypes' /\ OwnDirectories'
  BY <1>0, <1>2 DEF CliInv, DiskTypes, OwnDirectories
<1> QED
  BY <1>3, <1>4, <1>5, <1>6 DEF CliInv

LEMMA CliNext ==
  ASSUME CliInv, [Next]_vars
  PROVE  CliInv'
<1>1. CASE \/ LoadParams \/ ParamsMissing \/ LoadOrCreateSeed \/ SeedUnreadable
           \/ ReadTraces \/ TraceUnreadable \/ AllTaken \/ ComputeFails
           \/ StoreFails \/ Kill
  BY <1>1, QuietSteps, QuietCli
<1>2. CASE Launch
  BY <1>2, LaunchCli
<1>3. CASE \E t \in left : TooManyTxs(t) \/ TakeTrace(t)
  BY <1>3, PickCli
<1>4. CASE Compute
  BY <1>4, ComputeCli
<1>5. CASE OpenFile
  BY <1>5, OpenCli
<1>6. CASE WriteFile
  BY <1>6, WriteCli
<1>7. CASE TraceDone
  BY <1>7, DoneCli
<1>8. CASE Finished \/ UNCHANGED vars
  BY <1>8, IdleCli DEF Finished
<1> QED
  BY <1>1, <1>2, <1>3, <1>4, <1>5, <1>6, <1>7, <1>8 DEF Next, RunStep

LEMMA CliInvariant == Spec => []CliInv
<1>1. Init => CliInv
  BY CliInit
<1>2. CliInv /\ [Next]_vars => CliInv'
  BY CliNext
<1> QED
  BY <1>1, <1>2, PTL DEF Spec

-----------------------------------------------------------------------------
(* A clean run.                                                            *)

LEMMA SeedTestedStays ==
  ASSUME CliInv, SeedTested,
         UNCHANGED seedVars \/ Seed!SeedStep(Run) \/ Seed!SeedAbandon({Run})
  PROVE  SeedTested'
<1>0. Run \in {Run} /\ seedPc \in [{Run} -> Seed!SeedPcs] /\ seedFile \in Seed!FileContents
  BY DEF CliInv, TypeOK, Seed!SeedTypeOK
<1> USE DEF SeedTested, Seed!GoTo, Seed!FileContents, Seed!Seeds
<1>1. CASE UNCHANGED seedVars
  BY <1>1 DEF seedVars
<1>2. CASE Seed!SeedAbandon({Run})
  BY <1>2 DEF Seed!SeedAbandon
<1>3. CASE Seed!SeedExists(Run) \/ Seed!SeedMissing(Run)
  BY <1>0, <1>3 DEF Seed!SeedExists, Seed!SeedMissing
<1>4. CASE Seed!LoadSeed(Run) \/ Seed!LoadSeedFails(Run)
  BY <1>0, <1>4 DEF Seed!LoadSeed, Seed!LoadSeedFails
<1>5. CASE Seed!CreateSeed(Run) \/ Seed!WriteSeed(Run)
  BY <1>0, <1>5 DEF Seed!CreateSeed, Seed!WriteSeed
<1> QED
  BY <1>1, <1>2, <1>3, <1>4, <1>5 DEF Seed!SeedStep

\* A run by itself leaves a short file only for as long as it takes to write it.
LEMMA SeedStaysClean ==
  ASSUME CliInv, seedFile # "short" \/ seedPc[Run] = "write",
         UNCHANGED seedVars \/ Seed!SeedStep(Run)
  PROVE  seedFile' # "short" \/ seedPc'[Run] = "write"
<1>0. seedPc \in [{Run} -> Seed!SeedPcs]
  BY DEF CliInv, TypeOK, Seed!SeedTypeOK
<1>1. CASE UNCHANGED seedVars
  BY <1>1 DEF seedVars
<1>2. CASE Seed!SeedStep(Run)
  BY <1>0, <1>2 DEF Seed!SeedStep, Seed!GoTo, Seed!SeedExists, Seed!SeedMissing, Seed!LoadSeed,
                    Seed!LoadSeedFails, Seed!CreateSeed, Seed!WriteSeed
<1> QED
  BY <1>1, <1>2

\* How a step may change the seed.
LEMMA SeedChanges ==
  ASSUME [Next]_vars
  PROVE  UNCHANGED seedVars \/ Seed!SeedStep(Run) \/ Seed!SeedAbandon({Run})
BY DEF Next, RunStep, LoadParams, ParamsMissing, LoadOrCreateSeed, SeedUnreadable, ReadTraces,
       TraceUnreadable, TooManyTxs, TakeTrace, Pick, AllTaken, Compute, ComputeFails, OpenFile,
       WriteFile, TraceDone, Launch, StoreFails, Kill, Finished, vars

LEMMA KeysKept ==
  ASSUME CliInv, KeysHeld, [Next]_vars
  PROVE  KeysHeld'
<1>0. Program \in Seq(Items) /\ step \in Nat \ {0}
  BY ProgramIs DEF CliInv, TypeOK, PartOf
<1>1. CASE stage' # "prove"
  BY <1>1 DEF KeysHeld
<1>2. CASE \E t \in left : TakeTrace(t)
  <2>1. step' = 1 /\ args' = args
    BY <1>2 DEF TakeTrace, Pick
  <2>2. Program' = Program
    BY <2>1 DEF Program
  <2>3. \A k \in DOMAIN Program : ~ k < 1
    BY <1>0
  <2> QED
    BY <2>1, <2>2, <2>3 DEF KeysHeld
<1>3. CASE Compute
  <2>0. /\ UNCHANGED <<args, stage>> /\ AtItem /\ step' = step + 1
        /\ keys' = KeysAfter(Item, keys)
    BY <1>3 DEF Compute
  <2>1. Program' = Program /\ Item = Program[step] /\ stage = "prove"
    BY <2>0 DEF Program, Item, AtItem
  <2>2. Proves(Program[step]) => Program[step].arg[1] \in keys'
    BY <2>0, <2>1 DEF KeysAfter, Proves
  <2>3. OptMem \/ keys \subseteq keys'
    BY <2>0 DEF KeysAfter
  <2>4. \A k \in DOMAIN Program : k < step + 1 => k < step \/ k = step
    BY <1>0
  <2> QED
    BY <2>0, <2>1, <2>2, <2>3, <2>4 DEF KeysHeld
<1>4. CASE WriteFile
  <2>0. /\ UNCHANGED <<args, stage, keys>> /\ AtItem /\ Stores(Item) /\ step' = step + 1
    BY <1>4 DEF WriteFile
  <2>1. Program' = Program /\ Item = Program[step] /\ stage = "prove"
    BY <2>0 DEF Program, Item, AtItem
  <2>2. ~ Proves(Program[step])
    BY <2>0, <2>1 DEF Proves, Stores
  <2>3. \A k \in DOMAIN Program : k < step + 1 => k < step \/ k = step
    BY <1>0
  <2> QED
    BY <2>0, <2>1, <2>2, <2>3 DEF KeysHeld
<1>5. CASE UNCHANGED <<args, stage, step, keys>>
  BY <1>5 DEF KeysHeld, Program
<1>6. \/ stage' # "prove" \/ (\E t \in left : TakeTrace(t)) \/ Compute \/ WriteFile
      \/ UNCHANGED <<args, stage, step, keys>>
  BY DEF Next, RunStep, LoadParams, ParamsMissing, LoadOrCreateSeed, SeedUnreadable, ReadTraces,
         TraceUnreadable, TooManyTxs, AllTaken, ComputeFails, OpenFile, TraceDone, Launch,
         StoreFails, Kill, Finished, Goto, vars, proverVars
<1> QED
  BY <1>1, <1>2, <1>3, <1>4, <1>5, <1>6

LEMMA CleanInvariant == Spec => []CleanInv
<1>1. Init => CleanInv
  <2> SUFFICES ASSUME Init
               PROVE  CleanInv
    OBVIOUS
  <2>1. stage = "off" /\ seedPc[Run] = "out"
    BY DEF Init, Seed!SeedInit
  <2> QED
    BY <2>1, CliInit DEF CleanInv, SeedTested, KeysHeld
<1>2. CleanInv /\ [Next]_vars => CleanInv'
  BY CliNext, SeedChanges, SeedTestedStays, KeysKept DEF CleanInv
<1> QED
  BY <1>1, <1>2, PTL DEF Spec

\* No item of a good trace fails: its circuits prove it, and what the
\* verifier contract takes was proved before.
LEMMA GoodItems ==
  ASSUME CleanInv, ~ OptMem, AtItem, Good(trace)
  PROVE  ~ ItemFails(Item, keys, trace)
<1>1. step \in DOMAIN Program /\ step \in Nat /\ Item = Program[step] /\ stage = "prove"
  BY AtItemIs DEF CleanInv
<1>2. PartOf(Program, Keys)
  BY ProgramIs DEF CleanInv, CliInv, TypeOK
<1>3. Item.op = "prove" => Item.arg[1] \in trace.provable
  BY <1>1 DEF Good, Needs, Proves
<1>4. ASSUME Item.op = "solidity", NEW c \in {"super", "agg"}
      PROVE  c \in keys
  <2>1. ProvesFirst(Program, step, c)
    BY <1>1, <1>2, <1>4 DEF PartOf
  <2>2. PICK l \in 1..(step - 1) : Proves(Program[l]) /\ Program[l].arg[1] = c
    BY <2>1 DEF ProvesFirst
  <2>3. l < step /\ l \in DOMAIN Program
    <3>1. Program \in Seq(Items)
      BY <1>2 DEF PartOf
    <3> QED
      BY <1>1, <3>1
  <2> QED
    BY <1>1, <2>2, <2>3 DEF CleanInv, KeysHeld
<1> QED
  BY <1>3, <1>4 DEF ItemFails

LEMMA CleanSteps ==
  ASSUME CleanInv, [Next]_vars, ~ OptMem, CleanRun, stage \notin {"off", "done", "panicked"}
  PROVE  faults' > faults \/ (CleanRun' /\ stage' # "panicked")
<1>0. faults \in Nat /\ args \in Commands /\ left \subseteq args.traces
  <2>1. faults \in 0..MaxFaults /\ args \in Commands /\ left \subseteq args.traces
    BY DEF CleanInv, CliInv, TypeOK
  <2> QED
    BY <2>1, CliAssumption
<1>1. UNCHANGED <<args, params>>
  BY DEF Next, RunStep, LoadParams, ParamsMissing, LoadOrCreateSeed, SeedUnreadable, ReadTraces,
         TraceUnreadable, TooManyTxs, TakeTrace, Pick, AllTaken, Compute, ComputeFails, OpenFile,
         WriteFile, TraceDone, Launch, StoreFails, Kill, Finished, vars
<1>2. Kill \/ StoreFails => faults' > faults
  BY <1>0 DEF Kill, StoreFails
<1>3. ~ Launch
  BY DEF Launch
<1>4. ASSUME ~ (Kill \/ StoreFails)
      PROVE  CleanRun'
  <2>1. UNCHANGED seedVars \/ Seed!SeedStep(Run)
    BY <1>3, <1>4
       DEF Next, RunStep, LoadParams, ParamsMissing, LoadOrCreateSeed, SeedUnreadable,
           ReadTraces, TraceUnreadable, TooManyTxs, TakeTrace, Pick, AllTaken, Compute,
           ComputeFails, OpenFile, WriteFile, TraceDone, Finished, vars
  <2>2. seedFile' # "short" \/ seedPc'[Run] = "write"
    BY <2>1, SeedStaysClean DEF CleanInv, CleanRun
  <2> QED
    BY <1>1, <2>2 DEF CleanRun, Good, Needs, Program
<1>5. ~ ParamsMissing
  BY DEF ParamsMissing, CleanRun
<1>6. ~ SeedUnreadable
  BY DEF SeedUnreadable, CleanRun, CleanInv, SeedTested
<1>7. ~ TraceUnreadable
  BY DEF TraceUnreadable, CleanRun, Good
<1>8. \A t \in left : ~ TooManyTxs(t)
  <2> SUFFICES ASSUME NEW t \in left
               PROVE  ~ t.txs > MaxTxs
    BY DEF TooManyTxs
  <2>1. t.txs \in Nat /\ MaxTxs \in Nat
    BY <1>0, CliAssumption DEF CommandType, TraceType
  <2>2. t.txs <= MaxTxs
    BY <1>0 DEF CleanRun, Good
  <2> QED
    BY <2>1, <2>2
<1>9. ~ ComputeFails
  <2> SUFFICES ASSUME AtItem
               PROVE  ~ ItemFails(Item, keys, trace)
    BY DEF ComputeFails
  <2>1. trace \in args.traces
    BY DEF AtItem, CleanInv, CliInv, AtTrace
  <2> QED
    BY <2>1, GoodItems DEF CleanRun
<1>10. stage' # "panicked" \/ Kill \/ StoreFails
  BY <1>5, <1>6, <1>7, <1>8, <1>9
     DEF Next, RunStep, LoadParams, LoadOrCreateSeed, ReadTraces, TakeTrace, AllTaken, Compute,
         OpenFile, WriteFile, TraceDone, Launch, Finished, Goto, vars
<1> QED
  BY <1>2, <1>4, <1>10

-----------------------------------------------------------------------------
(* The verify binary beside it.                                            *)

\* A step of both is one of prove, or leaves all of its state alone.
LEMMA BothProve == ASSUME BothNext \/ UNCHANGED allVars PROVE [Next]_vars
BY DEF BothNext, allVars

LEMMA ToCheckIs ==
  ASSUME NEW option \in Checkable
  PROVE  /\ ToCheck(option) \in Seq(Checkable)
         /\ {ToCheck(option)[k] : k \in DOMAIN ToCheck(option)} = {o \in {option} : Wanted(o)}
BY DEF ToCheck

\* What is in two lists of proofs, one after the other.
LEMMA JoinChecks ==
  ASSUME NEW P \in Seq(Checkable), NEW Q \in Seq(Checkable)
  PROVE  /\ P \o Q \in Seq(Checkable)
         /\ {(P \o Q)[k] : k \in DOMAIN (P \o Q)}
              = {P[k] : k \in DOMAIN P} \cup {Q[k] : k \in DOMAIN Q}
<1> DEFINE R == P \o Q
           m == Len(P)
           n == Len(Q)
<1>1. /\ R \in Seq(Checkable) /\ m \in Nat /\ n \in Nat
      /\ DOMAIN P = 1..m /\ DOMAIN Q = 1..n /\ DOMAIN R = 1..(m + n)
      /\ \A k \in 1..(m + n) : R[k] = IF k <= m THEN P[k] ELSE Q[k - m]
  OBVIOUS
<1> HIDE DEF R, m, n
<1>2. ASSUME NEW k \in DOMAIN R
      PROVE  R[k] \in {P[j] : j \in DOMAIN P} \cup {Q[j] : j \in DOMAIN Q}
  <2>1. CASE k <= m
    <3>1. k \in 1..m /\ R[k] = P[k]
      BY <1>1, <2>1
    <3> QED
      BY <1>1, <3>1
  <2>2. CASE ~ k <= m
    <3>1. k - m \in 1..n /\ R[k] = Q[k - m]
      BY <1>1, <2>2
    <3> QED
      BY <1>1, <3>1
  <2> QED
    BY <2>1, <2>2
<1>3. ASSUME NEW k \in DOMAIN P
      PROVE  k \in DOMAIN R /\ R[k] = P[k]
  <2>1. k \in 1..(m + n) /\ k <= m
    BY <1>1
  <2> QED
    BY <1>1, <2>1
<1>4. ASSUME NEW k \in DOMAIN Q
      PROVE  \E j \in DOMAIN R : R[j] = Q[k]
  <2>1. PICK j \in 1..(m + n) : j = k + m
    BY <1>1
  <2>2. ~ j <= m /\ j - m = k
    BY <1>1, <2>1
  <2> QED
    BY <1>1, <2>2
<1>5. {R[k] : k \in DOMAIN R} = {P[k] : k \in DOMAIN P} \cup {Q[k] : k \in DOMAIN Q}
  BY <1>2, <1>3, <1>4
<1> QED
  BY <1>1, <1>5 DEF R

\* The first of a list, and the others.
LEMMA TakeOne ==
  ASSUME NEW P \in Seq(Checkable), P # <<>>
  PROVE  /\ Head(P) \in Checkable /\ Tail(P) \in Seq(Checkable)
         /\ {P[k] : k \in DOMAIN P} = {Head(P)} \cup {Tail(P)[k] : k \in DOMAIN Tail(P)}
<1> DEFINE T == Tail(P)
           n == Len(P)
<1>1. /\ n \in Nat \ {0} /\ T \in Seq(Checkable) /\ DOMAIN P = 1..n /\ DOMAIN T = 1..(n - 1)
      /\ \A k \in 1..(n - 1) : T[k] = P[k + 1]
      /\ Head(P) = P[1] /\ Head(P) \in Checkable
  OBVIOUS
<1> HIDE DEF T, n
<1>2. ASSUME NEW k \in DOMAIN P
      PROVE  k = 1 \/ \E j \in DOMAIN T : T[j] = P[k]
  <2>1. CASE k # 1
    <3>1. PICK j \in 1..(n - 1) : j + 1 = k
      <4>1. k - 1 \in 1..(n - 1) /\ (k - 1) + 1 = k
        BY <1>1, <2>1
      <4> QED
        BY <4>1
    <3> QED
      BY <1>1, <3>1
  <2> QED
    BY <2>1
<1>3. ASSUME NEW k \in DOMAIN T
      PROVE  \E j \in DOMAIN P : P[j] = T[k]
  <2>1. k + 1 \in DOMAIN P /\ T[k] = P[k + 1]
    BY <1>1
  <2> QED
    BY <2>1
<1>4. 1 \in DOMAIN P
  BY <1>1
<1>5. {P[k] : k \in DOMAIN P} = {Head(P)} \cup {T[k] : k \in DOMAIN T}
  <2>1. ASSUME NEW x \in {P[k] : k \in DOMAIN P}
        PROVE  x \in {Head(P)} \cup {T[k] : k \in DOMAIN T}
    <3>1. PICK k \in DOMAIN P : x = P[k]
      OBVIOUS
    <3>2. k = 1 \/ \E j \in DOMAIN T : T[j] = x
      BY <1>2, <3>1
    <3>3. Head(P) = P[1]
      BY <1>1
    <3> QED
      BY <3>1, <3>2, <3>3
  <2>2. Head(P) \in {P[k] : k \in DOMAIN P}
    <3>1. Head(P) = P[1]
      BY <1>1
    <3> QED
      BY <1>4, <3>1
  <2>3. ASSUME NEW k \in DOMAIN T
        PROVE  T[k] \in {P[j] : j \in DOMAIN P}
    <3>1. PICK j \in DOMAIN P : P[j] = T[k]
      BY <1>3
    <3> QED
      BY <3>1
  <2> QED
    BY <2>1, <2>2, <2>3
<1> QED
  BY <1>1, <1>5 DEF T

LEMMA VerifyTypes ==
  ASSUME VerifyTypeOK
  PROVE  /\ verifyArgs \in VerifyCommands /\ unchecked \in Seq(Checkable)
         /\ verdicts \subseteq Checkable \X BOOLEAN
BY DEF VerifyTypeOK

LEMMA BothInitInv == ASSUME BothInit PROVE BothInv
<1>1. CliInv
  BY CliInit DEF BothInit
<1>2. /\ verifyArgs \in VerifyCommands /\ verifyStage = "off"
      /\ unchecked = <<>> /\ verdicts = {}
  BY DEF BothInit, VerifyInit
<1>3. VerifyTypeOK /\ ChecksAll
  BY <1>1, <1>2 DEF VerifyTypeOK, ChecksAll, CliInv
<1> QED
  BY <1>1, <1>3 DEF BothInv

LEMMA BothNextInv ==
  ASSUME BothInv, [BothNext]_allVars
  PROVE  BothInv'
<1>1. CliInv' /\ TypeOK'
  BY BothProve, CliNext DEF BothInv, CliInv
<1>0. /\ verifyArgs \in VerifyCommands /\ unchecked \in Seq(Checkable)
      /\ verdicts \subseteq Checkable \X BOOLEAN
      /\ verifyStage \in {"off", "params", "vk", "proofs", "done", "panicked"}
      /\ verifyStage = "done" => {v[1] : v \in verdicts} = {o \in Checkable : Wanted(o)}
      /\ ChecksAll
  BY DEF BothInv, VerifyTypeOK
<1> DEFINE Asked == {o \in Checkable : Wanted(o)}
           Logged == {v[1] : v \in verdicts}
           ToDo == {unchecked[k] : k \in DOMAIN unchecked}
<1> SUFFICES /\ verifyArgs' \in VerifyCommands
             /\ verifyStage' \in {"off", "params", "vk", "proofs", "done", "panicked"}
             /\ unchecked' \in Seq(Checkable)
             /\ verdicts' \subseteq Checkable \X BOOLEAN
             /\ verifyStage' = "done" => Logged' = Asked'
             /\ ChecksAll'
  BY <1>1 DEF BothInv, VerifyTypeOK
<1>2. CASE UNCHANGED verifyVars
  BY <1>0, <1>2 DEF verifyVars, ChecksAll, Wanted
<1>3. CASE VerifyLaunch \/ VerifyStep
  <2>0. UNCHANGED verifyArgs /\ Asked' = Asked
    BY <1>3 DEF VerifyLaunch, VerifyStep, VerifyLoadParams, VerifyParamsMissing, LoadVk,
                VkUnreadable, VerifyOne, ProofUnreadable, VerifyEnds, VerifyGoto, Wanted
  <2>1. CASE VerifyLaunch
    BY <1>0, <2>0, <2>1 DEF VerifyLaunch, ChecksAll
  <2>2. CASE VerifyLoadParams \/ VerifyParamsMissing \/ VkUnreadable \/ ProofUnreadable
    BY <1>0, <2>0, <2>2 DEF VerifyLoadParams, VerifyParamsMissing, VkUnreadable, ProofUnreadable,
                            VerifyGoto, ChecksAll
  <2>3. CASE LoadVk
    <3>1. /\ verifyStage = "vk" /\ verifyStage' = "proofs" /\ verdicts' = verdicts
          /\ unchecked' = ToCheck("evm") \o ToCheck("state") \o ToCheck("agg")
      BY <2>3 DEF LoadVk, VerifyGoto
    <3>2. "evm" \in Checkable /\ "state" \in Checkable /\ "agg" \in Checkable
      BY DEF Checkable
    <3>3. /\ ToCheck("evm") \in Seq(Checkable) /\ ToCheck("state") \in Seq(Checkable)
          /\ ToCheck("agg") \in Seq(Checkable)
          /\ ToCheck("evm") \o ToCheck("state") \in Seq(Checkable)
          /\ ToCheck("evm") \o ToCheck("state") \o ToCheck("agg") \in Seq(Checkable)
      BY <3>2, ToCheckIs, JoinChecks
    <3>4. ToDo' = {o \in {"evm"} : Wanted(o)} \cup {o \in {"state"} : Wanted(o)}
                    \cup {o \in {"agg"} : Wanted(o)}
      <4> DEFINE A == ToCheck("evm")
                 B == ToCheck("state")
                 C == ToCheck("agg")
      <4>1. /\ {A[k] : k \in DOMAIN A} = {o \in {"evm"} : Wanted(o)}
            /\ {B[k] : k \in DOMAIN B} = {o \in {"state"} : Wanted(o)}
            /\ {C[k] : k \in DOMAIN C} = {o \in {"agg"} : Wanted(o)}
        BY <3>2, ToCheckIs
      <4>2. A \in Seq(Checkable) /\ B \in Seq(Checkable) /\ C \in Seq(Checkable)
            /\ A \o B \in Seq(Checkable) /\ unchecked' = (A \o B) \o C
        BY <3>1, <3>3
      <4> HIDE DEF A, B, C
      <4>3. {(A \o B)[k] : k \in DOMAIN (A \o B)}
              = {A[k] : k \in DOMAIN A} \cup {B[k] : k \in DOMAIN B}
        BY <4>2, JoinChecks
      <4>4. {((A \o B) \o C)[k] : k \in DOMAIN ((A \o B) \o C)}
              = {(A \o B)[k] : k \in DOMAIN (A \o B)} \cup {C[k] : k \in DOMAIN C}
        BY <4>2, JoinChecks
      <4> QED
        BY <4>1, <4>2, <4>3, <4>4
    <3>5. ToDo' = Asked'
      BY <2>0, <3>4 DEF Checkable
    <3>6. verdicts = {}
      BY <1>0, <3>1 DEF ChecksAll
    <3>7. Logged' = {}
      BY <3>1, <3>6
    <3>8. ChecksAll'
      BY <2>0, <3>1, <3>5, <3>7 DEF ChecksAll
    <3> QED
      BY <1>0, <2>0, <3>1, <3>3, <3>6, <3>8
  <2>4. CASE VerifyOne
    <3>1. /\ verifyStage = "proofs" /\ verifyStage' = "proofs" /\ unchecked # <<>>
          /\ unchecked' = Tail(unchecked) /\ Option = Head(unchecked)
      BY <2>4 DEF VerifyOne, VerifyGoto, AtProof, Option
    <3>2. PICK good \in BOOLEAN : verdicts' = verdicts \cup {<<Option, good>>}
      BY <2>4 DEF VerifyOne
    <3>3. /\ Option \in Checkable /\ Tail(unchecked) \in Seq(Checkable)
          /\ ToDo = {Option} \cup {Tail(unchecked)[k] : k \in DOMAIN Tail(unchecked)}
      BY <1>0, <3>1, TakeOne
    <3>4. ToDo = {Option} \cup ToDo'
      BY <3>1, <3>3
    <3>5. Logged' = Logged \cup {Option}
      <4> DEFINE new == <<Option, good>>
      <4>1. new[1] = Option /\ verdicts' = verdicts \cup {new}
        BY <3>2
      <4> HIDE DEF new
      <4> QED
        BY <4>1
    <3>6. ChecksAll'
      <4>1. Logged \cup ToDo = Asked
        BY <1>0, <3>1 DEF ChecksAll
      <4>2. Logged' \cup ToDo' = Asked'
        BY <2>0, <3>4, <3>5, <4>1
      <4> QED
        BY <3>1, <4>2 DEF ChecksAll
    <3>7. verdicts' \subseteq Checkable \X BOOLEAN
      BY <1>0, <3>2, <3>3
    <3> QED
      BY <1>0, <2>0, <3>1, <3>3, <3>6, <3>7
  <2>5. CASE VerifyEnds
    <3>1. /\ unchecked = <<>> /\ verifyStage = "proofs" /\ verifyStage' = "done"
          /\ UNCHANGED <<unchecked, verdicts>>
      BY <2>5 DEF VerifyEnds, VerifyGoto
    <3>2. ToDo = {}
      BY <3>1
    <3>3. Logged' = Asked'
      BY <1>0, <2>0, <3>1, <3>2 DEF ChecksAll
    <3> QED
      BY <1>0, <2>0, <3>1, <3>3 DEF ChecksAll
  <2> QED
    BY <1>3, <2>1, <2>2, <2>3, <2>4, <2>5 DEF VerifyStep
<1> QED
  BY <1>2, <1>3 DEF BothNext, allVars

LEMMA BothInvariant == BothSpec => []BothInv
<1>1. BothInit => BothInv
  BY BothInitInv
<1>2. BothInv /\ [BothNext]_allVars => BothInv'
  BY BothNextInv
<1> QED
  BY <1>1, <1>2, PTL DEF BothSpec


-----------------------------------------------------------------------------
(* The files that the verify binary asks for.                              *)

Has(program, file) == \E k \in DOMAIN program : program[k] = Store(file)

LEMMA JoinHas ==
  ASSUME NEW P \in Seq(Items), NEW Q \in Seq(Items), NEW file, Has(P, file) \/ Has(Q, file)
  PROVE  Has(P \o Q, file)
<1> DEFINE R == P \o Q
           m == Len(P)
           n == Len(Q)
<1>1. /\ m \in Nat /\ n \in Nat
      /\ DOMAIN P = 1..m /\ DOMAIN Q = 1..n /\ DOMAIN R = 1..(m + n)
      /\ \A k \in 1..(m + n) : R[k] = IF k <= m THEN P[k] ELSE Q[k - m]
  OBVIOUS
<1> HIDE DEF R, m, n
<1>2. CASE Has(P, file)
  <2>1. PICK k \in 1..m : P[k] = Store(file)
    BY <1>1, <1>2 DEF Has
  <2>2. k \in 1..(m + n) /\ k <= m
    BY <1>1
  <2>3. R[k] = Store(file)
    BY <1>1, <2>1, <2>2
  <2>4. Has(R, file)
    BY <1>1, <2>2, <2>3 DEF Has
  <2> QED
    BY <2>4 DEF R
<1>3. CASE Has(Q, file)
  <2>1. PICK k \in 1..n : Q[k] = Store(file)
    BY <1>1, <1>3 DEF Has
  <2>2. PICK j \in 1..(m + n) : j = k + m
    BY <1>1
  <2>3. ~ j <= m /\ j - m = k
    BY <1>1, <2>2
  <2>4. R[j] = Store(file)
    BY <1>1, <2>1, <2>2, <2>3
  <2>5. Has(R, file)
    BY <1>1, <2>2, <2>4 DEF Has
  <2> QED
    BY <2>5 DEF R
<1> QED
  BY <1>2, <1>3

LEMMA TargetHas ==
  ASSUME NEW c \in Circuits, NEW option \in {"false", "true"}
  PROVE  Has(TargetPart(c, option), <<c, "json">>)
<1>1. /\ TargetProgram(c) \in Seq(Items) /\ <<Store(<<c, "proof">>)>> \in Seq(Items)
  <2>1. <<c, "vk">> \in Files /\ <<c, "json">> \in Files /\ <<c, "proof">> \in Files
    BY DEF Files
  <2>2. ProveCircuit(c) \in Items /\ \A f \in Files : Store(f) \in Items
    BY <2>1 DEF Items, ProveCircuit, Store
  <2> HIDE DEF Items, Files
  <2> QED
    BY <2>1, <2>2 DEF TargetProgram
<1>2. Has(TargetProgram(c), <<c, "json">>)
  <2>1. 3 \in DOMAIN TargetProgram(c) /\ TargetProgram(c)[3] = Store(<<c, "json">>)
    BY DEF TargetProgram
  <2> QED
    BY <2>1 DEF Has
<1>3. CASE option = "false"
  BY <1>2, <1>3 DEF TargetPart
<1>4. CASE option = "true"
  <2>1. Has(TargetProgram(c) \o <<Store(<<c, "proof">>)>>, <<c, "json">>)
    BY <1>1, <1>2, JoinHas
  <2> QED
    BY <1>4, <2>1 DEF TargetPart
<1> QED
  BY <1>3, <1>4

LEMMA AggHas ==
  /\ Has(AggPart("true"), <<"agg", "vkey">>)
  /\ Has(AggPart("true"), <<"agg", "full_proof">>)
<1>0. /\ ProveCircuit("super") \in Items /\ ProveCircuit("agg") \in Items
      /\ Convert("super") \in Items /\ Solidity \in Items
      /\ \A f \in {"super"} \X {"vk", "json"} : Store(f) \in Items
      /\ \A f \in {"agg"} \X {"final_pair", "instance", "proof", "vkey", "full_proof", "sol"} :
           Store(f) \in Items
  BY DEF Items, Files, Circuits, AggFileKinds, ProveCircuit, Convert, Solidity, Store
<1> HIDE DEF ProveCircuit, Convert, Solidity, Store, Items
<1>1. /\ AggProgram \in Seq(Items) /\ WriteAggProof \in Seq(Items) /\ WriteSolidity \in Seq(Items)
      /\ AggProgram \o WriteAggProof \in Seq(Items)
  BY <1>0 DEF AggProgram, TargetProgram, WriteAggProof, WriteSolidity
<1>2. AggPart("true") = (AggProgram \o WriteAggProof) \o WriteSolidity
  BY DEF AggPart
<1>3. /\ 4 \in DOMAIN WriteAggProof /\ WriteAggProof[4] = Store(<<"agg", "vkey">>)
      /\ 5 \in DOMAIN WriteAggProof /\ WriteAggProof[5] = Store(<<"agg", "full_proof">>)
  BY DEF WriteAggProof
<1>4. Has(WriteAggProof, <<"agg", "vkey">>) /\ Has(WriteAggProof, <<"agg", "full_proof">>)
  BY <1>3 DEF Has
<1>5. /\ Has(AggProgram \o WriteAggProof, <<"agg", "vkey">>)
      /\ Has(AggProgram \o WriteAggProof, <<"agg", "full_proof">>)
  BY <1>1, <1>4, JoinHas
<1>6. /\ Has((AggProgram \o WriteAggProof) \o WriteSolidity, <<"agg", "vkey">>)
      /\ Has((AggProgram \o WriteAggProof) \o WriteSolidity, <<"agg", "full_proof">>)
  BY <1>1, <1>5, JoinHas
<1> QED
  BY <1>2, <1>6

LEMMA ProgramHas ==
  ASSUME args \in Commands
  PROVE  /\ args.evm # "absent" => Has(Program, <<"evm", "json">>)
         /\ args.state # "absent" => Has(Program, <<"state", "json">>)
         /\ args.agg = "true" =>
              Has(Program, <<"agg", "vkey">>) /\ Has(Program, <<"agg", "full_proof">>)
<1> DEFINE A == TargetPart("evm", args.evm)
           B == TargetPart("state", args.state)
           C == AggPart(args.agg)
<1>1. args.evm \in Options /\ args.state \in Options /\ args.agg \in Options
  BY CliAssumption DEF CommandType
<1>2. PartOf(A, {"evm"}) /\ PartOf(B, {"state"}) /\ PartOf(C, {"super", "agg"})
  BY <1>1, TargetPartIs, AggPartIs DEF Circuits
<1>3. A \in Seq(Items) /\ B \in Seq(Items) /\ C \in Seq(Items) /\ Program = (A \o B) \o C
  BY <1>2 DEF PartOf, Program
<1>4. /\ args.evm # "absent" => Has(A, <<"evm", "json">>)
      /\ args.state # "absent" => Has(B, <<"state", "json">>)
      /\ args.agg = "true" => Has(C, <<"agg", "vkey">>) /\ Has(C, <<"agg", "full_proof">>)
  BY <1>1, TargetHas, AggHas DEF Options, Circuits
<1> HIDE DEF A, B, C
<1>5. A \o B \in Seq(Items)
  BY <1>3
<1>6. ASSUME NEW file, Has(A, file) \/ Has(B, file) \/ Has(C, file)
      PROVE  Has(Program, file)
  <2>1. Has(A, file) \/ Has(B, file) => Has(A \o B, file)
    BY <1>3, JoinHas
  <2>2. Has((A \o B) \o C, file)
    BY <1>3, <1>5, <1>6, <2>1, JoinHas
  <2> QED
    BY <1>3, <2>2
<1> QED
  BY <1>4, <1>6

LEMMA WholeIsReadable ==
  ASSUME NEW t, Whole(t), NEW file, Has(Program, file)
  PROVE  Readable(<<t.name, file>>)
<1> DEFINE slot == <<t.name, file>>
<1>1. PICK k \in DOMAIN Program : Program[k] = Store(file)
  BY DEF Has
<1>2. Stores(Program[k]) /\ Program[k].arg = file
  BY <1>1 DEF Store, Stores
<1>3. slot \in DOMAIN disk /\ \E s \in Seed!Seeds : disk[slot] = FileBytes(slot[2], t, s)
  BY <1>1, <1>2 DEF Whole
<1>4. disk[slot].of # "torn"
  BY <1>3 DEF FileBytes
<1>5. disk[slot] # Torn
  BY <1>4 DEF Torn
<1> QED
  BY <1>3, <1>5 DEF Readable

LEMMA RightFiles == ASSUME BothInv PROVE RightFilesInPlace
<1> SUFFICES ASSUME stage \in {"pick", "prove", "done", "panicked"}, RightCommand
             PROVE  FilesInPlace
  BY DEF RightFilesInPlace
<1>1. \A t \in args.traces \ (left \cup {trace}) : Whole(t)
  BY DEF BothInv, CliInv, TakenAreWhole
<1>2. args \in Commands
  BY DEF BothInv, CliInv, TypeOK
<1>3. Readable(VkFile)
  <2>1. PICK t \in args.traces \ (left \cup {trace}) : verifyArgs.vk = t.name
    BY DEF RightCommand
  <2>2. Readable(<<t.name, <<"agg", "vkey">>>>)
    BY <1>1, <1>2, ProgramHas, WholeIsReadable DEF RightCommand
  <2> QED
    BY <2>1, <2>2 DEF VkFile
<1>4. ASSUME NEW option \in Checkable, Wanted(option)
      PROVE  /\ Readable(verifyArgs[option])
             /\ verifyArgs[option][2] = <<option, FormatOf(option)>>
  <2>1. args[option] # "absent" /\ RightFile(option)
    BY <1>4 DEF RightCommand
  <2>2. PICK t \in args.traces \ (left \cup {trace}) :
          verifyArgs[option] = <<t.name, <<option, FormatOf(option)>>>>
    BY <2>1 DEF RightFile
  <2>3. Has(Program, <<option, FormatOf(option)>>)
    BY <1>2, <2>1, ProgramHas DEF Checkable, FormatOf, RightCommand
  <2>4. Readable(<<t.name, <<option, FormatOf(option)>>>>)
    BY <1>1, <2>3, WholeIsReadable
  <2> QED
    BY <2>2, <2>4
<1> QED
  BY <1>3, <1>4 DEF FilesInPlace

LEMMA NoFalseAlarmStep == ASSUME BothInv PROVE NoFalseAlarm
<1> SUFFICES ASSUME FilesInPlace
             PROVE  /\ ~ VkUnreadable /\ ~ ProofUnreadable
                    /\ VerifyOne => verdicts' = verdicts \cup {<<Option, TRUE>>}
  BY RightFiles DEF RightFilesInPlace, NoFalseAlarm
<1>1. ~ VkUnreadable
  BY DEF FilesInPlace, VkUnreadable
<1>2. ASSUME AtProof
      PROVE  Parses /\ ProofFile[2][1] = Option
  <2>1. verifyStage = "proofs" /\ unchecked \in Seq(Checkable) /\ unchecked # <<>>
    BY <1>2 DEF AtProof, BothInv, VerifyTypeOK
  <2>2. Option \in {unchecked[k] : k \in DOMAIN unchecked} /\ Option \in Checkable
    BY <2>1, TakeOne DEF Option
  <2>3. Wanted(Option)
    BY <2>1, <2>2 DEF BothInv, ChecksAll
  <2>4. Readable(ProofFile) /\ ProofFile[2] = <<Option, FormatOf(Option)>>
    BY <2>2, <2>3 DEF FilesInPlace, ProofFile
  <2> HIDE DEF Option, ProofFile
  <2> QED
    BY <2>4 DEF Parses
<1>3. ~ ProofUnreadable
  BY <1>2 DEF ProofUnreadable
<1>4. ASSUME VerifyOne
      PROVE  verdicts' = verdicts \cup {<<Option, TRUE>>}
  <2>1. (ProofFile[2][1] = Option) = TRUE
    BY <1>2, <1>4 DEF VerifyOne
  <2>2. verdicts' = verdicts \cup {<<Option, ProofFile[2][1] = Option>>}
    BY <1>4 DEF VerifyOne
  <2> QED
    BY <2>1, <2>2
<1> QED
  BY <1>1, <1>3, <1>4

-----------------------------------------------------------------------------
(* The theorems.                                                           *)

\* Every trace that the loop of prove has behind it has all its files in its
\* own directory, whole and made from it, whatever earlier traces left in the
\* Prover value and earlier runs of the command on the disk.
THEOREM TakenAreWholeHolds == Spec => []TakenAreWhole
<1>1. CliInv => TakenAreWhole
  BY DEF CliInv
<1> QED
  BY <1>1, CliInvariant, PTL

\* A directory never holds bytes of another trace, or of a circuit that did
\* not prove its trace, and a torn file is the one being written or is due to
\* a kill or a disk failure.
THEOREM OwnDirectoriesHolds == Spec => []OwnDirectories
<1>1. CliInv => OwnDirectories
  BY DEF CliInv
<1> QED
  BY <1>1, CliInvariant, PTL

\* The prove and verify binaries have the states their types allow, and a
\* verify run that ends has logged all that it was asked for, and no more.
THEOREM CliTypeCorrect == BothSpec => []VerifyTypeOK
<1>1. BothInv => VerifyTypeOK
  BY DEF BothInv
<1> QED
  BY <1>1, BothInvariant, PTL

\* Beside a verify run, prove does what it does alone: verify only reads.
THEOREM VerifyOnlyReads == BothSpec => Init /\ [][Next]_vars
<1>1. BothInit => Init
  BY DEF BothInit
<1>2. [BothNext]_allVars => [Next]_vars
  BY BothProve
<1> QED
  BY <1>1, <1>2, PTL DEF BothSpec

\* A verify command that names the right files of traces that the loop of
\* prove has behind it finds none of them missing, torn or of another format,
\* and logs of none that it is bad, whatever prove is doing meanwhile.
THEOREM RightFilesPass == BothSpec => [][NoFalseAlarm]_allVars
<1>1. BothInv => NoFalseAlarm
  BY NoFalseAlarmStep
<1> QED
  BY <1>1, BothInvariant, PTL

\* The safety half of CleanRunSucceeds: a run over good traces, with its
\* parameters in place and a seed file that is whole or absent, stays one of
\* that kind, and nothing but a kill or a disk failure makes it panic.  Under
\* OPT_MEM an aggregation releases a key that its verifier contract takes.
THEOREM CleanRunKeepsOn ==
  ASSUME ~ OptMem
  PROVE  Spec => [][OnlyFaultsEnd]_vars
<1>1. CleanInv /\ [Next]_vars => [OnlyFaultsEnd]_vars
  BY CleanSteps DEF OnlyFaultsEnd
<1> QED
  BY <1>1, CleanInvariant, PTL DEF Spec
==============================================================================
