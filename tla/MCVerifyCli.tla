----------------------------- MODULE MCVerifyCli ----------------------------
(***************************************************************************)
(* Small instances of ProveCli and VerifyCli: directories of up to three   *)
(* traces, among them one that only some circuits prove, one with too many *)
(* transactions and one that is no trace, under several options; and       *)
(* verify commands with the right files of two directories, with those of  *)
(* one directory, which may be checked while the other trace is proved,    *)
(* and with the proof of another circuit and a raw one.                    *)
(***************************************************************************)
EXTENDS VerifyCli

MCMaxTxs == 2

File(name, parses, txs, provable) ==
  [name |-> name, parses |-> parses, txs |-> txs, provable |-> provable]

GoodA == File("a", TRUE, MCMaxTxs, Keys)
GoodB == File("b", TRUE, 0, Keys)
Partial == File("partial", TRUE, 1, {"evm", "super"})
TooMany == File("many", TRUE, MCMaxTxs + 1, Keys)
Garbled == File("garbled", FALSE, 0, {})

Command(evm, state, agg, traces) ==
  [evm |-> evm, state |-> state, agg |-> agg, traces |-> traces]

MCCommands ==
  {Command("absent", "false", "true", {GoodA, GoodB}),
   Command("absent", "true", "false", {GoodB, Partial}),
   Command("false", "absent", "absent", {GoodA, GoodB, TooMany}),
   Command("true", "absent", "absent", {GoodA, Garbled})}

VerifyCommand(vk, evm, state, agg) ==
  [vk |-> vk, evm |-> evm, state |-> state, agg |-> agg]

MCVerifyCommands ==
  {VerifyCommand("a", NoFile, <<"b", <<"state", "json">>>>, <<"a", <<"agg", "full_proof">>>>),
   VerifyCommand("a", NoFile, <<"a", <<"state", "json">>>>, <<"a", <<"agg", "full_proof">>>>),
   VerifyCommand("b", <<"b", <<"state", "json">>>>, NoFile, <<"a", <<"agg", "proof">>>>)}

MCParams == {Degrees, {"DEGREE"}}
=============================================================================
