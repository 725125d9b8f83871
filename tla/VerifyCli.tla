------------------------------ MODULE VerifyCli ------------------------------
(***************************************************************************)
(* The verify binary (bin/src/verify.rs) with its Verifier                 *)
(* (zkevm/src/verifier.rs), on the directories that the prove binary       *)
(* (ProveCli) makes, while that may be running.  It reads the parameters   *)
(* and the key of the aggregation, then one proof after the other, and     *)
(* logs of each whether it is good; a file that is missing, torn or of     *)
(* another format is a panic.                                              *)
(***************************************************************************)
EXTENDS ProveCli

CONSTANT VerifyCommands  \* what a verify command may ask for

(***************************************************************************)
(* --evm, --state and --agg name a file of an output directory each, or    *)
(* NoFile; --vk names a directory that has the key of an aggregation.      *)
(***************************************************************************)
NoFile == <<>>
Checkable == {"evm", "state", "agg"}

ASSUME VerifyAssumption ==
  \A c \in VerifyCommands :
    /\ c.vk \in STRING
    /\ \A option \in Checkable :
         c[option] = NoFile \/ c[option] \in STRING \X Files

VARIABLES
  verifyArgs,   \* the command
  verifyStage,  \* where the run stands
  unchecked,    \* the proofs still to be verified, in order
  verdicts      \* what has been logged: the option and the verdict

verifyVars == <<verifyArgs, verifyStage, unchecked, verdicts>>
allVars == <<vars, verifyVars>>

VerifyInit ==
  /\ verifyArgs \in VerifyCommands
  /\ verifyStage = "off"
  /\ unchecked = <<>> /\ verdicts = {}

\* The run is begun by its user, again after it has failed.
VerifyLaunch ==
  /\ verifyStage \in {"off", "panicked"}
  /\ verifyStage' = "params"
  /\ unchecked' = <<>> /\ verdicts' = {}
  /\ UNCHANGED verifyArgs

VerifyGoto(from, to) == verifyStage = from /\ verifyStage' = to /\ UNCHANGED verifyArgs

VerifyLoadParams ==
  /\ params = Degrees
  /\ VerifyGoto("params", "vk")
  /\ UNCHANGED <<unchecked, verdicts>>

VerifyParamsMissing ==
  /\ params # Degrees
  /\ VerifyGoto("params", "panicked")
  /\ UNCHANGED <<unchecked, verdicts>>

\* Can the file be read, in its format?
Readable(slot) == slot \in DOMAIN disk /\ disk[slot] # Torn

VkFile == <<verifyArgs.vk, <<"agg", "vkey">>>>

Wanted(option) == verifyArgs[option] # NoFile

ToCheck(option) == IF Wanted(option) THEN <<option>> ELSE <<>>

\* Verifier::new reads the key, with unwrap.
LoadVk ==
  /\ Readable(VkFile)
  /\ VerifyGoto("vk", "proofs")
  /\ unchecked' = ToCheck("evm") \o ToCheck("state") \o ToCheck("agg")
  /\ UNCHANGED verdicts

VkUnreadable ==
  /\ ~ Readable(VkFile)
  /\ VerifyGoto("vk", "panicked")
  /\ UNCHANGED <<unchecked, verdicts>>

AtProof == verifyStage = "proofs" /\ unchecked # <<>>
Option == Head(unchecked)
ProofFile == verifyArgs[Option]

\* serde_json: TargetCircuitProof is what the prover writes into its
\* debug_dir, AggCircuitProof is full_proof.data.
FormatOf(option) == IF option = "agg" THEN "full_proof" ELSE "json"

Parses == Readable(ProofFile) /\ ProofFile[2][2] = FormatOf(Option)

\* A proof is good for the circuit that it was made for: the keys of target
\* circuits are made here from C::empty(), like those of the prover, and the
\* key of the aggregation is the same whichever trace was the first.
VerifyOne ==
  /\ AtProof /\ Parses
  /\ VerifyGoto("proofs", "proofs")
  /\ unchecked' = Tail(unchecked)
  /\ verdicts' = verdicts \cup {<<Option, ProofFile[2][1] = Option>>}

ProofUnreadable ==
  /\ AtProof /\ ~ Parses
  /\ VerifyGoto("proofs", "panicked")
  /\ UNCHANGED <<unchecked, verdicts>>

VerifyEnds ==
  /\ unchecked = <<>>
  /\ VerifyGoto("proofs", "done")
  /\ UNCHANGED <<unchecked, verdicts>>

VerifyStep ==
  \/ VerifyLoadParams \/ VerifyParamsMissing
  \/ LoadVk \/ VkUnreadable
  \/ VerifyOne \/ ProofUnreadable \/ VerifyEnds

BothInit == Init /\ VerifyInit

BothNext ==
  \/ Next /\ UNCHANGED verifyVars
  \/ (VerifyLaunch \/ VerifyStep) /\ UNCHANGED vars

\* Each of the two programs goes on by itself, and is launched or not.
BothSpec ==
  /\ BothInit
  /\ [][BothNext]_allVars
  /\ WF_allVars(RunStep /\ UNCHANGED verifyVars)
  /\ WF_allVars(VerifyStep /\ UNCHANGED vars)

-----------------------------------------------------------------------------
VerifyTypeOK ==
  /\ TypeOK
  /\ verifyArgs \in VerifyCommands
  /\ verifyStage \in {"off", "params", "vk", "proofs", "done", "panicked"}
  /\ unchecked \in Seq(Checkable)
  /\ verdicts \subseteq Checkable \X BOOLEAN
  /\ verifyStage = "done" => {v[1] : v \in verdicts} = {o \in Checkable : Wanted(o)}

(***************************************************************************)
(* What prove has put out, verify takes in: a verify command that names    *)
(* the right files of traces the loop of prove has behind it finds them    *)
(* all, and finds them good, also while the loop writes those of other     *)
(* traces or after it has failed at one of them, unless prove is run over  *)
(* them once more.                                                         *)
(***************************************************************************)
RightFile(option) ==
  \E t \in args.traces \ (left \cup {trace}) :
    verifyArgs[option] = <<t.name, <<option, FormatOf(option)>>>>

RightCommand ==
  /\ args.agg = "true"
  /\ \E t \in args.traces \ (left \cup {trace}) : verifyArgs.vk = t.name
  /\ \A option \in Checkable :
       Wanted(option) => args[option] # "absent" /\ RightFile(option)

VerifiedOnceTaken ==
  (verifyStage = "params" /\ stage \in {"pick", "prove", "done", "panicked"} /\ RightCommand)
    ~> (\/ stage = "params"
        \/ verifyStage = "done" /\ verdicts = {<<o, TRUE>> : o \in {p \in Checkable : Wanted(p)}})
=============================================================================
