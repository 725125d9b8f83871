------------------------------ MODULE SeedFile ------------------------------
(***************************************************************************)
(* The RNG seed file and load_or_create_seed (zkevm/src/utils.rs), which   *)
(* every prove request of the server, the prove binary and the setup       *)
(* binary call on the same path with no lock.  A call looks whether the    *)
(* file exists; if so it reads sixteen bytes, otherwise it creates (and so *)
(* truncates) the file and then writes the sixteen bytes of a constant.    *)
(* Between these steps other callers run, and their program may crash.     *)
(***************************************************************************)
CONSTANT Callers  \* the threads or programs that share the seed file

VARIABLES
  seedFile,       \* what is on disk under the seed path
  seedPc,         \* where each caller stands in load_or_create_seed
  seedOf          \* the seed each caller holds once the call returned Ok

seedVars == <<seedFile, seedPc, seedOf>>

(***************************************************************************)
(* "fixed" stands for the sixteen bytes of RNG_SEED_BYTES and "operator"   *)
(* for those of a file an operator put there beforehand; a "short" file    *)
(* holds fewer than sixteen bytes, so read_exact fails on it.              *)
(***************************************************************************)
Seeds == {"fixed", "operator"}
FileContents == Seeds \cup {"absent", "short"}
NoSeed == "none"
SeedPcs == {"out", "load", "create", "write", "ok", "failed"}

SeedTypeOK ==
  /\ seedFile \in FileContents
  /\ seedPc \in [Callers -> SeedPcs]
  /\ seedOf \in [Callers -> Seeds \cup {NoSeed}]

SeedInit ==
  /\ seedFile \in {"absent"} \cup Seeds
  /\ seedPc = [p \in Callers |-> "out"]
  /\ seedOf = [p \in Callers |-> NoSeed]

-----------------------------------------------------------------------------
GoTo(p, from, to) ==
  /\ seedPc[p] = from
  /\ seedPc' = [seedPc EXCEPT ![p] = to]

\* load_or_create_seed: the existence test that selects one of two branches.
SeedExists(p) ==
  /\ seedFile # "absent"
  /\ GoTo(p, "out", "load")
  /\ UNCHANGED <<seedFile, seedOf>>

\* Mutant: the file is created without looking for it.
SeedMissing_NoTest(p) ==
  /\ GoTo(p, "out", "create")
  /\ UNCHANGED <<seedFile, seedOf>>

SeedMissing(p) ==
  /\ seedFile = "absent"
  /\ GoTo(p, "out", "create")
  /\ UNCHANGED <<seedFile, seedOf>>

\* Mutant: read in place of read_exact takes what a short file has.
LoadSeed_Read(p) ==
  /\ GoTo(p, "load", "ok")
  /\ seedOf' = [seedOf EXCEPT ![p] = seedFile]
  /\ UNCHANGED seedFile

\* load_seed: File::open and read_exact of sixteen bytes.
LoadSeed(p) ==
  /\ seedFile \in Seeds
  /\ GoTo(p, "load", "ok")
  /\ seedOf' = [seedOf EXCEPT ![p] = seedFile]
  /\ UNCHANGED seedFile

\* Mutant: the read wants more bytes than a seed has.
LoadSeedFails_TooLong(p) ==
  /\ GoTo(p, "load", "failed")
  /\ UNCHANGED <<seedFile, seedOf>>

LoadSeedFails(p) ==
  /\ seedFile \notin Seeds
  /\ GoTo(p, "load", "failed")
  /\ UNCHANGED <<seedFile, seedOf>>

\* create_seed: File::create truncates whatever is there by now ...
CreateSeed(p) ==
  /\ GoTo(p, "create", "write")
  /\ seedFile' = "short"
  /\ UNCHANGED seedOf

\* Mutant: the constant is returned without being written.
WriteSeed_Forgotten(p) ==
  /\ GoTo(p, "write", "ok")
  /\ seedOf' = [seedOf EXCEPT ![p] = "fixed"]
  /\ UNCHANGED seedFile

\* ... and write_all puts the constant there.
WriteSeed(p) ==
  /\ GoTo(p, "write", "ok")
  /\ seedFile' = "fixed"
  /\ seedOf' = [seedOf EXCEPT ![p] = "fixed"]

SeedStep(p) ==
  \/ SeedExists(p) \/ SeedMissing(p)
  \/ LoadSeed(p) \/ LoadSeedFails(p)
  \/ CreateSeed(p) \/ WriteSeed(p)

\* The caller is done with the prover it seeded, or reports the failure.
SeedDone(p) ==
  /\ seedPc[p] \in {"ok", "failed"}
  /\ seedPc' = [seedPc EXCEPT ![p] = "out"]
  /\ seedOf' = [seedOf EXCEPT ![p] = NoSeed]
  /\ UNCHANGED seedFile

\* A crash takes a set of callers (the threads of one program) where they
\* stand; they start over, and the disk stays as it is.
SeedAbandon(dead) ==
  /\ seedPc' = [p \in Callers |-> IF p \in dead THEN "out" ELSE seedPc[p]]
  /\ seedOf' = [p \in Callers |-> IF p \in dead THEN NoSeed ELSE seedOf[p]]
  /\ UNCHANGED seedFile
=============================================================================
