----------------------------- MODULE ParamsFile -----------------------------
(***************************************************************************)
(* A KZG parameter file and the functions of zkevm/src/utils.rs that share *)
(* it with no lock: load_or_create_params (setup binary, Prover::from_     *)
(* fpath) and load_kzg_params (server, prove binary).  The file of one     *)
(* degree is modelled; those of other degrees are other files.             *)
(*                                                                         *)
(* The file is gigabytes long, so a write or a read of it is not one step: *)
(* it is modelled as Chunks pieces.  Each writer writes at its own offset, *)
(* and a piece that was truncated away and lies below a later one is a     *)
(* hole, which reads as zeros.                                             *)
(***************************************************************************)
EXTENDS Naturals, Sequences, FiniteSets

CONSTANTS
  Makers,     \* callers of load_or_create_params
  Loaders,    \* callers of load_kzg_params
  Chunks,     \* the full length of the file
  MaxFaults   \* bound of the model: deaths of callers and disk failures

Hole == "hole"

\* Parameters made at random are named after their maker; none is all zeros.
ASSUME ParamsAssumption ==
  /\ Chunks \in Nat \ {0} /\ MaxFaults \in Nat
  /\ Makers \cap Loaders = {}
  /\ Hole \notin Makers

Callers == Makers \cup Loaders

VARIABLES
  paramSeed,\* PARAM_SEED of each maker: the common one, its own or empty, too short
  folder,   \* what is at params_dir
  exists,   \* the parameter file is there
  file,     \* its pieces, as long as it is
  pc,       \* where each caller stands
  pos,      \* the piece each writer writes next
  got,      \* the pieces each caller has read, or holds
  faults,
  overlap,  \* history: two callers have been writing the file at one time
  disturbed \* history: callers whose file was truncated while they read it

vars == <<paramSeed, folder, exists, file, pc, pos, got, faults, overlap, disturbed>>

\* The parameters a maker makes: those of the common PARAM_SEED, or its own.
Origin(p) == IF paramSeed[p] = "common" THEN "seed" ELSE p

AllSeeded == \A p \in Makers : paramSeed[p] = "common"
Contents == {Hole, "seed"} \cup Makers

Full(content) == [k \in 1..Chunks |-> content]

Writing(p) == pc[p] = "write"

Init ==
  /\ paramSeed \in [Makers -> {"common", "own", "short"}]
  /\ folder \in {"absent", "folder", "file"}
  /\ exists = FALSE
  /\ file = <<>>
  /\ pc = [p \in Callers |-> "out"]
  /\ pos = [p \in Callers |-> 1]
  /\ got = [p \in Callers |-> <<>>]
  /\ faults = 0
  /\ overlap = FALSE /\ disturbed = {}

Goto(p, from, to) == pc[p] = from /\ pc' = [pc EXCEPT ![p] = to]

disk == <<paramSeed, folder, exists, file>>
data == <<pos, got>>
bounds == <<faults, overlap, disturbed>>
-----------------------------------------------------------------------------
(* load_or_create_params: the folder, then the file.                       *)

FolderIsFile(p) ==
  /\ p \in Makers /\ folder = "file"
  /\ Goto(p, "out", "failed")
  /\ UNCHANGED <<disk, data, bounds>>

CheckFolder(p) ==
  /\ p \in Makers /\ folder # "file"
  /\ folder' = "folder"
  /\ Goto(p, "out", "exists")
  /\ UNCHANGED <<paramSeed, exists, file, data, bounds>>

\* load_kzg_params does not look at the folder.
CallLoad(p) ==
  /\ p \in Loaders
  /\ Goto(p, "out", "exists")
  /\ UNCHANGED <<disk, data, bounds>>

FileExists(p) ==
  /\ exists
  /\ Goto(p, "exists", "open")
  /\ UNCHANGED <<disk, data, bounds>>

\* No file: a maker makes it, load_kzg_params panics.
FileMissing(p) ==
  /\ ~ exists
  /\ Goto(p, "exists", IF p \in Makers THEN "create" ELSE "failed")
  /\ UNCHANGED <<disk, data, bounds>>

-----------------------------------------------------------------------------
(* load_params.                                                            *)

\* Mutant: the error is returned by a maker too.
LoadError_Returned(p, from) ==
  /\ Goto(p, from, "failed")
  /\ got' = [got EXCEPT ![p] = <<>>]
  /\ disturbed' = disturbed \ {p}
  /\ UNCHANGED <<disk, pos, faults, overlap>>

\* An error makes a maker create the file anew, and ends load_kzg_params.
LoadError(p, from) ==
  /\ Goto(p, from, IF p \in Makers THEN "create" ELSE "failed")
  /\ got' = [got EXCEPT ![p] = <<>>]
  /\ disturbed' = disturbed \ {p}
  /\ UNCHANGED <<disk, pos, faults, overlap>>

\* Mutant: the expected length leaves something out.
LengthWrong_Short(p) == Len(file) <= Chunks /\ LoadError(p, "open")

LengthWrong(p) == Len(file) # Chunks /\ LoadError(p, "open")

LengthRight(p) ==
  /\ Len(file) = Chunks
  /\ Goto(p, "open", "read")
  /\ UNCHANGED <<disk, data, bounds>>

Reading(p) == Len(got[p]) + 1

\* read_custom, RawBytesUnchecked: the bytes are taken for what they are.
ReadChunk(p) ==
  /\ pc[p] = "read" /\ Reading(p) \in DOMAIN file
  /\ got' = [got EXCEPT ![p] = Append(@, file[Reading(p)])]
  /\ UNCHANGED <<disk, pc, pos, bounds>>

Eof(p) == Reading(p) \in 1..Chunks \ DOMAIN file

\* The file has been truncated meanwhile, and read_custom returns the error ...
ReadEof(p) == Eof(p) /\ LoadError(p, "read")

\* ... or panics, as it may where points are read with no check.
ReadPanics(p) ==
  /\ Eof(p)
  /\ Goto(p, "read", "failed")
  /\ UNCHANGED <<disk, data, bounds>>

\* Mutant: the end of the file ends the parameters.
ReadDone_Eof(p) ==
  /\ Reading(p) \notin DOMAIN file
  /\ Goto(p, "read", "ok")
  /\ UNCHANGED <<disk, data, bounds>>

ReadDone(p) ==
  /\ Reading(p) > Chunks
  /\ Goto(p, "read", "ok")
  /\ UNCHANGED <<disk, data, bounds>>

-----------------------------------------------------------------------------
(* create_params.                                                          *)

\* The first 32 bytes of a PARAM_SEED that has fewer: a panic.
SeedTooShort(p) ==
  /\ paramSeed[p] = "short"
  /\ Goto(p, "create", "failed")
  /\ UNCHANGED <<disk, data, bounds>>

\* File::create, once the parameters are made.
CreateParams(p) ==
  /\ paramSeed[p] # "short"
  /\ Goto(p, "create", "write")
  /\ exists' = TRUE /\ file' = <<>>
  /\ pos' = [pos EXCEPT ![p] = 1]
  /\ overlap' = (overlap \/ \E q \in Callers : Writing(q))
  /\ disturbed' = disturbed \cup {q \in Callers : pc[q] = "read"}
  /\ UNCHANGED <<paramSeed, folder, got, faults>>

\* Mutant: the piece goes to the end of the file.
WriteChunk_Appended(p) ==
  /\ Writing(p) /\ pos[p] <= Chunks
  /\ file' = Append(file, Origin(p))
  /\ pos' = [pos EXCEPT ![p] = @ + 1]
  /\ UNCHANGED <<paramSeed, folder, exists, pc, got, bounds>>

\* A piece is written at the writer's own offset.
WriteChunk(p) ==
  LET end == IF pos[p] > Len(file) THEN pos[p] ELSE Len(file)
  IN  /\ Writing(p) /\ pos[p] <= Chunks
      /\ file' = [k \in 1..end |->
           IF k = pos[p] THEN Origin(p) ELSE IF k \in DOMAIN file THEN file[k] ELSE Hole]
      /\ pos' = [pos EXCEPT ![p] = @ + 1]
      /\ UNCHANGED <<paramSeed, folder, exists, pc, got, bounds>>

\* Mutant: write in place of write_all, the result ignored.
WriteDone_AnyLength(p) ==
  /\ Goto(p, "write", "ok")
  /\ got' = [got EXCEPT ![p] = Full(Origin(p))]
  /\ UNCHANGED <<disk, pos, bounds>>

WriteDone(p) ==
  /\ pos[p] > Chunks
  /\ Goto(p, "write", "ok")
  /\ got' = [got EXCEPT ![p] = Full(Origin(p))]
  /\ UNCHANGED <<disk, pos, bounds>>

-----------------------------------------------------------------------------
Leave(p) ==
  /\ pc' = [pc EXCEPT ![p] = "out"]
  /\ pos' = [pos EXCEPT ![p] = 1]
  /\ got' = [got EXCEPT ![p] = <<>>]
  /\ disturbed' = disturbed \ {p}

\* The caller drops the parameters, or reports the error, and may call again.
Return(p) ==
  /\ pc[p] \in {"ok", "failed"}
  /\ Leave(p)
  /\ UNCHANGED <<disk, faults, overlap>>

\* The caller dies, or its disk is full: the file stays as it is.
Die(p) ==
  /\ faults < MaxFaults
  /\ faults' = faults + 1
  /\ pc[p] # "out"
  /\ Leave(p)
  /\ UNCHANGED <<disk, overlap>>

Load(p) ==
  \/ LengthWrong(p) \/ LengthRight(p)
  \/ ReadChunk(p) \/ ReadEof(p) \/ ReadPanics(p) \/ ReadDone(p)

\* Loaders do not get to these steps.
Create(p) ==
  p \in Makers /\ (SeedTooShort(p) \/ CreateParams(p) \/ WriteChunk(p) \/ WriteDone(p))

CallerStep(p) == FileExists(p) \/ FileMissing(p) \/ Load(p) \/ Create(p)

Next ==
  \E p \in Callers :
    FolderIsFile(p) \/ CheckFolder(p) \/ CallLoad(p) \/ CallerStep(p) \/ Return(p) \/ Die(p)

\* A call that began goes on.
Spec == Init /\ [][Next]_vars /\ \A p \in Callers : WF_vars(CallerStep(p))

-----------------------------------------------------------------------------
TypeOK ==
  /\ paramSeed \in [Makers -> {"common", "own", "short"}]
  /\ folder \in {"absent", "folder", "file"}
  /\ exists \in BOOLEAN
  /\ file \in Seq(Contents) /\ Len(file) <= Chunks
  /\ pc \in [Callers -> {"out", "exists", "open", "read", "create", "write", "ok", "failed"}]
  /\ pos \in [Callers -> 1..Chunks + 1]
  /\ got \in [Callers -> Seq(Contents)]
  /\ \A p \in Callers : Len(got[p]) <= Chunks
  /\ faults \in 0..MaxFaults
  /\ overlap \in BOOLEAN /\ disturbed \subseteq Callers

(***************************************************************************)
(* As long as no two programs have been writing the file at one time,      *)
(* whoever gets parameters gets the full length with no hole in it,        *)
(* whatever writers were interrupted: the length check and the end of file *)
(* keep partial files out.  They are those of one maker, unless the file   *)
(* was truncated while they were read, and then too when all programs have *)
(* the common one.  What is left out happens: with seeds that differ, a    *)
(* reader goes on past the truncation into the set of a second maker and   *)
(* returns a part of each, though the two were not writing at one time.    *)
(***************************************************************************)
WholeUnlessOverlap ==
  ~ overlap => \A p \in Callers : pc[p] = "ok" =>
    /\ Len(got[p]) = Chunks
    /\ \A k \in 1..Chunks : got[p][k] # Hole
    /\ p \notin disturbed => \E c \in Contents : got[p] = Full(c)
    /\ AllSeeded => got[p] = Full("seed")

(***************************************************************************)
(* Makers that write at one time get in each other's way, but when none    *)
(* was interrupted, the file they leave has the full length and no hole,   *)
(* and holds the one parameter set when all have the same PARAM_SEED.      *)
(***************************************************************************)
SettledIsWhole ==
  (exists /\ faults = 0 /\ ~ \E p \in Callers : Writing(p)) =>
    /\ Len(file) = Chunks
    /\ \A k \in DOMAIN file : file[k] # Hole
    /\ AllSeeded => file = Full("seed")

(***************************************************************************)
(* Once the file is whole and no maker is about to make it, it stays so    *)
(* for good: no caller finds a reason to truncate it, and none that read   *)
(* an earlier state of it does.                                            *)
(***************************************************************************)
Settled ==
  /\ \E c \in Contents \ {Hole} : file = Full(c)
  /\ \A p \in Makers : pc[p] \notin {"create", "write"}

SettledForGood == [][Settled => Settled' /\ file' = file]_vars

(***************************************************************************)
(* A call of load_or_create_params that got past the folder, of a program  *)
(* whose PARAM_SEED is not too short, ends with parameters, also over the  *)
(* remains of a file that was never finished.  It fails only if the file   *)
(* is truncated while it reads it, or by a death or a disk failure.        *)
(***************************************************************************)
MakersSucceed ==
  \A p \in Makers : \A n \in 0..MaxFaults :
    (pc[p] = "exists" /\ faults = n /\ paramSeed[p] # "short")
      ~> (\/ pc[p] = "ok" \/ faults > n
          \/ pc[p] = "failed" /\ p \in disturbed)

(***************************************************************************)
(* What the comment on load_or_create_params says: it returns parameters   *)
(* read from the file or made anew.  Here a hole is neither.               *)
(***************************************************************************)
LoadedIsWhole ==
  \A p \in Callers : pc[p] = "ok" => \A k \in DOMAIN got[p] : got[p][k] # Hole
=============================================================================
