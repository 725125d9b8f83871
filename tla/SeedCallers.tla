----------------------------- MODULE SeedCallers -----------------------------
(***************************************************************************)
(* The seed file on its own: server threads and command line programs that *)
(* call load_or_create_seed again and again, and crash.                    *)
(***************************************************************************)
EXTENDS SeedFile, Naturals

CONSTANT MaxCrashes  \* bound of the model: crashes in a behaviour

ASSUME MaxCrashesAssumption == MaxCrashes \in Nat

VARIABLE crashes     \* number of crashes so far

vars == <<seedFile, seedPc, seedOf, crashes>>

Init == SeedInit /\ crashes = 0

Call(p) == SeedStep(p) /\ UNCHANGED crashes
Return(p) == SeedDone(p) /\ UNCHANGED crashes

Crash ==
  /\ crashes < MaxCrashes
  /\ crashes' = crashes + 1
  /\ \E dead \in SUBSET Callers : dead # {} /\ SeedAbandon(dead)

Next == (\E p \in Callers : Call(p) \/ Return(p)) \/ Crash

\* A thread that has started the call runs on until the call returns.
Spec ==
  /\ Init
  /\ [][Next]_vars
  /\ \A p \in Callers : WF_vars(seedPc[p] # "out" /\ Call(p))

-----------------------------------------------------------------------------
TypeOK == SeedTypeOK /\ crashes \in 0..MaxCrashes

Creating(p) == seedPc[p] \in {"create", "write"}

(***************************************************************************)
(* All provers that run at one time are seeded alike, and like the file    *)
(* once it is whole: XorShiftRng::from_seed gets the same sixteen bytes in *)
(* every request whichever of them created the file.                       *)
(***************************************************************************)
SeedAgreement ==
  \A p \in Callers : seedPc[p] = "ok" =>
    /\ \A q \in Callers : seedPc[q] = "ok" => seedOf[q] = seedOf[p]
    /\ seedFile \in Seeds => seedOf[p] = seedFile

(***************************************************************************)
(* A seed an operator put in place is never truncated or replaced by the   *)
(* constant one, in spite of the unlocked test: create_seed runs only for  *)
(* callers that found no file.                                             *)
(***************************************************************************)
OperatorSeedKept ==
  [][seedFile = "operator" => seedFile' = "operator"]_vars

(***************************************************************************)
(* Without a crash the file is short only while some caller is between     *)
(* File::create and write_all: nobody is left with a torn file.            *)
(***************************************************************************)
ShortOnlyInCreation ==
  seedFile = "short" => (crashes > 0 \/ \E p \in Callers : seedPc[p] = "write")

(***************************************************************************)
(* The window closes: once a file is there no new caller enters            *)
(* create_seed, so after finitely many truncations by those already in it  *)
(* the file is whole for good, unless a crash tears it.                    *)
(***************************************************************************)
SeedSettles ==
  (seedFile # "absent") ~> (crashes > 0 \/ [](crashes = 0 => seedFile \in Seeds))

(***************************************************************************)
(* What the comment on load_or_create_seed says: it returns a seed, by     *)
(* reading the file or by generating one.  It does not when one caller     *)
(* reads between another's File::create and write_all, or for ever after a *)
(* crash between these two.                                                *)
(***************************************************************************)
SeedReturned == \A p \in Callers : seedPc[p] # "failed"
=============================================================================
