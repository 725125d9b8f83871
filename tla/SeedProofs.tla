----------------------------- MODULE SeedProofs -----------------------------
(***************************************************************************)
(* Theorems of SeedCallers, for any set of callers and any number of       *)
(* crashes: the types, that all seeds in use are one seed, that an         *)
(* operator's seed file is never overwritten, and what leaves it short.    *)
(***************************************************************************)
EXTENDS SeedCallers, TLAPS

(***************************************************************************)
(* The inductive strengthening of SeedAgreement.  As long as the file is   *)
(* an operator's nobody is on the way to create it and only its seed is    *)
(* handed out; otherwise only the constant one is.                         *)
(***************************************************************************)
OneOrigin ==
  IF seedFile = "operator"
  THEN \A p \in Callers : ~ Creating(p) /\ seedOf[p] \in {"operator", NoSeed}
  ELSE \A p \in Callers : seedOf[p] \in {"fixed", NoSeed}

OkHasSeed == \A p \in Callers : seedPc[p] = "ok" => seedOf[p] # NoSeed

SeedInv == TypeOK /\ OneOrigin /\ OkHasSeed

LEMMA SeedInvInit == Init => SeedInv
BY MaxCrashesAssumption
   DEF Init, SeedInit, SeedInv, TypeOK, SeedTypeOK, OneOrigin, OkHasSeed,
       Creating, FileContents, Seeds, SeedPcs, NoSeed

LEMMA SeedInvCall ==
  ASSUME SeedInv, NEW p \in Callers, Call(p)
  PROVE  SeedInv'
<1> USE DEF SeedInv, TypeOK, SeedTypeOK, OneOrigin, OkHasSeed, Creating,
            FileContents, Seeds, SeedPcs, NoSeed, GoTo
<1>1. CASE SeedExists(p) /\ UNCHANGED crashes
  BY <1>1 DEF SeedExists
<1>2. CASE SeedMissing(p) /\ UNCHANGED crashes
  BY <1>2 DEF SeedMissing
<1>3. CASE LoadSeed(p) /\ UNCHANGED crashes
  BY <1>3 DEF LoadSeed
<1>4. CASE LoadSeedFails(p) /\ UNCHANGED crashes
  BY <1>4 DEF LoadSeedFails
<1>5. CASE CreateSeed(p) /\ UNCHANGED crashes
  BY <1>5 DEF CreateSeed
<1>6. CASE WriteSeed(p) /\ UNCHANGED crashes
  BY <1>6 DEF WriteSeed
<1> QED
  BY <1>1, <1>2, <1>3, <1>4, <1>5, <1>6 DEF Call, SeedStep

LEMMA SeedInvNext == SeedInv /\ [Next]_vars => SeedInv'
<1> SUFFICES ASSUME SeedInv, [Next]_vars
             PROVE  SeedInv'
  OBVIOUS
<1>1. CASE UNCHANGED vars
  BY <1>1 DEF vars, SeedInv, TypeOK, SeedTypeOK, OneOrigin, OkHasSeed, Creating
<1>2. ASSUME NEW p \in Callers, Call(p)
      PROVE  SeedInv'
  BY <1>2, SeedInvCall
<1>3. ASSUME NEW p \in Callers, Return(p)
      PROVE  SeedInv'
  BY <1>3 DEF Return, SeedDone, SeedInv, TypeOK, SeedTypeOK, OneOrigin,
              OkHasSeed, Creating, SeedPcs, NoSeed
<1>4. CASE Crash
  <2>1. PICK dead \in SUBSET Callers : SeedAbandon(dead)
    BY <1>4 DEF Crash
  <2>2. TypeOK'
    BY <1>4, <2>1, MaxCrashesAssumption
       DEF Crash, SeedAbandon, SeedInv, TypeOK, SeedTypeOK, SeedPcs, NoSeed
  <2>3. OneOrigin' /\ OkHasSeed'
    BY <2>1 DEF SeedAbandon, SeedInv, TypeOK, SeedTypeOK, OneOrigin, OkHasSeed,
                Creating, NoSeed
  <2> QED
    BY <2>2, <2>3 DEF SeedInv
<1> QED
  BY <1>1, <1>2, <1>3, <1>4 DEF Next

\* All the invariants below follow from this one.
LEMMA SeedInvariant == Spec => []SeedInv
BY SeedInvInit, SeedInvNext, PTL DEF Spec

(***************************************************************************)
(* Every reachable state of the seed file and its callers is of its type:  *)
(* in particular no caller ever holds a seed read from a short file.       *)
(***************************************************************************)
THEOREM SeedTypeCorrect == Spec => []TypeOK
<1>1. SeedInv => TypeOK
  BY DEF SeedInv
<1> QED
  BY <1>1, SeedInvariant, PTL

(***************************************************************************)
(* All provers that load_or_create_seed has given a seed have the same     *)
(* one, whichever of them found the file and whichever made it.            *)
(***************************************************************************)
THEOREM SeedAgreementHolds == Spec => []SeedAgreement
<1>1. SeedInv => SeedAgreement
  BY DEF SeedInv, TypeOK, SeedTypeOK, OneOrigin, OkHasSeed, SeedAgreement,
         Seeds, NoSeed
<1> QED
  BY <1>1, SeedInvariant, PTL

(***************************************************************************)
(* The unlocked existence test never lets create_seed truncate a seed file *)
(* that an operator put in place.                                          *)
(***************************************************************************)
THEOREM OperatorSeedIsKept == Spec => OperatorSeedKept
<1>1. SeedInv /\ [Next]_vars => [seedFile = "operator" => seedFile' = "operator"]_vars
  <2> SUFFICES ASSUME SeedInv, Next, seedFile = "operator"
               PROVE  seedFile' = "operator"
    OBVIOUS
  <2>1. ASSUME NEW p \in Callers, Call(p)
        PROVE  seedFile' = "operator"
    BY <2>1 DEF Call, SeedStep, SeedExists, SeedMissing, LoadSeed, LoadSeedFails,
                CreateSeed, WriteSeed, GoTo, SeedInv, OneOrigin, Creating
  <2>2. ASSUME NEW p \in Callers, Return(p)
        PROVE  seedFile' = "operator"
    BY <2>2 DEF Return, SeedDone
  <2>3. CASE Crash
    BY <2>3 DEF Crash, SeedAbandon
  <2> QED
    BY <2>1, <2>2, <2>3 DEF Next
<1> QED
  BY <1>1, SeedInvariant, PTL DEF Spec, OperatorSeedKept

(***************************************************************************)
(* A short seed file is being written by some caller, or a crash left it:  *)
(* every other way out of create_seed has written all of it.               *)
(***************************************************************************)
THEOREM ShortOnlyInCreationHolds == Spec => []ShortOnlyInCreation
<1>1. Init => ShortOnlyInCreation
  BY DEF Init, SeedInit, ShortOnlyInCreation, Seeds
<1>2. SeedInv /\ ShortOnlyInCreation /\ [Next]_vars => ShortOnlyInCreation'
  <2> SUFFICES ASSUME SeedInv, ShortOnlyInCreation, [Next]_vars
               PROVE  ShortOnlyInCreation'
    OBVIOUS
  <2>0. seedPc \in [Callers -> SeedPcs] /\ crashes \in Nat
    BY MaxCrashesAssumption DEF SeedInv, TypeOK, SeedTypeOK
  <2>1. CASE UNCHANGED vars
    BY <2>1 DEF vars, ShortOnlyInCreation
  <2>2. ASSUME NEW p \in Callers, Call(p)
        PROVE  ShortOnlyInCreation'
    <3> USE DEF ShortOnlyInCreation, GoTo, SeedPcs
    <3>1. CASE SeedExists(p) \/ SeedMissing(p) \/ LoadSeed(p) \/ LoadSeedFails(p)
      <4>1. /\ UNCHANGED <<seedFile, crashes>> /\ seedPc[p] # "write"
            /\ \A q \in Callers \ {p} : seedPc'[q] = seedPc[q]
        BY <2>0, <2>2, <3>1 DEF Call, SeedExists, SeedMissing, LoadSeed, LoadSeedFails
      <4> QED
        BY <4>1
    <3>2. CASE CreateSeed(p)
      <4>1. seedPc'[p] = "write"
        BY <2>0, <3>2 DEF CreateSeed
      <4> QED
        BY <4>1
    <3>3. CASE WriteSeed(p)
      BY <3>3 DEF WriteSeed
    <3> QED
      BY <2>2, <3>1, <3>2, <3>3 DEF Call, SeedStep
  <2>3. ASSUME NEW p \in Callers, Return(p)
        PROVE  ShortOnlyInCreation'
    <3>1. /\ UNCHANGED <<seedFile, crashes>> /\ seedPc[p] # "write"
          /\ \A q \in Callers \ {p} : seedPc'[q] = seedPc[q]
      BY <2>0, <2>3 DEF Return, SeedDone
    <3> QED
      BY <3>1 DEF ShortOnlyInCreation
  <2>4. CASE Crash
    <3>1. crashes' > 0
      BY <2>0, <2>4 DEF Crash
    <3> QED
      BY <3>1 DEF ShortOnlyInCreation
  <2> QED
    BY <2>1, <2>2, <2>3, <2>4 DEF Next
<1> QED
  BY <1>1, <1>2, SeedInvariant, PTL DEF Spec
=============================================================================
