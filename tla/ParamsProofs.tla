---------------------------- MODULE ParamsProofs ----------------------------
(***************************************************************************)
(* Theorems of ParamsFile, for any number of programs that make or load a  *)
(* parameter file of any length, and any number of deaths.                 *)
(***************************************************************************)
EXTENDS ParamsFile, TLAPS

-----------------------------------------------------------------------------
(* The inductive invariant.                                                *)

\* load_kzg_params never makes the file.
OnlyMakersWrite == \A p \in Callers : pc[p] \in {"create", "write"} => p \in Makers

PiecesNeedFile == ~ exists => file = <<>>

WriterHasFile == \A p \in Callers : Writing(p) => exists

\* Whoever has parameters has all of their length.
FullLength == \A p \in Callers : pc[p] = "ok" => Len(got[p]) = Chunks

\* What is made from PARAM_SEED is never of another origin.
OneSet ==
  AllSeeded =>
    /\ \A k \in DOMAIN file : file[k] \in {Hole, "seed"}
    /\ \A p \in Callers : \A k \in DOMAIN got[p] : got[p][k] \in {Hole, "seed"}

\* A writer that is alone writes at the end of the file, and so no hole was
\* there for anyone to read.
NoHoles ==
  ~ overlap =>
    /\ \A p \in Callers : Writing(p) => pos[p] = Len(file) + 1
    /\ \A p, q \in Callers : Writing(p) /\ Writing(q) => p = q
    /\ \A k \in DOMAIN file : file[k] # Hole
    /\ \A p \in Callers : \A k \in DOMAIN got[p] : got[p][k] # Hole

\* Nothing has been read by those who have yet to look into the file.
NothingYet == \A p \in Callers : pc[p] \in {"out", "exists", "open"} => got[p] = <<>>

\* A writer that is alone fills the file with one content.  Whoever reads it
\* undisturbed has found it at its full length, and no lone writer has a piece
\* left to write into such a file.
OneContent ==
  ~ overlap =>
    /\ \E c \in Contents : \A k \in DOMAIN file : file[k] = c
    /\ \A p \in Callers : Writing(p) => \A k \in DOMAIN file : file[k] = Origin(p)
    /\ \A p \in Callers \ disturbed : pc[p] = "read" =>
         Len(file) = Chunks /\ \A k \in DOMAIN got[p] : got[p][k] = file[k]
    /\ \A p \in Callers \ disturbed : pc[p] = "ok" => \E c \in Contents : got[p] = Full(c)

\* Without a death, what is missing in the file is still to be written by
\* one of its writers: the last to truncate it, if by no other.
StillToCome ==
  exists /\ faults = 0 =>
    \A k \in 1..Chunks :
      \/ k \in DOMAIN file /\ file[k] # Hole
      \/ \E p \in Callers : Writing(p) /\ pos[p] <= k

ParamsInv ==
  /\ TypeOK /\ OnlyMakersWrite /\ PiecesNeedFile /\ WriterHasFile /\ FullLength
  /\ OneSet /\ NoHoles /\ NothingYet /\ OneContent /\ StillToCome

-----------------------------------------------------------------------------
(* Every step keeps the invariant.                                         *)

Pcs == {"out", "exists", "open", "read", "create", "write", "ok", "failed"}

LEMMA OriginContent ==
  ASSUME TypeOK, NEW p \in Makers
  PROVE  Origin(p) \in Contents /\ Origin(p) # Hole /\ (AllSeeded => Origin(p) = "seed")
BY ParamsAssumption DEF TypeOK, Origin, AllSeeded, Contents, Hole

LEMMA FullContent ==
  ASSUME NEW c \in Contents
  PROVE  /\ Full(c) \in Seq(Contents) /\ Len(Full(c)) = Chunks
         /\ DOMAIN Full(c) = 1..Chunks
         /\ \A k \in 1..Chunks : Full(c)[k] = c
<1>1. Full(c) \in [1..Chunks -> Contents] /\ Chunks \in Nat
  BY ParamsAssumption DEF Full
<1>2. Full(c) \in Seq(Contents) /\ Len(Full(c)) = Chunks
  BY <1>1
<1> QED
  BY <1>2 DEF Full

\* A caller moves on, and neither writes nor gets anything by it.
Moves(p) ==
  /\ pc[p] # "write"
  /\ \E to \in Pcs \ {"write"} :
       /\ pc' = [pc EXCEPT ![p] = to]
       /\ to = "create" => p \in Makers
       /\ to = "ok" => pc[p] = "read" /\ Len(got[p]) = Chunks
       /\ to = "read" => pc[p] = "open" /\ Len(file) = Chunks
       /\ to \in {"exists", "open"} => pc[p] \in {"out", "exists"}
       /\ to # "out"
       /\ \/ UNCHANGED <<got, disturbed>>
          \/ /\ to \in {"create", "failed"}
             /\ got' = [got EXCEPT ![p] = <<>>] /\ disturbed' = disturbed \ {p}
  /\ UNCHANGED <<paramSeed, exists, file, pos, faults, overlap>>
  /\ folder' \in {"absent", "folder", "file"}

LEMMA MovingSteps ==
  ASSUME ParamsInv, NEW p \in Callers,
         \/ FolderIsFile(p) \/ CheckFolder(p) \/ CallLoad(p) \/ FileExists(p) \/ FileMissing(p)
         \/ LengthWrong(p) \/ LengthRight(p) \/ ReadEof(p) \/ ReadPanics(p) \/ ReadDone(p)
         \/ p \in Makers /\ SeedTooShort(p)
  PROVE  Moves(p)
<1> USE DEF Moves, Pcs, Goto, data, disk, bounds
<1>0. /\ pc \in [Callers -> Pcs] /\ folder \in {"absent", "folder", "file"}
      /\ Len(got[p]) \in Nat /\ Len(got[p]) <= Chunks /\ Chunks \in Nat
  BY ParamsAssumption DEF ParamsInv, TypeOK
<1>1. CASE FolderIsFile(p) \/ CheckFolder(p)
  BY <1>0, <1>1 DEF FolderIsFile, CheckFolder
<1>2. CASE CallLoad(p) \/ FileExists(p) \/ FileMissing(p)
  BY <1>0, <1>2 DEF CallLoad, FileExists, FileMissing
<1>3. CASE LengthWrong(p) \/ ReadEof(p)
  BY <1>0, <1>3 DEF LengthWrong, ReadEof, LoadError
<1>4. CASE LengthRight(p)
  BY <1>0, <1>4 DEF LengthRight
<1>6. CASE ReadPanics(p) \/ (p \in Makers /\ SeedTooShort(p))
  BY <1>0, <1>6 DEF ReadPanics, SeedTooShort
<1>5. CASE ReadDone(p)
  <2>1. Len(got[p]) = Chunks
    BY <1>0, <1>5 DEF ReadDone, Reading
  <2> QED
    BY <1>0, <1>5, <2>1 DEF ReadDone
<1> QED
  BY <1>1, <1>2, <1>3, <1>4, <1>5, <1>6

LEMMA MovesInv ==
  ASSUME ParamsInv, NEW p \in Callers, Moves(p)
  PROVE  ParamsInv'
<1>0. PICK to \in Pcs \ {"write"} :
        /\ pc' = [pc EXCEPT ![p] = to]
        /\ to = "create" => p \in Makers
        /\ to = "ok" => pc[p] = "read" /\ Len(got[p]) = Chunks
        /\ to = "read" => pc[p] = "open" /\ Len(file) = Chunks
        /\ to \in {"exists", "open"} => pc[p] \in {"out", "exists"}
        /\ to # "out"
        /\ \/ UNCHANGED <<got, disturbed>>
           \/ /\ to \in {"create", "failed"}
              /\ got' = [got EXCEPT ![p] = <<>>] /\ disturbed' = disturbed \ {p}
  BY DEF Moves
<1>1. /\ pc \in [Callers -> Pcs] /\ got \in [Callers -> Seq(Contents)]
      /\ \A q \in Callers : Len(got[q]) <= Chunks
      /\ Chunks \in Nat
  BY ParamsAssumption DEF ParamsInv, TypeOK, Pcs
<1>2. /\ pc' \in [Callers -> Pcs] /\ pc'[p] = to
      /\ \A q \in Callers \ {p} : pc'[q] = pc[q]
      /\ \A q \in Callers : Writing(q)' <=> Writing(q)
  BY <1>0, <1>1 DEF Writing, Moves
<1>3. /\ got' \in [Callers -> Seq(Contents)]
      /\ \A q \in Callers :
           \/ got'[q] = got[q]
           \/ q = p /\ to \in {"create", "failed"} /\ got'[q] = <<>>
  <2>1. CASE UNCHANGED got
    BY <1>1, <2>1
  <2>2. CASE to \in {"create", "failed"} /\ got' = [got EXCEPT ![p] = <<>>]
    BY <1>1, <2>2
  <2> QED
    BY <1>0, <2>1, <2>2
<1>11. /\ disturbed' \subseteq disturbed
       /\ \A q \in disturbed \ disturbed' : q = p /\ to \in {"create", "failed"}
  BY <1>0
<1>4. UNCHANGED <<paramSeed, exists, file, pos, faults, overlap>>
  BY DEF Moves
<1>5. TypeOK'
  <2>1. \A q \in Callers : Len(got'[q]) <= Chunks
    BY <1>1, <1>3
  <2> QED
    BY <1>2, <1>3, <1>4, <1>11, <2>1 DEF ParamsInv, TypeOK, Moves, Pcs
<1>6. OnlyMakersWrite' /\ WriterHasFile'
  BY <1>0, <1>2, <1>4 DEF ParamsInv, OnlyMakersWrite, WriterHasFile
<1>7. FullLength'
  BY <1>0, <1>2, <1>3 DEF ParamsInv, FullLength
<1>8. OneSet' /\ PiecesNeedFile'
  BY <1>3, <1>4 DEF ParamsInv, OneSet, AllSeeded, PiecesNeedFile
<1>12. NothingYet'
  <2> SUFFICES ASSUME NEW q \in Callers, pc'[q] \in {"out", "exists", "open"}
               PROVE  got'[q] = <<>>
    BY DEF NothingYet
  <2>1. pc[q] \in {"out", "exists", "open"}
    BY <1>0, <1>2
  <2> QED
    BY <1>3, <2>1 DEF ParamsInv, NothingYet
<1>13. OneContent'
  <2> SUFFICES ASSUME ~ overlap
               PROVE  OneContent'
    BY <1>4 DEF OneContent
  <2>1. /\ \E c \in Contents : \A k \in DOMAIN file : file[k] = c
        /\ \A q \in Callers : Writing(q) => \A k \in DOMAIN file : file[k] = Origin(q)
    BY DEF ParamsInv, OneContent
  <2>2. \A q \in Callers : Origin(q)' = Origin(q)
    BY <1>4 DEF Origin
  <2>3. \A q \in Callers : Writing(q)' => \A k \in DOMAIN file' : file'[k] = Origin(q)'
    BY <1>2, <1>4, <2>1, <2>2
  <2>4. ASSUME NEW q \in Callers \ disturbed', pc'[q] = "read"
        PROVE  Len(file) = Chunks /\ \A k \in DOMAIN got'[q] : got'[q][k] = file[k]
    <3>1. CASE pc[q] = "read" /\ q \notin disturbed
      BY <1>2, <1>3, <2>4, <3>1 DEF ParamsInv, OneContent
    <3>2. CASE q = p /\ to = "read"
      <4>1. Len(file) = Chunks /\ got[q] = <<>>
        BY <1>0, <3>2 DEF ParamsInv, NothingYet
      <4> QED
        BY <1>3, <3>2, <4>1
    <3> QED
      BY <1>2, <1>11, <2>4, <3>1, <3>2
  <2>5. ASSUME NEW q \in Callers \ disturbed', pc'[q] = "ok"
        PROVE  \E c \in Contents : got'[q] = Full(c)
    <3>1. CASE q # p
      BY <1>2, <1>3, <1>11, <2>5, <3>1 DEF ParamsInv, OneContent
    <3>2. CASE q = p
      <4>1. /\ pc[p] = "read" /\ Len(got[p]) = Chunks /\ got'[p] = got[p]
            /\ p \notin disturbed
        BY <1>0, <1>2, <1>3, <1>11, <2>5, <3>2
      <4>2. Len(file) = Chunks /\ \A k \in DOMAIN got[p] : got[p][k] = file[k]
        BY <4>1 DEF ParamsInv, OneContent
      <4>3. PICK c \in Contents : \A k \in DOMAIN file : file[k] = c
        BY <2>1
      <4>4. /\ DOMAIN got[p] = 1..Chunks /\ DOMAIN file = 1..Chunks
            /\ got[p] = [k \in 1..Chunks |-> got[p][k]]
        BY <1>1, <4>1, <4>2 DEF ParamsInv, TypeOK
      <4>5. \A k \in 1..Chunks : got[p][k] = c
        BY <4>2, <4>3, <4>4
      <4>6. got[p] = Full(c)
        BY <4>4, <4>5 DEF Full
      <4> QED
        BY <3>2, <4>1, <4>6
    <3> QED
      BY <3>1, <3>2
  <2>6. \E c \in Contents : \A k \in DOMAIN file' : file'[k] = c
    BY <1>4, <2>1
  <2>7. \A q \in Callers \ disturbed' : pc'[q] = "read" =>
          Len(file') = Chunks /\ \A k \in DOMAIN got'[q] : got'[q][k] = file'[k]
    BY <1>4, <2>4
  <2>8. \A q \in Callers \ disturbed' : pc'[q] = "ok" => \E c \in Contents : got'[q] = Full(c)
    BY <2>5
  <2>9. Contents' = Contents /\ Callers' = Callers /\ Chunks' = Chunks
    BY DEF Contents, Callers
  <2>10. \A c \in Contents : Full(c)' = Full(c)
    BY DEF Full
  <2> QED
    BY <2>3, <2>6, <2>7, <2>8, Zenon DEF OneContent, Full
<1>9. NoHoles'
  BY <1>2, <1>3, <1>4 DEF ParamsInv, NoHoles, Writing
<1>10. StillToCome'
  BY <1>2, <1>4 DEF ParamsInv, StillToCome
<1> QED
  BY <1>5, <1>6, <1>7, <1>8, <1>9, <1>10, <1>12, <1>13 DEF ParamsInv

LEMMA ReadInv ==
  ASSUME ParamsInv, NEW p \in Callers, ReadChunk(p)
  PROVE  ParamsInv'
<1> DEFINE r == Reading(p)
<1>1. /\ got \in [Callers -> Seq(Contents)] /\ file \in Seq(Contents)
      /\ Len(file) <= Chunks /\ Chunks \in Nat /\ pc[p] = "read"
      /\ UNCHANGED <<paramSeed, folder, exists, file, pc, pos, faults, overlap, disturbed>>
  BY ParamsAssumption DEF ParamsInv, TypeOK, ReadChunk, disk, bounds
<1>2. r \in DOMAIN file /\ r = Len(got[p]) + 1 /\ file[r] \in Contents
  BY <1>1 DEF ReadChunk, Reading
<1>3. /\ got' = [got EXCEPT ![p] = Append(got[p], file[r])]
      /\ got' \in [Callers -> Seq(Contents)]
      /\ got'[p] = Append(got[p], file[r])
      /\ \A q \in Callers \ {p} : got'[q] = got[q]
  BY <1>1, <1>2 DEF ReadChunk
<1>4. /\ Len(got'[p]) = r /\ r <= Chunks
      /\ \A k \in DOMAIN got'[p] : IF k = r THEN got'[p][k] = file[r]
                                   ELSE k \in DOMAIN got[p] /\ got'[p][k] = got[p][k]
  <2>1. got[p] \in Seq(Contents) /\ DOMAIN got[p] = 1..Len(got[p]) /\ Len(got[p]) \in Nat
    BY <1>1
  <2>2. r \in 1..Len(file) /\ Len(file) \in Nat
    BY <1>1, <1>2
  <2> QED
    BY <1>1, <1>2, <1>3, <2>1, <2>2
<1> HIDE DEF r
<1>5. TypeOK'
  BY <1>1, <1>3, <1>4 DEF ParamsInv, TypeOK
<1>6. OnlyMakersWrite' /\ PiecesNeedFile' /\ WriterHasFile' /\ FullLength'
  BY <1>1, <1>3
     DEF ParamsInv, OnlyMakersWrite, PiecesNeedFile, WriterHasFile, FullLength, Writing
<1>7. OneSet'
  <2> SUFFICES ASSUME AllSeeded, NEW q \in Callers, NEW k \in DOMAIN got'[q]
               PROVE  got'[q][k] \in {Hole, "seed"}
    BY <1>1 DEF ParamsInv, OneSet, AllSeeded
  <2>1. CASE q = p
    BY <1>2, <1>4, <2>1 DEF ParamsInv, OneSet
  <2>2. CASE q # p
    BY <1>3, <2>2 DEF ParamsInv, OneSet
  <2> QED
    BY <2>1, <2>2
<1>8. NoHoles'
  <2> SUFFICES ASSUME ~ overlap, NEW q \in Callers, NEW k \in DOMAIN got'[q]
               PROVE  got'[q][k] # Hole
    BY <1>1 DEF ParamsInv, NoHoles, Writing
  <2>1. CASE q = p
    BY <1>2, <1>4, <2>1 DEF ParamsInv, NoHoles
  <2>2. CASE q # p
    BY <1>3, <2>2 DEF ParamsInv, NoHoles
  <2> QED
    BY <2>1, <2>2
<1>9. StillToCome'
  BY <1>1 DEF ParamsInv, StillToCome, Writing
<1>10. NothingYet'
  BY <1>1, <1>3 DEF ParamsInv, NothingYet
<1>11. OneContent'
  <2> SUFFICES ASSUME ~ overlap
               PROVE  OneContent'
    BY <1>1 DEF OneContent
  <2>1. /\ \E c \in Contents : \A k \in DOMAIN file' : file'[k] = c
        /\ \A q \in Callers : Writing(q)' => \A k \in DOMAIN file' : file'[k] = Origin(q)'
    BY <1>1 DEF ParamsInv, OneContent, Writing, Origin
  <2>2. ASSUME NEW q \in Callers \ disturbed', pc'[q] = "read"
        PROVE  Len(file') = Chunks /\ \A k \in DOMAIN got'[q] : got'[q][k] = file'[k]
    <3>1. Len(file) = Chunks /\ \A k \in DOMAIN got[q] : got[q][k] = file[k]
      BY <1>1, <2>2 DEF ParamsInv, OneContent
    <3>2. CASE q = p
      BY <1>1, <1>4, <3>1, <3>2
    <3>3. CASE q # p
      BY <1>1, <1>3, <3>1, <3>3
    <3> QED
      BY <3>2, <3>3
  <2>3. ASSUME NEW q \in Callers \ disturbed', pc'[q] = "ok"
        PROVE  \E c \in Contents : got'[q] = Full(c)
    BY <1>1, <1>3, <2>3 DEF ParamsInv, OneContent
  <2> QED
    BY <2>1, <2>2, <2>3, Zenon DEF OneContent, Full, Contents
<1> QED
  BY <1>5, <1>6, <1>7, <1>8, <1>9, <1>10, <1>11 DEF ParamsInv

\* Whoever truncates the file has all of it to write.
LEMMA CreateInv ==
  ASSUME ParamsInv, NEW p \in Callers, CreateParams(p)
  PROVE  ParamsInv'
<1>1. /\ pc \in [Callers -> Pcs] /\ pos \in [Callers -> 1..Chunks + 1] /\ Chunks \in Nat
      /\ UNCHANGED <<paramSeed, folder, got, faults>>
  BY ParamsAssumption DEF ParamsInv, TypeOK, CreateParams, Pcs
<1>2. /\ exists' = TRUE /\ file' = <<>>
      /\ overlap' = (overlap \/ \E q \in Callers : Writing(q))
  BY DEF CreateParams
<1>3. /\ pc[p] = "create" /\ pc' = [pc EXCEPT ![p] = "write"]
      /\ pos' = [pos EXCEPT ![p] = 1]
  BY DEF CreateParams, Goto
<1>4. /\ pc' \in [Callers -> Pcs] /\ pos' \in [Callers -> 1..Chunks + 1]
      /\ pc'[p] = "write" /\ pos'[p] = 1
      /\ \A q \in Callers \ {p} : pc'[q] = pc[q] /\ pos'[q] = pos[q]
  BY <1>1, <1>3 DEF Pcs
<1>5. file' \in Seq(Contents) /\ Len(file') = 0 /\ DOMAIN file' = {}
  BY <1>2
<1>6. TypeOK'
  <2>1. disturbed' \subseteq Callers
    BY DEF ParamsInv, TypeOK, CreateParams
  <2> QED
    BY <1>1, <1>2, <1>4, <1>5, <2>1 DEF ParamsInv, TypeOK, Pcs
<1>7. OnlyMakersWrite' /\ PiecesNeedFile' /\ WriterHasFile' /\ FullLength'
  BY <1>1, <1>2, <1>3, <1>4
     DEF ParamsInv, OnlyMakersWrite, PiecesNeedFile, WriterHasFile, FullLength
<1>8. OneSet'
  BY <1>1, <1>5 DEF ParamsInv, OneSet, AllSeeded
<1>11. NothingYet' /\ OneContent'
  <2>1. NothingYet'
    BY <1>1, <1>4 DEF ParamsInv, NothingYet
  <2>2. ASSUME ~ overlap'
        PROVE  /\ \E c \in Contents : \A k \in DOMAIN file' : file'[k] = c
               /\ \A q \in Callers \ disturbed' : pc'[q] # "read"
               /\ \A q \in Callers \ disturbed' : pc'[q] = "ok" =>
                    \E c \in Contents : got'[q] = Full(c)
    <3>1. ~ overlap /\ disturbed' = disturbed \cup {q \in Callers : pc[q] = "read"}
      BY <1>2, <2>2 DEF CreateParams
    <3>2. Hole \in Contents
      BY DEF Contents
    <3> QED
      BY <1>1, <1>4, <1>5, <3>1, <3>2 DEF ParamsInv, OneContent
  <2>3. OneContent'
    BY <1>5, <2>2, Zenon DEF OneContent, Full, Contents
  <2> QED
    BY <2>1, <2>3
<1>9. NoHoles'
  <2> SUFFICES ASSUME ~ overlap'
               PROVE  /\ \A q \in Callers : Writing(q)' => q = p
                      /\ ~ overlap
    BY <1>1, <1>4, <1>5 DEF ParamsInv, NoHoles, Writing
  <2> QED
    BY <1>2, <1>4 DEF Writing
<1>10. StillToCome'
  <2>1. \A k \in 1..Chunks : Writing(p)' /\ pos'[p] <= k
    BY <1>1, <1>4 DEF Writing
  <2> QED
    BY <2>1 DEF StillToCome
<1> QED
  BY <1>6, <1>7, <1>8, <1>9, <1>10, <1>11 DEF ParamsInv

LEMMA WriteInv ==
  ASSUME ParamsInv, NEW p \in Callers, WriteChunk(p)
  PROVE  ParamsInv'
<1> DEFINE j == pos[p]
           end == IF j > Len(file) THEN j ELSE Len(file)
<1>1. /\ pos \in [Callers -> 1..Chunks + 1] /\ Chunks \in Nat
      /\ file \in Seq(Contents) /\ Len(file) \in Nat /\ Len(file) <= Chunks
      /\ UNCHANGED <<paramSeed, folder, exists, pc, got, faults, overlap, disturbed>>
      /\ Writing(p) /\ p \in Makers
  BY ParamsAssumption DEF ParamsInv, TypeOK, WriteChunk, bounds, OnlyMakersWrite, Writing
<1>2. /\ j \in 1..Chunks
      /\ file' = [k \in 1..end |->
           IF k = j THEN Origin(p) ELSE IF k \in DOMAIN file THEN file[k] ELSE Hole]
      /\ pos' = [pos EXCEPT ![p] = j + 1]
  BY <1>1 DEF WriteChunk
<1>3. /\ pos' \in [Callers -> 1..Chunks + 1] /\ pos'[p] = j + 1
      /\ \A q \in Callers \ {p} : pos'[q] = pos[q]
  BY <1>1, <1>2
<1>4. Origin(p) \in Contents /\ Origin(p) # Hole /\ (AllSeeded => Origin(p) = "seed")
  BY <1>1, OriginContent DEF ParamsInv
<1>5. DOMAIN file = 1..Len(file) /\ \A k \in DOMAIN file : file[k] \in Contents
  BY <1>1
<1>6. end \in 1..Chunks /\ j <= end /\ Len(file) <= end
  BY <1>1, <1>2
<1>7. /\ DOMAIN file' = 1..end
      /\ file'[j] = Origin(p)
      /\ \A k \in 1..end : k # j =>
           file'[k] = IF k \in DOMAIN file THEN file[k] ELSE Hole
  <2> HIDE DEF end
  <2> QED
    BY <1>2, <1>6
<1>8. file' \in Seq(Contents) /\ Len(file') = end
  <2> HIDE DEF end
  <2>1. Hole \in Contents
    BY DEF Contents
  <2>2. \A k \in 1..end : file'[k] \in Contents
    BY <1>4, <1>5, <1>7, <2>1
  <2>3. file' \in [1..end -> Contents]
    BY <1>2, <1>7, <2>2
  <2> QED
    BY <1>6, <2>3
<1> HIDE DEF end
<1>9. TypeOK'
  BY <1>1, <1>3, <1>6, <1>8 DEF ParamsInv, TypeOK
<1>10. OnlyMakersWrite' /\ WriterHasFile' /\ FullLength'
  BY <1>1 DEF ParamsInv, OnlyMakersWrite, WriterHasFile, FullLength, Writing
<1>11. PiecesNeedFile'
  <2>1. exists
    BY <1>1 DEF ParamsInv, WriterHasFile
  <2> QED
    BY <1>1, <2>1 DEF PiecesNeedFile
<1>12. OneSet'
  <2> SUFFICES ASSUME AllSeeded, NEW k \in 1..end
               PROVE  file'[k] \in {Hole, "seed"}
    BY <1>1, <1>7 DEF ParamsInv, OneSet, AllSeeded
  <2> QED
    BY <1>4, <1>7 DEF ParamsInv, OneSet
<1>13. NoHoles'
  <2> SUFFICES ASSUME ~ overlap
               PROVE  /\ \A q \in Callers : Writing(q) => pos'[q] = Len(file') + 1
                      /\ \A k \in 1..end : file'[k] # Hole
    BY <1>1, <1>7 DEF ParamsInv, NoHoles, Writing
  <2>1. j = Len(file) + 1 /\ \A q \in Callers : Writing(q) => q = p
    BY <1>1 DEF ParamsInv, NoHoles
  <2>2. end = j
    BY <1>1, <2>1 DEF end
  <2>3. \A k \in 1..end : k # j => k \in DOMAIN file
    BY <1>1, <1>5, <2>1, <2>2
  <2> QED
    BY <1>3, <1>4, <1>7, <1>8, <2>1, <2>2, <2>3 DEF ParamsInv, NoHoles
<1>14. StillToCome'
  <2> SUFFICES ASSUME exists, faults = 0, NEW k \in 1..Chunks
               PROVE  \/ k \in DOMAIN file' /\ file'[k] # Hole
                      \/ \E q \in Callers : Writing(q) /\ pos'[q] <= k
    BY <1>1 DEF StillToCome, Writing
  <2>1. CASE k = j
    BY <1>4, <1>6, <1>7, <2>1
  <2>2. CASE k # j /\ k \in DOMAIN file /\ file[k] # Hole
    <3>1. k \in 1..end
      BY <1>1, <1>5, <1>6, <2>2
    <3> QED
      BY <1>7, <2>2, <3>1
  <2>3. ASSUME k # j, NEW q \in Callers, Writing(q), pos[q] <= k
        PROVE  Writing(q) /\ pos'[q] <= k
    <3>1. CASE q = p
      BY <1>2, <1>3, <2>3, <3>1
    <3>2. CASE q # p
      BY <1>3, <2>3, <3>2
    <3> QED
      BY <3>1, <3>2
  <2> QED
    BY <2>1, <2>2, <2>3 DEF ParamsInv, StillToCome
<1>15. NothingYet'
  BY <1>1 DEF ParamsInv, NothingYet
<1>16. OneContent'
  <2> SUFFICES ASSUME ~ overlap
               PROVE  OneContent'
    BY <1>1 DEF OneContent
  <2>1. j = Len(file) + 1 /\ \A q \in Callers : Writing(q) => q = p
    BY <1>1 DEF ParamsInv, NoHoles
  <2>2. \A k \in DOMAIN file : file[k] = Origin(p)
    BY <1>1 DEF ParamsInv, OneContent
  <2>3. end = j
    BY <1>1, <2>1 DEF end
  <2>4. \A k \in DOMAIN file' : file'[k] = Origin(p)
    BY <1>1, <1>5, <1>7, <2>1, <2>2, <2>3
  <2>5. Origin(p)' = Origin(p)
    BY <1>1 DEF Origin
  <2>6. \A q \in Callers : Writing(q)' => \A k \in DOMAIN file' : file'[k] = Origin(q)'
    BY <1>1, <2>1, <2>4, <2>5 DEF Writing
  <2>7. \E c \in Contents : \A k \in DOMAIN file' : file'[k] = c
    BY <1>4, <2>4
  <2>8. Len(file) # Chunks
    BY <1>1, <1>2, <2>1
  <2>9. /\ \A q \in Callers \ disturbed' : pc'[q] # "read"
        /\ \A q \in Callers \ disturbed' : pc'[q] = "ok" => \E c \in Contents : got'[q] = Full(c)
    BY <1>1, <2>8 DEF ParamsInv, OneContent
  <2> QED
    BY <2>6, <2>7, <2>9, Zenon DEF OneContent, Full, Contents
<1> QED
  BY <1>9, <1>10, <1>11, <1>12, <1>13, <1>14, <1>15, <1>16 DEF ParamsInv

\* A writer is done once every piece is behind it.
LEMMA DoneInv ==
  ASSUME ParamsInv, NEW p \in Callers, WriteDone(p)
  PROVE  ParamsInv'
<1>1. /\ pc \in [Callers -> Pcs] /\ got \in [Callers -> Seq(Contents)]
      /\ pos \in [Callers -> 1..Chunks + 1] /\ Chunks \in Nat
      /\ UNCHANGED <<paramSeed, folder, exists, file, pos, faults, overlap, disturbed>>
      /\ Writing(p) /\ p \in Makers /\ pos[p] > Chunks
  BY ParamsAssumption
     DEF ParamsInv, TypeOK, WriteDone, Goto, disk, bounds, Pcs, OnlyMakersWrite, Writing
<1>2. /\ pc' = [pc EXCEPT ![p] = "ok"]
      /\ got' = [got EXCEPT ![p] = Full(Origin(p))]
  BY DEF WriteDone, Goto
<1>3. Origin(p) \in Contents /\ Origin(p) # Hole /\ (AllSeeded => Origin(p) = "seed")
  BY <1>1, OriginContent DEF ParamsInv
<1>4. /\ Full(Origin(p)) \in Seq(Contents) /\ Len(Full(Origin(p))) = Chunks
      /\ DOMAIN Full(Origin(p)) = 1..Chunks
      /\ \A k \in 1..Chunks : Full(Origin(p))[k] = Origin(p)
  BY <1>3, FullContent
<1> HIDE DEF Full
<1>5. /\ pc' \in [Callers -> Pcs] /\ pc'[p] = "ok"
      /\ \A q \in Callers \ {p} : pc'[q] = pc[q]
      /\ got' \in [Callers -> Seq(Contents)] /\ got'[p] = Full(Origin(p))
      /\ \A q \in Callers \ {p} : got'[q] = got[q]
  BY <1>1, <1>2, <1>4 DEF Pcs
<1>6. \A q \in Callers : Writing(q)' <=> Writing(q) /\ q # p
  BY <1>5 DEF Writing
<1>7. TypeOK'
  <2>1. \A q \in Callers : Len(got'[q]) <= Chunks
    <3> SUFFICES ASSUME NEW q \in Callers
                 PROVE  Len(got'[q]) <= Chunks
      OBVIOUS
    <3>1. CASE q = p
      BY <1>1, <1>4, <1>5, <3>1
    <3>2. CASE q # p
      BY <1>5, <3>2 DEF ParamsInv, TypeOK
    <3> QED
      BY <3>1, <3>2
  <2> QED
    BY <1>1, <1>5, <2>1 DEF ParamsInv, TypeOK, Pcs
<1>8. OnlyMakersWrite' /\ PiecesNeedFile' /\ FullLength' /\ WriterHasFile'
  BY <1>1, <1>4, <1>5
     DEF ParamsInv, OnlyMakersWrite, PiecesNeedFile, FullLength, WriterHasFile, Writing
<1>9. OneSet'
  <2> SUFFICES ASSUME AllSeeded, NEW q \in Callers, NEW k \in DOMAIN got'[q]
               PROVE  got'[q][k] \in {Hole, "seed"}
    BY <1>1 DEF ParamsInv, OneSet, AllSeeded
  <2> QED
    BY <1>3, <1>4, <1>5 DEF ParamsInv, OneSet
<1>10. NoHoles'
  <2> SUFFICES ASSUME ~ overlap
               PROVE  \A q \in Callers : \A k \in DOMAIN got'[q] : got'[q][k] # Hole
    BY <1>1, <1>6 DEF ParamsInv, NoHoles
  <2> QED
    BY <1>3, <1>4, <1>5 DEF ParamsInv, NoHoles
<1>11. StillToCome'
  <2>1. \A k \in 1..Chunks : ~ pos[p] <= k
    BY <1>1
  <2> QED
    BY <1>1, <1>6, <2>1 DEF ParamsInv, StillToCome
<1>12. NothingYet'
  BY <1>5 DEF ParamsInv, NothingYet
<1>13. OneContent'
  <2> SUFFICES ASSUME ~ overlap
               PROVE  OneContent'
    BY <1>1 DEF OneContent
  <2>1. /\ \E c \in Contents : \A k \in DOMAIN file' : file'[k] = c
        /\ \A q \in Callers : Writing(q)' => \A k \in DOMAIN file' : file'[k] = Origin(q)'
    BY <1>1, <1>6 DEF ParamsInv, OneContent, Origin
  <2>2. \A q \in Callers \ disturbed' : pc'[q] = "read" =>
          Len(file') = Chunks /\ \A k \in DOMAIN got'[q] : got'[q][k] = file'[k]
    BY <1>1, <1>5 DEF ParamsInv, OneContent
  <2>3. ASSUME NEW q \in Callers \ disturbed', pc'[q] = "ok"
        PROVE  \E c \in Contents : got'[q] = Full(c)
    <3>1. CASE q = p
      BY <1>3, <1>5, <3>1
    <3>2. CASE q # p
      <4>1. q \in Callers \ disturbed /\ pc[q] = "ok" /\ got'[q] = got[q]
        BY <1>1, <1>5, <2>3, <3>2
      <4> QED
        BY <4>1 DEF ParamsInv, OneContent
    <3> QED
      BY <3>1, <3>2
  <2> QED
    BY <2>1, <2>2, <2>3, Zenon DEF OneContent, Full, Contents
<1> QED
  BY <1>7, <1>8, <1>9, <1>10, <1>11, <1>12, <1>13 DEF ParamsInv

\* A caller that is out has nothing; one that died may leave a partial file.
LEMMA OutInv ==
  ASSUME ParamsInv, NEW p \in Callers, Return(p) \/ Die(p)
  PROVE  ParamsInv'
<1>1. /\ pc \in [Callers -> Pcs] /\ got \in [Callers -> Seq(Contents)]
      /\ pos \in [Callers -> 1..Chunks + 1] /\ Chunks \in Nat
      /\ faults \in 0..MaxFaults /\ MaxFaults \in Nat
      /\ UNCHANGED <<paramSeed, folder, exists, file, overlap>>
      /\ disturbed' = disturbed \ {p}
  BY ParamsAssumption DEF ParamsInv, TypeOK, Return, Die, Leave, disk, Pcs
<1>2. /\ pc' = [pc EXCEPT ![p] = "out"]
      /\ pos' = [pos EXCEPT ![p] = 1]
      /\ got' = [got EXCEPT ![p] = <<>>]
      /\ \/ faults' = faults /\ pc[p] # "write"
         \/ faults < MaxFaults /\ faults' = faults + 1
  BY DEF Return, Die, Leave
<1>3. /\ pc' \in [Callers -> Pcs] /\ pc'[p] = "out"
      /\ \A q \in Callers \ {p} : pc'[q] = pc[q]
      /\ got' \in [Callers -> Seq(Contents)] /\ got'[p] = <<>>
      /\ \A q \in Callers \ {p} : got'[q] = got[q]
      /\ pos' \in [Callers -> 1..Chunks + 1]
      /\ \A q \in Callers \ {p} : pos'[q] = pos[q]
  BY <1>1, <1>2 DEF Pcs
<1>4. faults' \in 0..MaxFaults /\ (faults' = 0 => faults = 0 /\ pc[p] # "write")
  BY <1>1, <1>2
<1>5. \A q \in Callers : Writing(q)' <=> Writing(q) /\ q # p
  BY <1>3 DEF Writing
<1>6. TypeOK'
  <2>1. \A q \in Callers : Len(got'[q]) <= Chunks
    <3> SUFFICES ASSUME NEW q \in Callers
                 PROVE  Len(got'[q]) <= Chunks
      OBVIOUS
    <3>1. CASE q = p
      BY <1>1, <1>3, <3>1
    <3>2. CASE q # p
      BY <1>3, <3>2 DEF ParamsInv, TypeOK
    <3> QED
      BY <3>1, <3>2
  <2> QED
    BY <1>1, <1>3, <1>4, <2>1 DEF ParamsInv, TypeOK, Pcs
<1>7. OnlyMakersWrite' /\ PiecesNeedFile' /\ FullLength' /\ WriterHasFile'
  BY <1>1, <1>3
     DEF ParamsInv, OnlyMakersWrite, PiecesNeedFile, FullLength, WriterHasFile, Writing
<1>8. OneSet'
  <2> SUFFICES ASSUME AllSeeded, NEW q \in Callers, NEW k \in DOMAIN got'[q]
               PROVE  got'[q][k] \in {Hole, "seed"}
    BY <1>1 DEF ParamsInv, OneSet, AllSeeded
  <2>1. q # p /\ got'[q] = got[q]
    BY <1>3
  <2> QED
    BY <2>1 DEF ParamsInv, OneSet
<1>9. NoHoles'
  <2>1. \A q \in Callers : Writing(q)' => Writing(q) /\ pos'[q] = pos[q]
    BY <1>3, <1>5
  <2>2. \A q \in Callers : \A k \in DOMAIN got'[q] : q # p /\ got'[q] = got[q]
    BY <1>3
  <2> QED
    BY <1>1, <2>1, <2>2 DEF ParamsInv, NoHoles
<1>10. StillToCome'
  <2> SUFFICES ASSUME exists, faults' = 0, NEW k \in 1..Chunks
               PROVE  \/ k \in DOMAIN file /\ file[k] # Hole
                      \/ \E q \in Callers : Writing(q)' /\ pos'[q] <= k
    BY <1>1 DEF StillToCome
  <2>1. faults = 0 /\ ~ Writing(p)
    BY <1>4 DEF Writing
  <2>2. \A q \in Callers : Writing(q) => Writing(q)' /\ pos'[q] = pos[q]
    BY <1>3, <1>5, <2>1
  <2> QED
    BY <2>1, <2>2 DEF ParamsInv, StillToCome
<1>11. NothingYet'
  BY <1>3 DEF ParamsInv, NothingYet
<1>12. OneContent'
  <2> SUFFICES ASSUME ~ overlap
               PROVE  OneContent'
    BY <1>1 DEF OneContent
  <2>1. /\ \E c \in Contents : \A k \in DOMAIN file' : file'[k] = c
        /\ \A q \in Callers : Writing(q)' => \A k \in DOMAIN file' : file'[k] = Origin(q)'
    BY <1>1, <1>5 DEF ParamsInv, OneContent, Origin
  <2>2. ASSUME NEW q \in Callers \ disturbed', pc'[q] \in {"read", "ok"}
        PROVE  q \in Callers \ disturbed /\ pc[q] = pc'[q] /\ got'[q] = got[q]
    BY <1>1, <1>3, <2>2
  <2>3. \A q \in Callers \ disturbed' : pc'[q] = "read" =>
          Len(file') = Chunks /\ \A k \in DOMAIN got'[q] : got'[q][k] = file'[k]
    BY <1>1, <2>2 DEF ParamsInv, OneContent
  <2>4. \A q \in Callers \ disturbed' : pc'[q] = "ok" => \E c \in Contents : got'[q] = Full(c)
    BY <2>2 DEF ParamsInv, OneContent
  <2> QED
    BY <2>1, <2>3, <2>4, Zenon DEF OneContent, Full, Contents
<1> QED
  BY <1>6, <1>7, <1>8, <1>9, <1>10, <1>11, <1>12 DEF ParamsInv

LEMMA ParamsInit == Init => ParamsInv
<1> SUFFICES ASSUME Init
             PROVE  ParamsInv
  OBVIOUS
<1>1. TypeOK
  <2>1. <<>> \in Seq(Contents) /\ Len(<<>>) = 0
    OBVIOUS
  <2>2. /\ pos \in [Callers -> 1..Chunks + 1] /\ faults \in 0..MaxFaults
        /\ Len(<<>>) <= Chunks
    BY <2>1, ParamsAssumption DEF Init
  <2>3. got \in [Callers -> Seq(Contents)] /\ \A p \in Callers : got[p] = <<>>
    BY <2>1 DEF Init
  <2> QED
    BY <2>1, <2>2, <2>3 DEF Init, TypeOK
<1>2. OnlyMakersWrite /\ PiecesNeedFile /\ FullLength /\ WriterHasFile /\ StillToCome
  BY DEF Init, OnlyMakersWrite, PiecesNeedFile, FullLength, WriterHasFile, StillToCome, Writing
<1>3. OneSet /\ NoHoles /\ NothingYet
  BY DEF Init, OneSet, NoHoles, NothingYet, Writing
<1>4. OneContent
  BY DEF Init, OneContent, Contents, Writing
<1> QED
  BY <1>1, <1>2, <1>3, <1>4 DEF ParamsInv

LEMMA ParamsNext == ParamsInv /\ [Next]_vars => ParamsInv'
<1> SUFFICES ASSUME ParamsInv, [Next]_vars
             PROVE  ParamsInv'
  OBVIOUS
<1>1. CASE UNCHANGED vars
  BY <1>1 DEF vars, ParamsInv, TypeOK, OnlyMakersWrite, PiecesNeedFile, FullLength,
              WriterHasFile, OneSet, AllSeeded, NoHoles, NothingYet, OneContent, Origin,
              StillToCome, Writing
<1>2. CASE Next
  BY <1>2, MovingSteps, MovesInv, ReadInv, CreateInv, WriteInv, DoneInv, OutInv
     DEF Next, CallerStep, Load, Create
<1> QED
  BY <1>1, <1>2

LEMMA ParamsInvariant == Spec => []ParamsInv
BY ParamsInit, ParamsNext, PTL DEF Spec

-----------------------------------------------------------------------------
(* The theorems.                                                           *)

(***************************************************************************)
(* The file never grows past its full length, nor do the parameters that a *)
(* caller reads from it.                                                   *)
(***************************************************************************)
THEOREM ParamsTypeCorrect == Spec => []TypeOK
<1>1. ParamsInv => TypeOK
  BY DEF ParamsInv
<1> QED
  BY <1>1, ParamsInvariant, PTL

(***************************************************************************)
(* Readers, writers and deaths in any order: as long as no two writers     *)
(* have met, whoever gets parameters gets the full length, with no hole,   *)
(* and those of one maker if nobody truncated the file under its read.     *)
(***************************************************************************)
THEOREM WholeUnlessOverlapHolds == Spec => []WholeUnlessOverlap
<1>1. ParamsInv => WholeUnlessOverlap
  <2> SUFFICES ASSUME ParamsInv, ~ overlap, NEW p \in Callers, pc[p] = "ok"
               PROVE  /\ Len(got[p]) = Chunks
                      /\ \A k \in 1..Chunks : got[p][k] # Hole
                      /\ p \notin disturbed => \E c \in Contents : got[p] = Full(c)
                      /\ AllSeeded => got[p] = Full("seed")
    BY DEF WholeUnlessOverlap
  <2>1. got[p] \in Seq(Contents) /\ Len(got[p]) = Chunks
    BY DEF ParamsInv, TypeOK, FullLength
  <2>2. DOMAIN got[p] = 1..Chunks /\ got[p] = [k \in 1..Chunks |-> got[p][k]]
    BY <2>1
  <2>3. \A k \in 1..Chunks : got[p][k] # Hole
    BY <2>2 DEF ParamsInv, NoHoles
  <2>4. ASSUME AllSeeded
        PROVE  got[p] = Full("seed")
    <3>1. \A k \in 1..Chunks : got[p][k] = "seed"
      BY <2>2, <2>3, <2>4 DEF ParamsInv, OneSet
    <3> QED
      BY <2>2, <3>1 DEF Full
  <2>5. p \notin disturbed => \E c \in Contents : got[p] = Full(c)
    BY DEF ParamsInv, OneContent
  <2> QED
    BY <2>1, <2>3, <2>4, <2>5
<1> QED
  BY <1>1, ParamsInvariant, PTL

(***************************************************************************)
(* Makers that nobody interrupts leave a whole file between them, however  *)
(* often they truncate each other's: the last to do so writes all of it.   *)
(***************************************************************************)
THEOREM SettledIsWholeHolds == Spec => []SettledIsWhole
<1>1. ParamsInv => SettledIsWhole
  <2> SUFFICES ASSUME ParamsInv, exists, faults = 0, ~ \E p \in Callers : Writing(p)
               PROVE  /\ Len(file) = Chunks
                      /\ \A k \in DOMAIN file : file[k] # Hole
                      /\ AllSeeded => file = Full("seed")
    BY DEF SettledIsWhole
  <2>1. /\ file \in Seq(Contents) /\ Len(file) \in Nat /\ Len(file) <= Chunks
        /\ Chunks \in Nat \ {0}
    BY ParamsAssumption DEF ParamsInv, TypeOK
  <2>2. \A k \in 1..Chunks : k \in DOMAIN file /\ file[k] # Hole
    BY DEF ParamsInv, StillToCome
  <2>3. Len(file) = Chunks
    <3>1. Chunks \in 1..Len(file)
      BY <2>1, <2>2
    <3> QED
      BY <2>1, <3>1
  <2>4. DOMAIN file = 1..Chunks /\ file = [k \in 1..Chunks |-> file[k]]
    BY <2>1, <2>3
  <2>5. ASSUME AllSeeded
        PROVE  file = Full("seed")
    <3>1. \A k \in 1..Chunks : file[k] = "seed"
      BY <2>2, <2>4, <2>5 DEF ParamsInv, OneSet
    <3> QED
      BY <2>4, <3>1 DEF Full
  <2> QED
    BY <2>2, <2>3, <2>4, <2>5
<1> QED
  BY <1>1, ParamsInvariant, PTL

(***************************************************************************)
(* A whole file that no maker is about to make stays as it is for good:    *)
(* nobody finds it missing, of another length, or at its end too early.    *)
(***************************************************************************)
THEOREM SettledForGoodHolds == Spec => SettledForGood
<1>1. ASSUME ParamsInv, Settled, [Next]_vars
      PROVE  Settled' /\ file' = file
  <2>1. PICK c \in Contents \ {Hole} : file = Full(c)
    BY <1>1 DEF Settled
  <2>2. Len(file) = Chunks /\ DOMAIN file = 1..Chunks /\ exists
    <3>1. Chunks \in Nat \ {0} /\ file \in Seq(Contents)
      BY <1>1, ParamsAssumption DEF ParamsInv, TypeOK
    <3>2. DOMAIN file = 1..Chunks
      BY <2>1 DEF Full
    <3>3. Len(file) = Chunks
      BY <3>1, <3>2
    <3>4. file # <<>>
      BY <3>1, <3>3
    <3> QED
      BY <1>1, <3>2, <3>3, <3>4 DEF ParamsInv, PiecesNeedFile
  <2>3. pc \in [Callers -> Pcs] /\ \A q \in Callers : pc[q] \notin {"create", "write"}
    BY <1>1 DEF ParamsInv, TypeOK, Pcs, OnlyMakersWrite, Settled
  <2> SUFFICES file' = file /\ \A q \in Makers : pc'[q] \notin {"create", "write"}
    BY <1>1 DEF Settled, Contents
  <2>4. CASE UNCHANGED vars
    BY <2>3, <2>4 DEF vars, Callers
  <2>5. ASSUME NEW p \in Callers,
               \/ FolderIsFile(p) \/ CheckFolder(p) \/ CallLoad(p)
               \/ CallerStep(p) \/ Return(p) \/ Die(p)
        PROVE  /\ file' = file
               /\ \E to \in Pcs \ {"create", "write"} :
                    pc' = pc \/ pc' = [pc EXCEPT ![p] = to]
    <3>1. ~ Create(p) /\ ~ FileMissing(p) /\ ~ LengthWrong(p) /\ ~ ReadEof(p)
      BY <2>2, <2>3 DEF Create, SeedTooShort, CreateParams, WriteChunk, WriteDone, Writing,
                        Goto, FileMissing, LengthWrong, ReadEof, Eof
    <3>2. \/ FolderIsFile(p) \/ CheckFolder(p) \/ CallLoad(p) \/ FileExists(p)
          \/ LengthRight(p) \/ ReadChunk(p) \/ ReadPanics(p) \/ ReadDone(p)
          \/ Return(p) \/ Die(p)
      BY <2>5, <3>1 DEF CallerStep, Load
    <3> QED
      BY <3>2 DEF FolderIsFile, CheckFolder, CallLoad, FileExists, LengthRight, ReadChunk,
                  ReadPanics, ReadDone, Return, Die, Leave, Goto, disk, Pcs
  <2>6. CASE Next
    BY <2>3, <2>5, <2>6 DEF Next, Callers
  <2> QED
    BY <1>1, <2>4, <2>6
<1>2. ParamsInv /\ [Next]_vars => [Settled => Settled' /\ file' = file]_vars
  BY <1>1
<1>3. SettledForGood <=> [][Settled => Settled' /\ file' = file]_vars
  BY DEF SettledForGood
<1> QED
  BY <1>2, <1>3, ParamsInvariant, PTL DEF Spec
=============================================================================
