------------------------- MODULE FileIOAtomic_proofs -------------------------
(***************************************************************************)
(* Proofs about FileIOAtomic for every value of its constants: the type    *)
(* invariant, that Orig always names a complete file, that a reader reads  *)
(* what it opened, that the exchange reports exactly the commits it makes, *)
(* and, on the swap branch or with one writer, that a reported commit is   *)
(* what Orig holds until the next one.                                     *)
(*                                                                         *)
(* Neither holds inductively on its own.  The reader reads data[curr[r]],  *)
(* so the descriptor must be known to name an inode, and the content that  *)
(* a rename or swap puts at Orig is complete only because the one writer   *)
(* that holds the exclusive lock is the only process that touches Temp.    *)
(* IInv states that discipline: which lock each step holds, that locks     *)
(* exclude each other, that the lock holder's temp descriptor is the file  *)
(* Temp names, that Temp and Orig never name the same inode, and that the  *)
(* temp file is complete when the exchange starts.                         *)
(***************************************************************************)
EXTENDS FileIOAtomic, TLAPS

\* The steps at which a writer holds its exclusive lock: from FileIO_Open to
\* the bail's FileIO_Close, and again after the reopen.
WriterHolding ==
  {"tmp", "create", "attrs", "write", "discard", "xchg", "reclose",
    "closecurr"}

\* The steps at which the holder's temp descriptor is the file Temp names.
TempOpen == {"attrs", "write", "xchg"}

LockDiscipline ==
  /\ \A w \in Writers :
       lock[w] = IF pc[w] \in WriterHolding THEN Excl ELSE NoLock
  /\ \A r \in Readers :
       lock[r] = IF pc[r] \in {"read", "close"} THEN Shared ELSE NoLock
  /\ \A p \in Procs : \A q \in Procs \ {p} :
       lock[p] = Excl => lock[q] = NoLock

FileDiscipline ==
  /\ fs[Orig] \in Inodes
  /\ fs[Orig] < nextIno
  /\ fs[Temp] # NoFile => fs[Temp] < nextIno /\ fs[Temp] # fs[Orig]
  /\ \A w \in Writers :
       pc[w] \in TempOpen => temp[w] = fs[Temp] /\ temp[w] # NoFile
  /\ \A w \in Writers : pc[w] = "xchg" => data[temp[w]] = w
  /\ \A r \in Readers : pc[r] = "read" => curr[r] \in Inodes

StepDiscipline ==
  /\ \A w \in Writers : pc[w] \in WriterPCs
  /\ \A r \in Readers : pc[r] \in ReaderPCs
  /\ \A p \in Procs : pc[p] # "idle" => ops[p] < MaxOps

IInv ==
  /\ TypeOK
  /\ StepDiscipline
  /\ LockDiscipline
  /\ FileDiscipline
  /\ OrigIntact

-----------------------------------------------------------------------------
\* The temp path differs from the original: Unicode_Join appended a piece.
LEMMA TempNotOrig == Temp # Orig
  BY DEF Temp, Orig, FileIOAtomicTempPath

\* The sets of steps of writers and readers share only "idle".
LEMMA PCsApart == WriterPCs \cap ReaderPCs = {"idle"}
  BY DEF WriterPCs, ReaderPCs

USE ConstantsAssumption, TempNotOrig, PCsApart

LEMMA InitIInv == Init => IInv
  BY DEF Init, IInv, TypeOK, StepDiscipline, LockDiscipline, FileDiscipline,
         OrigIntact, OrigContent, Paths, Inodes, Contents, LockModes,
         WriterPCs, ReaderPCs, NoFile, V0, Empty, WriterHolding, TempOpen,
         Procs

\* Every step of every process keeps IInv.
LEMMA NextIInv == IInv /\ [Next]_vars => IInv'
<1> SUFFICES ASSUME TypeOK, StepDiscipline, LockDiscipline, FileDiscipline,
                    OrigIntact, [Next]_vars
             PROVE  IInv'
  BY DEF IInv
<1> USE DEF NoFile, Excl, Shared, NoLock, V0, Partial, Empty, Procs, Inodes,
           Contents, LockModes, WriterPCs, ReaderPCs, WriterHolding, TempOpen,
           At, GoTo, Finish, Fails
<1>1. ASSUME NEW w \in Writers, OpenCurr(w) PROVE IInv'
  <2> USE <1>1 DEF OpenCurr, LockGranted, LockRefused, OpenFails, LockModeOf
  <2>1. CASE LockGranted(w) /\ curr' = [curr EXCEPT ![w] = fs[Orig]]
             /\ GoTo(w, "tmp") /\ UNCHANGED ops
    <3>1. TypeOK'
      BY <2>1 DEF TypeOK, Paths, FileDiscipline, StepDiscipline
    <3>2. StepDiscipline'
      BY <2>1 DEF StepDiscipline, TypeOK
    <3>3. LockDiscipline'
      BY <2>1 DEF LockDiscipline, TypeOK, StepDiscipline, Compatible,
                  TokensAllow, OrphansAllow
    <3>4. FileDiscipline'
      BY <2>1 DEF FileDiscipline, LockDiscipline, TypeOK, StepDiscipline, Paths
    <3>5. OrigIntact'
      BY <2>1 DEF OrigIntact, OrigContent, FileDiscipline, TypeOK, Paths
    <3>6. QED
      BY <3>1, <3>2, <3>3, <3>4, <3>5 DEF IInv
  <2>2. CASE (LockRefused(w) \/ OpenFails(w)) /\ Finish(w) /\ UNCHANGED curr
    <3>1. TypeOK'
      BY <2>2 DEF TypeOK, Paths, FileDiscipline, StepDiscipline
    <3>2. StepDiscipline'
      BY <2>2 DEF StepDiscipline, TypeOK
    <3>3. LockDiscipline'
      BY <2>2 DEF LockDiscipline, TypeOK, StepDiscipline, Compatible,
                  TokensAllow, OrphansAllow
    <3>4. FileDiscipline'
      BY <2>2 DEF FileDiscipline, LockDiscipline, TypeOK, StepDiscipline, Paths
    <3>5. OrigIntact'
      BY <2>2 DEF OrigIntact, OrigContent, FileDiscipline, TypeOK, Paths
    <3>6. QED
      BY <3>1, <3>2, <3>3, <3>4, <3>5 DEF IInv
  <2>3. QED
    BY <2>1, <2>2
<1>2. ASSUME NEW w \in Writers, TempPrepare(w) PROVE IInv'
  <2> USE <1>2 DEF TempPrepare
  <2>1. CASE (Fails("fullpath") \/ Fails("fstat")) /\ GoTo(w, "closecurr")
             /\ UNCHANGED fs
    <3>1. TypeOK'
      BY <2>1 DEF TypeOK, Paths, FileDiscipline, StepDiscipline
    <3>2. StepDiscipline'
      BY <2>1 DEF StepDiscipline, TypeOK
    <3>3. LockDiscipline'
      BY <2>1 DEF LockDiscipline, TypeOK, StepDiscipline, Compatible,
                  TokensAllow, OrphansAllow
    <3>4. FileDiscipline'
      BY <2>1 DEF FileDiscipline, LockDiscipline, TypeOK, StepDiscipline, Paths
    <3>5. OrigIntact'
      BY <2>1 DEF OrigIntact, OrigContent, FileDiscipline, TypeOK, Paths
    <3>6. QED
      BY <3>1, <3>2, <3>3, <3>4, <3>5 DEF IInv
  <2>2. CASE fs' = [fs EXCEPT ![Temp] = NoFile] /\ GoTo(w, "create")
    <3>1. TypeOK'
      BY <2>2 DEF TypeOK, Paths, FileDiscipline, StepDiscipline
    <3>2. StepDiscipline'
      BY <2>2 DEF StepDiscipline, TypeOK
    <3>3. LockDiscipline'
      BY <2>2 DEF LockDiscipline, TypeOK, StepDiscipline, Compatible,
                  TokensAllow, OrphansAllow
    <3>4. FileDiscipline'
      BY <2>2 DEF FileDiscipline, LockDiscipline, TypeOK, StepDiscipline, Paths
    <3>5. OrigIntact'
      BY <2>2 DEF OrigIntact, OrigContent, FileDiscipline, TypeOK, Paths
    <3>6. QED
      BY <3>1, <3>2, <3>3, <3>4, <3>5 DEF IInv
  <2>3. QED
    BY <2>1, <2>2
<1>3. ASSUME NEW w \in Writers, TempCreate(w) PROVE IInv'
  <2> USE <1>3 DEF TempCreate
  <2>1. CASE fs[Temp] # NoFile /\ temp' = [temp EXCEPT ![w] = fs[Temp]]
             /\ GoTo(w, "attrs") /\ UNCHANGED <<fs, nextIno>>
    <3>1. TypeOK'
      BY <2>1 DEF TypeOK, Paths, FileDiscipline, StepDiscipline
    <3>2. StepDiscipline'
      BY <2>1 DEF StepDiscipline, TypeOK
    <3>3. LockDiscipline'
      BY <2>1 DEF LockDiscipline, TypeOK, StepDiscipline, Compatible,
                  TokensAllow, OrphansAllow
    <3>4. FileDiscipline'
      BY <2>1 DEF FileDiscipline, LockDiscipline, TypeOK, StepDiscipline, Paths
    <3>5. OrigIntact'
      BY <2>1 DEF OrigIntact, OrigContent, FileDiscipline, TypeOK, Paths
    <3>6. QED
      BY <3>1, <3>2, <3>3, <3>4, <3>5 DEF IInv
  <2>2. CASE fs[Temp] = NoFile /\ nextIno <= MaxInodes
             /\ fs' = [fs EXCEPT ![Temp] = nextIno]
             /\ temp' = [temp EXCEPT ![w] = nextIno] /\ nextIno' = nextIno + 1
             /\ GoTo(w, "attrs")
    <3>1. TypeOK'
      BY <2>2 DEF TypeOK, Paths, FileDiscipline, StepDiscipline
    <3>2. StepDiscipline'
      BY <2>2 DEF StepDiscipline, TypeOK
    <3>3. LockDiscipline'
      BY <2>2 DEF LockDiscipline, TypeOK, StepDiscipline, Compatible,
                  TokensAllow, OrphansAllow
    <3>4. FileDiscipline'
      BY <2>2 DEF FileDiscipline, LockDiscipline, TypeOK, StepDiscipline, Paths
    <3>5. OrigIntact'
      BY <2>2 DEF OrigIntact, OrigContent, FileDiscipline, TypeOK, Paths
    <3>6. QED
      BY <3>1, <3>2, <3>3, <3>4, <3>5 DEF IInv
  <2>3. CASE Fails("create") /\ GoTo(w, "closecurr")
             /\ UNCHANGED <<fs, nextIno, temp>>
    <3>1. TypeOK'
      BY <2>3 DEF TypeOK, Paths, FileDiscipline, StepDiscipline
    <3>2. StepDiscipline'
      BY <2>3 DEF StepDiscipline, TypeOK
    <3>3. LockDiscipline'
      BY <2>3 DEF LockDiscipline, TypeOK, StepDiscipline, Compatible,
                  TokensAllow, OrphansAllow
    <3>4. FileDiscipline'
      BY <2>3 DEF FileDiscipline, LockDiscipline, TypeOK, StepDiscipline, Paths
    <3>5. OrigIntact'
      BY <2>3 DEF OrigIntact, OrigContent, FileDiscipline, TypeOK, Paths
    <3>6. QED
      BY <3>1, <3>2, <3>3, <3>4, <3>5 DEF IInv
  <2>4. QED
    BY <2>1, <2>2, <2>3
<1>4. ASSUME NEW w \in Writers, TempAttrs(w) PROVE IInv'
  <2> USE <1>4 DEF TempAttrs
  <2>1. CASE GoTo(w, "write") /\ UNCHANGED <<fs, temp>>
    <3>1. TypeOK'
      BY <2>1 DEF TypeOK, Paths, FileDiscipline, StepDiscipline
    <3>2. StepDiscipline'
      BY <2>1 DEF StepDiscipline, TypeOK
    <3>3. LockDiscipline'
      BY <2>1 DEF LockDiscipline, TypeOK, StepDiscipline, Compatible,
                  TokensAllow, OrphansAllow
    <3>4. FileDiscipline'
      BY <2>1 DEF FileDiscipline, LockDiscipline, TypeOK, StepDiscipline, Paths
    <3>5. OrigIntact'
      BY <2>1 DEF OrigIntact, OrigContent, FileDiscipline, TypeOK, Paths
    <3>6. QED
      BY <3>1, <3>2, <3>3, <3>4, <3>5 DEF IInv
  <2>2. CASE (Fails("fchmod") \/ Fails("fchown"))
             /\ temp' = [temp EXCEPT ![w] = NoFile]
             /\ fs' = [fs EXCEPT ![Temp] = NoFile] /\ GoTo(w, "closecurr")
    <3>1. TypeOK'
      BY <2>2 DEF TypeOK, Paths, FileDiscipline, StepDiscipline
    <3>2. StepDiscipline'
      BY <2>2 DEF StepDiscipline, TypeOK
    <3>3. LockDiscipline'
      BY <2>2 DEF LockDiscipline, TypeOK, StepDiscipline, Compatible,
                  TokensAllow, OrphansAllow
    <3>4. FileDiscipline'
      BY <2>2 DEF FileDiscipline, LockDiscipline, TypeOK, StepDiscipline, Paths
    <3>5. OrigIntact'
      BY <2>2 DEF OrigIntact, OrigContent, FileDiscipline, TypeOK, Paths
    <3>6. QED
      BY <3>1, <3>2, <3>3, <3>4, <3>5 DEF IInv
  <2>3. QED
    BY <2>1, <2>2
<1>5. ASSUME NEW w \in Writers, WriteTemp(w) PROVE IInv'
  <2> USE <1>5 DEF WriteTemp
  <2>1. CASE data' = [data EXCEPT ![temp[w]] = w] /\ GoTo(w, "xchg")
    <3>1. TypeOK'
      BY <2>1 DEF TypeOK, Paths, FileDiscipline, StepDiscipline
    <3>2. StepDiscipline'
      BY <2>1 DEF StepDiscipline, TypeOK
    <3>3. LockDiscipline'
      BY <2>1 DEF LockDiscipline, TypeOK, StepDiscipline, Compatible,
                  TokensAllow, OrphansAllow
    <3>4. FileDiscipline'
      BY <2>1 DEF FileDiscipline, LockDiscipline, TypeOK, StepDiscipline, Paths
    <3>5. OrigIntact'
      BY <2>1 DEF OrigIntact, OrigContent, FileDiscipline, TypeOK, Paths
    <3>6. QED
      BY <3>1, <3>2, <3>3, <3>4, <3>5 DEF IInv
  <2>2. CASE Fails("write") /\ data' = [data EXCEPT ![temp[w]] = Partial]
             /\ GoTo(w, "discard")
    <3>1. TypeOK'
      BY <2>2 DEF TypeOK, Paths, FileDiscipline, StepDiscipline
    <3>2. StepDiscipline'
      BY <2>2 DEF StepDiscipline, TypeOK
    <3>3. LockDiscipline'
      BY <2>2 DEF LockDiscipline, TypeOK, StepDiscipline, Compatible,
                  TokensAllow, OrphansAllow
    <3>4. FileDiscipline'
      BY <2>2 DEF FileDiscipline, LockDiscipline, TypeOK, StepDiscipline, Paths
    <3>5. OrigIntact'
      BY <2>2 DEF OrigIntact, OrigContent, FileDiscipline, TypeOK, Paths
    <3>6. QED
      BY <3>1, <3>2, <3>3, <3>4, <3>5 DEF IInv
  <2>3. QED
    BY <2>1, <2>2
<1>6. ASSUME NEW w \in Writers, DiscardTemp(w) PROVE IInv'
  <2> USE <1>6 DEF DiscardTemp, FileIO_CloseAndUnlink
  <2>1. TypeOK'
    BY DEF TypeOK, Paths, FileDiscipline, StepDiscipline
  <2>2. StepDiscipline'
    BY DEF StepDiscipline, TypeOK
  <2>3. LockDiscipline'
    BY DEF LockDiscipline, TypeOK, StepDiscipline, Compatible, TokensAllow,
           OrphansAllow
  <2>4. FileDiscipline'
    BY DEF FileDiscipline, LockDiscipline, TypeOK, StepDiscipline, Paths
  <2>5. OrigIntact'
    BY DEF OrigIntact, OrigContent, FileDiscipline, TypeOK, Paths
  <2>6. QED
    BY <2>1, <2>2, <2>3, <2>4, <2>5 DEF IInv
<1>7. ASSUME NEW w \in Writers, ExchangeVMK(w) PROVE IInv'
  <2> USE <1>7 DEF ExchangeVMK
  <2>1. CASE fs[Temp] # NoFile
             /\ data' = [data EXCEPT ![fs[Orig]] = data[fs[Temp]],
               ![fs[Temp]] = data[fs[Orig]]]
             /\ xret' = [xret EXCEPT ![w] = TRUE]
    <3>1. TypeOK'
      <4>1. data' \in [Inodes -> Contents]
        BY <2>1 DEF TypeOK, Paths, FileDiscipline
      <4>2. QED
        BY <2>1, <4>1 DEF TypeOK, StepDiscipline
    <3>2. StepDiscipline'
      BY <2>1 DEF StepDiscipline, TypeOK
    <3>3. LockDiscipline'
      BY <2>1 DEF LockDiscipline, TypeOK, StepDiscipline, Compatible,
                  TokensAllow, OrphansAllow
    <3>4. FileDiscipline'
      BY <2>1 DEF FileDiscipline, LockDiscipline, TypeOK, StepDiscipline, Paths
    <3>5. OrigIntact'
      BY <2>1 DEF OrigIntact, OrigContent, FileDiscipline, TypeOK, Paths
    <3>6. QED
      BY <3>1, <3>2, <3>3, <3>4, <3>5 DEF IInv
  <2>2. CASE Fails("swap") /\ UNCHANGED <<data, xret>>
    <3>1. TypeOK'
      BY <2>2 DEF TypeOK, Paths, FileDiscipline, StepDiscipline
    <3>2. StepDiscipline'
      BY <2>2 DEF StepDiscipline, TypeOK
    <3>3. LockDiscipline'
      BY <2>2 DEF LockDiscipline, TypeOK, StepDiscipline, Compatible,
                  TokensAllow, OrphansAllow
    <3>4. FileDiscipline'
      BY <2>2 DEF FileDiscipline, LockDiscipline, TypeOK, StepDiscipline, Paths
    <3>5. OrigIntact'
      BY <2>2 DEF OrigIntact, OrigContent, FileDiscipline, TypeOK, Paths
    <3>6. QED
      BY <3>1, <3>2, <3>3, <3>4, <3>5 DEF IInv
  <2>3. QED
    BY <2>1, <2>2
<1>8. ASSUME NEW w \in Writers, ExchangeHosted(w) PROVE IInv'
  <2> USE <1>8 DEF ExchangeHosted
  <2>1. TypeOK'
    <3>1. fs' \in [Paths -> Inodes \cup {NoFile}]
      BY DEF TypeOK, Paths, FileDiscipline
    <3>2. QED
      BY <3>1 DEF TypeOK, StepDiscipline
  <2>2. StepDiscipline'
    BY DEF StepDiscipline, TypeOK
  <2>3. LockDiscipline'
    BY DEF LockDiscipline, TypeOK, StepDiscipline, Compatible, TokensAllow,
           OrphansAllow
  <2>4. FileDiscipline'
    BY DEF FileDiscipline, LockDiscipline, TypeOK, StepDiscipline, Paths
  <2>5. OrigIntact'
    BY DEF OrigIntact, OrigContent, FileDiscipline, TypeOK, Paths
  <2>6. QED
    BY <2>1, <2>2, <2>3, <2>4, <2>5 DEF IInv
<1>9. ASSUME NEW w \in Writers, ExchangeReclose(w) PROVE IInv'
  <2> USE <1>9 DEF ExchangeReclose, FileIO_Unlock
  <2>1. TypeOK'
    BY DEF TypeOK, Paths, FileDiscipline, StepDiscipline
  <2>2. StepDiscipline'
    BY DEF StepDiscipline, TypeOK
  <2>3. LockDiscipline'
    BY DEF LockDiscipline, TypeOK, StepDiscipline, Compatible, TokensAllow,
           OrphansAllow
  <2>4. FileDiscipline'
    BY DEF FileDiscipline, LockDiscipline, TypeOK, StepDiscipline, Paths
  <2>5. OrigIntact'
    BY DEF OrigIntact, OrigContent, FileDiscipline, TypeOK, Paths
  <2>6. QED
    BY <2>1, <2>2, <2>3, <2>4, <2>5 DEF IInv
<1>10. ASSUME NEW w \in Writers, ExchangeReopen(w) PROVE IInv'
  <2> USE <1>10 DEF ExchangeReopen, LockGranted, LockRefused, OpenFails,
                    LockModeOf
  <2>1. CASE LockGranted(w) /\ curr' = [curr EXCEPT ![w] = fs[Orig]]
             /\ GoTo(w, "closecurr")
    <3>1. TypeOK'
      BY <2>1 DEF TypeOK, Paths, FileDiscipline, StepDiscipline
    <3>2. StepDiscipline'
      BY <2>1 DEF StepDiscipline, TypeOK
    <3>3. LockDiscipline'
      BY <2>1 DEF LockDiscipline, TypeOK, StepDiscipline, Compatible,
                  TokensAllow, OrphansAllow
    <3>4. FileDiscipline'
      BY <2>1 DEF FileDiscipline, LockDiscipline, TypeOK, StepDiscipline, Paths
    <3>5. OrigIntact'
      BY <2>1 DEF OrigIntact, OrigContent, FileDiscipline, TypeOK, Paths
    <3>6. QED
      BY <3>1, <3>2, <3>3, <3>4, <3>5 DEF IInv
  <2>2. CASE OpenFails(w) /\ UNCHANGED curr /\ GoTo(w, "panic")
    <3>1. TypeOK'
      BY <2>2 DEF TypeOK, Paths, FileDiscipline, StepDiscipline
    <3>2. StepDiscipline'
      BY <2>2 DEF StepDiscipline, TypeOK
    <3>3. LockDiscipline'
      BY <2>2 DEF LockDiscipline, TypeOK, StepDiscipline, Compatible,
                  TokensAllow, OrphansAllow
    <3>4. FileDiscipline'
      BY <2>2 DEF FileDiscipline, LockDiscipline, TypeOK, StepDiscipline, Paths
    <3>5. OrigIntact'
      BY <2>2 DEF OrigIntact, OrigContent, FileDiscipline, TypeOK, Paths
    <3>6. QED
      BY <3>1, <3>2, <3>3, <3>4, <3>5 DEF IInv
  <2>3. CASE LockRefused(w) /\ GoTo(w, "panic") /\ UNCHANGED curr
    <3>1. TypeOK'
      BY <2>3 DEF TypeOK, Paths, FileDiscipline, StepDiscipline
    <3>2. StepDiscipline'
      BY <2>3 DEF StepDiscipline, TypeOK
    <3>3. LockDiscipline'
      BY <2>3 DEF LockDiscipline, TypeOK, StepDiscipline, Compatible,
                  TokensAllow, OrphansAllow
    <3>4. FileDiscipline'
      BY <2>3 DEF FileDiscipline, LockDiscipline, TypeOK, StepDiscipline, Paths
    <3>5. OrigIntact'
      BY <2>3 DEF OrigIntact, OrigContent, FileDiscipline, TypeOK, Paths
    <3>6. QED
      BY <3>1, <3>2, <3>3, <3>4, <3>5 DEF IInv
  <2>4. QED
    BY <2>1, <2>2, <2>3
<1>11. ASSUME NEW w \in Writers, CloseCurr(w) PROVE IInv'
  <2> USE <1>11 DEF CloseCurr, FileIO_Unlock
  <2>1. TypeOK'
    <3>1. orphan' \in [Procs -> LockModes]
      BY DEF TypeOK
    <3>2. QED
      BY <3>1 DEF TypeOK, Paths, FileDiscipline, StepDiscipline
  <2>2. StepDiscipline'
    BY DEF StepDiscipline, TypeOK
  <2>3. LockDiscipline'
    BY DEF LockDiscipline, TypeOK, StepDiscipline, Compatible, TokensAllow,
           OrphansAllow
  <2>4. FileDiscipline'
    BY DEF FileDiscipline, LockDiscipline, TypeOK, StepDiscipline, Paths
  <2>5. OrigIntact'
    BY DEF OrigIntact, OrigContent, FileDiscipline, TypeOK, Paths
  <2>6. QED
    BY <2>1, <2>2, <2>3, <2>4, <2>5 DEF IInv
<1>12. ASSUME NEW w \in Writers, PanicExit(w) PROVE IInv'
  <2> USE <1>12 DEF PanicExit
  <2>1. TypeOK'
    BY DEF TypeOK, Paths, FileDiscipline, StepDiscipline
  <2>2. StepDiscipline'
    BY DEF StepDiscipline, TypeOK
  <2>3. LockDiscipline'
    BY DEF LockDiscipline, TypeOK, StepDiscipline, Compatible, TokensAllow,
           OrphansAllow
  <2>4. FileDiscipline'
    BY DEF FileDiscipline, LockDiscipline, TypeOK, StepDiscipline, Paths
  <2>5. OrigIntact'
    BY DEF OrigIntact, OrigContent, FileDiscipline, TypeOK, Paths
  <2>6. QED
    BY <2>1, <2>2, <2>3, <2>4, <2>5 DEF IInv
<1>13. ASSUME NEW r \in Readers, ReaderOpen(r) PROVE IInv'
  <2> USE <1>13 DEF ReaderOpen, LockGranted, LockRefused, OpenFails, LockModeOf
  <2>1. CASE LockGranted(r) /\ curr' = [curr EXCEPT ![r] = fs[Orig]]
             /\ GoTo(r, "read") /\ UNCHANGED ops
    <3>1. TypeOK'
      BY <2>1 DEF TypeOK, Paths, FileDiscipline, StepDiscipline
    <3>2. StepDiscipline'
      BY <2>1 DEF StepDiscipline, TypeOK
    <3>3. LockDiscipline'
      BY <2>1 DEF LockDiscipline, TypeOK, StepDiscipline, Compatible,
                  TokensAllow, OrphansAllow
    <3>4. FileDiscipline'
      BY <2>1 DEF FileDiscipline, LockDiscipline, TypeOK, StepDiscipline, Paths
    <3>5. OrigIntact'
      BY <2>1 DEF OrigIntact, OrigContent, FileDiscipline, TypeOK, Paths
    <3>6. QED
      BY <3>1, <3>2, <3>3, <3>4, <3>5 DEF IInv
  <2>2. CASE (LockRefused(r) \/ OpenFails(r)) /\ Finish(r) /\ UNCHANGED curr
    <3>1. TypeOK'
      BY <2>2 DEF TypeOK, Paths, FileDiscipline, StepDiscipline
    <3>2. StepDiscipline'
      BY <2>2 DEF StepDiscipline, TypeOK
    <3>3. LockDiscipline'
      BY <2>2 DEF LockDiscipline, TypeOK, StepDiscipline, Compatible,
                  TokensAllow, OrphansAllow
    <3>4. FileDiscipline'
      BY <2>2 DEF FileDiscipline, LockDiscipline, TypeOK, StepDiscipline, Paths
    <3>5. OrigIntact'
      BY <2>2 DEF OrigIntact, OrigContent, FileDiscipline, TypeOK, Paths
    <3>6. QED
      BY <3>1, <3>2, <3>3, <3>4, <3>5 DEF IInv
  <2>3. QED
    BY <2>1, <2>2
<1>14. ASSUME NEW r \in Readers, ReaderRead(r) PROVE IInv'
  <2> USE <1>14 DEF ReaderRead
  <2>1. TypeOK'
    BY DEF TypeOK, Paths, FileDiscipline, StepDiscipline
  <2>2. StepDiscipline'
    BY DEF StepDiscipline, TypeOK
  <2>3. LockDiscipline'
    BY DEF LockDiscipline, TypeOK, StepDiscipline, Compatible, TokensAllow,
           OrphansAllow
  <2>4. FileDiscipline'
    BY DEF FileDiscipline, LockDiscipline, TypeOK, StepDiscipline, Paths
  <2>5. OrigIntact'
    BY DEF OrigIntact, OrigContent, FileDiscipline, TypeOK, Paths
  <2>6. QED
    BY <2>1, <2>2, <2>3, <2>4, <2>5 DEF IInv
<1>15. ASSUME NEW r \in Readers, ReaderClose(r) PROVE IInv'
  <2> USE <1>15 DEF ReaderClose, FileIO_Unlock
  <2>1. TypeOK'
    <3>1. orphan' \in [Procs -> LockModes]
      BY DEF TypeOK
    <3>2. lock' \in [Procs -> LockModes]
      BY DEF TypeOK
    <3>3. curr' \in [Procs -> Inodes \cup {NoFile}]
      BY DEF TypeOK
    <3>4. ops[r] < MaxOps
      BY DEF TypeOK, StepDiscipline
    <3>5. ops' \in [Procs -> 0..MaxOps]
      BY <3>4 DEF TypeOK
    <3>6. QED
      BY <3>1, <3>2, <3>3, <3>5 DEF TypeOK
  <2>2. StepDiscipline'
    BY DEF StepDiscipline, TypeOK
  <2>3. LockDiscipline'
    BY DEF LockDiscipline, TypeOK, StepDiscipline, Compatible, TokensAllow,
           OrphansAllow
  <2>4. FileDiscipline'
    BY DEF FileDiscipline, LockDiscipline, TypeOK, StepDiscipline, Paths
  <2>5. OrigIntact'
    BY DEF OrigIntact, OrigContent, FileDiscipline, TypeOK, Paths
  <2>6. QED
    BY <2>1, <2>2, <2>3, <2>4, <2>5 DEF IInv
<1>16. ASSUME NEW p \in Procs, Crash(p) PROVE IInv'
  <2> USE <1>16 DEF Crash
  <2>1. TypeOK'
    BY DEF TypeOK, Paths, FileDiscipline, StepDiscipline
  <2>2. StepDiscipline'
    BY DEF StepDiscipline, TypeOK
  <2>3. LockDiscipline'
    BY DEF LockDiscipline, TypeOK, StepDiscipline, Compatible, TokensAllow,
           OrphansAllow
  <2>4. FileDiscipline'
    BY DEF FileDiscipline, LockDiscipline, TypeOK, StepDiscipline, Paths
  <2>5. OrigIntact'
    BY DEF OrigIntact, OrigContent, FileDiscipline, TypeOK, Paths
  <2>6. QED
    BY <2>1, <2>2, <2>3, <2>4, <2>5 DEF IInv
<1>17. CASE Done
  BY <1>17 DEF Done, vars, IInv, TypeOK, StepDiscipline, LockDiscipline,
                 FileDiscipline, OrigIntact, OrigContent
<1>18. CASE UNCHANGED vars
  BY <1>18 DEF vars, IInv, TypeOK, StepDiscipline, LockDiscipline,
                 FileDiscipline, OrigIntact, OrigContent
<1>19. QED
  BY <1>1, <1>2, <1>3, <1>4, <1>5, <1>6, <1>7, <1>8, <1>9, <1>10, <1>11,
     <1>12, <1>13, <1>14, <1>15, <1>16, <1>17, <1>18
     DEF Next, Writer, Reader

\* IInv holds in every state of every behaviour.
LEMMA InvariantIInv == Spec => []IInv
  BY InitIInv, NextIInv, PTL DEF Spec

\* Type correctness of FileIOAtomic: every variable keeps its type through
\* every step of the writers' and readers' protocol, failures and kills.
THEOREM TypeCorrect == Spec => []TypeOK
  BY InvariantIInv, PTL DEF IInv

\* For any number of writers and readers, any set of failure points and any
\* bounds, Orig always names a file holding a complete content: the
\* rename/swap of FileIO_AtomicExchangeFiles never exposes a missing or
\* half-written original (the property OrigIntact of the runs).
THEOREM OrigAlwaysIntact == Spec => []OrigIntact
  BY InvariantIInv, PTL DEF IInv

-----------------------------------------------------------------------------
(***************************************************************************)
(* Readers.  A reader's descriptor, from its open to its close, refers to  *)
(* the inode Orig names, and the content of that inode stays what it read. *)
(* Both rest on IInv: a writer that renames or swaps holds the exclusive   *)
(* lock, so no reader is between its open and its close; a writer that     *)
(* writes the temp file writes an inode Orig does not name.                *)
(***************************************************************************)
ReaderDiscipline ==
  /\ \A r \in Readers : pc[r] \in {"read", "close"} => curr[r] = fs[Orig]
  /\ ReaderStable

\* A writer between its lock and its release excludes every open reader.
LEMMA ReadersApart ==
  ASSUME IInv, NEW w \in Writers, NEW r \in Readers, pc[w] \in WriterHolding
  PROVE  pc[r] \notin {"read", "close"}
  BY DEF IInv, LockDiscipline, TypeOK, Procs, Excl, Shared, NoLock

\* A step that keeps Orig's inode, every reader's step, descriptor and
\* reading, and the content of every inode an open reader refers to, keeps
\* ReaderDiscipline.
LEMMA ReaderFrame ==
  ASSUME ReaderDiscipline,
         fs'[Orig] = fs[Orig],
         \A r \in Readers :
            /\ pc'[r] = pc[r]
            /\ curr'[r] = curr[r]
            /\ seen'[r] = seen[r]
            /\ pc[r] \in {"read", "close"} => data'[curr[r]] = data[curr[r]]
  PROVE  ReaderDiscipline'
  BY DEF ReaderDiscipline, ReaderStable

LEMMA NextReaders ==
  IInv /\ ReaderDiscipline /\ [Next]_vars => ReaderDiscipline'
<1> SUFFICES ASSUME IInv, ReaderDiscipline, [Next]_vars
             PROVE  ReaderDiscipline'
  OBVIOUS
<1> USE DEF NoFile, Procs, At, GoTo, Finish
<1>1. ASSUME NEW w \in Writers, Writer(w) PROVE ReaderDiscipline'
  <2>1. \A r \in Readers : pc'[r] = pc[r] /\ curr'[r] = curr[r]
                           /\ seen'[r] = seen[r]
    BY <1>1, ConstantsAssumption DEF Writer, OpenCurr, TempPrepare,
       TempCreate, TempAttrs, WriteTemp, DiscardTemp, ExchangeVMK,
       ExchangeHosted, ExchangeReclose, ExchangeReopen, CloseCurr,
       PanicExit, IInv, TypeOK
  <2>2. CASE ExchangeVMK(w) \/ ExchangeHosted(w)
    <3>1. \A r \in Readers : pc[r] \notin {"read", "close"}
      BY <2>2, ReadersApart DEF ExchangeVMK, ExchangeHosted, WriterHolding
    <3>2. QED
      BY <2>1, <3>1 DEF ReaderDiscipline, ReaderStable
  <2>3. CASE WriteTemp(w)
    <3>1. temp[w] # fs[Orig]
      BY <2>3, TempNotOrig DEF WriteTemp, IInv, FileDiscipline, TempOpen
    <3>2. fs'[Orig] = fs[Orig]
      BY <2>3 DEF WriteTemp
    <3>3. \A r \in Readers :
            pc[r] \in {"read", "close"} => data'[curr[r]] = data[curr[r]]
      <4>1. SUFFICES ASSUME NEW r \in Readers, pc[r] \in {"read", "close"}
                     PROVE  data'[curr[r]] = data[curr[r]]
        OBVIOUS
      <4>2. curr[r] = fs[Orig] /\ fs[Orig] \in Inodes
        BY <4>1 DEF ReaderDiscipline, IInv, FileDiscipline
      <4>3. QED
        BY <2>3, <3>1, <4>2 DEF WriteTemp, IInv, TypeOK
    <3>4. QED
      BY <2>1, <3>2, <3>3, ReaderFrame
  <2>4. CASE ~(ExchangeVMK(w) \/ ExchangeHosted(w) \/ WriteTemp(w))
    <3>1. fs'[Orig] = fs[Orig] /\ data' = data
      BY <1>1, <2>4, TempNotOrig DEF IInv, TypeOK, Paths, Writer, OpenCurr,
         TempPrepare,
         TempCreate, TempAttrs, DiscardTemp, FileIO_CloseAndUnlink,
         ExchangeReclose, ExchangeReopen, CloseCurr, PanicExit
    <3>2. QED
      BY <2>1, <3>1, ReaderFrame
  <2>5. QED
    BY <2>2, <2>3, <2>4
<1>2. ASSUME NEW r \in Readers, Reader(r) PROVE ReaderDiscipline'
  <2> USE <1>2 DEF Reader, ReaderOpen, ReaderRead, ReaderClose
  <2>1. \A q \in Readers \ {r} : pc'[q] = pc[q] /\ curr'[q] = curr[q]
                                 /\ seen'[q] = seen[q]
    BY DEF IInv, TypeOK
  <2>2. fs' = fs /\ data' = data
    OBVIOUS
  <2>3. pc'[r] \in {"read", "close"} => curr'[r] = fs'[Orig]
    BY <2>2 DEF IInv, TypeOK, ReaderDiscipline
  <2>4. pc'[r] = "close" => data'[curr'[r]] = seen'[r]
    BY <2>2 DEF IInv, TypeOK
  <2>5. QED
    BY <2>1, <2>2, <2>3, <2>4 DEF ReaderDiscipline, ReaderStable
<1>3. ASSUME NEW p \in Procs, Crash(p) PROVE ReaderDiscipline'
  BY <1>3 DEF Crash, ReaderDiscipline, ReaderStable, IInv, TypeOK
<1>4. CASE Done \/ UNCHANGED vars
  BY <1>4 DEF Done, vars, ReaderDiscipline, ReaderStable
<1>5. QED
  BY <1>1, <1>2, <1>3, <1>4 DEF Next

\* Readers see a stable file: for every value of the constants, a reader
\* between its read and its FileIO_Close finds the inode it opened still
\* holding what it read, whatever the writers' exchanges and failures (the
\* property ReaderStable of the runs).
THEOREM ReaderAlwaysStable == Spec => []ReaderStable
<1>1. Init => ReaderDiscipline
  BY DEF Init, ReaderDiscipline, ReaderStable, Procs
<1>2. IInv /\ ReaderDiscipline /\ [Next]_vars => ReaderDiscipline'
  BY NextReaders
<1>3. QED
  BY <1>1, <1>2, InvariantIInv, PTL DEF Spec, ReaderDiscipline

-----------------------------------------------------------------------------
(***************************************************************************)
(* Commits.  FileIO_AtomicExchangeFiles returns TRUE after its swap or     *)
(* rename has put the writer's temp file at Orig; RoundTrip says Orig      *)
(* still holds it when the writer reaches its final FileIO_Close.  On the  *)
(* swap branch the writer keeps its exclusive lock from the exchange to    *)
(* that close, so no other writer can exchange in between.  On the hosted  *)
(* branch the bail's FileIO_Close(currFD) drops the lock before the        *)
(* reopen, and a second writer can commit in that window: the lostcommit   *)
(* run shows it.  The theorem is therefore stated for the swap branch or   *)
(* a single writer, the two configurations in which the code keeps its     *)
(* promise.                                                                *)
(***************************************************************************)
SingleWriterOrVMK == IsVMK \/ \A v, w \in Writers : v = w

\* The steps of a writer after FileIO_AtomicExchangeFiles has returned.
ExchangeDone == {"discard", "reclose", "reopen", "closecurr"}

\* The steps from FileIO_Open up to the exchange, before any commit.
BeforeExchange == {"tmp", "create", "attrs", "write", "xchg"}

\* OpenCurr resets ret, so no writer starts its exchange with a TRUE left
\* over from an earlier run.
NoEarlyCommit ==
  \A w \in Writers : pc[w] \in BeforeExchange => ~xret[w]

\* After a TRUE exchange Orig holds the writer's content until its close.
CommitKept ==
  \A w \in Writers : pc[w] \in ExchangeDone /\ xret[w] => OrigContent = w

\* The swap branch never reaches the bail's close, reopen or Panic.
SwapNeverReopens ==
  IsVMK => \A w \in Writers : pc[w] \notin {"reclose", "reopen", "panic"}

CommitDiscipline == NoEarlyCommit /\ CommitKept /\ SwapNeverReopens

\* A step of writer w that keeps the content at Orig, and every other
\* writer's step and ret, keeps CommitKept unless it sets w's own ret.
LEMMA CommitFrame ==
  ASSUME NEW w \in Writers, CommitKept, OrigContent' = OrigContent,
         \A v \in Writers \ {w} : pc'[v] = pc[v] /\ xret'[v] = xret[v],
         pc'[w] \in ExchangeDone /\ xret'[w] => pc[w] \in ExchangeDone /\ xret[w]
  PROVE  CommitKept'
  BY DEF CommitKept

\* Under IInv two writers are never both at steps where they hold the
\* exclusive lock.
LEMMA HoldersApart ==
  ASSUME IInv, NEW v \in Writers, NEW w \in Writers, v # w,
         pc[v] \in WriterHolding, pc[w] \in WriterHolding
  PROVE  FALSE
  BY DEF IInv, LockDiscipline, TypeOK, Procs, Excl, NoLock

LEMMA InitCommit == Init => CommitDiscipline
  BY DEF Init, CommitDiscipline, NoEarlyCommit, CommitKept, SwapNeverReopens,
         BeforeExchange, ExchangeDone, Procs

\* Every step keeps CommitDiscipline on the swap branch and with a single
\* writer.
LEMMA NextCommit ==
  ASSUME SingleWriterOrVMK, IInv, CommitDiscipline, [Next]_vars
  PROVE  CommitDiscipline'
<1> USE DEF NoFile, Procs, At, GoTo, Finish, Fails, ExchangeDone,
           BeforeExchange
<1>0. TypeOK /\ LockDiscipline /\ FileDiscipline
  BY DEF IInv
<1>1. ASSUME NEW w \in Writers, OpenCurr(w) PROVE CommitDiscipline'
  <2>1. OrigContent' = OrigContent
    BY <1>1 DEF OpenCurr, OrigContent
  <2>2. NoEarlyCommit'
    BY <1>0, <1>1 DEF OpenCurr, NoEarlyCommit, CommitDiscipline, TypeOK
  <2>3. CommitKept'
    BY <1>0, <1>1, <2>1, CommitFrame DEF OpenCurr, CommitDiscipline, TypeOK
  <2>4. SwapNeverReopens'
    BY <1>0, <1>1 DEF OpenCurr, SwapNeverReopens, CommitDiscipline, TypeOK
  <2>5. QED
    BY <2>2, <2>3, <2>4 DEF CommitDiscipline
<1>2. ASSUME NEW w \in Writers, TempPrepare(w) \/ TempCreate(w)
             \/ TempAttrs(w) \/ DiscardTemp(w)
      PROVE  CommitDiscipline'
  <2>1. fs'[Orig] = fs[Orig] /\ data' = data
    BY <1>0, <1>2, TempNotOrig DEF TempPrepare, TempCreate, TempAttrs,
       DiscardTemp, FileIO_CloseAndUnlink, TypeOK, Paths
  <2>2. OrigContent' = OrigContent
    BY <2>1 DEF OrigContent
  <2>3. xret' = xret
    BY <1>2 DEF TempPrepare, TempCreate, TempAttrs, DiscardTemp
  <2>4. /\ pc' = [pc EXCEPT ![w] = pc'[w]]
        /\ pc'[w] \in {"create", "attrs", "write", "closecurr"}
        /\ pc[w] \in {"tmp", "create", "attrs", "discard"}
        /\ pc'[w] \in BeforeExchange => pc[w] \in BeforeExchange
    BY <1>0, <1>2 DEF TempPrepare, TempCreate, TempAttrs, DiscardTemp, TypeOK
  <2>5. NoEarlyCommit'
    BY <1>0, <2>3, <2>4 DEF NoEarlyCommit, CommitDiscipline, TypeOK
  <2>6. CommitKept'
    <3>1. pc'[w] \in ExchangeDone /\ xret'[w]
            => pc[w] \in ExchangeDone /\ xret[w]
      BY <2>3, <2>4 DEF NoEarlyCommit, CommitDiscipline
    <3>2. \A v \in Writers \ {w} : pc'[v] = pc[v] /\ xret'[v] = xret[v]
      BY <1>0, <2>3, <2>4 DEF TypeOK
    <3>3. QED
      BY <2>2, <3>1, <3>2, CommitFrame DEF CommitDiscipline
  <2>7. SwapNeverReopens'
    BY <1>0, <2>4 DEF SwapNeverReopens, CommitDiscipline, TypeOK
  <2>8. QED
    BY <2>5, <2>6, <2>7 DEF CommitDiscipline
<1>3. ASSUME NEW w \in Writers, WriteTemp(w) PROVE CommitDiscipline'
  <2>1. temp[w] # fs[Orig] /\ temp[w] \in Inodes
    BY <1>0, <1>3 DEF WriteTemp, FileDiscipline, TypeOK, TempOpen
  <2>2. OrigContent' = OrigContent
    BY <1>0, <1>3, <2>1 DEF WriteTemp, OrigContent, FileDiscipline, TypeOK
  <2>3. NoEarlyCommit'
    BY <1>0, <1>3 DEF WriteTemp, NoEarlyCommit, CommitDiscipline, TypeOK
  <2>4. CommitKept'
    <3>1. pc'[w] \in ExchangeDone /\ xret'[w]
            => pc[w] \in ExchangeDone /\ xret[w]
      BY <1>3 DEF WriteTemp, NoEarlyCommit, CommitDiscipline
    <3>2. QED
      BY <1>0, <1>3, <2>2, <3>1, CommitFrame DEF WriteTemp, CommitDiscipline,
         TypeOK
  <2>5. SwapNeverReopens'
    BY <1>0, <1>3 DEF WriteTemp, SwapNeverReopens, CommitDiscipline, TypeOK
  <2>6. QED
    BY <2>3, <2>4, <2>5 DEF CommitDiscipline
<1>4. ASSUME NEW w \in Writers, ExchangeVMK(w) PROVE CommitDiscipline'
  <2>1. /\ temp[w] = fs[Temp] /\ fs[Temp] \in Inodes /\ data[fs[Temp]] = w
        /\ fs[Temp] # fs[Orig] /\ fs[Orig] \in Inodes
    BY <1>0, <1>4 DEF ExchangeVMK, FileDiscipline, TypeOK, TempOpen
  <2>2. \A v \in Writers \ {w} : pc'[v] = pc[v] /\ xret'[v] = xret[v]
    BY <1>0, <1>4 DEF ExchangeVMK, TypeOK
  <2>3. NoEarlyCommit'
    BY <1>0, <1>4, <2>2 DEF ExchangeVMK, NoEarlyCommit, CommitDiscipline,
       TypeOK
  <2>4. SwapNeverReopens'
    BY <1>0, <1>4, <2>2 DEF ExchangeVMK, SwapNeverReopens, CommitDiscipline,
       TypeOK
  <2>5. CASE fs[Temp] # NoFile
             /\ data' = [data EXCEPT ![fs[Orig]] = data[fs[Temp]],
                                     ![fs[Temp]] = data[fs[Orig]]]
             /\ xret' = [xret EXCEPT ![w] = TRUE]
    <3>1. OrigContent' = w
      BY <1>0, <1>4, <2>1, <2>5 DEF ExchangeVMK, OrigContent, TypeOK
    <3>2. ASSUME NEW v \in Writers \ {w}, pc[v] \in ExchangeDone, xret[v]
          PROVE  FALSE
      <4>1. pc[v] \in WriterHolding /\ pc[w] \in WriterHolding
        BY <1>4, <3>2 DEF ExchangeVMK, SwapNeverReopens, CommitDiscipline,
           WriterHolding
      <4>2. QED
        BY <4>1, HoldersApart
    <3>3. CommitKept'
      BY <1>0, <1>4, <2>2, <2>5, <3>1, <3>2 DEF ExchangeVMK, CommitKept,
         TypeOK
    <3>4. QED
      BY <2>3, <2>4, <3>3 DEF CommitDiscipline
  <2>6. CASE Fails("swap") /\ UNCHANGED <<data, xret>>
    <3>1. OrigContent' = OrigContent
      BY <1>4, <2>6 DEF ExchangeVMK, OrigContent
    <3>2. CommitKept'
      BY <1>4, <2>2, <2>6, <3>1, CommitFrame DEF ExchangeVMK, NoEarlyCommit,
         CommitDiscipline
    <3>3. QED
      BY <2>3, <2>4, <3>2 DEF CommitDiscipline
  <2>7. QED
    BY <1>4, <2>5, <2>6 DEF ExchangeVMK
<1>5. ASSUME NEW w \in Writers, ExchangeHosted(w) PROVE CommitDiscipline'
  <2>1. \A v \in Writers : v = w
    BY <1>5 DEF ExchangeHosted, SingleWriterOrVMK
  <2>2. /\ temp[w] = fs[Temp] /\ temp[w] # NoFile /\ data[temp[w]] = w
    BY <1>0, <1>5 DEF ExchangeHosted, FileDiscipline, TempOpen
  <2>3. NoEarlyCommit'
    BY <1>0, <1>5, <2>1 DEF ExchangeHosted, NoEarlyCommit, TypeOK
  <2>4. SwapNeverReopens'
    BY <1>5 DEF ExchangeHosted, SwapNeverReopens
  <2>5. CASE fs[Temp] # NoFile
             /\ fs' = [fs EXCEPT ![Orig] = fs[Temp], ![Temp] = NoFile]
             /\ xret' = [xret EXCEPT ![w] = TRUE]
    <3>1. OrigContent' = w
      BY <1>0, <1>5, <2>2, <2>5, TempNotOrig DEF ExchangeHosted, OrigContent,
         TypeOK, Paths
    <3>2. CommitKept'
      BY <2>1, <3>1 DEF CommitKept
    <3>3. QED
      BY <2>3, <2>4, <3>2 DEF CommitDiscipline
  <2>6. CASE Fails("rename") /\ UNCHANGED <<fs, xret>>
    <3>1. OrigContent' = OrigContent
      BY <1>5, <2>6 DEF ExchangeHosted, OrigContent
    <3>2. CommitKept'
      BY <1>0, <1>5, <2>1, <2>6, <3>1, CommitFrame DEF ExchangeHosted,
         NoEarlyCommit, CommitDiscipline, TypeOK
    <3>3. QED
      BY <2>3, <2>4, <3>2 DEF CommitDiscipline
  <2>7. QED
    BY <1>5, <2>5, <2>6 DEF ExchangeHosted
<1>6. ASSUME NEW w \in Writers,
             ExchangeReclose(w) \/ ExchangeReopen(w) \/ CloseCurr(w)
             \/ PanicExit(w)
      PROVE  CommitDiscipline'
  <2>1. fs' = fs /\ data' = data /\ xret' = xret
    BY <1>6 DEF ExchangeReclose, ExchangeReopen, CloseCurr, PanicExit
  <2>2. OrigContent' = OrigContent
    BY <2>1 DEF OrigContent
  <2>3. /\ pc' = [pc EXCEPT ![w] = pc'[w]]
        /\ pc'[w] \in {"reopen", "closecurr", "panic", "idle"}
        /\ pc'[w] \in ExchangeDone => pc[w] \in ExchangeDone
        /\ pc[w] \in {"reclose", "reopen", "closecurr", "panic"}
        /\ pc'[w] \in {"reopen", "panic"} => pc[w] \in {"reclose", "reopen"}
    BY <1>0, <1>6 DEF ExchangeReclose, ExchangeReopen, CloseCurr, PanicExit,
       TypeOK
  <2>4. NoEarlyCommit'
    BY <1>0, <2>1, <2>3 DEF NoEarlyCommit, CommitDiscipline, TypeOK
  <2>5. CommitKept'
    BY <1>0, <2>1, <2>2, <2>3, CommitFrame DEF CommitDiscipline, TypeOK
  <2>6. SwapNeverReopens'
    BY <1>0, <2>3 DEF SwapNeverReopens, CommitDiscipline, TypeOK
  <2>7. QED
    BY <2>4, <2>5, <2>6 DEF CommitDiscipline
<1>7. ASSUME NEW r \in Readers, Reader(r) PROVE CommitDiscipline'
  <2>1. fs' = fs /\ data' = data /\ xret' = xret
    BY <1>7 DEF Reader, ReaderOpen, ReaderRead, ReaderClose
  <2>2. \A w \in Writers : pc'[w] = pc[w]
    BY <1>0, <1>7 DEF Reader, ReaderOpen, ReaderRead, ReaderClose, TypeOK
  <2>3. QED
    BY <2>1, <2>2 DEF CommitDiscipline, NoEarlyCommit, CommitKept,
       SwapNeverReopens, OrigContent
<1>8. ASSUME NEW p \in Procs, Crash(p) PROVE CommitDiscipline'
  <2>1. fs' = fs /\ data' = data /\ xret' = xret
    BY <1>8 DEF Crash
  <2>2. \A w \in Writers : pc'[w] = pc[w] \/ pc'[w] = "idle"
    BY <1>0, <1>8 DEF Crash, TypeOK
  <2>3. QED
    BY <2>1, <2>2 DEF CommitDiscipline, NoEarlyCommit, CommitKept,
       SwapNeverReopens, OrigContent
<1>9. CASE Done \/ UNCHANGED vars
  BY <1>9 DEF Done, vars, CommitDiscipline, NoEarlyCommit, CommitKept,
     SwapNeverReopens, OrigContent
<1>10. QED
  BY <1>1, <1>2, <1>3, <1>4, <1>5, <1>6, <1>7, <1>8, <1>9 DEF Next, Writer

\* A TRUE from FileIO_AtomicExchangeFiles is kept: on the VMFS swap branch
\* with any number of writers, and on the hosted rename branch with a single
\* writer, a writer that reaches its final FileIO_Close after a TRUE
\* exchange finds its own content at Orig (the property RoundTrip of the
\* hosted and vmk runs; the lostcommit run shows the hosted branch with two
\* writers breaking it).
THEOREM CommitRoundTrip ==
  ASSUME SingleWriterOrVMK
  PROVE  Spec => []RoundTrip
<1>1. Init => CommitDiscipline
  BY InitCommit
<1>2. IInv /\ CommitDiscipline /\ [Next]_vars => CommitDiscipline'
  BY NextCommit
<1>3. CommitDiscipline => RoundTrip
  BY DEF CommitDiscipline, CommitKept, RoundTrip, ExchangeDone
<1>4. QED
  BY <1>1, <1>2, <1>3, InvariantIInv, PTL DEF Spec

-----------------------------------------------------------------------------
(***************************************************************************)
(* The commit point.  Whatever the branch and the number of writers, the   *)
(* step that sets ret to TRUE is the step that puts the writer's content   *)
(* at Orig under its exclusive lock, and no other step changes Orig's      *)
(* content.  Only NoEarlyCommit is needed beside IInv, and it holds for    *)
(* every value of the constants.                                           *)
(***************************************************************************)
LEMMA NextNoEarly == IInv /\ NoEarlyCommit /\ [Next]_vars => NoEarlyCommit'
<1> SUFFICES ASSUME IInv, NoEarlyCommit, [Next]_vars PROVE NoEarlyCommit'
  OBVIOUS
<1> USE DEF NoFile, Procs, At, GoTo, Finish, Fails, BeforeExchange
<1>0. TypeOK
  BY DEF IInv
<1>1. ASSUME NEW w \in Writers, Writer(w) PROVE NoEarlyCommit'
  <2>1. \A v \in Writers \ {w} : pc'[v] = pc[v] /\ xret'[v] = xret[v]
    BY <1>0, <1>1 DEF Writer, OpenCurr, TempPrepare, TempCreate, TempAttrs,
       WriteTemp, DiscardTemp, ExchangeVMK, ExchangeHosted, ExchangeReclose,
       ExchangeReopen, CloseCurr, PanicExit, TypeOK
  <2>2. pc'[w] \in BeforeExchange => ~xret'[w]
    BY <1>0, <1>1 DEF Writer, OpenCurr, TempPrepare, TempCreate, TempAttrs,
       WriteTemp, DiscardTemp, ExchangeVMK, ExchangeHosted, ExchangeReclose,
       ExchangeReopen, CloseCurr, PanicExit, NoEarlyCommit, TypeOK
  <2>3. QED
    BY <2>1, <2>2 DEF NoEarlyCommit
<1>2. ASSUME NEW r \in Readers, Reader(r) PROVE NoEarlyCommit'
  BY <1>0, <1>2 DEF Reader, ReaderOpen, ReaderRead, ReaderClose,
     NoEarlyCommit, TypeOK
<1>3. ASSUME NEW p \in Procs, Crash(p) PROVE NoEarlyCommit'
  BY <1>0, <1>3 DEF Crash, NoEarlyCommit, TypeOK
<1>4. CASE Done \/ UNCHANGED vars
  BY <1>4 DEF Done, vars, NoEarlyCommit
<1>5. QED
  BY <1>1, <1>2, <1>3, <1>4 DEF Next

\* A step that keeps the content at Orig and sets no ret to TRUE reports
\* nothing and commits nothing.
LEMMA QuietStep ==
  ASSUME OrigContent' = OrigContent,
         \A w \in Writers : xret'[w] => xret[w]
  PROVE  ExchangeReports
  BY DEF ExchangeReports

\* Every step of FileIOAtomic satisfies ExchangeReports.
LEMMA NextReports ==
  ASSUME IInv, NoEarlyCommit, [Next]_vars
  PROVE  [ExchangeReports]_vars
<1> USE DEF NoFile, Procs, At, GoTo, Finish, Fails
<1>0. TypeOK /\ LockDiscipline /\ FileDiscipline
  BY DEF IInv
<1>1. ASSUME NEW w \in Writers, ExchangeVMK(w) \/ ExchangeHosted(w)
      PROVE  ExchangeReports
  <2>1. /\ temp[w] = fs[Temp] /\ fs[Temp] \in Inodes /\ data[fs[Temp]] = w
        /\ fs[Temp] # fs[Orig] /\ fs[Orig] \in Inodes
        /\ lock[w] = Excl /\ ~xret[w]
    BY <1>0, <1>1 DEF ExchangeVMK, ExchangeHosted, FileDiscipline,
       LockDiscipline, TypeOK, TempOpen, WriterHolding, NoEarlyCommit,
       BeforeExchange
  <2>2. \A v \in Writers \ {w} : xret'[v] = xret[v]
    BY <1>0, <1>1 DEF ExchangeVMK, ExchangeHosted, TypeOK
  <2>3. CASE xret' = [xret EXCEPT ![w] = TRUE]
    <3>1. OrigContent' = w
      BY <1>0, <1>1, <2>1, <2>3, TempNotOrig DEF ExchangeVMK, ExchangeHosted,
         OrigContent, TypeOK, Paths
    <3>2. xret'[w] /\ ~xret[w]
      BY <1>0, <2>1, <2>3 DEF TypeOK
    <3>3. QED
      BY <2>1, <2>2, <3>1, <3>2 DEF ExchangeReports
  <2>4. CASE xret' = xret
    <3>1. xret' # [xret EXCEPT ![w] = TRUE]
      BY <1>0, <2>1, <2>4 DEF TypeOK
    <3>2. fs' = fs /\ data' = data
      BY <1>1, <3>1 DEF ExchangeVMK, ExchangeHosted
    <3>3. QED
      BY <2>4, <3>2, QuietStep DEF OrigContent
  <2>5. QED
    BY <1>1, <2>3, <2>4 DEF ExchangeVMK, ExchangeHosted
<1>2. ASSUME NEW w \in Writers, WriteTemp(w) PROVE ExchangeReports
  <2>1. temp[w] # fs[Orig]
    BY <1>0, <1>2 DEF WriteTemp, FileDiscipline, TempOpen
  <2>2. OrigContent' = OrigContent
    BY <1>0, <1>2, <2>1 DEF WriteTemp, OrigContent, FileDiscipline, TypeOK
  <2>3. QED
    BY <1>2, <2>2, QuietStep DEF WriteTemp
<1>3. ASSUME NEW w \in Writers, OpenCurr(w) \/ TempPrepare(w)
             \/ TempCreate(w) \/ TempAttrs(w) \/ DiscardTemp(w)
             \/ ExchangeReclose(w) \/ ExchangeReopen(w) \/ CloseCurr(w)
             \/ PanicExit(w)
      PROVE  ExchangeReports
  <2>1. fs'[Orig] = fs[Orig] /\ data' = data
    BY <1>0, <1>3, TempNotOrig DEF OpenCurr, TempPrepare, TempCreate,
       TempAttrs, DiscardTemp, FileIO_CloseAndUnlink, ExchangeReclose,
       ExchangeReopen, CloseCurr, PanicExit, TypeOK, Paths
  <2>2. \A v \in Writers : xret'[v] => xret[v]
    BY <1>0, <1>3 DEF OpenCurr, TempPrepare, TempCreate, TempAttrs,
       DiscardTemp, ExchangeReclose, ExchangeReopen, CloseCurr, PanicExit,
       TypeOK
  <2>3. QED
    BY <2>1, <2>2, QuietStep DEF OrigContent
<1>4. ASSUME NEW r \in Readers, Reader(r) PROVE ExchangeReports
  BY <1>4, QuietStep DEF Reader, ReaderOpen, ReaderRead, ReaderClose,
     OrigContent
<1>5. ASSUME NEW p \in Procs, Crash(p) PROVE ExchangeReports
  BY <1>5, QuietStep DEF Crash, OrigContent
<1>6. CASE Done \/ UNCHANGED vars
  BY <1>6 DEF Done, vars
<1>7. QED
  BY <1>1, <1>2, <1>3, <1>4, <1>5, <1>6 DEF Next, Writer

\* For every number of writers and readers, every fault set and either
\* branch, FileIO_AtomicExchangeFiles returns TRUE in exactly the step that
\* commits the writer's content to Orig under its exclusive lock, and Orig
\* changes in no other step (the action property CommitReported of the
\* hosted and vmk runs).
THEOREM CommitsReported == Spec => CommitReported
<1>1. Init => NoEarlyCommit
  BY DEF Init, NoEarlyCommit, BeforeExchange, Procs
<1>2. Spec => [](IInv /\ NoEarlyCommit)
  BY <1>1, InitIInv, NextIInv, NextNoEarly, PTL DEF Spec
<1>3. IInv /\ NoEarlyCommit /\ [Next]_vars => [ExchangeReports]_vars
  BY NextReports
<1>4. QED
  BY <1>2, <1>3, PTL DEF Spec, CommitReported

=============================================================================
