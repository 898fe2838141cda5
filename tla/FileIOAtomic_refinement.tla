---------------------- MODULE FileIOAtomic_refinement ----------------------
(***************************************************************************)
(* FileIOAtomic implements AtomicFile under the mapping AF of FileIOAtomic: *)
(* every step of a writer, a reader or a kill is a step of AtomicFile or   *)
(* leaves Orig's content, the lock holders and the readers' views alone.   *)
(*                                                                         *)
(* The argument needs the invariants of FileIOAtomic_proofs: the lock      *)
(* discipline says who holds which lock at which step, so a granted lock   *)
(* is an Acquire or a Share and a release a Release or an Unshare; the     *)
(* file discipline says the exchange puts the holder's complete temp file  *)
(* at Orig (a Commit); the reader discipline says a reader reads the inode *)
(* Orig names (a Read).                                                    *)
(***************************************************************************)
EXTENDS FileIOAtomic_proofs

\* The abstract owner and sharers, as the mapping AF computes them.
Owner == {w \in Writers : lock[w] = Excl}
Sharers == {r \in Readers : lock[r] = Shared}

USE ConstantsAssumption, TempNotOrig, PCsApart
USE DEF NoFile, Excl, Shared, NoLock, Procs, At, GoTo, Finish

\* A step that keeps every lock token, every reader's view and the content
\* Orig names is a stuttering step of AtomicFile.
LEMMA Stutter ==
  ASSUME lock' = lock, seen' = seen, OrigContent' = OrigContent
  PROVE  [AF!Next]_AF!vars
  BY DEF AF!vars

\* Orig's content is unchanged by a step that keeps Orig's inode and the
\* content of that inode.
LEMMA SameContent ==
  ASSUME fs'[Orig] = fs[Orig], data'[fs[Orig]] = data[fs[Orig]]
  PROVE  OrigContent' = OrigContent
  BY DEF OrigContent

\* Under IInv a writer holds the exclusive lock exactly at its holding
\* steps, and then it alone owns the file and no reader shares it.
LEMMA HolderOwns ==
  ASSUME IInv, NEW w \in Writers, pc[w] \in WriterHolding
  PROVE  Owner = {w} /\ Sharers = {}
  BY DEF IInv, LockDiscipline, TypeOK, Owner, Sharers

\* A writer outside its holding steps that is granted the exclusive lock
\* becomes the only owner of a file nobody held.
LEMMA GrantAcquires ==
  ASSUME IInv, NEW w \in Writers, pc[w] \notin WriterHolding,
         LockGranted(w), UNCHANGED <<fs, data, seen>>
  PROVE  AF!Acquire(w)
  <1>1. lock[w] = NoLock
    BY DEF IInv, LockDiscipline, TypeOK
  <1>2. Owner = {} /\ Sharers = {}
    BY <1>1 DEF LockGranted, LockModeOf, Compatible, TokensAllow, Owner,
       Sharers, IInv, TypeOK
  <1>3. Owner' = {w} /\ Sharers' = Sharers
    BY <1>2 DEF LockGranted, LockModeOf, Owner, Sharers, IInv, TypeOK
  <1>4. QED
    BY <1>2, <1>3 DEF AF!Acquire, OrigContent, Owner, Sharers

\* A holder's release of its exclusive token is a Release.
LEMMA ReleaseReleases ==
  ASSUME IInv, NEW w \in Writers, pc[w] \in WriterHolding,
         lock' = [lock EXCEPT ![w] = NoLock], UNCHANGED <<fs, data, seen>>
  PROVE  AF!Release(w)
  <1>1. Owner = {w} /\ Sharers = {}
    BY HolderOwns
  <1>2. Owner' = {} /\ Sharers' = Sharers
    BY <1>1 DEF Owner, Sharers, IInv, TypeOK
  <1>3. QED
    BY <1>1, <1>2 DEF AF!Release, OrigContent, Owner, Sharers

\* A reader granted its shared lock joins the sharers.
LEMMA GrantShares ==
  ASSUME IInv, NEW r \in Readers, LockGranted(r), UNCHANGED <<fs, data, seen>>
  PROVE  AF!Share(r)
  <1>1. Owner = {} /\ Owner' = {}
    BY DEF LockGranted, LockModeOf, Compatible, TokensAllow, Owner, IInv,
       TypeOK
  <1>2. Sharers' = Sharers \cup {r}
    BY DEF LockGranted, LockModeOf, Sharers, IInv, TypeOK
  <1>3. QED
    BY <1>1, <1>2 DEF AF!Share, OrigContent, Owner, Sharers

\* A reader's release of its shared token is an Unshare.
LEMMA ReleaseUnshares ==
  ASSUME IInv, NEW r \in Readers, lock[r] = Shared,
         lock' = [lock EXCEPT ![r] = NoLock], UNCHANGED <<fs, data, seen>>
  PROVE  AF!Unshare(r)
  <1>1. Owner' = Owner /\ Sharers' = Sharers \ {r}
    BY DEF Owner, Sharers, IInv, TypeOK
  <1>2. QED
    BY <1>1 DEF AF!Unshare, OrigContent, Owner, Sharers, Sharers

\* The exchange by the lock holder puts its complete temp file at Orig:
\* a Commit, on either branch.
LEMMA ExchangeCommits ==
  ASSUME IInv, NEW w \in Writers, pc[w] = "xchg", lock' = lock, seen' = seen,
         OrigContent' = data[fs[Temp]]
  PROVE  AF!Commit(w)
  <1>1. Owner = {w} /\ Sharers = {}
    BY HolderOwns DEF WriterHolding
  <1>2. data[fs[Temp]] = w
    BY DEF IInv, FileDiscipline, TempOpen
  <1>3. QED
    BY <1>1, <1>2 DEF AF!Commit, Owner, Sharers

\* Every step of FileIOAtomic is a step of AtomicFile or a stutter of it.
LEMMA NextRefines ==
  IInv /\ ReaderDiscipline /\ [Next]_vars => [AF!Next]_AF!vars
<1> SUFFICES ASSUME IInv, ReaderDiscipline, [Next]_vars
             PROVE  [AF!Next]_AF!vars
  OBVIOUS
<1>0. fs[Orig] \in Inodes /\ fs[Temp] # fs[Orig]
  BY DEF IInv, FileDiscipline, Inodes
<1>1. ASSUME NEW w \in Writers, OpenCurr(w) PROVE [AF!Next]_AF!vars
  <2>1. CASE LockGranted(w)
    BY <1>1, <2>1, GrantAcquires DEF OpenCurr, AF!Next, WriterHolding
  <2>2. CASE ~LockGranted(w)
    BY <1>1, <2>2, Stutter DEF OpenCurr, LockRefused, OpenFails,
       LockGranted, OrigContent
  <2>3. QED
    BY <2>1, <2>2
<1>2. ASSUME NEW w \in Writers,
             TempPrepare(w) \/ TempCreate(w) \/ TempAttrs(w) \/ DiscardTemp(w)
      PROVE  [AF!Next]_AF!vars
  <2>1. fs'[Orig] = fs[Orig] /\ data' = data /\ lock' = lock /\ seen' = seen
    BY <1>2 DEF TempPrepare, TempCreate, TempAttrs, DiscardTemp,
       FileIO_CloseAndUnlink, IInv, TypeOK, Paths
  <2>2. QED
    BY <2>1, SameContent, Stutter
<1>3. ASSUME NEW w \in Writers, WriteTemp(w) PROVE [AF!Next]_AF!vars
  <2>1. temp[w] # fs[Orig]
    BY <1>3, <1>0 DEF WriteTemp, IInv, FileDiscipline, TempOpen
  <2>2. fs' = fs /\ data'[fs[Orig]] = data[fs[Orig]] /\ lock' = lock
        /\ seen' = seen
    BY <1>3, <1>0, <2>1 DEF WriteTemp, IInv, TypeOK
  <2>3. QED
    BY <2>2, SameContent, Stutter
<1>4. ASSUME NEW w \in Writers, ExchangeVMK(w) PROVE [AF!Next]_AF!vars
  <2>1. CASE fs[Temp] # NoFile /\ xret' = [xret EXCEPT ![w] = TRUE]
             /\ data' = [data EXCEPT ![fs[Orig]] = data[fs[Temp]],
                                     ![fs[Temp]] = data[fs[Orig]]]
    <3>1. OrigContent' = data[fs[Temp]]
      BY <1>4, <2>1, <1>0 DEF ExchangeVMK, OrigContent, IInv, TypeOK
    <3>2. QED
      BY <1>4, <3>1, ExchangeCommits DEF ExchangeVMK, AF!Next
  <2>2. CASE UNCHANGED data
    BY <1>4, <2>2, SameContent, Stutter DEF ExchangeVMK
  <2>3. QED
    BY <1>4, <2>1, <2>2 DEF ExchangeVMK
<1>5. ASSUME NEW w \in Writers, ExchangeHosted(w) PROVE [AF!Next]_AF!vars
  <2>1. CASE fs[Temp] # NoFile
             /\ fs' = [fs EXCEPT ![Orig] = fs[Temp], ![Temp] = NoFile]
    <3>1. OrigContent' = data[fs[Temp]]
      BY <1>5, <2>1 DEF ExchangeHosted, OrigContent, IInv, TypeOK, Paths
    <3>2. QED
      BY <1>5, <3>1, ExchangeCommits DEF ExchangeHosted, AF!Next
  <2>2. CASE UNCHANGED fs
    BY <1>5, <2>2, SameContent, Stutter DEF ExchangeHosted
  <2>3. QED
    BY <1>5, <2>1, <2>2 DEF ExchangeHosted
<1>6. ASSUME NEW w \in Writers, ExchangeReclose(w) \/ CloseCurr(w)
      PROVE  [AF!Next]_AF!vars
  BY <1>6, ReleaseReleases DEF ExchangeReclose, CloseCurr, FileIO_Unlock,
     AF!Next, WriterHolding
<1>7. ASSUME NEW w \in Writers, ExchangeReopen(w) PROVE [AF!Next]_AF!vars
  <2>1. CASE LockGranted(w)
    BY <1>7, <2>1, GrantAcquires DEF ExchangeReopen, AF!Next, WriterHolding
  <2>2. CASE ~LockGranted(w)
    BY <1>7, <2>2, Stutter DEF ExchangeReopen, LockRefused, OpenFails,
       LockGranted, OrigContent
  <2>3. QED
    BY <2>1, <2>2
<1>8. ASSUME NEW w \in Writers, PanicExit(w) PROVE [AF!Next]_AF!vars
  <2>1. lock' = lock
    BY <1>8 DEF PanicExit, IInv, LockDiscipline, TypeOK, WriterHolding
  <2>2. QED
    BY <1>8, <2>1, Stutter DEF PanicExit, OrigContent
<1>9. ASSUME NEW r \in Readers, ReaderOpen(r) PROVE [AF!Next]_AF!vars
  <2>1. CASE LockGranted(r)
    BY <1>9, <2>1, GrantShares DEF ReaderOpen, AF!Next
  <2>2. CASE ~LockGranted(r)
    BY <1>9, <2>2, Stutter DEF ReaderOpen, LockRefused, LockGranted,
       OrigContent
  <2>3. QED
    BY <2>1, <2>2
<1>10. ASSUME NEW r \in Readers, ReaderRead(r) PROVE AF!Read(r)
  <2>1. r \in Sharers
    BY <1>10 DEF ReaderRead, IInv, LockDiscipline, Sharers
  <2>2. data[curr[r]] = OrigContent
    BY <1>10 DEF ReaderRead, ReaderDiscipline, OrigContent
  <2>3. QED
    BY <1>10, <2>1, <2>2 DEF ReaderRead, AF!Read, OrigContent, Owner,
       Sharers
<1>11. ASSUME NEW r \in Readers, ReaderClose(r) PROVE [AF!Next]_AF!vars
  <2>1. lock[r] = Shared
    BY <1>11 DEF ReaderClose, IInv, LockDiscipline
  <2>2. QED
    BY <1>11, <2>1, ReleaseUnshares DEF ReaderClose, FileIO_Unlock, AF!Next
<1>12. ASSUME NEW p \in Procs, Crash(p) PROVE [AF!Next]_AF!vars
  <2>1. UNCHANGED <<fs, data, seen>> /\ lock' = [lock EXCEPT ![p] = NoLock]
    BY <1>12 DEF Crash
  <2>2. CASE lock[p] = NoLock
    <3>1. lock' = lock
      BY <2>1, <2>2 DEF IInv, TypeOK
    <3>2. QED
      BY <2>1, <3>1, Stutter DEF OrigContent
  <2>3. CASE p \in Writers /\ lock[p] # NoLock
    <3>1. pc[p] \in WriterHolding
      BY <2>3 DEF IInv, LockDiscipline
    <3>2. QED
      BY <2>1, <2>3, <3>1, ReleaseReleases DEF AF!Next
  <2>4. CASE p \in Readers /\ lock[p] # NoLock
    <3>1. lock[p] = Shared
      BY <2>4 DEF IInv, LockDiscipline
    <3>2. QED
      BY <2>1, <2>4, <3>1, ReleaseUnshares DEF AF!Next
  <2>5. QED
    BY <2>2, <2>3, <2>4
<1>13. CASE Done \/ UNCHANGED vars
  BY <1>13, Stutter DEF Done, vars, OrigContent
<1>14. QED
  BY <1>1, <1>2, <1>3, <1>4, <1>5, <1>6, <1>7, <1>8, <1>9, <1>10, <1>11,
     <1>12, <1>13 DEF Next, Writer, Reader, AF!Next

\* FileIOAtomic implements AtomicFile for every value of the constants:
\* whatever the writers, readers, failure points and kills, Orig's content
\* changes only by a Commit of the one exclusive holder with no reader
\* sharing the file, and each read returns the version Orig names (the
\* property AtomicFileSpec of the runs).
THEOREM Refinement == Spec => AtomicFileSpec
<1>1. Init => AF!Init
  BY DEF Init, AF!Init, OrigContent, Owner, Sharers, Paths, Inodes, V0
<1>2. Spec => [](IInv /\ ReaderDiscipline)
  <2>1. Init => ReaderDiscipline
    BY DEF Init, ReaderDiscipline, ReaderStable
  <2>2. IInv /\ ReaderDiscipline /\ [Next]_vars => ReaderDiscipline'
    BY NextReaders
  <2>3. QED
    BY <2>1, <2>2, InvariantIInv, PTL DEF Spec
<1>3. QED
  BY <1>1, <1>2, NextRefines, PTL DEF Spec, AtomicFileSpec, AF!Spec

=============================================================================
