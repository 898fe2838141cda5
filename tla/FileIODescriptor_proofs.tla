------------------------ MODULE FileIODescriptor_proofs ------------------------
(***************************************************************************)
(* Exclusion of write locks across descriptors, and the refinement of      *)
(* AdvisoryLock, for every set of descriptors and names, every errno set   *)
(* and whether or not releases fail.                                       *)
(*                                                                         *)
(* ExclusiveAcrossDescriptors is not inductive: it speaks of the access a  *)
(* token was granted for, while FileLock_Lock decides by the modes of the  *)
(* locks on disk.  LockInv links the two (a token granted for write access *)
(* is exclusive) and states what FileLock's contract keeps: two tokens on  *)
(* one name are both shared.                                               *)
(***************************************************************************)
EXTENDS FileIODescriptor, TLAPS

WriteIsExclusive ==
  \A d \in Descs :
     lockToken[d] # NoToken /\ WRITE \in lockAccess[d]
       => lockToken[d].mode = Excl

TokensCompatible ==
  \A d, e \in Descs :
     /\ d # e
     /\ lockToken[d] # NoToken
     /\ lockToken[e] # NoToken
     /\ lockToken[d].name = lockToken[e].name
     => lockToken[d].mode = Shared /\ lockToken[e].mode = Shared

LockInv == TypeOK /\ WriteIsExclusive /\ TokensCompatible

USE DescriptorAssumption
USE DEF NULL, Shared, Excl, NoLock, NoToken, Modes, Locks, LOCKED, WRITE

\* A held token is one of the locks on disk.
LEMMA TokenOnDisk ==
  ASSUME NEW e \in Descs, lockToken[e] # NoToken
  PROVE  lockToken[e] \in OnDisk
  <1>1. e \in {x \in Descs : lockToken[x] # NoToken}
    OBVIOUS
  <1>2. QED
    BY <1>1, Zenon DEF OnDisk

\* The errno switch of FileIO_Lock returns a FileIOResult.
LEMMA LockErrnoIsStatus ==
  ASSUME NEW err PROVE LockErrnoResult(err) \in Statuses
  BY DEF LockErrnoResult, Statuses

LEMMA InitLockInv == Init => LockInv
  BY DEF Init, LockInv, TypeOK, WriteIsExclusive, TokensCompatible, Accesses,
         Statuses

LEMMA NextLockInv == LockInv /\ [Next]_vars => LockInv'
<1> SUFFICES ASSUME LockInv, [Next]_vars PROVE LockInv'
  OBVIOUS
<1> USE DEF LockInv, Call
<1>1. ASSUME NEW d \in Descs, NEW name \in Names, FileIO_Init(d, name)
      PROVE  LockInv'
  BY <1>1 DEF FileIO_Init, TypeOK, WriteIsExclusive, TokensCompatible
<1>2. ASSUME NEW d \in Descs, FileIO_Cleanup(d) PROVE LockInv'
  BY <1>2 DEF FileIO_Cleanup, TypeOK, WriteIsExclusive, TokensCompatible
<1>3. ASSUME NEW d \in Descs, NEW access \in Accesses, FileIO_Lock(d, access)
      PROVE  LockInv'
  <2> DEFINE mode == IF ReadOnly(access) THEN Shared ELSE Excl
             lk == [name |-> fileName[d], mode |-> mode]
  <2>1. CASE /\ LOCKED \in access /\ lockToken[d] = NoToken
             /\ ~Conflicts(fileName[d], mode)
             /\ lockToken' = [lockToken EXCEPT ![d] = lk]
             /\ lockAccess' = [lockAccess EXCEPT ![d] = access]
             /\ ret' = [ret EXCEPT ![d] = "SUCCESS"]
    <3>1. fileName[d] \in Names
      BY <1>3 DEF FileIO_Lock, TypeOK
    <3>2. \A e \in Descs \ {d} :
             lockToken[e] # NoToken /\ lockToken[e].name = fileName[d]
               => mode = Shared /\ lockToken[e].mode = Shared
      <4>1. SUFFICES ASSUME NEW e \in Descs \ {d}, lockToken[e] # NoToken,
                            lockToken[e].name = fileName[d]
                     PROVE  mode = Shared /\ lockToken[e].mode = Shared
        OBVIOUS
      <4>2. lockToken[e] \in OnDisk
        BY <4>1, TokenOnDisk
      <4>3. lockToken[e] \in Locks
        BY <4>1 DEF TypeOK
      <4>4. QED
        BY <2>1, <4>1, <4>2, <4>3 DEF Conflicts
    <3>3. TypeOK'
      BY <1>3, <2>1, <3>1 DEF FileIO_Lock, TypeOK, Accesses, Statuses
    <3>4. WriteIsExclusive'
      BY <1>3, <2>1 DEF FileIO_Lock, TypeOK, WriteIsExclusive, ReadOnly
    <3>5. TokensCompatible'
      BY <1>3, <2>1, <3>2 DEF FileIO_Lock, TypeOK, TokensCompatible
    <3>6. QED
      BY <3>3, <3>4, <3>5
  <2>2. CASE /\ \E st \in Statuses : ret' = [ret EXCEPT ![d] = st]
             /\ UNCHANGED <<lockToken, lockAccess>>
    BY <1>3, <2>2 DEF FileIO_Lock, TypeOK, WriteIsExclusive, TokensCompatible
  <2>3. QED
    <3>1. \A err \in LockErrs \cup {"0"} : LockErrnoResult(err) \in Statuses
      BY LockErrnoIsStatus
    <3>2. "SUCCESS" \in Statuses
      BY DEF Statuses
    <3>3. QED
      BY <1>3, <2>1, <2>2, <3>1, <3>2 DEF FileIO_Lock
<1>4. ASSUME NEW d \in Descs, FileIO_Unlock(d) PROVE LockInv'
  <2>1. TypeOK'
    BY <1>4 DEF FileIO_Unlock, TypeOK, Statuses
  <2>2. QED
    BY <1>4, <2>1 DEF FileIO_Unlock, TypeOK, WriteIsExclusive,
       TokensCompatible
<1>5. CASE Done \/ UNCHANGED vars
  BY <1>5 DEF Done, vars, TypeOK, WriteIsExclusive, TokensCompatible
<1>6. QED
  BY <1>1, <1>2, <1>3, <1>4, <1>5 DEF Next

\* For every value of the constants, a descriptor whose FileIO_Lock for
\* write access succeeded shares its file name with no other descriptor
\* that holds a lock: FileIO_Lock's readOnly argument together with
\* FileLock_Lock's contract (the property ExclusiveAcrossDescriptors of
\* the runs).
THEOREM WriteLocksExclusive == Spec => []ExclusiveAcrossDescriptors
<1>1. LockInv => ExclusiveAcrossDescriptors
  BY DEF LockInv, TypeOK, WriteIsExclusive, TokensCompatible,
     ExclusiveAcrossDescriptors
<1>2. QED
  BY <1>1, InitLockInv, NextLockInv, PTL DEF Spec

-----------------------------------------------------------------------------
(***************************************************************************)
(* Refinement of AdvisoryLock.  The mapping calls a token a lock for       *)
(* writing by the access it was granted for, an orphan by its FileLock     *)
(* mode; FileLock_Lock decides by modes.  AccessMatchesMode links the two: *)
(* a held token is exclusive exactly when its access includes write.       *)
(***************************************************************************)
AccessMatchesMode ==
  \A d \in Descs :
     lockToken[d] # NoToken => (lockToken[d].mode = Excl <=> WRITE \in lockAccess[d])

RefInv == LockInv /\ AccessMatchesMode

LEMMA InitRefInv == Init => RefInv
  BY InitLockInv DEF RefInv, Init, AccessMatchesMode

LEMMA NextRefInv == RefInv /\ [Next]_vars => RefInv'
<1> SUFFICES ASSUME RefInv, [Next]_vars PROVE RefInv'
  OBVIOUS
<1>1. LockInv'
  BY NextLockInv DEF RefInv
<1>2. AccessMatchesMode'
  <2>1. CASE \E d \in Descs, a \in Accesses : FileIO_Lock(d, a)
    BY <2>1 DEF FileIO_Lock, Call, RefInv, LockInv, TypeOK, AccessMatchesMode, ReadOnly
  <2>2. CASE \/ \E d \in Descs, n \in Names : FileIO_Init(d, n)
             \/ \E d \in Descs : FileIO_Cleanup(d) \/ FileIO_Unlock(d)
             \/ Done \/ UNCHANGED vars
    BY <2>2 DEF FileIO_Init, FileIO_Cleanup, FileIO_Unlock, Done, vars, Call,
       RefInv, LockInv, TypeOK, AccessMatchesMode
  <2>3. QED
    BY <2>1, <2>2 DEF Next
<1>3. QED
  BY <1>1, <1>2 DEF RefInv

\* Steps that leave the tokens, their accesses and the orphans alone map to
\* a stutter of AdvisoryLock.
LEMMA LocksUnmoved ==
  ASSUME UNCHANGED <<lockToken, lockAccess, orphans>>
  PROVE  UNCHANGED AL!vars
  BY DEF AL!vars, AbsHeld, AbsStale, HeldLock, StaleLock

\* Every lock of AdvisoryLock's Present stands for a lock FileLock has on
\* disk, on the same path, for writing exactly when that lock is exclusive.
LEMMA PresentOnDisk ==
  ASSUME RefInv, NEW l \in AL!Present
  PROVE  \E l0 \in OnDisk : l0.name = l.path /\ (l.write <=> l0.mode = Excl)
<1>1. CASE \E c \in Descs : l \in AbsHeld[c]
  <2>1. PICK c \in Descs : l \in AbsHeld[c]
    BY <1>1
  <2>2. lockToken[c] # NoToken /\ l = HeldLock(c)
    BY <2>1 DEF AbsHeld
  <2>3. lockToken[c] \in OnDisk
    BY <2>2, TokenOnDisk
  <2>4. lockToken[c].mode = Excl <=> WRITE \in lockAccess[c]
    BY <2>2 DEF RefInv, AccessMatchesMode
  <2>5. QED
    BY <2>2, <2>3, <2>4 DEF HeldLock
<1>2. CASE \E s \in AbsStale : l = s[2]
  <2>1. PICK o \in orphans : l = StaleLock(o)[2]
    BY <1>2 DEF AbsStale
  <2>2. o[2] \in OnDisk
    BY DEF OnDisk
  <2>3. QED
    BY <2>1, <2>2 DEF StaleLock
<1>3. l \in UNION {AbsHeld[c] : c \in Descs} \/ l \in {s[2] : s \in AbsStale}
  BY DEF AL!Present
<1>4. QED
  BY <1>1, <1>2, <1>3

\* Under RefInv every step of FileIO_Init, FileIO_Cleanup, FileIO_Lock and
\* FileIO_Unlock is an AdvisoryLock step or a stutter.
LEMMA NextRefinesAL ==
  ASSUME RefInv, [Next]_vars
  PROVE  [AL!Next]_AL!vars
<1> USE DEF Call
<1>1. ASSUME NEW d \in Descs, NEW access \in Accesses, FileIO_Lock(d, access)
      PROVE  [AL!Next]_AL!vars
  <2> DEFINE mode == IF ReadOnly(access) THEN Shared ELSE Excl
             lk == [name |-> fileName[d], mode |-> mode]
             w == WRITE \in access
  <2>1. CASE /\ LOCKED \in access /\ lockToken[d] = NoToken
             /\ ~Conflicts(fileName[d], mode)
             /\ lockToken' = [lockToken EXCEPT ![d] = lk]
             /\ lockAccess' = [lockAccess EXCEPT ![d] = access]
    <3>1. fileName[d] \in Names /\ orphans' = orphans
      BY <1>1 DEF FileIO_Lock, RefInv, LockInv, TypeOK
    <3>2. AbsHeld[d] = {}
      BY <2>1 DEF AbsHeld
    <3>3. ~AL!Excludes(fileName[d], w)
      <4>1. SUFFICES ASSUME NEW l \in AL!Present, l.path = fileName[d]
                     PROVE  ~(w \/ l.write)
        BY DEF AL!Excludes
      <4>2. PICK l0 \in OnDisk : l0.name = l.path /\ (l.write <=> l0.mode = Excl)
        BY PresentOnDisk
      <4>3. ~(mode = Excl \/ l0.mode = Excl)
        BY <2>1, <4>1, <4>2 DEF Conflicts
      <4>4. QED
        BY <4>2, <4>3 DEF ReadOnly
    <3>4. AbsHeld' = [AbsHeld EXCEPT ![d] = {[path |-> fileName[d], write |-> w]}]
      BY <2>1 DEF AbsHeld, HeldLock, RefInv, LockInv, TypeOK
    <3>5. AbsStale' = AbsStale
      BY <3>1 DEF AbsStale, StaleLock
    <3>6. AL!Acquire(d, fileName[d], w)
      BY <3>2, <3>3, <3>4, <3>5 DEF AL!Acquire
    <3>7. \E p \in Names, v \in BOOLEAN : AL!Acquire(d, p, v)
      <4>1. w \in BOOLEAN
        OBVIOUS
      <4>2. QED
        BY <3>1, <3>6, <4>1, Zenon
    <3>8. QED
      BY <3>7 DEF AL!Next
  <2>2. CASE UNCHANGED <<lockToken, lockAccess>>
    BY <1>1, <2>2, LocksUnmoved DEF FileIO_Lock
  <2>3. QED
    BY <1>1, <2>1, <2>2 DEF FileIO_Lock
<1>2. ASSUME NEW d \in Descs, FileIO_Unlock(d) PROVE [AL!Next]_AL!vars
  <2>1. CASE lockToken[d] # NoToken
    <3>a. AbsHeld[d] = {HeldLock(d)} /\ AbsHeld[d] # {}
      BY <2>1 DEF AbsHeld
    <3>b. AbsHeld' = [AbsHeld EXCEPT ![d] = {}]
      BY <1>2, <2>1 DEF FileIO_Unlock, AbsHeld, HeldLock, RefInv, LockInv,
         TypeOK
    <3>1. CASE orphans' = orphans
      <4>1. AbsStale' = AbsStale
        BY <3>1 DEF AbsStale, StaleLock
      <4>2. QED
        BY <3>a, <3>b, <4>1 DEF AL!Next, AL!Release
    <3>2. CASE orphans' = orphans \cup {<<d, lockToken[d]>>}
      <4>1. StaleLock(<<d, lockToken[d]>>) = <<d, HeldLock(d)>>
        BY <2>1 DEF StaleLock, HeldLock, RefInv, AccessMatchesMode
      <4>2. AbsStale' = AbsStale \cup {<<d, l>> : l \in AbsHeld[d]}
        BY <3>2, <4>1, <3>a DEF AbsStale
      <4>3. QED
        BY <3>a, <3>b, <4>2 DEF AL!Next, AL!Abandon
    <3>3. QED
      BY <1>2, <2>1, <3>1, <3>2 DEF FileIO_Unlock
  <2>2. CASE lockToken[d] = NoToken
    BY <1>2, <2>2, LocksUnmoved DEF FileIO_Unlock
  <2>3. QED
    BY <2>1, <2>2
<1>3. CASE \/ \E d \in Descs, n \in Names : FileIO_Init(d, n)
           \/ \E d \in Descs : FileIO_Cleanup(d)
           \/ Done \/ UNCHANGED vars
  BY <1>3, LocksUnmoved DEF FileIO_Init, FileIO_Cleanup, Done, vars
<1>4. QED
  BY <1>1, <1>2, <1>3 DEF Next

\* For every value of the constants, FileIO_Lock and FileIO_Unlock over
\* FileLock implement the advisory lock the Lock Manager promises: a lock
\* granted for write access excludes every lock on the path, held or left
\* behind by a failed release (the property AdvisoryLockSpec of the locks
\* run).
THEOREM LocksRefine == Spec => AdvisoryLockSpec
<1>1. Init => AL!Init
  BY DEF Init, AL!Init, AbsHeld, AbsStale
<1>2. Spec => []RefInv
  BY InitRefInv, NextRefInv, PTL DEF Spec
<1>3. RefInv /\ [Next]_vars => [AL!Next]_AL!vars
  BY NextRefinesAL
<1>4. QED
  BY <1>1, <1>2, <1>3, PTL DEF Spec, AdvisoryLockSpec, AL!Spec
=============================================================================
