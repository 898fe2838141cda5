--------------------------- MODULE FileIODescriptor ---------------------------
(***************************************************************************)
(* The descriptor calls of lib/file/fileIO.c on a set of descriptors, each *)
(* driven by its own caller: FileIO_Init and FileIO_Cleanup (the file      *)
(* name), FileIO_Lock (FileLock_Lock and the errno switch) and             *)
(* FileIO_Unlock.  The FileLock module is outside the repository; it is    *)
(* modelled as its contract: a shared lock is granted unless another       *)
(* descriptor holds the name exclusively, an exclusive one unless another  *)
(* descriptor holds it at all, otherwise the wait times out (err = 0).     *)
(* The build is one with FileLock (not FreeBSD or Solaris).                *)
(***************************************************************************)
EXTENDS Naturals, FileIOResult

CONSTANTS
  Descs,      \* the descriptors
  Names,      \* the file names they are initialised with
  LockErrs,   \* the errnos FileLock_Lock may fail with besides a timeout
  UnlockFails,\* whether FileLock_Unlock may report an error
  MaxCalls    \* calls each descriptor's caller makes

ASSUME DescriptorAssumption ==
  /\ LockErrs \subseteq Errnos \ {"0"}
  /\ UnlockFails \in BOOLEAN
  /\ MaxCalls \in Nat

NULL == "NULL"
Shared == "shared"
Excl == "excl"
NoLock == "none"

\* The bits of the access argument FileIO_Lock looks at.
LOCKED == "FILEIO_OPEN_LOCKED"
WRITE == "FILEIO_OPEN_ACCESS_WRITE"
Accesses == SUBSET {LOCKED, WRITE}

Modes == {Shared, Excl}
\* A lock FileLock keeps on disk: the name it is on and its mode.
Locks == [name : Names, mode : Modes]
\* A NULL lockToken.
NoToken == [name |-> NULL, mode |-> NoLock]

VARIABLES
  fileName,   \* fileName[d]: the name FileIO_Init duplicated, or NULL
  lockToken,  \* lockToken[d]: the lock d's token stands for, or NULL
  lockAccess, \* lockAccess[d]: the access d's token was granted for
  orphans,    \* <<d, lock>>: a lock whose release for d failed, still on disk
  ret,        \* ret[d]: what the last call on d returned
  calls       \* calls[d]: calls made on d so far

vars == <<fileName, lockToken, lockAccess, orphans, ret, calls>>

\* The locks on disk: those of the tokens and the orphans.
OnDisk ==
  {lockToken[d] : d \in {e \in Descs : lockToken[e] # NoToken}}
    \cup {o[2] : o \in orphans}

\* FileLock_Lock's contract: a lock on disk that excludes the request.
Conflicts(name, mode) ==
  \E l \in OnDisk : l.name = name /\ (mode = Excl \/ l.mode = Excl)

\* Mutant: readOnly computed as (access & FILEIO_OPEN_ACCESS_WRITE) != 0.
ReadOnlyInverted(access) == WRITE \in access

\* readOnly = (access & FILEIO_OPEN_ACCESS_WRITE) == 0.
ReadOnly(access) == WRITE \notin access

Call(d) ==
  /\ calls[d] < MaxCalls
  /\ calls' = [calls EXCEPT ![d] = @ + 1]

Init ==
  /\ fileName = [d \in Descs |-> NULL]
  /\ lockToken = [d \in Descs |-> NoToken]
  /\ lockAccess = [d \in Descs |-> {}]
  /\ orphans = {}
  /\ ret = [d \in Descs |-> "SUCCESS"]
  /\ calls = [d \in Descs |-> 0]

\* FileIO_Init: fd->fileName = Unicode_Duplicate(pathName), on a descriptor
\* the caller prepared with FileIO_Invalidate (no name, no token).
FileIO_Init(d, name) ==
  /\ Call(d)
  /\ fileName[d] = NULL
  /\ lockToken[d] = NoToken
  /\ fileName' = [fileName EXCEPT ![d] = name]
  /\ UNCHANGED <<lockToken, lockAccess, orphans, ret>>

\* FileIO_Cleanup: the name is freed and set to NULL if there was one.
FileIO_Cleanup(d) ==
  /\ Call(d)
  /\ fileName' = [fileName EXCEPT ![d] = NULL]
  /\ UNCHANGED <<lockToken, lockAccess, orphans, ret>>

(***************************************************************************)
(* FileIO_Lock(file, access).  Without FILEIO_OPEN_LOCKED nothing is done. *)
(* Otherwise the token must be NULL (ASSERT) and FileLock_Lock is called   *)
(* on the file name; a NULL token is reported through the errno switch.   *)
(***************************************************************************)
FileIO_Lock(d, access) ==
  /\ Call(d)
  /\ fileName[d] # NULL
  /\ \/ /\ LOCKED \notin access
        /\ ret' = [ret EXCEPT ![d] = "SUCCESS"]
        /\ UNCHANGED <<lockToken, lockAccess>>
     \/ /\ LOCKED \in access
        /\ lockToken[d] = NoToken
        /\ LET mode == IF ReadOnly(access) THEN Shared ELSE Excl
           IN  \/ /\ ~Conflicts(fileName[d], mode)
                  /\ lockToken' =
                       [lockToken EXCEPT ![d] = [name |-> fileName[d],
                                                 mode |-> mode]]
                  /\ lockAccess' = [lockAccess EXCEPT ![d] = access]
                  /\ ret' = [ret EXCEPT ![d] = "SUCCESS"]
               \/ \E err \in LockErrs \cup
                             (IF Conflicts(fileName[d], mode)
                              THEN {"0"} ELSE {}) :
                     /\ ret' = [ret EXCEPT ![d] = LockErrnoResult(err)]
                     /\ UNCHANGED <<lockToken, lockAccess>>
  /\ UNCHANGED <<fileName, orphans>>

(***************************************************************************)
(* FileIO_Unlock(file).  With a token, FileLock_Unlock is called; its      *)
(* failure is reported as FILEIO_ERROR and the lock it could not remove    *)
(* stays on disk.  The token is set to NULL either way.  Without a token   *)
(* the call returns FILEIO_SUCCESS.                                        *)
(***************************************************************************)
FileIO_Unlock(d) ==
  /\ Call(d)
  /\ \/ /\ lockToken[d] # NoToken
        /\ lockToken' = [lockToken EXCEPT ![d] = NoToken]
        /\ \/ /\ ret' = [ret EXCEPT ![d] = "SUCCESS"]
              /\ UNCHANGED orphans
           \/ /\ UnlockFails
              /\ ret' = [ret EXCEPT ![d] = "ERROR"]
              /\ orphans' = orphans \cup {<<d, lockToken[d]>>}
     \/ /\ lockToken[d] = NoToken
        /\ ret' = [ret EXCEPT ![d] = "SUCCESS"]
        /\ UNCHANGED <<lockToken, orphans>>
  /\ UNCHANGED <<fileName, lockAccess>>

\* FileIO_Filename: the name the descriptor was initialised with.
FileIO_Filename(d) == fileName[d]

\* Every caller has made its calls.
Done ==
  /\ \A d \in Descs : calls[d] = MaxCalls
  /\ UNCHANGED vars

Next ==
  \/ \E d \in Descs :
        \/ \E name \in Names : FileIO_Init(d, name)
        \/ FileIO_Cleanup(d)
        \/ \E access \in Accesses : FileIO_Lock(d, access)
        \/ FileIO_Unlock(d)
  \/ Done

Spec == Init /\ [][Next]_vars

-----------------------------------------------------------------------------
\* Every variable holds a value of its type.
TypeOK ==
  /\ fileName \in [Descs -> Names \cup {NULL}]
  /\ lockToken \in [Descs -> Locks \cup {NoToken}]
  /\ lockAccess \in [Descs -> Accesses]
  /\ orphans \subseteq Descs \X Locks
  /\ ret \in [Descs -> Statuses]
  /\ calls \in [Descs -> 0..MaxCalls]

\* A descriptor whose FileIO_Lock for write access returned FILEIO_SUCCESS
\* and another descriptor holding any lock are never on the same name: the
\* readOnly argument FileIO_Lock passes to FileLock_Lock asks for the
\* exclusive lock exactly when the access includes write (spec: exclusive
\* acquisition from two handles on one path never both succeed).
ExclusiveAcrossDescriptors ==
  \A d, e \in Descs :
     /\ d # e
     /\ lockToken[d] # NoToken /\ WRITE \in lockAccess[d]
     /\ lockToken[e] # NoToken
     => lockToken[d].name # lockToken[e].name

\* The refinement mapping: a descriptor's token is the lock it holds, taken
\* for writing when the access it was granted for includes write; an
\* orphan is a stale lock, for writing when FileLock holds it exclusively.
HeldLock(d) == [path |-> lockToken[d].name, write |-> WRITE \in lockAccess[d]]

StaleLock(o) == <<o[1], [path |-> o[2].name, write |-> o[2].mode = Excl]>>

AbsHeld ==
  [d \in Descs |-> IF lockToken[d] = NoToken THEN {} ELSE {HeldLock(d)}]

AbsStale == {StaleLock(o) : o \in orphans}

AL == INSTANCE AdvisoryLock
        WITH Clients <- Descs, Paths <- Names,
             held <- AbsHeld, stale <- AbsStale

\* FileIO_Lock and FileIO_Unlock over FileLock implement the advisory lock
\* the Lock Manager promises: a lock FileIO_Lock grants for write access is
\* granted only while no lock, held or orphaned, is on the name, and one
\* for read access only while none for write is; FileIO_Unlock removes the
\* lock or, when FileLock_Unlock fails, leaves it on disk unowned.
AdvisoryLockSpec == AL!Spec
=============================================================================
