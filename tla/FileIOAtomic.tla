---------------------------- MODULE FileIOAtomic ----------------------------
(***************************************************************************)
(* The atomic replacement of a locked file, as lib/file/fileIO.c does it,  *)
(* run by several processes against one original path Orig and its        *)
(* sibling Temp = Orig "~".                                                *)
(*                                                                         *)
(* A writer runs the caller protocol the library is built for: open Orig   *)
(* locked for write (FileIO_Open, which locks through FileIO_Lock before   *)
(* it opens), FileIO_AtomicTempFile, write the new content into the temp   *)
(* file, FileIO_AtomicExchangeFiles, FileIO_Close.  A reader opens Orig    *)
(* locked for read, reads it and closes it.  Any process may be killed     *)
(* between two of its steps.                                               *)
(*                                                                         *)
(* The filesystem is kept at the level the code relies on: a directory     *)
(* maps each path to an inode, an open descriptor refers to an inode (so   *)
(* an unlinked or renamed-over file stays readable through it), rename     *)
(* rebinds a path atomically, and the VMFS swap ioctl exchanges the        *)
(* contents of the inodes two paths name.  The advisory lock of the        *)
(* FileLock module is a readers/writer lock on Orig: lock[p] is the lock   *)
(* token of process p.                                                     *)
(***************************************************************************)
EXTENDS Naturals, FiniteSets, Sequences

CONSTANTS
  Writers,     \* processes that replace the contents of Orig
  Readers,     \* processes that read Orig under a shared lock
  IsVMK,       \* HostType_OSIsVMK(): the VMFS swap path is taken
  Faults,      \* the failure points of the code a run lets fail
  MaxOps,      \* bound: protocol runs per process
  MaxCrashes,  \* bound: process kills in a behaviour
  MaxInodes    \* bound: inodes the filesystem can hand out

FaultPoints ==
  { "fullpath",  \* File_FullPath returns NULL
    "fstat",     \* fstat of the original fails
    "create",    \* FileIO_Create of the temp file fails
    "fchmod",    \* fchmod of the temp file fails
    "fchown",    \* fchown of the temp file fails
    "write",     \* the caller's write into the temp file fails (ENOSPC)
    "close",     \* close() reports an error
    "rename",    \* File_RenameRetry exhausts its 10 attempts
    "swap",      \* VMFS swap: path too long, open of the directory or ioctl
    "lockerr",   \* FileLock_Lock fails with an errno other than a timeout
    "open",      \* open() of Orig fails after the lock was taken
    "unlock" }   \* FileLock_Unlock fails and leaves the lock on disk

ASSUME ConstantsAssumption ==
  /\ Writers \cap Readers = {}
  /\ IsVMK \in BOOLEAN
  /\ Faults \subseteq FaultPoints
  /\ MaxOps \in Nat
  /\ MaxCrashes \in Nat
  /\ MaxInodes \in Nat \ {0}

Procs == Writers \cup Readers

(***************************************************************************)
(* Paths.  FileIOAtomicTempPath appends "~" to the full path of the file   *)
(* (Unicode_Join); a path is kept as the sequence of its pieces.           *)
(***************************************************************************)
Orig == <<"cfg">>
FileIOAtomicTempPath(path) == Append(path, "~")
Temp == FileIOAtomicTempPath(Orig)
Paths == {Orig, Temp}

Inodes == 1..MaxInodes
NoFile == 0            \* a path with no inode; also the invalid descriptor
V0 == "v0"             \* the content Orig starts with
Partial == "partial"   \* what a failed write leaves in the temp file
Empty == "empty"       \* the content of a freshly created file
\* A writer writes its own name, so a content says who committed it.
Contents == {V0, Partial, Empty} \cup Writers

Shared == "shared"
Excl == "excl"
NoLock == "none"
LockModes == {NoLock, Shared, Excl}

WriterPCs ==
  {"idle", "tmp", "create", "attrs", "write", "discard", "xchg",
   "reclose", "reopen", "closecurr", "panic"}
ReaderPCs == {"idle", "read", "close"}

VARIABLES
  fs,       \* fs[path]: the inode the directory entry names, or NoFile
  data,     \* data[i]: the content of inode i
  nextIno,  \* the next inode the filesystem hands out
  lock,     \* lock[p]: the lock token p holds on Orig (FileLock state)
  curr,     \* curr[p]: the inode p's descriptor of Orig refers to, or NoFile
  temp,     \* temp[w]: the inode of w's temp descriptor, or NoFile
  xret,     \* xret[w]: the value FileIO_AtomicExchangeFiles returned
  seen,     \* seen[r]: what reader r read from Orig
  pc,       \* the step each process is at
  ops,      \* protocol runs each process has completed
  crashes,  \* process kills so far
  orphan    \* orphan[p]: a lock p left on disk when its release failed

vars ==
  <<fs, data, nextIno, lock, curr, temp, xret, seen, pc, ops, crashes, orphan>>

Fails(point) == point \in Faults

(***************************************************************************)
(* FileLock_Lock on Orig: a shared lock is granted when no other process   *)
(* holds an exclusive one, an exclusive lock when no other process holds   *)
(* any.  Otherwise the caller waits FILELOCK_DEFAULT_WAIT and then times   *)
(* out with err = 0.  A lock whose release failed is still on disk and   *)
(* conflicts like any other, with the caller's own new request too.        *)
(***************************************************************************)
TokensAllow(p, mode) ==
  \A q \in Procs \ {p} :
     IF mode = Excl THEN lock[q] = NoLock ELSE lock[q] # Excl

OrphansAllow(mode) ==
  \A q \in Procs :
     IF mode = Excl THEN orphan[q] = NoLock ELSE orphan[q] # Excl

Compatible(p, mode) == TokensAllow(p, mode) /\ OrphansAllow(mode)

\* Mutant: the readOnly argument computed as if no access included write.
LockModeAlwaysShared(p) == Shared

\* The mode FileIO_Lock asks for: shared unless the access includes write.
LockModeOf(p) == IF p \in Writers THEN Excl ELSE Shared

\* FileLock_Lock returns a token: the lock is granted.
LockGranted(p) ==
  /\ Compatible(p, LockModeOf(p))
  /\ lock' = [lock EXCEPT ![p] = LockModeOf(p)]

\* FileLock_Lock returns NULL: a timeout (err = 0) while another process
\* holds a conflicting lock, or an errno of its own.  lockToken stays NULL.
LockRefused(p) ==
  /\ \/ ~Compatible(p, LockModeOf(p))
     \/ Fails("lockerr")
  /\ UNCHANGED lock

\* FileIO_Open: the lock was granted but open() failed, so FileIO_Open
\* unlocks again before it returns the error.
OpenFails(p) ==
  /\ Compatible(p, LockModeOf(p))
  /\ Fails("open")
  /\ UNCHANGED lock

\* FileIO_Unlock: lockToken is set to NULL whether or not FileLock_Unlock
\* succeeded; when it failed, the lock it held stays on disk with no token
\* left to release it.
FileIO_Unlock(p) ==
  /\ lock' = [lock EXCEPT ![p] = NoLock]
  /\ \/ UNCHANGED orphan
     \/ /\ Fails("unlock")
        /\ orphan' = [orphan EXCEPT ![p] = lock[p]]

At(p, step) == pc[p] = step

GoTo(p, step) == pc' = [pc EXCEPT ![p] = step]

\* A protocol run ends: the process is back at idle.
Finish(p) ==
  /\ GoTo(p, "idle")
  /\ ops' = [ops EXCEPT ![p] = @ + 1]

-----------------------------------------------------------------------------
Init ==
  /\ fs = [path \in Paths |-> IF path = Orig THEN 1 ELSE NoFile]
  /\ data = [i \in Inodes |-> IF i = 1 THEN V0 ELSE Empty]
  /\ nextIno = 2
  /\ lock = [p \in Procs |-> NoLock]
  /\ curr = [p \in Procs |-> NoFile]
  /\ temp = [w \in Writers |-> NoFile]
  /\ xret = [w \in Writers |-> FALSE]
  /\ seen = [r \in Readers |-> V0]
  /\ pc = [p \in Procs |-> "idle"]
  /\ ops = [p \in Procs |-> 0]
  /\ crashes = 0
  /\ orphan = [p \in Procs |-> NoLock]

(***************************************************************************)
(* Writer: FileIO_Open(curr, Orig, FILEIO_OPEN_ACCESS_WRITE |              *)
(* FILEIO_OPEN_LOCKED): FileIO_Lock, then open() of the path.  A refused   *)
(* lock, or an open that fails after the lock (which FileIO_Open then      *)
(* unlocks), ends the run.                                                 *)
(***************************************************************************)
OpenCurr(w) ==
  /\ At(w, "idle")
  /\ ops[w] < MaxOps
  /\ xret' = [xret EXCEPT ![w] = FALSE]
  /\ \/ /\ LockGranted(w)
        /\ curr' = [curr EXCEPT ![w] = fs[Orig]]
        /\ GoTo(w, "tmp")
        /\ UNCHANGED ops
     \/ /\ LockRefused(w) \/ OpenFails(w)
        /\ Finish(w)
        /\ UNCHANGED curr
  /\ UNCHANGED <<fs, data, nextIno, temp, seen, crashes, orphan>>

(***************************************************************************)
(* FileIO_AtomicTempFile, first part: FileIOAtomicTempPath (File_FullPath) *)
(* and fstat of the original can fail before anything is created; then     *)
(* the stale sibling is unlinked (Posix_Unlink, its failure ignored).      *)
(***************************************************************************)
TempPrepare(w) ==
  /\ At(w, "tmp")
  /\ \/ /\ Fails("fullpath") \/ Fails("fstat")
        /\ GoTo(w, "closecurr")
        /\ UNCHANGED fs
     \/ /\ fs' = [fs EXCEPT ![Temp] = NoFile]
        /\ GoTo(w, "create")
  /\ UNCHANGED <<data, nextIno, lock, curr, temp, xret, seen, ops,
                 crashes, orphan>>

(***************************************************************************)
(* FileIO_Create(tempFD, tempPath, READ | WRITE, FILEIO_OPEN_CREATE, mode): *)
(* O_CREAT without O_EXCL, so a file that reappeared at Temp is opened,    *)
(* not replaced.  On failure tempFD stays invalid and bail has nothing to  *)
(* clean up.                                                               *)
(***************************************************************************)
TempCreate(w) ==
  /\ At(w, "create")
  /\ \/ /\ fs[Temp] # NoFile
        /\ temp' = [temp EXCEPT ![w] = fs[Temp]]
        /\ GoTo(w, "attrs")
        /\ UNCHANGED <<fs, nextIno>>
     \/ /\ fs[Temp] = NoFile
        /\ nextIno <= MaxInodes
        /\ fs' = [fs EXCEPT ![Temp] = nextIno]
        /\ temp' = [temp EXCEPT ![w] = nextIno]
        /\ nextIno' = nextIno + 1
        /\ GoTo(w, "attrs")
     \/ /\ Fails("create")
        /\ GoTo(w, "closecurr")
        /\ UNCHANGED <<fs, nextIno, temp>>
  /\ UNCHANGED <<data, lock, curr, xret, seen, ops, crashes, orphan>>

(***************************************************************************)
(* fchmod and fchown of the temp file.  If either fails, bail closes       *)
(* tempFD and unlinks tempPath.                                            *)
(***************************************************************************)
TempAttrs(w) ==
  /\ At(w, "attrs")
  /\ \/ /\ GoTo(w, "write")
        /\ UNCHANGED <<fs, temp>>
     \/ /\ Fails("fchmod") \/ Fails("fchown")
        /\ temp' = [temp EXCEPT ![w] = NoFile]
        /\ fs' = [fs EXCEPT ![Temp] = NoFile]
        /\ GoTo(w, "closecurr")
  /\ UNCHANGED <<data, nextIno, lock, curr, xret, seen, ops, crashes, orphan>>

(***************************************************************************)
(* The caller writes its content into the temp descriptor with one        *)
(* FileIO_Pwrite at offset 0 (FILEIO_SUCCESS or FILEIO_ERROR).  A failed  *)
(* write leaves part of it behind, and the caller discards the temp file.  *)
(***************************************************************************)
\* Mutant: the caller exchanges the temp file even when its write failed.
WriteTempUnchecked(w) ==
  /\ At(w, "write")
  /\ \/ data' = [data EXCEPT ![temp[w]] = w]
     \/ /\ Fails("write")
        /\ data' = [data EXCEPT ![temp[w]] = Partial]
  /\ GoTo(w, "xchg")
  /\ UNCHANGED <<fs, nextIno, lock, curr, temp, xret, seen, ops,
                 crashes, orphan>>

WriteTemp(w) ==
  /\ At(w, "write")
  /\ \/ /\ data' = [data EXCEPT ![temp[w]] = w]
        /\ GoTo(w, "xchg")
     \/ /\ Fails("write")
        /\ data' = [data EXCEPT ![temp[w]] = Partial]
        /\ GoTo(w, "discard")
  /\ UNCHANGED <<fs, nextIno, lock, curr, temp, xret, seen, ops,
                 crashes, orphan>>

(***************************************************************************)
(* FileIO_CloseAndUnlink(tempFD): ret = FileIO_Close(fd) || File_Unlink.   *)
(* When the close reports an error the unlink is never attempted.          *)
(***************************************************************************)
FileIO_CloseAndUnlink(w) ==
  /\ temp' = [temp EXCEPT ![w] = NoFile]
  /\ \/ fs' = [fs EXCEPT ![Temp] = NoFile]
     \/ /\ Fails("close")
        /\ UNCHANGED fs

DiscardTemp(w) ==
  /\ At(w, "discard")
  /\ temp[w] # NoFile
  /\ FileIO_CloseAndUnlink(w)
  /\ GoTo(w, "closecurr")
  /\ UNCHANGED <<data, nextIno, lock, curr, xret, seen, ops, crashes, orphan>>

(***************************************************************************)
(* FileIO_AtomicExchangeFiles, VMFS branch: both names resolve to the same *)
(* directory, the swap ioctl is issued on the directory and exchanges the  *)
(* two files' contents; both descriptors stay open.  An overlong name, a   *)
(* failed open of the directory or a failed ioctl returns FALSE with       *)
(* nothing changed.  The caller then discards the temp file.               *)
(***************************************************************************)
\* Mutant: ret set to TRUE without looking at the ioctl's result.
ExchangeVMKRetUnchecked(w) ==
  /\ At(w, "xchg")
  /\ IsVMK
  /\ \/ /\ fs[Temp] # NoFile
        /\ data' = [data EXCEPT ![fs[Orig]] = data[fs[Temp]],
                                ![fs[Temp]] = data[fs[Orig]]]
     \/ /\ Fails("swap")
        /\ UNCHANGED data
  /\ xret' = [xret EXCEPT ![w] = TRUE]
  /\ GoTo(w, "discard")
  /\ UNCHANGED <<fs, nextIno, lock, curr, temp, seen, ops, crashes, orphan>>

ExchangeVMK(w) ==
  /\ At(w, "xchg")
  /\ IsVMK
  /\ \/ /\ fs[Temp] # NoFile
        /\ data' = [data EXCEPT ![fs[Orig]] = data[fs[Temp]],
                                ![fs[Temp]] = data[fs[Orig]]]
        /\ xret' = [xret EXCEPT ![w] = TRUE]
     \/ /\ Fails("swap")
        /\ UNCHANGED <<data, xret>>
  /\ GoTo(w, "discard")
  /\ UNCHANGED <<fs, nextIno, lock, curr, temp, seen, ops, crashes, orphan>>

(***************************************************************************)
(* FileIO_AtomicExchangeFiles, hosted branch: FileIO_Close(newFD); the     *)
(* native close of currFD, which keeps its lock token; then                *)
(* File_RenameRetry(newPath, currPath, 10).  The rename rebinds Orig to    *)
(* the temp inode and removes Temp; when Temp is gone or the retries run   *)
(* out it fails and ret stays FALSE.                                       *)
(***************************************************************************)
\* Mutant: File_RenameRetry(currPath, newPath, 10), arguments swapped.
ExchangeHostedRenameSwapped(w) ==
  /\ At(w, "xchg")
  /\ ~IsVMK
  /\ temp' = [temp EXCEPT ![w] = NoFile]
  /\ curr' = [curr EXCEPT ![w] = NoFile]
  /\ \/ /\ fs[Orig] # NoFile
        /\ fs' = [fs EXCEPT ![Temp] = fs[Orig], ![Orig] = NoFile]
        /\ xret' = [xret EXCEPT ![w] = TRUE]
     \/ /\ Fails("rename")
        /\ UNCHANGED <<fs, xret>>
  /\ GoTo(w, "reclose")
  /\ UNCHANGED <<data, nextIno, lock, seen, ops, crashes, orphan>>

\* Mutant: ret = TRUE whether or not File_RenameRetry failed.
ExchangeHostedRetUnchecked(w) ==
  /\ At(w, "xchg")
  /\ ~IsVMK
  /\ temp' = [temp EXCEPT ![w] = NoFile]
  /\ curr' = [curr EXCEPT ![w] = NoFile]
  /\ \/ /\ fs[Temp] # NoFile
        /\ fs' = [fs EXCEPT ![Orig] = fs[Temp], ![Temp] = NoFile]
     \/ /\ Fails("rename")
        /\ UNCHANGED fs
  /\ xret' = [xret EXCEPT ![w] = TRUE]
  /\ GoTo(w, "reclose")
  /\ UNCHANGED <<data, nextIno, lock, seen, ops, crashes, orphan>>

\* Mutant: currFD closed with FileIO_Close, dropping the lock, as the rename
\* is issued.
ExchangeHostedDropsLock(w) ==
  /\ At(w, "xchg")
  /\ ~IsVMK
  /\ temp' = [temp EXCEPT ![w] = NoFile]
  /\ curr' = [curr EXCEPT ![w] = NoFile]
  /\ FileIO_Unlock(w)
  /\ \/ /\ fs[Temp] # NoFile
        /\ fs' = [fs EXCEPT ![Orig] = fs[Temp], ![Temp] = NoFile]
        /\ xret' = [xret EXCEPT ![w] = TRUE]
     \/ /\ Fails("rename")
        /\ UNCHANGED <<fs, xret>>
  /\ GoTo(w, "reclose")
  /\ UNCHANGED <<data, nextIno, seen, ops, crashes>>

ExchangeHosted(w) ==
  /\ At(w, "xchg")
  /\ ~IsVMK
  /\ temp' = [temp EXCEPT ![w] = NoFile]
  /\ curr' = [curr EXCEPT ![w] = NoFile]
  /\ \/ /\ fs[Temp] # NoFile
        /\ fs' = [fs EXCEPT ![Orig] = fs[Temp], ![Temp] = NoFile]
        /\ xret' = [xret EXCEPT ![w] = TRUE]
     \/ /\ Fails("rename")
        /\ UNCHANGED <<fs, xret>>
  /\ GoTo(w, "reclose")
  /\ UNCHANGED <<data, nextIno, lock, seen, ops, crashes, orphan>>

\* bail: FileIO_Close(currFD), which releases the lock token ("XXX - We
\* shouldn't drop the file lock here", PR 769296).
ExchangeReclose(w) ==
  /\ At(w, "reclose")
  /\ FileIO_Unlock(w)
  /\ GoTo(w, "reopen")
  /\ UNCHANGED <<fs, data, nextIno, curr, temp, xret, seen, ops, crashes>>

\* FileIO_Open(currFD, currPath, currAccess, 0): the lock is taken again
\* and Orig reopened; if that fails the process Panics.
ExchangeReopen(w) ==
  /\ At(w, "reopen")
  /\ \/ /\ LockGranted(w)
        /\ curr' = [curr EXCEPT ![w] = fs[Orig]]
        /\ GoTo(w, "closecurr")
     \/ /\ OpenFails(w)
        /\ UNCHANGED curr
        /\ GoTo(w, "panic")
     \/ /\ LockRefused(w)
        /\ GoTo(w, "panic")
        /\ UNCHANGED curr
  /\ UNCHANGED <<fs, data, nextIno, temp, xret, seen, ops, crashes, orphan>>

\* Mutant: the final close of currFD skips FileIO_Unlock.
CloseCurrKeepsLock(w) ==
  /\ At(w, "closecurr")
  /\ curr' = [curr EXCEPT ![w] = NoFile]
  /\ Finish(w)
  /\ UNCHANGED <<fs, data, nextIno, lock, temp, xret, seen, crashes, orphan>>

\* FileIO_Close(currFD): FileIO_Unlock, then the descriptor is closed.
CloseCurr(w) ==
  /\ At(w, "closecurr")
  /\ FileIO_Unlock(w)
  /\ curr' = [curr EXCEPT ![w] = NoFile]
  /\ Finish(w)
  /\ UNCHANGED <<fs, data, nextIno, temp, xret, seen, crashes>>

\* Panic aborts the process; the OS closes whatever it still had open and
\* FileLock breaks the locks of the dead process.
PanicExit(w) ==
  /\ At(w, "panic")
  /\ curr' = [curr EXCEPT ![w] = NoFile]
  /\ lock' = [lock EXCEPT ![w] = NoLock]
  /\ orphan' = [orphan EXCEPT ![w] = NoLock]
  /\ Finish(w)
  /\ UNCHANGED <<fs, data, nextIno, temp, xret, seen, crashes>>

-----------------------------------------------------------------------------
(***************************************************************************)
(* Reader: FileIO_Open(fd, Orig, FILEIO_OPEN_ACCESS_READ |                 *)
(* FILEIO_OPEN_LOCKED), a read, FileIO_Close.                              *)
(***************************************************************************)
ReaderOpen(r) ==
  /\ At(r, "idle")
  /\ ops[r] < MaxOps
  /\ \/ /\ LockGranted(r)
        /\ curr' = [curr EXCEPT ![r] = fs[Orig]]
        /\ GoTo(r, "read")
        /\ UNCHANGED ops
     \/ /\ LockRefused(r)
        /\ Finish(r)
        /\ UNCHANGED curr
  /\ UNCHANGED <<fs, data, nextIno, temp, xret, seen, crashes, orphan>>

\* The reader's FileIO_Pread of the whole file at offset 0.
ReaderRead(r) ==
  /\ At(r, "read")
  /\ seen' = [seen EXCEPT ![r] = data[curr[r]]]
  /\ GoTo(r, "close")
  /\ UNCHANGED <<fs, data, nextIno, lock, curr, temp, xret, ops,
                 crashes, orphan>>

ReaderClose(r) ==
  /\ At(r, "close")
  /\ FileIO_Unlock(r)
  /\ curr' = [curr EXCEPT ![r] = NoFile]
  /\ Finish(r)
  /\ UNCHANGED <<fs, data, nextIno, temp, xret, seen, crashes>>

(***************************************************************************)
(* A process is killed between two steps.  The kernel closes its           *)
(* descriptors and FileLock breaks the locks of a dead holder, an orphaned *)
(* one too; what it put on disk stays.                                     *)
(***************************************************************************)
Crash(p) ==
  /\ crashes < MaxCrashes
  /\ pc[p] \notin {"idle", "panic"}
  /\ crashes' = crashes + 1
  /\ lock' = [lock EXCEPT ![p] = NoLock]
  /\ orphan' = [orphan EXCEPT ![p] = NoLock]
  /\ curr' = [curr EXCEPT ![p] = NoFile]
  /\ temp' = [w \in Writers |-> IF w = p THEN NoFile ELSE temp[w]]
  /\ Finish(p)
  /\ UNCHANGED <<fs, data, nextIno, xret, seen>>

\* Every process has completed its runs: the system has stopped.
Done ==
  /\ \A p \in Procs : pc[p] = "idle" /\ ops[p] = MaxOps
  /\ UNCHANGED vars

Writer(w) ==
  \/ OpenCurr(w) \/ TempPrepare(w) \/ TempCreate(w) \/ TempAttrs(w)
  \/ WriteTemp(w) \/ DiscardTemp(w) \/ ExchangeVMK(w) \/ ExchangeHosted(w)
  \/ ExchangeReclose(w) \/ ExchangeReopen(w) \/ CloseCurr(w) \/ PanicExit(w)

Reader(r) == ReaderOpen(r) \/ ReaderRead(r) \/ ReaderClose(r)

Next ==
  \/ \E w \in Writers : Writer(w)
  \/ \E r \in Readers : Reader(r)
  \/ \E p \in Procs : Crash(p)
  \/ Done

Spec == Init /\ [][Next]_vars

\* Each process is an OS process or thread that keeps being scheduled, and
\* every step it can take returns (FileLock_Lock after its bounded wait),
\* so each is weakly fair.  Being killed is not a step anybody must take.
FairSpec ==
  /\ Spec
  /\ \A w \in Writers : WF_vars(Writer(w))
  /\ \A r \in Readers : WF_vars(Reader(r))

-----------------------------------------------------------------------------
(***************************************************************************)
(* Properties.                                                             *)
(***************************************************************************)

\* Every variable holds a value of its type.
TypeOK ==
  /\ fs \in [Paths -> Inodes \cup {NoFile}]
  /\ data \in [Inodes -> Contents]
  /\ nextIno \in 2..(MaxInodes + 1)
  /\ lock \in [Procs -> LockModes]
  /\ curr \in [Procs -> Inodes \cup {NoFile}]
  /\ temp \in [Writers -> Inodes \cup {NoFile}]
  /\ xret \in [Writers -> BOOLEAN]
  /\ seen \in [Readers -> Contents]
  /\ pc \in [Procs -> WriterPCs \cup ReaderPCs]
  /\ ops \in [Procs -> 0..MaxOps]
  /\ crashes \in 0..MaxCrashes
  /\ orphan \in [Procs -> LockModes]

OrigContent == data[fs[Orig]]

\* Whatever the interleaving of writers, readers, failed steps and killed
\* processes, the path Orig always names a file, and that file holds a
\* complete content: the initial one or one a writer wrote in full
\* (FileIO_AtomicTempFile, the write and FileIO_AtomicExchangeFiles
\* together never expose a missing or half-written Orig).
OrigIntact ==
  /\ fs[Orig] # NoFile
  /\ OrigContent \in {V0} \cup Writers

\* When FileIO_AtomicExchangeFiles has returned TRUE to a writer and the
\* writer still has Orig open and locked, Orig holds what that writer
\* wrote into the temp file (spec: content round-trip of a commit).
RoundTrip ==
  \A w \in Writers :
     pc[w] = "closecurr" /\ xret[w] => OrigContent = w

\* While a reader still holds Orig open under its shared lock, the file it
\* opened keeps the content it read: no exchange of either branch changes
\* a file under a reader's lock.
ReaderStable ==
  \A r \in Readers : pc[r] = "close" => data[curr[r]] = seen[r]

\* The refinement mapping: Orig's content, the writers whose token holds
\* the exclusive lock and the readers whose token holds a shared one.
AF == INSTANCE AtomicFile
        WITH content <- OrigContent,
             owner <- {w \in Writers : lock[w] = Excl},
             sharers <- {r \in Readers : lock[r] = Shared},
             Initial <- V0

\* FileIO_Lock, FileIO_AtomicTempFile, the write, FileIO_AtomicExchangeFiles
\* and FileIO_Close together implement AtomicFile: Orig's content changes
\* only in one step, to the complete version of the one writer holding the
\* exclusive lock while no reader shares it (the token survives the native
\* close of currFD up to the rename or swap), and a reader reads the
\* version Orig names at that moment, not a file renamed away.
AtomicFileSpec == AF!Spec

\* Every lock a process takes on Orig is eventually off the disk again:
\* FileIO_Close releases it on every path of FileIO_AtomicExchangeFiles and
\* of the reader, and a release that fails leaves no lock behind.
LockEventuallyReleased ==
  \A p \in Procs :
     lock[p] # NoLock \/ orphan[p] # NoLock
       ~> lock[p] = NoLock /\ orphan[p] = NoLock

\* FileIO_AtomicExchangeFiles never reaches its Panic: the reopen of the
\* original, which re-establishes the lock, does not fail.
NoPanic == \A w \in Writers : pc[w] # "panic"

\* Once a writer's protocol run has left FileIO_AtomicTempFile and the
\* temp file is finished with, on every path that does not exchange it
\* over Orig, no sibling file is left on disk (spec: no temp file node
\* survives a fully unwound failure).
SiblingCleanedUp ==
  \A w \in Writers : pc[w] = "closecurr" /\ ~xret[w] => fs[Temp] = NoFile

\* FileIO_AtomicExchangeFiles reports exactly the commits it makes: a step
\* that turns a writer's ret to TRUE is taken under that writer's exclusive
\* lock and leaves its content at Orig, and Orig's content never changes in
\* a step that does not return TRUE to some writer (no silent swap or rename,
\* no TRUE for a rename or swap that failed).
ExchangeReports ==
  /\ \A w \in Writers :
       ~xret[w] /\ xret'[w] => lock[w] = Excl /\ OrigContent' = w
  /\ OrigContent' # OrigContent => \E w \in Writers : ~xret[w] /\ xret'[w]

CommitReported == [][ExchangeReports]_vars

=============================================================================
