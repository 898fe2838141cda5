# TLA+ models of open-vm-tools' atomic file replacement and guest backdoor helpers

This directory holds TLA+ models of the two C files of the repository, the
TLC configurations that model-check them, and TLAPS proofs:

- `src/open-vm-tools/lib/file/fileIO.c`: the storage core. It covers file
  locking, sibling temp files and atomic replacement of a file's contents.
- `src/open-vm-tools/lib/guestApp/guestApp.c`: guest-side helpers that talk
  to the host over the low-bandwidth backdoor.

`PROJECT.json` has the machine-readable inventory: components, runs,
mutants, the map from every definition to the source lines it models,
findings, hazards and theorems.

## The system

### fileIO.c

Its parts interact in one operation. A caller updates a file `F` in these
steps:

1. It opens `F` with `FILEIO_OPEN_LOCKED | FILEIO_OPEN_ACCESS_WRITE`. This
   calls `FileIO_Lock`, which takes an exclusive lock. A read-only open
   takes a shared lock instead.
2. `FileIO_AtomicTempFile` creates the sibling `F~`, with the same mode and
   owner as `F`.
3. The caller writes the new contents into the sibling.
4. `FileIO_AtomicExchangeFiles(new, curr)` commits the new contents. It uses
   one of two strategies:
   - **VMFS** (`HostType_OSIsVMK()`): a swap ioctl, issued on the directory,
     exchanges the two files' contents. Both descriptors stay open. The
     caller then closes and unlinks the sibling with
     `FileIO_CloseAndUnlink`.
   - **Hosted**: `newFD` is closed and `currFD` is closed natively, so that
     its lock token is kept. Then `File_RenameRetry(newPath, currPath)`
     runs. At `bail:`, `FileIO_Close(currFD)` releases the lock (XXX, PR
     769296). `FileIO_Open` then takes the lock again and reopens the file.
     If that reopen fails, the process Panics.
5. Finally `FileIO_Close` unlocks and closes `F`.

`FileIO_MsgError`, `FileIO_ErrorEnglish` and `FileIO_IsSuccess` describe
status codes. `FileIO_GetSize`, `FileIO_Pread` and `FileIO_Pwrite` are
plumbing.

`FileIO_Unlock` calls `FileLock_Unlock` and then sets the token to NULL,
whether or not the release succeeded. A release that fails returns
`FILEIO_ERROR` and leaves the lock file on disk. No token refers to that
lock any more, so nothing in the process can release it. This model calls
it an *orphan*.

Three primitives that this code calls are not in the repository:
`FileLock_Lock`/`FileLock_Unlock`, `FileIO_Open`/`FileIO_Close`/`FileIO_Create`
and `File_RenameRetry`. They are modelled from `spec.md` and marked
`spec_modelled` in the map.

### guestApp.c

Each helper packs its arguments into the 32-bit register `bp.in.size`,
issues one backdoor call and unpacks the host's answer from `bp.out.ax` and
`bp.out.bx`. The helpers cover:

- the pointer position;
- the host-to-guest clipboard, fetched one uint32 piece per call;
- the guest-to-host selection length and pieces;
- device toggling and the device information loop;
- two RPC capability queries.

The host, the VMX, is not in the repository. The models treat it as the
environment.

## Modules

| module | models |
|---|---|
| `FileIOAtomic` | Lock manager, temp-file factory, atomic replacer, and the handle lifecycle of the writer and reader processes that use them |
| `FileIOResult` | Status codes, `FileIO_MsgError`, `FileIO_ErrorEnglish`, `FileIO_IsSuccess` and `FileIO_Lock`'s errno table |
| `GuestAppBackdoor` | All guestApp.c helpers except the options and path lookups |
| `AtomicFile` | The abstract specification of what the lock manager and the atomic replacer promise together |
| `AdvisoryLock` | The abstract specification of the lock manager alone: read and write locks on paths, and locks left behind by a failed release |
| `FileIODescriptor` | `FileIO_Init`, `FileIO_Cleanup`, `FileIO_Lock`, `FileIO_Unlock` and `FileIO_Filename` on several descriptors of one process |
| `FileIOAtomic_proofs` | TLAPS proofs of invariants of `FileIOAtomic` |
| `FileIOAtomic_refinement` | TLAPS proof that `FileIOAtomic` implements `AtomicFile` |
| `FileIODescriptor_proofs` | TLAPS proofs of write-lock exclusion across descriptors and that `FileIODescriptor` implements `AdvisoryLock` |
| `GuestAppBackdoor_proofs` | TLAPS proofs of the pointer, request, clipboard and device invariants of `GuestAppBackdoor` |
| `MC_FileIOAtomic`, `MC_FileIODescriptor`, `MC_GuestAppBackdoor` | Model values and constant definitions for TLC |

### FileIOAtomic

The processes are `Writers` and `Readers`, both model values. The
filesystem is modelled at the inode level:

- `fs` maps the paths `Orig` and `Temp` to inodes. `Temp` is
  `FileIOAtomicTempPath(Orig)`, which is `Orig` with `"~"` appended.
- `data` maps each inode to its content. A content is `V0`, `Partial`,
  `Empty` or the name of a writer.
- `nextIno` allocates fresh inodes, up to `MaxInodes`.

The per-process state is:

- `lock`: the mode of the process's token: `NoLock`, `Shared` or `Excl`;
- `orphan`: the mode of a lock the process failed to release, still on disk;
- `curr` and `temp`: the inodes of the open descriptors;
- `xret`: the result of the process's exchange;
- `seen`: what a reader read;
- `pc`: the program counter;
- `ops`: runs completed, bounded by `MaxOps`.

`crashes` counts crashes, bounded by `MaxCrashes`.

Each C step that changes state is one action:

| action | code |
|---|---|
| `OpenCurr` | `FileIO_Open` + `FileIO_Lock` |
| `TempPrepare` | `FileIOAtomicTempPath`, `fstat`, `Posix_Unlink` |
| `TempCreate` | `FileIO_Create` with `O_CREAT` and without `O_EXCL`; it reopens a sibling that reappeared |
| `TempAttrs` | `fchmod`/`fchown` and the `bail:` cleanup |
| `WriteTemp` | The caller's `FileIO_Pwrite` of its content at offset 0 |
| `DiscardTemp` / `FileIO_CloseAndUnlink` | The `Close || Unlink` short circuit |
| `ExchangeVMK` | The VMFS swap branch |
| `ExchangeHosted` | Hosted rename |
| `ExchangeReclose` | `FileIO_Close(currFD)`, which drops the lock |
| `ExchangeReopen` | `FileIO_Open`, going to Panic on failure |
| `CloseCurr` | The caller's final close |
| `PanicExit` | Panic |
| `ReaderOpen` / `ReaderRead` / `ReaderClose` | A reader's open, its `FileIO_Pread` at offset 0, and its close |

Every unlock (`ExchangeReclose`, `CloseCurr`, `ReaderClose`, and the lock
dropped by a failed hosted exchange) goes through `FileIO_Unlock`. It clears
the token and, if the `unlock` fault is enabled, may leave the lock as an
orphan. `FileLock_Lock` grants a request only if both the other processes'
tokens (`TokensAllow`) and all orphans (`OrphansAllow`) allow it.

`Crash(p)` kills a process between two steps. The kernel closes its
descriptors and FileLock breaks a dead holder's locks, its orphan included;
whatever the process put on disk stays. `PanicExit` is also a process exit
and clears the orphan the same way.

Every failure the code checks is a point in the `Faults` constant:
`fullpath`, `fstat`, `create`, `fchmod`, `fchown`, `write`, `close`,
`rename`, `swap`, `lockerr`, `open` and `unlock`. A run enables a failure by putting
its point in `Faults`. `Done` is the stuttering step once every process has
finished `MaxOps` runs. The system really stops there, so deadlock stays
checked.

### AtomicFile

This is the abstract specification. Its state:

- `content`: the version the path names;
- `owner`: the writer holding the file exclusively, or nobody;
- `sharers`: the readers sharing it;
- `seen`: what each reader last read.

Its actions:

- `Acquire` and `Release` take and drop the exclusive hold.
- `Share` and `Unshare` take and drop a shared hold.
- `Commit(w)` replaces the content with `w`'s complete version in one
  step. Only the owner may commit, and only while no reader shares the file.
- `Read(r)` reads the current content.

`FileIOAtomic` defines `AF == INSTANCE AtomicFile`, with this mapping:

- `content` is the data of the inode `Orig` names.
- `owner` is the set of processes whose token is `Excl`.
- `sharers` is the set of processes whose token is `Shared`.
- `seen` and `Initial` map to the same-named values.

Orphans are not part of the mapping. A failed release therefore maps to
`Release` or `Unshare`. The abstract lock is the token.

### FileIODescriptor

This module models the descriptor calls of one process on the descriptors
`Descs`. Each descriptor is driven by its own caller, with at most
`MaxCalls` calls.

The state of each descriptor is:

- `fileName`;
- `lockToken`: a record of the name and mode, or `NoToken`;
- `lockAccess`;
- `ret`: the last result;
- `calls`: the calls made so far.

`orphans` holds the `<<descriptor, lock>>` pairs whose release failed.
`OnDisk` is the set of locks FileLock sees: the tokens and the orphans.

The actions are as follows:

- **`FileIO_Init`** runs on a descriptor prepared by `FileIO_Invalidate`.
- **`FileIO_Cleanup`**.
- **`FileIO_Lock`** does nothing without `FILEIO_OPEN_LOCKED`. Otherwise it
  computes `readOnly` from the write bit, and either takes the lock or
  fails through the errno switch. A timeout (`err = 0`) is possible only
  on a conflict. The other errnos are `LockErrs`.
- **`FileIO_Unlock`** releases the token. Its release may fail when
  `UnlockFails` is set.

### AdvisoryLock

`AdvisoryLock` states the Lock Manager's contract (spec §4.1) on its own,
with names, errnos and results left out. `held[c]` is `{}` or the one lock
handle `c` holds, a record of its path and whether it was taken for
writing. `stale` holds the `<<c, lock>>` pairs that `c` no longer holds but
that stay on the path. `Acquire` grants a lock only if no present lock,
held or stale, excludes it. `Release` removes the lock. `Abandon` is a
release that fails: the lock leaves the handle and stays on the path. The
spec says a token is destroyed exactly once; the code's `FileIO_Unlock`
can fail, and `Abandon` is what it then does.

`FileIODescriptor` defines `AL == INSTANCE AdvisoryLock` with this mapping:

- `held[d]` is `{HeldLock(d)}` when `d` has a token: its name, and
  `write` exactly when `lockAccess[d]` has the write bit;
- `stale` is the set of `StaleLock(o)` for the orphans: the name, and
  `write` exactly when FileLock holds the orphan exclusively.

The access decides `write` for a token, so a `FileIO_Lock` that asked
FileLock for the wrong mode is not an `Acquire` of the mapped lock.

### FileIOResult

This module has no state. `LockStatusesDescribed` is a named `ASSUME`, which
TLC evaluates on every `MC_FileIOAtomic` run. It states:

- a refused `FileIO_Lock` never reports success;
- every status `FileIO_Lock` can return has a message of its own, never the
  "Unknown error" fallback;
- every code except `FILEIO_ERROR_LAST` has a distinct MSGID. NOSPC and
  DQUOT share their English text.

### GuestAppBackdoor

`HalfW` is the width of a half register: 16 in the code, 8 for TLC. All
arithmetic is done at that width:

- `Half` is 2^`HalfW` and `Word` is `Half * Half`, the 2^32 of the code.
- `Signed(v, m)` is the two's-complement conversion of an unsigned value
  below the modulus `m` to the signed type of the same width: `Half` for
  int16 and `Word` for int32.
- `Shl16` is `<< 16` truncated to the word. For values of 2^15 and above,
  the C code overflows a signed int. The build compiles this to the same
  bit pattern, and that is the outcome modelled.
- `Pack(hi, lo)` is `(hi << 16) | lo`. The two halves do not overlap, so
  `|` is modelled as addition.

Each helper is one action. Each loop iteration is its own step:
`GuestAppGetNextPiece` for the clipboard and
`GuestAppGetDeviceListElement` for device information. Leaving a loop is
also a step: `GetHostSelectionReturn` and `GetDeviceInfoReturn`.

The host is modelled by `HostUngrab`, `HostSetSelection` and
nondeterministic answers (`MouseWords`, `RpcOks`, the `ok` of a device
element). It latches the words it is sent in `hostReq` and `hostPtr`.

Two markers are tuples, so that they can be compared with coordinate
pairs: `Ungrabbed` is `<<-100, -100>>`, and `NoneYet` (no `GetPos` yet) is
`<<>>`. Neither is a pair of uint16 coordinates. A C `Bool` sent in a
request is the integer it is (`BoolInt`).

## Runs

| run | cfg | expect | shows |
|---|---|---|---|
| hosted | `MC_FileIOAtomic_hosted.cfg` | pass | On the rename strategy, under fairness: `Orig` is never missing or partial, a TRUE exchange leaves the writer's content, the protocol implements `AtomicFile`, every lock is eventually released, and the exchange returns TRUE exactly when it commits |
| vmk | `MC_FileIOAtomic_vmk.cfg` | pass | On the swap strategy with failing releases: the same invariants, refinement of `AtomicFile`, a reader's open file never changes under its shared lock, and the exchange returns TRUE exactly when it commits |
| orphanlock | `MC_FileIOAtomic_orphanlock.cfg` | violation | A failed `FileLock_Unlock` in the writer's close leaves a lock on disk forever |
| panic | `MC_FileIOAtomic_panic.cfg` | violation | A reader that locks the file in the unlocked window makes the writer Panic |
| lostcommit | `MC_FileIOAtomic_lostcommit.cfg` | violation | A second writer commits in that window, and the first writer's TRUE is a lost update |
| siblingleak | `MC_FileIOAtomic_siblingleak.cfg` | violation | A close error skips the unlink and leaves `F~` behind |
| locks | `MC_FileIODescriptor_locks.cfg` | pass | Three descriptors on two names, with lock errors and failing releases: a write lock is never on the name of another held lock, and the descriptor calls implement `AdvisoryLock` |
| pointer | `MC_GuestAppBackdoor_pointer.cfg` | pass | SetPos/GetPos packing across the int16 sign boundary, and the ungrabbed (-100, -100) |
| clipboard | `MC_GuestAppBackdoor_clipboard.cfg` | pass | GetHostSelection fetches exactly ceil(size/4) pieces |
| device | `MC_GuestAppBackdoor_device.cfg` | pass | The device loop overruns by at most 3 bytes and returns TRUE only when every piece was answered; request words decode |
| overrun | `MC_GuestAppBackdoor_overrun.cfg` | violation | With a 6-byte `RD_Info`, the last uint32 store ends past the structure |

The properties:

- **`OrigIntact`**: the original path always names a complete version,
  either `V0` or some writer's content.
- **`RoundTrip`**: a writer whose exchange returned TRUE finds its own
  content when it closes.
- **`CommitReported`** (an action property): a step that turns a
  writer's exchange result to TRUE is taken under its exclusive lock and
  leaves its content at `Orig`, and `Orig` changes in no step that does not
  return TRUE to some writer. A rename or swap whose return is ignored, or a
  TRUE for one that failed, breaks it.
- **`ReaderStable`**: what a reader read is still the content of its open
  inode.
- **`AtomicFileSpec`** (`AF!Spec` as a PROPERTY): the protocol implements
  `AtomicFile`. Under the mapping, every step is one abstract step or a
  stutter. `Orig` changes only in one step, to the complete version of the
  one writer with an exclusive token while no reader has a shared one. A
  read returns the version `Orig` names at that moment. This replaces an
  earlier action property, which said only that `Orig` changes under an
  exclusive lock.
- **`LockEventuallyReleased`**: a process that holds a token or an orphan
  eventually holds neither.
- **`ExclusiveAcrossDescriptors`**: a descriptor whose write lock succeeded
  and another descriptor holding a lock are never on the same name.
- **`AdvisoryLockSpec`** (`AL!Spec` as a PROPERTY): the descriptor calls
  implement `AdvisoryLock`. Unlike `ExclusiveAcrossDescriptors`, it also
  covers orphans: a lock granted while an orphan excludes it breaks it.
- **`NoPanic`** and **`SiblingCleanedUp`**: the spec's promises that the
  lock is held across the gap and that a failed update leaves no sibling.
  Both are violated.
- **`PosRoundTrip`**, **`RequestDecodes`**, **`SelectionExact`** and
  **`DeviceInfoBounded`**: guestApp.c's documented packing and buffer
  contracts.
- **`DeviceInfoInBounds`**: what a C reader expects. It is violated, as the
  XXX comment at line 741 concedes.

Every property of a passing run has a mutant in `PROJECT.json`: a plausible
bug in the mapped code, defined just before it, which TLC finds violating
that property. Examples are a swapped rename, an unchecked return value, a
lock taken shared, a piece count rounded down and a packing done in 16 bits.

### Bounds

- The hosted run has 1 writer, 2 readers, `MaxOps = 2` and one crash. With
  two readers, one can hold the lock while the other opens. It checks a
  liveness property, so it uses no symmetry. Its faults leave out `unlock`:
  with an injected release failure the liveness property is violated, and
  that is the `orphanlock` run.
- The vmk run has 2 writers, 1 reader, `MaxOps = 2` and one crash. Two
  writers make the stale-sibling reuse (`O_CREAT` without `O_EXCL`) and
  lock contention happen.
- `MaxInodes` is 1 plus one fresh inode per writer run, so allocation never
  blocks a run. Symmetry over the writers and over the readers is sound,
  because no action tells two processes of the same role apart.
- The vmk run enables `unlock`, so orphans block later lock requests while
  the invariants and the refinement are checked.
- The violation runs use the smallest instance that shows the trace: no
  faults other than the one they are about, and `MaxOps = 1`.
- The `locks` run has three descriptors on two names, with `MaxCalls = 4`,
  errnos `EROFS` and `ENOENT`, and failing releases. That is enough for two
  shared holders and a writer on one name, and for an orphan to block a
  request. Symmetry over descriptors and over names is sound.
- `HalfW = 8` keeps every value small. The inputs are the boundary values
  of each field, so every sign, truncation and rounding case happens:
  - 0, 127, 128, and 156 (= 256 - 100, which aliases the ungrabbed -100);
  - clipboard lengths 0, 1, 3, 4, 5 and the error answers -1 and -2;
  - device ids 0, 1, 128 and 255.

### Fairness

`FairSpec` adds weak fairness of each process's steps, `Writer(w)` and
`Reader(r)`. Two facts justify this:

- The OS scheduler runs a process that can proceed.
- The only wait in the code is inside `FileLock_Lock`, which times out. A
  lock request is therefore always enabled: it is granted or refused.

`Crash` is not fair. A process may die, but it is never forced to.
`LockEventuallyReleased` holds under `FairSpec` when releases succeed. The
`hosted` run shows this. When a release fails, the property is violated
(the `orphanlock` run). `FileIODescriptor` and `GuestAppBackdoor` check
only safety properties.

## Proofs

`FileIOAtomic_proofs` proves five theorems. The first three and
`CommitsReported` hold for every set of writers and readers, every fault
set and every bound, and rest only on `ConstantsAssumption`:

- `THEOREM TypeCorrect == Spec => []TypeOK`
- `THEOREM OrigAlwaysIntact == Spec => []OrigIntact`. This is the property
  that the hosted and vmk runs check.
- `THEOREM ReaderAlwaysStable == Spec => []ReaderStable`. It is proved
  from `IInv` together with `ReaderDiscipline`, which says that a reader
  at read or close has `Orig`'s current inode open. `ReadersApart` shows
  that a writer in its exchange steps excludes such readers. So no swap or
  rename moves the reader's file, and `WriteTemp` writes only the temp
  inode.

`OrigIntact` is not inductive on its own. Suppose a swap exchanges `Orig`
with an inode. The result is complete only if that inode holds the writer's
complete content, and only if no other writer can be in the middle of its
own update at the same time. The strengthening `IInv` adds:

- **`StepDiscipline`**: every pc is one of its role's steps, and a busy
  process has a run left.
- **`LockDiscipline`**:
  - a writer holds `Excl` exactly in its locked steps;
  - a reader holds `Shared` exactly while it reads;
  - an exclusive holder excludes every other lock.
- **`FileDiscipline`**:
  - `Orig` and `Temp` are distinct allocated inodes;
  - a writer with an open temp file has `temp[w] = fs[Temp]`;
  - a writer about to exchange has written its own content there.

The proof has three parts:

- **`InitIInv`** proves `Init => IInv`.
- **`NextIInv`** proves `IInv /\ [Next]_vars => IInv'`. It has one step per
  action, with a CASE for each disjunct of an action. Under each step there
  is one leaf per conjunct of `IInv`, each citing only the definitions it
  needs.
- **`InvariantIInv`** combines the two with PTL. Both theorems then follow
  from `IInv => TypeOK /\ OrigIntact`.

`IInv` was first checked by TLC as an invariant of all the FileIOAtomic
configurations. With orphans, `LockDiscipline`'s exclusion is about tokens
only. An orphan only makes `FileLock_Lock` refuse more requests.

Two more theorems are about what a writer is told:

- `THEOREM CommitsReported == Spec => CommitReported`, for every value
  of the constants. A step that sets `xret[w]` to TRUE puts `w`'s content
  at `Orig` under `w`'s `Excl` lock, and `Orig`'s content changes in no
  other step. It rests on `IInv` and `NoEarlyCommit`: no writer at
  `tmp` through `xchg` has `xret` TRUE. `NextNoEarly` shows that is
  inductive, and `NextReports` shows that every step satisfies
  `ExchangeReports`. `QuietStep` covers the steps that neither change
  `Orig` nor return TRUE.
- `THEOREM CommitRoundTrip == ASSUME SingleWriterOrVMK PROVE
  Spec => []RoundTrip`. `SingleWriterOrVMK` says the swap branch is taken
  (`IsVMK`) or there is only one writer. The hypothesis is needed: on the
  rename branch the writer gives up its lock between the rename and the
  reopen, and a second writer can commit in that window. The lostcommit
  run shows that. With the hypothesis, `CommitDiscipline` is inductive
  together with `IInv`. It has three parts:
  - `NoEarlyCommit`, as above;
  - `CommitKept`: a writer at `discard`, `reclose`, `reopen` or
    `closecurr` whose `xret` is TRUE finds its own content at `Orig`;
  - `SwapNeverReopens`: on the swap branch no writer is at `reclose`,
    `reopen` or `panic`.

  `HoldersApart` shows that two distinct writers are never both in their
  locked steps. So on the swap branch no other writer can commit while a
  writer is still in the steps after its exchange. TLC checked
  `IInv /\ CommitDiscipline` on the hosted and vmk configurations
  before the proof was written.

`FileIOAtomic_refinement` proves `THEOREM Refinement == Spec =>
AtomicFileSpec`. The proof has three parts:

- `Init` maps to `AF!Init`.
- `NextRefines` shows that, under `IInv /\ ReaderDiscipline`, every step
  of `Next` maps to an `AF!Next` step or a stutter. It has one step per
  action:
  - a granted exclusive or shared lock is `Acquire` or `Share`;
  - every `FileIO_Unlock`, failed or not, is `Release` or `Unshare`;
  - a swap or a rename that moves the writer's content into `Orig` is
    `Commit`, because the writer holds `Excl` and, by `LockDiscipline`,
    no token is `Shared`;
  - a read is `Read`;
  - a `Crash` is `Release`, `Unshare` or a stutter, depending on the lock
    it held.

  The frame lemmas `Stutter` and `SameContent` cover the steps that leave
  the mapped state alone.
- The conclusion combines `[](IInv /\ ReaderDiscipline)` with PTL.

`FileIODescriptor_proofs` proves `THEOREM WriteLocksExclusive == Spec =>
[]ExclusiveAcrossDescriptors`, from `DescriptorAssumption`. The property
is about the access a token was granted for, but `FileLock_Lock` decides by
modes. The inductive `LockInv` therefore adds two facts:

- a token granted for write access is `Excl` (from `ReadOnly`);
- two tokens on one name are both `Shared` (from the contract: a granted
  lock conflicts with no lock on disk, and by `TokenOnDisk` every token is
  on disk).

`FileIODescriptor_proofs` also proves `THEOREM LocksRefine == Spec =>
AdvisoryLockSpec`, from `DescriptorAssumption`. The mapping names a token
a write lock by its access, and FileLock decides by modes. So the
invariant `RefInv` adds `AccessMatchesMode` to `LockInv`: a held token is
`Excl` exactly when its access has the write bit. TLC checked it on the
locks configuration first. The proof has three parts:

- `Init` maps to `AL!Init`;
- `NextRefinesAL` has one step per action:
  - a granted lock is `Acquire`. `PresentOnDisk` shows that every present
    abstract lock stands for a lock on disk with the same path, for
    writing exactly when it is `Excl`. So `~Conflicts` gives
    `~Excludes`;
  - a successful release of a token is `Release`;
  - a failed one is `Abandon`, because the new orphan maps to the
    handle's held lock;
  - every other step leaves tokens, accesses and orphans alone, and
    `LocksUnmoved` shows that is a stutter;
- the conclusion combines `[]RefInv` with PTL.

The first attempt at this proof found an error in `AdvisoryLock` itself.
`UNION {...} \cup {...}` parses as `UNION ({...} \cup {...})`, so stale
locks were not among the present ones. The parentheses were added and the
locks run was repeated.

`GuestAppBackdoor_proofs` proves four theorems about the guestApp.c
helpers, for every `HalfW >= 8` and every coordinate, selection word,
piece, device id and `InfoSize` that `BackdoorAssumption` allows:

- `THEOREM PointerRoundTrip == Spec => []PosRoundTrip`
- `THEOREM RequestsDecode == Spec => []RequestDecodes`
- `THEOREM SelectionCopiesExactly == Spec => []SelectionExact`
- `THEOREM DeviceInfoWithinSlack == Spec => []DeviceInfoBounded`

The provers do not reason about `^`. `HalfAssumption` therefore states
what `HalfW >= 8` makes of `Half`: an even natural number of at least 256.
TLC evaluates it on every run. No property holds by itself as an
inductive invariant. The proofs rest on `BackdoorInv`, which adds three
facts to `TypeOK` and the two decoding properties:

- `PtrLatched`: the host's latched pointer word is the packed form of the
  pair it answers with, or the ungrabbed word. Without it, `GetPos` could
  read back a word that no `SetPos` packed.
- `SelCounted`: the announced size is below 2^31, and the loop end is
  `(size + 3) / 4` (the `% Word` of the C addition never wraps). Once the
  loop is done, the pieces read equal that end.
- `DevCounted`: `offset = 4 * fetched`. The offset stays at most
  `InfoSize + 3`, and a TRUE return comes with `offset >= InfoSize`.

TLC checks `BackdoorInv` as an invariant of the pointer, clipboard and
device configurations. `InitInv` and `NextInv` prove it initial and
inductive, with one step per action and one leaf per conjunct. The leaves
use the lemmas on the model's arithmetic:

- `PackDecode` and `HalvesSplit`: the halves of `Pack(x, y)`;
- `HalvesOfWord`: the halves of a word;
- `SignedRange`: the range of `Signed`;
- `UngrabbedDecodes`: the ungrabbed word decodes to (-100, -100);
- `ToggleDecode`: the id and connect bit of a toggle word.

The following stay with TLC only:

- the violated properties, and `RoundTrip` on the rename branch with
  several writers, where it does not hold (lostcommit);
- `LockEventuallyReleased`: liveness and `ENABLED` are outside the provers'
  reach;
- the `FileIOResult` assumption;

No module uses RECURSIVE.

## Findings

Details and line numbers are in `PROJECT.json`.

1. **Hosted exchange drops the lock** (`fileIO.c:853`). This is the `panic`
   and `lostcommit` runs. A reader that locks the file in the window makes
   the reopen fail, and the process Panics. A writer that commits in the
   window turns the first writer's TRUE into a lost update. The spec says
   the lock is held throughout.
2. **`FileIO_CloseAndUnlink` short circuit** (`fileIO.c:469`). This is the
   `siblingleak` run. A close error skips the unlink.
3. **Orphaned lock** (`fileIO.c:354`). This is the `orphanlock` run.
   `FileIO_Unlock` clears the token even when `FileLock_Unlock` fails. The
   lock stays on disk until the process exits, and every other process's
   lock on the path times out until then. The spec does not say what a
   failed release does.
4. **Device info overrun** (`guestApp.c:747`). This is the `overrun` run.
   It writes up to 3 bytes past `RD_Info`.

## Not modelled

- **Size queries** (`FileIO_GetSize`, `FileIO_GetSizeByPath`): they change
  nothing, and no property depends on a size. `FileIO_Pwrite` and
  `FileIO_Pread` are modelled as the single `WriteTemp` and `ReaderRead`
  steps, each at offset 0.
- **guestApp options and install-path lookups**: registry, string and RPC
  one-shots. The spec puts them out of scope.
- **The host side of the clipboard protocol**: it is not in the repository.
  The host changes its clipboard only between copies, because what
  `GETNEXTPIECE` does after a mid-copy change is unknown. This is listed as
  a hazard.
- **Memory**: the uninitialised `free(result)` of
  `GuestApp_IsDiskShrinkEnabled` is a hazard that no property covers.
