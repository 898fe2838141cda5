----------------------------- MODULE AtomicFile -----------------------------
(***************************************************************************)
(* What the Lock Manager and the Atomic Replacer promise together, with    *)
(* the files, descriptors and failures left out: a file whose content is   *)
(* replaced in one step by the one writer that holds it exclusively, while *)
(* no reader shares it, and whose sharers read the current content.        *)
(***************************************************************************)
CONSTANTS Writers, Readers, Initial

VARIABLES
  content,  \* the version the path names
  owner,    \* the writers holding the exclusive lock: {} or a singleton
  sharers,  \* the readers holding a shared lock
  seen      \* seen[r]: the version reader r last read

vars == <<content, owner, sharers, seen>>

Init ==
  /\ content = Initial
  /\ owner = {}
  /\ sharers = {}
  /\ seen = [r \in Readers |-> Initial]

\* acquire(handle, Exclusive) succeeds only on a file nobody holds.
Acquire(w) ==
  /\ owner = {}
  /\ sharers = {}
  /\ owner' = {w}
  /\ UNCHANGED <<content, sharers, seen>>

Release(w) ==
  /\ owner = {w}
  /\ owner' = {}
  /\ UNCHANGED <<content, sharers, seen>>

\* acquire(handle, Shared) succeeds while no writer holds the file.
Share(r) ==
  /\ owner = {}
  /\ sharers' = sharers \cup {r}
  /\ UNCHANGED <<content, owner, seen>>

Unshare(r) ==
  /\ r \in sharers
  /\ sharers' = sharers \ {r}
  /\ UNCHANGED <<content, owner, seen>>

\* commit: the owner's complete new version replaces the old one at once.
Commit(w) ==
  /\ owner = {w}
  /\ sharers = {}
  /\ content' = w
  /\ UNCHANGED <<owner, sharers, seen>>

Read(r) ==
  /\ r \in sharers
  /\ seen' = [seen EXCEPT ![r] = content]
  /\ UNCHANGED <<content, owner, sharers>>

Next ==
  \/ \E w \in Writers : Acquire(w) \/ Release(w) \/ Commit(w)
  \/ \E r \in Readers : Share(r) \/ Unshare(r) \/ Read(r)

Spec == Init /\ [][Next]_vars
=============================================================================
