---------------------------- MODULE AdvisoryLock ----------------------------
(***************************************************************************)
(* What the Lock Manager promises to the handles that use it, with the     *)
(* errnos, file names and calls left out: a handle holds at most one lock  *)
(* on a path, taken for reading or for writing; a lock for writing is      *)
(* granted only while no other lock is on the path, one for reading only   *)
(* while no lock for writing is.  A released lock is gone, or, when the    *)
(* release failed, stays on the path with no handle holding it.           *)
(***************************************************************************)
CONSTANTS Clients, Paths

\* A lock: the path it is on and whether it was taken for writing.
Lock == [path : Paths, write : BOOLEAN]

VARIABLES
  held,   \* held[c]: the lock handle c holds, {} or a singleton
  stale   \* <<c, l>>: lock l that c no longer holds, still on its path

vars == <<held, stale>>

\* The locks on the paths: held ones and stale ones.
Present == (UNION {held[c] : c \in Clients}) \cup {s[2] : s \in stale}

\* A lock on p that a request (for writing if w) must wait for.
Excludes(p, w) == \E l \in Present : l.path = p /\ (w \/ l.write)

Init ==
  /\ held = [c \in Clients |-> {}]
  /\ stale = {}

\* acquire(handle, mode): granted only if nothing on p excludes it.
Acquire(c, p, w) ==
  /\ held[c] = {}
  /\ ~Excludes(p, w)
  /\ held' = [held EXCEPT ![c] = {[path |-> p, write |-> w]}]
  /\ UNCHANGED stale

\* release(token): the lock is removed.
Release(c) ==
  /\ held[c] # {}
  /\ held' = [held EXCEPT ![c] = {}]
  /\ UNCHANGED stale

\* release(token) that fails: the handle no longer holds the lock, but the
\* lock stays on its path.
Abandon(c) ==
  /\ held[c] # {}
  /\ held' = [held EXCEPT ![c] = {}]
  /\ stale' = stale \cup {<<c, l>> : l \in held[c]}

Next ==
  \E c \in Clients :
     \/ \E p \in Paths, w \in BOOLEAN : Acquire(c, p, w)
     \/ Release(c)
     \/ Abandon(c)

Spec == Init /\ [][Next]_vars
=============================================================================
