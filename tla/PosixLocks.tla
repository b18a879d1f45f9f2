----------------------------- MODULE PosixLocks -----------------------------
(***************************************************************************)
(* LockFile and UnlockFile of env_posix.cc on one file, called by threads  *)
(* of several processes.  A process keeps the names it has locked in a     *)
(* PosixLockTable; the kernel keeps one record lock per file, owned by a   *)
(* PROCESS, which goes away when the process closes ANY descriptor of the  *)
(* file (POSIX fcntl).                                                     *)
(***************************************************************************)
EXTENDS Naturals

CONSTANTS
  Process, Thread,
  ProcessOf(_),      \* the process a thread runs in
  NULL

ASSUME LocksAssumption ==
  /\ \A t \in Thread : ProcessOf(t) \in Process
  /\ NULL \notin Process

VARIABLES
  pc,                \* where each thread is in LockFile or UnlockFile
  locked_files_,     \* the processes whose lock table has the name
  kernel,            \* the process that owns the record lock, or NULL
  overlapped         \* history: processes with two calls or locks at once

vars == <<pc, locked_files_, kernel, overlapped>>

Step == {"idle", "opened", "refused", "inserted", "denied", "closed",
         "held", "unlocked", "removed"}
\* The steps at which a thread has its process's entry of the lock table.
Entered == {"inserted", "denied", "closed", "held", "unlocked"}

TypeOK ==
  /\ pc \in [Thread -> Step]
  /\ locked_files_ \in SUBSET Process
  /\ kernel \in Process \union {NULL}
  /\ overlapped \in SUBSET Process

Init ==
  /\ pc = [t \in Thread |-> "idle"]
  /\ locked_files_ = {}
  /\ kernel = NULL
  /\ overlapped = {}

----------------------------------------------------------------------------
Goto(t, s) == pc' = [pc EXCEPT ![t] = s]
\* close(fd) and F_UNLCK: what the kernel keeps of p's lock.
Dropped(p) == IF kernel = p THEN NULL ELSE kernel

\* LockFile: open(fname), which may also fail and leave everything as it is.
Open(t) ==
  /\ pc[t] = "idle"
  /\ Goto(t, "opened")
  /\ overlapped' = overlapped \union
       {p \in {ProcessOf(t)} : \E u \in Thread \ {t} : ProcessOf(u) = p /\ pc[u] # "idle"}
  /\ UNCHANGED <<locked_files_, kernel>>

\* PosixLockTable::Insert, under the table's mutex.
Insert_any(t) ==   \* faulty: what insert() returns is not looked at
  /\ pc[t] = "opened"
  /\ Goto(t, "inserted")
  /\ locked_files_' = locked_files_ \union {ProcessOf(t)}
  /\ UNCHANGED <<kernel, overlapped>>
Insert(t) ==
  /\ pc[t] = "opened"
  /\ Goto(t, IF ProcessOf(t) \in locked_files_ THEN "refused" ELSE "inserted")
  /\ locked_files_' = locked_files_ \union {ProcessOf(t)}
  /\ UNCHANGED <<kernel, overlapped>>

\* "already held by process": close(fd) and return.
CloseRefused(t) ==
  /\ pc[t] = "refused"
  /\ Goto(t, "idle")
  /\ kernel' = Dropped(ProcessOf(t))
  /\ UNCHANGED <<locked_files_, overlapped>>

\* LockOrUnlock(fd, true): F_SETLK never waits.
Lock_always(t) ==   \* faulty: the result of fcntl is not looked at
  /\ pc[t] = "inserted"
  /\ Goto(t, "held")
  /\ kernel' = IF kernel = NULL THEN ProcessOf(t) ELSE kernel
  /\ UNCHANGED <<locked_files_, overlapped>>
Lock(t) ==
  /\ pc[t] = "inserted"
  /\ IF kernel \in {NULL, ProcessOf(t)}
     THEN Goto(t, "held") /\ kernel' = ProcessOf(t)
     ELSE Goto(t, "denied") /\ UNCHANGED kernel
  /\ UNCHANGED <<locked_files_, overlapped>>

\* fcntl failed: close(fd), then Remove(fname).
CloseDenied(t) ==
  /\ pc[t] = "denied"
  /\ Goto(t, "closed")
  /\ kernel' = Dropped(ProcessOf(t))
  /\ UNCHANGED <<locked_files_, overlapped>>
RemoveDenied(t) ==
  /\ pc[t] = "closed"
  /\ Goto(t, "idle")
  /\ locked_files_' = locked_files_ \ {ProcessOf(t)}
  /\ UNCHANGED <<kernel, overlapped>>

\* UnlockFile: F_UNLCK, then Remove(name_), then close(fd_).
Unlock(t) ==
  /\ pc[t] = "held"
  /\ Goto(t, "unlocked")
  /\ kernel' = Dropped(ProcessOf(t))
  /\ UNCHANGED <<locked_files_, overlapped>>
Remove(t) ==
  /\ pc[t] = "unlocked"
  /\ Goto(t, "removed")
  /\ locked_files_' = locked_files_ \ {ProcessOf(t)}
  /\ UNCHANGED <<kernel, overlapped>>
Close(t) ==
  /\ pc[t] = "removed"
  /\ Goto(t, "idle")
  /\ kernel' = Dropped(ProcessOf(t))
  /\ UNCHANGED <<locked_files_, overlapped>>

\* The process ends; the kernel closes its descriptors.
Exit(p) ==
  /\ \E t \in Thread : ProcessOf(t) = p /\ pc[t] # "idle"
  /\ pc' = [t \in Thread |-> IF ProcessOf(t) = p THEN "idle" ELSE pc[t]]
  /\ locked_files_' = locked_files_ \ {p}
  /\ kernel' = Dropped(p)
  /\ overlapped' = overlapped \ {p}

LockStep(t) ==
  \/ Open(t) \/ Insert(t) \/ CloseRefused(t) \/ Lock(t) \/ CloseDenied(t)
  \/ RemoveDenied(t) \/ Unlock(t) \/ Remove(t) \/ Close(t)
Next == (\E t \in Thread : LockStep(t)) \/ (\E p \in Process : Exit(p))
Spec == Init /\ [][Next]_vars

----------------------------------------------------------------------------
\* LockFile gives a process the file once: of its threads, at most one is
\* between a successful Insert and the matching Remove, and the table has the
\* name exactly then.
OnceInProcess ==
  /\ \A t, u \in Thread :
        pc[t] \in Entered /\ pc[u] \in Entered /\ ProcessOf(t) = ProcessOf(u) => t = u
  /\ \A p \in Process :
        p \in locked_files_ <=> \E t \in Thread : ProcessOf(t) = p /\ pc[t] \in Entered

\* A lock LockFile returned is the kernel's until UnlockFile, as long as the
\* process never had two calls, or a call and a lock, at the same time: the
\* locks of such processes exclude each other.
LockKept ==
  \A t \in Thread :
    pc[t] = "held" /\ ProcessOf(t) \notin overlapped => kernel = ProcessOf(t)

\* In a process that has never overlapped, one thread at most is in a call or
\* holds the lock (the strengthening the proof of LockKept needs).
Alone ==
  \A t, u \in Thread :
    /\ pc[t] # "idle" /\ pc[u] # "idle"
    /\ ProcessOf(t) = ProcessOf(u) /\ ProcessOf(t) \notin overlapped
    => t = u

\* The purpose of LockFile: two processes never both hold the file.
Exclusive ==
  \A t, u \in Thread : pc[t] = "held" /\ pc[u] = "held" => ProcessOf(t) = ProcessOf(u)
=============================================================================
