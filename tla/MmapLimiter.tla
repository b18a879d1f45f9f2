---------------------------- MODULE MmapLimiter -----------------------------
(***************************************************************************)
(* NewRandomAccessFile of env_posix.cc and its MmapLimiter: a file is      *)
(* mapped as long as slots are left and otherwise read by pread.  Acquire  *)
(* looks at allowed_ once without mu_ and again with it.                   *)
(***************************************************************************)
EXTENDS Integers, FiniteSets

CONSTANTS
  Thread,
  File,              \* handles that may be open at the same time
  Limit              \* the mmaps allowed at first (1000)

VARIABLES
  allowed_,
  pc,                \* thread -> "idle", "open", "checked", "slot", "failed", "unmapped"
  handles            \* File -> "none", "mmap" or "pread"

vars == <<allowed_, pc, handles>>

TypeOK ==
  /\ allowed_ \in Int
  /\ pc \in [Thread -> {"idle", "open", "checked", "slot", "failed", "unmapped"}]
  /\ handles \in [File -> {"none", "mmap", "pread"}]

Init ==
  /\ allowed_ = Limit
  /\ pc = [t \in Thread |-> "idle"]
  /\ handles = [f \in File |-> "none"]

----------------------------------------------------------------------------
Goto(t, s) == pc' = [pc EXCEPT ![t] = s]
\* *result = new ...File: a handle not in use.
NewFile(kind) ==
  \E f \in File : handles[f] = "none" /\ handles' = [handles EXCEPT ![f] = kind]

\* NewRandomAccessFile: open(fname) succeeded.
Open(t) ==
  /\ pc[t] = "idle" /\ \E f \in File : handles[f] = "none"
  /\ Goto(t, "open")
  /\ UNCHANGED <<allowed_, handles>>

\* Acquire, the look without mu_: no slot, and the file is read by pread.
Glance(t) ==
  /\ pc[t] = "open"
  /\ IF allowed_ <= 0
     THEN Goto(t, "idle") /\ NewFile("pread")
     ELSE Goto(t, "checked") /\ UNCHANGED handles
  /\ UNCHANGED allowed_

\* Acquire with mu_ held: look again, and take the slot.
Acquire(t) ==
  /\ pc[t] = "checked"
  /\ IF allowed_ <= 0
     THEN Goto(t, "idle") /\ NewFile("pread") /\ UNCHANGED allowed_
     ELSE Goto(t, "slot") /\ allowed_' = allowed_ - 1 /\ UNCHANGED handles

\* GetFileSize and mmap: the mapped file, or an error of either.
Map(t) ==
  /\ pc[t] = "slot"
  /\ Goto(t, "idle") /\ NewFile("mmap")
  /\ UNCHANGED allowed_
MapFails_kept(t) ==   \* faulty: returns the error and keeps the slot
  /\ pc[t] = "slot"
  /\ Goto(t, "idle")
  /\ UNCHANGED <<allowed_, handles>>
MapFails(t) ==
  /\ pc[t] = "slot"
  /\ Goto(t, "failed")
  /\ UNCHANGED <<allowed_, handles>>

\* ~PosixMmapReadableFile: munmap; ~PosixRandomAccessFile: close.
Delete(t) ==
  /\ pc[t] = "idle"
  /\ \E f \in File :
       /\ handles[f] # "none"
       /\ handles' = [handles EXCEPT ![f] = "none"]
       /\ Goto(t, IF handles[f] = "mmap" THEN "unmapped" ELSE "idle")
  /\ UNCHANGED allowed_

\* Release, after munmap or on the error path.
Release(t) ==
  /\ pc[t] \in {"failed", "unmapped"}
  /\ allowed_' = allowed_ + 1
  /\ Goto(t, "idle")
  /\ UNCHANGED handles

LimiterStep(t) ==
  Open(t) \/ Glance(t) \/ Acquire(t) \/ Map(t) \/ MapFails(t) \/ Delete(t) \/ Release(t)
Next == \E t \in Thread : LimiterStep(t)
Spec == Init /\ [][Next]_vars

----------------------------------------------------------------------------
\* What has a slot: the mapped files, and the threads between Acquire and
\* Release or the new file.
Holders ==
  {f \in File : handles[f] = "mmap"} \union
  {t \in Thread : pc[t] \in {"slot", "failed", "unmapped"}}

\* No slot is lost, given out twice or given back twice, on any error path:
\* those in use and those left are always Limit.
SlotsExact == allowed_ + Cardinality(Holders) = Limit

\* Never more mappings than Limit, though allowed_ is first read without mu_.
WithinLimit == Cardinality({f \in File : handles[f] = "mmap"}) <= Limit
=============================================================================
