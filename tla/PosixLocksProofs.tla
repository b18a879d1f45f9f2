-------------------------- MODULE PosixLocksProofs --------------------------
(***************************************************************************)
(* What LockFile and UnlockFile guarantee for any processes and threads.   *)
(***************************************************************************)
EXTENDS PosixLocks, TLAPS

\* The initial state: nobody is in a call and nothing is locked.
LEMMA InitInv == Init => TypeOK /\ OnceInProcess /\ Alone /\ LockKept
BY DEF Init, TypeOK, Step, Entered, OnceInProcess, Alone, LockKept

\* Every step of LockFile and UnlockFile keeps the state well typed.
LEMMA TypeStep == TypeOK /\ [Next]_vars => TypeOK'
<1> SUFFICES ASSUME TypeOK, [Next]_vars PROVE TypeOK'
    OBVIOUS
<1>1. ASSUME NEW t \in Thread, LockStep(t) PROVE TypeOK'
  <2>1. \A s \in Step : [pc EXCEPT ![t] = s] \in [Thread -> Step]
        BY DEF TypeOK
  <2>2. ProcessOf(t) \in Process
        BY LocksAssumption
  <2> QED
      BY <1>1, <2>1, <2>2 DEF TypeOK, Step, Goto, Dropped, LockStep, Open, Insert,
         CloseRefused, Lock, CloseDenied, RemoveDenied, Unlock, Remove, Close
<1>2. ASSUME NEW p \in Process, Exit(p) PROVE TypeOK'
      BY <1>2 DEF TypeOK, Step, Exit, Dropped
<1>3. CASE UNCHANGED vars
      BY <1>3 DEF TypeOK, vars
<1> QED
    BY <1>1, <1>2, <1>3 DEF Next

\* PosixLockTable admits one thread of a process at a time, and has the name
\* while that thread is between Insert and Remove.
LEMMA OnceStep == TypeOK /\ OnceInProcess /\ [Next]_vars => OnceInProcess'
<1> SUFFICES ASSUME TypeOK, OnceInProcess, [Next]_vars PROVE OnceInProcess'
    OBVIOUS
<1> USE DEF TypeOK, OnceInProcess, Entered
<1>1. ASSUME NEW t \in Thread, LockStep(t) PROVE OnceInProcess'
  <2>0. ProcessOf(t) \in Process
        BY LocksAssumption
  <2>1. CASE Open(t)
        BY <2>1, <2>0 DEF Open, Goto
  <2>2. CASE Insert(t)
        BY <2>2, <2>0 DEF Insert, Goto
  <2>3. CASE CloseRefused(t)
        BY <2>3, <2>0 DEF CloseRefused, Goto
  <2>4. CASE Lock(t)
        BY <2>4, <2>0 DEF Lock, Goto
  <2>5. CASE CloseDenied(t)
        BY <2>5, <2>0 DEF CloseDenied, Goto
  <2>6. CASE RemoveDenied(t)
        BY <2>6, <2>0 DEF RemoveDenied, Goto
  <2>7. CASE Unlock(t)
        BY <2>7, <2>0 DEF Unlock, Goto
  <2>8. CASE Remove(t)
        BY <2>8, <2>0 DEF Remove, Goto
  <2>9. CASE Close(t)
        BY <2>9, <2>0 DEF Close, Goto
  <2> QED
      BY <1>1, <2>1, <2>2, <2>3, <2>4, <2>5, <2>6, <2>7, <2>8, <2>9 DEF LockStep
<1>2. ASSUME NEW p \in Process, Exit(p) PROVE OnceInProcess'
      BY <1>2 DEF Exit
<1>3. CASE UNCHANGED vars
      BY <1>3 DEF vars
<1> QED
    BY <1>1, <1>2, <1>3 DEF Next

\* Open marks the process as overlapped as soon as it finds another thread of
\* it in a call or holding the lock; no other step starts a call.
LEMMA AloneStep == TypeOK /\ Alone /\ [Next]_vars => Alone'
<1> SUFFICES ASSUME TypeOK, Alone, [Next]_vars PROVE Alone'
    OBVIOUS
<1> USE DEF TypeOK, Alone
<1>1. ASSUME NEW t \in Thread, LockStep(t) PROVE Alone'
  <2>1. CASE Open(t)
        BY <2>1 DEF Open, Goto
  <2>2. CASE pc[t] # "idle" /\ overlapped' = overlapped /\ \E s \in Step : Goto(t, s)
        BY <2>2 DEF Goto
  <2> QED
      BY <1>1, <2>1, <2>2 DEF LockStep, Step, Goto, Open, Insert, CloseRefused, Lock,
         CloseDenied, RemoveDenied, Unlock, Remove, Close
<1>2. ASSUME NEW p \in Process, Exit(p) PROVE Alone'
      BY <1>2 DEF Exit
<1>3. CASE UNCHANGED vars
      BY <1>3 DEF vars
<1> QED
    BY <1>1, <1>2, <1>3 DEF Next

\* The kernel's lock leaves the holder only by a call of the holder's own
\* process, and a process that never overlaps makes none but UnlockFile's.
LEMMA KeptStep == TypeOK /\ Alone /\ LockKept /\ [Next]_vars => LockKept'
<1> SUFFICES ASSUME TypeOK, Alone, LockKept, [Next]_vars,
                    NEW h \in Thread, pc'[h] = "held", ProcessOf(h) \notin overlapped'
             PROVE  kernel' = ProcessOf(h)
    BY DEF LockKept
<1>0. ProcessOf(h) \in Process /\ ProcessOf(h) # NULL
      BY LocksAssumption
<1> USE DEF TypeOK, LockKept
<1>1. ASSUME NEW t \in Thread, LockStep(t) PROVE kernel' = ProcessOf(h)
  <2>1. CASE t = h
        BY <1>1, <2>1 DEF LockStep, Goto, Open, Insert, CloseRefused, Lock,
           CloseDenied, RemoveDenied, Unlock, Remove, Close
  <2>2. CASE t # h
    <3>1. pc[h] = "held"
          BY <1>1, <2>2 DEF LockStep, Goto, Open, Insert, CloseRefused, Lock,
             CloseDenied, RemoveDenied, Unlock, Remove, Close
    <3>2. CASE Open(t)
          BY <3>1, <3>2 DEF Open
    <3>3. CASE ~Open(t)
      <4>1. pc[t] # "idle" /\ overlapped' = overlapped
            BY <1>1, <3>3 DEF LockStep, Insert, CloseRefused, Lock,
               CloseDenied, RemoveDenied, Unlock, Remove, Close
      <4>2. kernel = ProcessOf(h) /\ ProcessOf(t) # ProcessOf(h)
            BY <2>2, <3>1, <4>1 DEF Alone
      <4> QED
          BY <1>0, <1>1, <3>3, <4>2 DEF LockStep, Dropped, Insert, CloseRefused, Lock,
             CloseDenied, RemoveDenied, Unlock, Remove, Close
    <3> QED
        BY <3>2, <3>3
  <2> QED
      BY <2>1, <2>2
<1>2. ASSUME NEW p \in Process, Exit(p) PROVE kernel' = ProcessOf(h)
      BY <1>2 DEF Exit, Dropped
<1>3. CASE UNCHANGED vars
      BY <1>3 DEF vars
<1> QED
    BY <1>1, <1>2, <1>3 DEF Next

\* Within a process LockFile hands the file to one thread at a time, whatever
\* calls of LockFile and UnlockFile interleave in it.
THEOREM OneLockPerProcess == Spec => []OnceInProcess
<1>1. Init => TypeOK /\ OnceInProcess
      BY InitInv
<1>2. TypeOK /\ OnceInProcess /\ [Next]_vars => (TypeOK /\ OnceInProcess)'
      BY TypeStep, OnceStep
<1> QED
    BY <1>1, <1>2, PTL DEF Spec

\* A process whose calls never overlap keeps the kernel's lock from LockFile
\* to UnlockFile.
THEOREM LocksKept == Spec => []LockKept
<1>1. Init => TypeOK /\ Alone /\ LockKept
      BY InitInv
<1>2. TypeOK /\ Alone /\ LockKept /\ [Next]_vars => (TypeOK /\ Alone /\ LockKept)'
      BY TypeStep, AloneStep, KeptStep
<1> QED
    BY <1>1, <1>2, PTL DEF Spec
=============================================================================
