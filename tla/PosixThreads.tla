---------------------------- MODULE PosixThreads ----------------------------
(***************************************************************************)
(* Schedule and BGThread of env_posix.cc: callers append functions to a    *)
(* queue, one background thread takes them off and runs them, waiting on a *)
(* condition variable while there are none.                                *)
(***************************************************************************)
EXTENDS Naturals, Sequences, SequenceTheorems, TLAPS

CONSTANT MaxItems    \* bound: calls of Schedule

VARIABLES
  queue_,            \* functions not yet started
  started_bgthread_,
  bg,                \* "none", "lock" (about to lock mu_), "wait", "run"
  function,          \* what the thread runs, while bg = "run"
  scheduled, ran     \* history: the functions in order of Schedule, of their end

vars == <<queue_, started_bgthread_, bg, function, scheduled, ran>>

Items == 1..MaxItems

TypeOK ==
  /\ queue_ \in Seq(Items) /\ scheduled \in Seq(Items) /\ ran \in Seq(Items)
  /\ started_bgthread_ \in BOOLEAN
  /\ bg \in {"none", "lock", "wait", "run"}
  /\ function \in Items

Init ==
  /\ queue_ = <<>> /\ scheduled = <<>> /\ ran = <<>>
  /\ started_bgthread_ = FALSE
  /\ bg = "none"
  /\ function = 1

----------------------------------------------------------------------------
\* pthread_cond_signal, before the item is added and before mu_ is released.
Signals_pending(q) == q # <<>>   \* faulty: signals when work was already there
Signals(q) == q = <<>>
\* A call of Schedule, all of it under mu_; also from the function that runs.
Schedule ==
  /\ Len(scheduled) < MaxItems
  /\ LET item == Len(scheduled) + 1
     IN  queue_' = Append(queue_, item) /\ scheduled' = Append(scheduled, item)
  /\ started_bgthread_' = TRUE
  /\ bg' = IF ~started_bgthread_ \/ (Signals(queue_) /\ bg = "wait") THEN "lock" ELSE bg
  /\ UNCHANGED <<function, ran>>

\* BGThread has mu_: wait, or take the front item and release mu_.
Wait ==
  /\ bg = "lock" /\ queue_ = <<>>
  /\ bg' = "wait"
  /\ UNCHANGED <<queue_, started_bgthread_, function, scheduled, ran>>
Take ==
  /\ bg = "lock" /\ queue_ # <<>>
  /\ bg' = "run"
  /\ function' = Head(queue_)
  /\ queue_' = Tail(queue_)
  /\ UNCHANGED <<started_bgthread_, scheduled, ran>>

\* pthread_cond_wait may return without a signal.
Wake ==
  /\ bg = "wait"
  /\ bg' = "lock"
  /\ UNCHANGED <<queue_, started_bgthread_, function, scheduled, ran>>

\* (*function)(arg) returns, and the loop starts over.
Returns ==
  /\ bg = "run"
  /\ bg' = "lock"
  /\ ran' = Append(ran, function)
  /\ UNCHANGED <<queue_, started_bgthread_, function, scheduled>>

Next == Schedule \/ Wait \/ Take \/ Wake \/ Returns
Spec == Init /\ [][Next]_vars
\* The background thread is scheduled and the functions return; spurious
\* wakeups and calls of Schedule need not happen.
Fairness == WF_vars(Wait \/ Take \/ Returns)
FairSpec == Spec /\ Fairness

----------------------------------------------------------------------------
Running == IF bg = "run" THEN <<function>> ELSE <<>>

\* Every function is run once, one at a time, in the order of Schedule.
RunInOrder == ran \o Running \o queue_ = scheduled

\* Every function given to Schedule is run: no wakeup is lost between the
\* test of queue_.empty() and pthread_cond_wait.
EachRuns == \A i \in Items : i <= Len(scheduled) ~> i <= Len(ran)
----------------------------------------------------------------------------
(***************************************************************************)
(* RunInOrder holds for any number of calls of Schedule.                   *)
(***************************************************************************)
\* RunInOrder is inductive once the queues are known to be sequences.
Typed ==
  /\ queue_ \in Seq(Nat) /\ scheduled \in Seq(Nat) /\ ran \in Seq(Nat)
  /\ function \in Nat
  /\ ~started_bgthread_ => bg = "none"
OrderInv == Typed /\ RunInOrder

\* Concatenation is associative, and a queue is its head followed by its tail.
LEMMA Regroup ==
  ASSUME NEW r \in Seq(Nat), NEW s \in Seq(Nat), NEW t \in Seq(Nat)
  PROVE  (r \o s) \o t = r \o (s \o t)
<1> DEFINE a == (r \o s) \o t  b == r \o (s \o t)
<1>1. r \o s \in Seq(Nat) /\ s \o t \in Seq(Nat)
      BY ConcatProperties
<1>2. a \in Seq(Nat) /\ b \in Seq(Nat) /\ Len(a) = Len(b)
      BY <1>1, ConcatProperties
<1>3. \A i \in 1..Len(a) : a[i] = b[i]
      BY <1>1, <1>2, ConcatProperties
<1> HIDE DEF a, b
<1>4. a = b
      BY <1>2, <1>3, SeqEqual
<1> QED
    BY <1>4 DEF a, b
LEMMA HeadFirst ==
  ASSUME NEW q \in Seq(Nat), q # <<>>
  PROVE  <<Head(q)>> \o Tail(q) = q
<1>1. Len(q) \in Nat \ {0}
      BY EmptySeq
<1>2. SubSeq(q, 1, Len(q)) = <<q[1]>> \o SubSeq(q, 1 + 1, Len(q))
      BY <1>1, SubSeqRecursiveFirst
<1>3. SubSeq(q, 1, Len(q)) = q /\ Tail(q) = SubSeq(q, 2, Len(q))
      BY SubSeqFull, TailIsSubSeq
<1>4. Head(q) = q[1] /\ 1 + 1 = 2
      OBVIOUS
<1> QED
    BY <1>2, <1>3, <1>4

\* Running is a sequence.
LEMMA RunningType == Typed => Running \in Seq(Nat)
BY DEF Typed, Running

\* Schedule appends to both sides of RunInOrder.
LEMMA ScheduleOrder == OrderInv /\ Schedule => OrderInv'
<1> SUFFICES ASSUME OrderInv, Schedule PROVE OrderInv'
    OBVIOUS
<1> DEFINE item == Len(scheduled) + 1
<1>1. /\ queue_ \in Seq(Nat) /\ scheduled \in Seq(Nat) /\ ran \in Seq(Nat)
      /\ Running \in Seq(Nat) /\ item \in Nat
      BY RunningType, LenProperties DEF OrderInv, Typed
<1>2. /\ queue_' = Append(queue_, item) /\ scheduled' = Append(scheduled, item)
      /\ ran' = ran /\ function' = function
      BY DEF Schedule
<1>3. Running' = Running
      BY <1>2 DEF Schedule, Running, OrderInv, Typed
<1>4. Typed'
      BY <1>1, <1>2, AppendProperties DEF OrderInv, Typed, Schedule
<1>5. ran \o Running \in Seq(Nat)
      BY <1>1, ConcatProperties
<1>6. (ran \o Running) \o Append(queue_, item) = Append((ran \o Running) \o queue_, item)
  <2>1. <<item>> \in Seq(Nat)
        BY <1>1
  <2>2. (ran \o Running) \o queue_ \in Seq(Nat)
        BY <1>1, <1>5, ConcatProperties
  <2>3. Append(queue_, item) = queue_ \o <<item>>
        BY <1>1, AppendIsConcat
  <2>4. Append((ran \o Running) \o queue_, item) = ((ran \o Running) \o queue_) \o <<item>>
        BY <1>1, <2>2, AppendIsConcat
  <2>5. \A r, s, t \in Seq(Nat) : (r \o s) \o t = r \o (s \o t)
        BY Regroup, Zenon
  <2>6. ((ran \o Running) \o queue_) \o <<item>> = (ran \o Running) \o (queue_ \o <<item>>)
        BY <1>1, <1>5, <2>1, <2>5, ZenonT(60)
  <2> QED
      BY <2>3, <2>4, <2>6, Zenon
<1> QED
    BY <1>2, <1>3, <1>4, <1>6 DEF OrderInv, RunInOrder

\* Take moves the head of the queue into Running.
LEMMA TakeOrder == OrderInv /\ Take => OrderInv'
<1> SUFFICES ASSUME OrderInv, Take PROVE OrderInv'
    OBVIOUS
<1>1. /\ queue_ \in Seq(Nat) /\ queue_ # <<>> /\ ran \in Seq(Nat)
      /\ Running = <<>> /\ ran \o Running \o queue_ = scheduled
      BY DEF OrderInv, Typed, Take, Running, RunInOrder
<1>2. Head(queue_) \in Nat /\ Tail(queue_) \in Seq(Nat)
      BY <1>1, HeadTailProperties
<1>3. Running' = <<Head(queue_)>> /\ ran' = ran /\ queue_' = Tail(queue_)
      /\ scheduled' = scheduled
      BY DEF Take, Running
<1>4. Typed'
      BY <1>2 DEF OrderInv, Typed, Take
<1>5. <<Head(queue_)>> \o Tail(queue_) = queue_
      BY <1>1, HeadFirst
<1>6. (ran \o <<Head(queue_)>>) \o Tail(queue_) = ran \o queue_
  <2>1. \A r, s, t \in Seq(Nat) : (r \o s) \o t = r \o (s \o t)
        BY Regroup, Zenon
  <2>2. <<Head(queue_)>> \in Seq(Nat)
        BY <1>2
  <2>3. (ran \o <<Head(queue_)>>) \o Tail(queue_) = ran \o (<<Head(queue_)>> \o Tail(queue_))
        BY <1>1, <1>2, <2>1, <2>2, ZenonT(60)
  <2> QED
      BY <1>5, <2>3, Zenon
<1>7. ran \o Running = ran
      BY <1>1, ConcatEmptySeq
<1> QED
    BY <1>1, <1>3, <1>4, <1>6, <1>7 DEF OrderInv, RunInOrder

\* Returns moves what ran to the end of ran.
LEMMA ReturnsOrder == OrderInv /\ Returns => OrderInv'
<1> SUFFICES ASSUME OrderInv, Returns PROVE OrderInv'
    OBVIOUS
<1>1. ran \in Seq(Nat) /\ function \in Nat /\ Running = <<function>>
      BY DEF OrderInv, Typed, Returns, Running
<1>2. /\ ran' = Append(ran, function) /\ Running' = <<>>
      /\ queue_' = queue_ /\ scheduled' = scheduled
      BY DEF Returns, Running
<1>3. Append(ran, function) = ran \o <<function>> /\ Append(ran, function) \in Seq(Nat)
      BY <1>1, AppendIsConcat, AppendProperties
<1>4. ran' \o Running' = ran \o Running
      BY <1>1, <1>2, <1>3, ConcatEmptySeq
<1>5. Typed'
      BY <1>2, <1>3 DEF OrderInv, Typed, Returns
<1> QED
    BY <1>2, <1>4, <1>5 DEF OrderInv, RunInOrder

\* Every function is run once and in the order in which Schedule was called.
THEOREM RunsInOrder == Spec => []RunInOrder
<1>1. Init => OrderInv
      BY DEF Init, OrderInv, Typed, RunInOrder, Running
<1>2. OrderInv /\ [Next]_vars => OrderInv'
  <2> SUFFICES ASSUME OrderInv, [Next]_vars PROVE OrderInv'
      OBVIOUS
  <2>1. CASE Wait
        BY <2>1 DEF Wait, OrderInv, Typed, RunInOrder, Running
  <2>2. CASE Wake
        BY <2>2 DEF Wake, OrderInv, Typed, RunInOrder, Running
  <2>3. CASE UNCHANGED vars
        BY <2>3 DEF vars, OrderInv, Typed, RunInOrder, Running
  <2> QED
      BY <2>1, <2>2, <2>3, ScheduleOrder, TakeOrder, ReturnsOrder DEF Next
<1>3. OrderInv => RunInOrder
      BY DEF OrderInv
<1> QED
    BY <1>1, <1>2, <1>3, PTL DEF Spec
=============================================================================
