----------------------------- MODULE BasicAttack ----------------------------
(***************************************************************************)
(* The basic attack (attack/basic/basic_attack.cc): the chunks of both     *)
(* backups are read into two priority queues, which are then popped        *)
(* together, so that chunks of the same rank are taken for each other.     *)
(* A fingerprint is a number in the order of leveldb's keys.               *)
(***************************************************************************)
EXTENDS KeyValue, FiniteSets

CONSTANTS
  Backups,      \* the backups that occur, as sequences of fingerprints
  Max_lenth,    \* the most a queue holds (99999999 in the program)
  MaxErrors     \* bound: leveldb calls that fail

VARIABLES
  db,           \* the frequency databases: training (1) and target (2)
  que,          \* Training_queue and Target_queue
  type, it,     \* ReadDbs: which one is read, and the keys still to come
  Unique, Correct, ansq,
  pc,           \* "read", "analyse", "done", or "abort" after an assertion
  errors,       \* counted against the bound
  ranked        \* history: the pairs that were taken for each other

vars == <<db, que, type, it, Unique, Correct, ansq, pc, errors, ranked>>

\* operator<: the largest count is on top.
less_greater(a, b) == a.count > b.count   \* faulty: the smallest is on top
less(a, b) == a.count < b.count
H == INSTANCE Heap WITH comp <- less

Ordered(m) == SetToSortSeq(DOMAIN m, <)

Init ==
  /\ \E a, b \in Backups : db = <<FoldLeft(Counted, EmptyStore, a),
                                  FoldLeft(Counted, EmptyStore, b)>>
  /\ que = <<<<>>, <<>>>>
  /\ type = 1 /\ it = Ordered(db[1])
  /\ Unique = 0 /\ Correct = 0 /\ ansq = <<>>
  /\ pc = "read" /\ errors = 0 /\ ranked = <<>>

(***************************************************************************)
(* A full queue lets its top go, which is the most frequent chunk, for a   *)
(* chunk that is more frequent still.                                      *)
(***************************************************************************)
Insert(h, e) ==
  IF Len(h) < Max_lenth THEN H!Push(h, e)
  ELSE IF H!Top(h).count < e.count THEN H!Push(H!Pop(h), e) ELSE h

\* ReadDbs, one key.
ReadDbs ==
  /\ pc = "read" /\ it # <<>>
  /\ que' = [que EXCEPT ![type] =
               Insert(@, [key |-> Head(it), count |-> db[type][Head(it)]])]
  /\ it' = Tail(it)
  /\ UNCHANGED <<db, type, Unique, Correct, ansq, pc, errors, ranked>>

\* assert(status.ok()) after the Get of a key.
GetFails ==
  /\ pc = "read" /\ it # <<>> /\ errors < MaxErrors
  /\ errors' = errors + 1 /\ pc' = "abort"
  /\ UNCHANGED <<db, que, type, it, Unique, Correct, ansq, ranked>>

\* The end of the training database, and of the target: Stat_Unique.
ReadTarget ==
  /\ pc = "read" /\ it = <<>> /\ type = 1
  /\ type' = 2 /\ it' = Ordered(db[2])
  /\ UNCHANGED <<db, que, Unique, Correct, ansq, pc, errors, ranked>>

Stat_Unique ==
  /\ pc = "read" /\ it = <<>> /\ type = 2
  /\ Unique' = Len(que[2]) /\ pc' = "analyse"
  /\ UNCHANGED <<db, que, type, it, Correct, ansq, errors, ranked>>

\* Fre_Analysis, one round: the tops are compared, and popped.
Fre_Analysis ==
  /\ pc = "analyse" /\ que[1] # <<>> /\ que[2] # <<>>
  /\ LET a == H!Top(que[1])
         b == H!Top(que[2])
     IN  /\ IF a.key = b.key
            THEN ansq' = Append(ansq, a.key) /\ Correct' = Correct + 1
            ELSE UNCHANGED <<ansq, Correct>>
         /\ ranked' = Append(ranked, <<a, b>>)
  /\ que' = <<H!Pop(que[1]), H!Pop(que[2])>>
  /\ UNCHANGED <<db, type, it, Unique, pc, errors>>

Finish ==
  /\ pc = "analyse" /\ (que[1] = <<>> \/ que[2] = <<>>)
  /\ pc' = "done"
  /\ UNCHANGED <<db, que, type, it, Unique, Correct, ansq, errors, ranked>>

Next ==
  ReadDbs \/ GetFails \/ ReadTarget \/ Stat_Unique \/ Fre_Analysis \/ Finish

Spec == Init /\ [][Next]_vars

----------------------------------------------------------------------------
(***************************************************************************)
(* While the queues are large enough, the k-th pair has a chunk that is    *)
(* k-th by frequency on either side: as many chunks as k are at least as   *)
(* frequent, and fewer than k are more frequent.                           *)
(***************************************************************************)
PairedByRank ==
  (\A s \in {1, 2} : Cardinality(DOMAIN db[s]) <= Max_lenth) =>
    \A k \in 1..Len(ranked), s \in {1, 2} :
      LET n == ranked[k][s].count
      IN  /\ Cardinality({f \in DOMAIN db[s] : db[s][f] >= n}) >= k
          /\ Cardinality({f \in DOMAIN db[s] : db[s][f] > n}) < k

(***************************************************************************)
(* With the target itself as training data every chunk is inferred: ties   *)
(* come out of both queues in the same order, whatever the limit.          *)
(***************************************************************************)
SelfInferred == pc = "done" /\ db[1] = db[2] => Correct = Unique
=============================================================================
