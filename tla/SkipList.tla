------------------------------ MODULE SkipList ------------------------------
(***************************************************************************)
(* The skip list under the memtable: one writer (Insert is externally      *)
(* synchronised) and readers that take no lock.  Every load and store of a *)
(* link is a step.  A node is its key; the head is 0, below every key.     *)
(* max_height_ is read without a barrier, so a reader may see any value it *)
(* ever had; what a link of a new node holds before it is stored is        *)
(* Garbage.                                                                *)
(***************************************************************************)
EXTENDS Integers, FiniteSets, FiniteSetsExt

CONSTANTS
  Key,            \* a set of positive integers
  kMaxHeight,
  Reader, NULL, Garbage

VARIABLES
  next,           \* next[n][i]: the link of node n at level i
  max_height,
  writer,         \* the Insert in progress
  reader,         \* what each reader is doing
  linked          \* history: keys whose Insert has linked level 0

vars == <<next, max_height, writer, reader, linked>>

Head == 0
Node == Key \cup {Head}
Level == 0..(kMaxHeight - 1)

Idle == [pc |-> "idle", key |-> NULL]

Init ==
  /\ next = [n \in Node |-> [i \in Level |-> IF n = Head THEN NULL ELSE Garbage]]
  /\ max_height = 1
  /\ writer = [pc |-> "idle", key |-> NULL, height |-> 0, prev |-> <<>>, level |-> 0]
  /\ reader = [r \in Reader |-> Idle]
  /\ linked = {}

----------------------------------------------------------------------------
\* NULL sorts after every key.
KeyIsAfterNode(key, n) == n # NULL /\ n < key

\* The last node before key at level i, as FindGreaterOrEqual(key, prev) finds
\* it: only the writer changes links, so its own search is one step.
FindPrev(key, i) ==
  Max({n \in Node : KeyIsAfterNode(key, n)
                      /\ (n = Head \/ \E m \in Node : next[m][i] = n)})

\* The search and the choice of a height; max_height_ is stored before the node
\* is linked.
Insert(key, height) ==
  /\ writer.pc = "idle" /\ key \notin linked
  /\ writer' = [pc |-> "own", key |-> key, height |-> height, level |-> 0,
                prev |-> [i \in 0..(height - 1) |->
                            IF i < max_height THEN FindPrev(key, i) ELSE Head]]
  /\ max_height' = IF height > max_height THEN height ELSE max_height
  /\ UNCHANGED <<next, reader, linked>>

\* x->NoBarrier_SetNext(i, prev[i]->NoBarrier_Next(i))
SetOwn ==
  /\ writer.pc = "own"
  /\ next' = [next EXCEPT ![writer.key][writer.level] =
                            next[writer.prev[writer.level]][writer.level]]
  /\ writer' = [writer EXCEPT !.pc = "publish"]
  /\ UNCHANGED <<max_height, reader, linked>>

Stored ==
  IF writer.level + 1 < writer.height
  THEN [writer EXCEPT !.pc = "own", !.level = @ + 1]
  ELSE [writer EXCEPT !.pc = "idle"]

\* prev[i]->SetNext(i, x)
Publish ==
  /\ writer.pc = "publish"
  /\ next' = [next EXCEPT ![writer.prev[writer.level]][writer.level] = writer.key]
  /\ linked' = linked \cup {writer.key}
  /\ writer' = Stored
  /\ UNCHANGED <<max_height, reader>>

----------------------------------------------------------------------------
(***************************************************************************)
(* A reader: an iterator position and the search in progress.  before are  *)
(* the keys that were in the list when the call was made.                  *)
(***************************************************************************)
Search(op, target, level) ==
  [pc |-> "search", op |-> op, key |-> target, x |-> Head, level |-> level,
   before |-> linked, found |-> NULL]

\* Where an iterator stands: only a valid one can be moved.
Position(r) == IF reader[r].pc = "done" THEN reader[r].found ELSE NULL

\* Seek(target) of any target, SeekToLast, and Prev from the key it stands on.
Start(r, op, target) ==
  /\ reader[r].pc \in {"idle", "done"}
  /\ op = "Prev" => target = Position(r) /\ target # NULL
  /\ \E h \in 1..max_height :   \* NoBarrier_Load: perhaps a stale value
       reader' = [reader EXCEPT ![r] = Search(op, target, h - 1)]
  /\ UNCHANGED <<next, max_height, writer, linked>>

\* SeekToFirst and Next are one load.
Single(r, op) ==
  /\ reader[r].pc \in {"idle", "done"}
  /\ op = "Next" => Position(r) # NULL
  /\ LET n == IF op = "Next" THEN Position(r) ELSE Head
     IN  reader' = [reader EXCEPT ![r] =
                      [Search(op, n, 0) EXCEPT !.pc = "done",
                                                            !.found = next[n][0]]]
  /\ UNCHANGED <<next, max_height, writer, linked>>

\* FindGreaterOrEqual and FindLessThan move on below the key, FindLast always.
MoveOn(s, n) == IF s.op = "SeekToLast" THEN n # NULL ELSE KeyIsAfterNode(s.key, n)

\* The node the search returns at level 0: Prev and SeekToLast turn the head
\* into an invalid position.
Result(s, n) == IF s.op = "Seek" THEN n ELSE IF s.x = Head THEN NULL ELSE s.x

StepDown_early(s, n) ==   \* faulty: the search stops where it must go down
  [s EXCEPT !.pc = "done", !.found = Result(s, n)]
StepDown(s, n) ==
  IF s.level > 0 THEN [s EXCEPT !.level = @ - 1]
  ELSE [s EXCEPT !.pc = "done", !.found = Result(s, n)]

Step(r) ==
  LET s == reader[r]
      n == next[s.x][s.level]
  IN  /\ s.pc = "search"
      /\ reader' = [reader EXCEPT ![r] =
                      IF n = Garbage THEN [s EXCEPT !.pc = "lost"]
                      ELSE IF MoveOn(s, n) THEN [s EXCEPT !.x = n]
                      ELSE StepDown(s, n)]
      /\ UNCHANGED <<next, max_height, writer, linked>>

\* Contains: Seek and a comparison.
Contains(s) == s.found = s.key

Next ==
  \/ \E k \in Key, h \in 1..kMaxHeight : Insert(k, h)
  \/ SetOwn \/ Publish
  \/ \E r \in Reader :
       \/ \E t \in Key : Start(r, "Seek", t) \/ Start(r, "Prev", t)
       \/ Start(r, "SeekToLast", NULL)
       \/ Single(r, "SeekToFirst") \/ Single(r, "Next")
       \/ Step(r)

Spec == Init /\ [][Next]_vars

----------------------------------------------------------------------------
Between(lo, hi, S) == {k \in S : k > lo /\ (hi = NULL \/ k < hi)}
AtLeast(k) == k - 1
Found(s) == IF s.found = NULL THEN Head ELSE s.found

\* NothingSkipped: a reader that runs beside an insertion never follows a link the
\* writer has not stored yet, whatever height it believes the list has; it finds a
\* key that is in the list, in the direction of its call, and skips none that was
\* there when the call was made.
NothingSkipped ==
  \A r \in Reader :
    LET s == reader[r]
    IN  /\ s.pc # "lost"
        /\ s.pc = "done" =>
          /\ s.found \in linked \cup {NULL}
          /\ s.op \in {"Seek", "SeekToFirst", "Next"} =>
               /\ s.found # NULL =>
                    s.found > (IF s.op = "Seek" THEN AtLeast(s.key) ELSE s.key)
               /\ Between(IF s.op = "Seek" THEN AtLeast(s.key) ELSE s.key,
                          s.found, s.before) = {}
               /\ s.op = "Seek" /\ s.key \in s.before => Contains(s)
          /\ s.op \in {"Prev", "SeekToLast"} =>
               /\ s.op = "Prev" => Found(s) < s.key
               /\ Between(Found(s), s.key, s.before) = {}

\* LevelsNested: whenever no insertion is in progress, level i is the sorted list
\* of the nodes at least that high, and every node of a level is in the one below.
LevelsNested ==
  writer.pc = "idle" =>
    \A i \in Level :
      LET nodes(j) == {n \in Key : \E m \in Node : next[m][j] = n}
      IN  /\ i > 0 => nodes(i) \subseteq nodes(i - 1)
          /\ nodes(0) = linked
          /\ \A n \in nodes(i) \cup {Head} :
               next[n][i] = LET after == {k \in nodes(i) : k > n}
                            IN  IF after = {} THEN NULL ELSE Min(after)
=============================================================================
