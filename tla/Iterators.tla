----------------------------- MODULE Iterators ------------------------------
(***************************************************************************)
(* What DB::NewIterator builds: a DBIter, which turns internal entries into*)
(* the user keys of a snapshot, over a MergingIterator, over the memtable  *)
(* and one TwoLevelIterator per table or level.  The memtable goes on      *)
(* growing below the iterator; a block of a table may be unreadable.  User *)
(* keys are even, so that a target or a separator may lie between them.    *)
(***************************************************************************)
EXTENDS Integers, FiniteSets, FiniteSetsExt, SequencesExt

CONSTANTS
  Key,             \* even numbers
  Written,         \* writes before the iterator was made
  MaxSequence,     \* bound: writes in all
  Tables,          \* tables below the memtable: 1..Tables
  BlockSizes,      \* entries of a block
  MaxBad,          \* bound: unreadable blocks
  NULL

VARIABLES
  mem,             \* the entries of the memtable
  blocks,          \* of each table: its entries, cut into blocks
  short,           \* index keys are shortened separators
  bad,             \* the unreadable blocks: table and number
  m,               \* the MergingIterator
  db,              \* the DBIter
  want             \* history: the key the last call should have found

vars == <<mem, blocks, short, bad, m, db, want>>
tables == <<blocks, short, bad>>

kTypeDeletion == 0
kTypeValue == 1
kMaxSequenceNumber == MaxSequence + 1
sequence == Written                       \* sequence_, the snapshot

IKey(k, s, t) == [key |-> k, seq |-> s, type |-> t]
Before(a, b) == a.key < b.key \/ (a.key = b.key /\ a.seq > b.seq)
First(S) == CHOOSE e \in S : \A f \in S \ {e} : Before(e, f)
Final(S) == CHOOSE e \in S : \A f \in S \ {e} : Before(f, e)
FirstOf(S) == IF S = {} THEN NULL ELSE First(S)
FinalOf(S) == IF S = {} THEN NULL ELSE Final(S)

----------------------------------------------------------------------------
(***************************************************************************)
(* A child of the MergingIterator: the memtable's skip list iterator, or a *)
(* TwoLevelIterator with a position in the index, the block it has opened  *)
(* and a position in that block (0: not valid), and a saved error.         *)
(***************************************************************************)
MemChild == [table |-> 0, pos |-> NULL]
TableChild(i) == [table |-> i, index |-> 0, data |-> 0, at |-> 0, error |-> FALSE]

Size(c) == Len(blocks[c.table])
BlockReader(c, i) ==    \* an unreadable block gives an empty iterator
  IF <<c.table, i>> \in bad THEN <<>> ELSE blocks[c.table][i]
Failed(c, i) == i # 0 /\ <<c.table, i>> \in bad
Status(c) == c.table = 0 \/ ~(c.error \/ Failed(c, c.data))

Valid(c) == IF c.table = 0 THEN c.pos # NULL ELSE c.data # 0 /\ c.at # 0
At(c) == IF c.table = 0 THEN c.pos ELSE BlockReader(c, c.data)[c.at]

\* The key of an index entry: at least the last key of its block, before the
\* first of the next one.
IndexKey(c, i) ==
  LET e == Last(blocks[c.table][i])
      next == i < Size(c) /\ blocks[c.table][i + 1][1].key = e.key
  IN  IF short /\ ~next THEN IKey(e.key + 1, kMaxSequenceNumber, kTypeValue) ELSE e

IndexSeek(c, t) ==
  LET S == {i \in 1..Size(c) : ~Before(IndexKey(c, i), t)}
  IN  [c EXCEPT !.index = IF S = {} THEN 0 ELSE Min(S)]
IndexNext(c) == [c EXCEPT !.index = IF @ = Size(c) THEN 0 ELSE @ + 1]
IndexPrev(c) == [c EXCEPT !.index = @ - 1]

DataSeek(c, t) ==
  LET b == BlockReader(c, c.data)
      S == {i \in 1..Len(b) : ~Before(b[i], t)}
  IN  IF c.data = 0 THEN c ELSE [c EXCEPT !.at = IF S = {} THEN 0 ELSE Min(S)]
DataFirst(c) ==
  IF c.data = 0 THEN c
  ELSE [c EXCEPT !.at = IF BlockReader(c, c.data) = <<>> THEN 0 ELSE 1]
DataLast(c) == IF c.data = 0 THEN c ELSE [c EXCEPT !.at = Len(BlockReader(c, c.data))]
DataNext(c) == [c EXCEPT !.at = IF @ = Len(BlockReader(c, c.data)) THEN 0 ELSE @ + 1]
DataPrev(c) == [c EXCEPT !.at = @ - 1]

SetDataIterator(c, i) ==
  [c EXCEPT !.error = @ \/ Failed(c, c.data), !.data = i, !.at = 0]
InitDataBlock(c) == IF c.index # 0 /\ c.index = c.data THEN c
                    ELSE SetDataIterator(c, c.index)

RECURSIVE SkipEmptyDataBlocksForward(_)
SkipEmptyDataBlocksForward(c) ==
  IF Valid(c) THEN c
  ELSE IF c.index = 0 THEN SetDataIterator(c, 0)
  ELSE SkipEmptyDataBlocksForward(DataFirst(InitDataBlock(IndexNext(c))))

RECURSIVE SkipEmptyDataBlocksBackward(_)
SkipEmptyDataBlocksBackward(c) ==
  IF Valid(c) THEN c
  ELSE IF c.index = 0 THEN SetDataIterator(c, 0)
  ELSE SkipEmptyDataBlocksBackward(DataLast(InitDataBlock(IndexPrev(c))))

ChildSeek(c, t) ==
  IF c.table = 0 THEN [c EXCEPT !.pos = FirstOf({e \in mem : ~Before(e, t)})]
  ELSE SkipEmptyDataBlocksForward(DataSeek(InitDataBlock(IndexSeek(c, t)), t))
ChildFirst(c) ==
  IF c.table = 0 THEN [c EXCEPT !.pos = FirstOf(mem)]
  ELSE SkipEmptyDataBlocksForward(
         DataFirst(InitDataBlock([c EXCEPT !.index = IF Size(c) = 0 THEN 0 ELSE 1])))
ChildLast(c) ==
  IF c.table = 0 THEN [c EXCEPT !.pos = FinalOf(mem)]
  ELSE SkipEmptyDataBlocksBackward(
         DataLast(InitDataBlock([c EXCEPT !.index = Size(c)])))
ChildNext(c) ==
  IF c.table = 0 THEN [c EXCEPT !.pos = FirstOf({e \in mem : Before(c.pos, e)})]
  ELSE SkipEmptyDataBlocksForward(DataNext(c))
ChildPrev(c) ==
  IF c.table = 0 THEN [c EXCEPT !.pos = FinalOf({e \in mem : Before(e, c.pos)})]
  ELSE SkipEmptyDataBlocksBackward(DataPrev(c))

----------------------------------------------------------------------------
(***************************************************************************)
(* The MergingIterator.                                                    *)
(***************************************************************************)
Positions(ch) == {i \in DOMAIN ch : Valid(ch[i])}
FindSmallest(ch) ==
  [children |-> ch, dir |-> "forward",
   cur |-> IF Positions(ch) = {} THEN 0
           ELSE CHOOSE i \in Positions(ch) :
                  \A j \in Positions(ch) : ~Before(At(ch[j]), At(ch[i]))]
FindLargest(ch) ==
  [children |-> ch, dir |-> "reverse",
   cur |-> IF Positions(ch) = {} THEN 0
           ELSE CHOOSE i \in Positions(ch) :
                  \A j \in Positions(ch) : ~Before(At(ch[i]), At(ch[j]))]

MValid(mi) == mi.cur # 0
MKey(mi) == At(mi.children[mi.cur])

\* After a change of direction the other children stand on the wrong side.
AfterKey(c, k) ==
  LET d == ChildSeek(c, k) IN IF Valid(d) /\ At(d) = k THEN ChildNext(d) ELSE d
BeforeKey(c, k) ==
  LET d == ChildSeek(c, k) IN IF Valid(d) THEN ChildPrev(d) ELSE ChildLast(d)

MSeek(mi, t) ==
  FindSmallest([i \in DOMAIN mi.children |-> ChildSeek(mi.children[i], t)])
MSeekToFirst(mi) ==
  FindSmallest([i \in DOMAIN mi.children |-> ChildFirst(mi.children[i])])
MSeekToLast(mi) ==
  FindLargest([i \in DOMAIN mi.children |-> ChildLast(mi.children[i])])
MNext(mi) ==
  FindSmallest([i \in DOMAIN mi.children |->
    LET c == mi.children[i]
    IN  IF i = mi.cur THEN ChildNext(c)
        ELSE IF mi.dir = "forward" THEN c ELSE AfterKey(c, MKey(mi))])
MPrev(mi) ==
  FindLargest([i \in DOMAIN mi.children |->
    LET c == mi.children[i]
    IN  IF i = mi.cur THEN ChildPrev(c)
        ELSE IF mi.dir = "reverse" THEN c ELSE BeforeKey(c, MKey(mi))])
MStatus(mi) == \A i \in DOMAIN mi.children : Status(mi.children[i])

----------------------------------------------------------------------------
(***************************************************************************)
(* The DBIter.  One step of a call handles one internal entry, so that a   *)
(* write may fall between any two; skip says whether saved_key_ is to be   *)
(* skipped, type is value_type.                                            *)
(***************************************************************************)
Type == {kTypeDeletion, kTypeValue}

\* The entries of the snapshot that count, and the keys an iterator shows.
Newest(H) == {e \in H : \A f \in H : f.key = e.key => f.seq <= e.seq}
Shown(H) == {e \in Newest({e \in H : e.seq <= sequence}) : e.type = kTypeValue}
Keys(S) == {e.key : e \in S}
Stored == UNION {ToSet(b) : b \in UNION {ToSet(blocks[i]) : i \in 1..Tables}}
ShownKeys == Keys(Shown(mem \cup Stored))
Least(S) == IF S = {} THEN NULL ELSE Min(S)
Greatest(S) == IF S = {} THEN NULL ELSE Max(S)

CutInto(s, n) ==
  [i \in 1..((Len(s) + n - 1) \div n) |->
     SubSeq(s, (n * (i - 1)) + 1, Min({n * i, Len(s)}))]
Ordered(S) == SetToSortSeq(S, Before)

\* The writes 1..Written, of any keys and kinds; the tables hold the older ones,
\* the oldest in the last table.
Init ==
  \E h \in [1..Written -> Key \X Type], cut \in [0..Tables -> 0..Written],
     n \in BlockSizes :
    LET entry(s) == IKey(h[s][1], s, h[s][2])
    IN  /\ \A i \in 1..Tables : cut[i] <= cut[i - 1]
        /\ mem = {entry(s) : s \in (cut[0] + 1)..Written}
        /\ cut[Tables] = 0
        /\ blocks = [i \in 1..Tables |->
             CutInto(Ordered({entry(s) : s \in (cut[i] + 1)..cut[i - 1]}), n)]
        /\ short \in BOOLEAN
        /\ bad \in {S \in SUBSET {<<i, j>> : i \in 1..Tables, j \in 1..Written} :
                      /\ Cardinality(S) <= MaxBad
                      /\ \A b \in S : b[2] <= Len(blocks[b[1]])}
        /\ m = [children |-> <<MemChild>> \o [i \in 1..Tables |-> TableChild(i)],
                dir |-> "forward", cur |-> 0]
        /\ db = [pc |-> "idle", dir |-> "forward", valid |-> FALSE, skip |-> FALSE,
                 key |-> NULL, value |-> NULL, type |-> kTypeDeletion]
        /\ want = NULL

DKey == IF db.dir = "forward" THEN MKey(m).key ELSE db.key
DValue == IF db.dir = "forward" THEN MKey(m).seq ELSE db.value

\* MemTable::Add by a writer.
Add(k, t) ==
  LET last == Max({e.seq : e \in mem} \cup {Written})
  IN  /\ last < MaxSequence
      /\ mem' = mem \cup {IKey(k, last + 1, t)}
      /\ UNCHANGED <<tables, m, db, want>>

\* FindNextUserEntry is entered, or the call ends.
Entering(d, mi) == [d EXCEPT !.pc = IF MValid(mi) THEN "forward" ELSE "idle",
                             !.valid = FALSE]
Call(w) == /\ db.pc = "idle" /\ want' = w /\ UNCHANGED <<mem, tables>>

Seek(t) ==
  /\ Call(Least({k \in ShownKeys : k >= t}))
  /\ m' = MSeek(m, IKey(t, sequence, kTypeValue))
  /\ db' = Entering([db EXCEPT !.dir = "forward", !.skip = FALSE, !.value = NULL], m')

SeekToFirst ==
  /\ Call(Least(ShownKeys))
  /\ m' = MSeekToFirst(m)
  /\ db' = Entering([db EXCEPT !.dir = "forward", !.skip = FALSE, !.value = NULL], m')

SeekToLast ==
  /\ Call(Greatest(ShownKeys))
  /\ m' = MSeekToLast(m)
  /\ db' = [db EXCEPT !.pc = "reverse", !.dir = "reverse", !.type = kTypeDeletion,
                      !.value = NULL, !.valid = FALSE]

Next_DBIter ==
  /\ db.valid /\ Call(Least({k \in ShownKeys : k > DKey}))
  /\ m' = IF db.dir = "forward" THEN m
          ELSE IF MValid(m) THEN MNext(m) ELSE MSeekToFirst(m)
  /\ db' = Entering([db EXCEPT !.dir = "forward", !.key = DKey, !.skip = TRUE], m')

\* One turn of FindNextUserEntry.
FindNextUserEntry ==
  LET e == MKey(m)
      seen == e.seq <= sequence
      hidden == db.skip /\ e.key <= db.key
      d == IF seen /\ e.type = kTypeDeletion
           THEN [db EXCEPT !.skip = TRUE, !.key = e.key] ELSE db
  IN  /\ db.pc = "forward"
      /\ IF seen /\ e.type = kTypeValue /\ ~hidden
         THEN /\ db' = [db EXCEPT !.pc = "idle", !.valid = TRUE, !.key = NULL]
              /\ UNCHANGED m
         ELSE /\ m' = MNext(m)
              /\ db' = IF MValid(m') THEN d
                       ELSE [d EXCEPT !.pc = "idle", !.valid = FALSE, !.key = NULL]
      /\ UNCHANGED <<mem, tables, want>>

Prev ==
  /\ db.valid /\ Call(Greatest({k \in ShownKeys : k < DKey}))
  /\ db' = [db EXCEPT !.pc = IF db.dir = "forward" THEN "turn" ELSE "reverse",
                      !.key = DKey, !.type = kTypeDeletion, !.valid = FALSE]
  /\ UNCHANGED m

\* One turn of the loop of Prev that leaves the entries of the current key.
TurnAround ==
  /\ db.pc = "turn"
  /\ m' = MPrev(m)
  /\ db' = IF ~MValid(m')
           THEN [db EXCEPT !.pc = "idle", !.valid = FALSE, !.key = NULL, !.value = NULL]
           ELSE IF MKey(m').key < db.key
           THEN [db EXCEPT !.pc = "reverse", !.dir = "reverse"]
           ELSE db
  /\ UNCHANGED <<mem, tables, want>>

\* The end of FindPrevUserEntry.
PrevEnds(d) ==
  IF d.type = kTypeDeletion
  THEN [d EXCEPT !.pc = "idle", !.valid = FALSE, !.key = NULL, !.value = NULL,
                 !.dir = "forward"]
  ELSE [d EXCEPT !.pc = "idle", !.valid = TRUE]

Kept_newest(d, e) ==   \* faulty: a deletion does not drop what was saved
  IF e.seq > sequence \/ e.type = kTypeDeletion THEN d
  ELSE [d EXCEPT !.key = e.key, !.value = e.seq, !.type = e.type]
Kept(d, e) ==
  IF e.seq > sequence THEN d
  ELSE IF e.type = kTypeDeletion
  THEN [d EXCEPT !.key = NULL, !.value = NULL, !.type = e.type]
  ELSE [d EXCEPT !.key = e.key, !.value = e.seq, !.type = e.type]

FindPrevUserEntry ==
  /\ db.pc = "reverse"
  /\ IF ~MValid(m) \/ (MKey(m).seq <= sequence /\ db.type # kTypeDeletion
                         /\ MKey(m).key < db.key)
     THEN db' = PrevEnds(db) /\ UNCHANGED m
     ELSE /\ m' = MPrev(m)
          /\ db' = Kept(db, MKey(m))
  /\ UNCHANGED <<mem, tables, want>>

Next ==
  \/ \E k \in Key, t \in Type : Add(k, t)
  \/ \E t \in 1..(Max(Key) + 1) : Seek(t)
  \/ SeekToFirst \/ SeekToLast \/ Next_DBIter \/ Prev
  \/ FindNextUserEntry \/ TurnAround \/ FindPrevUserEntry

Spec == Init /\ [][Next]_vars

----------------------------------------------------------------------------
\* ShowsSnapshot: whatever is written meanwhile and however calls in the two
\* directions are mixed, an iterator stands on the key of its snapshot that its
\* last call asks for, with the newest value of that key; unless status() tells
\* of a block that could not be read, nothing is missing.
ShowsSnapshot ==
  db.pc = "idle" /\ MStatus(m) =>
    /\ db.valid <=> want # NULL
    /\ db.valid => /\ DKey = want
                   /\ \E e \in Shown(mem \cup Stored) : e.key = want /\ e.seq = DValue

\* StandsAside: between calls the other children of the merge stand strictly
\* ahead of the current entry in the direction of travel, and every entry of the
\* snapshot on that side is still to come; in reverse the merge has left all
\* entries of the key the DBIter shows.
StandsAside ==
  db.pc = "idle" /\ MStatus(m) /\ MValid(m) =>
    /\ \A i \in Positions(m.children) \ {m.cur} :
         IF m.dir = "forward" THEN Before(MKey(m), At(m.children[i]))
         ELSE Before(At(m.children[i]), MKey(m))
    /\ \A e \in (mem \cup Stored) \ {MKey(m)} :
         e.seq <= sequence =>
           IF m.dir = "forward"
           THEN Before(MKey(m), e) =>
                  \E i \in Positions(m.children) : ~Before(e, At(m.children[i]))
           ELSE Before(e, MKey(m)) =>
                  \E i \in Positions(m.children) : ~Before(At(m.children[i]), e)
    /\ db.valid /\ db.dir = "reverse" => MKey(m).key < db.key
=============================================================================
