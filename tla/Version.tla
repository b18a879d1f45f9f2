------------------------------- MODULE Version ------------------------------
(***************************************************************************)
(* The pure part of leveldb's version_set.cc: what a Version (the table    *)
(* files of every level) answers to a lookup, which files overlap a range, *)
(* how an edit makes the next version, which compaction is picked, and     *)
(* what DoCompactionWork writes.  A user key is a number, an internal key  *)
(* a record; the value of an entry is told apart by its sequence number.   *)
(* A table file is its metadata together with the set of its keys, and its *)
(* size is the number of them.                                             *)
(***************************************************************************)
EXTENDS Integers, SequencesExt

CONSTANTS
  NULL,                       \* no key, no file, no compaction
  kNumLevels,                 \* levels 0..kNumLevels-1
  kL0_CompactionTrigger,
  kMaxMemCompactLevel,
  kTargetFileSize,
  kMaxGrandParentOverlapBytes,
  kExpandedCompactionByteSizeLimit,
  MaxBytesBase, MaxBytesFactor,   \* 10MB for level 1, ten times more per level
  SeekBytes, MinSeeks             \* one seek per 16KB, at least 100

ASSUME VersionAssumption ==
  /\ kNumLevels \in Nat \ {0, 1} /\ kL0_CompactionTrigger \in Nat \ {0}
  /\ kMaxMemCompactLevel \in 0..(kNumLevels - 2)
  /\ kTargetFileSize \in Nat \ {0}
  /\ MaxBytesBase \in Nat \ {0} /\ MaxBytesFactor \in Nat \ {0}
  /\ SeekBytes \in Nat \ {0} /\ MinSeeks \in Nat \ {0}

Levels == 0..(kNumLevels - 1)

kTypeDeletion == 0
kTypeValue == 1
kValueTypeForSeek == kTypeValue
kMaxSequenceNumber == 1000   \* 2^56 - 1: above every sequence number used

IKey(u, s, t) == [user |-> u, seq |-> s, type |-> t]
PackSequenceAndType(s, t) == s * 256 + t

\* InternalKeyComparator::Compare(a, b) < 0
Before(a, b) ==
  \/ a.user < b.user
  \/ /\ a.user = b.user
     /\ PackSequenceAndType(a.seq, a.type) > PackSequenceAndType(b.seq, b.type)
AtMost(a, b) == a = b \/ Before(a, b)

\* A set in the order of a strict order.
Sorted(S, op(_, _)) ==
  [i \in 1..Cardinality(S) |->
     CHOOSE x \in S : Cardinality({y \in S : op(y, x)}) = i - 1]

First(K) == CHOOSE k \in K : \A j \in K : AtMost(k, j)
Greatest(K) == CHOOSE k \in K : \A j \in K : AtMost(j, k)

\* BuildTable and the end of a compaction output.
Table(n, K) ==
  [number |-> n, keys |-> K, smallest |-> First(K), largest |-> Greatest(K)]
FileSize(f) == Cardinality(f.keys)
TotalFileSize(fs) == FoldLeft(LAMBDA t, f : t + FileSize(f), 0, fs)
MaxFileSizeForLevel(level) == kTargetFileSize
MaxBytesForLevel(level) ==
  MaxBytesBase * MaxBytesFactor ^ (IF level > 1 THEN level - 1 ELSE 0)

----------------------------------------------------------------------------
(***************************************************************************)
(* Looking a key up.                                                       *)
(***************************************************************************)
\* The index, from 1, of the first file whose largest key is at least k.
FindFile(files, k) ==
  LET Search[left, right \in 1..(Len(files) + 1)] ==
        IF left >= right THEN right
        ELSE LET mid == (left + right) \div 2
             IN  IF Before(files[mid].largest, k) THEN Search[mid + 1, right]
                 ELSE Search[left, mid]
  IN  Search[1, Len(files) + 1]

AfterFile(u, f) == u # NULL /\ u > f.largest.user
BeforeFile(u, f) == u # NULL /\ u < f.smallest.user

SomeFileOverlapsRange(disjoint, files, small, large) ==
  IF ~disjoint
  THEN \E i \in 1..Len(files) :
         ~(AfterFile(small, files[i]) \/ BeforeFile(large, files[i]))
  ELSE LET i == IF small = NULL THEN 1
                ELSE FindFile(files, IKey(small, kMaxSequenceNumber,
                                          kValueTypeForSeek))
       IN  i <= Len(files) /\ ~BeforeFile(large, files[i])

OverlapInLevel(v, level, small, large) ==
  SomeFileOverlapsRange(level > 0, v[level], small, large)

\* The files of a level a lookup of k opens, in that order.
FilesToSearch(v, level, k) ==
  IF level = 0
  THEN Sorted({f \in ToSet(v[0]) : f.smallest.user <= k.user
                                         /\ k.user <= f.largest.user},
                    LAMBDA f, g : f.number > g.number)   \* NewestFirst
  ELSE LET i == FindFile(v[level], k)
       IN  IF i > Len(v[level]) \/ k.user < v[level][i].smallest.user THEN <<>>
           ELSE <<v[level][i]>>

SearchOrder(v, k) ==
  FlattenSeq([i \in 1..kNumLevels |->
    LET fs == FilesToSearch(v, i - 1, k)
    IN  [j \in 1..Len(fs) |-> [level |-> i - 1, file |-> fs[j]]]])

\* The first entry of a sorted set of keys at or after k, if it has k's user
\* key: TableCache::Get with SaveValue, and MemTable::Get.
Lookup(K, k) ==
  LET rest == {j \in K : AtMost(k, j)}
  IN  IF rest = {} \/ First(rest).user # k.user THEN NULL ELSE First(rest)

\* What a reader sees of an entry: the value's number, or 0 for NotFound.
Answer(e) == IF e = NULL \/ e.type = kTypeDeletion THEN 0 ELSE e.seq

(***************************************************************************)
(* Version::Get: the entry found, and the file to charge a seek to: the    *)
(* first one read, when more than one was.                                 *)
(***************************************************************************)
Version_Get(v, k) ==
  LET order == SearchOrder(v, k)
      hits == {i \in 1..Len(order) : Lookup(order[i].file.keys, k) # NULL}
      reads == IF hits = {} THEN Len(order)
               ELSE CHOOSE i \in hits : \A j \in hits : i <= j
  IN  [entry |-> IF hits = {} THEN NULL
                 ELSE Lookup(order[reads].file.keys, k),
       seek |-> IF reads < 2 THEN NULL ELSE order[1]]

\* ForEachOverlapping stopped at the second match.
RecordReadSample(v, k) ==
  LET order == SearchOrder(v, k) IN IF Len(order) < 2 THEN NULL ELSE order[1]

----------------------------------------------------------------------------
(***************************************************************************)
(* Files that overlap a range of user keys; NULL is an open end.  In level *)
(* 0 a file that reaches outside widens the range.                         *)
(***************************************************************************)
Overlapping(files, b, e) ==
  SelectSeq(files, LAMBDA f : ~(AfterFile(b, f) \/ BeforeFile(e, f)))

Widen(files, r) ==
  LET O == ToSet(Overlapping(files, r[1], r[2]))
      below == {f.smallest.user : f \in O} \cup {r[1]}
      above == {f.largest.user : f \in O} \cup {r[2]}
  IN  <<IF r[1] = NULL THEN NULL
        ELSE CHOOSE x \in below : \A y \in below : x <= y,
        IF r[2] = NULL THEN NULL
        ELSE CHOOSE x \in above : \A y \in above : x >= y>>

GetOverlappingInputs(v, level, b, e) ==
  IF level > 0 THEN Overlapping(v[level], b, e)
  ELSE LET r == FoldLeft(LAMBDA w, f : Widen(v[0], w), <<b, e>>, v[0])
       IN  Overlapping(v[0], r[1], r[2])

PickLevelForMemTableOutput(v, small, large) ==
  LET Push[level \in 0..kMaxMemCompactLevel] ==
        IF \/ level = kMaxMemCompactLevel
           \/ OverlapInLevel(v, level + 1, small, large)
           \/ /\ level + 2 < kNumLevels
              /\ TotalFileSize(GetOverlappingInputs(v, level + 2, small, large))
                   > kMaxGrandParentOverlapBytes
        THEN level ELSE Push[level + 1]
  IN  IF OverlapInLevel(v, 0, small, large) THEN 0 ELSE Push[0]

\* GetRange and GetRange2.
GetRange(fs) ==
  <<First({f.smallest : f \in ToSet(fs)}), Greatest({f.largest : f \in ToSet(fs)})>>

----------------------------------------------------------------------------
(***************************************************************************)
(* VersionSet::Builder.  An edit deletes files by level and number, adds   *)
(* files and moves compaction pointers; the builder gathers them per level *)
(* and SaveTo merges them with the files of the base version.              *)
(***************************************************************************)
NoFiles == [l \in Levels |-> <<>>]
Edit(ptrs, del, new) == [ptrs |-> ptrs, del |-> del, new |-> new]
EmptyBuilder == [deleted |-> [l \in Levels |-> {}], added |-> [l \in Levels |-> {}]]

Apply(b, edit) ==
  LET New(l) == {x[2] : x \in {y \in edit.new : y[1] = l}}
  IN  [deleted |-> [l \in Levels |->
         (b.deleted[l] \cup {d[2] : d \in {x \in edit.del : x[1] = l}})
           \ {f.number : f \in New(l)}],
       added |-> [l \in Levels |-> b.added[l] \cup New(l)]]

BySmallestKey(f, g) ==
  IF f.smallest = g.smallest THEN f.number < g.number
  ELSE Before(f.smallest, g.smallest)

SaveTo(base, b) ==
  [l \in Levels |->
     Sorted({f \in ToSet(base[l]) \cup b.added[l] :
                     f.number \notin b.deleted[l]},      \* MaybeAddFile
                  BySmallestKey)]

AllowedSeeks(f) ==
  LET n == FileSize(f) \div SeekBytes IN IF n < MinSeeks THEN MinSeeks ELSE n

----------------------------------------------------------------------------
(***************************************************************************)
(* Which compaction comes next.  Scores are fractions.                     *)
(***************************************************************************)
Score(v, level) ==
  IF level = 0 THEN <<Len(v[0]), kL0_CompactionTrigger>>
  ELSE <<TotalFileSize(v[level]), MaxBytesForLevel(level)>>
Higher(s, t) == s[1] * t[2] > t[1] * s[2]

\* Finalize: the first level with the highest score; the last one is left out.
CompactionLevel(v) ==
  CHOOSE l \in 0..(kNumLevels - 2) :
    \A m \in 0..(kNumLevels - 2) :
      /\ ~Higher(Score(v, m), Score(v, l))
      /\ m < l => Higher(Score(v, l), Score(v, m))
NeedsSizeCompaction(v) ==
  LET s == Score(v, CompactionLevel(v)) IN s[1] >= s[2]

(***************************************************************************)
(* SetupOtherInputs: the overlapping files of the next level, more files   *)
(* of this level where that costs nothing, and the grandparents.           *)
(***************************************************************************)
SetupOtherInputs(v, level, in0) ==
  LET Over(l, r) == GetOverlappingInputs(v, l, r[1].user, r[2].user)
      in1 == Over(level + 1, GetRange(in0))
      ex0 == Over(level, GetRange(in0 \o in1))
      ex1 == Over(level + 1, GetRange(ex0))
      grow == /\ in1 # <<>> /\ Len(ex0) > Len(in0)
              /\ TotalFileSize(in1) + TotalFileSize(ex0)
                   < kExpandedCompactionByteSizeLimit
              /\ Len(ex1) = Len(in1)
      i0 == IF grow THEN ex0 ELSE in0
      i1 == IF grow THEN ex1 ELSE in1
  IN  [level |-> level, in0 |-> i0, in1 |-> i1,
       grandparents |-> IF level + 2 < kNumLevels
                        THEN Over(level + 2, GetRange(i0 \o i1)) ELSE <<>>,
       ptr |-> GetRange(i0)[2], version |-> v]

(***************************************************************************)
(* PickCompaction and CompactRange choose the inputs of a level, which     *)
(* SetupOtherInputs then completes.  By size: the file after the           *)
(* compaction pointer of the level, or else the file with too many seeks.  *)
(* By range: above level 0 no more than one file size at a time.           *)
(***************************************************************************)
Inputs(level, in0) == [level |-> level, in0 |-> in0]

PickCompaction(v, ptr, toCompact) ==
  LET level == IF NeedsSizeCompaction(v) THEN CompactionLevel(v)
               ELSE toCompact.level
      after == SelectSeq(v[level], LAMBDA f : \/ ptr[level] = NULL
                                              \/ Before(ptr[level], f.largest))
      start == IF ~NeedsSizeCompaction(v) THEN toCompact.file
               ELSE IF after = <<>> THEN v[level][1] ELSE after[1]
  IN  Inputs(level, IF level > 0 THEN <<start>>
                    ELSE GetOverlappingInputs(v, 0, start.smallest.user,
                                              start.largest.user))

CompactRange(v, level, b, e) ==
  LET all == GetOverlappingInputs(v, level, b, e)
      enough == {i \in 1..Len(all) : TotalFileSize(SubSeq(all, 1, i))
                                       >= MaxFileSizeForLevel(level)}
      cut == IF level = 0 \/ enough = {} THEN Len(all)
             ELSE CHOOSE i \in enough : \A j \in enough : i <= j
  IN  Inputs(level, SubSeq(all, 1, cut))

IsTrivialMove(c) ==
  /\ Len(c.in0) = 1 /\ Len(c.in1) = 0
  /\ TotalFileSize(c.grandparents) <= kMaxGrandParentOverlapBytes

AddInputDeletions(c) ==
  {<<c.level, f.number>> : f \in ToSet(c.in0)} \cup
  {<<c.level + 1, f.number>> : f \in ToSet(c.in1)}

----------------------------------------------------------------------------
(***************************************************************************)
(* DoCompactionWork: the merged inputs, entry by entry.  w holds the       *)
(* outputs finished, the one being built, the grandparent scan of          *)
(* ShouldStopBefore, and the last user key with its last sequence number.  *)
(***************************************************************************)
IsBaseLevelForKey_next(c, u) ==   \* faulty: looks one level too deep
  \A l \in (c.level + 3)..(kNumLevels - 1) : \A f \in ToSet(c.version[l]) :
    ~(f.smallest.user <= u /\ u <= f.largest.user)
IsBaseLevelForKey(c, u) ==
  \A l \in (c.level + 2)..(kNumLevels - 1) : \A f \in ToSet(c.version[l]) :
    ~(f.smallest.user <= u /\ u <= f.largest.user)

ShouldStopBefore(c, w, k) ==
  LET past == {i \in w.gp..Len(c.grandparents) :
                 \A j \in w.gp..i : Before(c.grandparents[j].largest, k)}
      ov == w.overlapped + (IF w.seen THEN TotalFileSize(
              SubSeq(c.grandparents, w.gp, w.gp + Cardinality(past) - 1)) ELSE 0)
      stop == ov > kMaxGrandParentOverlapBytes
  IN  [w EXCEPT !.gp = w.gp + Cardinality(past), !.seen = TRUE,
                !.overlapped = IF stop THEN 0 ELSE ov, !.stop = stop]

FinishOutput(w) ==
  IF w.building = {} THEN w
  ELSE [w EXCEPT !.outputs = Append(@, w.building), !.building = {}]

Drop(c, snapshot, k, last) ==
  \/ last <= snapshot                                     \* (A)
  \/ /\ k.type = kTypeDeletion /\ k.seq <= snapshot
     /\ IsBaseLevelForKey(c, k.user)

CompactEntry(c, snapshot, w0, k) ==
  LET w1 == ShouldStopBefore(c, w0, k)
      w2 == IF w1.stop THEN FinishOutput(w1) ELSE w1
      last == IF w2.user = k.user THEN w2.last ELSE kMaxSequenceNumber
      w3 == [w2 EXCEPT !.user = k.user, !.last = k.seq,
               !.building = IF Drop(c, snapshot, k, last) THEN @
                            ELSE @ \cup {k}]
  IN  IF Cardinality(w3.building) >= MaxFileSizeForLevel(c.level)
      THEN FinishOutput(w3) ELSE w3

DoCompactionWork(c, snapshot) ==
  LET input == Sorted(UNION {f.keys : f \in ToSet(c.in0 \o c.in1)}, Before)
      w == FoldLeft(LAMBDA x, k : CompactEntry(c, snapshot, x, k),
                    [outputs |-> <<>>, building |-> {}, gp |-> 1, seen |-> FALSE,
                     overlapped |-> 0, stop |-> FALSE, user |-> NULL, last |-> 0],
                    input)
  IN  FinishOutput(w).outputs
=============================================================================
