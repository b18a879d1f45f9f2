------------------------------ MODULE MCStorage -----------------------------
(***************************************************************************)
(* The data structures and file formats of leveldb, one at a time: which   *)
(* one runs is chosen at the start, and all share the variables s1 to s11. *)
(***************************************************************************)
EXTENDS Integers, Sequences, SequencesExt

CONSTANTS NULL, Garbage

VARIABLES part, s1, s2, s3, s4, s5, s6, s7, s8, s9, s10, s11

all == <<part, s1, s2, s3, s4, s5, s6, s7, s8, s9, s10, s11>>

\* Four tables in two shards; the hash tables start with one bucket.
MCTableHash(n) == IF n < 4 THEN 2 * n ELSE 1
Cache == INSTANCE TableCache WITH
  Thread <- {"t1", "t2"}, Number <- 1..4, Hash <- MCTableHash,
  kNumShards <- 2, Capacity <- 4, MinLength <- 1,
  shard <- s1, thread <- s2

Skip == INSTANCE SkipList WITH
  Key <- 1..3, kMaxHeight <- 2, Reader <- {"r1"},
  next <- s1, max_height <- s2, writer <- s3, reader <- s4, linked <- s5

Memory == INSTANCE Arena WITH
  kBlockSize <- 16, Align <- 4, Sizes <- {1, 3, 4, 5}, MaxRequests <- 4,
  blocks <- s1, alloc_ptr <- s2, remaining <- s3, given <- s4

Iter == INSTANCE Iterators WITH
  Key <- {2, 4}, Written <- 2, MaxSequence <- 3, Tables <- 2,
  BlockSizes <- {1, 2}, MaxBad <- 1,
  mem <- s1, blocks <- s2, short <- s3, bad <- s4, m <- s5, db <- s6,
  want <- s7

Log == INSTANCE LogFormat WITH
  kBlockSize <- 6, kHeaderSize <- 2, Sizes <- {0, 1, 3, 5}, MaxLength <- 16,
  MaxDamage <- 1,
  file <- s1, block_offset <- s2, written <- s3, damage <- s4, ended <- s5

MCKeyHash(u) == FoldSeq(LAMBDA x, y : (5 * y + 7 * x + 3) % 32, 1, u)
MCUserKey == {<<>>, <<0>>, <<0, 0>>, <<0, 2>>, <<1, 0>>, <<2>>}
Sst == INSTANCE Table WITH
  UserKey <- MCUserKey, Sequence <- {1, 2}, kMaxSequenceNumber <- 3,
  MaxByte <- 2, MaxEntries <- 4, block_size <- 22,
  block_restart_interval <- 2, ValueSize <- 1, kFilterBaseLg <- 5,
  bits_per_key <- 2, MinBits <- 8, Probes <- 1, HashBits <- 5, Rotate <- 2,
  Hash <- MCKeyHash,
  data_block <- s1, index_block <- s2, filter_block <- s3, file <- s4,
  offset <- s5, last_key <- s6, pending <- s7, ok <- s8, closed <- s9,
  added <- s10

MCString == {<<>>, <<1, 2, 3, 7, 5>>}
Code == INSTANCE Encoding WITH
  B <- 4, Groups32 <- 3, Groups64 <- 4, String <- MCString,
  Number <- {3, 255}, kNumLevels <- 2, kMaxUint64 <- 255, MaxOps <- 2,
  batch <- s1, other <- s2, ops <- s3, otherOps <- s4, edit <- s5, fname <- s6

Rep == INSTANCE Repair WITH
  Entry <- {1, 2}, Logs <- {3}, TableNums <- {4, 6}, MaxKills <- 1,
  disk <- s1, lost <- s2, current <- s3, pc <- s4, logs <- s5, nums <- s6,
  tables <- s7, next_file <- s8, copy <- s9, kills <- s10, power <- s11

\* What the parts with fewer variables leave alone.
From3 == <<s3, s4>>
From5 == <<s5, s6>>
From7 == <<s7, s8, s9, s10, s11>>

Zero7 == s8 = 0 /\ s9 = 0 /\ s10 = 0 /\ s11 = 0
Zero6 == s7 = 0 /\ Zero7
Zero5 == s6 = 0 /\ Zero6
Zero4 == s5 = 0 /\ Zero5

MCInit ==
  \/ part = "cache" /\ Cache!Init /\ s3 = 0 /\ s4 = 0 /\ Zero4
  \/ part = "skiplist" /\ Skip!Init /\ Zero5
  \/ part = "arena" /\ Memory!Init /\ Zero4
  \/ part = "iterators" /\ Iter!Init /\ Zero7
  \/ part = "log" /\ Log!Init /\ Zero5
  \/ part = "table" /\ Sst!Init /\ s11 = 0
  \/ part = "encoding" /\ Code!Init /\ Zero6
  \/ part = "repair" /\ Rep!Init

MCNext ==
  \/ part = "cache" /\ Cache!Next /\ UNCHANGED <<part, From3, From5, From7>>
  \/ part = "skiplist" /\ Skip!Next /\ UNCHANGED <<part, s6, From7>>
  \/ part = "arena" /\ Memory!Next /\ UNCHANGED <<part, From5, From7>>
  \/ part = "iterators" /\ Iter!Next /\ UNCHANGED <<part, s8, s9, s10, s11>>
  \/ part = "log" /\ Log!Next /\ UNCHANGED <<part, s6, From7>>
  \/ part = "table" /\ Sst!Next /\ UNCHANGED <<part, s11>>
  \/ part = "encoding" /\ Code!Next /\ UNCHANGED <<part, From7>>
  \/ part = "repair" /\ Rep!Next /\ UNCHANGED part

MCSpec == MCInit /\ [][MCNext]_all

----------------------------------------------------------------------------
\* TableCache: a table someone holds a handle of is open; the list and the hash
\* table of a shard hold the same handles; a shard exceeds its capacity only by
\* tables that are held.
HandlesAlive ==
  part = "cache" =>
    Cache!HandlesAlive /\ Cache!ListAndTableAgree /\ Cache!OverOnlyWhenPinned

\* SkipList: a reader that runs along with an Insert misses no key; each level
\* is sorted and its nodes are in the level below.
NothingSkipped == part = "skiplist" => Skip!NothingSkipped /\ Skip!LevelsNested

\* Arena: the pieces handed out lie in their blocks and do not overlap.
PiecesDisjoint == part = "arena" => Memory!PiecesDisjoint

\* Iterators: the iterator of the database shows its snapshot, in either
\* direction; the other children of the merge stand ahead of the current entry.
ShowsSnapshot == part = "iterators" => Iter!ShowsSnapshot /\ Iter!StandsAside

\* LogFormat: what was written is read back, no record is read that was not
\* written, and damage costs no record but those it can reach.
LogReadsBack ==
  part = "log" => Log!ReadsBack /\ Log!NothingInvented /\ Log!LossIsLocal


\* Encoding: a WriteBatch applies the operations it was given, a VersionEdit
\* decodes to itself and its prefixes to errors, and the names of files parse to
\* their number and type.
RecordsDecode ==
  part = "encoding" => Code!BatchApplies /\ Code!EditDecodes /\ Code!NamesParse

\* Repair: no write of a file found is forgotten, wherever repair is killed; the
\* descriptor names tables that are there, with numbers above theirs.
NothingForgotten ==
  part = "repair" => Rep!NothingForgotten /\ Rep!DescriptorComplete
=============================================================================
