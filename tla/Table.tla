------------------------------- MODULE Table --------------------------------
(***************************************************************************)
(* A table file: TableBuilder writes it (data blocks with shared key       *)
(* prefixes and restart points, an index of separators, a bloom filter per *)
(* 2^kFilterBaseLg bytes), Table reads it.  An internal key is the bytes of*)
(* the user key and one cell for the sequence number; values have the      *)
(* length ValueSize.  Offsets are those of the file format, with varints of*)
(* one byte.                                                               *)
(***************************************************************************)
EXTENDS Integers, FiniteSets, FiniteSetsExt, SequencesExt

CONSTANTS
  UserKey,                  \* the user keys: sequences of bytes
  Sequence,                 \* sequence numbers, all below kMaxSequenceNumber
  kMaxSequenceNumber, MaxByte,
  MaxEntries,               \* bound: entries added
  block_size, block_restart_interval, ValueSize,
  kFilterBaseLg, bits_per_key, MinBits, Probes,
  HashBits, Rotate, Hash(_)

VARIABLES
  data_block, index_block,  \* the two BlockBuilders
  filter_block,             \* the FilterBlockBuilder
  file,                     \* the blocks written, with their offsets
  offset, last_key, pending,
  ok, closed,
  added                     \* history: the keys passed to Add

vars == <<data_block, index_block, filter_block, file, offset, last_key, pending,
          ok, closed, added>>

NoHandle == [offset |-> -1, size |-> 0]
kBlockTrailerSize == 5
kFilterBase == 2 ^ kFilterBaseLg

----------------------------------------------------------------------------
(***************************************************************************)
(* Comparators.                                                            *)
(***************************************************************************)
CommonPrefix(a, b) ==
  Max({n \in 0..Min({Len(a), Len(b)}) : SubSeq(a, 1, n) = SubSeq(b, 1, n)})
Less(a, b) ==
  LET n == CommonPrefix(a, b)
  IN  n < Len(b) /\ (n = Len(a) \/ a[n + 1] < b[n + 1])
Bump(u, n) == Append(SubSeq(u, 1, n - 1), u[n] + 1)

ByteSeparator(start, limit) ==
  LET n == CommonPrefix(start, limit) + 1
  IN  IF n <= Len(start) /\ n <= Len(limit)
           /\ start[n] < MaxByte /\ start[n] + 1 < limit[n]
      THEN Bump(start, n) ELSE start
ByteSuccessor(u) ==
  LET S == {i \in 1..Len(u) : u[i] # MaxByte}
  IN  IF S = {} THEN u ELSE Bump(u, Min(S))

ExtractUserKey(k) == SubSeq(k, 1, Len(k) - 1)
InternalKey(u, s) == Append(u, s)
Before(a, b) ==
  \/ Less(ExtractUserKey(a), ExtractUserKey(b))
  \/ ExtractUserKey(a) = ExtractUserKey(b) /\ Last(a) > Last(b)

\* A shorter user key that is larger gets the earliest possible number.
Shortened(k, u) ==
  IF Len(u) < Len(k) - 1 /\ Less(ExtractUserKey(k), u)
  THEN InternalKey(u, kMaxSequenceNumber) ELSE k
FindShortestSeparator(k, limit) ==
  Shortened(k, ByteSeparator(ExtractUserKey(k), ExtractUserKey(limit)))
FindShortSuccessor(k) == Shortened(k, ByteSuccessor(ExtractUserKey(k)))

----------------------------------------------------------------------------
(***************************************************************************)
(* A BlockBuilder: its entries, the bytes they take, the restart points    *)
(* (offsets) and the entries since the last one.                           *)
(***************************************************************************)
EmptyBlock == [entries |-> <<>>, bytes |-> 0, restarts |-> <<0>>, counter |-> 0,
               last |-> <<>>]
BlockAdd(b, key, value, size, interval) ==
  LET share == b.counter < interval
      n == IF share THEN CommonPrefix(b.last, key) ELSE 0
      e == [offset |-> b.bytes, shared |-> n, value |-> value,
            delta |-> SubSeq(key, n + 1, Len(key)),
            end |-> b.bytes + 3 + (Len(key) - n) + size]
  IN  [entries |-> Append(b.entries, e), bytes |-> e.end, last |-> key,
       restarts |-> IF share THEN b.restarts ELSE Append(b.restarts, b.bytes),
       counter |-> IF share THEN b.counter + 1 ELSE 1]
CurrentSizeEstimate(b) == b.bytes + 4 * Len(b.restarts) + 4

(***************************************************************************)
(* Block::Iter: a position in a block b is the entry's offset current, its *)
(* decoded key, the end of the entry and restart_index.                    *)
(***************************************************************************)
EntryAt(b, o) == CHOOSE e \in ToSet(b.entries) : e.offset = o
Invalid(b) == [current |-> b.bytes, next |-> b.bytes, key |-> <<>>,
               index |-> Len(b.restarts) + 1, value |-> NoHandle]
IterValid(b, it) == it.current < b.bytes
SeekToRestartPoint(b, it, i) ==
  [it EXCEPT !.key = <<>>, !.index = i, !.next = b.restarts[i]]

ParseNextKey(b, it) ==
  LET e == EntryAt(b, it.next)
      S == {i \in (it.index + 1)..Len(b.restarts) : b.restarts[i] < it.next}
  IN  IF it.next >= b.bytes THEN Invalid(b)
      ELSE [current |-> it.next, next |-> e.end, value |-> e.value,
            key |-> SubSeq(it.key, 1, e.shared) \o e.delta,
            index |-> IF S = {} THEN it.index ELSE Max(S)]

\* ParseNextKey until the end of the entry reaches o, or until the key is not
\* before the target.
RECURSIVE ParseUpTo(_, _, _)
ParseUpTo(b, it, o) ==
  LET p == ParseNextKey(b, it)
  IN  IF ~IterValid(b, p) \/ p.next >= o THEN p ELSE ParseUpTo(b, p, o)
RECURSIVE ParseToKey(_, _, _)
ParseToKey(b, it, target) ==
  LET p == ParseNextKey(b, it)
  IN  IF ~IterValid(b, p) \/ ~Before(p.key, target) THEN p
      ELSE ParseToKey(b, p, target)

BlockPrev(b, it) ==
  LET S == {i \in 1..it.index : i <= Len(b.restarts) /\ b.restarts[i] < it.current}
  IN  IF S = {} THEN Invalid(b)
      ELSE ParseUpTo(b, SeekToRestartPoint(b, it, Max(S)), it.current)

\* The binary search for the last restart point with a key before the target.
RECURSIVE BinarySearch(_, _, _, _)
BinarySearch(b, target, left, right) ==
  LET mid == (left + right + 1) \div 2
      e == EntryAt(b, b.restarts[mid])
  IN  IF left >= right THEN left
      ELSE IF Before(e.delta, target) THEN BinarySearch(b, target, mid, right)
      ELSE BinarySearch(b, target, left, mid - 1)
BinarySearchFrom(b, target) == BinarySearch(b, target, 1, Len(b.restarts))

BlockSeek(b, it, target) ==
  ParseToKey(b, SeekToRestartPoint(b, it, BinarySearchFrom(b, target)), target)
BlockSeekToFirst(b, it) == ParseNextKey(b, SeekToRestartPoint(b, it, 1))
BlockSeekToLast(b, it) ==
  ParseUpTo(b, SeekToRestartPoint(b, it, Len(b.restarts)), b.bytes)
BlockNext(b, it) == ParseNextKey(b, it)

----------------------------------------------------------------------------
(***************************************************************************)
(* Bloom filters, and one of them for every kFilterBase bytes of data: a   *)
(* filter covers the keys of the blocks that begin in its range.           *)
(***************************************************************************)
Word == 2 ^ HashBits
Delta(h) == (h \div 2 ^ Rotate) + (h % 2 ^ Rotate) * 2 ^ (HashBits - Rotate)
ProbesOf(u, bits, k) == {((Hash(u) + j * Delta(Hash(u))) % Word) % bits : j \in 0..(k - 1)}
Bits(n) == ((Max({n * bits_per_key, MinBits}) + 7) \div 8) * 8
CreateFilter(K) ==   \* K: the internal keys, in order; the policy sees user keys
  [bits |-> Bits(Len(K)), k |-> Probes,
   set |-> UNION {ProbesOf(ExtractUserKey(K[i]), Bits(Len(K)), Probes) : i \in DOMAIN K}]
NoFilter == [bits |-> 0, k |-> 0, set |-> {}]
PolicyMayMatch(u, f) == f.bits # 0 /\ ProbesOf(u, f.bits, f.k) \subseteq f.set

GenerateFilter(fb) ==
  [filters |-> Append(fb.filters, IF fb.keys = <<>> THEN NoFilter
                                  ELSE CreateFilter(fb.keys)),
   keys |-> <<>>]
RECURSIVE FillFilters(_, _)
FillFilters(fb, index) ==
  IF index > Len(fb.filters) THEN FillFilters(GenerateFilter(fb), index) ELSE fb
StartBlock(fb, off) == FillFilters(fb, off \div kFilterBase)
AddKey(fb, key) == [fb EXCEPT !.keys = Append(@, key)]
FilterFinish(fb) == IF fb.keys = <<>> THEN fb ELSE GenerateFilter(fb)

KeyMayMatch(fb, off, key) ==
  LET i == (off \div kFilterBase) + 1
  IN  i <= Len(fb.filters) => PolicyMayMatch(ExtractUserKey(key), fb.filters[i])

----------------------------------------------------------------------------
(***************************************************************************)
(* TableBuilder.                                                           *)
(***************************************************************************)
Init ==
  /\ data_block = EmptyBlock /\ index_block = EmptyBlock
  /\ filter_block = StartBlock([filters |-> <<>>, keys |-> <<>>], 0)
  /\ file = <<>> /\ offset = 0 /\ last_key = <<>> /\ pending = NoHandle
  /\ ok = TRUE /\ closed = FALSE /\ added = <<>>

Handle(off, b) == [offset |-> off, size |-> CurrentSizeEstimate(b)]
NextOffset(h) == h.offset + h.size + kBlockTrailerSize
Written(h, kind, b) == [handle |-> h, kind |-> kind, block |-> b]

IndexAdd(b, key, h) == BlockAdd(b, key, h, 2, 1)   \* two varints, restart at each

Targets == {InternalKey(u, s) : u \in UserKey, s \in Sequence}
Later == {k \in Targets : added = <<>> \/ Before(Last(added), k)}   \* keys come sorted

\* Add, with the Flush of a full block; an append to the file may fail, and then
\* every later call returns at once.
Add(key) ==
  LET entry == pending # NoHandle
      sep == FindShortestSeparator(last_key, key)
      block == BlockAdd(data_block, key, NoHandle, ValueSize, block_restart_interval)
      fb == AddKey(filter_block, key)
      full == CurrentSizeEstimate(block) >= block_size
      h == Handle(offset, block)
  IN  /\ ~closed /\ Len(added) < MaxEntries
      /\ key \in Later
      /\ added' = Append(added, key)
      /\ IF ~ok
         THEN UNCHANGED <<data_block, index_block, filter_block, file, offset,
                          last_key, pending, ok>>
         ELSE /\ index_block' = IF entry THEN IndexAdd(index_block, sep, pending)
                                ELSE index_block
              /\ last_key' = key
              /\ ok' \in IF full THEN BOOLEAN ELSE {TRUE}
              /\ data_block' = IF full THEN EmptyBlock ELSE block
              /\ offset' = IF full /\ ok' THEN NextOffset(h) ELSE offset
              /\ file' = IF full /\ ok' THEN Append(file, Written(h, "data", block))
                         ELSE file
              /\ pending' = IF full /\ ok' THEN h ELSE NoHandle
              /\ filter_block' = IF full THEN StartBlock(fb, offset') ELSE fb
      /\ UNCHANGED closed

\* Finish: the last data block, filter, metaindex, index and footer.
Finish ==
  LET left == data_block.entries # <<>>
      h == IF left THEN Handle(offset, data_block) ELSE pending
      off1 == IF left THEN NextOffset(h) ELSE offset
      fb == FilterFinish(IF left THEN StartBlock(filter_block, off1) ELSE filter_block)
      fh == [offset |-> off1, size |-> Len(fb.filters)]
      mh == [offset |-> NextOffset(fh), size |-> 1]
      index == IF h = NoHandle THEN index_block
               ELSE IndexAdd(index_block, FindShortSuccessor(last_key), h)
      ih == Handle(NextOffset(mh), index)
  IN  /\ ~closed /\ closed' = TRUE
      /\ ok' \in IF ok THEN BOOLEAN ELSE {FALSE}
      /\ IF ~ok' THEN UNCHANGED <<file, offset, filter_block, index_block>>
         ELSE /\ filter_block' = fb /\ index_block' = index
              /\ file' = file \o (IF left THEN <<Written(h, "data", data_block)>> ELSE <<>>)
                             \o <<Written(fh, "filter", fb), Written(mh, "meta", fh),
                                  Written(ih, "index", index)>>
              /\ offset' = NextOffset(ih)
      /\ UNCHANGED <<data_block, last_key, pending, added>>

Next == (\E key \in Targets : Add(key)) \/ Finish

Spec == Init /\ [][Next]_vars

----------------------------------------------------------------------------
(***************************************************************************)
(* Table: Open finds the index and the filter through the footer.          *)
(***************************************************************************)
Footer == [metaindex |-> file[Len(file) - 1].handle, index |-> file[Len(file)].handle]
ReadBlock(h) == (CHOOSE x \in ToSet(file) : x.handle.offset = h.offset).block
IndexBlock == ReadBlock(Footer.index)
Filter == ReadBlock(ReadBlock(Footer.metaindex))

IndexSeek(k) == BlockSeek(IndexBlock, Invalid(IndexBlock), k)
InternalGet(k) ==   \* the key handed to the saver, or none
  LET i == IndexSeek(k)
      b == ReadBlock(i.value)
      it == BlockSeek(b, Invalid(b), k)
  IN  IF ~IterValid(IndexBlock, i) \/ ~KeyMayMatch(Filter, i.value.offset, k)
         \/ ~IterValid(b, it)
      THEN <<>> ELSE it.key
ApproximateOffsetOf(k) ==
  IF IterValid(IndexBlock, IndexSeek(k)) THEN IndexSeek(k).value.offset
  ELSE Footer.metaindex.offset

----------------------------------------------------------------------------
Finished == closed /\ ok
FirstFrom(k) == SelectSeq(added, LAMBDA x : ~Before(x, k))

\* GetAnswers: in a table whose Finish reported success, a lookup finds the newest
\* entry at or below the given sequence number, of every user key that has one,
\* and hands over no entry of that user key otherwise: neither separators nor
\* filters hide a key, and no Add that was ignored after a failure is missed.
GetAnswers ==
  Finished =>
    \A k \in Targets :
      LET got == InternalGet(k)
          want == FirstFrom(k)
          hit == want # <<>> /\ ExtractUserKey(want[1]) = ExtractUserKey(k)
      IN  IF hit THEN got = want[1]
          ELSE got = <<>> \/ ExtractUserKey(got) # ExtractUserKey(k)

\* BlockIterates: from wherever an iterator of a block stands, Seek finds the first
\* key at or after the target, and Prev and Next the neighbours, across restart
\* points and with the right key put together from shared prefixes.
BlockIterates ==
  LET b == data_block
      n == Len(b.entries)
      keys == SubSeq(added, Len(added) - n + 1, Len(added))
      At(it, i) == IF i \in 1..n THEN it.current = b.entries[i].offset /\ it.key = keys[i]
                   ELSE ~IterValid(b, it)
      last == BlockSeekToLast(b, Invalid(b))
  IN  ok /\ ~closed /\ n > 0 =>
        /\ At(last, n) /\ At(BlockSeekToFirst(b, last), 1)
        /\ \A k \in Targets :
             LET i == n - Len(SelectSeq(keys, LAMBDA x : ~Before(x, k))) + 1
                 it == BlockSeek(b, last, k)
             IN  /\ At(it, i)
                 /\ i <= n => At(BlockNext(b, it), i + 1) /\ At(BlockPrev(b, it), i - 1)

\* OffsetsMonotone: ApproximateOffsetOf never decreases from a key to a later one,
\* so that GetApproximateSizes may subtract, and stays inside the file.
OffsetsMonotone ==
  Finished =>
    \A j, k \in Targets :
      /\ ApproximateOffsetOf(k) < offset
      /\ Before(j, k) => ApproximateOffsetOf(j) <= ApproximateOffsetOf(k)
=============================================================================
