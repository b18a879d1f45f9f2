------------------------------ MODULE LogFormat -----------------------------
(***************************************************************************)
(* leveldb's log files: log::Writer cuts a record into fragments that do   *)
(* not cross a block, log::Reader puts them together again and resumes at  *)
(* the next block after damage.  A file is a sequence of cells.  A header  *)
(* is kHeaderSize cells, the first of which carries type, length and       *)
(* checksum; the checksum is the payload itself.                           *)
(***************************************************************************)
EXTENDS Integers, FiniteSets, SequencesExt

CONSTANTS
  kBlockSize, kHeaderSize,   \* kBlockSize > kHeaderSize > 0
  Sizes,                  \* lengths of the records written
  MaxLength, MaxDamage    \* bounds: cells of the file, crashes and bad cells

VARIABLES
  file,
  block_offset,   \* of the writer
  written,        \* history: the records, with the offset of the first header
  damage,         \* history: the cells that were spoiled, or lost by a crash
  ended           \* history: a crash cut the file and nothing was added since

vars == <<file, block_offset, written, damage, ended>>

kZeroType == 0
kFullType == 1
kFirstType == 2
kMiddleType == 3
kLastType == 4
kEof == 5
kBadRecord == 6

Cell(k, t, n, p) == [kind |-> k, type |-> t, length |-> n, crc |-> p]
Zero == Cell("zero", kZeroType, 0, <<>>)
Bad == Cell("bad", kFullType, 0, <<-1>>)             \* a wrong checksum
Long == Cell("bad", kFullType, kBlockSize, <<-1>>)   \* and a wrong length
Data(id, n) == [i \in 1..n |-> Cell("data", id, i, <<>>)]

----------------------------------------------------------------------------
(***************************************************************************)
(* The writer.                                                             *)
(***************************************************************************)
Header2(t, p) == [i \in 1..(kHeaderSize - 1) |-> Cell("rest", t, i, p)]
EmitPhysicalRecord(f, t, p) ==
  f \o <<Cell("head", t, Len(p), p)>> \o Header2(t, p) \o p

FragmentType(begin, end) ==
  IF begin /\ end THEN kFullType ELSE IF begin THEN kFirstType
  ELSE IF end THEN kLastType ELSE kMiddleType

Writer(f, off) == [file |-> f, off |-> off]

RECURSIVE AddFragments(_, _, _)
AddFragments(wr, p, begin) ==
  LET leftover == kBlockSize - wr.off
      skip == leftover < kHeaderSize   \* fill the trailer, switch to a new block
      f == wr.file \o (IF skip THEN [i \in 1..leftover |-> Zero] ELSE <<>>)
      off == IF skip THEN 0 ELSE wr.off
      avail == kBlockSize - off - kHeaderSize
      n == IF Len(p) < avail THEN Len(p) ELSE avail
      w2 == Writer(EmitPhysicalRecord(f, FragmentType(begin, n = Len(p)),
                                      SubSeq(p, 1, n)), off + kHeaderSize + n)
  IN  IF n = Len(p) THEN w2
      ELSE AddFragments(w2, SubSeq(p, n + 1, Len(p)), FALSE)
AddRecord(wr, p) == AddFragments(wr, p, TRUE)

\* Where the first header of a record goes.
StartOf(wr) == IF kBlockSize - wr.off < kHeaderSize
               THEN Len(wr.file) + kBlockSize - wr.off ELSE Len(wr.file)

----------------------------------------------------------------------------
(***************************************************************************)
(* The reader r of a file f: the buffer is the cells from r.at up to r.end *)
(* (end_of_buffer_offset_), counted from 0; out collects the records and   *)
(* drops counts the calls of the reporter.                                 *)
(***************************************************************************)
SkipToInitialBlock(o) ==
  LET in == o % kBlockSize
      start == o - in
  IN  IF in > kBlockSize - (kHeaderSize - 1) THEN start + kBlockSize ELSE start

Reader(o) ==
  [at |-> SkipToInitialBlock(o), end |-> SkipToInitialBlock(o), eof |-> FALSE,
   initial |-> o, resyncing |-> o > 0, fragmented |-> FALSE, scratch |-> <<>>,
   out |-> <<>>, drops |-> 0, done |-> FALSE]

Drop(r, bytes) ==
  IF r.end - (r.end - r.at) - bytes >= r.initial
  THEN [r EXCEPT !.drops = @ + 1] ELSE r
ClearBuffer(r) == [r EXCEPT !.at = r.end]

\* One file_->Read of a block.
Refill(f, r) ==
  IF r.end - r.at >= kHeaderSize \/ r.eof THEN r
  ELSE LET left == Len(f) - r.end
           n == IF left < 0 THEN 0 ELSE IF left < kBlockSize THEN left ELSE kBlockSize
       IN  [r EXCEPT !.at = r.end, !.end = @ + n, !.eof = n < kBlockSize]

Physical(r, type, fragment) == [r |-> r, type |-> type, fragment |-> fragment]

\* The rest of the buffer is dropped: the length cannot be trusted.
Damage(r, size) == Physical(Drop(ClearBuffer(r), size), kBadRecord, <<>>)

BeforeInitialOffset(r) == r.at < r.initial

ReadPhysicalRecord(f, r0) ==
  LET r == Refill(f, Refill(f, r0))
      h == f[r.at + 1]
      size == r.end - r.at
      p == SubSeq(f, r.at + kHeaderSize + 1, r.at + kHeaderSize + h.length)
      damaged == h.kind # "head" \/ h.crc # p
                   \/ SubSeq(f, r.at + 2, r.at + kHeaderSize) # Header2(h.type, p)
  IN  IF size < kHeaderSize THEN Physical(ClearBuffer(r), kEof, <<>>)
      ELSE IF kHeaderSize + h.length > size
      THEN IF r.eof THEN Physical(ClearBuffer(r), kEof, <<>>)
           ELSE Damage(r, size)
      ELSE IF h.kind = "zero" THEN Physical(ClearBuffer(r), kBadRecord, <<>>)
      ELSE IF damaged THEN Damage(r, size)
      ELSE LET r2 == [r EXCEPT !.at = @ + kHeaderSize + h.length]
           IN  IF BeforeInitialOffset(r) THEN Physical(r2, kBadRecord, <<>>)
               ELSE Physical(r2, h.type, p)

\* What ReadRecord does with one physical record.
Deliver(r, p) ==
  [r EXCEPT !.out = Append(@, p), !.fragmented = FALSE, !.scratch = <<>>]
Restarted(r) ==   \* "partial record without end"
  IF r.fragmented /\ r.scratch # <<>> THEN Drop(r, Len(r.scratch)) ELSE r

BadRecord_kept(r) == r   \* faulty: the fragments before it are not forgotten
BadRecord(r) ==
  IF r.fragmented
  THEN [Drop(r, Len(r.scratch)) EXCEPT !.fragmented = FALSE, !.scratch = <<>>]
  ELSE r

Logical(r, type, p) ==
  CASE type = kFullType -> Deliver(Restarted(r), p)
    [] type = kFirstType ->
         [Restarted(r) EXCEPT !.scratch = p, !.fragmented = TRUE]
    [] type = kMiddleType ->
         IF r.fragmented THEN [r EXCEPT !.scratch = @ \o p] ELSE Drop(r, Len(p))
    [] type = kLastType ->
         IF r.fragmented THEN Deliver(r, r.scratch \o p) ELSE Drop(r, Len(p))
    [] type = kEof -> [r EXCEPT !.done = TRUE]
    [] type = kBadRecord -> BadRecord(r)

\* After a seek, the rest of a record that began earlier is skipped silently.
Resync(r, type, p) ==
  IF r.resyncing /\ type = kMiddleType THEN r
  ELSE IF r.resyncing /\ type = kLastType THEN [r EXCEPT !.resyncing = FALSE]
  ELSE Logical([r EXCEPT !.resyncing = FALSE], type, p)

RECURSIVE ReadRecords(_, _)
ReadRecords(f, r) ==
  IF r.done THEN r
  ELSE LET x == ReadPhysicalRecord(f, r)
       IN  ReadRecords(f, Resync(x.r, x.type, x.fragment))
ReadAll(f, o) == ReadRecords(f, Reader(o))

----------------------------------------------------------------------------
Init ==
  /\ file = <<>> /\ block_offset = 0 /\ written = <<>> /\ damage = {}
  /\ ended = FALSE

\* Records are written one after another, by writers that may have opened the
\* file for appending.
Add(n) ==
  LET wr == Writer(file, block_offset)
      p == Data(Len(written) + 1, n)
  IN  \E x \in {AddRecord(wr, p)} :
        /\ Len(x.file) <= MaxLength
        /\ file' = x.file /\ block_offset' = x.off
        /\ written' = Append(written, [start |-> StartOf(wr), data |-> p,
                                       end |-> Len(x.file)])
        /\ ended' = FALSE /\ UNCHANGED damage

\* A crash in the middle of a record (or of what was written since the last
\* sync); the file is opened for appending again (reuse_logs).
Crash(n) ==
  /\ Cardinality(damage) < MaxDamage /\ n < Len(file)
  /\ file' = SubSeq(file, 1, n) /\ block_offset' = n % kBlockSize
  /\ damage' = damage \cup {n + 1} /\ ended' = (damage = {})
  /\ written' = SelectSeq(written, LAMBDA x : x.end <= n)

\* A bad cell on the disk.
Spoil(i, c) ==
  /\ Cardinality(damage) < MaxDamage /\ i \in 1..Len(file)
  /\ file' = [file EXCEPT ![i] = c]
  /\ damage' = damage \cup {i} /\ ended' = FALSE
  /\ UNCHANGED <<block_offset, written>>

Next ==
  \/ \E n \in Sizes : Add(n)
  \/ \E n \in 0..MaxLength : Crash(n)
  \/ \E i \in 1..MaxLength, c \in {Zero, Bad, Long} : Spoil(i, c)

Spec == Init /\ [][Next]_vars

----------------------------------------------------------------------------
Records(W) == [i \in 1..Len(W) |-> W[i].data]
Block(offset) == offset \div kBlockSize

\* ReadsBack: an undamaged log, or one that a crash cut short, gives back the
\* whole records it holds and no complaint; a reader that starts at an offset
\* gives those whose first header is there or later (but may complain: a first
\* fragment before the offset ends the resynchronisation too early).
ReadsBack ==
  damage = {} \/ ended =>
    \A o \in 0..Len(file) :
      LET r == ReadAll(file, o)
      IN  /\ r.out = Records(SelectSeq(written, LAMBDA x : x.start >= o))
          /\ o = 0 => r.drops = 0

\* NothingInvented: whatever the damage, and whatever was appended after it,
\* every record read is one that was written, and the order is theirs: fragments
\* of two records are never put together.
NothingInvented ==
  LET out == ReadAll(file, 0).out
  IN  \E f \in [1..Len(out) -> 1..Len(written)] :
        /\ \A i \in 1..Len(out) : out[i] = written[f[i]].data
        /\ \A i \in 2..Len(out) : f[i - 1] < f[i]

\* LossIsLocal: a record with no part in a damaged block is read.
LossIsLocal ==
  LET out == ToSet(ReadAll(file, 0).out)
      bad == {Block(i - 1) : i \in damage}
  IN  \A i \in 1..Len(written) :
        (\A b \in Block(written[i].start)..Block(written[i].end - 1) : b \notin bad)
          => written[i].data \in out
=============================================================================
