------------------------------ MODULE Encoding ------------------------------
(***************************************************************************)
(* What leveldb writes into its logs and directory entries: varints and    *)
(* length-prefixed strings, the WriteBatch of a log record, the VersionEdit*)
(* of a manifest record, and file names.  The widths are parameters: a     *)
(* varint byte carries the digits below B and the flag B for "more".       *)
(***************************************************************************)
EXTENDS Integers, FiniteSets, FiniteSetsExt, SequencesExt

CONSTANTS
  B,                        \* 128 in the code
  Groups32, Groups64,       \* varint bytes at most (5 and 10)
  String,                   \* keys, values and names: short byte strings
  Number,                   \* file and sequence numbers, all below B ^ Groups64
  kNumLevels,
  kMaxUint64,               \* of ConsumeDecimalNumber
  MaxOps                    \* bound: operations and fields

VARIABLES
  batch, other,   \* two WriteBatches
  ops, otherOps,  \* history: the operations they hold
  edit,           \* a VersionEdit
  fname           \* the file number whose names are made

vars == <<batch, other, ops, otherOps, edit, fname>>

----------------------------------------------------------------------------
(***************************************************************************)
(* Varints.  A decoder returns [ok, value, rest].                          *)
(***************************************************************************)
Fail == [ok |-> FALSE, value |-> 0, rest |-> <<>>]
Got(v, rest) == [ok |-> TRUE, value |-> v, rest |-> rest]

RECURSIVE EncodeVarint(_)
EncodeVarint(v) == IF v < B THEN <<v>> ELSE <<(v % B) + B>> \o EncodeVarint(v \div B)

RECURSIVE VarintFrom(_, _, _)
VarintFrom(in, groups, shift) ==
  IF groups = 0 \/ in = <<>> THEN Fail
  ELSE IF in[1] < B THEN Got(in[1] * shift, Tail(in))
  ELSE LET r == VarintFrom(Tail(in), groups - 1, shift * B)
       IN  [r EXCEPT !.value = @ + ((in[1] - B) * shift)]
GetVarint32(in) == VarintFrom(in, Groups32, 1)
GetVarint64_32(in) == GetVarint32(in)   \* faulty: the shorter decoder
GetVarint64(in) == VarintFrom(in, Groups64, 1)

PutLengthPrefixedSlice(s) == EncodeVarint(Len(s)) \o s
GetLengthPrefixedSlice(in) ==
  LET r == GetVarint32(in)
  IN  IF ~r.ok \/ r.value > Len(r.rest) THEN Fail
      ELSE Got(SubSeq(r.rest, 1, r.value), SubSeq(r.rest, r.value + 1, Len(r.rest)))

----------------------------------------------------------------------------
(***************************************************************************)
(* WriteBatch: the header (sequence, count) and the encoded operations.    *)
(***************************************************************************)
kTypeDeletion == 0
kTypeValue == 1

Clear == [seq |-> 0, count |-> 0, rep |-> <<>>]
BatchPut(b, k, v) ==
  [b EXCEPT !.count = @ + 1, !.rep = @ \o <<kTypeValue>> \o PutLengthPrefixedSlice(k)
                                       \o PutLengthPrefixedSlice(v)]
BatchDelete(b, k) ==
  [b EXCEPT !.count = @ + 1, !.rep = @ \o <<kTypeDeletion>> \o PutLengthPrefixedSlice(k)]
BatchAppend(dst, src) ==
  [dst EXCEPT !.count = @ + src.count, !.rep = @ \o src.rep]

Op(t, k, v) == [type |-> t, key |-> k, value |-> v]

\* Iterate with the MemTableInserter: the operations it makes, each with its
\* sequence number, and whether the batch was found in order.
RECURSIVE Iterate(_, _)
Iterate(in, done) ==
  LET tag == in[1]
      k == GetLengthPrefixedSlice(Tail(in))
      v == IF tag = kTypeValue /\ k.ok THEN GetLengthPrefixedSlice(k.rest)
           ELSE [k EXCEPT !.value = <<>>]
  IN  IF in = <<>> THEN [ok |-> TRUE, ops |-> done]
      ELSE IF tag \notin {kTypeDeletion, kTypeValue} \/ ~k.ok \/ ~v.ok
      THEN [ok |-> FALSE, ops |-> done]
      ELSE Iterate(v.rest, Append(done, Op(tag, k.value, v.value)))
InsertInto(b) ==
  LET r == Iterate(b.rep, <<>>)
  IN  [ok |-> r.ok /\ Len(r.ops) = b.count,
       adds |-> [i \in 1..Len(r.ops) |-> <<b.seq + i - 1, r.ops[i]>>]]

----------------------------------------------------------------------------
(***************************************************************************)
(* VersionEdit.  A field that has not been set is the empty sequence.      *)
(***************************************************************************)
kComparator == 1
kLogNumber == 2
kNextFileNumber == 3
kLastSequence == 4
kCompactPointer == 5
kDeletedFile == 6
kNewFile == 7
kPrevLogNumber == 9
Numbers == {kLogNumber, kNextFileNumber, kLastSequence, kPrevLogNumber}

EmptyEdit ==
  [comparator |-> <<>>, num |-> [t \in Numbers |-> <<>>],
   pointers |-> <<>>, deleted |-> {}, new |-> <<>>]

Tag(t) == EncodeVarint(t)
PutNumber(e, t) == IF e.num[t] = <<>> THEN <<>> ELSE Tag(t) \o EncodeVarint(e.num[t][1])
PairLess(a, b) == a[1] < b[1] \/ (a[1] = b[1] /\ a[2] < b[2])
Concat(ss) == FlattenSeq(ss)

EncodeTo(e) ==
  (IF e.comparator = <<>> THEN <<>>
   ELSE Tag(kComparator) \o PutLengthPrefixedSlice(e.comparator[1]))
  \o PutNumber(e, kLogNumber) \o PutNumber(e, kPrevLogNumber)
  \o PutNumber(e, kNextFileNumber) \o PutNumber(e, kLastSequence)
  \o Concat([i \in DOMAIN e.pointers |->
       Tag(kCompactPointer) \o EncodeVarint(e.pointers[i][1])
         \o PutLengthPrefixedSlice(e.pointers[i][2])])
  \o LET del == SetToSortSeq(e.deleted, PairLess)
     IN  Concat([i \in DOMAIN del |->
           Tag(kDeletedFile) \o EncodeVarint(del[i][1]) \o EncodeVarint(del[i][2])])
  \o Concat([i \in DOMAIN e.new |->
       Tag(kNewFile) \o EncodeVarint(e.new[i].level) \o EncodeVarint(e.new[i].number)
         \o EncodeVarint(e.new[i].size)
         \o PutLengthPrefixedSlice(e.new[i].smallest)
         \o PutLengthPrefixedSlice(e.new[i].largest)])

GetLevel(in) == LET r == GetVarint32(in) IN IF r.value < kNumLevels THEN r ELSE Fail

\* One field after its tag: the decoders in order, the first failure ends it.
Fields(in, decoders) ==
  FoldLeft(LAMBDA acc, d :
             LET r == CASE d = "level" -> GetLevel(acc.rest)
                        [] d = "number" -> GetVarint64(acc.rest)
                        [] d = "string" -> GetLengthPrefixedSlice(acc.rest)
             IN  IF ~acc.ok \/ ~r.ok THEN [acc EXCEPT !.ok = FALSE]
                 ELSE [ok |-> TRUE, value |-> Append(acc.value, r.value), rest |-> r.rest],
           Got(<<>>, in), decoders)

Shape(t) ==
  CASE t = kComparator -> <<"string">>
    [] t \in Numbers -> <<"number">>
    [] t = kCompactPointer -> <<"level", "string">>
    [] t = kDeletedFile -> <<"level", "number">>
    [] t = kNewFile -> <<"level", "number", "number", "string", "string">>
    [] OTHER -> <<>>

WithField(e, t, v) ==
  CASE t = kComparator -> [e EXCEPT !.comparator = v]
    [] t \in Numbers -> [e EXCEPT !.num[t] = v]
    [] t = kCompactPointer -> [e EXCEPT !.pointers = Append(@, v)]
    [] t = kDeletedFile -> [e EXCEPT !.deleted = @ \cup {v}]
    [] t = kNewFile ->
         [e EXCEPT !.new = Append(@, [level |-> v[1], number |-> v[2], size |-> v[3],
                                      smallest |-> v[4], largest |-> v[5]])]

RECURSIVE DecodeFrom(_, _)
DecodeFrom(in, e) ==
  LET tag == GetVarint32(in)
      f == Fields(tag.rest, Shape(tag.value))
  IN  IF in = <<>> THEN [ok |-> TRUE, edit |-> e]
      ELSE IF ~tag.ok \/ Shape(tag.value) = <<>> \/ ~f.ok THEN [ok |-> FALSE, edit |-> e]
      ELSE DecodeFrom(f.rest, WithField(e, tag.value, f.value))

----------------------------------------------------------------------------
(***************************************************************************)
(* File names: a prefix, decimal digits and a suffix.                      *)
(***************************************************************************)
FileSuffixes == {"log", "ldb", "sst", "dbtmp"}
FileType(s) == CASE s = "log" -> "kLogFile" [] s = "ldb" -> "kTableFile"
                 [] s = "sst" -> "kTableFile" [] s = "dbtmp" -> "kTempFile"
                 [] s = "MANIFEST" -> "kDescriptorFile"

RECURSIVE Decimal(_)
Decimal(n) == IF n < 10 THEN <<n>> ELSE Append(Decimal(n \div 10), n % 10)
Padded(d) == [i \in 1..Max({0, 6 - Len(d)}) |-> 0] \o d   \* %06llu
MakeFileName(n, suffix) == [digits |-> Padded(Decimal(n)), suffix |-> suffix]

Overflows(v, d) ==
  v > kMaxUint64 \div 10 \/ (v = kMaxUint64 \div 10 /\ d > kMaxUint64 % 10)

RECURSIVE ConsumeDecimalNumber(_, _)
ConsumeDecimalNumber(d, v) ==
  IF d = <<>> THEN Got(v, <<>>)
  ELSE IF Overflows(v, d[1]) THEN Fail
  ELSE ConsumeDecimalNumber(Tail(d), ((v * 10) + d[1]) % (kMaxUint64 + 1))
ParseFileName(f) ==
  LET r == ConsumeDecimalNumber(f.digits, 0)
  IN  [ok |-> r.ok /\ f.digits # <<>>, number |-> r.value, type |-> FileType(f.suffix)]

----------------------------------------------------------------------------
Init ==
  /\ batch = [Clear EXCEPT !.seq = Max(Number)]
  /\ other = Clear /\ ops = <<>> /\ otherOps = <<>>
  /\ edit = EmptyEdit /\ fname = 0

\* Users fill their batches; BuildBatchGroup appends one to another.
Put(k, v) ==
  /\ Len(ops) + Len(otherOps) < MaxOps
  /\ \/ /\ batch' = BatchPut(batch, k, v)
        /\ ops' = Append(ops, Op(kTypeValue, k, v)) /\ UNCHANGED <<other, otherOps>>
     \/ /\ other' = BatchPut(other, k, v)
        /\ otherOps' = Append(otherOps, Op(kTypeValue, k, v)) /\ UNCHANGED <<batch, ops>>
  /\ edit = EmptyEdit /\ fname = 0 /\ UNCHANGED <<edit, fname>>
Delete(k) ==
  /\ Len(ops) + Len(otherOps) < MaxOps
  /\ batch' = BatchDelete(batch, k) /\ ops' = Append(ops, Op(kTypeDeletion, k, <<>>))
  /\ edit = EmptyEdit /\ fname = 0 /\ UNCHANGED <<other, otherOps, edit, fname>>
AppendOther ==
  /\ other.count > 0
  /\ batch' = BatchAppend(batch, other) /\ ops' = ops \o otherOps
  /\ other' = Clear /\ otherOps' = <<>> /\ UNCHANGED <<edit, fname>>

FieldCount == Cardinality({t \in Numbers : edit.num[t] # <<>>}) + Len(edit.comparator)
                + Len(edit.pointers) + Cardinality(edit.deleted) + Len(edit.new)
SetField(t, v) ==
  /\ FieldCount < MaxOps /\ edit' = WithField(edit, t, v)
  /\ ops = <<>> /\ otherOps = <<>> /\ fname = 0
  /\ UNCHANGED <<batch, other, ops, otherOps, fname>>
NameFile ==
  /\ fname < kMaxUint64 /\ fname' = fname + 1
  /\ edit = EmptyEdit /\ ops = <<>> /\ otherOps = <<>>
  /\ UNCHANGED <<batch, other, ops, otherOps, edit>>

Level == 0..(kNumLevels - 1)
Next ==
  \/ \E k, v \in String : Put(k, v)
  \/ \E k \in String : Delete(k)
  \/ AppendOther
  \/ \E t \in Numbers, n \in Number : SetField(t, <<n>>)
  \/ \E s \in String : SetField(kComparator, <<s>>)
  \/ \E l \in Level, s \in String : SetField(kCompactPointer, <<l, s>>)
  \/ \E l \in Level, n \in Number : SetField(kDeletedFile, <<l, n>>)
  \/ \E l \in Level, n, z \in Number, s, t \in String :
       SetField(kNewFile, <<l, n, z, s, t>>)
  \/ NameFile

Spec == Init /\ [][Next]_vars

----------------------------------------------------------------------------
Cuts(s) == {SubSeq(s, 1, n) : n \in 0..(Len(s) - 1)}

\* BatchApplies: a batch, also one that others were appended to, replays the
\* operations in order under consecutive sequence numbers; a batch whose bytes are
\* cut short is never accepted.
BatchApplies ==
  LET r == InsertInto(batch)
  IN  /\ r.ok
      /\ r.adds = [i \in 1..Len(ops) |-> <<batch.seq + i - 1, ops[i]>>]
      /\ \A p \in Cuts(batch.rep) : ~InsertInto([batch EXCEPT !.rep = p]).ok

Fewer(e, f) ==   \* e has some of the fields of f, unchanged
  /\ e.comparator \in {<<>>, f.comparator}
  /\ \A t \in Numbers : e.num[t] \in {<<>>, f.num[t]}
  /\ e.deleted \subseteq f.deleted
  /\ IsPrefix(e.pointers, f.pointers) /\ IsPrefix(e.new, f.new)

\* EditDecodes: a VersionEdit is read back as it was written, at the limits of its
\* numbers too; one that is cut short is refused, or has whole fields missing at
\* the end, but never a wrong number or key.
EditDecodes ==
  LET enc == EncodeTo(edit)
  IN  /\ DecodeFrom(enc, EmptyEdit) = [ok |-> TRUE, edit |-> edit]
      /\ \A p \in Cuts(enc) :
           LET r == DecodeFrom(p, EmptyEdit) IN r.ok => Fewer(r.edit, edit)

\* NamesParse: the name made for a number parses to that number and type, and so
\* two files never share a name; a number too large for 64 bits is refused, not
\* wrapped.
NamesParse ==
  \A s \in FileSuffixes \cup {"MANIFEST"} :
    /\ ParseFileName(MakeFileName(fname, s)) =
         [ok |-> TRUE, number |-> fname, type |-> FileType(s)]
    /\ \A n \in 1..20 : ~ParseFileName(MakeFileName(kMaxUint64 + n, s)).ok
=============================================================================
