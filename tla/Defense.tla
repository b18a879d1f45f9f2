------------------------------- MODULE Defense ------------------------------
(***************************************************************************)
(* The three defenses.  Each program reads the chunks of a snapshot, cuts  *)
(* them into segments, and prints each segment when it is complete:        *)
(*   scrambling  in a scrambled order,                                     *)
(*   minhash     encrypted under a minimum fingerprint of the segment,     *)
(*   combined    scrambled and encrypted.                                  *)
(* Their read_hashes are the same but for the queue of minima.             *)
(* A fingerprint is a number in the order of memcmp.                       *)
(***************************************************************************)
EXTENDS Integers, FiniteSets, SequencesExt, KeyValue

CONSTANTS
  Schemes,     \* the programs: "scrambling", "minhash", "combined"
  Key,         \* the fingerprints that occur
  hash5(_),    \* the last char of a fingerprint, signed
  Sizes,       \* the chunk sizes that occur
  SEG_MIN, SEG_MAX, K_MINHASH,
  Enc(_, _),   \* Enc(k, f): MD5 of f and the key k, cut to FP_SIZE bytes
  MaxLines     \* bound: lines of the snapshot

VARIABLES
  scheme,       \* the program that runs
  sq, sq_size,  \* the segment being collected and its size
  pq,           \* the heap of its minimum fingerprints
  relate,       \* ground truth: ciphertext -> plaintext fingerprint
  out,          \* the segments printed
  pc,           \* "read", "done", or "undefined" after top() of an empty heap
  lines,        \* lines read
  segs, plain, cores  \* history: segments as read, as ordered, their keys

vars == <<scheme, sq, sq_size, pq, relate, out, pc, lines, segs, plain,
          cores>>

Encrypts == scheme # "scrambling"
Scrambles == scheme # "minhash"

\* cmp returns memcmp as a bool: any two different fingerprints compare true.
cmp(a, b) == b # a
H == INSTANCE Heap WITH comp <- cmp

Init ==
  /\ scheme \in Schemes
  /\ sq = <<>> /\ sq_size = 0 /\ pq = <<>> /\ relate = EmptyStore
  /\ out = <<>> /\ pc = "read" /\ lines = 0
  /\ segs = <<>> /\ plain = <<>> /\ cores = <<>>

(***************************************************************************)
(* (hash[5] << 2) >> 2 == 0x3f: the char is promoted to int, so the shifts *)
(* lose nothing.                                                           *)
(***************************************************************************)
Divides(f) == (hash5(f) * 4) \div 4 = 63

Boundary(f, n) ==
  \/ sq_size + n > SEG_MAX
  \/ sq_size >= SEG_MIN /\ Divides(f)

(***************************************************************************)
(* The order of a segment: each chunk goes to the front or to the back.    *)
(***************************************************************************)
Deal(s, back) ==
  FoldLeft(LAMBDA d, i : IF back[i] THEN Append(d, s[i]) ELSE <<s[i]>> \o d,
           <<>>, [i \in 1..Len(s) |-> i])

Orders(s) ==
  IF Scrambles THEN {Deal(s, b) : b \in [1..Len(s) -> BOOLEAN]} ELSE {s}

Popped == 0..(K_MINHASH - 1)   \* rand() % K_MINHASH

\* k elements are popped, the next one is the key.
RECURSIVE PopN(_, _)
PopN(h, k) == IF k = 0 THEN h ELSE PopN(H!Pop(h), k - 1)

Record(r, s, k) == FoldLeft(LAMBDA m, e : Put(m, Enc(k, e.key), e.key), r, s)

(***************************************************************************)
(* process_seg.  With fewer elements in the heap than are popped, the top  *)
(* of an empty vector is read.                                             *)
(***************************************************************************)
process_seg(next) ==
  \E k \in Popped, o \in Orders(sq) :
    /\ segs' = Append(segs, sq) /\ plain' = Append(plain, o)
    /\ IF ~Encrypts
       THEN /\ out' = Append(out, o) /\ pc' = next
            /\ UNCHANGED <<relate, cores>>
       ELSE IF k >= Len(pq)
       THEN pc' = "undefined" /\ UNCHANGED <<out, relate, cores>>
       ELSE LET core == H!Top(PopN(pq, k))
            IN  /\ out' = Append(out, [i \in 1..Len(o) |->
                     [key |-> Enc(core, o[i].key), size |-> o[i].size]])
                /\ relate' = Record(relate, o, core)
                /\ cores' = Append(cores, core)
                /\ pc' = next

\* The queue of minima after a chunk; scrambling has none.
Minima(h, f) ==
  IF ~Encrypts THEN <<>>
  ELSE IF Len(h) < K_MINHASH THEN H!Push(h, f)
  ELSE IF H!Top(h) > f THEN H!Push(H!Pop(h), f) ELSE h

(***************************************************************************)
(* One line of read_hashes.                                                *)
(***************************************************************************)
Line(f, n) ==
  /\ pc = "read" /\ lines < MaxLines
  /\ lines' = lines + 1 /\ UNCHANGED scheme
  /\ IF Boundary(f, n)
     THEN /\ process_seg("read")
          /\ sq' = <<[key |-> f, size |-> n]>> /\ sq_size' = n
          /\ pq' = Minima(<<>>, f)
     ELSE /\ sq' = Append(sq, [key |-> f, size |-> n])
          /\ sq_size' = sq_size + n
          /\ pq' = Minima(pq, f)
          /\ UNCHANGED <<relate, out, pc, segs, plain, cores>>

\* main: the last segment.
EndOfFile ==
  /\ pc = "read"
  /\ process_seg("done")
  /\ sq' = <<>> /\ sq_size' = 0 /\ pq' = <<>>
  /\ UNCHANGED <<scheme, lines>>

Next == EndOfFile \/ \E f \in Key, n \in Sizes : Line(f, n)

Spec == Init /\ [][Next]_vars

----------------------------------------------------------------------------
SizeOf(s) == FoldLeft(LAMBDA n, e : n + e.size, 0, s)

Occurrences(s, x) == Cardinality({i \in 1..Len(s) : s[i] = x})

(***************************************************************************)
(* The segments obey the limits: none but a single large chunk exceeds     *)
(* SEG_MAX, and one ends below SEG_MIN only because the next chunk did not *)
(* fit or there was none.                                                  *)
(***************************************************************************)
SegmentSizes ==
  \A j \in 1..Len(segs) :
    LET after == IF j < Len(segs) THEN segs[j + 1] ELSE sq
    IN  /\ SizeOf(segs[j]) > SEG_MAX => Len(segs[j]) = 1
        /\ SizeOf(segs[j]) < SEG_MIN /\ after # <<>> =>
             SizeOf(segs[j]) + Head(after).size > SEG_MAX

(***************************************************************************)
(* The same chunks with the same sizes are printed as were read, segment   *)
(* by segment: scrambling stays inside the segment and loses nothing.      *)
(***************************************************************************)
SameChunks ==
  \A j \in 1..Len(out) :
    /\ Len(out[j]) = Len(segs[j])
    /\ \A x \in Range(segs[j]) :
         Occurrences(plain[j], x) = Occurrences(segs[j], x)

(***************************************************************************)
(* The ground truth names the plaintext of every ciphertext printed, also  *)
(* of those printed long before.                                           *)
(***************************************************************************)
GroundTruth ==
  Encrypts =>
    \A j \in 1..Len(out) : \A i \in 1..Len(out[j]) :
      /\ out[j][i].key \in DOMAIN relate
      /\ relate[out[j][i].key] = plain[j][i].key

(***************************************************************************)
(* The key of a segment is one of its K_MINHASH smallest fingerprints.     *)
(***************************************************************************)
KeyIsMinimum ==
  \A j \in 1..Len(cores) :
    /\ \E i \in 1..Len(segs[j]) : segs[j][i].key = cores[j]
    /\ Cardinality({i \in 1..Len(segs[j]) : segs[j][i].key < cores[j]})
         < K_MINHASH

(***************************************************************************)
(* process_seg never reads the top of an empty heap once there was a line. *)
(***************************************************************************)
HeapNotEmpty == lines > 0 => pc # "undefined"
=============================================================================
