----------------------------- MODULE BloomFilter ----------------------------
(***************************************************************************)
(* The Bloom filter of the prototype (prototype/bloom.c): the byte array,  *)
(* the arithmetic of the bit positions, and the text file it is kept in    *)
(* between runs.  Ddfs uses it as a set of bits.                           *)
(***************************************************************************)
EXTENDS Integers, Sequences

CONSTANTS
  Element,
  Hash(_, _),   \* murmurhash2 of an element under a seed
  Seed,         \* 0x9747b28c
  UINT,         \* number of values of an unsigned int
  bits, hashes, \* what bloom_init computes from the entries and the error
  NULL

VARIABLES
  ready, bf,    \* the filter; a byte is the set of its bits that are 1
  conf,         \* conf/bloomConf: a sequence of 0s and 1s, or NULL
  added, kept,  \* history: the elements of the filter and those of the file
  answer        \* history: what the last bloom_add returned and should have

vars == <<ready, bf, conf, added, kept, answer>>

bytes == IF bits % 8 # 0 THEN (bits \div 8) + 1 ELSE bits \div 8

Init ==
  /\ ready = FALSE /\ bf = <<>> /\ conf = NULL
  /\ added = {} /\ kept = {} /\ answer = <<0, 0>>

bloom_init ==
  /\ ~ready
  /\ ready' = TRUE /\ bf' = [n \in 1..bytes |-> {}]
  /\ added' = {}
  /\ UNCHANGED <<conf, kept, answer>>

(***************************************************************************)
(* The i-th position of an element, in unsigned int arithmetic that wraps. *)
(***************************************************************************)
Position(e, i) ==
  LET a == Hash(e, Seed)
      b == Hash(e, a)
  IN  ((a + ((i * b) % UINT)) % UINT) % bits

Byte(x) == (x \div 8) + 1
Test(f, x) == (x % 8) \in f[Byte(x)]

Set(f, x) == [f EXCEPT ![Byte(x)] = @ \cup {x % 8}]

(***************************************************************************)
(* bloom_check_add: each position is tested and, in bloom_add, set before  *)
(* the next one is.                                                        *)
(***************************************************************************)
bloom_check_add(e, add) ==
  LET s[i \in 0..hashes] ==
        IF i = 0 THEN [f |-> bf, hits |-> 0]
        ELSE LET x == Position(e, i - 1)
             IN  IF Test(s[i-1].f, x) THEN [s[i-1] EXCEPT !.hits = @ + 1]
                 ELSE IF add THEN [s[i-1] EXCEPT !.f = Set(@, x)] ELSE s[i-1]
  IN  [f |-> s[hashes].f, ret |-> IF s[hashes].hits = hashes THEN 1 ELSE 0]

bloom_check(e) == bloom_check_add(e, FALSE).ret

bloom_add(e) ==
  /\ ready
  /\ bf' = bloom_check_add(e, TRUE).f
  /\ answer' = <<bloom_check_add(e, TRUE).ret, bloom_check(e)>>
  /\ added' = added \cup {e}
  /\ UNCHANGED <<ready, conf, kept>>

\* bloom_conf_out: eight characters for a byte, the highest bit first.
bloom_conf_out ==
  /\ ready
  /\ conf' = [n \in 1..(8 * bytes) |->
                IF (7 - ((n - 1) % 8)) \in bf[((n - 1) \div 8) + 1] THEN 1 ELSE 0]
  /\ kept' = added
  /\ UNCHANGED <<ready, bf, added, answer>>

\* The byte read from eight characters: pow(2, 7 - j) for the j-th.
ReadByte_low(n) == {j \in 0..7 : conf[(n - 1) * 8 + j + 1] = 1}  \* faulty
ReadByte(n) == {7 - j : j \in {j \in 0..7 : conf[(n - 1) * 8 + j + 1] = 1}}

bloom_init_conf ==
  /\ ready /\ conf # NULL
  /\ bf' = [n \in 1..bytes |-> ReadByte(n)]
  /\ added' = kept
  /\ UNCHANGED <<ready, conf, kept, answer>>

bloom_free ==
  /\ ready
  /\ ready' = FALSE /\ bf' = <<>> /\ added' = {}
  /\ UNCHANGED <<conf, kept, answer>>

Next ==
  \/ bloom_init \/ bloom_conf_out \/ bloom_init_conf \/ bloom_free
  \/ \E e \in Element : bloom_add(e)

Spec == Init /\ [][Next]_vars

----------------------------------------------------------------------------
(***************************************************************************)
(* Every position lies in the array, whatever the hashes and the wrapping. *)
(***************************************************************************)
InBounds ==
  ready => \A e \in Element, i \in 0..(hashes - 1) : Byte(Position(e, i)) <= bytes

(***************************************************************************)
(* An element that was added is found, in this run and, through the file,  *)
(* in later ones.                                                          *)
(***************************************************************************)
AddedFound == ready => \A e \in added : bloom_check(e) = 1

(***************************************************************************)
(* bloom_add returns 1 exactly for an element that bloom_check would have  *)
(* reported before, though it sets bits between its own tests.             *)
(***************************************************************************)
AddTellsCheck == answer[1] = answer[2]
=============================================================================
