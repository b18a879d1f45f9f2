---------------------------- MODULE Fingerprint ----------------------------
(***************************************************************************)
(* Chunk fingerprints as the programs of this repository handle them: six  *)
(* chars, hashed and compared by the C string functions.  FP_SIZE, the     *)
(* char values and the widths are parameters; the code fixes FP_SIZE = 6,  *)
(* HASH_SIZE = 5000000 and ULONG = 2^64.                                   *)
(***************************************************************************)
EXTENDS Integers, Sequences

CONSTANTS
  FP_SIZE,    \* bytes of a fingerprint
  Char,       \* the values of a (signed) char that occur, 0 being NUL
  HASH_SIZE,  \* buckets of the cache's hash table
  ULONG       \* number of values of an unsigned long

ASSUME FpAssumption ==
  /\ FP_SIZE \in Nat \ {0}
  /\ Char \subseteq -128..127
  /\ 0 \in Char
  /\ HASH_SIZE \in Nat \ {0}
  /\ ULONG \in Nat \ {0}

Fp == [1..FP_SIZE -> Char]

\* Faulty: one character is left out.
(***************************************************************************)
(* strncmp(f, g, FP_SIZE) == 0: equal up to the first NUL, or throughout.  *)
(***************************************************************************)
StrnEqual(f, g) ==
  \A i \in 1..FP_SIZE : (\A j \in 1..(i-1) : f[j] # 0) => f[i] = g[i]

(***************************************************************************)
(* str_hash: the multiplier-5 hash, in unsigned long arithmetic.           *)
(***************************************************************************)
str_hash(f) ==
  LET key[i \in 0..FP_SIZE] ==
        IF i = 0 THEN 0 ELSE (key[i-1] * 5 + f[i]) % ULONG
  IN  key[FP_SIZE] % HASH_SIZE

(***************************************************************************)
(* The cache cannot tell f from g: same bucket, and strncmp calls them     *)
(* equal.                                                                  *)
(***************************************************************************)
Alias(f, g) == str_hash(f) = str_hash(g) /\ StrnEqual(f, g)

(***************************************************************************)
(* What a container file may hold for f.  The writer copies the            *)
(* fingerprint through string(it->c_str()), which stops at the first NUL,  *)
(* and then prints FP_SIZE characters of the copy: those behind the NUL    *)
(* are read past the end of the string and can be anything.                *)
(***************************************************************************)
FileImages(f) == {g \in Fp : StrnEqual(f, g)}
=============================================================================
