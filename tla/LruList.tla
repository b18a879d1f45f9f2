------------------------------ MODULE LruList ------------------------------
(***************************************************************************)
(* The fingerprint cache of the prototype (class lrucache) seen through    *)
(* its interface: the fingerprints in recency order, the most recently     *)
(* used one first.                                                         *)
(***************************************************************************)
EXTENDS Fingerprint, SequencesExt

CONSTANT LRU_SIZE  \* max_cache_size, in fingerprints

ASSUME LruAssumption == LRU_SIZE \in Nat \ {0}

Cached(s, f) == \E i \in 1..Len(s) : Alias(f, s[i])

(***************************************************************************)
(* add_node_to_head: a full cache drops its last element.                  *)
(***************************************************************************)
add_node_to_head(s, f) ==
  IF Len(s) < LRU_SIZE THEN <<f>> \o s ELSE <<f>> \o Front(s)

(***************************************************************************)
(* find on a hit: the node found is deleted and f, the fingerprint asked   *)
(* for, becomes the head.                                                  *)
(***************************************************************************)
Touch(s, f) ==
  LET i == CHOOSE i \in 1..Len(s) : Alias(f, s[i])
  IN  add_node_to_head(RemoveAt(s, i), f)

putdata_unchecked(s, f) == add_node_to_head(s, f)   \* faulty: no find
putdata(s, f) == IF Cached(s, f) THEN Touch(s, f) ELSE add_node_to_head(s, f)

(***************************************************************************)
(* init_conf: every line of the saved cache is added to the head, so the   *)
(* order of the file is reversed and the lines beyond LRU_SIZE push out    *)
(* the first ones.                                                         *)
(***************************************************************************)
init_conf(lines) ==
  SubSeq(Reverse(lines), 1,
         IF Len(lines) < LRU_SIZE THEN Len(lines) ELSE LRU_SIZE)
=============================================================================
