------------------------------ MODULE KeyValue -----------------------------
(***************************************************************************)
(* A leveldb store as the programs use it: a partial function.  Get is     *)
(* application, NotFound is a key outside the domain.                      *)
(***************************************************************************)
EXTENDS Integers, SequencesExt

EmptyStore == [k \in {} |-> {}]

Put(m, k, v) == [x \in DOMAIN m \cup {k} |-> IF x = k THEN v ELSE m[x]]

Delete(m, k) == [x \in DOMAIN m \ {k} |-> m[x]]

----------------------------------------------------------------------------
\* The databases the counting programs write and the attacks read: how often
\* each chunk occurs, and lists of neighbours with their counts.

(***************************************************************************)
(* Get, Delete and Put of a counter.                                       *)
(***************************************************************************)
Counted(m, f) == Put(m, f, IF f \in DOMAIN m THEN m[f] + 1 ELSE 1)

(***************************************************************************)
(* A neighbour list with g counted once more: its entry is incremented, or *)
(* a new one is appended.                                                  *)
(***************************************************************************)
Bump(list, g) ==
  LET pos == SelectInSeq(list, LAMBDA e : e.key = g)
  IN  IF pos = 0 THEN Append(list, [key |-> g, count |-> 1])
      ELSE [list EXCEPT ![pos].count = @ + 1]

Neighbour(m, f, g) ==
  Put(m, f, Bump(IF f \in DOMAIN m THEN m[f] ELSE <<>>, g))
=============================================================================
