-------------------------------- MODULE Heap -------------------------------
(***************************************************************************)
(* std::priority_queue over a vector, as libstdc++ implements it: the      *)
(* comparator is called on the pairs, and in the order, of push_heap and   *)
(* pop_heap, so that what a queue does with ties, or with a comparator     *)
(* that is no ordering, is what the programs get.  Elements are numbered   *)
(* from 1; the children of i are 2i and 2i+1.                              *)
(***************************************************************************)
EXTENDS Integers, Sequences

CONSTANT comp(_, _)

Top(h) == h[1]

\* __push_heap: the hole at i goes up while comp(parent, x).
RECURSIVE SiftUp(_, _, _)
SiftUp(h, i, x) ==
  IF i > 1 /\ comp(h[i \div 2], x)
  THEN SiftUp([h EXCEPT ![i] = h[i \div 2]], i \div 2, x)
  ELSE [h EXCEPT ![i] = x]

Push(h, x) == SiftUp(Append(h, x), Len(h) + 1, x)

\* __adjust_heap: the hole at i goes down to a leaf, then x goes up from it.
RECURSIVE SiftDown(_, _, _)
SiftDown(h, i, x) ==
  IF 2 * i > Len(h) THEN SiftUp(h, i, x)
  ELSE LET j == IF 2 * i = Len(h) \/ comp(h[2 * i + 1], h[2 * i])
                THEN 2 * i ELSE 2 * i + 1
       IN  SiftDown([h EXCEPT ![i] = h[j]], j, x)

Pop(h) ==
  LET n == Len(h)
  IN  IF n = 1 THEN <<>> ELSE SiftDown(SubSeq(h, 1, n - 1), 1, h[n])
=============================================================================
