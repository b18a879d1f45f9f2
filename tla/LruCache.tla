------------------------------ MODULE LruCache -----------------------------
(***************************************************************************)
(* The fingerprint cache (prototype/lrucache.cc) with its pointers: a      *)
(* doubly linked list in recency order and a table of buckets of pointers  *)
(* to the list's nodes.  An operation is a function on the record of all   *)
(* of it.  Nodes are numbers; a deleted one is used again.                 *)
(***************************************************************************)
EXTENDS LruList

CONSTANT Chunk  \* the fingerprints the cache is asked for

VARIABLES
  c,     \* the cache
  call   \* the last call: its name, its argument and what it returned

NoNode == 0
Node == 1..(LRU_SIZE + 1)
Bucket == 0..(HASH_SIZE - 1)

\* lrucache::lrucache(int)
Empty ==
  [live |-> {}, key |-> [n \in Node |-> [i \in 1..FP_SIZE |-> 0]],
   next |-> [n \in Node |-> NoNode], front |-> [n \in Node |-> NoNode],
   head |-> NoNode, back |-> NoNode, now |-> 0,
   hash_table |-> [b \in Bucket |-> <<>>]]

(***************************************************************************)
(* The position of the first node of the bucket of f whose key strncmp     *)
(* calls equal to f, 0 if there is none.                                   *)
(***************************************************************************)
Position(d, f) ==
  SelectInSeq(d.hash_table[str_hash(f)], LAMBDA n : StrnEqual(d.key[n], f))

\* insert_hash appends to the chain of the bucket.
insert_hash(d, f, q) ==
  [d EXCEPT !.hash_table[str_hash(f)] = Append(@, q)]

delete_hash(d, f) ==
  IF Position(d, f) = 0 THEN d
  ELSE [d EXCEPT !.hash_table[str_hash(f)] = RemoveAt(@, Position(d, f))]

(***************************************************************************)
(* Taking p out of the list.                                               *)
(***************************************************************************)
Unlink(d, p) ==
  LET b == d.front[p]  n == d.next[p]
  IN  [d EXCEPT !.next  = IF b # NoNode THEN [@ EXCEPT ![b] = n] ELSE @,
                !.head  = IF b # NoNode THEN @ ELSE n,
                !.front = IF n # NoNode THEN [@ EXCEPT ![n] = b] ELSE @,
                !.back  = IF n # NoNode THEN @ ELSE b]

\* The count goes down even when there is no node.
delete_node(d, p) ==
  LET e == [d EXCEPT !.now = @ - 1]
  IN  IF p = NoNode THEN e
      ELSE [delete_hash(Unlink(e, p), d.key[p]) EXCEPT !.live = @ \ {p}]

(***************************************************************************)
(* new listnode, linked before head, entered into its bucket; then, if the *)
(* cache was full, the node at the back is deleted.                        *)
(***************************************************************************)
NewHead(d, f) ==
  LET q == CHOOSE n \in Node : n \notin d.live
      e == [d EXCEPT !.live = @ \cup {q}, !.key[q] = f,
                     !.next[q] = d.head,
                     !.front = [n \in Node |-> IF n = q THEN NoNode
                                               ELSE IF n = d.head THEN q
                                               ELSE @[n]],
                     !.back = IF d.head = NoNode THEN q ELSE @,
                     !.head = q]
  IN  insert_hash(e, f, q)

add(d, f) ==
  LET e == NewHead(d, f)
  IN  IF d.now < LRU_SIZE THEN [e EXCEPT !.now = @ + 1]
      ELSE [delete_node(e, e.back) EXCEPT !.now = @ + 1]

(***************************************************************************)
(* find_hash: a node that is found is deleted, and a new one for the       *)
(* fingerprint asked for becomes the head.                                 *)
(***************************************************************************)
find_hash_stays(d, f) == d   \* faulty: a hit does not move the node
find_hash(d, f) ==
  IF Position(d, f) = 0 THEN d
  ELSE add(delete_node(d, d.hash_table[str_hash(f)][Position(d, f)]), f)

put(d, f) == IF Position(d, f) = 0 THEN add(d, f) ELSE find_hash(d, f)

(***************************************************************************)
(* The nodes in list order, following the pointers of link from start.     *)
(***************************************************************************)
Chain(link, start) ==
  LET node[i \in 1..(LRU_SIZE + 2)] ==
        IF i = 1 THEN start
        ELSE IF node[i-1] = NoNode THEN NoNode ELSE link[node[i-1]]
  IN  SelectSeq(node, LAMBDA n : n # NoNode)

Keys(d) == LET w == Chain(d.next, d.head) IN [i \in 1..Len(w) |-> d.key[w[i]]]

(***************************************************************************)
(* output_conf, and init_conf in the next run of the program.              *)
(***************************************************************************)
SaveAndLoad(d) == FoldLeft(add, Empty, Keys(d))

Init == c = Empty /\ call = <<"init">>

Find(f) ==
  /\ c' = find_hash(c, f)
  /\ call' = <<"find", f, Position(c, f) # 0>>
Putdata(f) ==
  /\ c' = put(c, f)
  /\ call' = <<"putdata", f, Position(c, f) = 0>>
Reload == c' = SaveAndLoad(c) /\ call' = <<"reload">>

Next == Reload \/ \E f \in Chunk : Find(f) \/ Putdata(f)

Spec == Init /\ [][Next]_<<c, call>>

----------------------------------------------------------------------------
(***************************************************************************)
(* The list is sound after any sequence of calls: the nodes reached from   *)
(* head by next are those reached from back by front, in reverse; they are *)
(* exactly the nodes not deleted; now_cache_size counts them.              *)
(***************************************************************************)
ListSound ==
  LET w == Chain(c.next, c.head)
  IN  /\ Reverse(w) = Chain(c.front, c.back)
      /\ ToSet(w) = c.live /\ Len(w) = Cardinality(c.live)
      /\ c.now = Len(w)

(***************************************************************************)
(* No bucket points to a deleted node, every node is in the bucket of its  *)
(* key, once: find never follows a dangling list_pos, and misses nothing.  *)
(***************************************************************************)
TableSound ==
  /\ \A b \in Bucket : \A i \in 1..Len(c.hash_table[b]) :
       LET n == c.hash_table[b][i] IN n \in c.live /\ str_hash(c.key[n]) = b
  /\ \A n \in c.live :
       LET chain == c.hash_table[str_hash(c.key[n])]
       IN  Cardinality({i \in 1..Len(chain) : chain[i] = n}) = 1

(***************************************************************************)
(* Seen through its interface the pointer structure is the LRU sequence:   *)
(* each call returns what it would return there and leaves that order.     *)
(***************************************************************************)
Abstract == INSTANCE LruSpec WITH s <- Keys(c)

ImplementsLru == Abstract!Spec
=============================================================================
