----------------------------- MODULE RbTreeApi ------------------------------
(***************************************************************************)
(* Any sequence of calls of the red-black tree: insertions, removals and   *)
(* replacements of nodes, with the augmented values kept along.            *)
(***************************************************************************)
EXTENDS RbTree, FiniteSets

CONSTANT Keys        \* keys 1..Keys; the nodes k and k + Keys carry key k

VARIABLES
  tree,
  value,             \* the augmented value of each node
  members            \* history: the nodes in the tree

vars == <<tree, value, members>>

Init == tree = RB_ROOT /\ value = [n \in Node |-> 0] /\ members = {}

\* A freed node keeps nothing.
Freed(T, n) == [T EXCEPT !.parent[n] = Nil, !.color[n] = Red, !.kid["l"][n] = Nil, !.kid["r"][n] = Nil]

Insert(n) ==
  /\ n \notin members /\ \A m \in members : KeyOf(m) # KeyOf(n)
  /\ \E T \in {rbtree_insert(tree, n)} :
       /\ tree' = T
       /\ value' = rb_augment_insert(T, value, n)
  /\ members' = members \union {n}
Erase(n) ==
  /\ n \in members
  /\ \E T \in {Freed(rb_erase(tree, n), n)} :
       /\ tree' = T
       /\ value' = [rb_augment_erase_end(T, value, rb_augment_erase_begin(tree, n)) EXCEPT ![n] = 0]
  /\ members' = members \ {n}
Replace(victim, new) ==   \* with a copy of the element, augmented value included
  /\ victim \in members /\ new \notin members /\ KeyOf(new) = KeyOf(victim)
  /\ tree' = Freed(rb_replace_node(tree, victim, new), victim)
  /\ value' = [value EXCEPT ![new] = value[victim], ![victim] = 0]
  /\ members' = (members \ {victim}) \union {new}

Next ==
  \/ \E n \in Node : Insert(n) \/ Erase(n)
  \/ \E n, m \in Node : Replace(n, m)
Spec == Init /\ [][Next]_vars

----------------------------------------------------------------------------
RECURSIVE BlackHeight(_)
BlackHeight(n) ==   \* along the left edge
  IF n = Nil THEN 0
  ELSE BlackHeight(tree.kid["l"][n]) + (IF tree.color[n] = Black THEN 1 ELSE 0)

\* rb_insert_color and rb_erase leave a red-black tree: a black root, no red
\* node under a red one, as many black nodes on every path, and parents that
\* agree with the kids.
RedBlack ==
  /\ ~IsRed(tree, tree.root)
  /\ \A n \in members : \A d \in {"l", "r"} :
       LET c == tree.kid[d][n]
       IN  /\ ~(IsRed(tree, n) /\ IsRed(tree, c))
           /\ BlackHeight(tree.kid["l"][n]) = BlackHeight(tree.kid["r"][n])
           /\ c # Nil => tree.parent[c] = n

RECURSIVE WalkNext(_)
WalkNext(n) == IF n = Nil THEN <<>> ELSE <<n>> \o WalkNext(rb_next(tree, n))
RECURSIVE WalkPrev(_)
WalkPrev(n) == IF n = Nil THEN <<>> ELSE WalkPrev(rb_prev(tree, n)) \o <<n>>
Sorted(s) == \A i \in 1..Len(s) - 1 : KeyOf(s[i]) < KeyOf(s[i + 1])

\* rb_first and rb_next pass every member once in the order of the keys,
\* rb_last and rb_prev in the opposite order, and search_rbtree finds exactly
\* the members.
WalksMembers ==
  /\ \A s \in {WalkNext(rb_first(tree)), WalkPrev(rb_last(tree))} :
       Sorted(s) /\ {s[i] : i \in 1..Len(s)} = members
  /\ \A k \in 1..Keys :
       LET n == search_rbtree(tree, k)
       IN  IF \E m \in members : KeyOf(m) = k THEN n \in members /\ KeyOf(n) = k ELSE n = Nil

\* rb_augment_insert, _erase_begin and _erase_end together leave every node
\* with the value of its subtree, whatever the rebalancing turned round.
AugmentExact == \A n \in members : value = func(tree, value, n)
=============================================================================
