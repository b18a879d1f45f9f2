------------------------------- MODULE RbTree -------------------------------
(***************************************************************************)
(* The red-black trees of fs-hasher (rbtree.c, rbtree.h).  A tree is a     *)
(* root, and for every node its two kids, its parent and its colour, as    *)
(* the pointers of struct rb_node have them.  The C code spells each case  *)
(* out for left and for right; here a side d stands for either, and        *)
(* Opp(d) for the other.                                                   *)
(***************************************************************************)
EXTENDS Naturals, Sequences

CONSTANTS
  Node,              \* positive numbers
  KeyOf(_)           \* the key of the element a node sits in

Nil == 0
Red == "red"
Black == "black"
Opp(d) == IF d = "l" THEN "r" ELSE "l"

RB_ROOT ==
  LET none == [n \in Node |-> Nil]
  IN  [root |-> Nil, kid |-> [d \in {"l", "r"} |-> none], parent |-> none,
       color |-> [n \in Node |-> Red]]

IsRed(T, n) == n # Nil /\ T.color[n] = Red
SetKid(T, n, d, c) == [T EXCEPT !.kid[d][n] = c]
rb_set_parent(T, n, p) == IF n = Nil THEN T ELSE [T EXCEPT !.parent[n] = p]
Paint(T, n, c) == [T EXCEPT !.color[n] = c]
rb_link_node(T, n, p, d) ==
  LET made == [T EXCEPT !.parent[n] = p, !.color[n] = Red, !.kid["l"][n] = Nil, !.kid["r"][n] = Nil]
  IN  IF p = Nil THEN [made EXCEPT !.root = n] ELSE SetKid(made, p, d, n)
\* Whoever pointed down to old now points to new.
Relink(T, p, old, new) ==
  IF p = Nil THEN [T EXCEPT !.root = new]
  ELSE SetKid(T, p, IF T.kid["l"][p] = old THEN "l" ELSE "r", new)

\* __rb_rotate_left is Rotate(T, n, "l"), __rb_rotate_right Rotate(T, n, "r").
Rotate(T, n, d) ==
  LET c == T.kid[Opp(d)][n]
      inner == T.kid[d][c]
      p == T.parent[n]
      moved == rb_set_parent(SetKid(SetKid(T, n, Opp(d), inner), c, d, n), inner, n)
  IN  rb_set_parent(Relink(rb_set_parent(moved, c, p), p, n, c), n, c)

----------------------------------------------------------------------------
(***************************************************************************)
(* Rebalancing.                                                            *)
(***************************************************************************)
Recolored_black(T, uncle, parent, gparent) ==   \* faulty: the grandparent stays black
  Paint(Paint(T, uncle, Black), parent, Black)
Recolored(T, uncle, parent, gparent) ==
  Paint(Paint(Paint(T, uncle, Black), parent, Black), gparent, Red)

RECURSIVE rb_insert_color(_, _)
rb_insert_color(T, n) ==
  LET parent == T.parent[n]
      gparent == T.parent[parent]
      d == IF parent = T.kid["l"][gparent] THEN "l" ELSE "r"
      uncle == T.kid[Opp(d)][gparent]
      inner == T.kid[Opp(d)][parent] = n
      top == IF inner THEN n ELSE parent
      straight == IF inner THEN Rotate(T, parent, d) ELSE T
  IN  IF ~IsRed(T, parent) THEN Paint(T, T.root, Black)
      ELSE IF IsRed(T, uncle)
      THEN rb_insert_color(Recolored(T, uncle, parent, gparent), gparent)
      ELSE rb_insert_color(Rotate(Paint(Paint(straight, top, Black), gparent, Red), gparent, Opp(d)),
                           IF inner THEN parent ELSE n)

\* The subtree at n, under parent, is one black node short.
RECURSIVE rb_erase_color(_, _, _)
rb_erase_color(T, n, parent) ==
  LET d == IF T.kid["l"][parent] = n THEN "l" ELSE "r"
      o == Opp(d)
      other1 == T.kid[o][parent]
      T1 == IF IsRed(T, other1)
            THEN Rotate(Paint(Paint(T, other1, Black), parent, Red), parent, d) ELSE T
      other2 == T1.kid[o][parent]
      near == T1.kid[d][other2]
      T2 == IF ~IsRed(T1, T1.kid[o][other2])
            THEN Rotate(Paint(Paint(T1, near, Black), other2, Red), other2, o) ELSE T1
      other3 == T2.kid[o][parent]
      T3 == Paint(Paint(Paint(T2, other3, T2.color[parent]), parent, Black), T2.kid[o][other3], Black)
      T4 == Rotate(T3, parent, d)
  IN  IF IsRed(T, n) \/ n = T.root THEN (IF n = Nil THEN T ELSE Paint(T, n, Black))
      ELSE IF ~IsRed(T1, near) /\ ~IsRed(T1, T1.kid[o][other2])
      THEN rb_erase_color(Paint(T1, other2, Red), parent, T1.parent[parent])
      ELSE Paint(T4, T4.root, Black)

----------------------------------------------------------------------------
(***************************************************************************)
(* Walking.                                                                *)
(***************************************************************************)
RECURSIVE Outermost(_, _, _)
Outermost(T, n, d) ==
  IF n = Nil \/ T.kid[d][n] = Nil THEN n ELSE Outermost(T, T.kid[d][n], d)
rb_first(T) == Outermost(T, T.root, "l")
rb_last(T) == Outermost(T, T.root, "r")

RECURSIVE Ascend(_, _, _)
Ascend(T, n, d) ==   \* up while n is its parent's kid on side d
  LET p == T.parent[n]
  IN  IF p # Nil /\ T.kid[d][p] = n THEN Ascend(T, p, d) ELSE p
Neighbour(T, n, d) ==
  IF T.parent[n] = n THEN Nil
  ELSE IF T.kid[d][n] # Nil THEN Outermost(T, T.kid[d][n], Opp(d))
  ELSE Ascend(T, n, d)
rb_next(T, n) == Neighbour(T, n, "r")
rb_prev(T, n) == Neighbour(T, n, "l")

\* rb_erase: a node with two kids is replaced by its successor.
Moved(T, old, n) ==   \* n, the leftmost right descendant of old, in old's place
  LET p == T.parent[n]
      child == T.kid["r"][n]
      up == Relink(T, T.parent[old], old, n)
      out == IF p = old THEN up
             ELSE rb_set_parent(SetKid(SetKid(rb_set_parent(up, child, p), p, "l", child),
                                       n, "r", up.kid["r"][old]), up.kid["r"][old], n)
  IN  rb_set_parent([out EXCEPT !.parent[n] = out.parent[old], !.color[n] = out.color[old],
                                !.kid["l"][n] = out.kid["l"][old]], out.kid["l"][old], n)
rb_erase(T, n) ==
  LET two == T.kid["l"][n] # Nil /\ T.kid["r"][n] # Nil
      next == Outermost(T, T.kid["r"][n], "l")
      out == IF two THEN next ELSE n            \* the node that leaves its place
      child == IF T.kid["l"][out] = Nil THEN T.kid["r"][out] ELSE T.kid["l"][out]
      parent == IF two /\ T.parent[next] = n THEN next ELSE T.parent[out]
      cut == IF two THEN Moved(T, n, next)
             ELSE Relink(rb_set_parent(T, child, parent), parent, n, child)
  IN  IF T.color[out] = Black THEN rb_erase_color(cut, child, parent) ELSE cut

rb_replace_node(T, victim, new) ==
  LET up == Relink(T, T.parent[victim], victim, new)
      kids == rb_set_parent(rb_set_parent(up, up.kid["l"][victim], new), up.kid["r"][victim], new)
  IN  [kids EXCEPT !.kid["l"][new] = kids.kid["l"][victim], !.kid["r"][new] = kids.kid["r"][victim],
                   !.parent[new] = kids.parent[victim], !.color[new] = kids.color[victim]]

----------------------------------------------------------------------------
(***************************************************************************)
(* Augmented trees: func(node) recomputes a node's value from its kids'.   *)
(* The value here is the size of the subtree.                              *)
(***************************************************************************)
Value(a, n) == IF n = Nil THEN 0 ELSE a[n]
func(T, a, n) == [a EXCEPT ![n] = 1 + Value(a, T.kid["l"][n]) + Value(a, T.kid["r"][n])]
RECURSIVE rb_augment_path(_, _, _)
rb_augment_path(T, a, n) ==
  LET p == T.parent[n]
      done == func(T, a, n)
      sibling == IF n = T.kid["l"][p] /\ T.kid["r"][p] # Nil THEN T.kid["r"][p] ELSE T.kid["l"][p]
  IN  IF p = Nil THEN done
      ELSE rb_augment_path(T, IF sibling = Nil THEN done ELSE func(T, done, sibling), p)
rb_augment_insert(T, a, n) ==
  rb_augment_path(T, a, IF T.kid["l"][n] # Nil THEN T.kid["l"][n]
                        ELSE IF T.kid["r"][n] # Nil THEN T.kid["r"][n] ELSE n)
rb_augment_erase_begin(T, n) ==
  LET l == T.kid["l"][n]
      r == T.kid["r"][n]
      deepest == rb_next(T, n)
  IN  IF r = Nil /\ l = Nil THEN T.parent[n]
      ELSE IF r = Nil THEN l
      ELSE IF l = Nil THEN r
      ELSE IF T.kid["r"][deepest] # Nil THEN T.kid["r"][deepest]
      ELSE IF T.parent[deepest] # n THEN T.parent[deepest] ELSE deepest
rb_augment_erase_end(T, a, n) == IF n = Nil THEN a ELSE rb_augment_path(T, a, n)

----------------------------------------------------------------------------
\* search_rbtree and the descent of rbtree_insert (hf-simdex.c): the node with
\* the key, or the node and the side a new one goes to.
RECURSIVE Descend(_, _, _, _, _)
Descend(T, key, n, p, d) ==
  IF n = Nil THEN [found |-> Nil, parent |-> p, side |-> d]
  ELSE IF key = KeyOf(n) THEN [found |-> n, parent |-> p, side |-> d]
  ELSE LET e == IF key < KeyOf(n) THEN "l" ELSE "r" IN Descend(T, key, T.kid[e][n], n, e)
search_rbtree(T, key) == Descend(T, key, T.root, Nil, "l").found
rbtree_insert(T, n) ==
  LET slot == Descend(T, KeyOf(n), T.root, Nil, "l")
  IN  IF slot.found # Nil THEN T
      ELSE rb_insert_color(rb_link_node(T, n, slot.parent, slot.side), n)
=============================================================================
