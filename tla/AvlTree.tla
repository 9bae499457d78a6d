------------------------------- MODULE AvlTree ------------------------------
(* avltree: the AVL tree.  The tag of a node is its balance: the height of *)
(* the right subtree minus the height of the left one.                     *)
EXTENDS BinaryTree

VARIABLES tree,
          order   \* history: the nodes in the order a sorted list would have

vars == <<tree, order>>

\* The balance that leans to a side.
To(d) == IF d = "right" THEN 1 ELSE -1
SetBalance(t, x, b) == [t EXCEPT !.tag[x] = b]

avl_tree_init == tree = Empty /\ order = << >>

\* rotate_left and rotate_right: X leans to d, its child z there comes up.
rotate(t, x, z, d) ==
  LET level == t.tag[z] = 0
      u == Rotate(t, x, Other(d))
  IN  SetBalance(SetBalance(u, x, IF level THEN To(d) ELSE 0), z, IF level THEN To(Other(d)) ELSE 0)

\* rotate_rightleft and rotate_leftright: the inner grandchild y comes up.
rotate_twice(t, x, z, d) ==
  LET y == t.child[Other(d)][z]
      b == t.tag[y]
      u == Rotate(Rotate(t, z, d), x, Other(d))
  IN  SetBalance(SetBalance(SetBalance(u, x, IF b = To(d) THEN To(Other(d)) ELSE 0),
                            z, IF b = To(Other(d)) THEN To(d) ELSE 0), y, 0)

\* x leans two to side d: what comes up, single or double.
Rise(t, x, d) ==
  LET z == t.child[d][x]
  IN  IF t.tag[z] = To(Other(d)) THEN rotate_twice(t, x, z, d) ELSE rotate(t, x, z, d)

\* The node that Rise puts in the place of x.
Risen(t, x, d) ==
  LET z == t.child[d][x]
  IN  IF t.tag[z] = To(Other(d)) THEN t.child[Other(d)][z] ELSE z

RECURSIVE avl_tree_insert_repair(_, _), avl_tree_delete_repair(_, _)

\* The subtree of z has grown by one.
avl_tree_insert_repair(t, z) ==
  LET x == t.parent[z]
      d == SideOf(t, z, x)
  IN  IF x = NIL THEN t
      ELSE IF t.tag[x] = To(d) THEN Rise(t, x, d)
      ELSE IF t.tag[x] = To(Other(d)) THEN SetBalance(t, x, 0)
      ELSE avl_tree_insert_repair(SetBalance(t, x, To(d)), x)

avl_tree_insert(t, n) == avl_tree_insert_repair(Attach(t, n), n)

\* The subtree of n is about to shrink by one.
avl_tree_delete_repair(t, n) ==
  LET x == t.parent[n]
      d == SideOf(t, n, x)
      far == Other(d)
  IN  IF x = NIL THEN t
      ELSE IF t.tag[x] = 0 THEN SetBalance(t, x, To(far))
      ELSE IF t.tag[x] = To(d) THEN avl_tree_delete_repair(SetBalance(t, x, 0), x)
      ELSE IF t.tag[t.child[far][x]] = 0 THEN Rise(t, x, far)
      ELSE avl_tree_delete_repair(Rise(t, x, far), Risen(t, x, far))

avl_tree_delete_one_child(t, n) ==
  LET u == avl_tree_delete_repair(t, n)
  IN  Hang(u, u.parent[n], n, OnlyChild(u, n))

avl_tree_exchange(t, m, n) == Exchange(t, m, n)

avl_tree_delete(t, n) ==
  LET both == \A d \in Side : t.child[d][n] # NIL
  IN  Forget(avl_tree_delete_one_child(
        IF both THEN avl_tree_exchange(t, n, Utmost(t, t.child["right"][n], "left")) ELSE t, n), n)

-----------------------------------------------------------------------------
Members == {order[i] : i \in DOMAIN order}

Insert(n) ==
  /\ n \notin Members
  /\ tree' = avl_tree_insert(tree, n) /\ order' = InsertSorted(order, n)

Delete(n) ==
  /\ n \in Members
  /\ tree' = avl_tree_delete(tree, n) /\ order' = Without(order, n)

Next == \E n \in Node : Insert(n) \/ Delete(n)

Spec == avl_tree_init /\ [][Next]_vars

-----------------------------------------------------------------------------
(* Properties.                                                             *)

\* The parent pointers always mirror the child pointers.
TreeLinked == LinksMatch(tree)

\* The tree is the sorted list, equal keys in the order of insertion.
TreeSorted == InOrder(tree) = order

\* What avl_tree_valid asks: the balance kept in each node is the difference of
\* the heights of its subtrees, and never more than one.
TreeBalanced ==
  LET max(a, b) == IF a > b THEN a ELSE b
      height[x \in Node \cup {NIL}] ==
        IF x = NIL THEN 0
        ELSE 1 + max(height[tree.child["left"][x]], height[tree.child["right"][x]])
  IN  \A x \in Members :
        /\ tree.tag[x] \in {-1, 0, 1}
        /\ tree.tag[x] = height[tree.child["right"][x]] - height[tree.child["left"][x]]
=============================================================================
