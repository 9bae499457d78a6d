------------------------------- MODULE RbTree -------------------------------
(* rbtree: the red-black tree.  The tag of a node is is_black.             *)
EXTENDS BinaryTree

VARIABLES tree,
          order   \* history: the nodes in the order a sorted list would have

vars == <<tree, order>>

Black(t, x) == x = NIL \/ t.tag[x]
Paint(t, x, black) == [t EXCEPT !.tag[x] = black]

rb_tree_init == tree = Empty /\ order = << >>

RECURSIVE rb_tree_insert_repair(_, _), rb_tree_delete_case1(_, _, _)

rb_tree_insert_repair(t, n) ==
  LET p == t.parent[n]
      g == t.parent[p]
      s == SideOf(t, p, g)
      uncle == t.child[Other(s)][g]
      inner == n = t.child[Other(s)][p]
      top == IF inner THEN n ELSE p
  IN  IF p = NIL THEN Paint(t, n, TRUE)
      ELSE IF Black(t, p) THEN t
      ELSE IF ~Black(t, uncle)
        THEN rb_tree_insert_repair(Paint(Paint(Paint(t, p, TRUE), uncle, TRUE), g, FALSE), g)
        ELSE Paint(Paint(Rotate(IF inner THEN Rotate(t, p, s) ELSE t, g, Other(s)), top, TRUE), g, FALSE)

rb_tree_insert(t, n) == rb_tree_insert_repair(Attach(t, n), n)

\* A node with the key of n, on the way that Attach takes.
rb_tree_nocmp_find(t, n) ==
  LET walk[y \in Node \cup {NIL}] ==
        IF y = NIL THEN NIL ELSE IF Key[y] = Key[n] THEN y
        ELSE walk[t.child[IF Key[n] < Key[y] THEN "left" ELSE "right"][y]]
  IN  walk[t.root]

rb_tree_nocmp_insert_nonexist(t, n) ==
  IF rb_tree_nocmp_find(t, n) # NIL THEN t ELSE rb_tree_insert(t, n)

\* How iprbexplicit and iprb815 insert a hole behind another, without a search.
InsertAfter(t, m, n) ==
  LET r == t.child["right"][m]
      at == IF r = NIL THEN m ELSE Utmost(t, r, "left")
      u == [t EXCEPT !.child[IF r = NIL THEN "right" ELSE "left"][at] = n, !.parent[n] = at]
  IN  rb_tree_insert_repair(u, n)

\* n, possibly a leaf, is one black node short on its side s of parent.
rb_tree_delete_case6(t, s, parent) ==
  LET sib == t.child[Other(s)][parent]
      u == Paint(Paint(t, sib, t.tag[parent]), parent, TRUE)
  IN  Rotate(Paint(u, t.child[Other(s)][sib], TRUE), parent, s)

rb_tree_delete_case5(t, s, parent) ==
  LET sib == t.child[Other(s)][parent]
      near == t.child[s][sib]
      far == t.child[Other(s)][sib]
      u == IF Black(t, sib) /\ Black(t, far) /\ ~Black(t, near)
           THEN Rotate(Paint(Paint(t, sib, FALSE), near, TRUE), sib, Other(s)) ELSE t
  IN  rb_tree_delete_case6(u, s, parent)

\* Cases 3 and 4: a black sibling with black children is painted red.
rb_tree_delete_case3(t, s, parent) ==
  LET sib == t.child[Other(s)][parent]
      allBlack == Black(t, sib) /\ \A d \in Side : Black(t, t.child[d][sib])
  IN  IF allBlack /\ Black(t, parent)
        THEN rb_tree_delete_case1(Paint(t, sib, FALSE), parent, t.parent[parent])
      ELSE IF allBlack THEN Paint(Paint(t, sib, FALSE), parent, TRUE)
      ELSE rb_tree_delete_case5(t, s, parent)

\* Mutant: a red sibling is not rotated up first.
delete_case2_none(t, s, parent) == rb_tree_delete_case3(t, s, parent)
rb_tree_delete_case2(t, s, parent) ==
  LET sib == t.child[Other(s)][parent]
  IN  rb_tree_delete_case3(
        IF Black(t, sib) THEN t ELSE Rotate(Paint(Paint(t, parent, FALSE), sib, TRUE), parent, s),
        s, parent)

rb_tree_delete_case1(t, n, parent) ==
  IF parent = NIL THEN t ELSE rb_tree_delete_case2(t, SideOf(t, n, parent), parent)

rb_tree_delete_one_child(t, n) ==
  LET child == OnlyChild(t, n)
      u == Hang(t, t.parent[n], n, child)
  IN  IF ~Black(t, n) THEN u
      ELSE IF ~Black(t, child) THEN Paint(u, child, TRUE)
      ELSE rb_tree_delete_case1(u, child, t.parent[n])

rb_tree_exchange(t, m, n) == Exchange(t, m, n)

rb_tree_delete(t, n) ==
  LET both == \A d \in Side : t.child[d][n] # NIL
  IN  Forget(rb_tree_delete_one_child(
        IF both THEN rb_tree_exchange(t, n, Utmost(t, t.child["left"][n], "right")) ELSE t, n), n)

-----------------------------------------------------------------------------
Members == {order[i] : i \in DOMAIN order}

Insert(n) ==
  /\ n \notin Members
  /\ tree' = rb_tree_insert(tree, n) /\ order' = InsertSorted(order, n)

InsertNonexist(n) ==
  /\ n \notin Members
  /\ tree' = rb_tree_nocmp_insert_nonexist(tree, n)
  /\ order' = IF \E m \in Members : Key[m] = Key[n] THEN order ELSE InsertSorted(order, n)

\* Allowed where the new node comes next in the order.
InsertNext(m, n) ==
  /\ m \in Members /\ n \notin Members
  /\ \E i \in DOMAIN order : order[i] = m /\ InsertSorted(order, n)[i + 1] = n
  /\ tree' = InsertAfter(tree, m, n) /\ order' = InsertSorted(order, n)

Delete(n) ==
  /\ n \in Members
  /\ tree' = rb_tree_delete(tree, n) /\ order' = Without(order, n)

Next == \E n \in Node : Insert(n) \/ InsertNonexist(n) \/ Delete(n) \/ \E m \in Node : InsertNext(m, n)

Spec == rb_tree_init /\ [][Next]_vars

-----------------------------------------------------------------------------
(* Properties.                                                             *)

\* The parent pointers always mirror the child pointers, through rotations at
\* the root, at inner nodes and when a node changes places with its neighbour.
TreeLinked == LinksMatch(tree)

\* The tree is the sorted list: no rotation or exchange loses, repeats or
\* misplaces a node, and equal keys stay in the order of insertion.
TreeSorted == InOrder(tree) = order

\* What keeps the tree shallow: the root is black, no red node has a red child,
\* and every path down has as many black nodes as any other.
TreeBalanced ==
  LET height[x \in Node \cup {NIL}] ==
        IF x = NIL THEN {0}
        ELSE {h + (IF tree.tag[x] THEN 1 ELSE 0) : h \in height[tree.child["left"][x]] \cup height[tree.child["right"][x]]}
  IN  /\ Black(tree, tree.root)
      /\ \A i, j \in height[tree.root] : i = j
      /\ \A x \in Members, d \in Side :
           Black(tree, x) \/ Black(tree, tree.child[d][x])

\* The search finds a node exactly if one with the key is in the tree, also when
\* rotations have put equal keys on both sides of each other.
FindExact == \A n \in Node :
  LET m == rb_tree_nocmp_find(tree, n)
  IN  IF m = NIL THEN \A x \in Members : Key[x] # Key[n] ELSE m \in Members /\ Key[m] = Key[n]
=============================================================================
