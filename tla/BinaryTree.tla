----------------------------- MODULE BinaryTree -----------------------------
(***************************************************************************)
(* What rbtree and avltree share: nodes linked by left, right and parent,  *)
(* each with a tag (the colour or the balance).  A tree is a record of its *)
(* root and the fields of the nodes; a node outside the tree has empty     *)
(* fields (the code leaves them as they were and does not read them).      *)
(* What the code writes twice, for left and for right, is written once     *)
(* here with the side as a parameter.                                      *)
(***************************************************************************)
EXTENDS Integers, Sequences

CONSTANTS Node, NIL,
          Key,        \* what the comparison function looks at
          NewTag      \* the tag of a node when it is inserted

Side == {"left", "right"}
Other(d) == IF d = "left" THEN "right" ELSE "left"

Empty == [root   |-> NIL,
          parent |-> [x \in Node |-> NIL],
          child  |-> [d \in Side |-> [x \in Node |-> NIL]],
          tag    |-> [x \in Node |-> NewTag]]

SideOf(t, x, parent) == IF t.child["left"][parent] = x THEN "left" ELSE "right"

SetParent(t, x, p) == IF x = NIL THEN t ELSE [t EXCEPT !.parent[x] = p]

\* new takes the place of old under parent, or as the root.
Hang(t, parent, old, new) ==
  LET u == IF parent = NIL THEN [t EXCEPT !.root = new]
           ELSE [t EXCEPT !.child[SideOf(t, old, parent)][parent] = new]
  IN  SetParent(u, new, parent)

\* p goes down on side d, its other child comes up.
Rotate(t, p, d) ==
  LET q == t.child[Other(d)][p]
      b == t.child[d][q]
      u == Hang(t, t.parent[p], p, q)
  IN  SetParent([u EXCEPT !.child[Other(d)][p] = b, !.child[d][q] = p, !.parent[p] = q], b, p)

\* m and n change places, tags included.
Exchange(t, m, n) ==
  LET swap(x) == IF x = m THEN n ELSE IF x = n THEN m ELSE x
  IN  [root   |-> swap(t.root),
       parent |-> [x \in Node |-> swap(t.parent[swap(x)])],
       child  |-> [d \in Side |-> [x \in Node |-> swap(t.child[d][swap(x)])]],
       tag    |-> [x \in Node |-> t.tag[swap(x)]]]

\* The last node on side d, starting from x.
Utmost(t, x, d) ==
  LET walk[y \in Node] == IF t.child[d][y] = NIL THEN y ELSE walk[t.child[d][y]]
  IN  IF x = NIL THEN NIL ELSE walk[x]

\* Where the search for the place of n ends: equal keys go to the right.
Attach(t, n) ==
  LET side(y) == IF Key[n] < Key[y] THEN "left" ELSE "right"
      walk[y \in Node] == IF t.child[side(y)][y] = NIL THEN y ELSE walk[t.child[side(y)][y]]
      at == walk[t.root]
  IN  IF t.root = NIL THEN [t EXCEPT !.root = n]
      ELSE [t EXCEPT !.child[side(at)][at] = n, !.parent[n] = at]

OnlyChild(t, n) == IF t.child["right"][n] = NIL THEN t.child["left"][n] ELSE t.child["right"][n]

Forget(t, n) == [t EXCEPT !.parent[n] = NIL, !.child["left"][n] = NIL, !.child["right"][n] = NIL,
                          !.tag[n] = NewTag]

-----------------------------------------------------------------------------
(* Reading a tree.                                                         *)

InOrder(t) ==
  LET walk[x \in Node \cup {NIL}] ==
        IF x = NIL THEN << >>
        ELSE walk[t.child["left"][x]] \o <<x>> \o walk[t.child["right"][x]]
  IN  walk[t.root]

\* Every link down has its link up, and nothing is above the root.
LinksMatch(t) ==
  /\ t.root # NIL => t.parent[t.root] = NIL
  /\ \A x \in Node, d \in Side : t.child[d][x] # NIL => t.parent[t.child[d][x]] = x
  /\ \A x \in Node : t.parent[x] # NIL => \E d \in Side : t.child[d][t.parent[x]] = x

-----------------------------------------------------------------------------
(* The list a tree stands for: sorted, equal keys in the order they came.  *)

InsertSorted(order, n) ==
  LET notAfter(x) == Key[x] <= Key[n]
  IN  SelectSeq(order, notAfter) \o <<n>> \o SelectSeq(order, LAMBDA x : ~notAfter(x))

Without(order, n) == SelectSeq(order, LAMBDA x : x # n)
=============================================================================
