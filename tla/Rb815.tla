-------------------------------- MODULE Rb815 --------------------------------
(***************************************************************************)
(* iprb815: reassembly with a red-black tree of the holes, whose           *)
(* descriptors are kept inside the holes, in the buffer that collects the  *)
(* datagram.  A descriptor fills one unit and holds the hole's length, its *)
(* colour and three links; a link is a location and a bit that says        *)
(* whether it is valid, and the location of a link that is not valid is    *)
(* what it was before.  Top (65535) is no location.                        *)
(*                                                                         *)
(* A location that holds a descriptor is kept apart from the bytes: pkt    *)
(* says of every byte whether a descriptor or payload was written there    *)
(* last.  fault is set where the code aborts, or follows a link that is not *)
(* there, and the model stops: the repair after a deletion presumes a      *)
(* red-black tree, and TreeValid shows that the tree does not stay one.    *)
(***************************************************************************)
EXTENDS Integers, Sequences

CONSTANTS Unit, Top, Input

Rb815Assumption ==
  /\ Unit \in Nat \ {0} /\ Top \in Nat /\ (Top + 1) % Unit = 0
  /\ Input \subseteq [first : {u \in 0 .. Top : u % Unit = 0}, len : 0 .. Top + 1, more : BOOLEAN]

VARIABLES ctx,       \* root_hole, most_restricting_last, hdr_len # 0, the holes and the bytes
          frag,      \* the fragment handed in last
          top        \* history: byte Top, which no hole ever has, has arrived

vars == <<ctx, frag, top>>

HOLE_NULL == Top
Loc == {u \in 0 .. Top : u % Unit = 0}
Side == {"left", "right"}
Other(d) == IF d = "left" THEN "right" ELSE "left"

NewHole(len, black) ==
  [len |-> len, black |-> black,
   valid |-> [parent |-> FALSE, left |-> FALSE, right |-> FALSE],
   at |-> [parent |-> 0, left |-> 0, right |-> 0]]

-----------------------------------------------------------------------------
(* Descriptors and links.                                                  *)

Fault(c, what) == IF c.fault = "none" THEN [c EXCEPT !.fault = what] ELSE c

\* memcpy of a descriptor to its place; to 65535 it would be past the buffer.
Write(c, x, h) ==
  IF x = HOLE_NULL THEN Fault(c, "undefined")
  ELSE [c EXCEPT !.hole[x] = h,
                 !.pkt = [j \in 0 .. Top |-> IF j \in x .. x + Unit - 1 THEN "descriptor" ELSE c.pkt[j]]]

Follow(c, x, d) == IF c.hole[x].valid[d] THEN c.hole[x].at[d] ELSE HOLE_NULL

\* The location of a link is stored in units, HOLE_NULL too.
LinkTo(h, d, y) == [h EXCEPT !.valid[d] = (y # HOLE_NULL), !.at[d] = (y \div Unit) * Unit]
Clear(h, d) == [h EXCEPT !.valid[d] = FALSE]

SetLink(c, x, d, y) == IF x = HOLE_NULL THEN c ELSE Write(c, x, LinkTo(c.hole[x], d, y))
Black(c, x) == x = HOLE_NULL \/ c.hole[x].black
Paint(c, x, black) == Write(c, x, IF x = HOLE_NULL THEN NewHole(0, black) ELSE [c.hole[x] EXCEPT !.black = black])

IsChild(c, x, p) == \E d \in Side : Follow(c, p, d) = x
SideOf(c, x, p) == IF Follow(c, p, "left") = x THEN "left" ELSE "right"

rb815_tree_rightmost(c, x) ==
  LET walk[y \in Loc] == IF Follow(c, y, "right") = HOLE_NULL THEN y ELSE walk[Follow(c, y, "right")]
  IN  walk[x]
Leftmost(c, x) ==
  LET walk[y \in Loc] == IF Follow(c, y, "left") = HOLE_NULL THEN y ELSE walk[Follow(c, y, "left")]
  IN  walk[x]

\* q takes the place that p had below parent.
TakePlace(c, p, q, parent) ==
  IF parent = HOLE_NULL THEN Write([c EXCEPT !.root = q], q, Clear(c.hole[q], "parent"))
  ELSE SetLink(SetLink(c, parent, SideOf(c, p, parent), q), q, "parent", parent)

\* rotate_left and rotate_right: p goes down on side d.
Rotate(c, p, d) ==
  LET q == Follow(c, p, Other(d))
      b == Follow(c, q, d)
      parent == Follow(c, p, "parent")
      h == c.hole[p]
      moved == Write(c, p, IF b = HOLE_NULL THEN Clear(h, Other(d)) ELSE LinkTo(h, Other(d), b))
  IN  IF q = HOLE_NULL \/ (parent # HOLE_NULL /\ ~IsChild(c, p, parent)) THEN Fault(c, "abort")
      ELSE TakePlace(SetLink(SetLink(SetLink(moved, b, "parent", p), q, d, p), p, "parent", q),
                     p, q, parent)

\* m and n change places and colours and keep their lengths; m is deleted next,
\* so what its links are when they are not valid does not matter.
Swap(m, n, x) == IF x = m THEN n ELSE IF x = n THEN m ELSE x

Linked(h, to) ==
  [h EXCEPT !.valid = [d \in DOMAIN to |-> to[d] # HOLE_NULL], !.at = [d \in DOMAIN to |-> (to[d] \div Unit) * Unit]]

exchange(c, m, n) ==
  LET links == Side \cup {"parent"}
      around == {Follow(c, x, d) : x \in {m, n}, d \in links} \ {HOLE_NULL, m, n}
      placed(x, old) == Linked([c.hole[x] EXCEPT !.black = c.hole[old].black],
                               [d \in links |-> Swap(m, n, Follow(c, old, d))])
      relinked(h) == [h EXCEPT !.at = [d \in links |-> IF h.valid[d] THEN Swap(m, n, h.at[d]) ELSE h.at[d]]]
  IN  [c EXCEPT !.root = Swap(m, n, @),
                !.hole = [x \in Loc |-> IF x \in {m, n} THEN placed(x, Swap(m, n, x))
                                        ELSE IF x \in around THEN relinked(c.hole[x]) ELSE c.hole[x]]]

-----------------------------------------------------------------------------
(* Insertion.                                                              *)

RECURSIVE rb815_tree_insert_repair(_, _), delete_case1(_, _, _), add_data(_, _, _, _),
          repair_most_restricting(_)

\* The first rotation: the tests read the inner link of a child of the
\* grandparent whether it is valid or not.
Below(c, x, d) ==
  IF c.fault = "none" /\ Follow(c, x, d) = HOLE_NULL THEN [c |-> Fault(c, "abort"), x |-> x]
  ELSE [c |-> c, x |-> Follow(c, x, d)]

Straighten(c, x, p, g) ==
  LET inner(d) == /\ c.hole[g].valid[d]
                  /\ c.hole[c.hole[g].at[d]].at[Other(d)] = x
  IN  IF \E d \in Side : inner(d)
        THEN LET d == IF inner("left") THEN "left" ELSE "right" IN Below(Rotate(c, p, d), x, d)
        ELSE [c |-> c, x |-> x]

\* The last rotation, and the new colours.
Recolour(c, p, g) == IF c.fault # "none" THEN c ELSE Paint(Paint(c, p, TRUE), g, FALSE)

Raise(s) ==
  LET p == Follow(s.c, s.x, "parent")
      g == Follow(s.c, p, "parent")
      d == IF Follow(s.c, p, "left") = s.x THEN "right" ELSE "left"
  IN  IF s.c.fault # "none" THEN s.c
      ELSE IF p = HOLE_NULL \/ g = HOLE_NULL THEN Fault(s.c, "abort")
      ELSE Recolour(Rotate(s.c, g, d), p, g)

rb815_tree_insert_repair(c, x) ==
  LET p == Follow(c, x, "parent")
      g == Follow(c, p, "parent")
      uncle == Follow(c, g, Other(SideOf(c, p, g)))
  IN  IF p = HOLE_NULL THEN Paint(c, x, TRUE)
      ELSE IF Black(c, p) THEN c
      ELSE IF g = HOLE_NULL \/ ~IsChild(c, p, g) THEN Fault(c, "abort")
      ELSE IF ~Black(c, uncle)
        THEN rb815_tree_insert_repair(Paint(Paint(Paint(c, p, TRUE), uncle, TRUE), g, FALSE), g)
      ELSE Raise(Straighten(c, x, p, g))

\* Hole x gets a successor in the tree: new, to the right of it.
InsertAfter(c, x, new, len) ==
  LET r == Follow(c, x, "right")
      under == IF r = HOLE_NULL THEN x ELSE Leftmost(c, r)
      c1 == SetLink(c, under, IF r = HOLE_NULL THEN "right" ELSE "left", new)
  IN  rb815_tree_insert_repair(Write(c1, new, LinkTo(NewHole(len, FALSE), "parent", under)), new)

-----------------------------------------------------------------------------
(* Deletion.  x is on side s of p; the sibling may be missing.             *)

Sibling(c, x, p) == Follow(c, p, Other(SideOf(c, x, p)))
ChildOf(c, x, d) == IF x = HOLE_NULL THEN HOLE_NULL ELSE Follow(c, x, d)

delete_case6(c, x, p) ==
  LET s == SideOf(c, x, p)
      sib == Sibling(c, x, p)
  IN  IF sib = HOLE_NULL THEN Fault(c, "abort")
      ELSE IF Follow(c, sib, Other(s)) = HOLE_NULL THEN Fault(c, "undefined")
      ELSE Rotate(Paint(c, Follow(c, sib, Other(s)), TRUE), p, s)

delete_case5(c, x, p) ==
  LET s == SideOf(c, x, p)
      sib == Sibling(c, x, p)
      near == ChildOf(c, sib, s)
      turn == Black(c, sib) /\ Black(c, ChildOf(c, sib, Other(s))) /\ ~Black(c, near)
      c1 == IF turn THEN Rotate(Paint(Paint(c, sib, FALSE), near, TRUE), sib, Other(s)) ELSE c
  IN  IF sib = HOLE_NULL THEN Fault(c, "abort") ELSE delete_case6(c1, x, p)

\* delete_case3 and delete_case4: s.is_black = 0 is written where the sibling is.
delete_case3(c, x, p) ==
  LET sib == Sibling(c, x, p)
      allBlack == Black(c, sib) /\ \A d \in Side : Black(c, ChildOf(c, sib, d))
      c1 == Paint(c, sib, FALSE)
  IN  IF ~allBlack THEN delete_case5(c, x, p)
      ELSE IF c1.fault # "none" THEN c1
      ELSE IF Black(c, p) THEN delete_case1(c1, p, Follow(c, p, "parent"))
      ELSE Paint(c1, p, TRUE)

delete_case2(c, x, p) ==
  LET sib == Sibling(c, x, p)
  IN  IF ~IsChild(c, x, p) THEN Fault(c, "abort")
      ELSE IF Black(c, sib) THEN delete_case3(c, x, p)
      ELSE delete_case3(Rotate(Paint(Paint(c, p, FALSE), sib, TRUE), p, SideOf(c, x, p)), x, p)

delete_case1(c, x, p) == IF p = HOLE_NULL THEN c ELSE delete_case2(c, x, p)

\* A black leaf goes without a repair.
rb815_tree_delete_one_child(c, x) ==
  LET p == Follow(c, x, "parent")
      r == Follow(c, x, "right")
      child == IF r = HOLE_NULL THEN Follow(c, x, "left") ELSE r
      c1 == IF p = HOLE_NULL
              THEN LET u == [c EXCEPT !.root = child]
                   IN  IF child = HOLE_NULL THEN u ELSE Write(u, child, Clear(u.hole[child], "parent"))
              ELSE SetLink(SetLink(c, p, SideOf(c, x, p), child), child, "parent", p)
  IN  IF ~Black(c, x) \/ child = HOLE_NULL THEN c1
      ELSE IF ~Black(c, child) THEN Paint(c1, child, TRUE)
      ELSE delete_case1(c1, child, p)

rb815_tree_delete(c, x) ==
  LET left == Follow(c, x, "left")
      both == left # HOLE_NULL /\ Follow(c, x, "right") # HOLE_NULL
  IN  rb815_tree_delete_one_child(
        IF both THEN exchange(c, x, rb815_tree_rightmost(c, left)) ELSE c, x)

-----------------------------------------------------------------------------
(* The context.                                                            *)

Initial ==
  LET empty == [root |-> 0, last |-> Top, hdr |-> FALSE, fault |-> "none",
                hole |-> [x \in Loc |-> NewHole(0, FALSE)], pkt |-> [j \in 0 .. Top |-> "nothing"]]
  IN  Write(empty, 0, NewHole(Top, TRUE))

rb815ctx_complete(c) == c.root = HOLE_NULL

LastOf(c, x) == x + c.hole[x].len - 1
SetLen(c, x, len) == Write(c, x, [c.hole[x] EXCEPT !.len = len])

\* The holes after the end go, and one across it is cut.
repair_most_restricting(c) ==
  LET x == rb815_tree_rightmost(c, c.root)
  IN  IF c.root = HOLE_NULL \/ c.fault # "none" THEN c
      ELSE IF x > c.last THEN repair_most_restricting(rb815_tree_delete(c, x))
      ELSE IF LastOf(c, x) > c.last THEN SetLen(c, x, c.last - x + 1) ELSE c

\* The search of add_data: a hole that shares a byte with the data.
Find(c, first, last) ==
  LET walk[x \in Loc \cup {HOLE_NULL}] ==
        IF x = HOLE_NULL THEN HOLE_NULL
        ELSE IF LastOf(c, x) < first THEN walk[Follow(c, x, "right")]
        ELSE IF x > last THEN walk[Follow(c, x, "left")] ELSE x
  IN  walk[c.root]

\* Mutant: the subtrees below keep the old location as their parent.
MoveHole_parent(c, x, new) ==
  LET p == Follow(c, x, "parent")
      c1 == Write(c, new, [c.hole[x] EXCEPT !.len = @ - (new - x)])
  IN  IF p = HOLE_NULL THEN [c1 EXCEPT !.root = new] ELSE SetLink(c1, p, SideOf(c, x, p), new)

\* The hole at x starts at new instead.
MoveHole(c, x, new) ==
  LET h == c.hole[x]
      p == Follow(c, x, "parent")
      c1 == Write(c, new, [h EXCEPT !.len = @ - (new - x)])
      c2 == SetLink(SetLink(c1, Follow(c, x, "left"), "parent", new), Follow(c, x, "right"), "parent", new)
  IN  IF new % Unit # 0 \/ (p # HOLE_NULL /\ ~IsChild(c, x, p)) THEN Fault(c, "abort")
      ELSE IF p = HOLE_NULL THEN [c2 EXCEPT !.root = new]
      ELSE SetLink(c2, p, SideOf(c, x, p), new)

\* The context without the data, and whether a hole has changed.
add_data(c, first, last, mod) ==
  LET x == Find(c, first, last)
      end == LastOf(c, x)
  IN  IF c.fault # "none" \/ x = HOLE_NULL THEN [c |-> c, mod |-> mod]
      ELSE IF end > last /\ x < first
        THEN [c |-> IF (last + 1) % Unit # 0 THEN Fault(c, "abort")
                    ELSE InsertAfter(SetLen(c, x, first - x), x, last + 1, end - last),
              mod |-> TRUE]
      ELSE IF end <= last /\ x >= first THEN add_data(rb815_tree_delete(c, x), first, last, TRUE)
      ELSE IF end <= last THEN add_data(SetLen(c, x, first - x), first, last, TRUE)
      ELSE add_data(MoveHole(c, x, last + 1), first, last, TRUE)

\* The payload is copied over whatever descriptors were there.
Copy(c, first, last) ==
  [c EXCEPT !.pkt = [j \in 0 .. Top |-> IF j \in first .. last THEN "data" ELSE c.pkt[j]],
            !.hole = [x \in Loc |-> IF x \in first .. last THEN NewHole(0, FALSE) ELSE c.hole[x]]]

data_last(f) == f.first + f.len - 1

\* Mutant: a broken unit counts as a whole one.
Upto_round(f, lowers) == IF lowers THEN data_last(f) ELSE (data_last(f) \div Unit) * Unit + Unit - 1

\* The last byte that is entered: of a fragment that does not lower the end only
\* whole units are.
Upto(f, lowers) == IF lowers THEN data_last(f) ELSE ((data_last(f) + 1) \div Unit) * Unit - 1

Copied(entered, first, last) ==
  IF entered.mod THEN Copy(entered.c, first, last) ELSE entered.c

Added(c, f) ==
  LET lowers == ~f.more /\ c.last > data_last(f)
      c0 == [c EXCEPT !.hdr = TRUE]
      c1 == IF lowers THEN repair_most_restricting([c0 EXCEPT !.last = data_last(f)]) ELSE c0
      upto == Upto(f, lowers)
  IN  IF f.len = 0 THEN c
      ELSE IF data_last(f) > Top \/ (~lowers /\ data_last(f) < Unit - 1) THEN c0
      ELSE Copied(add_data(c1, f.first, upto, lowers), f.first, upto)

\* What rb815ctx_reassemble copies out.
rb815ctx_reassemble == [j \in 0 .. ctx.last |-> ctx.pkt[j]]

rb815ctx_init == ctx = Initial /\ frag = [first |-> 0, len |-> 0, more |-> FALSE] /\ top = FALSE

rb815ctx_add(f) ==
  /\ ctx.fault = "none"
  /\ frag' = f
  /\ ctx' = Added(ctx, f)
  /\ top' = (top \/ data_last(f) = Top)

\* rb815ctx_init for the next datagram.
Reinit == ctx' = Initial /\ frag' = [first |-> 0, len |-> 0, more |-> FALSE] /\ top' = FALSE

Next == Reinit \/ \E f \in Input : rb815ctx_add(f)

Spec == rb815ctx_init /\ [][Next]_vars

-----------------------------------------------------------------------------
(* Properties.                                                             *)

InOrder(c) ==
  LET walk[x \in Loc \cup {HOLE_NULL}] ==
        IF x = HOLE_NULL THEN << >> ELSE walk[Follow(c, x, "left")] \o <<x>> \o walk[Follow(c, x, "right")]
  IN  walk[c.root]

\* What rb815_tree_ptrs_valid tests and add_data relies on: links up mirror links
\* down, the holes ascend, and no descriptor was written over.
TreeLinked ==
  LET holes == InOrder(ctx)
      members == {holes[i] : i \in DOMAIN holes}
  IN  ctx.fault = "none" =>
      /\ ctx.root # HOLE_NULL => ~ctx.hole[ctx.root].valid["parent"]
      /\ \A x \in members, d \in Side :
           Follow(ctx, x, d) # HOLE_NULL => Follow(ctx, Follow(ctx, x, d), "parent") = x
      /\ \A i \in DOMAIN holes :
           /\ holes[i] <= LastOf(ctx, holes[i]) /\ LastOf(ctx, holes[i]) <= ctx.last
           /\ i > 1 => LastOf(ctx, holes[i - 1]) < holes[i]
           /\ \A j \in holes[i] .. holes[i] + Unit - 1 : ctx.pkt[j] = "descriptor"

Missing == LET holes == InOrder(ctx) IN UNION {holes[i] .. LastOf(ctx, holes[i]) : i \in DOMAIN holes}

\* Every byte that is not missing is payload, whatever descriptors were moved
\* through the buffer and however short the last hole is: a complete context
\* reassembles to payload only.
DataIntact ==
  ctx.fault = "none" => \A j \in 0 .. ctx.last : j \in Missing \/ rb815ctx_reassemble[j] = "data" \/ j = Top

\* The invariants of a red-black tree, which a build with EXTRA_DEBUG is to test
\* before and after a hole is split: no red hole below a red one, and as many
\* black holes on every path.
TreeValid ==
  LET holes == InOrder(ctx)
      heights[x \in Loc \cup {HOLE_NULL}] ==
        IF x = HOLE_NULL THEN {0}
        ELSE {h + (IF ctx.hole[x].black THEN 1 ELSE 0) :
                h \in heights[Follow(ctx, x, "left")] \cup heights[Follow(ctx, x, "right")]}
  IN  /\ \A i, j \in heights[ctx.root] : i = j
      /\ \A i \in DOMAIN holes, d \in Side :
           Black(ctx, holes[i]) \/ Black(ctx, Follow(ctx, holes[i], d))

Abstract == INSTANCE Reassembly WITH
  last <- ctx.last,
  missing <- Missing \cup {b \in {Top} : ctx.last = Top /\ ~top}

\* The tree holds exactly the missing bytes, so the context is complete when and
\* only when every byte has come.
ImplementsReassembly == Abstract!Spec
=============================================================================
