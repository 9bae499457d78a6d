------------------------------ MODULE MCHoles -------------------------------
(***************************************************************************)
(* The reassemblers that keep a list or a tree of holes, and the one that  *)
(* changes from one to another, side by side: a behaviour is one of the    *)
(* component named by part, the others stay in their initial state.        *)
(***************************************************************************)
EXTENDS IpReass

Fragment(top) == [first : {u \in 0 .. top : u % Unit = 0}, len : 0 .. top + 1, more : BOOLEAN]

\* Every fragment the header can describe, up to one byte past the top.
AnyFragment(top) == {f \in Fragment(top) : f.first + f.len <= top + 2}

\* Short fragments, of which the last one may be one byte long.
Short(top) == {f \in Fragment(top) :
                 /\ f.first + f.len <= top + 1
                 /\ f.len \in IF f.more THEN {Unit, 2 * Unit} ELSE {1, Unit}}

\* Fragments of one unit, of which none says where the datagram ends.
Pieces(top) == {f \in Fragment(top) : f.more /\ f.len = Unit /\ f.first + f.len <= top + 1}

\* Fragments of whole units, but for the last one.
Regular(top) == {f \in AnyFragment(top) : f.more => f.len % Unit = 0}

VARIABLES
  part,
  list_ctx, list_frag,                                \* rfc815.c
  rb_ctx, rb_frag, rb_top,                            \* iprb815.c, short fragments
  any_ctx, any_frag, any_top,                         \* iprb815.c, any fragments
  tree_ctx, tree_frag, tree_top,                      \* iprb815.c, many holes
  rfc_active, packet_count, c_holes, c_packets, c_last, c_pc, c_iter, c_ctx, c_frag,  \* combo.c
  rc_active, rc_count, rc_holes, rc_last, rc_packets, rc_kept,          \* rbcombo.c
  rc_pc, rc_adding, rc_mod, rc_overlap, rc_ctx, rc_frag, rc_top

\* For the list of holes.
ListInput == AnyFragment(7)

R == INSTANCE Rfc815 WITH Top <- 7, Input <- AnyFragment(7),
        ctx <- list_ctx, frag <- list_frag
Rb == INSTANCE Rb815 WITH Top <- 7, Input <- Short(7),
        ctx <- rb_ctx, frag <- rb_frag, top <- rb_top
AnyFrag == INSTANCE Rb815 WITH Top <- 5, Input <- AnyFragment(5),
        ctx <- any_ctx, frag <- any_frag, top <- any_top
Tree == INSTANCE Rb815 WITH Top <- 17, Input <- Pieces(17),
        ctx <- tree_ctx, frag <- tree_frag, top <- tree_top

Co == INSTANCE Combo WITH Top <- 5, Input <- Regular(5), MaxPackets <- 3, Limit <- 1, MaxCount <- 4,
        hole_list <- c_holes, packet_list <- c_packets, most_restricting_last <- c_last,
        pc <- c_pc, iter <- c_iter, ctx <- c_ctx, frag <- c_frag

\* Besides short fragments, an empty one and the whole datagram.
RbCo == INSTANCE RbCombo WITH Top <- 5,
        Input <- Short(5) \cup {[first |-> 0, len |-> n, more |-> FALSE] : n \in {0, 6}},
        Limit <- 1, MaxCount <- 4,
        rfc_active <- rc_active, packet_count <- rc_count, hole_tree <- rc_holes,
        most_restricting_last <- rc_last, packet_list <- rc_packets, kept <- rc_kept,
        pc <- rc_pc, adding <- rc_adding, mod <- rc_mod, overlap <- rc_overlap,
        ctx <- rc_ctx, frag <- rc_frag, top <- rc_top

ASSUME Co!ComboAssumption /\ RbCo!RbComboAssumption
ASSUME IpReassAssumption
ASSUME Rb!Rb815Assumption /\ AnyFrag!Rb815Assumption /\ Tree!Rb815Assumption

listVars == <<list_ctx, list_frag>>
rbVars == <<rb_ctx, rb_frag, rb_top>>
anyVars == <<any_ctx, any_frag, any_top>>
treeVars == <<tree_ctx, tree_frag, tree_top>>
comboVars == <<rfc_active, packet_count, c_holes, c_packets, c_last, c_pc, c_iter, c_ctx, c_frag>>
rbcomboVars == <<rc_active, rc_count, rc_holes, rc_last, rc_packets, rc_kept,
                 rc_pc, rc_adding, rc_mod, rc_overlap, rc_ctx, rc_frag, rc_top>>
allVars == <<part, vars, listVars, rbVars, anyVars, treeVars, comboVars, rbcomboVars>>

AllInit ==
  /\ part \in {"ipreass", "rfc815", "rb815", "rb815_any", "rb815_tree", "combo", "rbcombo"}
  /\ reassctx_init /\ R!rfc815ctx_init
  /\ Rb!rb815ctx_init /\ AnyFrag!rb815ctx_init /\ Tree!rb815ctx_init
  /\ Co!comboctx_init /\ RbCo!rbcomboctx_init

AllNext ==
  /\ UNCHANGED part
  /\ \/ part = "ipreass" /\ Next /\ UNCHANGED <<listVars, rbVars, anyVars, treeVars, comboVars, rbcomboVars>>
     \/ part = "rfc815" /\ R!Next /\ UNCHANGED <<vars, rbVars, anyVars, treeVars, comboVars, rbcomboVars>>
     \/ part = "rb815" /\ Rb!Next /\ UNCHANGED <<vars, listVars, anyVars, treeVars, comboVars, rbcomboVars>>
     \/ part = "rb815_any" /\ AnyFrag!Next /\ UNCHANGED <<vars, listVars, rbVars, treeVars, comboVars, rbcomboVars>>
     \/ part = "rb815_tree" /\ Tree!Next /\ UNCHANGED <<vars, listVars, rbVars, anyVars, comboVars, rbcomboVars>>
     \/ part = "combo" /\ Co!Next /\ UNCHANGED <<vars, listVars, rbVars, anyVars, treeVars, rbcomboVars>>
     \/ part = "rbcombo" /\ RbCo!Next /\ UNCHANGED <<vars, listVars, rbVars, anyVars, treeVars, comboVars>>

AllSpec == AllInit /\ [][AllNext]_allVars

\* The tree of many holes only.
TreeSpec == part = "rb815_tree" /\ AllSpec

-----------------------------------------------------------------------------
(* Properties; IpReassImplements and CopiesFill of ipreass.c come with     *)
(* their module.                                                           *)

\* rfc815.c: the list threaded through the datagram is
\* linked both ways, and no hole descriptor overwrites data: a complete datagram
\* is the data sent, also if combo.c entered the first packets late, or rbcombo.c
\* those that its first method had kept.
DatagramIntact ==
  /\ R!ListWellFormed /\ R!DataIntact /\ R!ReassemblesData
  /\ Co!PromotedIntact /\ RbCo!PromotedIntact

\* rfc815.c: the hole list implements the set of missing bytes.
Rfc815Implements == R!ImplementsReassembly

\* combo.c, rbcombo.c: the change from the one method to the other forgets no byte,
\* though rbcombo.c enters only the packets that were not freed as superfluous.
ComboImplements == Co!ImplementsReassembly /\ RbCo!ImplementsReassembly

\* iprb815.c: the tree threaded through the datagram is linked both ways and
\* its holes are in order, with up to five holes deleted in any order, and no
\* hole descriptor overwrites data.
Rb815TreeLinked ==
  /\ Rb!TreeLinked /\ AnyFrag!TreeLinked /\ Tree!TreeLinked
  /\ Rb!DataIntact /\ AnyFrag!DataIntact

\* iprb815.c: the tree implements the set of missing bytes, for short fragments
\* and for any.
Rb815Implements == Rb!ImplementsReassembly /\ AnyFrag!ImplementsReassembly

\* iprb815.c, violated: the holes stay a red-black tree, as its own debug test
\* demands.
TreeValid == Tree!TreeValid
=============================================================================
