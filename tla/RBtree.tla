------------------------------- MODULE RBtree -------------------------------
(***************************************************************************)
(* The red-black tree of the memory manager (src/utils/mempool/src/        *)
(* RBtree.cpp), as operators on a heap of nodes linked by pointers.        *)
(*                                                                         *)
(* Each loop of the code has two mirrored halves; here a side, left or     *)
(* right, is a parameter.  A dereference of a null pointer ends the        *)
(* program: the result is the heap with fault set.                         *)
(***************************************************************************)
EXTENDS Integers, Sequences, FiniteSets

CONSTANT Nodes  \* the RBNode objects; 0 is the null pointer

ASSUME NodesAssumption == Nodes \subseteq Nat \ {0} /\ IsFiniteSet(Nodes)

\* A loop whose body is a function on the states in which it goes round again:
\* the state in which it ends, by the state in which it starts.
Loop(states, body) ==
  LET end[s \in states] == IF s \in DOMAIN body THEN end[body[s]] ELSE s
  IN end

null == 0

Sides == {"left", "right"}

Colors == {"RED", "BLACK"}

Heaps == [root   : Nodes \cup {null},
          child  : [Sides -> [Nodes -> Nodes \cup {null}]],
          parent : [Nodes -> Nodes \cup {null}],
          color  : [Nodes -> Colors],
          fault  : BOOLEAN]

\* RBtree::init, and nodes as RBNode() leaves them.
EmptyTree == [root   |-> null,
              child  |-> [s \in Sides |-> [n \in Nodes |-> null]],
              parent |-> [n \in Nodes |-> null],
              color  |-> [n \in Nodes |-> "RED"],
              fault  |-> FALSE]

Other(side) == IF side = "left" THEN "right" ELSE "left"

Fault(h) == [h EXCEPT !.fault = TRUE]

Paint(h, n, c) == [h EXCEPT !.color[n] = c]

IsRed(h, n) == n # null /\ h.color[n] = "RED"

\* The side of its parent on which n hangs.
SideOf(h, n) == IF h.child["left"][h.parent[n]] = n THEN "left" ELSE "right"

\* What points down at old, its parent or the root, now points at new.
Relink(h, old, new) ==
  IF h.parent[old] = null THEN [h EXCEPT !.root = new]
  ELSE [h EXCEPT !.child[SideOf(h, old)][h.parent[old]] = new]

Adopt(h, n, p) == IF n = null THEN h ELSE [h EXCEPT !.parent[n] = p]

\* The links between a node and its child up, when up goes above it.
Exchange(h, node, up, side) ==
  [h EXCEPT !.child[Other(side)][node] = h.child[side][up], !.child[side][up] = node,
            !.parent[up] = h.parent[node], !.parent[node] = up]

\* rotate_left and rotate_right, by the child up that the node changes places with.
RotateUp(h, node, up, side) ==
  Exchange(Adopt(Relink(h, node, up), h.child[side][up], node), node, up, side)

\* The node goes down on the given side.
Rotate(h, node, side) ==
  LET up == h.child[Other(side)][node]
  IN IF up = null THEN Fault(h) ELSE RotateUp(h, node, up, side)

\* A node that hangs on the inner side of its parent is rotated above it.
TurnOut(h, node, parent, side) ==
  IF node = h.child[Other(side)][parent] THEN Rotate(h, parent, side) ELSE h

\* A red uncle that is forgotten.
RecolorParent(h, parent, uncle, grandparent) ==
  Paint(Paint(h, parent, "BLACK"), grandparent, "RED")

\* The black of the grandparent goes to its two red children.
Recolor(h, parent, uncle, grandparent) ==
  Paint(Paint(Paint(h, parent, "BLACK"), uncle, "BLACK"), grandparent, "RED")

\* The body of insert_fixup's loop, from a heap and a node to the next ones.
InsertStep(h, node) ==
  LET parent      == h.parent[node]
      grandparent == h.parent[parent]
      side        == SideOf(h, parent)
      uncle       == h.child[Other(side)][grandparent]
      outer       == TurnOut(h, node, parent, side)
      top         == outer.child[side][grandparent]
  IN IF grandparent = null THEN <<Fault(h), node>>
     ELSE IF IsRed(h, uncle) THEN <<Recolor(h, parent, uncle, grandparent), grandparent>>
     ELSE <<Rotate(Paint(Paint(outer, top, "BLACK"), grandparent, "RED"),
                   grandparent, Other(side)),
            IF top = parent THEN node ELSE parent>>

InsertFixup(h, node) ==
  LET places == Heaps \X Nodes
      more   == {s \in places : ~s[1].fault /\ IsRed(s[1], s[1].parent[s[2]])}
      end    == Loop(places, [s \in more |-> InsertStep(s[1], s[2])])[<<h, node>>][1]
  IN Paint(end, end.root, "BLACK")

\* erase_fixup, case 1: a red sibling is rotated above the parent.
Lift(h, parent, side) ==
  LET brother == h.child[Other(side)][parent]
  IN IF IsRed(h, brother)
     THEN Rotate(Paint(Paint(h, brother, "BLACK"), parent, "RED"), parent, side) ELSE h

\* Case 3: a sibling without a red child on the far side goes below its other child.
Bend(h, sibling, side) ==
  IF IsRed(h, h.child[Other(side)][sibling]) THEN h
  ELSE Rotate(Paint(Paint(h, h.child[side][sibling], "BLACK"), sibling, "RED"),
              sibling, Other(side))

\* Case 4: the sibling is rotated above the parent, and the loop ends.
Settle(h, parent, side) ==
  LET far     == Other(side)
      sibling == h.child[far][parent]
  IN Rotate(Paint(Paint(Paint(h, sibling, h.color[parent]), parent, "BLACK"),
                  h.child[far][sibling], "BLACK"), parent, side)

\* The body of erase_fixup's loop.
EraseStep(h, node) ==
  LET parent  == h.parent[node]
      side    == SideOf(h, node)
      far     == Other(side)
      lifted  == Lift(h, parent, side)
      sibling == lifted.child[far][parent]
      settled == Settle(Bend(lifted, sibling, side), parent, side)
  IN IF parent = null \/ h.child[far][parent] = null \/ sibling = null THEN <<Fault(h), node>>
     ELSE IF \A s \in Sides : ~IsRed(lifted, lifted.child[s][sibling])
     THEN <<Paint(lifted, sibling, "RED"), lifted.parent[node]>>
     ELSE <<settled, settled.root>>

EraseFixup(h, node) ==
  LET places == Heaps \X (Nodes \cup {null})
      more   == {s \in places : /\ ~s[1].fault
                                /\ s[2] \notin {null, s[1].root}
                                /\ ~IsRed(s[1], s[2])}
      end    == Loop(places, [s \in more |-> EraseStep(s[1], s[2])])[<<h, node>>]
  IN Paint(end[1], end[2], "BLACK")

\* The first node of the subtree of n.
Leftmost(h, n) ==
  Loop(Nodes, [m \in {m \in Nodes : h.child["left"][m] # null} |-> h.child["left"][m]])[n]

\* The side of n to which insert_with_compare goes with the node.
Toward(node, n, key) == IF key[node] < key[n] THEN "left" ELSE "right"

\* Its descent: the last node that it passes.
Descend(h, node, key) ==
  LET next == [n \in Nodes |-> h.child[Toward(node, n, key)][n]]
  IN Loop(Nodes, [n \in {n \in Nodes : next[n] # null} |-> next[n]])[h.root]

\* A node that is about to be linked.
Leaf(h, node) ==
  [h EXCEPT !.child["left"][node] = null, !.child["right"][node] = null, !.color[node] = "RED"]

\* insert_with_compare, where cmp compares the nodes' keys.
Insert(h, node, key) ==
  LET last == Descend(h, node, key)
      side == Toward(node, last, key)
  IN InsertFixup(IF h.root = null
                 THEN [Leaf(h, node) EXCEPT !.root = node, !.parent[node] = null]
                 ELSE [Leaf(h, node) EXCEPT !.parent[node] = last, !.child[side][last] = node],
                 node)

\* The successor leaves its parent, which takes its right child, for the top of
\* the subtree of right.
Detach(h, successor, right) ==
  [h EXCEPT !.child["left"][h.parent[successor]] = h.child["right"][successor],
            !.child["right"][successor] = right,
            !.parent[right] = successor]

\* The successor takes the left subtree, the parent and the colour of the node.
Replace(h, node, successor) ==
  [h EXCEPT !.child["left"][successor] = h.child["left"][node],
            !.parent[h.child["left"][node]] = successor,
            !.parent[successor] = h.parent[node],
            !.color[successor] = h.color[node],
            !.color[node] = h.color[successor]]

\* erase, when both children are there: the successor takes the node's place,
\* and nothing is rebalanced.
EraseInner(h, node) ==
  LET right     == h.child["right"][node]
      successor == Leftmost(h, right)
      adopted   == Adopt(h, h.child["right"][successor], h.parent[successor])
      detached  == IF successor = right THEN h ELSE Detach(adopted, successor, right)
  IN Replace(Relink(detached, node, successor), node, successor)

\* erase without an adjustment.
EraseUnfixed(h, node) ==
  LET child == IF h.child["left"][node] # null THEN h.child["left"][node]
               ELSE h.child["right"][node]
  IN Adopt(Relink(h, node, child), child, h.parent[node])

\* erase, when a child is missing: rebalances only if the other is there.
EraseOuter(h, node) ==
  LET child   == IF h.child["left"][node] # null THEN h.child["left"][node]
                 ELSE h.child["right"][node]
      without == Adopt(Relink(h, node, child), child, h.parent[node])
  IN IF h.color[node] = "BLACK" /\ child # null THEN EraseFixup(without, child) ELSE without

Erase(h, node) ==
  IF \A s \in Sides : h.child[s][node] # null THEN EraseInner(h, node) ELSE EraseOuter(h, node)

-----------------------------------------------------------------------------

\* A value for each node, made by rounds steps from the values of its children.
Rounds(values, step, first, rounds) ==
  Loop(Nat \X values,
       [s \in (Nat \ {0}) \X values |-> <<s[1] - 1, step[s[2]]>>])[<<rounds, first>>][2]

\* The tree from left to right; what lies deeper than depth is cut off.
InOrder(h, depth) ==
  LET walks == [Nodes \cup {null} -> Seq(Nodes)]
      step  == [w \in walks |-> [n \in Nodes \cup {null} |->
                  IF n = null THEN <<>>
                  ELSE w[h.child["left"][n]] \o <<n>> \o w[h.child["right"][n]]]]
  IN Rounds(walks, step, [n \in Nodes \cup {null} |-> <<>>], depth)[h.root]

\* The black nodes on every path down from a node, or -1 if two paths differ or
\* two red nodes follow each other.
BlackHeight(h, depth) ==
  LET heights == [Nodes \cup {null} -> Int]
      step    == [b \in heights |-> [n \in Nodes \cup {null} |->
                    IF n = null THEN 0
                    ELSE LET l == h.child["left"][n]
                             r == h.child["right"][n]
                         IN IF b[l] # b[r] \/ b[l] = -1 THEN -1
                            ELSE IF ~IsRed(h, n) THEN b[l] + 1
                            ELSE IF IsRed(h, l) \/ IsRed(h, r) THEN -1 ELSE b[l]]]
  IN Rounds(heights, step, [n \in Nodes \cup {null} |-> 0], depth)[h.root]

IsRedBlack(h) == ~IsRed(h, h.root) /\ BlackHeight(h, Cardinality(Nodes) + 1) # -1
=============================================================================
