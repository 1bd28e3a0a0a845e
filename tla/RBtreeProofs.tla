---------------------------- MODULE RBtreeProofs ----------------------------
(***************************************************************************)
(* What the operations of RBtree do, for every tree: a loop that must end  *)
(* ends in a state that keeps its invariant; an insertion into a search    *)
(* tree with a black root gives one with the new node, and an erasure one  *)
(* without the node, or a fault; an insertion keeps a red-black tree       *)
(* red-black; and the tree read from left to right is the list of its      *)
(* nodes in the order of their keys.                                       *)
(*                                                                         *)
(* The proofs see a heap through Root, Child, Parent, Color and Faulty     *)
(* only, and a single write to it through a lemma of its own.              *)
(***************************************************************************)
EXTENDS RBtree, FiniteSetTheorems, SequenceTheorems, WellFoundedInduction, TLAPS

LEMMA LoopUnfolds ==
  ASSUME NEW S, NEW more \in SUBSET S, NEW body \in [more -> S]
  PROVE  \A s \in S : Loop(S, body)[s] =
           IF s \in more THEN Loop(S, body)[body[s]] ELSE s
<1> DEFINE Closed(T) == \A t \in T \cap more : body[t] \in T
           Reach(s)  == {x \in S : \A T \in SUBSET S : s \in T /\ Closed(T) => x \in T}
           Ends(s)   == Reach(s) \ more
           g == [s \in S |-> CHOOSE x : x \in Ends(s)]
<1>1. ASSUME NEW s \in S, s \notin more PROVE g[s] = s
  <2>1. {s} \in SUBSET S /\ Closed({s})
    BY <1>1
  <2>2. Reach(s) \subseteq {s}
    BY <2>1
  <2>3. s \in Reach(s)
    OBVIOUS
  <2>4. Ends(s) = {s}
    BY <1>1, <2>2, <2>3
  <2> HIDE DEF Ends
  <2>5. (CHOOSE x : x \in Ends(s)) = s
    BY <2>4
  <2> QED BY <2>5
<1>2. ASSUME NEW s \in more PROVE g[s] = g[body[s]]
  <2>1. body[s] \in S
    OBVIOUS
  <2>2. Reach(body[s]) \subseteq Reach(s)
    <3>1. ASSUME NEW T \in SUBSET S, s \in T, Closed(T) PROVE body[s] \in T
      BY <3>1
    <3> QED BY <3>1
  <2>3. Reach(s) \subseteq {s} \cup Reach(body[s])
    <3> DEFINE T == {s} \cup Reach(body[s])
    <3>1. T \in SUBSET S /\ s \in T
      OBVIOUS
    <3>2. body[s] \in Reach(body[s])
      BY <2>1
    <3>3. ASSUME NEW t \in Reach(body[s]) \cap more PROVE body[t] \in Reach(body[s])
      <4>1. body[t] \in S
        BY <3>3
      <4>2. ASSUME NEW U \in SUBSET S, body[s] \in U, Closed(U) PROVE body[t] \in U
        BY <3>3, <4>2
      <4> QED BY <4>1, <4>2
    <3>4. Closed(T)
      BY <3>2, <3>3
    <3> QED BY <3>1, <3>4
  <2>4. Ends(s) = Ends(body[s])
    BY <2>2, <2>3
  <2> HIDE DEF Ends
  <2> QED BY <2>1, <2>4
<1>3. g = [s \in S |-> IF s \in more THEN g[body[s]] ELSE s]
  <2> HIDE DEF g
  <2>1. \A s \in S : g[s] = IF s \in more THEN g[body[s]] ELSE s
    BY <1>1, <1>2
  <2>2. g = [s \in S |-> g[s]]
    BY DEF g
  <2> QED BY <2>1, <2>2
<1> HIDE DEF g
<1>4. Loop(S, body) = [s \in S |-> IF s \in more THEN Loop(S, body)[body[s]] ELSE s]
  BY <1>3 DEF Loop
<1> QED BY <1>4

\* Of finite sets that are not none, one contains no other strictly.
LEMMA Smallest ==
  ASSUME NEW T, IsFiniteSet(T), NEW B, B # {}, NEW f \in [B -> SUBSET T]
  PROVE  \E b \in B : \A c \in B : ~ (f[c] \subseteq f[b] /\ f[c] # f[b])
<1> DEFINE Images == {f[b] : b \in B}
<1>1. IsWellFoundedOn(StrictSubsetOrdering(T), SUBSET T)
  <2>1. IsWellFoundedOn(StrictSubsetOrdering(T), FiniteSubsetsOf(T))
    BY FS_StrictSubsetOrderingWellFounded
  <2>2. FiniteSubsetsOf(T) = SUBSET T
    BY FS_FiniteSubsetsOfFinite
  <2> QED BY <2>1, <2>2
<1>2. Images \subseteq SUBSET T /\ Images # {}
  OBVIOUS
<1>3. PICK l \in Images : \A k \in Images : ~ (<<k, l>> \in StrictSubsetOrdering(T))
  BY <1>1, <1>2, WFMin
<1>4. PICK b \in B : l = f[b]
  OBVIOUS
<1>5. ASSUME NEW c \in B, f[c] \subseteq f[b], f[c] # f[b] PROVE FALSE
  <2>1. <<f[c], f[b]>> \in StrictSubsetOrdering(T)
    BY <1>5 DEF StrictSubsetOrdering
  <2> QED BY <1>3, <1>4, <2>1
<1> QED BY <1>5

\* Every step keeps the invariant and, unless it is the last, leaves less of T.
Advances(S, more, body, Inv, T, left) ==
  /\ more \in SUBSET S /\ body \in [more -> S] /\ Inv \in SUBSET S
  /\ IsFiniteSet(T) /\ left \in [Inv -> SUBSET T]
  /\ \A s \in Inv \cap more :
       /\ body[s] \in Inv
       /\ body[s] \in more => left[body[s]] \subseteq left[s] /\ left[body[s]] # left[s]

\* Such a loop ends, with its invariant and without its guard.
LEMMA LoopEnds ==
  ASSUME NEW S, NEW more, NEW body, NEW Inv, NEW T, NEW left,
         Advances(S, more, body, Inv, T, left), NEW start \in Inv
  PROVE  Loop(S, body)[start] \in Inv \ more
<1>0. /\ more \in SUBSET S /\ body \in [more -> S] /\ Inv \in SUBSET S
      /\ IsFiniteSet(T) /\ left \in [Inv -> SUBSET T]
      /\ \A s \in Inv \cap more :
           /\ body[s] \in Inv
           /\ body[s] \in more => left[body[s]] \subseteq left[s] /\ left[body[s]] # left[s]
  BY DEF Advances
<1> DEFINE f == Loop(S, body)
           Bad == {s \in Inv : f[s] \notin Inv \ more}
<1>1. \A s \in S : f[s] = IF s \in more THEN f[body[s]] ELSE s
  BY <1>0, LoopUnfolds
<1> HIDE DEF f
<1>2. SUFFICES ASSUME start \in Bad PROVE FALSE
  BY <1>2 DEF f
<1>3. PICK s \in Bad : \A t \in Bad : ~ (left[t] \subseteq left[s] /\ left[t] # left[s])
  <2> DEFINE g == [t \in Bad |-> left[t]]
  <2>1. g \in [Bad -> SUBSET T] /\ \A t \in Bad : g[t] = left[t]
    BY <1>0
  <2> HIDE DEF g, Bad
  <2>2. \E s \in Bad : \A t \in Bad : ~ (g[t] \subseteq g[s] /\ g[t] # g[s])
    BY <1>0, <1>2, <2>1, Smallest
  <2> QED BY <2>1, <2>2
<1>4. s \in more /\ body[s] \in Bad /\ body[s] \in more
  BY <1>0, <1>1, <1>3
<1> QED BY <1>0, <1>3, <1>4
-----------------------------------------------------------------------------
\* The fields of the nodes, as operators that proofs do not look into.
Root(h) == h.root

Child(h, s, n) == h.child[s][n]

Parent(h, n) == h.parent[n]

Color(h, n) == h.color[n]

Faulty(h) == h.fault

LEMMA NullFacts == null \notin Nodes /\ null = 0
BY NodesAssumption DEF null

LEMMA SidesFacts ==
  ASSUME NEW s \in Sides
  PROVE  /\ Other(s) \in Sides /\ Other(s) # s /\ Other(Other(s)) = s
         /\ \A t \in Sides : t = s \/ t = Other(s)
BY DEF Sides, Other

LEMMA HeapFacts ==
  ASSUME NEW h \in Heaps
  PROVE  /\ Root(h) \in Nodes \cup {null}
         /\ \A s \in Sides, n \in Nodes : Child(h, s, n) \in Nodes \cup {null}
         /\ \A n \in Nodes : Parent(h, n) \in Nodes \cup {null} /\ Color(h, n) \in Colors
         /\ Faulty(h) \in BOOLEAN
BY DEF Heaps, Root, Child, Parent, Color, Faulty

\* The assignments that rotations and erasures are made of, and what they write.
WithRoot(h, n) == [h EXCEPT !.root = n]

WithParent(h, n, p) == [h EXCEPT !.parent[n] = p]

WithChild(h, s, n, c) == [h EXCEPT !.child[s][n] = c]

SameColors(r, h) == \A m \in Nodes : Color(r, m) = Color(h, m)

SameParents(r, h) == \A m \in Nodes : Parent(r, m) = Parent(h, m)

SameChildren(r, h) == \A s \in Sides, m \in Nodes : Child(r, s, m) = Child(h, s, m)

RootSet(r, h, n) ==
  /\ r \in Heaps /\ Root(r) = n /\ Faulty(r) = Faulty(h)
  /\ SameColors(r, h) /\ SameParents(r, h) /\ SameChildren(r, h)

ParentSet(r, h, n, p) ==
  /\ r \in Heaps /\ Root(r) = Root(h) /\ Faulty(r) = Faulty(h)
  /\ SameColors(r, h) /\ SameChildren(r, h)
  /\ \A m \in Nodes : Parent(r, m) = IF m = n THEN p ELSE Parent(h, m)

ChildSet(r, h, s, n, c) ==
  /\ r \in Heaps /\ Root(r) = Root(h) /\ Faulty(r) = Faulty(h)
  /\ SameColors(r, h) /\ SameParents(r, h)
  /\ \A t \in Sides, m \in Nodes : Child(r, t, m) = IF t = s /\ m = n THEN c ELSE Child(h, t, m)

ColorSet(r, h, n, c) ==
  /\ r \in Heaps /\ Root(r) = Root(h) /\ Faulty(r) = Faulty(h)
  /\ SameParents(r, h) /\ SameChildren(r, h)
  /\ \A m \in Nodes : Color(r, m) = IF m = n THEN c ELSE Color(h, m)

LEMMA WithRootWrites ==
  ASSUME NEW h \in Heaps, NEW n \in Nodes \cup {null}
  PROVE  RootSet(WithRoot(h, n), h, n)
BY DEF Heaps, WithRoot, RootSet, SameColors, SameParents, SameChildren,
       Root, Child, Parent, Color, Faulty

LEMMA WithParentWrites ==
  ASSUME NEW h \in Heaps, NEW n \in Nodes, NEW p \in Nodes \cup {null}
  PROVE  ParentSet(WithParent(h, n, p), h, n, p)
BY DEF Heaps, WithParent, ParentSet, SameColors, SameChildren, Root, Child, Parent, Color, Faulty

LEMMA WithChildWrites ==
  ASSUME NEW h \in Heaps, NEW s \in Sides, NEW n \in Nodes, NEW c \in Nodes \cup {null}
  PROVE  ChildSet(WithChild(h, s, n, c), h, s, n, c)
BY DEF Heaps, WithChild, ChildSet, SameColors, SameParents, Root, Child, Parent, Color, Faulty

LEMMA PaintWrites ==
  ASSUME NEW h \in Heaps, NEW n, NEW c \in Colors
  PROVE  ColorSet(Paint(h, n, c), h, n, c)
BY DEF Heaps, Paint, ColorSet, SameParents, SameChildren, Root, Child, Parent, Color, Faulty

LEMMA SideOfFact ==
  ASSUME NEW h, NEW n
  PROVE  SideOf(h, n) = IF Child(h, "left", Parent(h, n)) = n THEN "left" ELSE "right"
BY Zenon DEF SideOf, Child, Parent

Relinked(r, h, old, new) ==
  /\ r \in Heaps /\ Faulty(r) = Faulty(h)
  /\ Root(r) = IF Parent(h, old) = null THEN new ELSE Root(h)
  /\ SameColors(r, h) /\ SameParents(r, h)
  /\ \A s \in Sides, m \in Nodes : Child(r, s, m) =
       IF Parent(h, old) # null /\ s = SideOf(h, old) /\ m = Parent(h, old)
       THEN new ELSE Child(h, s, m)

LEMMA RelinkWrites ==
  ASSUME NEW h \in Heaps, NEW old \in Nodes, NEW new \in Nodes \cup {null}
  PROVE  Relinked(Relink(h, old, new), h, old, new)
<1>1. CASE Parent(h, old) = null
  <2>1. Relink(h, old, new) = WithRoot(h, new)
    BY <1>1 DEF Relink, WithRoot, Parent
  <2>2. RootSet(Relink(h, old, new), h, new)
    BY <2>1, WithRootWrites
  <2> QED BY <1>1, <2>2 DEF RootSet, Relinked, SameChildren
<1>2. CASE Parent(h, old) # null
  <2>1. Relink(h, old, new) = WithChild(h, SideOf(h, old), Parent(h, old), new)
    BY <1>2 DEF Relink, WithChild, Parent
  <2>2. Parent(h, old) \in Nodes
    BY <1>2, HeapFacts
  <2>3. SideOf(h, old) \in Sides
    BY DEF SideOf, Sides
  <2>4. ChildSet(Relink(h, old, new), h, SideOf(h, old), Parent(h, old), new)
    BY <2>1, <2>2, <2>3, WithChildWrites
  <2> QED BY <1>2, <2>4 DEF ChildSet, Relinked
<1> QED BY <1>1, <1>2

LEMMA AdoptWrites ==
  ASSUME NEW h \in Heaps, NEW n \in Nodes \cup {null}, NEW p \in Nodes \cup {null}
  PROVE  ParentSet(Adopt(h, n, p), h, n, p)
<1>1. CASE n = null
  BY <1>1, NullFacts DEF Adopt, ParentSet, SameColors, SameChildren
<1>2. CASE n # null
  <2>1. n \in Nodes /\ Adopt(h, n, p) = WithParent(h, n, p)
    BY <1>2 DEF Adopt, WithParent
  <2> QED BY <2>1, WithParentWrites
<1> QED BY <1>1, <1>2

Exchanged(r, h, node, up, side) ==
  /\ r \in Heaps /\ Root(r) = Root(h) /\ Faulty(r) = Faulty(h) /\ SameColors(r, h)
  /\ \A m \in Nodes : Parent(r, m) = IF m = node THEN up
                                     ELSE IF m = up THEN Parent(h, node) ELSE Parent(h, m)
  /\ \A s \in Sides, m \in Nodes : Child(r, s, m) =
       IF s = side /\ m = up THEN node
       ELSE IF s = Other(side) /\ m = node THEN Child(h, side, up) ELSE Child(h, s, m)

LEMMA ExchangeWrites ==
  ASSUME NEW h \in Heaps, NEW node \in Nodes, NEW up \in Nodes, NEW side \in Sides
  PROVE  Exchanged(Exchange(h, node, up, side), h, node, up, side)
<1>1. node \in Nodes \cup {null} /\ up \in Nodes \cup {null}
  OBVIOUS
<1>2. PICK far \in Sides : far = Other(side) /\ far # side
  BY SidesFacts
<1>3. PICK c \in Nodes \cup {null} : c = h.child[side][up]
  BY DEF Heaps
<1>4. PICK p \in Nodes \cup {null} : p = h.parent[node]
  BY DEF Heaps
<1> DEFINE r1 == WithChild(h, far, node, c)
           r2 == WithChild(r1, side, up, node)
           r3 == WithParent(r2, up, p)
           r4 == WithParent(r3, node, up)
<1>5. Exchange(h, node, up, side) = r4
  BY <1>2, <1>3, <1>4 DEF Heaps, Exchange, WithChild, WithParent
<1> HIDE DEF r1, r2, r3, r4
<1>6. ChildSet(r1, h, far, node, c)
  BY WithChildWrites DEF r1
<1>7. ChildSet(r2, r1, side, up, node)
  BY <1>1, <1>6, WithChildWrites DEF r2, ChildSet
<1>8. ParentSet(r3, r2, up, p)
  BY <1>7, WithParentWrites DEF r3, ChildSet
<1>9. ParentSet(r4, r3, node, up)
  BY <1>1, <1>8, WithParentWrites DEF r4, ParentSet
<1>10. c = Child(h, side, up) /\ p = Parent(h, node)
  BY <1>3, <1>4 DEF Child, Parent
<1>11. r4 \in Heaps /\ Root(r4) = Root(h) /\ Faulty(r4) = Faulty(h) /\ SameColors(r4, h)
  BY <1>6, <1>7, <1>8, <1>9 DEF ChildSet, ParentSet, SameColors
<1>12. \A m \in Nodes : Parent(r4, m) = IF m = node THEN up
                                        ELSE IF m = up THEN Parent(h, node) ELSE Parent(h, m)
  BY <1>6, <1>7, <1>8, <1>9, <1>10 DEF ChildSet, ParentSet, SameParents
<1>13. \A s \in Sides, m \in Nodes :
         Child(r4, s, m) = IF s = side /\ m = up THEN node
                           ELSE IF s = Other(side) /\ m = node THEN Child(h, side, up)
                           ELSE Child(h, s, m)
  BY <1>2, <1>6, <1>7, <1>8, <1>9, <1>10 DEF ChildSet, ParentSet, SameChildren
<1> QED BY <1>5, <1>11, <1>12, <1>13 DEF Exchanged

Turned(r, h, node, up, middle, side) ==
  /\ r \in Heaps /\ Faulty(r) = Faulty(h) /\ SameColors(r, h)
  /\ Root(r) = IF Parent(h, node) = null THEN up ELSE Root(h)
  /\ \A m \in Nodes : Parent(r, m) = IF m = node THEN up
                                     ELSE IF m = up THEN Parent(h, node)
                                     ELSE IF m = middle THEN node ELSE Parent(h, m)
  /\ \A s \in Sides, m \in Nodes : Child(r, s, m) =
       IF s = side /\ m = up THEN node
       ELSE IF s = Other(side) /\ m = node THEN middle
       ELSE IF Parent(h, node) # null /\ s = SideOf(h, node) /\ m = Parent(h, node) THEN up
       ELSE Child(h, s, m)

\* What a rotation writes, of a node that is neither below nor above up twice.
LEMMA RotateWrites ==
  ASSUME NEW h \in Heaps, NEW node \in Nodes, NEW side \in Sides,
         NEW up, up = Child(h, Other(side), node), up # null,
         NEW middle, middle = Child(h, side, up), middle # node, Parent(h, node) # up
  PROVE  Turned(Rotate(h, node, side), h, node, up, middle, side)
<1> DEFINE l == Relink(h, node, up)
           a == Adopt(l, middle, node)
           e == Exchange(a, node, up, side)
<1>1. Rotate(h, node, side) = e
  <2>1. Rotate(h, node, side) = RotateUp(h, node, up, side)
    BY DEF Rotate, Child
  <2>2. RotateUp(h, node, up, side) = e
    BY Zenon DEF RotateUp, Child
  <2> QED BY <2>1, <2>2, Zenon
<1> HIDE DEF l, a, e
<1>2. Other(side) \in Sides /\ Other(side) # side
  BY SidesFacts
<1>3. /\ up \in Nodes /\ up \in Nodes \cup {null} /\ middle \in Nodes \cup {null}
      /\ node \in Nodes \cup {null} /\ Parent(h, node) \in Nodes \cup {null}
  BY <1>2, HeapFacts
<1>4. Relinked(l, h, node, up)
  BY <1>3, RelinkWrites DEF l
<1>5. ParentSet(a, l, middle, node)
  BY <1>3, <1>4, AdoptWrites DEF a, Relinked
<1>6. Exchanged(e, a, node, up, side)
  BY <1>3, <1>5, ExchangeWrites DEF e, ParentSet
<1>7. Child(a, side, up) = middle /\ Parent(a, node) = Parent(h, node)
  BY <1>3, <1>4, <1>5 DEF Relinked, ParentSet, SameParents, SameChildren
<1>8. /\ e \in Heaps /\ Faulty(e) = Faulty(h) /\ SameColors(e, h)
      /\ Root(e) = IF Parent(h, node) = null THEN up ELSE Root(h)
  BY <1>4, <1>5, <1>6 DEF Relinked, ParentSet, Exchanged, SameColors
<1>9. \A m \in Nodes : Parent(e, m) = IF m = node THEN up
                                      ELSE IF m = up THEN Parent(h, node)
                                      ELSE IF m = middle THEN node ELSE Parent(h, m)
  BY <1>4, <1>5, <1>6, <1>7 DEF Relinked, ParentSet, Exchanged, SameParents
<1>10. \A s \in Sides, m \in Nodes : Child(e, s, m) =
         IF s = side /\ m = up THEN node
         ELSE IF s = Other(side) /\ m = node THEN middle
         ELSE IF Parent(h, node) # null /\ s = SideOf(h, node) /\ m = Parent(h, node) THEN up
         ELSE Child(h, s, m)
  BY <1>4, <1>5, <1>6, <1>7 DEF Relinked, ParentSet, Exchanged, SameChildren
<1> QED BY <1>1, <1>8, <1>9, <1>10 DEF Turned

-----------------------------------------------------------------------------
\* The side on which the key of a is of the key of b.
On(side, key, a, b) == IF side = "left" THEN key[a] < key[b] ELSE key[b] < key[a]

LEMMA OnFacts ==
  ASSUME NEW key \in [Nodes -> Nat], NEW s \in Sides, NEW a \in Nodes, NEW b \in Nodes
  PROVE  /\ ~On(s, key, a, a)
         /\ On(s, key, a, b) => ~On(s, key, b, a)
         /\ On(Other(s), key, a, b) <=> On(s, key, b, a)
         /\ key[a] # key[b] => On(s, key, a, b) \/ On(Other(s), key, a, b)
         /\ \A c \in Nodes : On(s, key, a, b) /\ On(s, key, b, c) => On(s, key, a, c)
BY DEF On, Sides, Other

\* The nodes of the subtree of n.
Below(d, n) == d[n]

Distinct(L, key) == \A a, b \in L : key[a] = key[b] => a = b

\* The nodes L hang in a search tree, where d is the set of the nodes below each.
Searchable(h, L, d, key) ==
  \A n \in L, s \in Sides :
    /\ Child(h, s, n) \in L \cup {null}
    /\ Below(d, Child(h, s, n)) = {x \in Below(d, n) : On(s, key, x, n)}

Doubled(h, L) ==
  /\ \A n \in L, s \in Sides : Child(h, s, n) # null => Parent(h, Child(h, s, n)) = n
  /\ \A n \in L : IF Parent(h, n) = null THEN n = Root(h)
                  ELSE Parent(h, n) \in L /\ \E s \in Sides : Child(h, s, Parent(h, n)) = n

Rooted(h, L, d) ==
  /\ Root(h) \in L \cup {null}
  /\ Below(d, Root(h)) = L
  /\ Root(h) # null => Parent(h, Root(h)) = null

Covers(L, d) ==
  /\ d \in [Nodes \cup {null} -> SUBSET L]
  /\ \A n \in Nodes \cup {null} : Below(d, n) \subseteq L
  /\ Below(d, null) = {}
  /\ \A n \in L : n \in Below(d, n)

Shape(h, L, d, key) ==
  /\ L \subseteq Nodes /\ Distinct(L, key)
  /\ Covers(L, d) /\ Rooted(h, L, d) /\ Doubled(h, L) /\ Searchable(h, L, d, key)

\* A node has one parent, and hangs there on one side.
LEMMA ChildFacts ==
  ASSUME NEW h \in Heaps, NEW L, NEW d, NEW key \in [Nodes -> Nat], Shape(h, L, d, key),
         NEW n \in L, NEW s \in Sides, NEW c, c = Child(h, s, n), c # null
  PROVE  /\ n \in Nodes /\ n # null /\ c \in L /\ c \in Nodes /\ c # n
         /\ Parent(h, c) = n
         /\ On(s, key, c, n) /\ c \in Below(d, n) /\ ~On(Other(s), key, c, n)
         /\ n \notin Below(d, c)
         /\ c # Child(h, Other(s), n)
<1>1. n \in Nodes /\ n # null
  BY NullFacts DEF Shape
<1>2. c \in L /\ c \in Nodes /\ c \in Below(d, c) /\ Parent(h, c) = n
  BY DEF Shape, Searchable, Covers, Doubled
<1>3. Below(d, c) = {x \in Below(d, n) : On(s, key, x, n)}
  BY DEF Shape, Searchable
<1>4. c \in Below(d, n) /\ On(s, key, c, n)
  BY <1>2, <1>3
<1>5. ~On(Other(s), key, c, n) /\ c # n /\ ~On(s, key, n, n)
  BY <1>1, <1>2, <1>4, OnFacts
<1>6. Other(s) \in Sides
  BY SidesFacts
<1>7. Below(d, Child(h, Other(s), n)) = {x \in Below(d, n) : On(Other(s), key, x, n)}
  BY <1>6 DEF Shape, Searchable
<1> QED BY <1>1, <1>2, <1>3, <1>4, <1>5, <1>7

LEMMA ParentFacts ==
  ASSUME NEW h \in Heaps, NEW L, NEW d, NEW key \in [Nodes -> Nat], Shape(h, L, d, key),
         NEW n \in L, NEW p, p = Parent(h, n), p # null
  PROVE  /\ p \in L /\ p \in Nodes /\ p # n /\ n # Root(h)
         /\ SideOf(h, n) \in Sides
         /\ Child(h, SideOf(h, n), p) = n
<1>1. p \in L /\ p \in Nodes /\ n \in Nodes /\ n # null
  BY NullFacts DEF Shape, Doubled
<1>2. PICK s \in Sides : Child(h, s, p) = n
  BY DEF Shape, Doubled
<1>3. n # p
  BY <1>1, <1>2, ChildFacts
<1>4. n # Root(h)
  BY <1>1 DEF Shape, Rooted
<1>5. SideOf(h, n) = IF Child(h, "left", p) = n THEN "left" ELSE "right"
  BY SideOfFact
<1> QED BY <1>1, <1>2, <1>3, <1>4, <1>5 DEF Sides

\* What is below a node is below its parent, with the parent.
LEMMA ClimbFact ==
  ASSUME NEW h \in Heaps, NEW L, NEW d, NEW key \in [Nodes -> Nat], Shape(h, L, d, key),
         NEW n \in L, NEW p, p = Parent(h, n), p # null
  PROVE  p \in L /\ Below(d, n) \subseteq Below(d, p) /\ p \in Below(d, p) /\ p \notin Below(d, n)
<1>1. p \in L /\ SideOf(h, n) \in Sides /\ Child(h, SideOf(h, n), p) = n
  BY ParentFacts
<1>2. p \notin Below(d, n)
  BY <1>1, ChildFacts, NullFacts DEF Shape
<1> QED BY <1>1, <1>2 DEF Shape, Searchable, Covers

-----------------------------------------------------------------------------
\* What is below each node after up was turned above the node.
Risen(d, key, node, up, side) ==
  [d EXCEPT ![up] = d[node], ![node] = {x \in d[node] : On(side, key, x, up)}]

\* A rotation keeps a search tree of the same nodes.
LEMMA RotateShape ==
  ASSUME NEW h \in Heaps, NEW L, NEW d, NEW key \in [Nodes -> Nat], Shape(h, L, d, key),
         NEW node \in L, NEW side \in Sides,
         NEW up, up = Child(h, Other(side), node), up # null
  PROVE  /\ Shape(Rotate(h, node, side), L, Risen(d, key, node, up, side), key)
         /\ Turned(Rotate(h, node, side), h, node, up, Child(h, side, up), side)
<1> DEFINE r == Rotate(h, node, side)
           e == Risen(d, key, node, up, side)
<1> HIDE DEF r, e
<1>1. PICK far \in Sides : far = Other(side) /\ side = Other(far) /\ far # side
  BY SidesFacts
<1>2. /\ L \subseteq Nodes /\ Distinct(L, key) /\ Covers(L, d)
      /\ Rooted(h, L, d) /\ Doubled(h, L) /\ Searchable(h, L, d, key)
  BY DEF Shape
<1>3. /\ node \in Nodes /\ node # null /\ up \in L /\ up \in Nodes /\ up # node
      /\ Parent(h, up) = node
      /\ On(far, key, up, node) /\ up \in Below(d, node) /\ node \notin Below(d, up)
      /\ up # Child(h, side, node)
  BY <1>1, ChildFacts
<1>4. On(side, key, node, up)
  BY <1>1, <1>3, OnFacts
<1>5. \A s \in Sides : \A c : c = Child(h, s, up) /\ c # null =>
        /\ c \in L /\ c \in Nodes /\ c # up /\ c # node /\ Parent(h, c) = up
        /\ c \in Below(d, up) /\ c # Child(h, Other(s), up)
  BY <1>3, ChildFacts
<1>6. PICK middle \in L \cup {null} : middle = Child(h, side, up)
  BY <1>2, <1>3 DEF Searchable
<1>7. middle # node /\ middle # up
  BY <1>3, <1>5, <1>6, NullFacts
<1>8. Parent(h, node) # up
  <2>1. SUFFICES ASSUME Parent(h, node) = up PROVE FALSE
    OBVIOUS
  <2>2. PICK s \in Sides : Child(h, s, up) = node
    BY <1>2, <1>3, <2>1, NullFacts DEF Doubled
  <2> QED BY <1>3, <1>5, <2>2
<1>9. Turned(r, h, node, up, middle, side)
  BY <1>1, <1>3, <1>6, <1>7, <1>8, RotateWrites DEF r
<1>10. /\ e \in [Nodes \cup {null} -> SUBSET L]
       /\ Below(e, up) = Below(d, node)
       /\ Below(e, node) = {x \in Below(d, node) : On(side, key, x, up)}
       /\ \A m \in Nodes \cup {null} : m # up /\ m # node => Below(e, m) = Below(d, m)
  BY <1>2, <1>3 DEF Covers, Risen, Below, e
<1>11. PICK p \in L \cup {null} : p = Parent(h, node)
  BY <1>2 DEF Doubled
<1>12. p # null => /\ p # node /\ p # up /\ SideOf(h, node) \in Sides
                   /\ Child(h, SideOf(h, node), p) = node
  BY <1>8, <1>11, ParentFacts
<1>13. Covers(L, e)
  <2>1. node \in Below(d, node)
    BY <1>2 DEF Covers
  <2> QED BY <1>2, <1>3, <1>4, <1>10, <2>1, NullFacts DEF Covers
<1>14. Rooted(r, L, e)
  <2>1. CASE p = null
    <3>1. node = Root(h)
      BY <1>2, <1>11, <2>1 DEF Doubled
    <3> QED BY <1>2, <1>3, <1>9, <1>10, <1>11, <2>1, <3>1 DEF Rooted, Turned
  <2>2. CASE p # null
    <3>1. Root(r) = Root(h) /\ Root(h) # node /\ Root(h) # up
      BY <1>2, <1>3, <1>9, <1>11, <2>2, NullFacts DEF Rooted, Turned
    <3>2. Root(h) # null => Root(h) # middle
      BY <1>2, <1>3, <1>5, <1>6, NullFacts DEF Rooted
    <3> QED BY <1>2, <1>3, <1>9, <1>10, <3>1, <3>2 DEF Rooted, Turned
  <2> QED BY <2>1, <2>2
<1>15. Doubled(r, L)
  <2>1. ASSUME NEW n \in L, NEW s \in Sides, NEW c, c = Child(r, s, n), c # null
        PROVE  Parent(r, c) = n
    <3>1. CASE n = up /\ s = side
      BY <1>3, <1>9, <2>1, <3>1 DEF Turned
    <3>2. CASE n = up /\ s = far
      <4>1. c = Child(h, far, up)
        BY <1>1, <1>3, <1>9, <1>12, <1>11, <2>1, <3>2 DEF Turned
      <4>2. c # middle
        BY <1>1, <1>5, <1>6, <2>1, <4>1
      <4> QED BY <1>5, <1>9, <2>1, <3>2, <4>1, <4>2 DEF Turned
    <3>3. CASE n = node /\ s = far
      <4>1. c = middle
        BY <1>1, <1>3, <1>9, <2>1, <3>3 DEF Turned
      <4> QED BY <1>3, <1>5, <1>6, <1>7, <1>9, <2>1, <3>3, <4>1 DEF Turned
    <3>4. CASE n = node /\ s = side
      <4>1. c = Child(h, side, node)
        BY <1>1, <1>3, <1>9, <1>12, <1>11, <2>1, <3>4 DEF Turned
      <4>2. c \in L /\ c \in Nodes /\ c # node /\ c # up /\ Parent(h, c) = node
        BY <1>3, <2>1, <4>1, ChildFacts
      <4>3. c # middle
        BY <1>3, <1>5, <1>6, <2>1, <4>2
      <4> QED BY <1>9, <3>4, <4>2, <4>3 DEF Turned
    <3>5. CASE n # up /\ n # node /\ p # null /\ n = p /\ s = SideOf(h, node)
      <4>1. c = up
        BY <1>1, <1>2, <1>9, <1>11, <2>1, <3>5 DEF Turned
      <4> QED BY <1>3, <1>9, <1>11, <3>5, <4>1 DEF Turned
    <3>6. CASE n # up /\ n # node /\ ~(p # null /\ n = p /\ s = SideOf(h, node))
      <4>1. c = Child(h, s, n)
        BY <1>2, <1>9, <1>11, <2>1, <3>6 DEF Turned
      <4>2. c \in L /\ c \in Nodes /\ Parent(h, c) = n /\ c # Child(h, Other(s), n)
        BY <2>1, <4>1, ChildFacts
      <4>3. c # node
        <5>1. SUFFICES ASSUME c = node PROVE FALSE
          OBVIOUS
        <5>2. p = n /\ p # null
          BY <1>2, <1>11, <4>2, <5>1, NullFacts
        <5>3. SideOf(h, node) = Other(s)
          BY <1>12, <3>6, <5>2, SidesFacts
        <5> QED BY <1>12, <4>2, <5>1, <5>2, <5>3
      <4>4. c # up /\ c # middle
        BY <1>3, <1>5, <1>6, <2>1, <3>6, <4>2
      <4> QED BY <1>9, <4>2, <4>3, <4>4 DEF Turned
    <3> QED BY <1>1, <3>1, <3>2, <3>3, <3>4, <3>5, <3>6, SidesFacts
  <2>2. ASSUME NEW n \in L
        PROVE  IF Parent(r, n) = null THEN n = Root(r)
               ELSE Parent(r, n) \in L /\ \E s \in Sides : Child(r, s, Parent(r, n)) = n
    <3>1. n \in Nodes
      BY <1>2
    <3>2. CASE n = node
      BY <1>3, <1>9, <3>2, NullFacts DEF Turned
    <3>3. CASE n = up
      <4>1. Parent(r, up) = p
        BY <1>3, <1>9, <1>11 DEF Turned
      <4>2. CASE p = null
        BY <1>9, <1>11, <3>3, <4>1, <4>2 DEF Turned
      <4>3. CASE p # null
        <5>1. p \in Nodes
          BY <1>2, <1>11, <4>3
        <5>2. Child(r, SideOf(h, node), p) = up
          BY <1>1, <1>9, <1>11, <1>12, <4>3, <5>1 DEF Turned
        <5> QED BY <1>11, <1>12, <3>3, <4>1, <4>3, <5>2
      <4> QED BY <4>2, <4>3
    <3>4. CASE n = middle /\ n # node /\ n # up
      <4>1. Parent(r, n) = node
        BY <1>9, <3>1, <3>4 DEF Turned
      <4>2. Child(r, far, node) = middle
        BY <1>1, <1>3, <1>9 DEF Turned
      <4> QED BY <1>3, <3>4, <4>1, <4>2
    <3>5. CASE n # node /\ n # up /\ n # middle
      <4>1. Parent(r, n) = Parent(h, n)
        BY <1>9, <3>1, <3>5 DEF Turned
      <4>2. CASE Parent(h, n) = null
        <5>1. n = Root(h)
          BY <1>2, <4>2 DEF Doubled
        <5>2. p # null
          BY <1>2, <1>11, <3>5, <5>1 DEF Doubled
        <5> QED BY <1>9, <1>11, <4>1, <4>2, <5>1, <5>2 DEF Turned
      <4>3. CASE Parent(h, n) # null
        <5>1. PICK q \in L : q = Parent(h, n)
          BY <1>2, <4>3 DEF Doubled
        <5>2. PICK s \in Sides : Child(h, s, q) = n
          BY <1>2, <4>3, <5>1 DEF Doubled
        <5>3. ~(s = side /\ q = up)
          BY <1>6, <3>5, <5>2
        <5>4. ~(s = far /\ q = node)
          BY <1>1, <3>5, <5>2
        <5>5. ~(p # null /\ s = SideOf(h, node) /\ q = p)
          BY <1>12, <3>5, <5>2
        <5>6. Child(r, s, q) = n
          BY <1>1, <1>2, <1>9, <1>11, <5>1, <5>2, <5>3, <5>4, <5>5 DEF Turned
        <5> QED BY <4>1, <4>3, <5>1, <5>6
      <4> QED BY <4>2, <4>3
    <3> QED BY <3>2, <3>3, <3>4, <3>5
  <2> QED BY <2>1, <2>2 DEF Doubled
<1>16. Searchable(r, L, e, key)
  <2> SUFFICES ASSUME NEW n \in L, NEW s \in Sides
               PROVE  /\ Child(r, s, n) \in L \cup {null}
                      /\ Below(e, Child(r, s, n)) = {x \in Below(e, n) : On(s, key, x, n)}
    BY DEF Searchable
  <2>0. n \in Nodes /\ n # null /\ L \subseteq Nodes /\ \A m \in Nodes : Below(d, m) \subseteq Nodes
    BY <1>2, NullFacts DEF Covers
  <2>9. \A t \in Sides, m \in L : /\ Child(h, t, m) \in L \cup {null}
                                  /\ Below(d, Child(h, t, m)) = {x \in Below(d, m) : On(t, key, x, m)}
    BY <1>2 DEF Searchable
  <2>1. CASE n = up /\ s = side
    <3>1. Child(r, s, n) = node
      BY <1>3, <1>9, <2>1 DEF Turned
    <3> QED BY <1>10, <2>1, <3>1
  <2>2. CASE n = up /\ s = far
    <3>1. Child(r, s, n) = Child(h, far, up)
      BY <1>1, <1>3, <1>9, <1>11, <1>12, <2>2 DEF Turned
    <3>2. Child(h, far, up) # up /\ Child(h, far, up) # node
      BY <1>3, <1>5, NullFacts
    <3>3. Below(e, Child(r, s, n)) = {x \in Below(d, up) : On(far, key, x, up)}
      BY <1>3, <1>10, <2>0, <2>9, <3>1, <3>2
    <3>4. Below(d, up) = {x \in Below(d, node) : On(far, key, x, node)}
      BY <1>1, <2>9
    <3>5. \A x \in Nodes : On(far, key, x, up) => On(far, key, x, node)
      BY <1>3, OnFacts
    <3>6. {x \in Below(d, up) : On(far, key, x, up)} = {x \in Below(d, node) : On(far, key, x, up)}
      BY <1>3, <2>0, <3>4, <3>5
    <3> QED BY <1>3, <1>10, <2>2, <2>9, <3>1, <3>3, <3>6
  <2>3. CASE n = node /\ s = far
    <3>1. Child(r, s, n) = middle
      BY <1>1, <1>3, <1>9, <2>3 DEF Turned
    <3>2. Below(e, middle) = {x \in Below(d, up) : On(side, key, x, up)}
      BY <1>3, <1>6, <1>7, <1>10, <2>0, <2>9
    <3>3. Below(d, up) = {x \in Below(d, node) : On(far, key, x, node)}
      BY <1>1, <2>9
    <3> QED BY <1>3, <1>6, <1>10, <2>3, <3>1, <3>2, <3>3
  <2>4. CASE n = node /\ s = side
    <3>1. Child(r, s, n) = Child(h, side, node)
      BY <1>1, <1>3, <1>9, <1>11, <1>12, <2>4 DEF Turned
    <3>2. Child(h, side, node) # up /\ Child(h, side, node) # node
      BY <1>3, ChildFacts
    <3>3. Below(e, Child(r, s, n)) = {x \in Below(d, node) : On(side, key, x, node)}
      BY <1>3, <1>10, <2>0, <2>9, <3>1, <3>2
    <3>4. \A x \in Nodes : On(side, key, x, node) => On(side, key, x, up)
      BY <1>3, <1>4, OnFacts
    <3>5. {x \in Below(d, node) : On(side, key, x, node)} = {x \in Below(e, node) : On(side, key, x, node)}
      BY <1>3, <1>10, <2>0, <3>4
    <3> QED BY <2>4, <2>9, <3>1, <3>3, <3>5
  <2>5. CASE n # up /\ n # node /\ p # null /\ n = p /\ s = SideOf(h, node)
    <3>1. Child(r, s, n) = up
      BY <1>1, <1>9, <1>11, <2>0, <2>5 DEF Turned
    <3>2. Child(h, s, n) = node
      BY <1>12, <2>5
    <3> QED BY <1>3, <1>10, <2>0, <2>5, <2>9, <3>1, <3>2
  <2>6. CASE n # up /\ n # node /\ ~(p # null /\ n = p /\ s = SideOf(h, node))
    <3>1. Child(r, s, n) = Child(h, s, n)
      BY <1>9, <1>11, <2>0, <2>6 DEF Turned
    <3>2. Child(h, s, n) # null =>
            Parent(h, Child(h, s, n)) = n /\ Child(h, s, n) # Child(h, Other(s), n)
      BY ChildFacts
    <3>3. Child(h, s, n) # node
      <4>1. SUFFICES ASSUME Child(h, s, n) = node PROVE FALSE
        OBVIOUS
      <4>2. p = n /\ p # null
        BY <1>3, <1>11, <2>0, <3>2, <4>1
      <4>3. SideOf(h, node) = Other(s)
        BY <1>12, <2>6, <4>2, SidesFacts
      <4> QED BY <1>3, <1>12, <3>2, <4>1, <4>2, <4>3
    <3>4. Child(h, s, n) # up
      BY <1>3, <2>6, <3>2, NullFacts
    <3> QED BY <1>10, <2>0, <2>6, <2>9, <3>1, <3>3, <3>4
  <2> QED BY <1>1, <2>1, <2>2, <2>3, <2>4, <2>5, <2>6, SidesFacts
<1> QED BY <1>2, <1>6, <1>9, <1>13, <1>14, <1>15, <1>16 DEF Shape, r, e

-----------------------------------------------------------------------------
\* Other colours on the same tree.
SameTree(r, h) ==
  r \in Heaps /\ Root(r) = Root(h) /\ Faulty(r) = Faulty(h) /\ SameParents(r, h) /\ SameChildren(r, h)

LEMMA PaintTree ==
  ASSUME NEW h \in Heaps, NEW n, NEW c \in Colors
  PROVE  SameTree(Paint(h, n, c), h)
BY PaintWrites DEF ColorSet, SameTree

LEMMA PaintColor ==
  ASSUME NEW h \in Heaps, NEW n, NEW c \in Colors, NEW m \in Nodes
  PROVE  Color(Paint(h, n, c), m) = IF m = n THEN c ELSE Color(h, m)
BY PaintWrites DEF ColorSet

LEMMA TwicePainted ==
  ASSUME NEW h \in Heaps, NEW a, NEW ca \in Colors, NEW b, NEW cb \in Colors
  PROVE  /\ SameTree(Paint(Paint(h, a, ca), b, cb), h)
         /\ \A m \in Nodes : Color(Paint(Paint(h, a, ca), b, cb), m) =
              IF m = b THEN cb ELSE IF m = a THEN ca ELSE Color(h, m)
<1>1. ColorSet(Paint(h, a, ca), h, a, ca)
  BY PaintWrites
<1>2. ColorSet(Paint(Paint(h, a, ca), b, cb), Paint(h, a, ca), b, cb)
  BY <1>1, PaintWrites DEF ColorSet
<1> QED BY <1>1, <1>2 DEF ColorSet, SameTree, SameParents, SameChildren

LEMMA ThricePainted ==
  ASSUME NEW h \in Heaps, NEW a, NEW ca \in Colors, NEW b, NEW cb \in Colors,
         NEW c, NEW cc \in Colors
  PROVE  /\ SameTree(Paint(Paint(Paint(h, a, ca), b, cb), c, cc), h)
         /\ \A m \in Nodes : Color(Paint(Paint(Paint(h, a, ca), b, cb), c, cc), m) =
              IF m = c THEN cc ELSE IF m = b THEN cb ELSE IF m = a THEN ca ELSE Color(h, m)
<1> DEFINE g == Paint(Paint(h, a, ca), b, cb)
<1>1. SameTree(g, h) /\ \A m \in Nodes : Color(g, m) =
        IF m = b THEN cb ELSE IF m = a THEN ca ELSE Color(h, m)
  BY TwicePainted
<1> HIDE DEF g
<1>2. ColorSet(Paint(g, c, cc), g, c, cc)
  BY <1>1, PaintWrites DEF SameTree
<1>3. SameTree(Paint(g, c, cc), h) /\ \A m \in Nodes : Color(Paint(g, c, cc), m) =
        IF m = c THEN cc ELSE IF m = b THEN cb ELSE IF m = a THEN ca ELSE Color(h, m)
  BY <1>1, <1>2 DEF ColorSet, SameTree, SameParents, SameChildren
<1> QED BY <1>3 DEF g

LEMMA SameTreeShape ==
  ASSUME NEW h \in Heaps, NEW L, NEW d, NEW key, Shape(h, L, d, key), NEW r, SameTree(r, h)
  PROVE  Shape(r, L, d, key)
<1>1. L \subseteq Nodes /\ Distinct(L, key) /\ Covers(L, d)
  BY DEF Shape
<1>2. Rooted(r, L, d)
  BY <1>1 DEF Shape, Rooted, SameTree, SameParents
<1>3. Doubled(r, L)
  <2>1. ASSUME NEW n \in L, NEW s \in Sides, Child(r, s, n) # null PROVE Parent(r, Child(r, s, n)) = n
    BY <1>1, <2>1, HeapFacts DEF Shape, Doubled, SameTree, SameParents, SameChildren
  <2>2. ASSUME NEW n \in L
        PROVE  IF Parent(r, n) = null THEN n = Root(r)
               ELSE Parent(r, n) \in L /\ \E s \in Sides : Child(r, s, Parent(r, n)) = n
    BY <1>1 DEF Shape, Doubled, SameTree, SameParents, SameChildren
  <2> QED BY <2>1, <2>2 DEF Doubled
<1>4. Searchable(r, L, d, key)
  BY <1>1 DEF Shape, Searchable, SameTree, SameChildren
<1> QED BY <1>1, <1>2, <1>3, <1>4 DEF Shape

-----------------------------------------------------------------------------
\* The red-black properties: every path down from n has b[n] black nodes, and no
\* red node has a red child, but x may be one.
Weights(h) == [n \in Nodes |-> IF IsRed(h, n) THEN 0 ELSE 1]

Weighed(h, L, w, b) ==
  /\ b \in [Nodes \cup {null} -> Int] /\ b[null] = 0
  /\ \A n \in L : b[n] \in Nat /\ w[n] \in Int
  /\ \A n \in L, s \in Sides : b[n] = b[Child(h, s, n)] + w[n]

OnlyClash(h, L, x) ==
  \A n \in L, s \in Sides : IsRed(h, n) /\ IsRed(h, Child(h, s, n)) => Child(h, s, n) = x

Even(h, L, x) == OnlyClash(h, L, x) /\ \E b : Weighed(h, L, Weights(h), b)

LEMMA RedFacts ==
  ASSUME NEW h
  PROVE  /\ \A n : IsRed(h, n) <=> n # null /\ Color(h, n) = "RED"
         /\ \A n \in Nodes : Weights(h)[n] = IF IsRed(h, n) THEN 0 ELSE 1
BY DEF IsRed, Color, Weights

\* A node hangs in one place only.
LEMMA OnePlace ==
  ASSUME NEW h \in Heaps, NEW L, NEW d, NEW key \in [Nodes -> Nat], Shape(h, L, d, key),
         NEW n \in L, NEW s \in Sides, NEW c \in L, c = Child(h, s, n)
  PROVE  c # null /\ Parent(h, c) = n /\ s = SideOf(h, c)
<1>1. c # null
  BY NullFacts DEF Shape
<1>2. Parent(h, c) = n /\ n # null /\ c # Child(h, Other(s), n)
  BY <1>1, ChildFacts
<1>3. SideOf(h, c) = IF Child(h, "left", n) = c THEN "left" ELSE "right"
  BY <1>2, SideOfFact
<1> QED BY <1>1, <1>2, <1>3 DEF Sides, Other

\* A rotation of a red node above its parent, whose colour it takes.
LEMMA TurnWeighed ==
  ASSUME NEW h \in Heaps, NEW L, NEW d, NEW key \in [Nodes -> Nat], Shape(h, L, d, key),
         NEW node \in L, NEW side \in Sides,
         NEW up, up = Child(h, Other(side), node), up # null,
         NEW middle, middle = Child(h, side, up),
         NEW r, Turned(r, h, node, up, middle, side),
         NEW w, NEW b, Weighed(h, L, w, b), w[up] = 0,
         NEW v, \A n \in L : v[n] = IF n = up THEN w[node] ELSE IF n = node THEN 0 ELSE w[n]
  PROVE  \E c : Weighed(r, L, v, c)
<1> DEFINE c == [b EXCEPT ![up] = b[node], ![node] = b[up]]
<1>1. /\ L \subseteq Nodes /\ null \notin L /\ Other(side) \in Sides /\ Other(side) # side
      /\ \A s \in Sides : s = side \/ s = Other(side)
  BY NullFacts, SidesFacts DEF Shape
<1>2. up \in L /\ up # node /\ Parent(h, up) = node /\ up # Child(h, side, node)
  BY <1>1, ChildFacts, SidesFacts
<1>3. \A n \in L, s \in Sides : /\ Child(h, s, n) \in L \cup {null}
                                /\ Child(h, s, n) # null => Child(h, s, n) # n /\ Parent(h, Child(h, s, n)) = n
                                                            /\ s = SideOf(h, Child(h, s, n))
  BY <1>1, ChildFacts, OnePlace DEF Shape, Searchable
<1>4. b \in [Nodes \cup {null} -> Int] /\ b[null] = 0 /\ (\A n \in L : b[n] \in Nat /\ w[n] \in Int)
      /\ \A n \in L, s \in Sides : b[n] = b[Child(h, s, n)] + w[n]
  BY DEF Weighed
<1>5. Parent(h, node) # up
  <2>1. SUFFICES ASSUME Parent(h, node) = up PROVE FALSE
    OBVIOUS
  <2>2. node \notin Below(d, up)
    BY <1>1, <1>2, ChildFacts
  <2>3. node \in Below(d, node) /\ Below(d, node) \subseteq Below(d, up)
    <3>1. node \in Below(d, node)
      BY DEF Shape, Covers
    <3>2. up = Parent(h, node)
      BY <2>1
    <3> QED BY <3>1, <3>2, ClimbFact
  <2> QED BY <2>2, <2>3
<1>6. /\ c \in [Nodes \cup {null} -> Int] /\ c[null] = 0 /\ c[up] = b[node] /\ c[node] = b[up]
      /\ \A n \in L : n # up /\ n # node => c[n] = b[n]
      /\ \A n \in L : c[n] \in Nat
  BY <1>1, <1>2, <1>4
<1> HIDE DEF c
<1>7. \A s \in Sides, m \in L : Child(r, s, m) =
       IF s = side /\ m = up THEN node
       ELSE IF s = Other(side) /\ m = node THEN middle
       ELSE IF Parent(h, node) # null /\ s = SideOf(h, node) /\ m = Parent(h, node) THEN up
       ELSE Child(h, s, m)
  BY <1>1 DEF Turned
<1>8. \A n \in L, s \in Sides : Child(h, s, n) # up /\ Child(h, s, n) # node => c[Child(h, s, n)] = b[Child(h, s, n)]
  BY <1>3, <1>4, <1>6
<1>9. b[node] = b[up] + w[node] /\ b[up] = b[middle] /\ b[Child(h, side, node)] = b[up]
  <2>1. b[node] = b[up] + w[node] /\ b[node] = b[Child(h, side, node)] + w[node]
    BY <1>1, <1>4
  <2>2. b[up] = b[middle] + 0
    BY <1>2, <1>4
  <2>3. b[up] \in Nat /\ b[node] \in Nat /\ b[middle] \in Int /\ b[Child(h, side, node)] \in Int
    BY <1>1, <1>2, <1>3, <1>4
  <2>4. w[node] \in Int
    BY <1>4
  <2> QED BY <2>1, <2>2, <2>3, <2>4
<1>10. middle # up /\ middle # node
  BY <1>1, <1>2, <1>3, <1>5
<1>11. ASSUME NEW n \in L, NEW s \in Sides PROVE c[n] = c[Child(r, s, n)] + v[n]
  <2>1. CASE n = up /\ s = side
    <3>1. Child(r, s, n) = node
      BY <1>7, <2>1
    <3>2. c[n] = b[node] /\ c[node] = b[up] /\ v[n] = w[node]
      BY <1>6, <2>1
    <3> QED BY <1>9, <3>1, <3>2
  <2>2. CASE n = up /\ s = Other(side)
    <3>1. Child(r, s, n) = Child(h, s, n)
      BY <1>1, <1>2, <1>5, <1>7, <2>2
    <3>2. Child(h, s, n) # up /\ Child(h, s, n) # node
      BY <1>1, <1>3, <1>5, <2>2
    <3>3. c[Child(r, s, n)] = b[Child(h, s, n)] /\ b[Child(h, s, n)] \in Int
      BY <1>1, <1>3, <1>4, <1>8, <3>1, <3>2
    <3>4. b[up] = b[Child(h, s, n)] + 0
      BY <1>2, <1>4, <2>2
    <3>5. c[n] = b[node] /\ v[n] = w[node]
      BY <1>6, <2>2
    <3> QED BY <1>9, <3>3, <3>4, <3>5
  <2>3. CASE n = node /\ s = Other(side)
    <3>1. Child(r, s, n) = middle
      BY <1>1, <1>2, <1>7, <2>3
    <3>2. c[middle] = b[middle]
      BY <1>2, <1>8, <1>10
    <3> QED BY <1>2, <1>4, <1>6, <1>9, <2>3, <3>1, <3>2
  <2>4. CASE n = node /\ s = side
    <3>1. Parent(h, node) # node
      BY <1>1, ParentFacts
    <3>2. Child(r, s, n) = Child(h, s, n)
      BY <1>1, <1>2, <1>7, <2>4, <3>1
    <3>3. Child(h, s, n) # up /\ Child(h, s, n) # node
      BY <1>1, <1>2, <1>3, <2>4
    <3>4. c[Child(h, s, n)] = b[up]
      BY <1>8, <1>9, <2>4, <3>3
    <3>5. v[n] = 0 /\ b[up] \in Nat
      BY <1>2, <1>4, <2>4
    <3> QED BY <1>6, <2>4, <3>2, <3>4, <3>5
  <2>5. CASE n # up /\ n # node
    <3>1. c[n] = b[n] /\ v[n] = w[n]
      BY <1>6, <2>5
    <3>2. CASE Parent(h, node) # null /\ s = SideOf(h, node) /\ n = Parent(h, node)
      <4>1. Child(r, s, n) = up /\ Child(h, s, n) = node
        BY <1>7, <2>5, <3>2, ParentFacts
      <4> QED BY <1>4, <1>6, <3>1, <4>1
    <3>3. CASE ~(Parent(h, node) # null /\ s = SideOf(h, node) /\ n = Parent(h, node))
      <4>1. Child(r, s, n) = Child(h, s, n)
        BY <1>7, <2>5, <3>3
      <4>2. Child(h, s, n) # up /\ Child(h, s, n) # node
        BY <1>1, <1>2, <1>3, <2>5, <3>3
      <4> QED BY <1>4, <1>8, <3>1, <4>1, <4>2
    <3> QED BY <3>2, <3>3
  <2> QED BY <1>1, <2>1, <2>2, <2>3, <2>4, <2>5
<1>12. \A n \in L : v[n] \in Int
  BY <1>4
<1> QED BY <1>6, <1>11, <1>12 DEF Weighed

\* What hangs on the far side of its parent after an inner grandchild was turned out.
LEMMA TurnOutShape ==
  ASSUME NEW h \in Heaps, NEW L, NEW d, NEW key \in [Nodes -> Nat], Shape(h, L, d, key),
         NEW node \in L, NEW parent \in L, parent = Parent(h, node),
         NEW grandparent \in L, grandparent = Parent(h, parent),
         NEW side, side = SideOf(h, parent),
         NEW o, o = TurnOut(h, node, parent, side),
         NEW top, top = Child(o, side, grandparent),
         NEW next, next = IF top = parent THEN node ELSE parent
  PROVE  /\ o \in Heaps /\ \E e : Shape(o, L, e, key)
         /\ Root(o) = Root(h) /\ Faulty(o) = Faulty(h) /\ SameColors(o, h)
         /\ top \in L /\ next \in L /\ Child(o, side, top) = next
<1>1. L \subseteq Nodes /\ null \notin L
  BY NullFacts DEF Shape
<1>2. /\ side \in Sides /\ Child(h, side, grandparent) = parent
      /\ SideOf(h, node) \in Sides /\ Child(h, SideOf(h, node), parent) = node
      /\ grandparent # parent /\ parent # node
  BY <1>1, ParentFacts
<1>6. node # grandparent
  <2>1. node \in Below(d, parent)
    BY <1>1, <1>2, ChildFacts
  <2>2. grandparent \notin Below(d, parent)
    BY <1>1, <1>2, ChildFacts
  <2> QED BY <2>1, <2>2
<1>3. o = IF node = Child(h, Other(side), parent) THEN Rotate(h, parent, side) ELSE h
  BY DEF TurnOut, Child
<1>4. CASE node = Child(h, Other(side), parent)
  <2>1. node # parent
    BY <1>1, <1>2, ChildFacts
  <2>2. PICK e : Shape(o, L, e, key)
    BY <1>1, <1>2, <1>3, <1>4, RotateShape
  <2>3. Turned(o, h, parent, node, Child(h, side, node), side)
    BY <1>1, <1>2, <1>3, <1>4, RotateShape
  <2>4. top = node
    BY <1>1, <1>2, <1>6, <2>1, <2>3 DEF Turned
  <2>5. Child(o, side, node) = parent
    BY <1>1, <1>2, <2>3 DEF Turned
  <2>6. Root(o) = Root(h)
    BY <1>1, <2>3 DEF Turned
  <2> QED BY <1>1, <2>1, <2>2, <2>3, <2>4, <2>5, <2>6 DEF Turned
<1>5. CASE node # Child(h, Other(side), parent)
  <2>1. top = parent /\ o = h
    BY <1>2, <1>3, <1>5
  <2>2. Child(h, side, parent) = node
    BY <1>2, <1>5, SidesFacts
  <2> QED BY <1>2, <2>1, <2>2 DEF SameColors
<1> QED BY <1>4, <1>5

\* A red inner grandchild is turned out: the clash is with the one below.
LEMMA TurnOutEven ==
  ASSUME NEW h \in Heaps, NEW L, NEW d, NEW key \in [Nodes -> Nat], Shape(h, L, d, key),
         NEW node \in L, NEW parent \in L, parent = Parent(h, node),
         NEW grandparent \in L, grandparent = Parent(h, parent),
         NEW side, side = SideOf(h, parent),
         NEW o, o = TurnOut(h, node, parent, side),
         NEW top, top = Child(o, side, grandparent),
         NEW next, next = IF top = parent THEN node ELSE parent,
         IsRed(h, node), IsRed(h, parent), Even(h, L, node)
  PROVE  /\ IsRed(o, next) /\ IsRed(o, top) /\ Even(o, L, next)
         /\ Child(o, Other(side), grandparent) = Child(h, Other(side), grandparent)
<1>1. L \subseteq Nodes /\ null \notin L
  BY NullFacts DEF Shape
<1>2. /\ side \in Sides /\ Child(h, side, grandparent) = parent
      /\ SideOf(h, node) \in Sides /\ Child(h, SideOf(h, node), parent) = node
      /\ grandparent # parent /\ parent # node
      /\ Other(side) \in Sides /\ Other(side) # side /\ \A s \in Sides : s = side \/ s = Other(side)
  BY <1>1, ParentFacts, SidesFacts
<1>3. node # grandparent
  <2>1. node \in Below(d, parent) /\ grandparent \notin Below(d, parent)
    BY <1>1, <1>2, ChildFacts
  <2> QED BY <2>1
<1>4. /\ o = IF node = Child(h, Other(side), parent) THEN Rotate(h, parent, side) ELSE h
      /\ OnlyClash(h, L, node)
  BY DEF TurnOut, Child, Even
<1>5. CASE node # Child(h, Other(side), parent)
  <2>1. top = parent /\ o = h /\ next = node
    BY <1>2, <1>4, <1>5
  <2> QED BY <2>1
<1>6. CASE node = Child(h, Other(side), parent)
  <2> DEFINE middle == Child(h, side, node)
  <2>1. Turned(o, h, parent, node, middle, side)
    BY <1>1, <1>2, <1>4, <1>6, RotateShape
  <2> HIDE DEF middle
  <2>2. top = node /\ next = parent
    BY <1>1, <1>2, <1>3, <2>1 DEF Turned
  <2>3. \A n : IsRed(o, n) /\ n \in L \cup {null} <=> IsRed(h, n) /\ n \in L \cup {null}
    BY <1>1, <2>1, RedFacts DEF Turned, SameColors
  <2>4. /\ \A s \in Sides, m \in L : Child(o, s, m) =
             IF s = side /\ m = node THEN parent
             ELSE IF s = Other(side) /\ m = parent THEN middle
             ELSE IF s = side /\ m = grandparent THEN node
             ELSE Child(h, s, m)
    BY <1>1, <1>2, <2>1 DEF Turned
  <2>5. \A n \in L, s \in Sides : Child(h, s, n) \in L \cup {null}
    BY DEF Shape, Searchable
  <2>6. ~IsRed(h, grandparent)
    <3>1. IsRed(h, grandparent) => Child(h, side, grandparent) = node
      BY <1>2, <1>4 DEF OnlyClash
    <3> QED BY <1>2, <3>1
  <2>7. ASSUME NEW n \in L, NEW s \in Sides, IsRed(h, n), IsRed(h, Child(h, s, n))
        PROVE  n = parent /\ s = Other(side)
    <3>1. Child(h, s, n) = node
      BY <1>4, <2>7 DEF OnlyClash
    <3>2. Parent(h, node) = n /\ s = SideOf(h, node)
      BY <3>1, OnePlace
    <3>3. parent = Parent(h, node) /\ Other(side) = SideOf(h, node)
      BY <1>2, <1>6, OnePlace
    <3> QED BY <3>2, <3>3
  <2>8. ASSUME NEW n \in L, NEW s \in Sides, IsRed(o, n), IsRed(o, Child(o, s, n)), Child(o, s, n) # parent
        PROVE  FALSE
    <3>1. IsRed(h, n)
      BY <2>3, <2>8
    <3>2. n # grandparent
      BY <2>6, <3>1
    <3>3. CASE s = Other(side) /\ n = parent
      <4>1. Child(o, s, n) = middle /\ middle \in L \cup {null}
        BY <1>2, <2>4, <2>5, <3>3 DEF middle
      <4>2. IsRed(h, middle)
        BY <2>3, <2>8, <4>1
      <4> QED BY <1>2, <2>7, <4>2 DEF middle
    <3>4. CASE ~(s = Other(side) /\ n = parent)
      <4>1. Child(o, s, n) = Child(h, s, n) /\ Child(h, s, n) \in L \cup {null}
        BY <2>4, <2>5, <2>8, <3>2, <3>4
      <4>2. IsRed(h, Child(h, s, n))
        BY <2>3, <2>8, <4>1
      <4> QED BY <2>7, <3>1, <3>4, <4>2
    <3> QED BY <3>3, <3>4
  <2>9. OnlyClash(o, L, parent)
    BY <2>8 DEF OnlyClash
  <2>10. \E c : Weighed(o, L, Weights(o), c)
    <3>1. PICK b : Weighed(h, L, Weights(h), b)
      BY DEF Even
    <3>2. Weights(h)[node] = 0 /\ Weights(h)[parent] = 0
      BY <1>1, RedFacts
    <3>3. ASSUME NEW n \in L
          PROVE  Weights(o)[n] = IF n = node THEN Weights(h)[parent]
                                 ELSE IF n = parent THEN 0 ELSE Weights(h)[n]
      BY <1>1, <2>3, <3>2, RedFacts
    <3>4. node # null /\ node = Child(h, Other(side), parent) /\ middle = Child(h, side, node)
      BY <1>1, <1>6 DEF middle
    <3>5. side \in Sides /\ Weights(h)[node] = 0
      BY <1>2, <3>2
    <3> DEFINE w == Weights(h)
               v == Weights(o)
    <3>6. Weighed(h, L, w, b) /\ w[node] = 0
          /\ \A n \in L : v[n] = IF n = node THEN w[parent] ELSE IF n = parent THEN 0 ELSE w[n]
      BY <3>1, <3>3, <3>5
    <3> HIDE DEF w, v
    <3>7. \E c : Weighed(o, L, v, c)
      BY ONLY h \in Heaps, key \in [Nodes -> Nat], Shape(h, L, d, key), parent \in L,
              <2>1, <3>4, <3>5, <3>6, TurnWeighed
    <3> QED BY <3>7 DEF v
  <2> QED BY <1>2, <1>3, <2>2, <2>3, <2>4, <2>9, <2>10 DEF Even
<1> QED BY <1>5, <1>6

\* The outer one turned above a black grandparent that turns red: no clash is left.
LEMMA RiseEven ==
  ASSUME NEW o \in Heaps, NEW L, NEW e, NEW key \in [Nodes -> Nat], Shape(o, L, e, key),
         NEW grandparent \in L, NEW side \in Sides,
         NEW top \in L, top = Child(o, side, grandparent), NEW next \in L, next = Child(o, side, top),
         IsRed(o, top), ~IsRed(o, Child(o, Other(side), grandparent)), Even(o, L, next),
         NEW black, SameTree(black, o),
         \A m \in Nodes : Color(black, m) =
           IF m = grandparent THEN "RED" ELSE IF m = top THEN "BLACK" ELSE Color(o, m),
         NEW middle, middle = Child(black, Other(side), top),
         NEW r, Turned(r, black, grandparent, top, middle, Other(side))
  PROVE  Even(r, L, next)
<1>1. /\ L \subseteq Nodes /\ null \notin L /\ Other(side) \in Sides /\ Other(side) # side
      /\ Other(Other(side)) = side /\ \A s \in Sides : s = side \/ s = Other(side)
  BY NullFacts, SidesFacts DEF Shape
<1>2. /\ top # grandparent /\ next # top /\ next # Child(o, Other(side), top)
  BY <1>1, ChildFacts
<1>3. \A n \in L, s \in Sides : Child(o, s, n) \in L \cup {null}
  BY DEF Shape, Searchable
<1>4. OnlyClash(o, L, next) /\ \E b : Weighed(o, L, Weights(o), b)
  BY DEF Even
<1>5. ~IsRed(o, grandparent)
  <2>1. IsRed(o, grandparent) => Child(o, side, grandparent) = next
    BY <1>4 DEF OnlyClash
  <2> QED BY <1>2, <2>1
<1>6. /\ \A n \in L : Color(r, n) = IF n = grandparent THEN "RED" ELSE IF n = top THEN "BLACK" ELSE Color(o, n)
      /\ \A n, s : n \in L /\ s \in Sides => Child(black, s, n) = Child(o, s, n)
      /\ \A n \in L : Parent(black, n) = Parent(o, n)
  BY <1>1 DEF Turned, SameColors, SameTree, SameChildren, SameParents
<1>7. \A n : n \in L \cup {null} =>
        (IsRed(r, n) <=> n = grandparent \/ (n # top /\ IsRed(o, n)))
  BY <1>1, <1>2, <1>6, RedFacts
<1>8. SideOf(black, grandparent) = SideOf(o, grandparent) \/ Parent(o, grandparent) = null
  BY <1>1, <1>6, SideOfFact DEF Shape, Doubled, Sides
<1>9. \A s \in Sides, m \in L : Child(r, s, m) =
       IF s = Other(side) /\ m = top THEN grandparent
       ELSE IF s = side /\ m = grandparent THEN middle
       ELSE IF Parent(o, grandparent) # null /\ s = SideOf(o, grandparent) /\ m = Parent(o, grandparent)
       THEN top ELSE Child(o, s, m)
  BY <1>1, <1>6, <1>8 DEF Turned
<1>10. ASSUME NEW n \in L, NEW s \in Sides, IsRed(r, n), IsRed(r, Child(r, s, n))
       PROVE  Child(r, s, n) = next
  <2>1. n # top
    BY <1>2, <1>7, <1>10
  <2>2. ~IsRed(r, top)
    BY <1>2, <1>7
  <2>3. CASE n = grandparent
    <3>1. CASE s = side
      <4>1. Child(r, s, n) = middle /\ middle \in L \cup {null} /\ middle = Child(o, Other(side), top)
        BY <1>1, <1>3, <1>6, <1>9, <2>1, <2>3, <3>1
      <4>2. middle # next /\ ~IsRed(o, middle)
        BY <1>1, <1>2, <1>4, <4>1 DEF OnlyClash
      <4>3. middle # grandparent
        <5>1. grandparent \notin Below(e, top)
          BY <1>1, ChildFacts
        <5>2. middle # null => middle \in Below(e, top)
          BY <1>1, <4>1, ChildFacts
        <5> QED BY <1>1, <5>1, <5>2
      <4> QED BY <1>7, <1>10, <4>1, <4>2, <4>3
    <3>2. CASE s = Other(side)
      <4>1. Parent(o, grandparent) # grandparent
        BY <1>1, ParentFacts
      <4>2. Child(r, s, n) = Child(o, s, n)
        BY <1>1, <1>9, <2>1, <2>3, <3>2, <4>1
      <4>3. Child(o, s, n) \in L \cup {null} /\ Child(o, s, n) # grandparent
        BY <1>1, <1>3, <2>3, ChildFacts
      <4>4. ~IsRed(o, Child(o, s, n))
        BY <2>3, <3>2
      <4> QED BY <1>7, <1>10, <4>2, <4>3, <4>4
    <3> QED BY <1>1, <3>1, <3>2
  <2>4. CASE n # grandparent
    <3>1. IsRed(o, n)
      BY <1>7, <1>10, <2>4
    <3>2. ~(Parent(o, grandparent) # null /\ s = SideOf(o, grandparent) /\ n = Parent(o, grandparent))
      BY <1>9, <1>10, <2>1, <2>2, <2>4
    <3>3. Child(r, s, n) = Child(o, s, n) /\ Child(o, s, n) \in L \cup {null}
      BY <1>3, <1>9, <2>1, <2>4, <3>2
    <3>4. Child(o, s, n) # grandparent
      BY <1>1, <3>2, OnePlace
    <3>5. IsRed(o, Child(o, s, n))
      BY <1>7, <1>10, <3>3, <3>4
    <3> QED BY <1>4, <3>1, <3>3, <3>5 DEF OnlyClash
  <2> QED BY <2>3, <2>4
<1>11. OnlyClash(r, L, next)
  BY <1>10 DEF OnlyClash
<1>12. \E c : Weighed(r, L, Weights(r), c)
  <2>1. PICK b : Weighed(o, L, Weights(o), b)
    BY <1>4
  <2>2. black \in Heaps /\ Shape(black, L, e, key)
    BY SameTreeShape DEF SameTree
  <2>3. Weighed(black, L, Weights(o), b)
    BY <1>6, <2>1 DEF Weighed
  <2>4. Weights(o)[top] = 0
    BY <1>1, RedFacts
  <2>5. ASSUME NEW n \in L
        PROVE  Weights(r)[n] = IF n = top THEN Weights(o)[grandparent]
                               ELSE IF n = grandparent THEN 0 ELSE Weights(o)[n]
    BY <1>1, <1>2, <1>5, <1>7, RedFacts
  <2>6. top = Child(black, Other(Other(side)), grandparent) /\ top # null
    BY <1>1, <1>6
  <2> QED BY <1>1, <2>2, <2>3, <2>4, <2>5, <2>6, TurnWeighed
<1> QED BY <1>11, <1>12 DEF Even

\* A black grandparent gives its black to two red children: the clash climbs.
LEMMA RecolorEven ==
  ASSUME NEW h \in Heaps, NEW L, NEW d, NEW key \in [Nodes -> Nat], Shape(h, L, d, key),
         NEW node \in L, NEW parent \in L, parent = Parent(h, node),
         NEW grandparent \in L, grandparent = Parent(h, parent),
         NEW side, side = SideOf(h, parent),
         NEW uncle, uncle = Child(h, Other(side), grandparent), IsRed(h, uncle),
         IsRed(h, parent), Even(h, L, node),
         NEW r, SameTree(r, h),
         \A m \in Nodes : Color(r, m) = IF m = grandparent THEN "RED" ELSE IF m = uncle THEN "BLACK"
                                        ELSE IF m = parent THEN "BLACK" ELSE Color(h, m)
  PROVE  IsRed(r, grandparent) /\ Even(r, L, grandparent)
<1>1. /\ L \subseteq Nodes /\ null \notin L
      /\ \A n \in L, s \in Sides : Child(h, s, n) \in L \cup {null}
  BY NullFacts DEF Shape, Searchable
<1>2. /\ side \in Sides /\ Child(h, side, grandparent) = parent
      /\ grandparent # parent /\ parent # node
      /\ Other(side) \in Sides /\ Other(side) # side /\ \A s \in Sides : s = side \/ s = Other(side)
  BY <1>1, ParentFacts, SidesFacts
<1>3. uncle \in L /\ uncle # grandparent /\ uncle # parent /\ Parent(h, uncle) = grandparent
  <2>1. uncle # null /\ uncle \in L
    BY <1>1, <1>2, RedFacts
  <2> QED BY <1>1, <1>2, <2>1, ChildFacts
<1>4. OnlyClash(h, L, node) /\ \E b : Weighed(h, L, Weights(h), b)
  BY DEF Even
<1>5. ~IsRed(h, grandparent)
  <2>1. IsRed(h, grandparent) => Child(h, side, grandparent) = node
    BY <1>2, <1>4 DEF OnlyClash
  <2> QED BY <1>2, <2>1
<1>6. /\ \A n : n \in L \cup {null} =>
           (IsRed(r, n) <=> n = grandparent \/ (n # parent /\ n # uncle /\ IsRed(h, n)))
      /\ \A n, s : n \in L /\ s \in Sides => Child(r, s, n) = Child(h, s, n)
  BY <1>1, <1>2, <1>3, RedFacts DEF SameTree, SameChildren
<1>7. ASSUME NEW n \in L, NEW s \in Sides, n # grandparent
      PROVE  Child(h, s, n) # parent /\ Child(h, s, n) # uncle
  BY <1>1, <1>3, <1>7, OnePlace
<1>8. ASSUME NEW n \in L, NEW s \in Sides, IsRed(r, n), IsRed(r, Child(r, s, n)), Child(r, s, n) # grandparent
      PROVE  FALSE
  <2>1. Child(r, s, n) = Child(h, s, n) /\ Child(h, s, n) \in L \cup {null}
    BY <1>1, <1>6
  <2>2. IsRed(h, Child(h, s, n)) /\ Child(h, s, n) # parent /\ Child(h, s, n) # uncle
    BY <1>6, <1>8, <2>1
  <2>3. n # grandparent
    BY <1>2, <2>2
  <2>4. IsRed(h, n) /\ n # parent
    BY <1>6, <1>8, <2>3
  <2>5. Child(h, s, n) = node
    BY <1>4, <2>2, <2>4 DEF OnlyClash
  <2>6. Parent(h, node) = n
    BY <2>5, OnePlace
  <2> QED BY <2>4, <2>6
<1>9. OnlyClash(r, L, grandparent)
  BY <1>8 DEF OnlyClash
<1>10. PICK b : Weighed(h, L, Weights(h), b)
  BY <1>4
<1> DEFINE w == Weights(h)
           v == Weights(r)
           c == [b EXCEPT ![parent] = b[parent] + 1, ![uncle] = b[uncle] + 1]
<1>11. /\ b \in [Nodes \cup {null} -> Int] /\ b[null] = 0
       /\ \A n \in L : b[n] \in Nat /\ w[n] \in Int
       /\ \A n, s : n \in L /\ s \in Sides => b[n] = b[Child(h, s, n)] + w[n]
  BY <1>10 DEF Weighed
<1>12. /\ w[parent] = 0 /\ w[uncle] = 0 /\ w[grandparent] = 1
       /\ v[parent] = 1 /\ v[uncle] = 1 /\ v[grandparent] = 0
       /\ \A n \in L : n \notin {parent, uncle, grandparent} => v[n] = w[n]
  BY <1>1, <1>2, <1>3, <1>5, <1>6, RedFacts
<1> HIDE DEF w, v
<1>13. /\ c \in [Nodes \cup {null} -> Int] /\ c[null] = 0
       /\ c[parent] = b[parent] + 1 /\ c[uncle] = b[uncle] + 1
       /\ \A n \in L \cup {null} : n # parent /\ n # uncle => c[n] = b[n]
       /\ \A n \in L : c[n] \in Nat
  BY <1>1, <1>3, <1>11
<1> HIDE DEF c
<1>14. ASSUME NEW n \in L, NEW s \in Sides PROVE c[n] = c[Child(r, s, n)] + v[n]
  <2>1. Child(r, s, n) = Child(h, s, n) /\ Child(h, s, n) \in L \cup {null}
    BY <1>1, <1>6
  <2>2. b[n] = b[Child(h, s, n)] + w[n] /\ b[Child(h, s, n)] \in Int /\ b[n] \in Int
    BY <1>1, <1>11, <2>1
  <2>3. CASE n = grandparent
    <3>1. Child(h, s, n) = parent \/ Child(h, s, n) = uncle
      BY <1>2, <2>3
    <3>2. c[Child(h, s, n)] = b[Child(h, s, n)] + 1
      BY <1>13, <3>1
    <3>3. c[n] = b[n]
      BY <1>2, <1>3, <1>13, <2>3
    <3> QED BY <1>12, <2>1, <2>2, <2>3, <3>2, <3>3
  <2>4. CASE n # grandparent
    <3>1. c[Child(h, s, n)] = b[Child(h, s, n)]
      BY <1>7, <1>13, <2>1, <2>4
    <3>2. (c[n] = b[n] /\ v[n] = w[n]) \/ (c[n] = b[n] + 1 /\ v[n] = 1 /\ w[n] = 0)
      BY <1>12, <1>13, <2>4
    <3> QED BY <2>1, <2>2, <3>1, <3>2
  <2> QED BY <2>3, <2>4
<1>15. \A n \in L : v[n] \in Int
  BY <1>11, <1>12
<1>16. Weighed(r, L, v, c)
  BY <1>13, <1>14, <1>15 DEF Weighed
<1> QED BY <1>6, <1>9, <1>16 DEF Even, v

\* The last assignment of insert_fixup.
LEMMA RootBlackened ==
  ASSUME NEW h \in Heaps, NEW L, NEW d, NEW key \in [Nodes -> Nat], Shape(h, L, d, key),
         NEW x \in L, Parent(h, x) = null \/ ~IsRed(h, Parent(h, x)), Even(h, L, x),
         NEW root \in L, root = Root(h), NEW r, SameTree(r, h),
         \A m \in Nodes : Color(r, m) = IF m = root THEN "BLACK" ELSE Color(h, m)
  PROVE  ~IsRed(r, root) /\ Even(r, L, null)
<1>1. /\ L \subseteq Nodes /\ null \notin L
      /\ \A n \in L, s \in Sides : Child(h, s, n) \in L \cup {null}
  BY NullFacts DEF Shape, Searchable
<1>2. Parent(h, root) = null
  BY <1>1 DEF Shape, Rooted
<1>3. OnlyClash(h, L, x)
  BY DEF Even
<1>4. /\ \A n : n \in L \cup {null} => (IsRed(r, n) <=> n # root /\ IsRed(h, n))
      /\ \A n, s : n \in L /\ s \in Sides => Child(r, s, n) = Child(h, s, n)
  BY <1>1, RedFacts DEF SameTree, SameChildren
<1>5. ASSUME NEW n \in L, NEW s \in Sides PROVE Child(h, s, n) # root
  BY <1>1, <1>2, OnePlace
<1>6. OnlyClash(r, L, null)
  <2>1. SUFFICES ASSUME NEW n \in L, NEW s \in Sides, IsRed(r, n), IsRed(r, Child(r, s, n)) PROVE FALSE
    BY DEF OnlyClash
  <2>2. IsRed(h, n) /\ IsRed(h, Child(h, s, n))
    BY <1>1, <1>4, <2>1
  <2>3. Child(h, s, n) = x
    BY <1>3, <2>2 DEF OnlyClash
  <2>4. Parent(h, x) = n
    BY <2>3, OnePlace
  <2> QED BY <1>1, <2>2, <2>4
<1>7. PICK b : Weighed(h, L, Weights(h), b)
  BY DEF Even
<1> DEFINE w == Weights(h)
           v == Weights(r)
           c == [b EXCEPT ![root] = b[root] + (1 - w[root])]
<1>8. /\ b \in [Nodes \cup {null} -> Int] /\ b[null] = 0
      /\ \A n \in L : b[n] \in Nat /\ w[n] \in Int
      /\ \A n, s : n \in L /\ s \in Sides => b[n] = b[Child(h, s, n)] + w[n]
  BY <1>7 DEF Weighed
<1>9. /\ w[root] = 0 \/ w[root] = 1
      /\ v[root] = 1 /\ \A n \in L : n # root => v[n] = w[n]
  BY <1>1, <1>4, RedFacts
<1> HIDE DEF w, v
<1>10. /\ c \in [Nodes \cup {null} -> Int] /\ c[null] = 0
       /\ c[root] = b[root] + (1 - w[root])
       /\ \A n \in L \cup {null} : n # root => c[n] = b[n]
       /\ \A n \in L : c[n] \in Nat
  BY <1>1, <1>8, <1>9
<1> HIDE DEF c
<1>11. ASSUME NEW n \in L, NEW s \in Sides PROVE c[n] = c[Child(r, s, n)] + v[n]
  <2>1. Child(r, s, n) = Child(h, s, n) /\ Child(h, s, n) \in L \cup {null}
    BY <1>1, <1>4
  <2>2. b[n] = b[Child(h, s, n)] + w[n] /\ b[Child(h, s, n)] \in Int /\ b[n] \in Int
    BY <1>1, <1>8, <2>1
  <2>3. c[Child(h, s, n)] = b[Child(h, s, n)]
    BY <1>5, <1>10, <2>1
  <2>4. CASE n = root
    BY <1>9, <1>10, <2>1, <2>2, <2>3, <2>4
  <2>5. CASE n # root
    BY <1>9, <1>10, <2>1, <2>2, <2>3, <2>5
  <2> QED BY <2>4, <2>5
<1>12. \A n \in L : v[n] \in Int
  BY <1>8, <1>9
<1>13. Weighed(r, L, v, c)
  BY <1>10, <1>11, <1>12 DEF Weighed
<1> QED BY <1>4, <1>6, <1>13 DEF Even, v


\* The loop of insert_fixup goes on, at a node; the root is black or that node.
Climbs(h, n) == ~Faulty(h) /\ Parent(h, n) # null /\ Color(h, Parent(h, n)) = "RED"

BlackRoot(h) == Root(h) # null /\ Color(h, Root(h)) = "BLACK"

\* A red-black tree but for the red node n, whose parent may be red.
Poised(h, L, n) == IsRed(h, n) /\ Even(h, L, n)

\* A step either recolours and climbs, or rotates and is the last one.
LEMMA InsertStepKeeps ==
  ASSUME NEW h \in Heaps, NEW L, NEW d, NEW key \in [Nodes -> Nat], Shape(h, L, d, key),
         NEW node \in L, node = Root(h) \/ BlackRoot(h), Climbs(h, node)
  PROVE  \E g \in Heaps, n \in L :
           /\ InsertStep(h, node) = <<g, n>>
           /\ ~Faulty(g) /\ (n = Root(g) \/ BlackRoot(g))
           /\ Poised(h, L, node) => Poised(g, L, n)
           /\ \/ SameTree(g, h) /\ n = Parent(h, Parent(h, node)) /\ Parent(h, Parent(h, node)) # null
              \/ ~Climbs(g, n) /\ \E e : Shape(g, L, e, key)
<1> DEFINE parent      == Parent(h, node)
           grandparent == Parent(h, parent)
           side        == SideOf(h, parent)
           uncle       == Child(h, Other(side), grandparent)
           outer       == TurnOut(h, node, parent, side)
           top         == Child(outer, side, grandparent)
           next        == IF top = parent THEN node ELSE parent
           painted     == Paint(Paint(Paint(h, parent, "BLACK"), uncle, "BLACK"), grandparent, "RED")
           black       == Paint(Paint(outer, top, "BLACK"), grandparent, "RED")
           risen       == Rotate(black, grandparent, Other(side))
<1>1. InsertStep(h, node) = IF grandparent = null THEN <<Fault(h), node>>
                            ELSE IF IsRed(h, uncle) THEN <<painted, grandparent>>
                            ELSE <<risen, next>>
  BY Zenon DEF InsertStep, Recolor, Parent, Child
<1> HIDE DEF parent, grandparent, side, uncle, outer, top, next, painted, black, risen
<1>2. L \subseteq Nodes /\ null \notin L /\ ~Faulty(h)
  BY NullFacts DEF Shape, Climbs
<1>3. /\ parent = Parent(h, node) /\ parent \in L /\ parent # node /\ node # Root(h)
      /\ Color(h, parent) = "RED"
  BY <1>2, ParentFacts DEF Climbs, parent
<1>4. BlackRoot(h) /\ parent # Root(h)
  BY <1>3 DEF BlackRoot
<1>5. grandparent \in L /\ grandparent = Parent(h, parent)
  BY <1>3, <1>4, <1>2 DEF grandparent, Shape, Doubled
<1>6. /\ side \in Sides /\ side = SideOf(h, parent) /\ Child(h, side, grandparent) = parent
      /\ grandparent # parent /\ Other(side) \in Sides /\ Other(Other(side)) = side
  BY <1>2, <1>3, <1>5, ParentFacts, SidesFacts DEF side
<1>7. "BLACK" \in Colors /\ "RED" \in Colors /\ "BLACK" # "RED"
  BY DEF Colors
<1>8. CASE IsRed(h, uncle)
  <2>1. uncle \in L /\ uncle # parent /\ uncle # grandparent
    BY <1>2, <1>3, <1>5, <1>6, <1>8, ChildFacts DEF uncle, IsRed, Shape, Searchable
  <2>2. /\ SameTree(painted, h)
        /\ \A m \in Nodes : Color(painted, m) =
             IF m = grandparent THEN "RED" ELSE IF m = uncle THEN "BLACK"
             ELSE IF m = parent THEN "BLACK" ELSE Color(h, m)
    BY <1>7, ThricePainted DEF painted
  <2>3. grandparent = Root(painted) \/ BlackRoot(painted)
    BY <1>2, <1>4, <2>2, HeapFacts DEF SameTree, BlackRoot
  <2>4. InsertStep(h, node) = <<painted, grandparent>>
    BY <1>1, <1>2, <1>5, <1>8
  <2>5. ASSUME Poised(h, L, node) PROVE Poised(painted, L, grandparent)
    <3>1. uncle = Child(h, Other(side), grandparent) /\ IsRed(h, parent)
      BY <1>2, <1>3, RedFacts DEF uncle
    <3> QED BY <1>3, <1>5, <1>6, <1>8, <2>2, <2>5, <3>1, RecolorEven DEF Poised
  <2> QED BY <1>2, <1>5, <2>2, <2>3, <2>4, <2>5 DEF SameTree, parent, grandparent
<1>9. CASE ~IsRed(h, uncle)
  <2>1. /\ outer \in Heaps /\ Root(outer) = Root(h) /\ Faulty(outer) = Faulty(h)
        /\ SameColors(outer, h)
        /\ top \in L /\ next \in L /\ Child(outer, side, top) = next
        /\ outer = TurnOut(h, node, parent, side) /\ top = Child(outer, side, grandparent)
    <3>1. /\ outer = TurnOut(h, node, parent, side) /\ top = Child(outer, side, grandparent)
          /\ next = IF top = parent THEN node ELSE parent
      BY DEF outer, top, next
    <3> QED BY <1>3, <1>5, <1>6, <3>1, TurnOutShape
  <2>2. PICK e : Shape(outer, L, e, key)
    BY <1>3, <1>5, <1>6, TurnOutShape DEF outer
  <2>3. /\ SameTree(black, outer)
        /\ \A m \in Nodes : Color(black, m) =
             IF m = grandparent THEN "RED" ELSE IF m = top THEN "BLACK" ELSE Color(outer, m)
    BY <1>7, <2>1, TwicePainted DEF black
  <2>4. black \in Heaps /\ Shape(black, L, e, key)
    BY <2>1, <2>2, <2>3, SameTreeShape DEF SameTree
  <2>5. /\ top = Child(black, side, grandparent) /\ Child(black, side, top) = next
        /\ Root(black) = Root(h)
    BY <1>2, <1>5, <1>6, <2>1, <2>3 DEF SameTree, SameChildren
  <2>6. top # grandparent /\ next # top /\ next # grandparent /\ Parent(black, next) = top
        /\ next # Child(black, Other(side), top)
    <3>1. top # grandparent /\ grandparent \notin Below(e, top)
      BY <1>2, <1>5, <1>6, <2>1, <2>4, <2>5, ChildFacts
    <3>2. /\ next # top /\ Parent(black, next) = top /\ next \in Below(e, top)
          /\ next # Child(black, Other(side), top)
      BY <1>2, <1>6, <2>1, <2>4, <2>5, ChildFacts
    <3> QED BY <3>1, <3>2
  <2>7. PICK f : Shape(risen, L, f, key)
    BY <1>2, <1>5, <1>6, <2>1, <2>4, <2>5, RotateShape DEF risen
  <2>8. Turned(risen, black, grandparent, top, Child(black, Other(side), top), Other(side))
    BY <1>2, <1>5, <1>6, <2>1, <2>4, <2>5, RotateShape DEF risen
  <2>9. Parent(risen, next) = top /\ Color(risen, top) = "BLACK" /\ ~Faulty(risen) /\ risen \in Heaps
    BY <1>2, <2>1, <2>3, <2>6, <2>8 DEF Turned, SameColors, SameTree
  <2>10. BlackRoot(risen)
    <3>1. CASE Parent(black, grandparent) = null
      BY <1>2, <2>1, <2>8, <2>9, <3>1 DEF Turned, BlackRoot
    <3>2. CASE Parent(black, grandparent) # null
      <4>1. Root(risen) = Root(h)
        BY <2>5, <2>8, <3>2 DEF Turned
      <4>2. Root(h) # grandparent /\ Root(h) \in Nodes
        BY <1>4, <2>4, <2>5, <3>2, HeapFacts DEF Shape, Rooted, BlackRoot
      <4>3. Color(risen, Root(h)) = "BLACK"
        BY <1>4, <2>1, <2>3, <2>8, <4>2 DEF Turned, SameColors, BlackRoot
      <4> QED BY <1>4, <4>1, <4>3 DEF BlackRoot
    <3> QED BY <3>1, <3>2
  <2>11. ~Climbs(risen, next)
    BY <1>7, <2>9 DEF Climbs
  <2>12. InsertStep(h, node) = <<risen, next>>
    BY <1>1, <1>2, <1>5, <1>9
  <2>13. ASSUME Poised(h, L, node) PROVE Poised(risen, L, next)
    <3>1. IsRed(h, node) /\ IsRed(h, parent) /\ Even(h, L, node)
      BY <1>2, <1>3, <2>13, RedFacts DEF Poised
    <3>2. /\ outer = TurnOut(h, node, parent, side) /\ top = Child(outer, side, grandparent)
          /\ next = IF top = parent THEN node ELSE parent
          /\ uncle = Child(h, Other(side), grandparent)
      BY DEF outer, top, next, uncle
    <3>3. /\ IsRed(outer, next) /\ IsRed(outer, top) /\ Even(outer, L, next)
          /\ Child(outer, Other(side), grandparent) = uncle
      BY <1>3, <1>5, <1>6, <3>1, <3>2, TurnOutEven
    <3>4. ~IsRed(outer, uncle)
      <4>1. uncle \in Nodes \cup {null}
        BY <1>2, <1>5, <1>6, <3>2, HeapFacts
      <4> QED BY <1>9, <2>1, <4>1, RedFacts DEF SameColors
    <3>5. Even(risen, L, next)
      <4> DEFINE middle == Child(black, Other(side), top)
      <4>1. Turned(risen, black, grandparent, top, middle, Other(side))
        BY <2>8
      <4>2. next = Child(outer, side, top) /\ ~IsRed(outer, Child(outer, Other(side), grandparent))
        BY <2>1, <3>3, <3>4
      <4>3. \A m \in Nodes : Color(black, m) =
              IF m = grandparent THEN "RED" ELSE IF m = top THEN "BLACK" ELSE Color(outer, m)
        BY <2>3
      <4>4. middle = Child(black, Other(side), top)
        OBVIOUS
      <4> HIDE DEF middle
      <4>5. outer \in Heaps /\ key \in [Nodes -> Nat] /\ Shape(outer, L, e, key)
        BY <2>1, <2>2
      <4>6. SameTree(black, outer)
        BY <2>3
      <4>7. top \in L /\ next \in L /\ top = Child(outer, side, grandparent)
        BY <2>1
      <4>8. grandparent \in L /\ side \in Sides
        BY <1>5, <1>6
      <4>9. IsRed(outer, top) /\ Even(outer, L, next)
        BY <3>3
      <4> QED BY ONLY <4>1, <4>2, <4>3, <4>4, <4>5, <4>6, <4>7, <4>8, <4>9, RiseEven
    <3>6. IsRed(risen, next)
      <4>1. next \in Nodes /\ next # null /\ Color(outer, next) = "RED"
        BY <1>2, <2>1, <3>3, RedFacts
      <4>2. Color(black, next) = "RED"
        BY <2>3, <2>6, <4>1
      <4>3. Color(risen, next) = "RED"
        BY <2>8, <4>1, <4>2 DEF Turned, SameColors
      <4> QED BY <4>1, <4>3, RedFacts
    <3> QED BY <3>5, <3>6 DEF Poised
  <2> QED BY <2>1, <2>7, <2>9, <2>10, <2>11, <2>12, <2>13
<1> QED BY <1>8, <1>9


\* Whatever the heap.
LEMMA RotateType ==
  ASSUME NEW h \in Heaps, NEW node \in Nodes, NEW side \in Sides
  PROVE  Rotate(h, node, side) \in Heaps
<1> DEFINE up == Child(h, Other(side), node)
           l == Relink(h, node, up)
           a == Adopt(l, Child(h, side, up), node)
<1>1. up \in Nodes \cup {null} /\ node \in Nodes \cup {null}
  BY SidesFacts, HeapFacts
<1>2. CASE up = null
  BY <1>2 DEF Rotate, Child, Fault, Heaps
<1>3. CASE up # null
  <2>1. Rotate(h, node, side) = RotateUp(h, node, up, side)
    BY <1>3 DEF Rotate, Child
  <2>2. RotateUp(h, node, up, side) = Exchange(a, node, up, side)
    BY Zenon DEF RotateUp, Child
  <2>3. up \in Nodes /\ Child(h, side, up) \in Nodes \cup {null}
    BY <1>1, <1>3, HeapFacts
  <2> HIDE DEF up, l, a
  <2>4. l \in Heaps
    BY <1>1, RelinkWrites DEF Relinked, l
  <2>5. a \in Heaps
    BY <1>1, <2>3, <2>4, AdoptWrites DEF ParentSet, a
  <2>6. Exchange(a, node, up, side) \in Heaps
    BY <2>3, <2>5, ExchangeWrites DEF Exchanged
  <2> QED BY <2>1, <2>2, <2>6
<1> QED BY <1>2, <1>3

LEMMA InsertStepType ==
  ASSUME NEW h \in Heaps, NEW node \in Nodes, Parent(h, node) # null
  PROVE  InsertStep(h, node) \in Heaps \X Nodes
<1> DEFINE parent      == Parent(h, node)
           grandparent == Parent(h, parent)
           side        == SideOf(h, parent)
           uncle       == Child(h, Other(side), grandparent)
           outer       == TurnOut(h, node, parent, side)
           top         == Child(outer, side, grandparent)
           next        == IF top = parent THEN node ELSE parent
           painted     == Paint(Paint(Paint(h, parent, "BLACK"), uncle, "BLACK"), grandparent, "RED")
           black       == Paint(Paint(outer, top, "BLACK"), grandparent, "RED")
           risen       == Rotate(black, grandparent, Other(side))
<1>1. InsertStep(h, node) = IF grandparent = null THEN <<Fault(h), node>>
                            ELSE IF IsRed(h, uncle) THEN <<painted, grandparent>>
                            ELSE <<risen, next>>
  BY Zenon DEF InsertStep, Recolor, Parent, Child
<1> HIDE DEF parent, grandparent, side, uncle, outer, top, next, painted, black, risen
<1>2. parent \in Nodes /\ grandparent \in Nodes \cup {null}
  BY HeapFacts DEF parent, grandparent
<1>3. side \in Sides /\ Other(side) \in Sides /\ "RED" \in Colors /\ "BLACK" \in Colors
  BY DEF side, SideOf, Sides, Other, Colors
<1>4. Fault(h) \in Heaps
  BY DEF Fault, Heaps
<1>5. painted \in Heaps
  BY <1>3, ThricePainted DEF painted, SameTree
<1>6. outer \in Heaps
  BY <1>2, <1>3, RotateType DEF outer, TurnOut
<1>7. black \in Heaps
  BY <1>3, <1>6, TwicePainted DEF black, SameTree
<1>8. next \in Nodes
  BY <1>2 DEF next
<1>9. grandparent # null => risen \in Heaps
  BY <1>2, <1>3, <1>7, RotateType DEF risen
<1> QED BY <1>1, <1>2, <1>4, <1>5, <1>8, <1>9

Balanced(r, L, key) ==
  r \in Heaps /\ ~Faulty(r) /\ BlackRoot(r) /\ \E d : Shape(r, L, d, key)

\* What IsRedBlack tests, as a ghost.
Colored(r, L) == ~IsRed(r, Root(r)) /\ Even(r, L, null)

\* insert_fixup never meets a null grandparent: it ends, on a search tree of the
\* same nodes whose root is black; and the tree is red-black if only the node's
\* colour was wrong.
LEMMA InsertFixupShape ==
  ASSUME NEW h \in Heaps, NEW L, NEW d, NEW key \in [Nodes -> Nat], Shape(h, L, d, key),
         ~Faulty(h), NEW node \in L, node = Root(h) \/ BlackRoot(h)
  PROVE  /\ Balanced(InsertFixup(h, node), L, key)
         /\ Poised(h, L, node) => Colored(InsertFixup(h, node), L)
<1> DEFINE S == Heaps \X Nodes
           more == {s \in S : Climbs(s[1], s[2])}
           body == [s \in more |-> InsertStep(s[1], s[2])]
           Open(g, n) == SameTree(g, h) \/ (~Climbs(g, n) /\ \E e : Shape(g, L, e, key))
           Inv == {s \in S : /\ s[2] \in L /\ ~Faulty(s[1])
                             /\ s[2] = Root(s[1]) \/ BlackRoot(s[1])
                             /\ Poised(h, L, node) => Poised(s[1], L, s[2])
                             /\ Open(s[1], s[2])}
           left == [s \in Inv |-> L \ Below(d, s[2])]
           end == Loop(S, body)[<<h, node>>]
<1>1. L \subseteq Nodes /\ null \notin L /\ L # {}
  BY NullFacts DEF Shape
<1>2. IsFiniteSet(L)
  BY <1>1, NodesAssumption, FS_Subset
<1>3. ASSUME NEW g \in Heaps, NEW n \in L, ~Faulty(g), n = Root(g) \/ BlackRoot(g),
             Poised(h, L, node) => Poised(g, L, n), Open(g, n)
      PROVE  <<g, n>> \in Inv
  BY <1>1, <1>3
<1>4. InsertFixup(h, node) = Paint(end[1], Root(end[1]), "BLACK")
  <2>1. {s \in S : ~s[1].fault /\ IsRed(s[1], s[1].parent[s[2]])} = more
    BY DEF Climbs, IsRed, Faulty, Parent, Color
  <2> QED BY <2>1 DEF InsertFixup, Root
<1>5. ASSUME NEW s \in Inv \cap more
      PROVE  /\ body[s] \in Inv
             /\ body[s] \in more => left[body[s]] \subseteq left[s] /\ left[body[s]] # left[s]
  <2>1. PICK g \in Heaps, n \in L : s = <<g, n>> /\ ~Faulty(g) /\ (n = Root(g) \/ BlackRoot(g))
                                    /\ Climbs(g, n) /\ SameTree(g, h)
                                    /\ (Poised(h, L, node) => Poised(g, L, n))
    BY <1>5
  <2>2. Shape(g, L, d, key)
    BY <2>1, SameTreeShape
  <2>3. PICK g2 \in Heaps, n2 \in L :
          /\ InsertStep(g, n) = <<g2, n2>> /\ ~Faulty(g2) /\ (n2 = Root(g2) \/ BlackRoot(g2))
          /\ Poised(g, L, n) => Poised(g2, L, n2)
          /\ \/ SameTree(g2, g) /\ n2 = Parent(g, Parent(g, n)) /\ Parent(g, Parent(g, n)) # null
             \/ ~Climbs(g2, n2) /\ \E e : Shape(g2, L, e, key)
    BY <2>1, <2>2, InsertStepKeeps
  <2>4. body[s] = <<g2, n2>>
    BY <2>1, <2>3
  <2>5. SameTree(g2, g) => SameTree(g2, h)
    BY <2>1 DEF SameTree, SameParents, SameChildren
  <2>6. Open(g2, n2)
    BY <2>3, <2>5
  <2>7. <<g2, n2>> \in Inv
    BY <1>3, <2>1, <2>3, <2>6
  <2>8. ASSUME <<g2, n2>> \in more
        PROVE  left[<<g2, n2>>] \subseteq left[s] /\ left[<<g2, n2>>] # left[s]
    <3>1. n2 = Parent(g, Parent(g, n)) /\ Parent(g, Parent(g, n)) # null
      BY <2>3, <2>8
    <3>2. PICK p \in L : /\ p = Parent(g, n) /\ p # null /\ Below(d, n) \subseteq Below(d, p)
      BY <2>1, <2>2, ClimbFact DEF Climbs
    <3>3. Below(d, p) \subseteq Below(d, n2) /\ n2 \in Below(d, n2) /\ n2 \notin Below(d, p)
      BY <2>2, <3>1, <3>2, ClimbFact
    <3>4. left[<<g2, n2>>] = L \ Below(d, n2) /\ left[s] = L \ Below(d, n)
      BY <2>1, <2>7
    <3> QED BY <3>2, <3>3, <3>4
  <2> QED BY <2>4, <2>7, <2>8
<1>6. body \in [more -> S]
  <2>1. ASSUME NEW s \in more PROVE InsertStep(s[1], s[2]) \in S
    BY InsertStepType DEF Climbs
  <2> QED BY <2>1
<1>7. <<h, node>> \in Inv
  BY <1>3 DEF SameTree, SameParents, SameChildren
<1>8. left \in [Inv -> SUBSET L]
  OBVIOUS
<1>9. more \in SUBSET S /\ Inv \in SUBSET S
  OBVIOUS
<1> HIDE DEF S, more, body, Inv, left
<1>10. end \in Inv \ more
  <2>1. Advances(S, more, body, Inv, L, left)
    BY <1>2, <1>5, <1>6, <1>8, <1>9 DEF Advances
  <2> QED BY <1>7, <2>1, LoopEnds
<1> HIDE DEF end
<1>11. PICK g \in Heaps, n \in L : end = <<g, n>> /\ ~Faulty(g) /\ (n = Root(g) \/ BlackRoot(g))
                                  /\ ~Climbs(g, n) /\ Open(g, n)
                                  /\ (Poised(h, L, node) => Poised(g, L, n))
  <2>1. end \in S /\ end \in Inv /\ end \notin more
    BY <1>9, <1>10
  <2> QED BY <2>1 DEF S, Inv, more
<1>12. \E e : Shape(g, L, e, key)
  BY <1>11, SameTreeShape
<1>13. InsertFixup(h, node) = Paint(g, Root(g), "BLACK")
  BY <1>4, <1>11
<1>14. "BLACK" \in Colors /\ Root(g) \in Nodes
  BY <1>1, <1>11, <1>12, HeapFacts, NullFacts DEF Colors, BlackRoot, Shape
<1>15. SameTree(Paint(g, Root(g), "BLACK"), g) /\ Color(Paint(g, Root(g), "BLACK"), Root(g)) = "BLACK"
  BY <1>14, PaintTree, PaintColor
<1>16. Balanced(InsertFixup(h, node), L, key)
  BY <1>11, <1>12, <1>13, <1>14, <1>15, SameTreeShape, NullFacts DEF Balanced, SameTree, BlackRoot
<1>17. ASSUME Poised(h, L, node) PROVE Colored(InsertFixup(h, node), L)
  <2>1. PICK e : Shape(g, L, e, key)
    BY <1>12
  <2>2. Even(g, L, n) /\ (Parent(g, n) = null \/ ~IsRed(g, Parent(g, n)))
    BY <1>11, <1>17, RedFacts DEF Poised, Climbs
  <2>3. Root(g) \in L
    BY <1>14, <2>1, NullFacts DEF Shape, Rooted
  <2> DEFINE root == Root(g)
             r == Paint(g, root, "BLACK")
  <2>4. root \in L /\ root = Root(g) /\ SameTree(r, g)
        /\ \A m \in Nodes : Color(r, m) = IF m = root THEN "BLACK" ELSE Color(g, m)
    BY <1>14, <2>3, PaintTree, PaintColor
  <2>5. Root(r) = root
    BY <2>4 DEF SameTree
  <2> HIDE DEF root, r
  <2>6. ~IsRed(r, root) /\ Even(r, L, null)
    BY <1>11, <2>1, <2>2, <2>4, RootBlackened
  <2> QED BY <1>13, <2>4, <2>5, <2>6 DEF Colored, r
<1> QED BY <1>16, <1>17

-----------------------------------------------------------------------------
LEMMA LiftShape ==
  ASSUME NEW h \in Heaps, NEW L, NEW d, NEW key \in [Nodes -> Nat], Shape(h, L, d, key),
         NEW parent \in L, NEW side \in Sides,
         NEW node, node = Child(h, side, parent), node # null, NEW o, o = Lift(h, parent, side)
  PROVE  /\ o \in Heaps /\ Faulty(o) = Faulty(h) /\ \E e : Shape(o, L, e, key)
         /\ Child(o, side, parent) = node
         /\ o = h \/ (Color(o, parent) = "RED" /\ (BlackRoot(h) => BlackRoot(o)))
<1> DEFINE brother == Child(h, Other(side), parent)
           painted == Paint(Paint(h, brother, "BLACK"), parent, "RED")
<1>1. o = IF IsRed(h, brother) THEN Rotate(painted, parent, side) ELSE h
  BY DEF Lift, Child
<1> HIDE DEF brother, painted
<1>2. /\ L \subseteq Nodes /\ null \notin L /\ Other(side) \in Sides /\ Other(Other(side)) = side
      /\ Other(side) # side
      /\ "BLACK" \in Colors /\ "RED" \in Colors
  BY NullFacts, SidesFacts DEF Shape, Colors
<1>3. CASE IsRed(h, brother)
  <2>1. brother # null /\ brother = Child(h, Other(side), parent)
    BY <1>3 DEF IsRed, brother
  <2>2. /\ SameTree(painted, h)
        /\ \A m \in Nodes : Color(painted, m) =
             IF m = parent THEN "RED" ELSE IF m = brother THEN "BLACK" ELSE Color(h, m)
    BY <1>2, TwicePainted DEF painted
  <2>3. painted \in Heaps /\ Shape(painted, L, d, key)
    BY <2>2, SameTreeShape DEF SameTree
  <2>4. brother = Child(painted, Other(side), parent) /\ node = Child(painted, side, parent)
    BY <1>2, <2>1, <2>2 DEF SameTree, SameChildren
  <2>5. brother \in L /\ brother # parent /\ o = Rotate(painted, parent, side)
    BY <1>1, <1>2, <1>3, <2>1, <2>3, <2>4, ChildFacts
  <2>6. PICK e : Shape(o, L, e, key)
    BY <2>1, <2>3, <2>4, <2>5, RotateShape
  <2>7. Turned(o, painted, parent, brother, Child(painted, side, brother), side)
    BY <2>1, <2>3, <2>4, <2>5, RotateShape
  <2>8. Child(o, side, parent) = node
    <3>1. Parent(painted, parent) # parent
      BY <1>2, <2>3, ParentFacts
    <3> QED BY <1>2, <2>4, <2>5, <2>7, <3>1 DEF Turned
  <2>9. Color(o, parent) = "RED" /\ Faulty(o) = Faulty(h) /\ o \in Heaps
    BY <1>2, <2>2, <2>7 DEF Turned, SameColors, SameTree
  <2>10. ASSUME BlackRoot(h) PROVE BlackRoot(o)
    <3>1. CASE Parent(painted, parent) = null
      BY <1>2, <2>2, <2>5, <2>7, <3>1 DEF Turned, SameColors, BlackRoot
    <3>2. CASE Parent(painted, parent) # null
      <4>1. Root(o) = Root(h) /\ Root(h) # parent /\ Root(h) \in Nodes
        BY <2>2, <2>3, <2>7, <2>10, <3>2, HeapFacts DEF Turned, SameTree, BlackRoot, Shape, Rooted
      <4> QED BY <2>2, <2>7, <2>10, <4>1 DEF Turned, SameColors, BlackRoot
    <3> QED BY <3>1, <3>2
  <2> QED BY <2>6, <2>8, <2>9, <2>10
<1>4. CASE ~IsRed(h, brother)
  BY <1>1, <1>4
<1> QED BY <1>3, <1>4

LEMMA BendShape ==
  ASSUME NEW h \in Heaps, NEW L, NEW d, NEW key \in [Nodes -> Nat], Shape(h, L, d, key),
         NEW parent \in L, NEW side \in Sides,
         NEW sibling, sibling = Child(h, Other(side), parent), sibling # null,
         NEW s \in Sides, IsRed(h, Child(h, s, sibling)), NEW o, o = Bend(h, sibling, side)
  PROVE  /\ o \in Heaps /\ Faulty(o) = Faulty(h) /\ \E e : Shape(o, L, e, key)
         /\ Child(o, Other(side), parent) # null
<1> DEFINE near == Child(h, side, sibling)
           painted == Paint(Paint(h, near, "BLACK"), sibling, "RED")
<1>1. o = IF IsRed(h, Child(h, Other(side), sibling)) THEN h
          ELSE Rotate(painted, sibling, Other(side))
  BY DEF Bend, Child
<1> HIDE DEF near, painted
<1>2. /\ L \subseteq Nodes /\ null \notin L /\ Other(side) \in Sides /\ Other(Other(side)) = side
      /\ Other(side) # side
      /\ "BLACK" \in Colors /\ "RED" \in Colors
  BY NullFacts, SidesFacts DEF Shape, Colors
<1>3. CASE IsRed(h, Child(h, Other(side), sibling))
  BY <1>1, <1>3
<1>4. CASE ~IsRed(h, Child(h, Other(side), sibling))
  <2>1. near # null /\ near = Child(h, side, sibling)
    BY <1>4, SidesFacts DEF IsRed, near
  <2>2. SameTree(painted, h)
    BY <1>2, TwicePainted DEF painted
  <2>3. painted \in Heaps /\ Shape(painted, L, d, key)
    BY <2>2, SameTreeShape DEF SameTree
  <2>4. /\ sibling \in L /\ sibling # parent /\ Parent(h, sibling) = parent
        /\ sibling # Child(h, side, parent) /\ parent \notin Below(d, sibling)
    BY <1>2, ChildFacts
  <2>5. near = Child(painted, side, sibling)
    BY <1>2, <2>1, <2>2, <2>4 DEF SameTree, SameChildren
  <2>6. near \in Below(d, sibling)
    BY <2>1, <2>4, ChildFacts
  <2>7. o = Rotate(painted, sibling, Other(side))
    BY <1>1, <1>4
  <2>8. PICK e : Shape(o, L, e, key)
    BY <1>2, <2>1, <2>3, <2>4, <2>5, <2>7, RotateShape
  <2>9. Turned(o, painted, sibling, near, Child(painted, Other(side), near), Other(side))
    BY <1>2, <2>1, <2>3, <2>4, <2>5, <2>7, RotateShape
  <2>10. SideOf(painted, sibling) = Other(side) /\ Parent(painted, sibling) = parent
    <3>1. Parent(painted, sibling) = parent
      BY <1>2, <2>2, <2>4 DEF SameTree, SameParents
    <3>2. SideOf(painted, sibling) \in Sides /\ Child(painted, SideOf(painted, sibling), parent) = sibling
      BY <1>2, <2>3, <2>4, <3>1, ParentFacts
    <3>3. Child(painted, side, parent) # sibling
      BY <1>2, <2>2, <2>4 DEF SameTree, SameChildren
    <3> QED BY <3>1, <3>2, <3>3, SidesFacts
  <2>11. Child(o, Other(side), parent) = near
    BY <1>2, <2>4, <2>6, <2>9, <2>10 DEF Turned
  <2> QED BY <2>1, <2>2, <2>8, <2>9, <2>11 DEF Turned, SameTree
<1> QED BY <1>3, <1>4

LEMMA SettleShape ==
  ASSUME NEW h \in Heaps, NEW L, NEW d, NEW key \in [Nodes -> Nat], Shape(h, L, d, key),
         NEW parent \in L, NEW side \in Sides, Child(h, Other(side), parent) # null,
         NEW o, o = Settle(h, parent, side)
  PROVE  o \in Heaps /\ Faulty(o) = Faulty(h) /\ \E e : Shape(o, L, e, key)
<1> DEFINE sibling == Child(h, Other(side), parent)
           c       == Color(h, parent)
           x       == Child(h, Other(side), sibling)
           painted == Paint(Paint(Paint(h, sibling, c), parent, "BLACK"), x, "BLACK")
<1>1. o = Rotate(painted, parent, side)
  BY Zenon DEF Settle, Child, Color
<1>2. sibling # null /\ sibling = Child(h, Other(side), parent)
  OBVIOUS
<1> HIDE DEF sibling, c, x, painted
<1>3. /\ L \subseteq Nodes /\ Other(side) \in Sides /\ "BLACK" \in Colors
  BY NullFacts, SidesFacts DEF Shape, Colors
<1>4. c \in Colors
  BY <1>3, HeapFacts DEF c
<1>5. SameTree(painted, h)
  BY <1>3, <1>4, ThricePainted DEF painted
<1>6. painted \in Heaps /\ Shape(painted, L, d, key)
  BY <1>5, SameTreeShape DEF SameTree
<1>7. sibling = Child(painted, Other(side), parent)
  BY <1>2, <1>3, <1>5 DEF SameTree, SameChildren
<1>8. PICK e : Shape(o, L, e, key)
  BY <1>1, <1>2, <1>6, <1>7, RotateShape
<1>9. Turned(o, painted, parent, sibling, Child(painted, side, sibling), side)
  BY <1>1, <1>2, <1>6, <1>7, RotateShape
<1> QED BY <1>5, <1>8, <1>9 DEF Turned, SameTree


\* The loop of erase_fixup goes on.
Mends(h, n) == ~Faulty(h) /\ n # null /\ n # Root(h) /\ Color(h, n) # "RED"

\* A step faults, or recolours and climbs, or rotates and is the last one.
LEMMA EraseStepKeeps ==
  ASSUME NEW h \in Heaps, NEW L, NEW d, NEW key \in [Nodes -> Nat], Shape(h, L, d, key),
         NEW node \in L, BlackRoot(h), Mends(h, node)
  PROVE  \E g \in Heaps, n \in L :
           /\ EraseStep(h, node) = <<g, n>>
           /\ \/ Faulty(g)
              \/ SameTree(g, h) /\ n = Parent(h, node) /\ Parent(h, node) # null
                 /\ (n = Root(g) \/ BlackRoot(g))
              \/ ~Mends(g, n) /\ (n = Root(g) \/ BlackRoot(g)) /\ \E e : Shape(g, L, e, key)
<1> DEFINE parent  == Parent(h, node)
           side    == SideOf(h, node)
           far     == Other(side)
           lifted  == Lift(h, parent, side)
           sibling == Child(lifted, far, parent)
           bent    == Bend(lifted, sibling, side)
           settled == Settle(bent, parent, side)
           painted == Paint(lifted, sibling, "RED")
<1>1. EraseStep(h, node) =
        IF parent = null \/ Child(h, far, parent) = null \/ sibling = null THEN <<Fault(h), node>>
        ELSE IF \A s \in Sides : ~IsRed(lifted, Child(lifted, s, sibling))
        THEN <<painted, Parent(lifted, node)>>
        ELSE <<settled, Root(settled)>>
  BY Zenon DEF EraseStep, Parent, Child, Root
<1> HIDE DEF parent, side, far, lifted, sibling, bent, settled, painted
<1>2. L \subseteq Nodes /\ null \notin L /\ ~Faulty(h) /\ node # Root(h) /\ node \in Nodes
      /\ "RED" \in Colors
  BY NullFacts DEF Shape, Mends, Colors
<1>3. parent \in L /\ parent = Parent(h, node)
  BY <1>2 DEF Shape, Doubled, parent
<1>4. /\ side \in Sides /\ far \in Sides /\ far = Other(side) /\ side # far
      /\ Child(h, side, parent) = node
  BY <1>2, <1>3, ParentFacts, SidesFacts DEF side, far
<1>5. CASE Child(h, far, parent) = null \/ sibling = null
  <2>1. Fault(h) \in Heaps /\ Faulty(Fault(h))
    BY DEF Fault, Faulty, Heaps
  <2> QED BY <1>1, <1>5, <2>1
<1>6. CASE ~(Child(h, far, parent) = null \/ sibling = null)
  <2>1. /\ lifted \in Heaps /\ Faulty(lifted) = Faulty(h)
        /\ Child(lifted, side, parent) = node
        /\ lifted = h \/ (Color(lifted, parent) = "RED" /\ (BlackRoot(h) => BlackRoot(lifted)))
    BY <1>2, <1>3, <1>4, LiftShape DEF lifted
  <2>2. PICK e : Shape(lifted, L, e, key)
    BY <1>2, <1>3, <1>4, LiftShape DEF lifted
  <2>3. /\ sibling \in L /\ sibling # null /\ sibling = Child(lifted, far, parent)
        /\ sibling # parent /\ Parent(lifted, sibling) = parent
    <3>1. sibling # null /\ sibling = Child(lifted, far, parent)
      BY <1>6 DEF sibling
    <3> QED BY <1>3, <1>4, <2>1, <2>2, <3>1, ChildFacts
  <2>4. CASE \A s \in Sides : ~IsRed(lifted, Child(lifted, s, sibling))
    <3>1. EraseStep(h, node) = <<painted, Parent(lifted, node)>>
      BY <1>1, <1>2, <1>3, <1>6, <2>4
    <3>2. Parent(lifted, node) = parent
      BY <1>2, <1>3, <1>4, <2>1, <2>2, ChildFacts
    <3>3. /\ SameTree(painted, lifted)
          /\ \A m \in Nodes : Color(painted, m) = IF m = sibling THEN "RED" ELSE Color(lifted, m)
      BY <1>2, <2>1, PaintTree, PaintColor DEF painted
    <3>4. sibling # Root(lifted)
      BY <1>2, <1>3, <2>2, <2>3 DEF Shape, Rooted
    <3>5. BlackRoot(painted)
      <4>1. Root(lifted) \in Nodes /\ BlackRoot(lifted)
        BY <1>2, <2>1, HeapFacts DEF BlackRoot
      <4> QED BY <3>3, <3>4, <4>1 DEF SameTree, BlackRoot
    <3>6. CASE lifted = h
      BY <1>2, <1>3, <3>1, <3>2, <3>3, <3>5, <3>6 DEF SameTree
    <3>7. CASE lifted # h
      <4>1. Color(painted, parent) = "RED"
        BY <1>2, <1>3, <2>1, <2>3, <3>3, <3>7
      <4>2. Shape(painted, L, e, key)
        BY <2>1, <2>2, <3>3, SameTreeShape
      <4> QED BY <1>3, <3>1, <3>2, <3>3, <3>5, <4>1, <4>2 DEF Mends, SameTree
    <3> QED BY <3>6, <3>7
  <2>5. CASE \E s \in Sides : IsRed(lifted, Child(lifted, s, sibling))
    <3>1. PICK s \in Sides : IsRed(lifted, Child(lifted, s, sibling))
      BY <2>5
    <3>2. bent \in Heaps /\ Child(bent, Other(side), parent) # null
      BY <1>3, <1>4, <2>1, <2>2, <2>3, <3>1, BendShape DEF bent
    <3>3. PICK f : Shape(bent, L, f, key)
      BY <1>3, <1>4, <2>1, <2>2, <2>3, <3>1, BendShape DEF bent
    <3>4. settled \in Heaps /\ \E k : Shape(settled, L, k, key)
      BY <1>3, <1>4, <3>2, <3>3, SettleShape DEF settled
    <3>5. Root(settled) \in L
      BY <1>3, <3>4 DEF Shape, Rooted, Covers
    <3>6. EraseStep(h, node) = <<settled, Root(settled)>>
      BY <1>1, <1>2, <1>3, <1>6, <3>1
    <3> QED BY <3>4, <3>5, <3>6 DEF Mends
  <2> QED BY <2>4, <2>5
<1> QED BY <1>5, <1>6

LEMMA EraseStepType ==
  ASSUME NEW h \in Heaps, NEW node \in Nodes
  PROVE  EraseStep(h, node) \in Heaps \X (Nodes \cup {null})
<1> DEFINE parent  == Parent(h, node)
           side    == SideOf(h, node)
           far     == Other(side)
           lifted  == Lift(h, parent, side)
           sibling == Child(lifted, far, parent)
           bent    == Bend(lifted, sibling, side)
           settled == Settle(bent, parent, side)
           painted == Paint(lifted, sibling, "RED")
<1>1. EraseStep(h, node) =
        IF parent = null \/ Child(h, far, parent) = null \/ sibling = null THEN <<Fault(h), node>>
        ELSE IF \A s \in Sides : ~IsRed(lifted, Child(lifted, s, sibling))
        THEN <<painted, Parent(lifted, node)>>
        ELSE <<settled, Root(settled)>>
  BY Zenon DEF EraseStep, Parent, Child, Root
<1> HIDE DEF parent, side, far, lifted, sibling, bent, settled, painted
<1>2. /\ side \in Sides /\ far \in Sides /\ far = Other(side)
      /\ "RED" \in Colors /\ "BLACK" \in Colors /\ parent \in Nodes \cup {null}
  BY HeapFacts DEF side, far, SideOf, Sides, Other, Colors, parent
<1>3. CASE parent = null
  <2>1. Fault(h) \in Heaps
    BY DEF Fault, Heaps
  <2> QED BY <1>1, <1>3, <2>1
<1>4. CASE parent # null
  <2>1. Fault(h) \in Heaps
    BY DEF Fault, Heaps
  <2>2. lifted \in Heaps
    <3>1. \A b : Paint(Paint(h, b, "BLACK"), parent, "RED") \in Heaps
      BY <1>2, TwicePainted DEF SameTree
    <3> QED BY <1>2, <1>4, <3>1, RotateType DEF lifted, Lift
  <2>3. sibling \in Nodes \cup {null}
    BY <1>2, <1>4, <2>2, HeapFacts DEF sibling
  <2>4. CASE sibling # null
    <3>1. bent \in Heaps
      <4>1. \A b : Paint(Paint(lifted, b, "BLACK"), sibling, "RED") \in Heaps
        BY <1>2, <2>2, TwicePainted DEF SameTree
      <4> QED BY <1>2, <2>2, <2>3, <2>4, <4>1, RotateType DEF bent, Bend
    <3>2. settled \in Heaps
      <4>1. \A s, b : Paint(Paint(Paint(bent, s, Color(bent, parent)), parent, "BLACK"), b, "BLACK") \in Heaps
        BY <1>2, <1>4, <3>1, ThricePainted, HeapFacts DEF SameTree
      <4>2. \E s, b : settled = Rotate(Paint(Paint(Paint(bent, s, Color(bent, parent)), parent, "BLACK"), b, "BLACK"), parent, side)
        BY Zenon DEF settled, Settle, Color
      <4> QED BY <1>2, <1>4, <4>1, <4>2, RotateType
    <3>3. painted \in Heaps
      BY <1>2, <2>2, PaintTree DEF painted, SameTree
    <3>4. Parent(lifted, node) \in Nodes \cup {null} /\ Root(settled) \in Nodes \cup {null}
      BY <2>2, <3>2, HeapFacts
    <3> QED BY <1>1, <2>1, <3>2, <3>3, <3>4
  <2> QED BY <1>1, <2>1, <2>4
<1> QED BY <1>3, <1>4

\* erase_fixup faults, or ends on a search tree of the same nodes with a black root.
LEMMA EraseFixupShape ==
  ASSUME NEW h \in Heaps, NEW L, NEW d, NEW key \in [Nodes -> Nat], Shape(h, L, d, key),
         ~Faulty(h), NEW node \in L, node = Root(h) \/ BlackRoot(h)
  PROVE  /\ EraseFixup(h, node) \in Heaps
         /\ Faulty(EraseFixup(h, node)) \/ Balanced(EraseFixup(h, node), L, key)
<1> DEFINE S == Heaps \X (Nodes \cup {null})
           more == {s \in S : Mends(s[1], s[2])}
           body == [s \in more |-> EraseStep(s[1], s[2])]
           Open(g, n) == \/ Faulty(g)
                         \/ /\ n = Root(g) \/ BlackRoot(g)
                            /\ SameTree(g, h) \/ (~Mends(g, n) /\ \E e : Shape(g, L, e, key))
           Inv == {s \in S : s[2] \in L /\ Open(s[1], s[2])}
           left == [s \in Inv |-> L \ Below(d, s[2])]
           end == Loop(S, body)[<<h, node>>]
<1>1. L \subseteq Nodes /\ null \notin L /\ L # {}
  BY NullFacts DEF Shape
<1>2. IsFiniteSet(L)
  BY <1>1, NodesAssumption, FS_Subset
<1>3. ASSUME NEW g \in Heaps, NEW n \in L, Open(g, n)
      PROVE  <<g, n>> \in Inv
  BY <1>1, <1>3
<1>4. EraseFixup(h, node) = Paint(end[1], end[2], "BLACK")
  <2>1. {s \in S : /\ ~s[1].fault
                   /\ s[2] \notin {null, s[1].root}
                   /\ ~IsRed(s[1], s[2])} = more
    BY DEF Mends, IsRed, Faulty, Root, Color
  <2> QED BY <2>1 DEF EraseFixup
<1>5. ASSUME NEW s \in Inv \cap more
      PROVE  /\ body[s] \in Inv
             /\ body[s] \in more => left[body[s]] \subseteq left[s] /\ left[body[s]] # left[s]
  <2>1. PICK g \in Heaps, n \in L : s = <<g, n>> /\ (n = Root(g) \/ BlackRoot(g))
                                    /\ Mends(g, n) /\ SameTree(g, h)
    BY <1>5 DEF Mends
  <2>2. Shape(g, L, d, key) /\ BlackRoot(g)
    BY <2>1, SameTreeShape DEF Mends
  <2>3. PICK g2 \in Heaps, n2 \in L :
          /\ EraseStep(g, n) = <<g2, n2>>
          /\ \/ Faulty(g2)
             \/ SameTree(g2, g) /\ n2 = Parent(g, n) /\ Parent(g, n) # null
                /\ (n2 = Root(g2) \/ BlackRoot(g2))
             \/ ~Mends(g2, n2) /\ (n2 = Root(g2) \/ BlackRoot(g2)) /\ \E e : Shape(g2, L, e, key)
    BY <2>1, <2>2, EraseStepKeeps
  <2>4. body[s] = <<g2, n2>>
    BY <2>1, <2>3
  <2>5. SameTree(g2, g) => SameTree(g2, h)
    BY <2>1 DEF SameTree, SameParents, SameChildren
  <2>6. Open(g2, n2)
    BY <2>3, <2>5
  <2>7. <<g2, n2>> \in Inv
    BY <1>3, <2>3, <2>6
  <2>8. ASSUME <<g2, n2>> \in more
        PROVE  left[<<g2, n2>>] \subseteq left[s] /\ left[<<g2, n2>>] # left[s]
    <3>1. n2 = Parent(g, n) /\ Parent(g, n) # null
      BY <2>3, <2>8 DEF Mends
    <3>2. Below(d, n) \subseteq Below(d, n2) /\ n2 \in Below(d, n2) /\ n2 \notin Below(d, n)
      BY <2>1, <2>2, <3>1, ClimbFact
    <3>3. left[<<g2, n2>>] = L \ Below(d, n2) /\ left[s] = L \ Below(d, n)
      BY <2>1, <2>7
    <3> QED BY <2>3, <3>2, <3>3
  <2> QED BY <2>4, <2>7, <2>8
<1>6. body \in [more -> S]
  <2>1. ASSUME NEW s \in more PROVE EraseStep(s[1], s[2]) \in S
    BY EraseStepType DEF Mends
  <2> QED BY <2>1
<1>7. <<h, node>> \in Inv
  BY <1>3 DEF SameTree, SameParents, SameChildren
<1>8. left \in [Inv -> SUBSET L]
  OBVIOUS
<1>9. more \in SUBSET S /\ Inv \in SUBSET S
  OBVIOUS
<1> HIDE DEF S, more, body, Inv, left
<1>10. end \in Inv \ more
  <2>1. Advances(S, more, body, Inv, L, left)
    BY <1>2, <1>5, <1>6, <1>8, <1>9 DEF Advances
  <2> QED BY <1>7, <2>1, LoopEnds
<1> HIDE DEF end
<1>11. PICK g \in Heaps, n \in L : end = <<g, n>> /\ ~Mends(g, n) /\ Open(g, n)
  <2>1. end \in S /\ end \in Inv /\ end \notin more
    BY <1>9, <1>10
  <2> QED BY <2>1 DEF S, Inv, more
<1>12. EraseFixup(h, node) = Paint(g, n, "BLACK")
  BY <1>4, <1>11
<1>13. "BLACK" \in Colors /\ n \in Nodes
  BY <1>1, <1>11 DEF Colors
<1>14. /\ SameTree(Paint(g, n, "BLACK"), g)
       /\ \A m \in Nodes : Color(Paint(g, n, "BLACK"), m) = IF m = n THEN "BLACK" ELSE Color(g, m)
  BY <1>13, PaintTree, PaintColor
<1>15. CASE Faulty(g)
  BY <1>12, <1>14, <1>15 DEF SameTree
<1>16. CASE ~Faulty(g)
  <2>1. PICK e : Shape(g, L, e, key)
    BY <1>11, <1>16, SameTreeShape
  <2>2. Shape(Paint(g, n, "BLACK"), L, e, key)
    BY <1>14, <2>1, SameTreeShape
  <2>3. Root(g) \in Nodes
    BY <1>1, <2>1, HeapFacts, NullFacts DEF Shape, Rooted, Covers
  <2>4. BlackRoot(Paint(g, n, "BLACK"))
    BY <1>11, <1>14, <1>16, <2>3, NullFacts DEF SameTree, BlackRoot
  <2> QED BY <1>12, <1>14, <1>16, <2>2, <2>4 DEF SameTree, Balanced
<1> QED BY <1>15, <1>16

-----------------------------------------------------------------------------
LEMMA NodesFinite ==
  ASSUME NEW L, L \subseteq Nodes
  PROVE  IsFiniteSet(L)
BY NodesAssumption, FS_Subset

\* The node whose subtree is the smallest of those of B.
LEMMA Lowest ==
  ASSUME NEW L, L \subseteq Nodes, NEW d, Covers(L, d), NEW B \in SUBSET L, B # {}
  PROVE  \E n \in B : \A m \in B : ~ (Below(d, m) \subseteq Below(d, n) /\ Below(d, m) # Below(d, n))
<1> DEFINE g == [n \in B |-> Below(d, n)]
<1>1. g \in [B -> SUBSET L] /\ \A n \in B : g[n] = Below(d, n)
  BY DEF Covers
<1> HIDE DEF g
<1>2. IsFiniteSet(L)
  BY NodesFinite
<1>3. \E n \in B : \A m \in B : ~ (g[m] \subseteq g[n] /\ g[m] # g[n])
  BY <1>1, <1>2, Smallest
<1> QED BY <1>1, <1>3

\* Subtrees are nested, and a node below another one is on one side of it.
LEMMA BelowFacts ==
  ASSUME NEW h \in Heaps, NEW L, NEW d, NEW key \in [Nodes -> Nat], Shape(h, L, d, key),
         NEW n \in L, NEW m \in Below(d, n)
  PROVE  /\ m \in L /\ Below(d, m) \subseteq Below(d, n)
         /\ m # n => /\ n \notin Below(d, m)
                     /\ Parent(h, m) \in Below(d, n)
                     /\ \E s \in Sides : On(s, key, m, n) /\ Child(h, s, n) \in L
                                         /\ m \in Below(d, Child(h, s, n))
<1> DEFINE Nested(a) == \A b \in Below(d, a) :
             /\ Below(d, b) \subseteq Below(d, a)
             /\ b # a => a \notin Below(d, b) /\ Parent(h, b) \in Below(d, a)
           Bad == {a \in L : ~Nested(a)}
<1>1. L \subseteq Nodes /\ Covers(L, d) /\ null \notin L /\ Distinct(L, key)
  BY NullFacts DEF Shape
<1>2. \A a \in L : Below(d, a) \subseteq L /\ a \in Below(d, a)
  BY <1>1 DEF Covers
<1>3. ASSUME NEW a \in L, NEW b \in Below(d, a), b # a
      PROVE  \E s \in Sides : /\ On(s, key, b, a) /\ Child(h, s, a) \in L
                              /\ b \in Below(d, Child(h, s, a))
  <2>1. PICK s \in Sides : On(s, key, b, a)
    BY <1>1, <1>2, <1>3, OnFacts DEF Distinct, Sides, Other
  <2>2. b \in Below(d, Child(h, s, a)) /\ Child(h, s, a) \in L \cup {null}
    BY <2>1 DEF Shape, Searchable
  <2>3. Child(h, s, a) # null
    BY <1>1, <2>2 DEF Covers
  <2> QED BY <2>1, <2>2, <2>3
<1>4. Bad = {}
  <2>1. SUFFICES ASSUME Bad # {} PROVE FALSE
    OBVIOUS
  <2>2. PICK a \in Bad : \A b \in Bad : ~ (Below(d, b) \subseteq Below(d, a) /\ Below(d, b) # Below(d, a))
    <3> HIDE DEF Bad
    <3>1. Bad \in SUBSET L
      BY DEF Bad
    <3> QED BY <1>1, <2>1, <3>1, Lowest
  <2>3. ASSUME NEW b \in Below(d, a), b # a
        PROVE  Below(d, b) \subseteq Below(d, a) /\ a \notin Below(d, b) /\ Parent(h, b) \in Below(d, a)
    <3>1. PICK s \in Sides : Child(h, s, a) \in L /\ b \in Below(d, Child(h, s, a))
      BY <1>3, <2>3
    <3>2. PICK c \in L : c = Child(h, s, a)
      BY <3>1
    <3>3. c # null /\ a \notin Below(d, c) /\ Parent(h, c) = a
      BY <1>1, <3>2, ChildFacts
    <3>4. Below(d, c) \subseteq Below(d, a)
      BY <3>2 DEF Shape, Searchable
    <3>5. Nested(c)
      BY <1>2, <2>2, <3>3, <3>4
    <3>6. b \in Below(d, c)
      BY <3>1, <3>2
    <3>7. Below(d, b) \subseteq Below(d, c) /\ (b # c => Parent(h, b) \in Below(d, c))
      BY <3>5, <3>6
    <3> QED BY <1>2, <3>3, <3>4, <3>7
  <2> QED BY <2>3
<1>5. Nested(n)
  BY <1>4
<1> HIDE DEF Bad, Nested
<1>6. m \in L
  BY <1>2
<1> QED BY <1>3, <1>5, <1>6 DEF Nested

\* Only the root is above every node.
LEMMA RootFacts ==
  ASSUME NEW h \in Heaps, NEW L, NEW d, NEW key \in [Nodes -> Nat], Shape(h, L, d, key), L # {}
  PROVE  Root(h) \in L /\ Root(h) # null /\ Below(d, Root(h)) = L
         /\ \A n \in L : Root(h) \in Below(d, n) => n = Root(h)
<1>1. Root(h) \in L /\ Root(h) # null /\ Below(d, Root(h)) = L
  BY NullFacts DEF Shape, Rooted, Covers
<1>2. ASSUME NEW n \in L, Root(h) \in Below(d, n), n # Root(h) PROVE FALSE
  BY <1>1, <1>2, BelowFacts
<1> QED BY <1>1, <1>2

\* A new key belongs where the descent stops.
LEMMA DescendFacts ==
  ASSUME NEW h \in Heaps, NEW L, NEW d, NEW key \in [Nodes -> Nat], Shape(h, L, d, key), L # {},
         NEW node \in Nodes, \A m \in L : key[m] # key[node],
         NEW last, last = Descend(h, node, key), NEW s, s = Toward(node, last, key)
  PROVE  /\ last \in L /\ s \in Sides /\ Child(h, s, last) = null /\ On(s, key, node, last)
         /\ \A n \in L, t \in Sides : last \in Below(d, n) /\ On(t, key, last, n) => On(t, key, node, n)
<1> DEFINE next(n) == Child(h, Toward(node, n, key), n)
           more == {n \in Nodes : next(n) # null}
           body == [n \in more |-> next(n)]
           Fits(m) == \A n \in L, t \in Sides : m \in Below(d, n) /\ On(t, key, m, n) => On(t, key, node, n)
           Inv == {m \in L : Fits(m)}
           left == [m \in Inv |-> Below(d, m)]
<1>1. L \subseteq Nodes /\ Covers(L, d) /\ null \notin L /\ Distinct(L, key) /\ IsFiniteSet(L)
  BY NullFacts, NodesFinite DEF Shape
<1>2. \A n : Toward(node, n, key) \in Sides
  BY DEF Toward, Sides
<1>3. \A n \in L : On(Toward(node, n, key), key, node, n)
  BY <1>1 DEF Toward, On
<1>4. last = Loop(Nodes, body)[Root(h)]
  <2> DEFINE f == [n \in Nodes |-> h.child[Toward(node, n, key)][n]]
  <2>1. {n \in Nodes : f[n] # null} = more
    BY DEF Child
  <2>2. [n \in {n \in Nodes : f[n] # null} |-> f[n]] = body
    BY <2>1 DEF Child
  <2>3. last = Loop(Nodes, [n \in {n \in Nodes : f[n] # null} |-> f[n]])[Root(h)]
    BY Zenon DEF Descend, Root
  <2> QED BY <2>2, <2>3
<1>5. Root(h) \in Inv
  <2>1. ASSUME NEW n \in L, NEW t \in Sides, Root(h) \in Below(d, n), On(t, key, Root(h), n) PROVE FALSE
    BY <1>1, <2>1, RootFacts, OnFacts
  <2> QED BY <2>1, RootFacts
<1>6. ASSUME NEW m \in Inv \cap more
      PROVE  body[m] \in Inv /\ left[body[m]] \subseteq left[m] /\ left[body[m]] # left[m]
  <2>1. PICK t \in Sides : t = Toward(node, m, key)
    BY <1>2
  <2>2. PICK c \in L : c = Child(h, t, m) /\ c # null /\ c = body[m]
    BY <1>1, <1>6, <2>1 DEF Shape, Searchable
  <2>3. /\ On(t, key, c, m) /\ c \in Below(d, m) /\ ~On(Other(t), key, c, m) /\ m \notin Below(d, c)
        /\ Parent(h, c) = m
    <3>1. m \in L /\ c = Child(h, t, m) /\ c # null
      BY <1>6, <2>2
    <3> HIDE DEF Inv, more, body, left
    <3> QED BY <3>1, ChildFacts
  <2>4. Below(d, c) = {x \in Below(d, m) : On(t, key, x, m)} /\ m \in Below(d, m)
    BY <1>1, <1>6, <2>2 DEF Shape, Searchable, Covers
  <2>5. ASSUME NEW n \in L, NEW u \in Sides, c \in Below(d, n), On(u, key, c, n)
        PROVE  On(u, key, node, n)
    <3>1. CASE n = c
      BY <1>1, <2>5, <3>1, OnFacts
    <3>2. CASE n = m
      <4>1. u = t
        BY <2>3, <2>5, <3>2, SidesFacts
      <4> QED BY <1>3, <2>1, <3>2, <4>1
    <3>3. CASE n # c /\ n # m
      <4>1. m \in Below(d, n)
        BY <2>3, <2>5, <3>3, BelowFacts
      <4>2. PICK v \in Sides : On(v, key, m, n) /\ Child(h, v, n) \in L
                               /\ m \in Below(d, Child(h, v, n))
        BY <3>3, <4>1, BelowFacts
      <4>3. c \in Below(d, Child(h, v, n))
        BY <2>3, <4>2, BelowFacts
      <4>4. On(v, key, c, n)
        BY <2>5, <4>3 DEF Shape, Searchable
      <4>5. u = v
        BY <1>1, <2>5, <4>4, SidesFacts, OnFacts
      <4> QED BY <1>6, <4>1, <4>2, <4>5
    <3> QED BY <3>1, <3>2, <3>3
  <2>6. c \in Inv
    BY <2>5
  <2> QED BY <2>2, <2>3, <2>4, <2>6
<1>7. body \in [more -> Nodes]
  BY <1>2, HeapFacts
<1>8. left \in [Inv -> SUBSET L]
  BY <1>1 DEF Covers
<1>9. more \in SUBSET Nodes /\ Inv \in SUBSET Nodes
  BY <1>1
<1>10. last \in Inv \ more
  <2> HIDE DEF more, body, Inv, left
  <2>1. Advances(Nodes, more, body, Inv, L, left)
    BY <1>1, <1>6, <1>7, <1>8, <1>9 DEF Advances
  <2> QED BY <1>4, <1>5, <2>1, LoopEnds
<1> QED BY <1>1, <1>2, <1>3, <1>10


LeafMade(r, h, node) ==
  /\ r \in Heaps /\ Root(r) = Root(h) /\ Faulty(r) = Faulty(h) /\ SameParents(r, h)
  /\ \A m \in Nodes : Color(r, m) = IF m = node THEN "RED" ELSE Color(h, m)
  /\ \A t \in Sides, m \in Nodes : Child(r, t, m) = IF m = node THEN null ELSE Child(h, t, m)

LEMMA LeafWrites ==
  ASSUME NEW h \in Heaps, NEW node \in Nodes
  PROVE  LeafMade(Leaf(h, node), h, node)
<1> DEFINE a == WithChild(h, "left", node, null)
           b == WithChild(a, "right", node, null)
<1>1. null \in Nodes \cup {null} /\ "left" \in Sides /\ "right" \in Sides /\ "RED" \in Colors
      /\ \A s \in Sides : s = "left" \/ s = "right"
  BY DEF Sides, Colors
<1>2. Leaf(h, node) = Paint(b, node, "RED")
  BY DEF Heaps, Leaf, WithChild, Paint
<1> HIDE DEF a, b
<1>3. ChildSet(a, h, "left", node, null)
  BY <1>1, WithChildWrites DEF a
<1>4. ChildSet(b, a, "right", node, null)
  BY <1>1, <1>3, WithChildWrites DEF b, ChildSet
<1>5. ColorSet(Paint(b, node, "RED"), b, node, "RED")
  BY <1>1, <1>4, PaintWrites DEF ChildSet
<1> QED BY <1>1, <1>2, <1>3, <1>4, <1>5 DEF ChildSet, ColorSet, LeafMade, SameColors, SameParents, SameChildren

Hung(r, h, node, last, s) ==
  /\ r \in Heaps /\ Root(r) = Root(h) /\ Faulty(r) = Faulty(h)
  /\ \A m \in Nodes : Color(r, m) = IF m = node THEN "RED" ELSE Color(h, m)
  /\ \A m \in Nodes : Parent(r, m) = IF m = node THEN last ELSE Parent(h, m)
  /\ \A t \in Sides, m \in Nodes : Child(r, t, m) =
       IF m = last /\ t = s THEN node ELSE IF m = node THEN null ELSE Child(h, t, m)

LEMMA HungWrites ==
  ASSUME NEW h \in Heaps, NEW node \in Nodes, NEW last \in Nodes, NEW s \in Sides
  PROVE  Hung([Leaf(h, node) EXCEPT !.parent[node] = last, !.child[s][last] = node], h, node, last, s)
<1> DEFINE l == Leaf(h, node)
           p == WithParent(l, node, last)
           c == WithChild(p, s, last, node)
<1>1. node \in Nodes \cup {null} /\ last \in Nodes \cup {null}
  OBVIOUS
<1>2. LeafMade(l, h, node)
  BY LeafWrites
<1> HIDE DEF l
<1>3. ParentSet(p, l, node, last)
  BY <1>1, <1>2, WithParentWrites DEF LeafMade
<1>4. [l EXCEPT !.parent[node] = last, !.child[s][last] = node] = c
  BY DEF WithParent, WithChild
<1> HIDE DEF p
<1>5. ChildSet(c, p, s, last, node)
  BY <1>1, <1>3, WithChildWrites DEF ParentSet
<1> HIDE DEF c
<1>6. Hung(c, h, node, last, s)
  BY <1>2, <1>3, <1>5 DEF LeafMade, ParentSet, ChildSet, Hung, SameColors, SameParents, SameChildren
<1> QED BY <1>4, <1>6 DEF l

\* What is below each node when a new one hangs below last.
Grown(d, node, last) ==
  [n \in Nodes \cup {null} |-> IF n = null THEN {} ELSE IF n = node THEN {node}
                               ELSE IF last \in d[n] THEN d[n] \cup {node} ELSE d[n]]

LEMMA HungShape ==
  ASSUME NEW h \in Heaps, NEW L, NEW d, NEW key \in [Nodes -> Nat], Shape(h, L, d, key), L # {},
         NEW node \in Nodes, \A m \in L : key[m] # key[node],
         NEW last \in L, NEW s \in Sides, Child(h, s, last) = null, On(s, key, node, last),
         \A n \in L, t \in Sides : last \in Below(d, n) /\ On(t, key, last, n) => On(t, key, node, n),
         NEW r, Hung(r, h, node, last, s)
  PROVE  Shape(r, L \cup {node}, Grown(d, node, last), key)
<1> DEFINE M == L \cup {node}
           e == Grown(d, node, last)
<1>1. /\ L \subseteq Nodes /\ null \notin L /\ node \notin L /\ Distinct(L, key) /\ Covers(L, d)
      /\ Rooted(h, L, d) /\ Doubled(h, L) /\ Searchable(h, L, d, key) /\ node # null
  BY NullFacts DEF Shape
<1>2. /\ \A n \in L : Below(e, n) = IF last \in Below(d, n) THEN Below(d, n) \cup {node} ELSE Below(d, n)
      /\ Below(e, null) = {} /\ Below(e, node) = {node}
  BY <1>1 DEF Grown, Below
<1>3. e \in [Nodes \cup {null} -> SUBSET M]
  BY <1>1 DEF Grown, Covers, Below
<1> HIDE DEF e
<1>4. Covers(M, e)
  BY <1>1, <1>2, <1>3 DEF Covers, Below
<1>5. \A n \in L : Below(d, n) \subseteq L /\ n \in Below(d, n)
  BY <1>1 DEF Covers
<1>6. Distinct(M, key)
  BY <1>1 DEF Distinct
<1>7. Rooted(r, M, e)
  <2>1. Root(h) \in L /\ Below(d, Root(h)) = L
    BY RootFacts
  <2> QED BY <1>1, <1>2, <2>1 DEF Hung, Rooted
<1>8. Doubled(r, M)
  <2>1. ASSUME NEW n \in M, NEW t \in Sides, Child(r, t, n) # null PROVE Parent(r, Child(r, t, n)) = n
    <3>1. CASE n = last /\ t = s
      BY <1>1, <3>1 DEF Hung
    <3>2. CASE ~(n = last /\ t = s)
      <4>1. n \in L /\ Child(r, t, n) = Child(h, t, n)
        BY <1>1, <2>1, <3>2 DEF Hung
      <4>2. Child(h, t, n) \in L /\ Parent(h, Child(h, t, n)) = n
        BY <1>1, <2>1, <4>1 DEF Searchable, Doubled
      <4> QED BY <1>1, <4>1, <4>2 DEF Hung
    <3> QED BY <3>1, <3>2
  <2>2. ASSUME NEW n \in M
        PROVE  IF Parent(r, n) = null THEN n = Root(r)
               ELSE Parent(r, n) \in M /\ \E t \in Sides : Child(r, t, Parent(r, n)) = n
    <3>1. CASE n = node
      BY <1>1, <3>1 DEF Hung
    <3>2. CASE n # node
      <4>1. n \in L /\ Parent(r, n) = Parent(h, n)
        BY <1>1, <3>2 DEF Hung
      <4>2. CASE Parent(h, n) = null
        BY <1>1, <4>1, <4>2 DEF Hung, Doubled
      <4>3. CASE Parent(h, n) # null
        <5>1. PICK t \in Sides, p \in L : p = Parent(h, n) /\ Child(h, t, p) = n
          BY <1>1, <4>1, <4>3 DEF Doubled
        <5>2. Child(r, t, p) = n
          BY <1>1, <4>1, <5>1 DEF Hung
        <5> QED BY <1>1, <4>1, <5>1, <5>2
      <4> QED BY <4>2, <4>3
    <3> QED BY <3>1, <3>2
  <2> QED BY <2>1, <2>2 DEF Doubled
<1>9. Searchable(r, M, e, key)
  <2> SUFFICES ASSUME NEW n \in M, NEW t \in Sides
               PROVE  /\ Child(r, t, n) \in M \cup {null}
                      /\ Below(e, Child(r, t, n)) = {x \in Below(e, n) : On(t, key, x, n)}
    BY DEF Searchable
  <2>1. CASE n = node
    BY <1>1, <1>2, <2>1, OnFacts DEF Hung
  <2>2. CASE n # node
    <3>1. n \in L /\ n \in Nodes
      BY <1>1, <2>2
    <3>2. /\ Child(h, t, n) \in L \cup {null}
          /\ Below(d, Child(h, t, n)) = {x \in Below(d, n) : On(t, key, x, n)}
      BY <1>1, <3>1 DEF Searchable
    <3>3. CASE n = last /\ t = s
      <4>1. Child(r, t, n) = node
        BY <1>1, <3>1, <3>3 DEF Hung
      <4>2. {x \in Below(d, n) : On(t, key, x, n)} = {}
        BY <1>1, <3>2, <3>3 DEF Covers
      <4> QED BY <1>1, <1>2, <1>5, <3>3, <4>1, <4>2
    <3>4. CASE ~(n = last /\ t = s)
      <4>1. Child(r, t, n) = Child(h, t, n)
        BY <1>1, <2>2, <3>1, <3>4 DEF Hung
      <4>2. Child(h, t, n) = null => Below(e, Child(r, t, n)) = {} /\ {x \in Below(d, n) : On(t, key, x, n)} = {}
        BY <1>1, <1>2, <3>2, <4>1 DEF Covers
      <4>3. CASE last \notin Below(d, n)
        <5>1. last \notin Below(d, Child(h, t, n))
          BY <3>2, <4>3
        <5>2. Below(e, Child(r, t, n)) = {x \in Below(d, n) : On(t, key, x, n)}
          BY <1>2, <3>2, <4>1, <4>2, <5>1
        <5> QED BY <1>2, <3>1, <3>2, <4>1, <4>3, <5>2
      <4>4. CASE last \in Below(d, n) /\ On(t, key, last, n)
        <5>1. last \in Below(d, Child(h, t, n)) /\ Child(h, t, n) \in L
          BY <1>1, <3>2, <4>4 DEF Covers
        <5>2. On(t, key, node, n)
          BY <3>1, <4>4
        <5> QED BY <1>2, <3>1, <3>2, <4>1, <4>4, <5>1, <5>2
      <4>5. CASE last \in Below(d, n) /\ ~On(t, key, last, n)
        <5>1. ~On(t, key, node, n)
          <6>1. CASE n = last
            BY <1>1, <3>1, <3>4, <6>1, OnFacts, SidesFacts
          <6>2. CASE n # last
            <7>1. PICK u \in Sides : On(u, key, last, n)
              BY <3>1, <4>5, <6>2, BelowFacts
            <7>2. On(u, key, node, n) /\ u # t
              BY <3>1, <4>5, <7>1
            <7> QED BY <3>1, <7>2, OnFacts, SidesFacts
          <6> QED BY <6>1, <6>2
        <5>2. Below(e, Child(r, t, n)) = {x \in Below(d, n) : On(t, key, x, n)}
          BY <1>2, <3>2, <4>1, <4>2, <4>5
        <5> QED BY <1>2, <3>1, <3>2, <4>1, <4>5, <5>1, <5>2
      <4> QED BY <4>3, <4>4, <4>5
    <3> QED BY <3>3, <3>4
  <2> QED BY <2>1, <2>2
<1> QED BY <1>1, <1>4, <1>6, <1>7, <1>8, <1>9 DEF Shape, e

\* The new leaf is red: it can only clash with its parent.
LEMMA HungPoised ==
  ASSUME NEW h \in Heaps, NEW L, NEW d, NEW key \in [Nodes -> Nat], Shape(h, L, d, key),
         Even(h, L, null), NEW node \in Nodes, node \notin L,
         NEW last \in L, NEW s \in Sides, Child(h, s, last) = null,
         NEW r, Hung(r, h, node, last, s)
  PROVE  Poised(r, L \cup {node}, node)
<1>1. /\ L \subseteq Nodes /\ null \notin L /\ node # null
      /\ \A n \in L, t \in Sides : Child(h, t, n) \in L \cup {null}
  BY NullFacts DEF Shape, Searchable
<1>2. OnlyClash(h, L, null)
  BY DEF Even
<1>3. /\ \A n : n \in L \cup {null} => (IsRed(r, n) <=> IsRed(h, n))
      /\ IsRed(r, node) /\ ~IsRed(r, null) /\ ~IsRed(h, null)
  BY <1>1, RedFacts DEF Hung
<1>4. /\ \A n, t : n \in L /\ t \in Sides =>
           Child(r, t, n) = IF n = last /\ t = s THEN node ELSE Child(h, t, n)
      /\ \A t \in Sides : Child(r, t, node) = null
  BY <1>1 DEF Hung
<1>5. OnlyClash(r, L \cup {node}, node)
  BY <1>1, <1>2, <1>3, <1>4 DEF OnlyClash
<1>6. PICK b : Weighed(h, L, Weights(h), b)
  BY DEF Even
<1> DEFINE w == Weights(h)
           v == Weights(r)
           c == [b EXCEPT ![node] = 0]
<1>7. /\ b \in [Nodes \cup {null} -> Int] /\ b[null] = 0
      /\ \A n \in L : b[n] \in Nat /\ w[n] \in Int
      /\ \A n, t : n \in L /\ t \in Sides => b[n] = b[Child(h, t, n)] + w[n]
  BY <1>6 DEF Weighed
<1>8. v[node] = 0 /\ \A n \in L : v[n] = w[n]
  BY <1>1, <1>3, RedFacts
<1> HIDE DEF w, v
<1>9. /\ c \in [Nodes \cup {null} -> Int] /\ c[null] = 0 /\ c[node] = 0
      /\ \A n \in L \cup {null} : c[n] = b[n]
  BY <1>1, <1>7
<1> HIDE DEF c
<1>10. ASSUME NEW n \in L \cup {node}, NEW t \in Sides PROVE c[n] = c[Child(r, t, n)] + v[n]
  <2>1. CASE n = node
    BY <1>4, <1>8, <1>9, <2>1
  <2>2. CASE n # node
    <3>1. n \in L /\ b[n] = b[Child(h, t, n)] + w[n] /\ Child(h, t, n) \in L \cup {null}
      BY <1>1, <1>7, <2>2
    <3>2. c[Child(r, t, n)] = b[Child(h, t, n)]
      <4>1. CASE n = last /\ t = s
        BY <1>4, <1>7, <1>9, <3>1, <4>1
      <4>2. CASE ~(n = last /\ t = s)
        BY <1>4, <1>9, <3>1, <4>2
      <4> QED BY <4>1, <4>2
    <3> QED BY <1>8, <1>9, <3>1, <3>2
  <2> QED BY <2>1, <2>2
<1>11. \A n \in L \cup {node} : c[n] \in Nat /\ v[n] \in Int
  BY <1>7, <1>8, <1>9
<1>12. Weighed(r, L \cup {node}, v, c)
  BY <1>9, <1>10, <1>11 DEF Weighed
<1> QED BY <1>3, <1>5, <1>12 DEF Poised, Even, v

\* A red leaf as the only node.
Sole(h, node) == [Leaf(h, node) EXCEPT !.root = node, !.parent[node] = null]

LEMMA SoleShape ==
  ASSUME NEW h \in Heaps, NEW node \in Nodes, NEW key \in [Nodes -> Nat],
         NEW r, r = Sole(h, node)
  PROVE  /\ r \in Heaps /\ Root(r) = node /\ Faulty(r) = Faulty(h)
         /\ \E d : Shape(r, {node}, d, key)
         /\ Poised(r, {node}, node)
<1> DEFINE l == Leaf(h, node)
           a == WithRoot(l, node)
           d == [n \in Nodes \cup {null} |-> IF n = node THEN {node} ELSE {}]
<1>1. node \in Nodes \cup {null} /\ null \in Nodes \cup {null} /\ node # null
  BY NullFacts
<1>2. LeafMade(l, h, node)
  BY LeafWrites
<1> HIDE DEF l
<1>3. RootSet(a, l, node)
  BY <1>1, <1>2, WithRootWrites DEF LeafMade
<1>4. r = WithParent(a, node, null)
  BY DEF WithParent, WithRoot, Sole, l
<1> HIDE DEF a
<1>5. ParentSet(r, a, node, null)
  BY <1>1, <1>3, <1>4, WithParentWrites DEF RootSet
<1>6. /\ r \in Heaps /\ Root(r) = node /\ Faulty(r) = Faulty(h) /\ Parent(r, node) = null
      /\ \A s \in Sides : Child(r, s, node) = null
      /\ Color(r, node) = "RED"
  BY <1>2, <1>3, <1>5 DEF LeafMade, RootSet, ParentSet, SameChildren, SameColors
<1>7. Covers({node}, d) /\ Below(d, node) = {node} /\ Below(d, null) = {}
  BY <1>1 DEF Covers, Below
<1> HIDE DEF d
<1>8. Searchable(r, {node}, d, key)
  BY <1>6, <1>7, OnFacts DEF Searchable
<1>9. Rooted(r, {node}, d) /\ Doubled(r, {node}) /\ Distinct({node}, key)
  BY <1>1, <1>6, <1>7 DEF Rooted, Doubled, Distinct
<1>10. Shape(r, {node}, d, key)
  BY <1>7, <1>8, <1>9 DEF Shape
<1>11. IsRed(r, node) /\ OnlyClash(r, {node}, node)
  BY <1>1, <1>6, RedFacts DEF OnlyClash
<1>12. Weighed(r, {node}, Weights(r), [n \in Nodes \cup {null} |-> 0])
  <2>1. Weights(r)[node] = 0
    BY <1>11, RedFacts
  <2> QED BY <1>1, <1>6, <2>1 DEF Weighed
<1> QED BY <1>6, <1>10, <1>11, <1>12 DEF Poised, Even

\* A search tree of the nodes L, with a black root if it has one.
Sound(r, L, key) ==
  r \in Heaps /\ ~Faulty(r) /\ (L # {} => BlackRoot(r)) /\ \E d : Shape(r, L, d, key)

LEMMA BalancedIsSound ==
  ASSUME NEW r, NEW L, NEW key, Balanced(r, L, key)
  PROVE  Sound(r, L, key)
BY DEF Balanced, Sound

\* insert_with_compare never faults: it adds a node with a new key to a search
\* tree with a black root, and what was red-black stays it.
LEMMA InsertShape ==
  ASSUME NEW h, NEW L, NEW key \in [Nodes -> Nat], Sound(h, L, key),
         NEW node \in Nodes, \A m \in L : key[m] # key[node]
  PROVE  /\ Sound(Insert(h, node, key), L \cup {node}, key)
         /\ Colored(h, L) => Colored(Insert(h, node, key), L \cup {node})
<1> DEFINE last == Descend(h, node, key)
           s    == Toward(node, last, key)
           hung == [Leaf(h, node) EXCEPT !.parent[node] = last, !.child[s][last] = node]
           sole == [Leaf(h, node) EXCEPT !.root = node, !.parent[node] = null]
<1>1. Insert(h, node, key) = InsertFixup(IF Root(h) = null THEN sole ELSE hung, node)
  BY Zenon DEF Insert, Root
<1> HIDE DEF last, s, hung, sole
<1>2. h \in Heaps /\ ~Faulty(h) /\ (L # {} => BlackRoot(h))
  BY DEF Sound
<1>3. PICK d : Shape(h, L, d, key)
  BY DEF Sound
<1>4. L \subseteq Nodes /\ null \notin L /\ node \notin L /\ node # null
  BY <1>3, NullFacts DEF Shape
<1>5. CASE Root(h) = null
  <2>1. L = {}
    BY <1>2, <1>3, <1>4, <1>5, RootFacts
  <2>2. /\ sole \in Heaps /\ Root(sole) = node /\ Faulty(sole) = Faulty(h)
        /\ \E e : Shape(sole, {node}, e, key)
        /\ Poised(sole, {node}, node)
    <3>1. sole = Sole(h, node)
      BY Zenon DEF sole, Sole
    <3> QED BY <1>2, <3>1, SoleShape
  <2>3. Balanced(InsertFixup(sole, node), {node}, key) /\ Colored(InsertFixup(sole, node), {node})
    BY <1>2, <2>2, InsertFixupShape
  <2> QED BY <1>1, <1>5, <2>1, <2>3, BalancedIsSound
<1>6. CASE Root(h) # null
  <2>1. L # {} /\ Root(h) \in L
    BY <1>3, <1>6 DEF Shape, Rooted
  <2>2. /\ last \in L /\ s \in Sides /\ Child(h, s, last) = null /\ On(s, key, node, last)
        /\ \A n \in L, t \in Sides : last \in Below(d, n) /\ On(t, key, last, n) => On(t, key, node, n)
    BY <1>2, <1>3, <2>1, DescendFacts DEF last, s
  <2>3. Hung(hung, h, node, last, s)
    BY <1>2, <1>4, <2>2, HungWrites DEF hung
  <2>4. PICK e : Shape(hung, L \cup {node}, e, key)
    BY <1>2, <1>3, <2>1, <2>2, <2>3, HungShape
  <2>5. hung \in Heaps /\ ~Faulty(hung) /\ BlackRoot(hung)
    BY <1>2, <1>4, <2>1, <2>3 DEF Hung, BlackRoot
  <2>6. node \in L \cup {node}
    OBVIOUS
  <2>7. /\ Balanced(InsertFixup(hung, node), L \cup {node}, key)
        /\ Poised(hung, L \cup {node}, node) => Colored(InsertFixup(hung, node), L \cup {node})
    BY <2>4, <2>5, <2>6, InsertFixupShape
  <2>8. Colored(h, L) => Poised(hung, L \cup {node}, node)
    BY <1>2, <1>3, <1>4, <2>2, <2>3, HungPoised DEF Colored
  <2> QED BY <1>1, <1>6, <2>7, <2>8, BalancedIsSound
<1> QED BY <1>5, <1>6

-----------------------------------------------------------------------------
\* Without x, which passed its only child c on to its parent.
Spliced(r, h, x, c) ==
  /\ r \in Heaps /\ Faulty(r) = Faulty(h) /\ SameColors(r, h)
  /\ Root(r) = IF Parent(h, x) = null THEN c ELSE Root(h)
  /\ \A m \in Nodes : Parent(r, m) = IF m = c THEN Parent(h, x) ELSE Parent(h, m)
  /\ \A s \in Sides, m \in Nodes : Child(r, s, m) =
       IF Parent(h, x) # null /\ s = SideOf(h, x) /\ m = Parent(h, x) THEN c ELSE Child(h, s, m)

Splice(h, x, c) == Adopt(Relink(h, x, c), c, Parent(h, x))

LEMMA SpliceWrites ==
  ASSUME NEW h \in Heaps, NEW x \in Nodes, NEW c \in Nodes \cup {null}
  PROVE  Spliced(Splice(h, x, c), h, x, c)
<1> DEFINE l == Relink(h, x, c)
<1>1. Relinked(l, h, x, c)
  BY RelinkWrites
<1> HIDE DEF l
<1>2. ParentSet(Adopt(l, c, Parent(h, x)), l, c, Parent(h, x))
  BY <1>1, HeapFacts, AdoptWrites DEF Relinked
<1>3. Spliced(Adopt(l, c, Parent(h, x)), h, x, c)
  BY <1>1, <1>2 DEF Relinked, ParentSet, Spliced, SameColors, SameParents, SameChildren
<1> QED BY <1>3 DEF Splice, l

Without(d, x) == [n \in Nodes \cup {null} |-> d[n] \ {x}]

LEMMA SpliceShape ==
  ASSUME NEW h \in Heaps, NEW L, NEW d, NEW key \in [Nodes -> Nat], Shape(h, L, d, key),
         NEW x \in L, NEW u \in Sides, Child(h, u, x) = null,
         NEW c, c = Child(h, Other(u), x), NEW r, Spliced(r, h, x, c)
  PROVE  Shape(r, L \ {x}, Without(d, x), key)
<1> DEFINE M == L \ {x}
           e == Without(d, x)
<1>1. /\ L \subseteq Nodes /\ null \notin L /\ Distinct(L, key) /\ Covers(L, d)
      /\ Rooted(h, L, d) /\ Doubled(h, L) /\ Searchable(h, L, d, key) /\ x \in Nodes /\ x # null
  BY NullFacts DEF Shape
<1>2. \A n \in Nodes \cup {null} : Below(e, n) = Below(d, n) \ {x}
  BY DEF Without, Below
<1>3. e \in [Nodes \cup {null} -> SUBSET M]
  BY <1>1 DEF Without, Covers, Below
<1> HIDE DEF e
<1>4. Covers(M, e)
  BY <1>1, <1>2, <1>3 DEF Covers
<1>5. Other(u) \in Sides /\ \A s \in Sides : s = u \/ s = Other(u)
  BY SidesFacts
<1>6. c \in M \cup {null} /\ (c # null => Parent(h, c) = x)
  BY <1>1, <1>5, ChildFacts DEF Shape, Searchable
<1>7. Below(d, c) = Below(d, x) \ {x}
  <2>1. \A s \in Sides : Below(d, Child(h, s, x)) = {y \in Below(d, x) : On(s, key, y, x)}
    BY <1>1 DEF Searchable
  <2>2. Below(d, c) = {y \in Below(d, x) : On(Other(u), key, y, x)}
    BY <1>5, <2>1
  <2>3. {y \in Below(d, x) : On(u, key, y, x)} = {}
    BY <1>1, <2>1 DEF Covers
  <2>4. ASSUME NEW y \in Below(d, x), y # x PROVE On(Other(u), key, y, x)
    BY <1>1, <1>5, <2>3, <2>4, BelowFacts
  <2>5. ~On(Other(u), key, x, x)
    BY <1>1, <1>5, OnFacts
  <2> QED BY <2>2, <2>4, <2>5
<1>8. PICK p \in L \cup {null} : p = Parent(h, x)
  BY <1>1 DEF Doubled
<1>9. p # null => /\ p # x /\ p \in M /\ p \in Nodes /\ SideOf(h, x) \in Sides
                  /\ Child(h, SideOf(h, x), p) = x /\ x # Root(h)
  BY <1>1, <1>8, ParentFacts
<1>10. Rooted(r, M, e)
  <2>1. CASE p = null
    <3>1. x = Root(h) /\ Below(d, x) = L
      BY <1>1, <1>8, <2>1 DEF Doubled, Rooted
    <3>2. Root(r) = c /\ Below(e, c) = M
      BY <1>1, <1>2, <1>6, <1>7, <1>8, <2>1, <3>1 DEF Spliced
    <3>3. c # null => Parent(r, c) = null
      BY <1>1, <1>6, <1>8, <2>1 DEF Spliced
    <3> QED BY <1>6, <3>2, <3>3 DEF Rooted
  <2>2. CASE p # null
    <3>1. Root(r) = Root(h) /\ Root(h) \in M \cup {null} /\ Below(d, Root(h)) = L
      BY <1>1, <1>8, <1>9, <2>2 DEF Spliced, Rooted
    <3>2. Root(h) # null => Root(h) # c /\ Parent(h, Root(h)) = null
      BY <1>1, <1>6 DEF Rooted
    <3> QED BY <1>1, <1>2, <3>1, <3>2 DEF Spliced, Rooted
  <2> QED BY <2>1, <2>2
<1>11. ASSUME NEW n \in M, NEW s \in Sides, NEW k, k = Child(h, s, n), k # null
       PROVE  Parent(h, k) = n /\ k # c /\ k \in L /\ (k = x => p = n /\ s = SideOf(h, x))
  <2>1. Parent(h, k) = n /\ k \in L /\ k # Child(h, Other(s), n)
    BY <1>11, ChildFacts
  <2>2. k # c
    BY <1>6, <1>11, <2>1
  <2>3. ASSUME k = x PROVE p = n /\ s = SideOf(h, x)
    <3>1. p = n
      BY <1>8, <2>1, <2>3
    <3>2. Child(h, SideOf(h, x), n) = x /\ SideOf(h, x) \in Sides
      BY <1>1, <1>9, <3>1
    <3> QED BY <2>1, <2>3, <3>1, <3>2, <1>11, SidesFacts
  <2> QED BY <2>1, <2>2, <2>3
<1>12. Doubled(r, M)
  <2>1. ASSUME NEW n \in M, NEW s \in Sides, Child(r, s, n) # null PROVE Parent(r, Child(r, s, n)) = n
    <3>1. CASE p # null /\ n = p /\ s = SideOf(h, x)
      <4>1. Child(r, s, n) = c
        BY <1>1, <1>8, <3>1 DEF Spliced
      <4> QED BY <1>1, <1>6, <1>8, <2>1, <3>1, <4>1 DEF Spliced
    <3>2. CASE ~(p # null /\ n = p /\ s = SideOf(h, x))
      <4>1. Child(r, s, n) = Child(h, s, n)
        BY <1>1, <1>8, <3>2 DEF Spliced
      <4>2. Parent(h, Child(h, s, n)) = n /\ Child(h, s, n) # c /\ Child(h, s, n) \in L
        BY <1>11, <2>1, <4>1
      <4> QED BY <1>1, <4>1, <4>2 DEF Spliced
    <3> QED BY <3>1, <3>2
  <2>2. ASSUME NEW n \in M
        PROVE  IF Parent(r, n) = null THEN n = Root(r)
               ELSE Parent(r, n) \in M /\ \E s \in Sides : Child(r, s, Parent(r, n)) = n
    <3>1. CASE n = c
      <4>1. Parent(r, n) = p
        BY <1>1, <1>8, <3>1 DEF Spliced
      <4>2. CASE p = null
        BY <1>8, <3>1, <4>1, <4>2 DEF Spliced
      <4>3. CASE p # null
        <5>1. Child(r, SideOf(h, x), p) = n
          BY <1>8, <1>9, <3>1, <4>3 DEF Spliced
        <5> QED BY <1>9, <4>1, <4>3, <5>1
      <4> QED BY <4>2, <4>3
    <3>2. CASE n # c
      <4>1. Parent(r, n) = Parent(h, n) /\ n \in L
        BY <1>1, <3>2 DEF Spliced
      <4>2. CASE Parent(h, n) = null
        <5>1. n = Root(h)
          BY <1>1, <4>1, <4>2 DEF Doubled
        <5>2. p # null
          BY <1>1, <1>8, <5>1 DEF Doubled
        <5> QED BY <1>8, <4>1, <4>2, <5>1, <5>2 DEF Spliced
      <4>3. CASE Parent(h, n) # null
        <5>1. PICK s \in Sides, q \in L : q = Parent(h, n) /\ Child(h, s, q) = n
          BY <1>1, <4>1, <4>3 DEF Doubled
        <5>2. q # x
          BY <1>1, <1>5, <3>2, <5>1
        <5>3. ~(p # null /\ q = p /\ s = SideOf(h, x))
          BY <1>9, <5>1
        <5>4. Child(r, s, q) = n
          BY <1>1, <1>8, <5>1, <5>3 DEF Spliced
        <5> QED BY <4>1, <4>3, <5>1, <5>2, <5>4
      <4> QED BY <4>2, <4>3
    <3> QED BY <3>1, <3>2
  <2> QED BY <2>1, <2>2 DEF Doubled
<1>13. Searchable(r, M, e, key)
  <2> SUFFICES ASSUME NEW n \in M, NEW s \in Sides
               PROVE  /\ Child(r, s, n) \in M \cup {null}
                      /\ Below(e, Child(r, s, n)) = {y \in Below(e, n) : On(s, key, y, n)}
    BY DEF Searchable
  <2>1. /\ Child(h, s, n) \in L \cup {null}
        /\ Below(d, Child(h, s, n)) = {y \in Below(d, n) : On(s, key, y, n)}
        /\ n \in Nodes
    BY <1>1 DEF Searchable
  <2>2. Below(e, n) = Below(d, n) \ {x}
    BY <1>2, <2>1
  <2>3. CASE p # null /\ n = p /\ s = SideOf(h, x)
    <3>1. Child(r, s, n) = c
      BY <1>8, <2>1, <2>3 DEF Spliced
    <3>2. Child(h, s, n) = x
      BY <1>9, <2>3
    <3>3. Below(e, c) = Below(d, x) \ {x}
      BY <1>1, <1>2, <1>6, <1>7
    <3> QED BY <1>6, <2>1, <2>2, <3>1, <3>2, <3>3
  <2>4. CASE ~(p # null /\ n = p /\ s = SideOf(h, x))
    <3>1. Child(r, s, n) = Child(h, s, n)
      BY <1>8, <2>1, <2>4 DEF Spliced
    <3>2. Child(h, s, n) # x
      BY <1>1, <1>11, <2>4
    <3>3. Below(e, Child(h, s, n)) = Below(d, Child(h, s, n)) \ {x}
      BY <1>1, <1>2, <2>1
    <3> QED BY <2>1, <2>2, <3>1, <3>2, <3>3
  <2> QED BY <2>3, <2>4
<1>14. Distinct(M, key)
  BY <1>1 DEF Distinct
<1> QED BY <1>1, <1>4, <1>10, <1>12, <1>13, <1>14 DEF Shape, e


\* erase of a node without two children faults, or takes it out of the tree.
LEMMA EraseOuterShape ==
  ASSUME NEW h, NEW L, NEW key \in [Nodes -> Nat], Sound(h, L, key),
         NEW x \in L, NEW u \in Sides, Child(h, u, x) = null
  PROVE  /\ EraseOuter(h, x) \in Heaps
         /\ Faulty(EraseOuter(h, x)) \/ Sound(EraseOuter(h, x), L \ {x}, key)
<1> DEFINE c == IF Child(h, "left", x) # null THEN Child(h, "left", x) ELSE Child(h, "right", x)
           w == Splice(h, x, c)
<1>1. EraseOuter(h, x) = IF Color(h, x) = "BLACK" /\ c # null THEN EraseFixup(w, c) ELSE w
  BY Zenon DEF EraseOuter, Splice, Child, Parent, Color
<1>2. h \in Heaps /\ ~Faulty(h) /\ BlackRoot(h)
  BY DEF Sound
<1>3. PICK d : Shape(h, L, d, key)
  BY DEF Sound
<1>4. L \subseteq Nodes /\ null \notin L /\ x \in Nodes
  BY <1>3, NullFacts DEF Shape
<1>5. PICK v \in Sides : Child(h, v, x) = null /\ c = Child(h, Other(v), x)
  BY DEF Sides, Other
<1> HIDE DEF c, w
<1>6. c \in L \cup {null} /\ (c # null => Parent(h, c) = x /\ c # x)
  BY <1>2, <1>3, <1>5, ChildFacts, SidesFacts DEF Shape, Searchable
<1>7. Spliced(w, h, x, c)
  BY <1>2, <1>4, <1>6, SpliceWrites DEF w
<1>8. Shape(w, L \ {x}, Without(d, x), key)
  BY <1>2, <1>3, <1>5, <1>7, SpliceShape
<1>9. w \in Heaps /\ ~Faulty(w)
  BY <1>2, <1>7 DEF Spliced
<1>10. IF Parent(h, x) = null THEN x = Root(h) /\ Root(w) = c ELSE BlackRoot(w)
  <2>1. CASE Parent(h, x) = null
    BY <1>3, <1>7, <2>1 DEF Spliced, Shape, Doubled
  <2>2. CASE Parent(h, x) # null
    <3>1. Root(w) = Root(h) /\ Root(h) \in Nodes
      BY <1>2, <1>7, <2>2, HeapFacts DEF Spliced, BlackRoot
    <3> QED BY <1>2, <1>7, <2>2, <3>1 DEF Spliced, SameColors, BlackRoot
  <2> QED BY <2>1, <2>2
<1>11. CASE Color(h, x) = "BLACK" /\ c # null
  <2>1. c \in L \ {x} /\ (c = Root(w) \/ BlackRoot(w)) /\ EraseOuter(h, x) = EraseFixup(w, c)
    BY <1>1, <1>6, <1>10, <1>11
  <2>2. /\ EraseFixup(w, c) \in Heaps
        /\ Faulty(EraseFixup(w, c)) \/ Balanced(EraseFixup(w, c), L \ {x}, key)
    BY <1>8, <1>9, <2>1, EraseFixupShape
  <2> QED BY <2>1, <2>2, BalancedIsSound
<1>12. CASE ~(Color(h, x) = "BLACK" /\ c # null)
  <2>1. EraseOuter(h, x) = w
    BY <1>1, <1>12
  <2>2. L \ {x} # {} => BlackRoot(w)
    <3>1. CASE Parent(h, x) = null
      <4>1. Color(h, x) = "BLACK"
        BY <1>2, <1>10, <3>1 DEF BlackRoot
      <4>2. Root(w) = null
        BY <1>10, <1>12, <3>1, <4>1
      <4> QED BY <1>8, <4>2 DEF Shape, Rooted, Covers
    <3>2. CASE Parent(h, x) # null
      BY <1>10, <3>2
    <3> QED BY <3>1, <3>2
  <2> QED BY <1>8, <1>9, <2>1, <2>2 DEF Sound
<1> QED BY <1>11, <1>12
-----------------------------------------------------------------------------
\* The first node of a subtree.
LEMMA LeftmostFacts ==
  ASSUME NEW h \in Heaps, NEW L, NEW d, NEW key \in [Nodes -> Nat], Shape(h, L, d, key),
         NEW n \in L, NEW f, f = Leftmost(h, n)
  PROVE  /\ f \in L /\ f \in Below(d, n) /\ Child(h, "left", f) = null
         /\ \A y \in Below(d, n) : y = f \/ On("right", key, y, f)
<1> DEFINE more == {m \in Nodes : Child(h, "left", m) # null}
           body == [m \in more |-> Child(h, "left", m)]
           First(m) == \A y \in Below(d, n) : y \in Below(d, m) \/ On("right", key, y, m)
           Inv == {m \in L : m \in Below(d, n) /\ First(m)}
           left == [m \in Inv |-> Below(d, m)]
<1>1. L \subseteq Nodes /\ Covers(L, d) /\ null \notin L /\ IsFiniteSet(L) /\ Distinct(L, key)
  BY NullFacts, NodesFinite DEF Shape
<1>2. "left" \in Sides /\ "right" \in Sides /\ Other("left") = "right" /\ Other("right") = "left"
  BY DEF Sides, Other
<1>3. f = Loop(Nodes, body)[n]
  BY DEF Leftmost, Child
<1>4. n \in Inv
  BY <1>1 DEF Covers
<1>5. ASSUME NEW m \in Inv \cap more
      PROVE  body[m] \in Inv /\ left[body[m]] \subseteq left[m] /\ left[body[m]] # left[m]
  <2>1. m \in L /\ m \in Below(d, n) /\ First(m) /\ m \in Nodes
    BY <1>5
  <2>2. PICK c \in L : c = Child(h, "left", m) /\ c # null /\ c = body[m]
    BY <1>1, <1>2, <1>5, <2>1 DEF Shape, Searchable
  <2>3. /\ On("left", key, c, m) /\ c \in Below(d, m) /\ m \notin Below(d, c) /\ c \in Nodes
    <3> HIDE DEF Inv, more, body, left
    <3>1. c = Child(h, "left", m) /\ c # null
      BY <2>2
    <3> QED BY <1>2, <2>1, <3>1, ChildFacts
  <2>4. Below(d, c) = {x \in Below(d, m) : On("left", key, x, m)} /\ m \in Below(d, m)
    BY <1>1, <1>2, <2>1, <2>2 DEF Shape, Searchable, Covers
  <2>5. c \in Below(d, n)
    BY <2>1, <2>3, BelowFacts
  <2>6. ASSUME NEW y \in Below(d, n), y \notin Below(d, c) PROVE On("right", key, y, c)
    <3>1. y \in L /\ On("right", key, m, c)
      BY <1>1, <1>2, <2>1, <2>3, OnFacts DEF Covers
    <3>2. y = m \/ On("right", key, y, m)
      BY <1>1, <1>2, <2>1, <2>4, <2>6, <3>1, OnFacts DEF Distinct
    <3> QED BY <1>1, <1>2, <2>1, <2>2, <3>1, <3>2, OnFacts
  <2> QED BY <2>2, <2>3, <2>4, <2>5, <2>6
<1>6. body \in [more -> Nodes]
  BY <1>2, HeapFacts
<1>7. left \in [Inv -> SUBSET L]
  BY <1>1 DEF Covers
<1>8. more \in SUBSET Nodes /\ Inv \in SUBSET Nodes
  BY <1>1
<1>9. f \in Inv \ more
  <2> HIDE DEF more, body, Inv, left
  <2>1. Advances(Nodes, more, body, Inv, L, left)
    BY <1>1, <1>5, <1>6, <1>7, <1>8 DEF Advances
  <2> QED BY <1>3, <1>4, <2>1, LoopEnds
<1>10. Child(h, "left", f) = null /\ f \in L /\ f \in Below(d, n) /\ First(f)
  BY <1>1, <1>9
<1>11. ASSUME NEW y \in Below(d, f), y # f PROVE On("right", key, y, f)
  <2>1. {x \in Below(d, f) : On("left", key, x, f)} = {}
    BY <1>1, <1>2, <1>10 DEF Shape, Searchable, Covers
  <2> QED BY <1>1, <1>2, <1>10, <1>11, <2>1, OnFacts DEF Covers, Distinct
<1> QED BY <1>10, <1>11

-----------------------------------------------------------------------------
\* With y, of which the tree knew nothing, in the place of x.
Substituted(r, h, L, x, y) ==
  /\ r \in Heaps /\ Root(r) = IF Parent(h, x) = null THEN y ELSE Root(h)
  /\ \A m \in (L \ {x}) \cup {y} : Parent(r, m) =
       IF m = y THEN Parent(h, x)
       ELSE IF \E s \in Sides : Child(h, s, x) = m THEN y ELSE Parent(h, m)
  /\ \A s \in Sides, m \in (L \ {x}) \cup {y} : Child(r, s, m) =
       IF m = y THEN Child(h, s, x)
       ELSE IF Child(h, s, m) = x THEN y ELSE Child(h, s, m)

Instead(d, x, y) ==
  [n \in Nodes \cup {null} |->
     IF n = null THEN {} ELSE IF n = y THEN (d[x] \ {x}) \cup {y}
     ELSE IF x \in d[n] THEN (d[n] \ {x}) \cup {y} ELSE d[n] \ {x}]

LEMMA SubstitutedShape ==
  ASSUME NEW h \in Heaps, NEW L, NEW d, NEW key \in [Nodes -> Nat], Shape(h, L, d, key),
         NEW x \in L, NEW y \in Nodes \ L, Distinct(L \cup {y}, key),
         \A n \in L \ {x}, s \in Sides : x \in Below(d, n) => (On(s, key, x, n) <=> On(s, key, y, n)),
         \A z \in Below(d, x) \ {x}, s \in Sides : On(s, key, z, x) <=> On(s, key, z, y),
         NEW r, Substituted(r, h, L, x, y)
  PROVE  Shape(r, (L \ {x}) \cup {y}, Instead(d, x, y), key)
<1> DEFINE M == (L \ {x}) \cup {y}
           e == Instead(d, x, y)
<1>1. /\ L \subseteq Nodes /\ null \notin L /\ Covers(L, d) /\ x # y /\ y # null
      /\ Rooted(h, L, d) /\ Doubled(h, L) /\ Searchable(h, L, d, key) /\ x \in Nodes /\ x # null
  BY NullFacts DEF Shape
<1>2. /\ Below(e, null) = {} /\ Below(e, y) = (Below(d, x) \ {x}) \cup {y}
      /\ \A n \in L : Below(e, n) = IF x \in Below(d, n) THEN (Below(d, n) \ {x}) \cup {y}
                                    ELSE Below(d, n)
  BY <1>1 DEF Instead, Below
<1>3. e \in [Nodes \cup {null} -> SUBSET M]
  BY <1>1 DEF Instead, Covers, Below
<1> HIDE DEF e
<1>4. \A n \in L : Below(d, n) \subseteq L /\ n \in Below(d, n)
  BY <1>1 DEF Covers
<1>5. Covers(M, e)
  BY <1>1, <1>2, <1>3, <1>4 DEF Covers, Below
<1>6. Distinct(M, key)
  BY DEF Distinct
<1>7. Rooted(r, M, e)
  <2>1. CASE Parent(h, x) = null
    <3>1. x = Root(h)
      BY <1>1, <2>1 DEF Doubled
    <3> QED BY <1>1, <1>2, <2>1, <3>1 DEF Substituted, Rooted
  <2>2. CASE Parent(h, x) # null
    <3>1. Root(h) \in L /\ Root(h) # x /\ Below(d, Root(h)) = L /\ Parent(h, Root(h)) = null
      BY <1>1, <2>2, RootFacts DEF Rooted
    <3>2. \A s \in Sides : Child(h, s, x) # Root(h)
      BY <1>1, <3>1, ChildFacts
    <3>3. Root(r) = Root(h) /\ Parent(r, Root(h)) = null
      BY <1>1, <2>2, <3>1, <3>2 DEF Substituted
    <3> QED BY <1>1, <1>2, <3>1, <3>3 DEF Rooted
  <2> QED BY <2>1, <2>2
<1>8. \A n \in L, s \in Sides :
        /\ Child(h, s, n) \in L \cup {null} /\ Child(h, s, n) # n
        /\ Child(h, s, n) # null => Parent(h, Child(h, s, n)) = n
  BY <1>1, ChildFacts DEF Searchable
<1>9. Doubled(r, M)
  <2>1. ASSUME NEW n \in M, NEW s \in Sides, Child(r, s, n) # null PROVE Parent(r, Child(r, s, n)) = n
    <3>1. CASE n = y
      <4>1. PICK c : c = Child(r, s, n) /\ c = Child(h, s, x)
        BY <3>1 DEF Substituted
      <4>2. c \in M /\ c # y /\ c # x
        BY <1>1, <1>8, <2>1, <4>1
      <4> QED BY <3>1, <4>1, <4>2 DEF Substituted
    <3>2. CASE n # y /\ Child(h, s, n) = x
      <4>1. Child(r, s, n) = y /\ Parent(r, y) = Parent(h, x)
        BY <3>2 DEF Substituted
      <4> QED BY <1>1, <1>8, <3>2, <4>1
    <3>3. CASE n # y /\ Child(h, s, n) # x
      <4>1. PICK c : c = Child(r, s, n) /\ c = Child(h, s, n)
        BY <3>3 DEF Substituted
      <4>2. c \in M /\ c # y /\ c # x /\ Parent(h, c) = n
        BY <1>1, <1>8, <2>1, <3>3, <4>1
      <4>3. ~ \E t \in Sides : Child(h, t, x) = c
        BY <1>1, <1>8, <2>1, <3>3, <4>1, <4>2
      <4> QED BY <4>1, <4>2, <4>3 DEF Substituted
    <3> QED BY <3>1, <3>2, <3>3
  <2>2. ASSUME NEW n \in M
        PROVE  IF Parent(r, n) = null THEN n = Root(r)
               ELSE Parent(r, n) \in M /\ \E s \in Sides : Child(r, s, Parent(r, n)) = n
    <3>1. CASE n = y
      <4>1. Parent(r, n) = Parent(h, x)
        BY <3>1 DEF Substituted
      <4>2. CASE Parent(h, x) = null
        BY <3>1, <4>1, <4>2 DEF Substituted
      <4>3. CASE Parent(h, x) # null
        <5>1. PICK s \in Sides, q \in L : q = Parent(h, x) /\ Child(h, s, q) = x
          BY <1>1, <4>3 DEF Doubled
        <5>2. q # x /\ q # y
          BY <1>1, <1>8, <5>1
        <5>3. Child(r, s, q) = y
          BY <5>1, <5>2 DEF Substituted
        <5> QED BY <3>1, <4>1, <4>3, <5>1, <5>2, <5>3
      <4> QED BY <4>2, <4>3
    <3>2. CASE n # y /\ \E s \in Sides : Child(h, s, x) = n
      <4>1. PICK s \in Sides : Child(h, s, x) = n
        BY <3>2
      <4>2. Parent(r, n) = y /\ Child(r, s, y) = n
        BY <3>2, <4>1 DEF Substituted
      <4> QED BY <1>1, <4>2
    <3>3. CASE n # y /\ ~ \E s \in Sides : Child(h, s, x) = n
      <4>1. Parent(r, n) = Parent(h, n) /\ n \in L /\ n # x
        BY <3>3 DEF Substituted
      <4>2. CASE Parent(h, n) = null
        <5>1. n = Root(h) /\ Parent(h, x) # null
          BY <1>1, <4>1, <4>2 DEF Doubled
        <5> QED BY <4>1, <4>2, <5>1 DEF Substituted
      <4>3. CASE Parent(h, n) # null
        <5>1. PICK s \in Sides, q \in L : q = Parent(h, n) /\ Child(h, s, q) = n
          BY <1>1, <4>1, <4>3 DEF Doubled
        <5>2. q # x /\ q # y
          BY <3>3, <5>1
        <5>3. Child(r, s, q) = n
          BY <4>1, <5>1, <5>2 DEF Substituted
        <5> QED BY <4>1, <4>3, <5>1, <5>2, <5>3
      <4> QED BY <4>2, <4>3
    <3> QED BY <3>1, <3>2, <3>3
  <2> QED BY <2>1, <2>2 DEF Doubled
<1>10. Searchable(r, M, e, key)
  <2> SUFFICES ASSUME NEW n \in M, NEW s \in Sides
               PROVE  /\ Child(r, s, n) \in M \cup {null}
                      /\ Below(e, Child(r, s, n)) = {z \in Below(e, n) : On(s, key, z, n)}
    BY DEF Searchable
  <2>1. CASE n = y
    <3>1. PICK c : c = Child(r, s, n) /\ c = Child(h, s, x)
      BY <2>1 DEF Substituted
    <3>2. c \in (L \ {x}) \cup {null} /\ Below(d, c) = {z \in Below(d, x) : On(s, key, z, x)}
      BY <1>1, <1>8, <3>1 DEF Searchable
    <3>3. ~On(s, key, x, x) /\ ~On(s, key, y, y)
      BY <1>1, OnFacts
    <3>4. Below(e, c) = Below(d, c)
      BY <1>1, <1>2, <3>2, <3>3 DEF Covers
    <3>5. {z \in Below(d, x) : On(s, key, z, x)} = {z \in Below(e, y) : On(s, key, z, y)}
      BY <1>2, <1>4, <3>3
    <3> QED BY <2>1, <3>1, <3>2, <3>4, <3>5
  <2>2. CASE n # y
    <3>1. /\ n \in L /\ n # x /\ Child(h, s, n) \in L \cup {null}
          /\ Below(d, Child(h, s, n)) = {z \in Below(d, n) : On(s, key, z, n)}
      BY <1>1, <2>2 DEF Searchable
    <3>2. CASE Child(h, s, n) = x
      <4>1. Child(r, s, n) = y
        BY <2>2, <3>2 DEF Substituted
      <4>2. x \in Below(d, n) /\ On(s, key, x, n) /\ On(s, key, y, n)
        BY <1>4, <3>1, <3>2
      <4> QED BY <1>1, <1>2, <1>4, <3>1, <3>2, <4>1, <4>2
    <3>3. CASE Child(h, s, n) # x
      <4>1. Child(r, s, n) = Child(h, s, n)
        BY <2>2, <3>3 DEF Substituted
      <4>2. CASE x \in Below(d, n)
        <5>1. On(s, key, x, n) <=> On(s, key, y, n)
          BY <3>1, <4>2
        <5>2. Below(e, Child(h, s, n)) =
                IF On(s, key, x, n) THEN (Below(d, Child(h, s, n)) \ {x}) \cup {y}
                ELSE Below(d, Child(h, s, n))
          BY <1>1, <1>2, <3>1, <4>2 DEF Covers
        <5> QED BY <1>1, <1>2, <1>4, <3>1, <3>3, <4>1, <4>2, <5>1, <5>2
      <4>3. CASE x \notin Below(d, n)
        <5>1. Below(e, Child(h, s, n)) = Below(d, Child(h, s, n))
          BY <1>1, <1>2, <3>1, <4>3 DEF Covers
        <5> QED BY <1>1, <1>2, <3>1, <3>3, <4>1, <4>3, <5>1
      <4> QED BY <4>2, <4>3
    <3> QED BY <3>2, <3>3
  <2> QED BY <2>1, <2>2
<1> QED BY <1>1, <1>5, <1>6, <1>7, <1>9, <1>10 DEF Shape, e


Detached(r, h, y, right) ==
  /\ r \in Heaps /\ Root(r) = Root(h) /\ Faulty(r) = Faulty(h) /\ SameColors(r, h)
  /\ \A m \in Nodes : Parent(r, m) = IF m = right THEN y ELSE Parent(h, m)
  /\ \A s \in Sides, m \in Nodes : Child(r, s, m) =
       IF s = "right" /\ m = y THEN right
       ELSE IF s = "left" /\ m = Parent(h, y) THEN Child(h, "right", y) ELSE Child(h, s, m)

LEMMA DetachWrites ==
  ASSUME NEW h \in Heaps, NEW y \in Nodes, NEW right \in Nodes, Parent(h, y) # null
  PROVE  Detached(Detach(h, y, right), h, y, right)
<1>1. PICK q \in Nodes : q = h.parent[y]
  BY DEF Heaps, Parent
<1>2. PICK k \in Nodes \cup {null} : k = h.child["right"][y]
  BY DEF Heaps, Sides
<1> DEFINE r1 == WithChild(h, "left", q, k)
           r2 == WithChild(r1, "right", y, right)
           r3 == WithParent(r2, right, y)
<1>3. Detach(h, y, right) = r3
  BY <1>1, <1>2 DEF Heaps, Detach, WithChild, WithParent
<1> HIDE DEF r1, r2, r3
<1>4. "left" \in Sides /\ "right" \in Sides /\ y \in Nodes \cup {null} /\ right \in Nodes \cup {null}
  BY DEF Sides
<1>5. ChildSet(r1, h, "left", q, k)
  BY <1>4, WithChildWrites DEF r1
<1>6. ChildSet(r2, r1, "right", y, right)
  BY <1>4, <1>5, WithChildWrites DEF r2, ChildSet
<1>7. ParentSet(r3, r2, right, y)
  BY <1>4, <1>6, WithParentWrites DEF r3, ChildSet
<1>8. q = Parent(h, y) /\ k = Child(h, "right", y)
  BY <1>1, <1>2 DEF Parent, Child
<1> QED BY <1>3, <1>4, <1>5, <1>6, <1>7, <1>8
        DEF ChildSet, ParentSet, Detached, SameColors, SameParents, SameChildren

Replaced(r, h, x, y) ==
  /\ r \in Heaps /\ Root(r) = Root(h) /\ Faulty(r) = Faulty(h)
  /\ \A m \in Nodes : Color(r, m) = IF m = x THEN Color(h, y)
                                    ELSE IF m = y THEN Color(h, x) ELSE Color(h, m)
  /\ \A m \in Nodes : Parent(r, m) = IF m = y THEN Parent(h, x)
                                     ELSE IF m = Child(h, "left", x) THEN y ELSE Parent(h, m)
  /\ \A s \in Sides, m \in Nodes : Child(r, s, m) =
       IF s = "left" /\ m = y THEN Child(h, "left", x) ELSE Child(h, s, m)

LEMMA ReplaceWrites ==
  ASSUME NEW h \in Heaps, NEW x \in Nodes, NEW y \in Nodes, x # y, Child(h, "left", x) # null
  PROVE  Replaced(Replace(h, x, y), h, x, y)
<1>1. PICK l \in Nodes : l = h.child["left"][x]
  BY DEF Heaps, Sides, Child
<1>2. PICK p \in Nodes \cup {null} : p = h.parent[x]
  BY DEF Heaps
<1>3. PICK cx \in Colors : cx = h.color[x]
  BY DEF Heaps
<1>4. PICK cy \in Colors : cy = h.color[y]
  BY DEF Heaps
<1> DEFINE r1 == WithChild(h, "left", y, l)
           r2 == WithParent(r1, l, y)
           r3 == WithParent(r2, y, p)
           r4 == Paint(r3, y, cx)
           r5 == Paint(r4, x, cy)
<1>5. Replace(h, x, y) = r5
  BY <1>1, <1>2, <1>3, <1>4 DEF Heaps, Replace, WithChild, WithParent, Paint
<1> HIDE DEF r1, r2, r3, r4, r5
<1>6. "left" \in Sides /\ y \in Nodes \cup {null} /\ l \in Nodes \cup {null}
  BY DEF Sides
<1>7. ChildSet(r1, h, "left", y, l)
  BY <1>6, WithChildWrites DEF r1
<1>8. ParentSet(r2, r1, l, y)
  BY <1>6, <1>7, WithParentWrites DEF r2, ChildSet
<1>9. ParentSet(r3, r2, y, p)
  BY <1>8, WithParentWrites DEF r3, ParentSet
<1>10. ColorSet(r4, r3, y, cx)
  BY <1>9, PaintWrites DEF r4, ParentSet
<1>11. ColorSet(r5, r4, x, cy)
  BY <1>10, PaintWrites DEF r5, ColorSet
<1>12. l = Child(h, "left", x) /\ p = Parent(h, x) /\ cx = Color(h, x) /\ cy = Color(h, y)
  BY <1>1, <1>2, <1>3, <1>4 DEF Parent, Child, Color
<1>13. /\ r5 \in Heaps /\ Root(r5) = Root(h) /\ Faulty(r5) = Faulty(h)
       /\ \A s \in Sides, m \in Nodes : Child(r5, s, m) =
            IF s = "left" /\ m = y THEN Child(h, "left", x) ELSE Child(h, s, m)
  BY <1>7, <1>8, <1>9, <1>10, <1>11, <1>12 DEF ChildSet, ParentSet, ColorSet, SameChildren
<1>14. \A m \in Nodes : Color(r5, m) = IF m = x THEN Color(h, y)
                                      ELSE IF m = y THEN Color(h, x) ELSE Color(h, m)
  BY <1>7, <1>8, <1>9, <1>10, <1>11, <1>12 DEF ChildSet, ParentSet, ColorSet, SameColors
<1>15. \A m \in Nodes : Parent(r5, m) = IF m = y THEN Parent(h, x)
                                       ELSE IF m = Child(h, "left", x) THEN y ELSE Parent(h, m)
  BY <1>7, <1>8, <1>9, <1>10, <1>11, <1>12 DEF ChildSet, ParentSet, ColorSet, SameParents
<1> QED BY <1>5, <1>13, <1>14, <1>15 DEF Replaced

\* The heap after erase of x, which the first node y of its right subtree replaces,
\* is the heap without y where y is then put in the place of x.
LEMMA EraseInnerWrites ==
  ASSUME NEW h \in Heaps, NEW L, NEW d, NEW key \in [Nodes -> Nat], Shape(h, L, d, key),
         NEW x \in L, NEW l, l = Child(h, "left", x), l # null,
         NEW right, right = Child(h, "right", x), right # null,
         NEW y, y = Leftmost(h, right), NEW k, k = Child(h, "right", y),
         NEW g, g = Splice(h, y, k), NEW r, r = EraseInner(h, x)
  PROVE  /\ Substituted(r, g, L \ {y}, x, y)
         /\ Faulty(r) = Faulty(h)
         /\ \A m \in Nodes : Color(r, m) = IF m = x THEN Color(h, y)
                                           ELSE IF m = y THEN Color(h, x) ELSE Color(h, m)
<1> DEFINE q == Parent(h, y)
           a == Adopt(h, k, q)
           t == IF y = right THEN h ELSE Detach(a, y, right)
           u == Relink(t, x, y)
<1>1. r = Replace(u, x, y)
  BY Zenon DEF EraseInner, Child, Parent
<1> HIDE DEF q, a, t, u
<1>2. /\ L \subseteq Nodes /\ null \notin L /\ x \in Nodes
      /\ "left" \in Sides /\ "right" \in Sides /\ Other("left") = "right" /\ Other("right") = "left"
      /\ "left" # "right"
  BY NullFacts DEF Shape, Sides, Other
<1>3. /\ l \in L /\ l # x /\ Parent(h, l) = x /\ l # right
  BY <1>2, ChildFacts
<1>4. /\ right \in L /\ right # x /\ Parent(h, right) = x /\ right \in Below(d, x)
      /\ x \notin Below(d, right) /\ On("right", key, right, x)
      /\ Below(d, right) = {z \in Below(d, x) : On("right", key, z, x)}
  BY <1>2, ChildFacts DEF Shape, Searchable
<1>5. /\ y \in L /\ y \in Below(d, right) /\ Child(h, "left", y) = null
      /\ \A z \in Below(d, right) : z = y \/ On("right", key, z, y)
  BY <1>4, LeftmostFacts
<1>6. y # x /\ y # l /\ On("right", key, y, x)
  <2>1. On("left", key, l, x)
    BY <1>2, ChildFacts
  <2> QED BY <1>2, <1>3, <1>4, <1>5, <2>1, OnFacts
<1>7. y # Root(h) /\ q \in L /\ q = Parent(h, y)
  <2>1. y \in Below(d, x)
    BY <1>4, <1>5
  <2>2. y # Root(h)
    BY <1>6, <2>1, RootFacts
  <2> QED BY <1>2, <1>5, <2>2 DEF Shape, Doubled, q
<1>8. /\ SideOf(h, y) \in Sides /\ Child(h, SideOf(h, y), q) = y /\ q # y
  BY <1>2, <1>5, <1>7, ParentFacts
<1>9. IF y = right THEN q = x /\ SideOf(h, y) = "right"
      ELSE q # x /\ q \in Below(d, right) /\ SideOf(h, y) = "left"
  <2>1. CASE y = right
    <3>1. q = x
      BY <1>4, <1>7, <2>1
    <3>2. Child(h, "left", x) # y
      BY <1>3, <2>1
    <3> QED BY <1>8, <2>1, <3>1, <3>2, SidesFacts DEF Sides
  <2>2. CASE y # right
    <3>1. q \in Below(d, right)
      BY <1>4, <1>5, <1>7, <2>2, BelowFacts
    <3>2. On("right", key, q, y)
      BY <1>5, <1>8, <3>1
    <3>3. ~On("right", key, y, q)
      BY <1>2, <1>5, <1>7, <3>2, OnFacts
    <3>4. SideOf(h, y) # "right"
      BY <1>2, <1>5, <1>7, <1>8, <3>3, ChildFacts
    <3> QED BY <1>4, <1>8, <2>2, <3>1, <3>4 DEF Sides
  <2> QED BY <2>1, <2>2
<1>10. /\ k \in L \cup {null} /\ k # y /\ k # x /\ k # l
       /\ k # null => Parent(h, k) = y
  <2>1. k \in L \cup {null}
    BY <1>2, <1>5 DEF Shape, Searchable
  <2>2. CASE k = null
    BY <1>2, <1>3, <1>5, <2>1, <2>2
  <2>3. CASE k # null
    <3>1. Parent(h, k) = y /\ k # y /\ k \in Below(d, y) /\ k \in Nodes
      BY <1>2, <1>5, <2>3, ChildFacts
    <3>2. k \in Below(d, right)
      BY <1>4, <1>5, <3>1, BelowFacts
    <3> QED BY <1>3, <1>4, <1>6, <2>1, <3>1, <3>2
  <2> QED BY <2>2, <2>3
<1>11. PICK p \in L \cup {null} : p = Parent(h, x)
  BY DEF Shape, Doubled
<1>12. /\ p # x /\ p # y /\ p \notin Below(d, x)
       /\ p # null => /\ SideOf(h, x) \in Sides /\ Child(h, SideOf(h, x), p) = x
                      /\ p \in Nodes
  <2>1. CASE p = null
    BY <1>2, <1>5, <1>11, <2>1 DEF Shape, Covers
  <2>2. CASE p # null
    <3>1. p \notin Below(d, x) /\ p # x
      BY <1>2, <1>11, <2>2, ClimbFact, ParentFacts
    <3>2. y \in Below(d, x)
      BY <1>4, <1>5
    <3> QED BY <1>2, <1>11, <2>2, <3>1, <3>2, ParentFacts
  <2> QED BY <2>1, <2>2
<1>13. Spliced(g, h, y, k)
  BY <1>2, <1>5, <1>10, SpliceWrites
<1>14. /\ Parent(g, x) = p /\ Root(g) = Root(h)
       /\ Child(g, "left", x) = l /\ Child(g, "right", x) = IF y = right THEN k ELSE right
  BY <1>2, <1>7, <1>9, <1>10, <1>11, <1>13 DEF Spliced
<1>15. Detached(t, a, y, right) \/ (y = right /\ t = h)
  <2>1. ParentSet(a, h, k, q)
    BY <1>2, <1>7, <1>10, AdoptWrites DEF a
  <2>2. Parent(a, y) = q
    BY <1>2, <1>5, <1>7, <1>10, <2>1 DEF ParentSet
  <2>3. Detached(Detach(a, y, right), a, y, right)
    BY <1>2, <1>4, <1>5, <1>7, <2>1, <2>2, DetachWrites DEF ParentSet
  <2> QED BY <2>3 DEF t
<1>16. /\ t \in Heaps /\ Root(t) = Root(h) /\ Faulty(t) = Faulty(h) /\ SameColors(t, h)
       /\ \A m \in Nodes : Parent(t, m) = IF y # right /\ m = right THEN y
                                          ELSE IF y # right /\ m = k THEN q ELSE Parent(h, m)
       /\ \A s \in Sides, m \in Nodes : Child(t, s, m) =
            IF y # right /\ s = "right" /\ m = y THEN right
            ELSE IF y # right /\ s = "left" /\ m = q THEN k ELSE Child(h, s, m)
  <2>1. CASE y = right
    BY <1>2, <1>15, <2>1 DEF t, SameColors
  <2>2. CASE y # right
    <3>1. ParentSet(a, h, k, q)
      BY <1>2, <1>7, <1>10, AdoptWrites DEF a
    <3>2. Parent(a, y) = q /\ Child(a, "right", y) = k
      BY <1>2, <1>5, <1>7, <1>10, <3>1 DEF ParentSet, SameChildren
    <3>3. Detached(t, a, y, right)
      BY <1>15, <2>2
    <3> QED BY <2>2, <3>1, <3>2, <3>3 DEF ParentSet, Detached, SameColors, SameChildren
  <2> QED BY <2>1, <2>2
<1>17. Parent(t, x) = p /\ (p # null => SideOf(t, x) = SideOf(h, x))
  <2>1. Parent(t, x) = p
    BY <1>2, <1>4, <1>10, <1>11, <1>16
  <2>2. ASSUME p # null PROVE SideOf(t, x) = SideOf(h, x)
    <3>1. p # q \/ y = right
      <4>1. q \in Below(d, right) => q \in Below(d, x)
        BY <1>4
      <4> QED BY <1>9, <1>12, <4>1
    <3>2. Child(t, "left", p) = Child(h, "left", p)
      BY <1>2, <1>12, <1>16, <2>2, <3>1
    <3> QED BY <1>11, <2>1, <3>2, SideOfFact
  <2> QED BY <2>1, <2>2
<1>18. Relinked(u, t, x, y)
  BY <1>2, <1>5, <1>16, RelinkWrites DEF u
<1>19. Child(u, "left", x) = l
  BY <1>2, <1>6, <1>9, <1>12, <1>16, <1>17, <1>18 DEF Relinked
<1>20. Replaced(r, u, x, y)
  BY <1>1, <1>2, <1>5, <1>6, <1>18, <1>19, ReplaceWrites DEF Relinked
<1>21. /\ r \in Heaps /\ Faulty(r) = Faulty(h)
       /\ Root(r) = IF p = null THEN y ELSE Root(h)
       /\ \A m \in Nodes : Color(r, m) = IF m = x THEN Color(h, y)
                                         ELSE IF m = y THEN Color(h, x) ELSE Color(h, m)
  BY <1>2, <1>5, <1>16, <1>17, <1>18, <1>20 DEF Replaced, Relinked, SameColors
<1>22. \A m \in Nodes : Parent(r, m) = IF m = y THEN p ELSE IF m = l THEN y
                                       ELSE IF y # right /\ m = right THEN y
                                       ELSE IF y # right /\ m = k THEN q ELSE Parent(h, m)
  BY <1>2, <1>16, <1>17, <1>18, <1>19, <1>20 DEF Replaced, Relinked, SameParents
<1>23. \A s \in Sides, m \in Nodes : Child(r, s, m) =
         IF s = "left" /\ m = y THEN l
         ELSE IF p # null /\ s = SideOf(h, x) /\ m = p THEN y
         ELSE IF y # right /\ s = "right" /\ m = y THEN right
         ELSE IF y # right /\ s = "left" /\ m = q THEN k ELSE Child(h, s, m)
  BY <1>16, <1>17, <1>18, <1>19, <1>20 DEF Replaced, Relinked
<1>24. ASSUME NEW m \in ((L \ {y}) \ {x}) \cup {y}
       PROVE  Parent(r, m) = IF m = y THEN Parent(g, x)
                             ELSE IF \E s \in Sides : Child(g, s, x) = m THEN y ELSE Parent(g, m)
  <2>1. m \in Nodes /\ m \in L /\ m # x /\ m # null
    BY <1>2, <1>5, <1>6, <1>24
  <2>2. CASE m = y
    BY <1>14, <1>22, <2>1, <2>2
  <2>3. CASE m # y /\ m = l
    BY <1>2, <1>14, <1>22, <2>1, <2>3
  <2>4. CASE m # y /\ m # l /\ y = right
    <3>1. (\E s \in Sides : Child(g, s, x) = m) <=> m = k
      BY <1>2, <1>14, <2>4 DEF Sides
    <3>2. m # k => Parent(g, m) = Parent(h, m)
      BY <1>13, <2>1 DEF Spliced
    <3> QED BY <1>10, <1>22, <2>1, <2>4, <3>1, <3>2
  <2>5. CASE m # y /\ m # l /\ y # right
    <3>1. (\E s \in Sides : Child(g, s, x) = m) <=> m = right
      BY <1>2, <1>14, <2>5 DEF Sides
    <3>2. Parent(g, m) = IF m = k THEN q ELSE Parent(h, m)
      BY <1>7, <1>13, <2>1 DEF Spliced
    <3> QED BY <1>22, <2>1, <2>5, <3>1, <3>2
  <2> QED BY <2>2, <2>3, <2>4, <2>5
<1>25. ASSUME NEW s \in Sides, NEW m \in ((L \ {y}) \ {x}) \cup {y}
       PROVE  Child(r, s, m) = IF m = y THEN Child(g, s, x)
                               ELSE IF Child(g, s, m) = x THEN y ELSE Child(g, s, m)
  <2>1. m \in Nodes /\ m \in L /\ m # x /\ m # null
    BY <1>2, <1>5, <1>6, <1>25
  <2>2. CASE m = y
    BY <1>2, <1>5, <1>8, <1>12, <1>14, <1>23, <2>1, <2>2 DEF Sides
  <2>3. CASE m # y
    <3>1. Child(g, s, m) = IF y # right /\ s = "left" /\ m = q THEN k ELSE Child(h, s, m)
      BY <1>2, <1>7, <1>9, <1>13, <2>1, <2>3 DEF Spliced
    <3>2. Child(h, s, m) = x <=> (p # null /\ s = SideOf(h, x) /\ m = p)
      <4>1. ASSUME Child(h, s, m) = x PROVE p # null /\ s = SideOf(h, x) /\ m = p
        <5>1. Parent(h, x) = m /\ x # Child(h, Other(s), m)
          BY <1>2, <2>1, <4>1, ChildFacts
        <5>2. p = m /\ p # null
          BY <1>11, <2>1, <5>1
        <5> QED BY <1>12, <5>1, <5>2, SidesFacts
      <4> QED BY <1>12, <4>1
    <3>3. CASE y # right /\ s = "left" /\ m = q
      <4>1. ~(p # null /\ s = SideOf(h, x) /\ m = p)
        BY <1>4, <1>9, <1>12, <3>3
      <4> QED BY <1>10, <1>23, <2>1, <2>3, <3>1, <3>3, <4>1
    <3>4. CASE ~(y # right /\ s = "left" /\ m = q)
      BY <1>23, <2>1, <2>3, <3>1, <3>2, <3>4
    <3> QED BY <3>3, <3>4
  <2> QED BY <2>2, <2>3
<1>26. Root(r) = IF Parent(g, x) = null THEN y ELSE Root(g)
  BY <1>14, <1>21
<1> QED BY <1>21, <1>24, <1>25, <1>26 DEF Substituted


\* erase of a node with two children never faults, and takes it out of the tree.
LEMMA EraseInnerShape ==
  ASSUME NEW h, NEW L, NEW key \in [Nodes -> Nat], Sound(h, L, key),
         NEW x \in L, \A s \in Sides : Child(h, s, x) # null
  PROVE  Sound(EraseInner(h, x), L \ {x}, key)
<1>1. h \in Heaps /\ ~Faulty(h) /\ BlackRoot(h)
  BY DEF Sound
<1>2. PICK d : Shape(h, L, d, key)
  BY DEF Sound
<1> DEFINE r == EraseInner(h, x)
<1> HIDE DEF r
<1>3. PICK l, right, y, k, g :
        /\ l = Child(h, "left", x) /\ l # null
        /\ right = Child(h, "right", x) /\ right # null
        /\ y = Leftmost(h, right) /\ k = Child(h, "right", y) /\ g = Splice(h, y, k)
  BY DEF Sides
<1>4. /\ Substituted(r, g, L \ {y}, x, y)
      /\ Faulty(r) = Faulty(h)
      /\ \A m \in Nodes : Color(r, m) = IF m = x THEN Color(h, y)
                                        ELSE IF m = y THEN Color(h, x) ELSE Color(h, m)
  BY <1>1, <1>2, <1>3, EraseInnerWrites DEF r
<1>5. /\ L \subseteq Nodes /\ null \notin L /\ x \in Nodes /\ Distinct(L, key)
      /\ "left" \in Sides /\ "right" \in Sides /\ Other("left") = "right"
      /\ \A s \in Sides : s = "left" \/ s = "right"
  BY <1>2, NullFacts DEF Shape, Sides, Other
<1>6. /\ right \in L /\ right \in Below(d, x) /\ On("right", key, right, x)
      /\ Below(d, right) = {z \in Below(d, x) : On("right", key, z, x)}
  BY <1>1, <1>2, <1>3, <1>5, ChildFacts DEF Shape, Searchable
<1>7. /\ y \in L /\ y \in Below(d, right) /\ Child(h, "left", y) = null
      /\ \A z \in Below(d, right) : z = y \/ On("right", key, z, y)
  BY <1>1, <1>2, <1>3, <1>6, LeftmostFacts
<1>8. y \in Below(d, x) /\ On("right", key, y, x) /\ y # x /\ y \in Nodes
  BY <1>5, <1>6, <1>7, OnFacts
<1>9. Spliced(g, h, y, k)
  <2>1. k \in Nodes \cup {null}
    BY <1>1, <1>3, <1>5, <1>8, HeapFacts
  <2> QED BY <1>1, <1>3, <1>8, <2>1, SpliceWrites
<1>10. Shape(g, L \ {y}, Without(d, y), key) /\ g \in Heaps
  <2>1. k = Child(h, Other("left"), y)
    BY <1>3, <1>5
  <2> QED BY <1>1, <1>2, <1>5, <1>7, <1>9, <2>1, SpliceShape DEF Spliced
<1>11. \A n \in L : Below(Without(d, y), n) = Below(d, n) \ {y}
  BY <1>5 DEF Without, Below
<1>12. ASSUME NEW n \in (L \ {y}) \ {x}, NEW s \in Sides, x \in Below(Without(d, y), n)
       PROVE  On(s, key, x, n) <=> On(s, key, y, n)
  <2>1. x \in Below(d, n) /\ n \in L /\ n # x /\ n \in Nodes
    BY <1>5, <1>11, <1>12
  <2>2. PICK u \in Sides : On(u, key, x, n) /\ Child(h, u, n) \in L /\ x \in Below(d, Child(h, u, n))
    BY <1>1, <1>2, <2>1, BelowFacts
  <2>3. y \in Below(d, Child(h, u, n))
    BY <1>1, <1>2, <1>8, <2>2, BelowFacts
  <2>4. On(u, key, y, n)
    BY <1>2, <2>1, <2>3 DEF Shape, Searchable
  <2> QED BY <1>5, <1>8, <2>1, <2>2, <2>4, OnFacts, SidesFacts
<1>13. ASSUME NEW z \in Below(Without(d, y), x) \ {x}, NEW s \in Sides
       PROVE  On(s, key, z, x) <=> On(s, key, z, y)
  <2>1. z \in Below(d, x) /\ z # x /\ z # y
    BY <1>11, <1>13
  <2>2. z \in L /\ z \in Nodes
    BY <1>1, <1>2, <1>5, <2>1, BelowFacts
  <2>3. CASE On("right", key, z, x)
    <3>1. On("right", key, z, y)
      BY <1>6, <1>7, <2>1, <2>3
    <3> QED BY <1>5, <1>8, <2>2, <2>3, <3>1, OnFacts
  <2>4. CASE ~On("right", key, z, x)
    <3>1. On("left", key, z, x)
      BY <1>5, <2>1, <2>2, <2>4, OnFacts DEF Distinct
    <3>2. On("right", key, y, z)
      BY <1>5, <1>8, <2>2, <3>1 DEF On
    <3>3. On("left", key, z, y)
      BY <1>5, <1>8, <2>2, <3>2 DEF On
    <3> QED BY <1>5, <1>8, <2>2, <3>1, <3>3, OnFacts
  <2> QED BY <2>3, <2>4
<1>14. /\ x \in L \ {y} /\ y \in Nodes \ (L \ {y}) /\ (L \ {y}) \cup {y} = L
       /\ ((L \ {y}) \ {x}) \cup {y} = L \ {x}
  BY <1>7, <1>8
<1>15. Shape(r, L \ {x}, Instead(Without(d, y), x, y), key)
  <2> DEFINE K == L \ {y}
             e == Without(d, y)
  <2>1. /\ Shape(g, K, e, key) /\ x \in K /\ y \in Nodes \ K /\ Distinct(K \cup {y}, key)
        /\ Substituted(r, g, K, x, y)
    BY <1>4, <1>5, <1>10, <1>14
  <2>2. \A n \in K \ {x}, s \in Sides : x \in Below(e, n) => (On(s, key, x, n) <=> On(s, key, y, n))
    BY <1>12
  <2>3. \A z \in Below(e, x) \ {x}, s \in Sides : On(s, key, z, x) <=> On(s, key, z, y)
    BY <1>13
  <2>4. (K \ {x}) \cup {y} = L \ {x}
    BY <1>14
  <2> HIDE DEF K, e
  <2>5. Shape(r, (K \ {x}) \cup {y}, Instead(e, x, y), key)
    BY <1>10, <2>1, <2>2, <2>3, SubstitutedShape
  <2> QED BY <2>4, <2>5 DEF e
<1>16. r \in Heaps /\ ~Faulty(r)
  BY <1>1, <1>4 DEF Substituted
<1>17. BlackRoot(r)
  <2>1. Root(g) = Root(h) /\ Parent(g, x) = Parent(h, x)
    <3>1. Parent(h, y) # null
      <4>1. y # Root(h)
        BY <1>1, <1>2, <1>8, RootFacts
      <4> QED BY <1>2, <1>7, <4>1 DEF Shape, Doubled
    <3>2. k # x
      <4>1. k # null => k \in Below(d, y)
        BY <1>1, <1>2, <1>3, <1>5, <1>7, ChildFacts
      <4>2. x \notin Below(d, y)
        BY <1>1, <1>2, <1>8, BelowFacts
      <4> QED BY <1>5, <4>1, <4>2
    <3> QED BY <1>5, <1>9, <3>1, <3>2 DEF Spliced
  <2>2. CASE Parent(h, x) = null
    <3>1. Root(r) = y /\ x = Root(h)
      BY <1>2, <1>4, <2>1, <2>2 DEF Substituted, Shape, Doubled
    <3> QED BY <1>1, <1>4, <1>5, <1>7, <1>8, <3>1 DEF BlackRoot
  <2>3. CASE Parent(h, x) # null
    <3>1. Root(r) = Root(h) /\ Root(h) # x /\ Root(h) \in Nodes
      BY <1>1, <1>2, <1>4, <1>5, <2>1, <2>3, HeapFacts DEF Substituted, Shape, Rooted, BlackRoot
    <3>2. Root(h) # y
      BY <1>1, <1>2, <1>8, RootFacts
    <3> QED BY <1>1, <1>4, <3>1, <3>2 DEF BlackRoot
  <2> QED BY <2>2, <2>3
<1> QED BY <1>15, <1>16, <1>17 DEF Sound, r

\* erase faults, or takes the node out of the search tree.
LEMMA EraseShape ==
  ASSUME NEW h, NEW L, NEW key \in [Nodes -> Nat], Sound(h, L, key), NEW x \in L
  PROVE  /\ Erase(h, x) \in Heaps
         /\ Faulty(Erase(h, x)) \/ Sound(Erase(h, x), L \ {x}, key)
<1>1. Erase(h, x) = IF \A s \in Sides : Child(h, s, x) # null THEN EraseInner(h, x)
                    ELSE EraseOuter(h, x)
  BY Zenon DEF Erase, Child
<1>2. CASE \A s \in Sides : Child(h, s, x) # null
  <2>1. Sound(Erase(h, x), L \ {x}, key)
    BY <1>1, <1>2, EraseInnerShape
  <2> QED BY <2>1 DEF Sound
<1>3. CASE \E s \in Sides : Child(h, s, x) = null
  BY <1>1, <1>3, EraseOuterShape
<1> QED BY <1>2, <1>3

-----------------------------------------------------------------------------
\* The set M in the order of the keys.
Lists(s, M, key) ==
  /\ s \in Seq(Nodes)
  /\ M = {s[i] : i \in 1..Len(s)}
  /\ \A i, j \in 1..Len(s) : i < j => key[s[i]] < key[s[j]]

LEMMA ListFacts ==
  ASSUME NEW key \in [Nodes -> Nat], NEW s, NEW M, Lists(s, M, key)
  PROVE  /\ s \in Seq(Nodes) /\ Len(s) \in Nat /\ M \subseteq Nodes
         /\ \A i \in 1..Len(s) : s[i] \in M /\ s[i] \in Nodes /\ key[s[i]] \in Nat
         /\ \A x \in M : \E i \in 1..Len(s) : s[i] = x
         /\ \A i, j \in 1..Len(s) : i < j => key[s[i]] < key[s[j]]
BY ElementOfSeq, LenProperties DEF Lists

LEMMA NoneListed ==
  ASSUME NEW key
  PROVE  Lists(<<>>, {}, key)
BY EmptySeq DEF Lists

\* One list for each set.
LEMMA ListUnique ==
  ASSUME NEW key \in [Nodes -> Nat], NEW M, NEW s, Lists(s, M, key), NEW t, Lists(t, M, key)
  PROVE  s = t
<1> DEFINE Bad == {i \in Nat \ {0} : ~ ((i <= Len(s) <=> i <= Len(t))
                                        /\ (i <= Len(s) => s[i] = t[i]))}
           N == IF Len(s) > Len(t) THEN Len(s) ELSE Len(t)
           f == [i \in Bad |-> 1..i]
<1>1. /\ s \in Seq(Nodes) /\ Len(s) \in Nat
      /\ \A i \in 1..Len(s) : s[i] \in M /\ key[s[i]] \in Nat
      /\ \A x \in M : \E i \in 1..Len(s) : s[i] = x
      /\ \A i, j \in 1..Len(s) : i < j => key[s[i]] < key[s[j]]
  BY ListFacts
<1>2. /\ t \in Seq(Nodes) /\ Len(t) \in Nat
      /\ \A i \in 1..Len(t) : t[i] \in M /\ key[t[i]] \in Nat
      /\ \A x \in M : \E i \in 1..Len(t) : t[i] = x
      /\ \A i, j \in 1..Len(t) : i < j => key[t[i]] < key[t[j]]
  BY ListFacts
<1>3. SUFFICES ASSUME Bad # {} PROVE FALSE
  <2>1. Len(s) = Len(t)
    <3>1. \A i \in Nat \ {0} : i <= Len(s) <=> i <= Len(t)
      BY <1>3
    <3>2. Len(s) > 0 => Len(s) <= Len(t)
      BY <1>1, <1>2, <3>1
    <3>3. Len(t) > 0 => Len(t) <= Len(s)
      BY <1>1, <1>2, <3>1
    <3> QED BY <1>1, <1>2, <3>2, <3>3
  <2>2. \A i \in 1..Len(s) : s[i] = t[i]
    BY <1>1, <1>3
  <2> QED BY <1>1, <1>2, <2>1, <2>2, SeqEqual
<1>4. PICK i \in Bad : \A j \in Bad : ~ (f[j] \subseteq f[i] /\ f[j] # f[i])
  <2>1. N \in Nat /\ IsFiniteSet(1..N)
    <3>1. N \in Nat
      BY <1>1, <1>2
    <3> HIDE DEF N
    <3>2. N \in Int /\ 1 \in Int
      BY <3>1
    <3> QED BY <3>1, <3>2, FS_Interval
  <2>2. f \in [Bad -> SUBSET (1..N)]
    BY <1>1, <1>2
  <2> HIDE DEF f, Bad, N
  <2> QED BY <1>3, <2>1, <2>2, Smallest
<1>5. \A j \in 1..(i - 1) : /\ j <= Len(s) <=> j <= Len(t)
                            /\ j <= Len(s) => s[j] = t[j]
  <2>1. SUFFICES ASSUME NEW j \in 1..(i - 1), j \in Bad PROVE FALSE
    OBVIOUS
  <2>2. f[j] = 1..j /\ f[i] = 1..i
    BY <2>1
  <2>3. i \in 1..i /\ i \notin 1..j /\ 1..j \subseteq 1..i
    BY <2>1
  <2> HIDE DEF f, Bad
  <2> QED BY <1>4, <2>1, <2>2, <2>3
<1>6. i \in Nat \ {0} /\ ~ ((i <= Len(s) <=> i <= Len(t)) /\ (i <= Len(s) => s[i] = t[i]))
  OBVIOUS
<1> HIDE DEF f, Bad, N
<1>7. CASE i <= Len(s)
  <2>1. PICK j \in 1..Len(t) : t[j] = s[i]
    <3>1. s[i] \in M
      BY <1>1, <1>6, <1>7
    <3> QED BY <1>2, <3>1
  <2>2. j > i
    <3>1. j # i
      BY <1>1, <1>2, <1>6, <1>7, <2>1
    <3>2. ASSUME j < i PROVE FALSE
      <4>1. s[j] = t[j] /\ j \in 1..Len(s) /\ i \in 1..Len(s)
        BY <1>1, <1>2, <1>5, <1>6, <1>7, <2>1, <3>2
      <4>2. key[s[j]] < key[s[i]]
        BY <1>1, <3>2, <4>1
      <4> QED BY <1>1, <2>1, <4>1, <4>2
    <3> QED BY <1>6, <3>1, <3>2
  <2>3. PICK k \in 1..Len(s) : s[k] = t[i]
    <3>1. t[i] \in M
      BY <1>2, <1>6, <2>1, <2>2
    <3> QED BY <1>1, <3>1
  <2>4. k > i
    <3>1. k # i
      BY <1>1, <1>2, <1>6, <1>7, <2>1, <2>2, <2>3
    <3>2. ASSUME k < i PROVE FALSE
      <4>1. s[k] = t[k] /\ k \in 1..Len(t) /\ i \in 1..Len(t)
        BY <1>1, <1>2, <1>5, <1>6, <2>1, <2>2, <2>3, <3>2
      <4>2. key[t[k]] < key[t[i]]
        BY <1>2, <3>2, <4>1
      <4> QED BY <1>2, <2>3, <4>1, <4>2
    <3> QED BY <1>6, <3>1, <3>2
  <2>5. key[s[i]] < key[s[k]]
    BY <1>1, <1>6, <1>7, <2>3, <2>4
  <2>6. key[t[i]] < key[t[j]]
    BY <1>2, <1>6, <2>1, <2>2
  <2> QED BY <1>1, <1>6, <1>7, <2>1, <2>3, <2>5, <2>6
<1>8. CASE i > Len(s)
  <2>1. i <= Len(t)
    BY <1>1, <1>2, <1>6, <1>8
  <2>2. PICK k \in 1..Len(s) : s[k] = t[i]
    <3>1. t[i] \in M
      BY <1>2, <1>6, <2>1
    <3> QED BY <1>1, <3>1
  <2>3. k < i /\ s[k] = t[k] /\ k \in 1..Len(t) /\ i \in 1..Len(t)
    BY <1>1, <1>2, <1>5, <1>6, <1>8, <2>1, <2>2
  <2>4. key[t[k]] < key[t[i]]
    BY <1>2, <2>3
  <2> QED BY <1>2, <2>2, <2>3, <2>4
<1> QED BY <1>1, <1>6, <1>7, <1>8

\* Two lists, one after the other.
LEMMA ListConcat ==
  ASSUME NEW key \in [Nodes -> Nat], NEW s, NEW A, Lists(s, A, key), NEW t, NEW B, Lists(t, B, key),
         \A a \in A, b \in B : key[a] < key[b]
  PROVE  Lists(s \o t, A \cup B, key) /\ Len(s \o t) = Len(s) + Len(t)
<1> DEFINE r == s \o t
           m == Len(s)
           n == Len(t)
<1>1. /\ s \in Seq(Nodes) /\ m \in Nat
      /\ \A i \in 1..m : s[i] \in A /\ s[i] \in Nodes /\ key[s[i]] \in Nat
      /\ \A a \in A : \E i \in 1..m : s[i] = a
      /\ \A i, j \in 1..m : i < j => key[s[i]] < key[s[j]]
  BY ListFacts
<1>2. /\ t \in Seq(Nodes) /\ n \in Nat
      /\ \A i \in 1..n : t[i] \in B /\ t[i] \in Nodes /\ key[t[i]] \in Nat
      /\ \A b \in B : \E i \in 1..n : t[i] = b
      /\ \A i, j \in 1..n : i < j => key[t[i]] < key[t[j]]
  BY ListFacts
<1>3. /\ r \in Seq(Nodes) /\ Len(r) = m + n
      /\ \A i \in 1..(m + n) : r[i] = IF i <= m THEN s[i] ELSE t[i - m]
  BY <1>1, <1>2, ConcatProperties
<1> HIDE DEF r, m, n
<1>4. \A i \in 1..(m + n) : i > m => i - m \in 1..n /\ r[i] = t[i - m]
  BY <1>1, <1>2, <1>3
<1>5. \A i \in 1..(m + n) : i <= m => i \in 1..m /\ r[i] = s[i]
  BY <1>1, <1>2, <1>3
<1>6. ASSUME NEW i \in 1..(m + n), NEW j \in 1..(m + n), i < j PROVE key[r[i]] < key[r[j]]
  <2>1. CASE j <= m
    <3>1. i \in 1..m /\ j \in 1..m /\ r[i] = s[i] /\ r[j] = s[j]
      BY <1>1, <1>2, <1>5, <1>6, <2>1
    <3> QED BY <1>1, <1>6, <3>1
  <2>2. CASE i > m
    <3>1. j > m
      BY <1>1, <1>2, <1>6, <2>2
    <3>2. i - m \in 1..n /\ j - m \in 1..n /\ r[i] = t[i - m] /\ r[j] = t[j - m]
      BY <1>4, <2>2, <3>1
    <3>3. i - m < j - m
      BY <1>1, <1>2, <1>6
    <3> QED BY <1>2, <3>2, <3>3
  <2>3. CASE i <= m /\ j > m
    <3>1. r[i] = s[i] /\ i \in 1..m /\ r[j] = t[j - m] /\ j - m \in 1..n
      BY <1>4, <1>5, <2>3
    <3>2. r[i] \in A /\ r[j] \in B
      BY <1>1, <1>2, <3>1
    <3> QED BY <3>2
  <2> QED BY <1>1, <1>2, <2>1, <2>2, <2>3
<1>7. ASSUME NEW i \in 1..(m + n) PROVE r[i] \in A \cup B
  BY <1>1, <1>2, <1>4, <1>5
<1>8. ASSUME NEW a \in A PROVE \E i \in 1..(m + n) : r[i] = a
  <2>1. PICK i \in 1..m : s[i] = a
    BY <1>1
  <2>2. i \in 1..(m + n) /\ i <= m
    BY <1>1, <1>2
  <2> QED BY <1>5, <2>1, <2>2
<1>9. ASSUME NEW b \in B PROVE \E i \in 1..(m + n) : r[i] = b
  <2>1. PICK i \in 1..n : t[i] = b
    BY <1>2
  <2>2. m + i \in 1..(m + n) /\ (m + i) - m = i /\ m + i > m
    BY <1>1, <1>2
  <2>3. r[m + i] = t[(m + i) - m]
    BY <1>4, <2>2
  <2> QED BY <2>1, <2>2, <2>3
<1>10. A \cup B = {r[i] : i \in 1..(m + n)}
  BY <1>7, <1>8, <1>9
<1>11. Lists(r, A \cup B, key)
  BY <1>3, <1>6, <1>10 DEF Lists
<1> QED BY <1>3, <1>11 DEF r, m, n

LEMMA OneListed ==
  ASSUME NEW key, NEW x \in Nodes
  PROVE  Lists(<<x>>, {x}, key) /\ Len(<<x>>) = 1
<1>1. <<x>> \in Seq(Nodes) /\ Len(<<x>>) = 1 /\ <<x>>[1] = x
  OBVIOUS
<1>2. 1..1 = {1}
  OBVIOUS
<1>3. {<<x>>[i] : i \in 1..1} = {x}
  BY <1>1, <1>2
<1> QED BY <1>1, <1>2, <1>3 DEF Lists

\* Lists joined at a node.
LEMMA ListJoin ==
  ASSUME NEW key \in [Nodes -> Nat], NEW s, NEW A, Lists(s, A, key), NEW t, NEW B, Lists(t, B, key),
         NEW x \in Nodes, \A a \in A : key[a] < key[x], \A b \in B : key[x] < key[b]
  PROVE  /\ Lists(s \o <<x>> \o t, A \cup {x} \cup B, key)
         /\ Len(s \o <<x>> \o t) = Len(s) + 1 + Len(t)
<1>1. Lists(<<x>>, {x}, key) /\ Len(<<x>>) = 1
  BY OneListed
<1> DEFINE u == <<x>>
           sx == s \o u
           Ax == A \cup {x}
<1>2. Lists(u, {x}, key) /\ Len(u) = 1
  BY <1>1
<1> HIDE DEF u
<1>3. Lists(sx, Ax, key) /\ Len(sx) = Len(s) + 1
  <2> DEFINE X == {x}
  <2>1. \A a \in A, b \in X : key[a] < key[b]
    OBVIOUS
  <2>2. Lists(u, X, key) /\ Len(u) = 1
    BY <1>2
  <2> HIDE DEF X, sx
  <2>3. Lists(s \o u, A \cup X, key) /\ Len(s \o u) = Len(s) + Len(u)
    BY <2>1, <2>2, ListConcat
  <2> QED BY <2>2, <2>3 DEF X, sx
<1>4. \A a \in Ax, b \in B : key[a] < key[b]
  <2>1. A \subseteq Nodes /\ B \subseteq Nodes
    BY ListFacts
  <2> QED BY <2>1
<1> HIDE DEF sx, Ax
<1>5. Lists(sx \o t, Ax \cup B, key) /\ Len(sx \o t) = Len(sx) + Len(t)
  BY <1>3, <1>4, ListConcat
<1> QED BY <1>3, <1>5 DEF sx, Ax, u

-----------------------------------------------------------------------------
\* What holds of the values after each round holds of the last ones.
LEMMA RoundsFacts ==
  ASSUME NEW values, NEW step \in [values -> values], NEW first \in values, NEW rounds \in Nat,
         NEW Good \in [0..rounds -> SUBSET values], first \in Good[0],
         \A k \in 0..(rounds - 1) : \A w \in Good[k] : step[w] \in Good[k + 1]
  PROVE  Rounds(values, step, first, rounds) \in Good[rounds]
<1> DEFINE S == Nat \X values
           more == (Nat \ {0}) \X values
           body == [s \in more |-> <<s[1] - 1, step[s[2]]>>]
           Inv == {s \in S : s[1] <= rounds /\ s[2] \in Good[rounds - s[1]]}
           left == [s \in Inv |-> 1..s[1]]
           end == Loop(S, body)[<<rounds, first>>]
<1>1. Rounds(values, step, first, rounds) = end[2]
  BY DEF Rounds
<1>2. ASSUME NEW s \in Inv \cap more
      PROVE  body[s] \in Inv /\ left[body[s]] \subseteq left[s] /\ left[body[s]] # left[s]
  <2>1. PICK i \in Nat \ {0}, w \in values : s = <<i, w>> /\ i <= rounds /\ w \in Good[rounds - i]
    OBVIOUS
  <2>2. body[s] = <<i - 1, step[w]>>
    BY <2>1
  <2>3. rounds - i \in 0..(rounds - 1) /\ (rounds - i) + 1 = rounds - (i - 1)
    BY <2>1
  <2>4. step[w] \in Good[rounds - (i - 1)]
    BY <2>1, <2>3
  <2>5. <<i - 1, step[w]>> \in Inv
    BY <2>1, <2>4
  <2>6. left[s] = 1..i /\ left[<<i - 1, step[w]>>] = 1..(i - 1)
    BY <2>1, <2>5
  <2>7. 1..(i - 1) \subseteq 1..i /\ i \in 1..i /\ i \notin 1..(i - 1)
    BY <2>1
  <2> QED BY <2>2, <2>5, <2>6, <2>7
<1>3. body \in [more -> S]
  OBVIOUS
<1>4. left \in [Inv -> SUBSET (1..rounds)]
  OBVIOUS
<1>5. more \in SUBSET S /\ Inv \in SUBSET S
  OBVIOUS
<1>6. <<rounds, first>> \in Inv
  OBVIOUS
<1>7. IsFiniteSet(1..rounds)
  BY FS_Interval
<1>8. end \in Inv \ more
  <2> HIDE DEF S, more, body, Inv, left
  <2>1. Advances(S, more, body, Inv, 1..rounds, left)
    BY <1>2, <1>3, <1>4, <1>5, <1>7 DEF Advances
  <2> QED BY <1>6, <2>1, LoopEnds
<1> HIDE DEF end
<1>9. PICK i \in Nat, w \in values : end = <<i, w>> /\ i <= rounds /\ w \in Good[rounds - i] /\ i = 0
  BY <1>8
<1> QED BY <1>1, <1>9

LEMMA SubtreeCounts ==
  ASSUME NEW L, L \subseteq Nodes, NEW d, Covers(L, d), NEW n \in L, NEW c \in L \cup {null},
         Below(d, c) \subseteq Below(d, n), n \notin Below(d, c)
  PROVE  /\ Cardinality(Below(d, n)) \in Nat /\ Cardinality(Below(d, c)) \in Nat
         /\ Cardinality(Below(d, c)) < Cardinality(Below(d, n))
<1>1. IsFiniteSet(Below(d, n)) /\ n \in Below(d, n)
  BY NodesFinite DEF Covers
<1> DEFINE A == Below(d, n)
           B == Below(d, c)
<1>2. B \in SUBSET A /\ A # B
  BY <1>1
<1> HIDE DEF A, B
<1>3. IsFiniteSet(B) /\ Cardinality(B) <= Cardinality(A) /\ Cardinality(A) # Cardinality(B)
  BY <1>1, <1>2, FS_Subset DEF A
<1>4. Cardinality(A) \in Nat /\ Cardinality(B) \in Nat
  BY <1>1, <1>3, FS_CardinalityType DEF A
<1>5. Cardinality(B) < Cardinality(A)
  BY <1>3, <1>4
<1> QED BY <1>4, <1>5 DEF A, B

\* InOrder lists the nodes of a search tree, whatever its height.
LEMMA InOrderLists ==
  ASSUME NEW h \in Heaps, NEW L, NEW d, NEW key \in [Nodes -> Nat], Shape(h, L, d, key)
  PROVE  Lists(InOrder(h, Cardinality(Nodes) + 1), L, key)
<1> DEFINE N == Nodes \cup {null}
           walks == [N -> Seq(Nodes)]
           next(w) == [n \in N |-> IF n = null THEN <<>>
                                   ELSE w[Child(h, "left", n)] \o <<n>> \o w[Child(h, "right", n)]]
           step == [w \in walks |-> next(w)]
           first == [n \in N |-> <<>>]
           rounds == Cardinality(Nodes) + 1
           Done(k) == {w \in walks : \A n \in L \cup {null} :
                         Cardinality(Below(d, n)) <= k => Lists(w[n], Below(d, n), key)}
           Good == [k \in 0..rounds |-> Done(k)]
<1>1. /\ L \subseteq Nodes /\ null \notin L /\ Covers(L, d) /\ Searchable(h, L, d, key)
      /\ Below(d, null) = {} /\ "left" \in Sides /\ "right" \in Sides /\ Other("left") = "right"
  BY NullFacts DEF Shape, Covers, Sides, Other
<1>2. rounds \in Nat /\ Cardinality(Nodes) \in Nat /\ IsFiniteSet(Nodes)
  BY NodesAssumption, FS_CardinalityType
<1>3. InOrder(h, rounds) = Rounds(walks, step, first, rounds)[Root(h)]
  BY DEF InOrder, Child, Root
<1> HIDE DEF rounds
<1>4. \A s \in Sides, n \in Nodes : Child(h, s, n) \in N
  BY HeapFacts
<1>5. first \in walks /\ <<>> \in Seq(Nodes) /\ \A n \in N : first[n] = <<>>
  BY EmptySeq
<1>6. ASSUME NEW w \in walks PROVE next(w) \in walks
  <2>1. ASSUME NEW n \in Nodes
        PROVE  w[Child(h, "left", n)] \o <<n>> \o w[Child(h, "right", n)] \in Seq(Nodes)
    <3>1. w[Child(h, "left", n)] \in Seq(Nodes) /\ w[Child(h, "right", n)] \in Seq(Nodes)
      BY <1>1, <1>4
    <3>2. <<n>> \in Seq(Nodes)
      OBVIOUS
    <3> QED BY <3>1, <3>2, ConcatProperties
  <2> QED BY <1>5, <2>1
<1>7. step \in [walks -> walks]
  BY <1>6
<1>8. Good \in [0..rounds -> SUBSET walks] /\ \A k \in 0..rounds : Good[k] = Done(k)
  OBVIOUS
<1>9. first \in Done(0)
  <2>1. SUFFICES ASSUME NEW n \in L \cup {null}, Cardinality(Below(d, n)) <= 0
                 PROVE  Lists(first[n], Below(d, n), key)
    BY <1>5
  <2>2. CASE n = null
    BY <1>1, <1>5, <2>2, NoneListed
  <2>3. CASE n # null
    <3>1. n \in L /\ n \notin Below(d, null) /\ Below(d, null) \subseteq Below(d, n)
      BY <1>1, <2>3
    <3>2. Cardinality(Below(d, n)) \in Nat /\ Cardinality(Below(d, null)) \in Nat
          /\ Cardinality(Below(d, null)) < Cardinality(Below(d, n))
      BY <1>1, <3>1, SubtreeCounts
    <3> QED BY <2>1, <3>2
  <2> QED BY <2>2, <2>3
<1>10. ASSUME NEW k \in 0..(rounds - 1), NEW w \in Done(k) PROVE step[w] \in Done(k + 1)
  <2>1. w \in walks /\ \A n \in L \cup {null} :
          Cardinality(Below(d, n)) <= k => Lists(w[n], Below(d, n), key)
    OBVIOUS
  <2>2. step[w] = next(w) /\ next(w) \in walks
    BY <1>6, <2>1
  <2>3. ASSUME NEW n \in L \cup {null}, Cardinality(Below(d, n)) <= k + 1
        PROVE  Lists(next(w)[n], Below(d, n), key)
    <3>1. CASE n = null
      BY <1>1, <3>1, NoneListed
    <3>2. CASE n # null
      <4>1. PICK l, r : l = Child(h, "left", n) /\ r = Child(h, "right", n)
        OBVIOUS
      <4>2. /\ n \in L /\ n \in Nodes /\ l \in L \cup {null} /\ r \in L \cup {null}
            /\ Below(d, l) = {x \in Below(d, n) : On("left", key, x, n)}
            /\ Below(d, r) = {x \in Below(d, n) : On("right", key, x, n)}
        BY <1>1, <3>2, <4>1 DEF Searchable
      <4>3. next(w)[n] = w[l] \o <<n>> \o w[r]
        BY <3>2, <4>1, <4>2
      <4>4. n \notin Below(d, l) /\ n \notin Below(d, r)
        BY <1>1, <4>2, OnFacts
      <4>5. Cardinality(Below(d, l)) <= k /\ Cardinality(Below(d, r)) <= k
        <5>1. /\ Cardinality(Below(d, n)) \in Nat
              /\ Cardinality(Below(d, l)) \in Nat
              /\ Cardinality(Below(d, l)) < Cardinality(Below(d, n))
          BY <1>1, <4>2, <4>4, SubtreeCounts
        <5>2. /\ Cardinality(Below(d, r)) \in Nat
              /\ Cardinality(Below(d, r)) < Cardinality(Below(d, n))
          BY <1>1, <4>2, <4>4, SubtreeCounts
        <5> QED BY <1>2, <2>3, <5>1, <5>2
      <4>6. Lists(w[l], Below(d, l), key) /\ Lists(w[r], Below(d, r), key)
        BY <2>1, <4>2, <4>5
      <4>7. /\ \A a \in Below(d, l) : key[a] < key[n]
            /\ \A b \in Below(d, r) : key[n] < key[b]
        BY <4>2 DEF On
      <4>8. Below(d, l) \cup {n} \cup Below(d, r) = Below(d, n)
        <5>1. n \in Below(d, n)
          BY <1>1, <4>2 DEF Covers
        <5>2. ASSUME NEW x \in Below(d, n), x # n PROVE On("left", key, x, n) \/ On("right", key, x, n)
          <6> HIDE DEF N, walks, next, step, first, Done, Good
          <6>1. \E s \in Sides : On(s, key, x, n)
            BY <4>2, <5>2, BelowFacts
          <6> QED BY <6>1 DEF Sides
        <5> QED BY <4>2, <5>1, <5>2
      <4>9. Lists(w[l] \o <<n>> \o w[r], Below(d, l) \cup {n} \cup Below(d, r), key)
        BY <4>2, <4>6, <4>7, ListJoin
      <4> QED BY <4>3, <4>8, <4>9
    <3> QED BY <3>1, <3>2
  <2> QED BY <2>2, <2>3
<1>11. Rounds(walks, step, first, rounds) \in Good[rounds]
  <2> HIDE DEF walks, step, first, Done, Good
  <2>1. \A k \in 0..(rounds - 1) : \A w \in Good[k] : step[w] \in Good[k + 1]
    <3>1. \A k \in 0..(rounds - 1) : k \in 0..rounds /\ k + 1 \in 0..rounds
      BY <1>2
    <3> QED BY <1>8, <1>10, <3>1
  <2>2. first \in Good[0]
    BY <1>2, <1>8, <1>9
  <2> QED BY <1>2, <1>5, <1>7, <1>8, <2>1, <2>2, RoundsFacts
<1>12. Root(h) \in L \cup {null} /\ Below(d, Root(h)) = L
  BY DEF Shape, Rooted
<1>13. Cardinality(L) <= rounds
  <2>1. Cardinality(L) <= Cardinality(Nodes) /\ IsFiniteSet(L)
    BY <1>1, <1>2, FS_Subset
  <2>2. Cardinality(L) \in Nat
    BY <2>1, FS_CardinalityType
  <2> QED BY <1>2, <2>1, <2>2 DEF rounds
<1>14. Rounds(walks, step, first, rounds) \in Done(rounds)
  <2> HIDE DEF walks, step, first, Done, Good
  <2> QED BY <1>2, <1>8, <1>11
<1>15. Lists(Rounds(walks, step, first, rounds)[Root(h)], Below(d, Root(h)), key)
  BY <1>12, <1>13, <1>14
<1> QED BY <1>3, <1>12, <1>15 DEF rounds

-----------------------------------------------------------------------------
\* The value that a round of BlackHeight gives a node by those of its children.
HeightBy(h, b, n) ==
  IF n = null THEN 0
  ELSE IF b[Child(h, "left", n)] # b[Child(h, "right", n)] \/ b[Child(h, "left", n)] = -1 THEN -1
  ELSE IF ~IsRed(h, n) THEN b[Child(h, "left", n)] + 1
  ELSE IF IsRed(h, Child(h, "left", n)) \/ IsRed(h, Child(h, "right", n)) THEN -1
  ELSE b[Child(h, "left", n)]

\* The rounds suffice: another one changes nothing.
LEMMA HeightsSettle ==
  ASSUME NEW h \in Heaps, NEW L, NEW d, NEW key \in [Nodes -> Nat], Shape(h, L, d, key)
  PROVE  \E v \in [Nodes \cup {null} -> Int] :
           /\ BlackHeight(h, Cardinality(Nodes) + 1) = v[Root(h)]
           /\ \A n \in L \cup {null} : v[n] = HeightBy(h, v, n)
<1> DEFINE N == Nodes \cup {null}
           heights == [N -> Int]
           next(b) == [n \in N |-> HeightBy(h, b, n)]
           step == [b \in heights |-> next(b)]
           first == [n \in N |-> 0]
           rounds == Cardinality(Nodes) + 1
           Settled(b, n) == b[n] = HeightBy(h, b, n)
           Done(k) == {b \in heights : \A n \in L \cup {null} :
                         Cardinality(Below(d, n)) <= k => Settled(b, n)}
           Good == [k \in 0..rounds |-> Done(k)]
           v == Rounds(heights, step, first, rounds)
<1>1. /\ L \subseteq Nodes /\ null \notin L /\ Covers(L, d) /\ Searchable(h, L, d, key)
      /\ "left" \in Sides /\ "right" \in Sides
  BY NullFacts DEF Shape, Covers, Sides
<1>2. rounds \in Nat /\ Cardinality(Nodes) \in Nat /\ IsFiniteSet(Nodes)
  BY NodesAssumption, FS_CardinalityType
<1>3. BlackHeight(h, rounds) = v[Root(h)]
  BY Zenon DEF BlackHeight, HeightBy, Child, Root
<1>4. \A n \in Nodes : Child(h, "left", n) \in N /\ Child(h, "right", n) \in N
  BY <1>1, HeapFacts
<1>5. \A b \in heights : next(b) \in heights
  BY <1>4 DEF HeightBy
<1>6. step \in [heights -> heights] /\ \A b \in heights : step[b] = next(b)
  BY <1>5
<1>7. first \in heights
  OBVIOUS
<1>8. Good \in [0..rounds -> SUBSET heights] /\ \A k \in 0..rounds : Good[k] = Done(k)
  OBVIOUS
<1>9. first \in Done(0)
  <2>1. SUFFICES ASSUME NEW n \in L \cup {null}, Cardinality(Below(d, n)) <= 0
                 PROVE  Settled(first, n)
    BY <1>7
  <2>2. CASE n = null
    BY <2>2 DEF HeightBy
  <2>3. CASE n # null
    <3>1. n \in L /\ n \notin Below(d, null) /\ Below(d, null) \subseteq Below(d, n)
      BY <1>1, <2>3 DEF Covers
    <3>2. Cardinality(Below(d, n)) \in Nat /\ Cardinality(Below(d, null)) \in Nat
          /\ Cardinality(Below(d, null)) < Cardinality(Below(d, n))
      BY <1>1, <3>1, SubtreeCounts
    <3> QED BY <2>1, <3>2
  <2> QED BY <2>2, <2>3
<1>10. ASSUME NEW k \in 0..(rounds - 1), NEW b \in Done(k) PROVE step[b] \in Done(k + 1)
  <2>1. b \in heights /\ \A n \in L \cup {null} : Cardinality(Below(d, n)) <= k => Settled(b, n)
    OBVIOUS
  <2>2. step[b] = next(b) /\ next(b) \in heights /\ \A n \in N : next(b)[n] = HeightBy(h, b, n)
    BY <1>5, <1>6, <2>1
  <2> DEFINE c == next(b)
  <2> HIDE DEF c
  <2>3. ASSUME NEW n \in L \cup {null}, Cardinality(Below(d, n)) <= k + 1
        PROVE  Settled(c, n)
    <3>1. CASE n = null
      BY <2>2, <3>1 DEF HeightBy, c
    <3>2. CASE n # null
      <4>1. ASSUME NEW s \in Sides, NEW m, m = Child(h, s, n) PROVE c[m] = b[m]
        <5>1. /\ n \in L /\ n \in Nodes /\ m \in L \cup {null} /\ m \in N
              /\ Below(d, m) = {x \in Below(d, n) : On(s, key, x, n)}
          BY <1>1, <3>2, <4>1 DEF Searchable
        <5>2. n \notin Below(d, m)
          BY <5>1, OnFacts
        <5>3. /\ Cardinality(Below(d, n)) \in Nat
              /\ Cardinality(Below(d, m)) \in Nat
              /\ Cardinality(Below(d, m)) < Cardinality(Below(d, n))
          BY <1>1, <5>1, <5>2, SubtreeCounts
        <5>4. k \in Int
          BY <1>2
        <5>5. Cardinality(Below(d, m)) <= k
          BY <2>3, <5>3, <5>4
        <5>6. Settled(b, m)
          BY <2>1, <5>1, <5>5
        <5> QED BY <2>2, <5>1, <5>6 DEF c
      <4>2. /\ c[Child(h, "left", n)] = b[Child(h, "left", n)]
            /\ c[Child(h, "right", n)] = b[Child(h, "right", n)]
        BY <1>1, <4>1
      <4>3. HeightBy(h, c, n) = HeightBy(h, b, n)
        BY <4>2 DEF HeightBy
      <4>4. c[n] = HeightBy(h, b, n)
        BY <1>1, <2>2 DEF c
      <4> QED BY <4>3, <4>4
    <3> QED BY <3>1, <3>2
  <2> QED BY <2>2, <2>3 DEF c
<1>11. v \in Good[rounds]
  <2> HIDE DEF heights, step, first, Done, Good
  <2>1. \A k \in 0..(rounds - 1) : \A w \in Good[k] : step[w] \in Good[k + 1]
    <3>1. \A k \in 0..(rounds - 1) : k \in 0..rounds /\ k + 1 \in 0..rounds
      BY <1>2
    <3> QED BY <1>8, <1>10, <3>1
  <2>2. first \in Good[0]
    BY <1>2, <1>8, <1>9
  <2> QED BY <1>2, <1>6, <1>7, <1>8, <2>1, <2>2, RoundsFacts
<1>12. ASSUME NEW n \in L \cup {null} PROVE Cardinality(Below(d, n)) <= rounds
  <2>1. Below(d, n) \subseteq Nodes
    BY <1>1 DEF Covers
  <2>2. Cardinality(Below(d, n)) <= Cardinality(Nodes) /\ IsFiniteSet(Below(d, n))
    BY <1>2, <2>1, FS_Subset
  <2>3. Cardinality(Below(d, n)) \in Nat
    BY <2>2, FS_CardinalityType
  <2> QED BY <1>2, <2>2, <2>3
<1>13. v \in Done(rounds)
  <2> HIDE DEF heights, step, first, Done, Good
  <2> QED BY <1>2, <1>8, <1>11
<1>14. v \in heights /\ \A n \in L \cup {null} : v[n] = HeightBy(h, v, n)
  <2> HIDE DEF v
  <2> QED BY <1>12, <1>13
<1> HIDE DEF v
<1> QED BY <1>3, <1>14

\* IsRedBlack is true of the search trees that are it.
LEMMA RedBlackFacts ==
  ASSUME NEW h \in Heaps, NEW L, NEW d, NEW key \in [Nodes -> Nat], Shape(h, L, d, key)
  PROVE  IsRedBlack(h) <=> Colored(h, L)
<1>1. /\ L \subseteq Nodes /\ null \notin L /\ Covers(L, d)
      /\ \A n \in L, s \in Sides : Child(h, s, n) \in L \cup {null}
      /\ "left" \in Sides /\ "right" \in Sides /\ \A s \in Sides : s = "left" \/ s = "right"
      /\ Root(h) \in L \cup {null}
  BY NullFacts DEF Shape, Searchable, Rooted, Sides
<1>2. PICK v \in [Nodes \cup {null} -> Int] :
        /\ BlackHeight(h, Cardinality(Nodes) + 1) = v[Root(h)]
        /\ \A n \in L \cup {null} : v[n] = HeightBy(h, v, n)
  BY HeightsSettle
<1>3. IsRedBlack(h) <=> ~IsRed(h, Root(h)) /\ v[Root(h)] # -1
  BY <1>2 DEF IsRedBlack, Root
<1>4. v[null] = 0
  BY <1>2 DEF HeightBy
<1>5. \A n \in L : Weights(h)[n] = IF IsRed(h, n) THEN 0 ELSE 1
  BY <1>1, RedFacts
<1>6. ASSUME NEW n \in L
      PROVE  \E l, r : /\ l = Child(h, "left", n) /\ r = Child(h, "right", n)
                       /\ l \in L \cup {null} /\ r \in L \cup {null}
                       /\ v[l] \in Int /\ v[r] \in Int /\ v[n] \in Int
                       /\ v[n] = IF v[l] # v[r] \/ v[l] = -1 THEN -1
                                 ELSE IF ~IsRed(h, n) THEN v[l] + 1
                                 ELSE IF IsRed(h, l) \/ IsRed(h, r) THEN -1 ELSE v[l]
  <2>1. PICK l, r : l = Child(h, "left", n) /\ r = Child(h, "right", n)
    OBVIOUS
  <2>2. l \in L \cup {null} /\ r \in L \cup {null} /\ n # null
    BY <1>1, <2>1
  <2>3. v[n] = HeightBy(h, v, n) /\ v[l] \in Int /\ v[r] \in Int /\ v[n] \in Int
    BY <1>1, <1>2, <2>2
  <2> QED BY <2>1, <2>2, <2>3 DEF HeightBy
<1>7. ASSUME NEW m \in L, NEW s \in Sides PROVE Child(h, s, m) \in L => 
        /\ Below(d, Child(h, s, m)) \subseteq Below(d, m)
        /\ Below(d, Child(h, s, m)) # Below(d, m)
  <2>1. SUFFICES ASSUME NEW c \in L, c = Child(h, s, m)
                 PROVE  Below(d, c) \subseteq Below(d, m) /\ Below(d, c) # Below(d, m)
    OBVIOUS
  <2>2. c # null
    BY <1>1
  <2>3. Parent(h, c) = m /\ m # null
    BY <2>1, <2>2, ChildFacts
  <2> QED BY <2>3, ClimbFact
<1>8. ASSUME Colored(h, L) PROVE IsRedBlack(h)
  <2>1. ~IsRed(h, Root(h)) /\ OnlyClash(h, L, null)
    BY <1>8 DEF Colored, Even
  <2>2. PICK b : Weighed(h, L, Weights(h), b)
    BY <1>8 DEF Colored, Even
  <2>3. /\ b[null] = 0 /\ \A n \in L : b[n] \in Nat
        /\ \A n \in L, s \in Sides : b[n] = b[Child(h, s, n)] + Weights(h)[n]
    BY <2>2 DEF Weighed
  <2> DEFINE Bad == {n \in L : v[n] # b[n]}
  <2>4. SUFFICES ASSUME Bad # {} PROVE FALSE
    <3>1. v[Root(h)] = b[Root(h)]
      BY <1>1, <1>4, <2>3, <2>4
    <3> QED BY <1>1, <1>3, <2>1, <2>3, <3>1
  <2>5. PICK n \in Bad : \A m \in Bad : ~ (Below(d, m) \subseteq Below(d, n) /\ Below(d, m) # Below(d, n))
    <3>1. Bad \in SUBSET L
      OBVIOUS
    <3> HIDE DEF Bad
    <3> QED BY <1>1, <2>4, <3>1, Lowest
  <2>6. n \in L /\ v[n] # b[n]
    BY <2>5
  <2>7. ASSUME NEW s \in Sides PROVE v[Child(h, s, n)] = b[Child(h, s, n)]
    BY <1>1, <1>4, <1>7, <2>3, <2>5, <2>6
  <2>8. PICK l, r : /\ l = Child(h, "left", n) /\ r = Child(h, "right", n)
                    /\ l \in L \cup {null} /\ r \in L \cup {null}
                    /\ v[n] = IF v[l] # v[r] \/ v[l] = -1 THEN -1
                              ELSE IF ~IsRed(h, n) THEN v[l] + 1
                              ELSE IF IsRed(h, l) \/ IsRed(h, r) THEN -1 ELSE v[l]
    BY <1>6, <2>6
  <2>9. v[l] = b[l] /\ v[r] = b[r]
    BY <1>1, <2>7, <2>8
  <2>10. b[n] = b[l] + Weights(h)[n] /\ b[n] = b[r] + Weights(h)[n] /\ b[l] \in Nat /\ b[r] \in Nat
    BY <1>1, <2>3, <2>6, <2>8
  <2>11. IsRed(h, n) => ~IsRed(h, l) /\ ~IsRed(h, r)
    <3>1. ~IsRed(h, null)
      BY RedFacts
    <3> QED BY <1>1, <2>1, <2>6, <2>8, <3>1 DEF OnlyClash
  <2> QED BY <1>5, <2>6, <2>8, <2>9, <2>10, <2>11
<1>9. ASSUME IsRedBlack(h) PROVE Colored(h, L)
  <2>1. ~IsRed(h, Root(h)) /\ v[Root(h)] # -1
    BY <1>3, <1>9
  <2> DEFINE Bad == {n \in L : v[n] = -1}
             above == [n \in Bad |-> L \ Below(d, n)]
  <2>2. Bad = {}
    <3>1. SUFFICES ASSUME Bad # {} PROVE FALSE
      OBVIOUS
    <3>2. above \in [Bad -> SUBSET L] /\ \A n \in Bad : above[n] = L \ Below(d, n)
      OBVIOUS
    <3>3. PICK n \in Bad : \A m \in Bad : ~ (above[m] \subseteq above[n] /\ above[m] # above[n])
      <4>1. IsFiniteSet(L)
        BY <1>1, NodesFinite
      <4> HIDE DEF Bad, above
      <4> QED BY <3>1, <3>2, <4>1, Smallest
    <3>4. n \in L /\ v[n] = -1
      BY <3>3
    <3>5. Parent(h, n) # null
      BY <2>1, <3>4 DEF Shape, Doubled
    <3>6. PICK p \in L : /\ p = Parent(h, n)
                         /\ Below(d, n) \subseteq Below(d, p) /\ p \in Below(d, p) /\ p \notin Below(d, n)
      BY <3>4, <3>5, ClimbFact
    <3>7. \E s \in Sides : Child(h, s, p) = n
      BY <3>4, <3>5, <3>6 DEF Shape, Doubled
    <3>8. v[p] = -1
      BY <1>1, <1>6, <3>4, <3>7
    <3>9. p \in Bad
      BY <3>8
    <3>10. above[p] \subseteq above[n] /\ above[p] # above[n]
      <4> HIDE DEF Bad, above
      <4> QED BY <3>2, <3>3, <3>6, <3>9
    <3> QED BY <3>3, <3>9, <3>10
  <2>3. ASSUME NEW n \in L, NEW s \in Sides
        PROVE  /\ v[n] = v[Child(h, s, n)] + Weights(h)[n]
               /\ ~(IsRed(h, n) /\ IsRed(h, Child(h, s, n)))
    <3>1. v[n] # -1
      BY <2>2
    <3>2. PICK l, r : /\ l = Child(h, "left", n) /\ r = Child(h, "right", n)
                      /\ v[l] \in Int /\ v[r] \in Int
                      /\ v[n] = IF v[l] # v[r] \/ v[l] = -1 THEN -1
                                ELSE IF ~IsRed(h, n) THEN v[l] + 1
                                ELSE IF IsRed(h, l) \/ IsRed(h, r) THEN -1 ELSE v[l]
      BY <1>6
    <3>3. Child(h, s, n) = l \/ Child(h, s, n) = r
      BY <1>1, <3>2
    <3> QED BY <1>5, <3>1, <3>2, <3>3
  <2> HIDE DEF Bad, above
  <2>4. OnlyClash(h, L, null)
    BY <2>3 DEF OnlyClash
  <2> DEFINE Low == {n \in L : v[n] \notin Nat}
  <2>5. Low = {}
    <3>1. SUFFICES ASSUME Low # {} PROVE FALSE
      OBVIOUS
    <3>2. PICK n \in Low : \A m \in Low : ~ (Below(d, m) \subseteq Below(d, n) /\ Below(d, m) # Below(d, n))
      <4>1. Low \in SUBSET L
        OBVIOUS
      <4> HIDE DEF Low
      <4> QED BY <1>1, <3>1, <4>1, Lowest
    <3>3. n \in L /\ v[n] \notin Nat
      BY <3>2
    <3>4. v[Child(h, "left", n)] \in Nat
      BY <1>1, <1>4, <1>7, <3>2, <3>3
    <3>5. v[n] = v[Child(h, "left", n)] + Weights(h)[n]
      BY <1>1, <2>3, <3>3
    <3>6. Weights(h)[n] \in Nat
      BY <1>5, <3>3
    <3> QED BY <3>3, <3>4, <3>5, <3>6
  <2>6. \A n \in L : v[n] \in Nat /\ Weights(h)[n] \in Int
    BY <1>5, <2>5
  <2>7. Weighed(h, L, Weights(h), v)
    BY <1>4, <2>3, <2>6 DEF Weighed
  <2> QED BY <2>1, <2>4, <2>7 DEF Colored, Even
<1> QED BY <1>8, <1>9

=============================================================================
