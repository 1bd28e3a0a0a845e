------------------------ MODULE MemoryManagerProofs ------------------------
(***************************************************************************)
(* Proofs about the memory manager: for every set of areas, the tree and   *)
(* the list hold the same areas in the same order, look-ups find what they *)
(* should, merging moves no address, and no insertion faults or unbalances *)
(* the tree, as long as no erasure has faulted.                            *)
(***************************************************************************)
EXTENDS MemoryManager, RBtreeProofs

-----------------------------------------------------------------------------
\* Lists.

LEMMA ListedSet ==
  ASSUME NEW s \in Seq(Nodes)
  PROVE  ToSet(s) = {s[i] : i \in 1..Len(s)}
BY DEF ToSet

\* The first place at which a test holds.
LEMMA FirstIndex ==
  ASSUME NEW n \in Nat, NEW I, I \subseteq 1..n, I # {}
  PROVE  Min(I) \in I /\ \A i \in I : Min(I) <= i
<1> DEFINE f == [i \in I |-> 1..i]
<1>1. PICK i \in I : \A j \in I : ~ (f[j] \subseteq f[i] /\ f[j] # f[i])
  <2> DEFINE T == 1..n
  <2>1. IsFiniteSet(T)
    BY FS_Interval
  <2>2. f \in [I -> SUBSET T]
    OBVIOUS
  <2> HIDE DEF f, T
  <2>3. \E i \in I : \A j \in I : ~ (f[j] \subseteq f[i] /\ f[j] # f[i])
    BY ONLY <2>1, <2>2, I # {}, Smallest
  <2> QED BY <2>3
<1>2. ASSUME NEW j \in I PROVE i <= j
  <2>1. SUFFICES ASSUME j < i PROVE FALSE
    OBVIOUS
  <2>2. f[j] = 1..j /\ f[i] = 1..i
    OBVIOUS
  <2>3. 1..j \subseteq 1..i /\ i \in 1..i /\ i \notin 1..j
    BY <2>1
  <2> HIDE DEF f
  <2> QED BY <1>1, <2>2, <2>3
<1>3. Min(I) = CHOOSE x \in I : \A y \in I : x <= y
  BY DEF Min
<1> QED BY <1>2, <1>3

\* A part of a list.
LEMMA PartLists ==
  ASSUME NEW key \in [Nodes -> Nat], NEW s, NEW M, Lists(s, M, key),
         NEW a \in Nat \ {0}, NEW b \in Nat, b <= Len(s)
  PROVE  /\ Lists(SubSeq(s, a, b), {s[i] : i \in a..b}, key)
         /\ Len(SubSeq(s, a, b)) = IF a <= b THEN b - a + 1 ELSE 0
<1> DEFINE r == SubSeq(s, a, b)
<1>1. /\ s \in Seq(Nodes) /\ Len(s) \in Nat
      /\ \A i \in 1..Len(s) : s[i] \in Nodes
      /\ \A i, j \in 1..Len(s) : i < j => key[s[i]] < key[s[j]]
  BY ListFacts
<1>2. a \in Int /\ b \in Int /\ \A i \in a..b : s[i] \in Nodes
  BY <1>1
<1>3. /\ r \in Seq(Nodes) /\ Len(r) = IF a <= b THEN b - a + 1 ELSE 0
      /\ \A i \in 1..(b - a + 1) : r[i] = s[a + i - 1]
  BY <1>2, SubSeqProperties
<1> HIDE DEF r
<1>4. \A i \in 1..Len(r) : r[i] = s[a + i - 1] /\ a + i - 1 \in a..b
  BY <1>3
<1>5. ASSUME NEW i \in 1..Len(r), NEW j \in 1..Len(r), i < j PROVE key[r[i]] < key[r[j]]
  <2>1. a + i - 1 \in 1..Len(s) /\ a + j - 1 \in 1..Len(s) /\ a + i - 1 < a + j - 1
    BY <1>1, <1>4, <1>5
  <2> QED BY <1>1, <1>4, <2>1
<1>6. ASSUME NEW i \in a..b PROVE \E j \in 1..Len(r) : r[j] = s[i]
  <2>1. i - a + 1 \in 1..Len(r) /\ a + (i - a + 1) - 1 = i
    BY <1>3
  <2> QED BY <1>4, <2>1
<1>7. {s[i] : i \in a..b} = {r[i] : i \in 1..Len(r)}
  <2>1. \A j \in 1..Len(r) : \E i \in a..b : r[j] = s[i]
    BY <1>4
  <2>2. ASSUME NEW x \in {s[i] : i \in a..b} PROVE x \in {r[i] : i \in 1..Len(r)}
    BY <1>6
  <2>3. ASSUME NEW x \in {r[i] : i \in 1..Len(r)} PROVE x \in {s[i] : i \in a..b}
    BY <2>1
  <2> QED BY <2>2, <2>3
<1>8. Lists(r, {s[i] : i \in a..b}, key)
  BY <1>3, <1>5, <1>7 DEF Lists
<1> QED BY <1>3, <1>8 DEF r

\* A list cut at one of its places.
LEMMA ListCut ==
  ASSUME NEW key \in [Nodes -> Nat], NEW s, NEW M, Lists(s, M, key), NEW i \in 1..Len(s)
  PROVE  {s[k] : k \in 1..(i - 1)} \cup {s[k] : k \in (i + 1)..Len(s)} = M \ {s[i]}
<1>1. /\ Len(s) \in Nat
      /\ \A k \in 1..Len(s) : s[k] \in M /\ key[s[k]] \in Nat
      /\ \A x \in M : \E k \in 1..Len(s) : s[k] = x
      /\ \A k, j \in 1..Len(s) : k < j => key[s[k]] < key[s[j]]
  BY ListFacts
<1>2. \A k \in 1..Len(s) : s[k] = s[i] => k = i
  BY <1>1
<1>3. \A k \in 1..(i - 1) : k \in 1..Len(s) /\ k # i
  BY <1>1
<1>4. \A k \in (i + 1)..Len(s) : k \in 1..Len(s) /\ k # i
  BY <1>1
<1>5. \A k \in 1..Len(s) : k # i => k \in 1..(i - 1) \/ k \in (i + 1)..Len(s)
  BY <1>1
<1> QED BY <1>1, <1>2, <1>3, <1>4, <1>5
Key == [n \in Nodes |-> Start(n)]

LEMMA KeyType == Key \in [Nodes -> Nat] /\ \A n \in Nodes : Key[n] = Start(n) /\ Start(n) \in Nat
BY AreasAssumption DEF Key, Start

\* insert_vma_list_ordered keeps the order of the starts.
LEMMA InsertOrderedLists ==
  ASSUME NEW s, NEW M, Lists(s, M, Key), NEW x \in Nodes, \A m \in M : Start(m) # Start(x)
  PROVE  /\ Lists(InsertOrdered(s, x), M \cup {x}, Key)
         /\ Len(InsertOrdered(s, x)) = Len(s) + 1
<1> DEFINE I == {i \in 1..Len(s) : Start(s[i]) > Start(x)}
           k == Min(I)
<1>1. /\ s \in Seq(Nodes) /\ Len(s) \in Nat /\ M \subseteq Nodes
      /\ \A i \in 1..Len(s) : s[i] \in M /\ s[i] \in Nodes /\ Key[s[i]] \in Nat
      /\ \A m \in M : \E i \in 1..Len(s) : s[i] = m
      /\ \A i, j \in 1..Len(s) : i < j => Key[s[i]] < Key[s[j]]
  BY KeyType, ListFacts
<1>2. \A i \in 1..Len(s) : Key[s[i]] = Start(s[i]) /\ Key[s[i]] # Key[x]
  BY <1>1, KeyType
<1>3. Key[x] \in Nat /\ Key[x] = Start(x)
  BY KeyType
<1>4. SelectInSeq(s, LAMBDA n : Start(n) > Start(x)) = IF I # {} THEN k ELSE 0
  BY DEF SelectInSeq
<1>5. CASE I = {}
  <2>1. InsertOrdered(s, x) = Append(s, x)
    BY <1>4, <1>5 DEF InsertOrdered
  <2>2. \A a \in M : Key[a] < Key[x]
    BY <1>1, <1>2, <1>3, <1>5
  <2> DEFINE u == <<x>>
             X == {x}
  <2>3. Append(s, x) = s \o u
    BY <1>1, AppendIsConcat
  <2>4. Lists(u, X, Key) /\ Len(u) = 1 /\ \A a \in M, b \in X : Key[a] < Key[b]
    BY <2>2, OneListed
  <2> HIDE DEF u, X, I
  <2>5. Lists(s \o u, M \cup X, Key) /\ Len(s \o u) = Len(s) + Len(u)
    <3>1. Key \in [Nodes -> Nat] /\ Lists(u, X, Key) /\ \A a \in M, b \in X : Key[a] < Key[b]
      BY <2>4, KeyType
    <3> QED BY ONLY <3>1, Lists(s, M, Key), ListConcat
  <2>6. InsertOrdered(s, x) = s \o u /\ M \cup X = M \cup {x}
    BY <2>1, <2>3 DEF X
  <2>7. Len(s \o u) = Len(s) + 1
    BY <2>4, <2>5
  <2> QED BY <2>5, <2>6, <2>7
<1>6. CASE I # {}
  <2>1. k \in I /\ \A i \in I : k <= i
    <3>1. I \subseteq 1..Len(s)
      OBVIOUS
    <3> HIDE DEF I
    <3> QED BY <1>1, <1>6, <3>1, FirstIndex
  <2>2. k \in 1..Len(s) /\ k # 0
    BY <1>1, <2>1
  <2> HIDE DEF k
  <2>3. InsertOrdered(s, x) = SubSeq(s, 1, k - 1) \o <<x>> \o SubSeq(s, k, Len(s))
    BY <1>4, <1>6, <2>2 DEF InsertOrdered, InsertAt
  <2> DEFINE A == {s[i] : i \in 1..(k - 1)}
             B == {s[i] : i \in k..Len(s)}
             p == SubSeq(s, 1, k - 1)
             q == SubSeq(s, k, Len(s))
  <2>4. Lists(p, A, Key) /\ Len(p) = k - 1
    <3>1. 1 \in Nat \ {0} /\ k - 1 \in Nat /\ k - 1 <= Len(s)
      BY <1>1, <2>2
    <3>2. Lists(p, A, Key) /\ Len(p) = IF 1 <= k - 1 THEN (k - 1) - 1 + 1 ELSE 0
      BY <3>1, PartLists, KeyType
    <3> QED BY <2>2, <3>1, <3>2
  <2>5. Lists(q, B, Key) /\ Len(q) = Len(s) - k + 1
    <3>1. k \in Nat \ {0} /\ Len(s) \in Nat /\ Len(s) <= Len(s)
      BY <1>1, <2>2
    <3>2. Lists(q, B, Key) /\ Len(q) = IF k <= Len(s) THEN Len(s) - k + 1 ELSE 0
      BY <3>1, PartLists, KeyType
    <3> QED BY <2>2, <3>2
  <2>6. \A a \in A : Key[a] < Key[x]
    <3>1. ASSUME NEW i \in 1..(k - 1) PROVE Key[s[i]] < Key[x]
      <4>1. i \in 1..Len(s) /\ i \notin I
        BY <1>1, <2>1, <2>2
      <4> QED BY <1>1, <1>2, <1>3, <4>1
    <3> QED BY <3>1
  <2>7. \A b \in B : Key[x] < Key[b]
    <3>1. Key[x] < Key[s[k]]
      BY <1>2, <1>3, <2>1
    <3>2. ASSUME NEW i \in k..Len(s) PROVE Key[x] < Key[s[i]]
      <4>1. i \in 1..Len(s) /\ (i = k \/ k < i)
        BY <1>1, <2>2
      <4> QED BY <1>1, <1>3, <2>2, <3>1, <4>1
    <3> QED BY <3>2
  <2>8. A \cup B = M
    <3>1. \A i \in 1..Len(s) : i \in 1..(k - 1) \/ i \in k..Len(s)
      BY <1>1, <2>2
    <3>2. \A i \in 1..(k - 1) : i \in 1..Len(s)
      BY <1>1, <2>2
    <3>3. \A i \in k..Len(s) : i \in 1..Len(s)
      BY <1>1, <2>2
    <3> QED BY <1>1, <3>1, <3>2, <3>3
  <2> HIDE DEF A, B, p, q, I
  <2>9. Lists(p \o <<x>> \o q, A \cup {x} \cup B, Key) /\ Len(p \o <<x>> \o q) = Len(p) + 1 + Len(q)
    BY <2>4, <2>5, <2>6, <2>7, ListJoin, KeyType
  <2>10. InsertOrdered(s, x) = p \o <<x>> \o q /\ A \cup {x} \cup B = M \cup {x}
    BY <2>3, <2>8 DEF p, q
  <2>11. (k - 1) + 1 + (Len(s) - k + 1) = Len(s) + 1
    BY <1>1, <2>2
  <2>12. Len(p \o <<x>> \o q) = Len(s) + 1
    BY <2>4, <2>5, <2>9, <2>11
  <2> QED BY <2>9, <2>10, <2>12
<1> QED BY <1>5, <1>6

\* The place of a listed node.
LEMMA PlaceFacts ==
  ASSUME NEW s, NEW M, Lists(s, M, Key), NEW x \in M, NEW i, i = SelectInSeq(s, LAMBDA n : n = x)
  PROVE  i \in 1..Len(s) /\ s[i] = x
<1> DEFINE I == {j \in 1..Len(s) : s[j] = x}
<1>1. Len(s) \in Nat /\ I # {}
  BY ListFacts, KeyType
<1>2. i = Min(I)
  BY <1>1 DEF SelectInSeq
<1>3. I \subseteq 1..Len(s)
  OBVIOUS
<1>4. Min(I) \in I
  <2> HIDE DEF I
  <2> QED BY <1>1, <1>3, FirstIndex
<1> QED BY <1>2, <1>4

\* Taking a node out of a list.
LEMMA RemoveFirstLists ==
  ASSUME NEW s, NEW M, Lists(s, M, Key), NEW x \in M
  PROVE  /\ Lists(RemoveFirst(s, x), M \ {x}, Key)
         /\ Len(RemoveFirst(s, x)) = Len(s) - 1
<1>1. /\ s \in Seq(Nodes) /\ Len(s) \in Nat
      /\ \A i \in 1..Len(s) : s[i] \in M /\ s[i] \in Nodes /\ Key[s[i]] \in Nat
      /\ \A i, j \in 1..Len(s) : i < j => Key[s[i]] < Key[s[j]]
  BY KeyType, ListFacts
<1>2. PICK i \in 1..Len(s) : i = SelectInSeq(s, LAMBDA n : n = x) /\ s[i] = x
  BY PlaceFacts
<1> DEFINE A == {s[k] : k \in 1..(i - 1)}
           B == {s[k] : k \in (i + 1)..Len(s)}
           p == SubSeq(s, 1, i - 1)
           q == SubSeq(s, i + 1, Len(s))
<1>3. RemoveFirst(s, x) = p \o q
  BY <1>2 DEF RemoveFirst, RemoveAt
<1>4. Lists(p, A, Key) /\ Len(p) = i - 1
  <2>1. 1 \in Nat \ {0} /\ i - 1 \in Nat /\ i - 1 <= Len(s)
    BY <1>1
  <2>2. Lists(p, A, Key) /\ Len(p) = IF 1 <= i - 1 THEN (i - 1) - 1 + 1 ELSE 0
    BY <2>1, PartLists, KeyType
  <2> QED BY <2>1, <2>2
<1>5. Lists(q, B, Key) /\ Len(q) = Len(s) - i
  <2>1. i + 1 \in Nat \ {0} /\ Len(s) \in Nat /\ Len(s) <= Len(s)
    BY <1>1
  <2>2. Lists(q, B, Key) /\ Len(q) = IF i + 1 <= Len(s) THEN Len(s) - (i + 1) + 1 ELSE 0
    BY <2>1, PartLists, KeyType
  <2> QED BY <1>1, <2>2
<1>6. \A a \in A, b \in B : Key[a] < Key[b]
  <2>1. ASSUME NEW j \in 1..(i - 1), NEW k \in (i + 1)..Len(s) PROVE Key[s[j]] < Key[s[k]]
    BY <1>1
  <2> QED BY <2>1
<1>7. A \cup B = M \ {x}
  <2>1. A \cup B = M \ {s[i]}
    BY ListCut, KeyType
  <2> QED BY <1>2, <2>1
<1> HIDE DEF A, B, p, q
<1>8. Lists(p \o q, A \cup B, Key) /\ Len(p \o q) = Len(p) + Len(q)
  BY <1>4, <1>5, <1>6, ListConcat, KeyType
<1>9. (i - 1) + (Len(s) - i) = Len(s) - 1
  BY <1>1
<1>10. Len(p \o q) = Len(s) - 1
  BY <1>4, <1>5, <1>8, <1>9
<1> QED BY <1>3, <1>7, <1>8, <1>10

-----------------------------------------------------------------------------
\* The node of an object that is not linked does not matter to the tree.

Renewed(r, h, x) ==
  /\ r \in Heaps /\ Root(r) = Root(h) /\ Faulty(r) = Faulty(h)
  /\ \A m \in Nodes : m # x =>
       /\ Parent(r, m) = Parent(h, m) /\ Color(r, m) = Color(h, m)
       /\ \A s \in Sides : Child(r, s, m) = Child(h, s, m)

LEMMA FreshWrites ==
  ASSUME NEW h \in Heaps, NEW x \in Nodes
  PROVE  Renewed(Fresh(h, x), h, x)
<1> DEFINE a == WithChild(h, "left", x, null)
           b == WithChild(a, "right", x, null)
           c == WithParent(b, x, null)
<1>1. null \in Nodes \cup {null} /\ "left" \in Sides /\ "right" \in Sides /\ "RED" \in Colors
      /\ \A s \in Sides : s = "left" \/ s = "right"
  BY DEF Sides, Colors
<1>2. Fresh(h, x) = Paint(c, x, "RED")
  BY DEF Heaps, Fresh, WithChild, WithParent, Paint
<1> HIDE DEF a, b, c
<1>3. ChildSet(a, h, "left", x, null)
  BY <1>1, WithChildWrites DEF a
<1>4. ChildSet(b, a, "right", x, null)
  BY <1>1, <1>3, WithChildWrites DEF b, ChildSet
<1>5. ParentSet(c, b, x, null)
  BY <1>1, <1>4, WithParentWrites DEF c, ChildSet
<1>6. ColorSet(Fresh(h, x), c, x, "RED")
  BY <1>1, <1>2, <1>5, PaintWrites DEF ParentSet
<1> QED BY <1>1, <1>3, <1>4, <1>5, <1>6 DEF ChildSet, ParentSet, ColorSet, Renewed,
       SameColors, SameParents, SameChildren

LEMMA FreshShape ==
  ASSUME NEW h, NEW L, Sound(h, L, Key), NEW x \in Nodes, x \notin L
  PROVE  Sound(Fresh(h, x), L, Key)
<1> DEFINE r == Fresh(h, x)
<1>1. h \in Heaps /\ ~Faulty(h) /\ (L # {} => BlackRoot(h))
  BY DEF Sound
<1>2. PICK d : Shape(h, L, d, Key)
  BY DEF Sound
<1>3. Renewed(r, h, x)
  BY <1>1, FreshWrites
<1> HIDE DEF r
<1>4. L \subseteq Nodes /\ Distinct(L, Key) /\ Covers(L, d)
  BY <1>2 DEF Shape
<1>5. \A n \in L : n # x /\ n \in Nodes
  BY <1>4
<1>6. \A n \in L, s \in Sides : Child(r, s, n) = Child(h, s, n) /\ Parent(r, n) = Parent(h, n)
  BY <1>3, <1>5 DEF Renewed
<1>7. Root(r) = Root(h) /\ Root(h) \in L \cup {null}
  BY <1>2, <1>3 DEF Renewed, Shape, Rooted
<1>8. Rooted(r, L, d)
  <2>1. Root(h) # null => Root(h) \in L /\ Parent(h, Root(h)) = null
    BY <1>2, <1>7 DEF Shape, Rooted
  <2>2. Root(h) # null => Parent(r, Root(h)) = null
    BY <1>3, <1>5, <2>1 DEF Renewed
  <2> QED BY <1>2, <1>7, <2>2 DEF Shape, Rooted
<1>9. Doubled(r, L)
  <2>1. ASSUME NEW n \in L, NEW s \in Sides, Child(r, s, n) # null PROVE Parent(r, Child(r, s, n)) = n
    <3>1. Child(r, s, n) = Child(h, s, n) /\ Child(h, s, n) \in L /\ Parent(h, Child(h, s, n)) = n
      BY <1>2, <1>6, <2>1 DEF Shape, Searchable, Doubled
    <3> QED BY <1>6, <3>1
  <2>2. ASSUME NEW n \in L
        PROVE  IF Parent(r, n) = null THEN n = Root(r)
               ELSE Parent(r, n) \in L /\ \E s \in Sides : Child(r, s, Parent(r, n)) = n
    <3>1. Parent(r, n) = Parent(h, n)
      BY <1>3, <1>5 DEF Renewed
    <3>2. IF Parent(h, n) = null THEN n = Root(h)
          ELSE Parent(h, n) \in L /\ \E s \in Sides : Child(h, s, Parent(h, n)) = n
      BY <1>2 DEF Shape, Doubled
    <3> QED BY <1>6, <1>7, <3>1, <3>2
  <2> QED BY <2>1, <2>2 DEF Doubled
<1>10. Searchable(r, L, d, Key)
  BY <1>2, <1>6 DEF Shape, Searchable
<1>11. Shape(r, L, d, Key)
  BY <1>4, <1>8, <1>9, <1>10 DEF Shape
<1>12. L # {} => BlackRoot(r)
  BY <1>1, <1>3, <1>5, <1>7 DEF BlackRoot, Renewed
<1> QED BY <1>1, <1>3, <1>11, <1>12 DEF Sound, Renewed, r

-----------------------------------------------------------------------------
\* Look-ups.

Holds(n, ends, addr) == Start(n) <= addr /\ addr < ends[n]

\* find_vma returns an area of the tree that holds the address, or null; the
\* area is found if those that end before the address start before the area.
LEMMA FindFacts ==
  ASSUME NEW h, NEW L, Sound(h, L, Key), NEW ends \in [Nodes -> Nat], NEW addr \in Nat,
         NEW r, r = find_vma(h, ends, addr)
  PROVE  /\ r \in L \cup {null}
         /\ r # null => Holds(r, ends, addr)
         /\ \A x \in L : Holds(x, ends, addr) /\ (\A m \in L : addr >= ends[m] => Start(m) < Start(x))
              => r # null
<1> DEFINE N == Nodes \cup {null}
           toward(n) == IF addr < Start(n) THEN "left" ELSE "right"
           more == {n \in Nodes : addr < Start(n) \/ addr >= ends[n]}
           body == [n \in more |-> Child(h, toward(n), n)]
           Target(x) == x \in L /\ Holds(x, ends, addr)
                        /\ \A m \in L : addr >= ends[m] => Start(m) < Start(x)
<1>1. PICK d : Shape(h, L, d, Key)
  BY DEF Sound
<1> DEFINE Ways == {m \in L \cup {null} : \A x \in L : Target(x) => x \in Below(d, m)}
           left == [m \in Ways |-> Below(d, m)]
<1>2. /\ h \in Heaps /\ L \subseteq Nodes /\ Covers(L, d) /\ Rooted(h, L, d) /\ Searchable(h, L, d, Key)
      /\ null \notin L /\ IsFiniteSet(L)
  BY <1>1, NullFacts, NodesFinite DEF Sound, Shape
<1>3. r = Loop(N, body)[Root(h)]
  BY Zenon DEF find_vma, Root, Child, Beyond
<1>4. Root(h) \in Ways
  BY <1>2 DEF Rooted
<1>5. ASSUME NEW m \in Ways \cap more
      PROVE  body[m] \in Ways /\ left[body[m]] \subseteq left[m] /\ left[body[m]] # left[m]
  <2>1. m \in L /\ m \in Nodes /\ (addr < Start(m) \/ addr >= ends[m])
    BY <1>2, NullFacts
  <2>2. PICK t \in Sides : t = toward(m)
    BY DEF Sides
  <2>3. PICK c \in L \cup {null} : c = Child(h, t, m) /\ c = body[m]
    BY <1>2, <2>1, <2>2 DEF Searchable
  <2>4. Below(d, c) = {x \in Below(d, m) : On(t, Key, x, m)} /\ m \in Below(d, m)
    BY <1>2, <2>1, <2>3 DEF Searchable, Covers
  <2>5. m \notin Below(d, c)
    BY <2>1, <2>4, KeyType, OnFacts
  <2>6. ASSUME NEW x \in L, Target(x) PROVE x \in Below(d, c)
    <3>1. x \in Below(d, m)
      BY <2>6
    <3>2. x \in Nodes /\ Start(x) <= addr /\ addr >= ends[m] => Start(m) < Start(x)
      BY <1>2, <2>1, <2>6 DEF Holds
    <3>3. On(t, Key, x, m)
      <4>1. CASE addr < Start(m)
        <5>1. Start(x) <= addr /\ x \in Nodes
          BY <1>2, <2>6 DEF Holds
        <5>2. Start(x) < Start(m)
          BY <2>1, <4>1, <5>1, KeyType
        <5> QED BY <2>1, <2>2, <4>1, <5>1, <5>2, KeyType DEF On
      <4>2. CASE ~ (addr < Start(m))
        <5>1. Start(m) < Start(x) /\ x \in Nodes
          BY <1>2, <2>1, <2>6, <4>2
        <5> QED BY <2>1, <2>2, <4>2, <5>1, KeyType DEF On
      <4> QED BY <4>1, <4>2
    <3> QED BY <2>4, <3>1, <3>3
  <2>7. c \in Ways
    BY <2>6
  <2> QED BY <2>3, <2>4, <2>5, <2>7
<1>6. body \in [more -> N]
  BY <1>2, HeapFacts DEF Sides
<1>7. left \in [Ways -> SUBSET L]
  BY <1>2 DEF Covers
<1>8. more \in SUBSET N /\ Ways \in SUBSET N
  BY <1>2
<1>9. r \in Ways \ more
  <2> HIDE DEF N, more, body, Ways, left
  <2>1. Advances(N, more, body, Ways, L, left)
    BY <1>2, <1>5, <1>6, <1>7, <1>8 DEF Advances
  <2> QED BY <1>3, <1>4, <2>1, LoopEnds
<1>10. r # null => Holds(r, ends, addr)
  BY <1>2, <1>9, KeyType DEF Holds
<1>11. ASSUME NEW x \in L, Target(x) PROVE r # null
  BY <1>2, <1>9, <1>11 DEF Covers
<1> QED BY <1>9, <1>10, <1>11

\* find_vma_after returns the first area that starts at the address or later.
LEMMA FindAfterFacts ==
  ASSUME NEW h, NEW L, Sound(h, L, Key), NEW addr \in Nat, NEW r, r = find_vma_after(h, addr)
  PROVE  /\ r \in L \cup {null}
         /\ r # null => Start(r) >= addr
         /\ \A x \in L : Start(x) >= addr => r # null /\ Start(r) <= Start(x)
<1> DEFINE N == Nodes \cup {null}
           S == N \X N
           more == Nodes \X N
           next(n, best) == IF Start(n) >= addr THEN <<Child(h, "left", n), n>>
                            ELSE <<Child(h, "right", n), best>>
           body == [s \in more |-> next(s[1], s[2])]
           Late(x) == x \in L /\ Start(x) >= addr
           end == Loop(S, body)[<<Root(h), null>>]
<1>1. PICK d : Shape(h, L, d, Key)
  BY DEF Sound
<1> DEFINE Best(n, best) ==
             /\ n \in L \cup {null} /\ best \in L \cup {null}
             /\ best # null => Start(best) >= addr
             /\ \A x \in Below(d, n) : best # null => Start(x) < Start(best)
             /\ \A x \in L : Late(x) /\ x \notin Below(d, n) => best # null /\ Start(best) <= Start(x)
           Inv == {s \in S : Best(s[1], s[2])}
           left == [s \in Inv |-> Below(d, s[1])]
<1>2. /\ h \in Heaps /\ L \subseteq Nodes /\ Covers(L, d) /\ Rooted(h, L, d) /\ Searchable(h, L, d, Key)
      /\ null \notin L /\ IsFiniteSet(L)
  BY <1>1, NullFacts, NodesFinite DEF Sound, Shape
<1>3. r = end[2]
  <2>1. [s \in more |-> IF Start(s[1]) >= addr THEN <<h.child["left"][s[1]], s[1]>>
                        ELSE <<h.child["right"][s[1]], s[2]>>] = body
    BY DEF Child
  <2> QED BY <2>1 DEF find_vma_after, Root
<1>4. <<Root(h), null>> \in Inv
  BY <1>2 DEF Rooted
<1>5. ASSUME NEW n \in Nodes, NEW best \in N, Best(n, best), NEW c, NEW b, <<c, b>> = next(n, best)
      PROVE  Best(c, b) /\ Below(d, c) \subseteq Below(d, n) /\ Below(d, c) # Below(d, n)
  <2>1. n \in L /\ n \in Below(d, n) /\ Below(d, n) \subseteq L
    BY <1>2, <1>5, NullFacts DEF Covers
  <2>2. \A s \in Sides : /\ Child(h, s, n) \in L \cup {null}
                         /\ Below(d, Child(h, s, n)) = {x \in Below(d, n) : On(s, Key, x, n)}
    BY <1>2, <2>1 DEF Searchable
  <2>3. \A x \in L : x \in Nodes /\ Key[x] = Start(x) /\ Start(x) \in Nat
    BY <1>2, KeyType
  <2>4. CASE Start(n) >= addr
    <3>1. c = Child(h, "left", n) /\ b = n
      BY <1>5, <2>4
    <3>2. Below(d, c) = {x \in Below(d, n) : Start(x) < Start(n)} /\ c \in L \cup {null}
      BY <2>1, <2>2, <2>3, <3>1 DEF Sides, On
    <3>3. n \notin Below(d, c)
      BY <2>1, <2>3, <3>2
    <3>4. ASSUME NEW x \in L, Late(x), x \notin Below(d, c) PROVE Start(n) <= Start(x)
      <4>1. CASE x \in Below(d, n)
        BY <2>1, <2>3, <3>2, <3>4, <4>1
      <4>2. CASE x \notin Below(d, n)
        <5>1. best # null /\ Start(best) <= Start(x) /\ best \in L
          BY <1>5, <3>4, <4>2
        <5>2. Start(n) < Start(best)
          BY <1>5, <2>1, <5>1
        <5> QED BY <2>1, <2>3, <5>1, <5>2
      <4> QED BY <4>1, <4>2
    <3>5. Below(d, c) \subseteq Below(d, n) /\ Below(d, c) # Below(d, n)
      BY <2>1, <3>2, <3>3
    <3>6. n # null
      BY <1>2, <2>1
    <3>7. Best(c, n)
      BY <2>1, <2>4, <3>2, <3>4, <3>6
    <3> QED BY <3>1, <3>5, <3>7
  <2>5. CASE ~ (Start(n) >= addr)
    <3>1. c = Child(h, "right", n) /\ b = best
      BY <1>5, <2>5
    <3>2. Below(d, c) = {x \in Below(d, n) : Start(n) < Start(x)} /\ c \in L \cup {null}
      BY <2>1, <2>2, <2>3, <3>1 DEF Sides, On
    <3>3. n \notin Below(d, c)
      BY <2>1, <2>3, <3>2
    <3>4. ASSUME NEW x \in L, Late(x), x \notin Below(d, c) PROVE x \notin Below(d, n)
      BY <2>1, <2>3, <2>5, <3>2, <3>4
    <3> QED BY <1>5, <3>1, <3>2, <3>3, <3>4, <2>1
  <2> QED BY <2>4, <2>5
<1>6. ASSUME NEW s \in Inv \cap more
      PROVE  body[s] \in Inv /\ left[body[s]] \subseteq left[s] /\ left[body[s]] # left[s]
  <2>1. PICK n \in Nodes, best \in N : s = <<n, best>> /\ Best(n, best)
    BY <1>6
  <2>2. PICK c, b : <<c, b>> = next(n, best)
    OBVIOUS
  <2>3. body[s] = <<c, b>>
    BY <2>1, <2>2
  <2>4. Best(c, b) /\ Below(d, c) \subseteq Below(d, n) /\ Below(d, c) # Below(d, n)
    BY <1>5, <2>1, <2>2
  <2>5. <<c, b>> \in Inv
    BY <1>2, <2>4
  <2> QED BY <2>1, <2>3, <2>4, <2>5
<1>7. body \in [more -> S]
  BY <1>2, HeapFacts DEF Sides
<1>8. left \in [Inv -> SUBSET L]
  BY <1>2 DEF Covers
<1>9. more \in SUBSET S /\ Inv \in SUBSET S
  OBVIOUS
<1>10. end \in Inv \ more
  <2> HIDE DEF S, more, body, Inv, left
  <2>1. Advances(S, more, body, Inv, L, left)
    BY <1>2, <1>6, <1>7, <1>8, <1>9 DEF Advances
  <2> QED BY <1>4, <2>1, LoopEnds
<1> HIDE DEF end
<1>11. PICK n \in N, best \in N : end = <<n, best>> /\ Best(n, best) /\ n = null
  BY <1>10
<1>12. r = best /\ Below(d, n) = {}
  BY <1>2, <1>3, <1>11 DEF Covers
<1> QED BY <1>11, <1>12

-----------------------------------------------------------------------------
\* The inductive invariant.

\* The tree and the list hold the areas L, and total counts them.
Kept(h, list, total, L) == Sound(h, L, Key) /\ Lists(list, L, Key) /\ total = Len(list)

EndsLater(ends) == \A n \in Nodes : Start(n) < ends[n]

MemInv ==
  /\ TypeOK
  /\ EndsLater(vm_end)
  /\ Running => Kept(vma_root, vma_list, total_vmas, Linked)

LEMMA ListIsSet ==
  ASSUME NEW s, NEW M, Lists(s, M, Key)
  PROVE  ToSet(s) = M
<1>1. s \in Seq(Nodes) /\ M = {s[i] : i \in 1..Len(s)}
  BY DEF Lists
<1> QED BY <1>1, ListedSet

LEMMA EmptyTreeSound == Sound(EmptyTree, {}, Key)
<1> DEFINE d == [n \in Nodes \cup {null} |-> {}]
<1>1. EmptyTree \in Heaps /\ ~Faulty(EmptyTree) /\ Root(EmptyTree) = null
  BY DEF Heaps, EmptyTree, Faulty, Root, Colors
<1>2. Covers({}, d) /\ Below(d, null) = {}
  BY DEF Covers, Below
<1> HIDE DEF d
<1>3. Shape(EmptyTree, {}, d, Key)
  BY <1>1, <1>2 DEF Shape, Distinct, Rooted, Doubled, Searchable
<1> QED BY <1>1, <1>3 DEF Sound

LEMMA InitMemInv == Init => MemInv
<1> SUFFICES ASSUME Init PROVE MemInv
  OBVIOUS
<1>1. vma_root = EmptyTree /\ vma_list = <<>> /\ total_vmas = 0
      /\ vm_end = [n \in Nodes |-> Areas[n].vm_end]
  BY DEF Init
<1>2. vm_end \in [Nodes -> Nat] /\ EndsLater(vm_end)
  BY <1>1, AreasAssumption DEF EndsLater, Start
<1>3. Lists(<<>>, {}, Key) /\ Len(<<>>) = 0 /\ <<>> \in Seq(Nodes)
  BY NoneListed
<1>4. Linked = {}
  BY <1>1, <1>3, ListIsSet DEF Linked
<1>5. Kept(vma_root, vma_list, total_vmas, Linked)
  BY <1>1, <1>3, <1>4, EmptyTreeSound DEF Kept
<1>6. TypeOK
  BY <1>1, <1>2, <1>3, EmptyTreeSound DEF TypeOK, Sound
<1> QED BY <1>2, <1>5, <1>6 DEF MemInv

\* The neighbours of an area in the list.
LEMMA PrevFacts ==
  ASSUME NEW s, NEW M, Lists(s, M, Key), NEW x \in M, NEW p, p = Prev(s, x), p # null
  PROVE  p \in M /\ Start(p) < Start(x)
<1> DEFINE i == SelectInSeq(s, LAMBDA n : n = x)
<1>1. i \in 1..Len(s) /\ s[i] = x
  BY PlaceFacts
<1>2. p = IF i = 1 THEN null ELSE s[i - 1]
  BY DEF Prev
<1> HIDE DEF i
<1>3. /\ Len(s) \in Nat
      /\ \A k \in 1..Len(s) : s[k] \in M /\ s[k] \in Nodes
      /\ \A k, j \in 1..Len(s) : k < j => Key[s[k]] < Key[s[j]]
  BY KeyType, ListFacts
<1>4. i - 1 \in 1..Len(s) /\ i - 1 < i /\ p = s[i - 1]
  BY <1>1, <1>2, <1>3
<1>5. Key[p] < Key[x] /\ p \in M /\ p \in Nodes /\ x \in Nodes
  BY <1>1, <1>3, <1>4
<1> QED BY <1>5, KeyType

LEMMA NextFacts ==
  ASSUME NEW s, NEW M, Lists(s, M, Key), NEW x \in M, NEW p, p = Next_(s, x), p # null
  PROVE  p \in M /\ Start(x) < Start(p)
<1> DEFINE i == SelectInSeq(s, LAMBDA n : n = x)
<1>1. i \in 1..Len(s) /\ s[i] = x
  BY PlaceFacts
<1>2. p = IF i = Len(s) THEN null ELSE s[i + 1]
  BY DEF Next_
<1> HIDE DEF i
<1>3. /\ Len(s) \in Nat
      /\ \A k \in 1..Len(s) : s[k] \in M /\ s[k] \in Nodes
      /\ \A k, j \in 1..Len(s) : k < j => Key[s[k]] < Key[s[j]]
  BY KeyType, ListFacts
<1>4. i + 1 \in 1..Len(s) /\ i < i + 1 /\ p = s[i + 1]
  BY <1>1, <1>2, <1>3
<1>5. Key[x] < Key[p] /\ p \in M /\ p \in Nodes /\ x \in Nodes
  BY <1>1, <1>3, <1>4
<1> QED BY <1>5, KeyType

\* A removal takes one area away, unless it faults.
LEMMA RemoveKeeps ==
  ASSUME NEW h, NEW list, NEW total, NEW L, Kept(h, list, total, L), NEW x \in L,
         NEW r, r = Fresh(Erase(h, x), x), NEW t, t = RemoveFirst(list, x)
  PROVE  /\ r \in Heaps /\ t \in Seq(Nodes) /\ total - 1 \in Nat
         /\ ~Faulty(r) => Kept(r, t, total - 1, L \ {x})
<1>1. Sound(h, L, Key) /\ Lists(list, L, Key) /\ total = Len(list) /\ Key \in [Nodes -> Nat]
  BY KeyType DEF Kept
<1>2. x \in Nodes /\ Len(list) \in Nat
  BY <1>1, ListFacts
<1>3. Lists(t, L \ {x}, Key) /\ Len(t) = Len(list) - 1
  BY <1>1, RemoveFirstLists
<1>4. t \in Seq(Nodes) /\ Len(t) \in Nat
  BY <1>1, <1>3, ListFacts
<1>5. Erase(h, x) \in Heaps /\ (Faulty(Erase(h, x)) \/ Sound(Erase(h, x), L \ {x}, Key))
  BY <1>1, EraseShape
<1>6. Renewed(r, Erase(h, x), x)
  BY <1>2, <1>5, FreshWrites
<1>7. ASSUME ~Faulty(r) PROVE Sound(r, L \ {x}, Key)
  <2>1. Sound(Erase(h, x), L \ {x}, Key)
    BY <1>5, <1>6, <1>7 DEF Renewed
  <2> QED BY <1>2, <2>1, FreshShape
<1> QED BY <1>1, <1>3, <1>4, <1>6, <1>7 DEF Kept, Renewed

\* An address at which an area starts is looked up with success.
LEMMA StartIsFound ==
  ASSUME NEW h, NEW L, Sound(h, L, Key), NEW ends \in [Nodes -> Nat], EndsLater(ends),
         NEW x \in L, NEW addr, addr = Start(x)
  PROVE  find_vma(h, ends, addr) # null
<1>1. L \subseteq Nodes
  BY DEF Sound, Shape
<1>2. addr \in Nat /\ Holds(x, ends, addr)
  BY <1>1, KeyType DEF Holds, EndsLater
<1>3. \A m \in L : addr >= ends[m] => Start(m) < Start(x)
  BY <1>1, KeyType DEF EndsLater
<1> QED BY <1>2, <1>3, FindFacts

\* add_vma, before the merge: the insertion never faults.
LEMMA InsertKeeps ==
  ASSUME MemInv, NEW vma \in Nodes, CanAdd(vma),
         NEW h, h = Insert(vma_root, vma, [n \in Nodes |-> Start(n)]),
         NEW list, list = InsertOrdered(vma_list, vma)
  PROVE  /\ vma \notin Linked /\ Kept(h, list, total_vmas + 1, Linked \cup {vma})
         /\ Len(list) = Len(vma_list) + 1
         /\ IsRedBlack(vma_root) => IsRedBlack(h)
<1>1. Running /\ vma \notin Linked /\ find_vma(vma_root, vm_end, Start(vma)) = null
  BY DEF CanAdd, Linked
<1>2. /\ Sound(vma_root, Linked, Key) /\ Lists(vma_list, Linked, Key) /\ total_vmas = Len(vma_list)
      /\ EndsLater(vm_end) /\ vm_end \in [Nodes -> Nat]
  BY <1>1 DEF MemInv, Kept, TypeOK
<1>3. \A m \in Linked : Start(m) # Start(vma)
  BY <1>1, <1>2, StartIsFound
<1>4. Linked \subseteq Nodes
  BY <1>2 DEF Sound, Shape
<1>5. \A m \in Linked : Key[m] # Key[vma]
  BY <1>3, <1>4, KeyType
<1>6. /\ Sound(h, Linked \cup {vma}, Key)
      /\ Colored(vma_root, Linked) => Colored(h, Linked \cup {vma})
  <2>1. h = Insert(vma_root, vma, Key) /\ Key \in [Nodes -> Nat]
    BY KeyType DEF Key
  <2> QED BY <1>2, <1>5, <2>1, InsertShape
<1>7. Lists(list, Linked \cup {vma}, Key) /\ Len(list) = Len(vma_list) + 1
  BY <1>2, <1>3, InsertOrderedLists
<1>8. /\ IsRedBlack(vma_root) <=> Colored(vma_root, Linked)
      /\ IsRedBlack(h) <=> Colored(h, Linked \cup {vma})
  BY <1>2, <1>6, KeyType, RedBlackFacts DEF Sound
<1> QED BY <1>1, <1>2, <1>6, <1>7, <1>8 DEF Kept

-----------------------------------------------------------------------------
\* What a call does to the areas and their ends.

\* The areas are those of M, unless the call faults.
Leaves(M) ==
  /\ vma_root' \in Heaps /\ vma_list' \in Seq(Nodes) /\ total_vmas' \in Nat
  /\ Running' => Kept(vma_root', vma_list', total_vmas', M)

AddedAlone(vma) == vma \notin Linked /\ Leaves(Linked \cup {vma}) /\ UNCHANGED vm_end

\* The area before took the addresses of the new one.
AddedToPrev(vma, p) ==
  /\ vma \notin Linked /\ p \in Linked /\ Leaves(Linked)
  /\ CanMerge(p, vma, vm_end)
  /\ vm_end' = [[vm_end EXCEPT ![p] = vm_end[vma]] EXCEPT ![vma] = Areas[vma].vm_end]

\* The new area took the addresses of the next one.
AddedToNext(vma, n) ==
  /\ vma \notin Linked /\ n \in Linked /\ Leaves((Linked \cup {vma}) \ {n})
  /\ CanMerge(vma, n, vm_end)
  /\ vm_end' = [[vm_end EXCEPT ![vma] = vm_end[n]] EXCEPT ![n] = Areas[n].vm_end]

Removed(vma) ==
  /\ vma \in Linked /\ Leaves(Linked \ {vma})
  /\ Len(vma_list') < Len(vma_list)
  /\ vm_end' = [vm_end EXCEPT ![vma] = Areas[vma].vm_end]

LEMMA AddVmaEffects ==
  ASSUME MemInv, NEW vma \in Nodes, AddVma(vma)
  PROVE  AddedAlone(vma) \/ (\E p \in Nodes : AddedToPrev(vma, p)) \/ (\E n \in Nodes : AddedToNext(vma, n))
<1> DEFINE h == Insert(vma_root, vma, [n \in Nodes |-> Start(n)])
           list == InsertOrdered(vma_list, vma)
           L == Linked \cup {vma}
           p == Prev(list, vma)
           n == Next_(list, vma)
<1>1. CanAdd(vma) /\ vma_list \in Seq(Nodes)
  BY DEF AddVma, MemInv, TypeOK
<1>2. vma \notin Linked /\ Kept(h, list, total_vmas + 1, L)
  BY <1>1, InsertKeeps
<1>3. \/ /\ vma_root' = h /\ vma_list' = list /\ total_vmas' = total_vmas + 1
         /\ UNCHANGED vm_end
      \/ /\ MergesPrev(list, vma)
         /\ Remove_vma(vma, h, list, total_vmas + 1, [vm_end EXCEPT ![p] = vm_end[vma]])
      \/ /\ MergesNext(list, vma)
         /\ Remove_vma(n, h, list, total_vmas + 1, [vm_end EXCEPT ![vma] = vm_end[n]])
  BY DEF AddVma, Counted
<1> HIDE DEF h, list, L
<1>4. Sound(h, L, Key) /\ Lists(list, L, Key) /\ total_vmas + 1 = Len(list) /\ vma \in L
  BY <1>2 DEF Kept, L
<1>5. CASE /\ vma_root' = h /\ vma_list' = list /\ total_vmas' = total_vmas + 1
           /\ UNCHANGED vm_end
  <2>1. h \in Heaps /\ list \in Seq(Nodes) /\ Len(list) \in Nat
    BY <1>4, ListFacts, KeyType DEF Sound
  <2>2. Leaves(L)
    BY <1>2, <1>4, <1>5, <2>1 DEF Leaves
  <2> QED BY <1>2, <1>5, <2>2 DEF AddedAlone, L
<1>6. CASE /\ MergesPrev(list, vma)
           /\ Remove_vma(vma, h, list, total_vmas + 1, [vm_end EXCEPT ![p] = vm_end[vma]])
  <2>1. p # null /\ CanMerge(p, vma, vm_end)
    BY <1>6 DEF MergesPrev
  <2>2. /\ vma_root' = Fresh(Erase(h, vma), vma) /\ vma_list' = RemoveFirst(list, vma)
        /\ total_vmas' = (total_vmas + 1) - 1
        /\ vm_end' = [[vm_end EXCEPT ![p] = vm_end[vma]] EXCEPT ![vma] = Areas[vma].vm_end]
    BY <1>6 DEF Remove_vma
  <2>3. p \in L /\ Start(p) < Start(vma)
    BY <1>4, <2>1, PrevFacts
  <2>4. p \in Linked /\ p \in Nodes
    <3>1. L \subseteq Nodes
      BY <1>4, ListFacts, KeyType
    <3>2. p # vma
      BY <2>3, <3>1, KeyType
    <3> QED BY <2>3, <3>1, <3>2 DEF L
  <2>5. Leaves(L \ {vma})
    <3>1. /\ vma_root' \in Heaps /\ vma_list' \in Seq(Nodes) /\ (total_vmas + 1) - 1 \in Nat
          /\ ~Faulty(vma_root') => Kept(vma_root', vma_list', (total_vmas + 1) - 1, L \ {vma})
      BY <1>2, <1>4, <2>2, RemoveKeeps
    <3> QED BY <2>2, <3>1 DEF Leaves, Running, Faulty
  <2>6. L \ {vma} = Linked
    BY <1>2 DEF L
  <2>7. AddedToPrev(vma, p)
    BY <1>2, <2>1, <2>2, <2>4, <2>5, <2>6 DEF AddedToPrev
  <2> QED BY <2>4, <2>7
<1>7. CASE /\ MergesNext(list, vma)
           /\ Remove_vma(n, h, list, total_vmas + 1, [vm_end EXCEPT ![vma] = vm_end[n]])
  <2>1. n # null /\ CanMerge(vma, n, vm_end)
    BY <1>7 DEF MergesNext
  <2>2. /\ vma_root' = Fresh(Erase(h, n), n) /\ vma_list' = RemoveFirst(list, n)
        /\ total_vmas' = (total_vmas + 1) - 1
        /\ vm_end' = [[vm_end EXCEPT ![vma] = vm_end[n]] EXCEPT ![n] = Areas[n].vm_end]
    BY <1>7 DEF Remove_vma
  <2>3. n \in L /\ Start(vma) < Start(n)
    BY <1>4, <2>1, NextFacts
  <2>4. n \in Linked /\ n \in Nodes
    <3>1. L \subseteq Nodes
      BY <1>4, ListFacts, KeyType
    <3>2. n # vma
      BY <2>3, <3>1, KeyType
    <3> QED BY <2>3, <3>1, <3>2 DEF L
  <2>5. Leaves(L \ {n})
    <3>1. /\ vma_root' \in Heaps /\ vma_list' \in Seq(Nodes) /\ (total_vmas + 1) - 1 \in Nat
          /\ ~Faulty(vma_root') => Kept(vma_root', vma_list', (total_vmas + 1) - 1, L \ {n})
      BY <1>2, <2>2, <2>3, RemoveKeeps
    <3> QED BY <2>2, <3>1 DEF Leaves, Running, Faulty
  <2>6. AddedToNext(vma, n)
    BY <1>2, <2>1, <2>2, <2>4, <2>5 DEF AddedToNext, L
  <2> QED BY <2>4, <2>6
<1> QED BY <1>3, <1>5, <1>6, <1>7

LEMMA RemoveVmaEffects ==
  ASSUME MemInv, NEW vma \in Nodes, RemoveVma(vma)
  PROVE  Removed(vma)
<1>1. Running /\ vma \in Linked /\ Remove_vma(vma, vma_root, vma_list, total_vmas, vm_end)
  BY DEF RemoveVma, Linked
<1>2. Kept(vma_root, vma_list, total_vmas, Linked)
  BY <1>1 DEF MemInv
<1>3. /\ vma_root' = Fresh(Erase(vma_root, vma), vma) /\ vma_list' = RemoveFirst(vma_list, vma)
      /\ total_vmas' = total_vmas - 1
      /\ vm_end' = [vm_end EXCEPT ![vma] = Areas[vma].vm_end]
  BY <1>1 DEF Remove_vma
<1>4. /\ vma_root' \in Heaps /\ vma_list' \in Seq(Nodes) /\ total_vmas - 1 \in Nat
      /\ ~Faulty(vma_root') => Kept(vma_root', vma_list', total_vmas - 1, Linked \ {vma})
  BY <1>1, <1>2, <1>3, RemoveKeeps
<1>5. Leaves(Linked \ {vma})
  BY <1>3, <1>4 DEF Leaves, Running, Faulty
<1>6. Len(vma_list') = Len(vma_list) - 1 /\ Len(vma_list) \in Nat
  BY <1>1, <1>2, <1>3, RemoveFirstLists, ListFacts, KeyType DEF Kept
<1> QED BY <1>1, <1>3, <1>5, <1>6 DEF Removed

\* Each call keeps the ends after the starts.
LEMMA EndsStep ==
  ASSUME MemInv, NEW vma \in Nodes,
         AddedAlone(vma) \/ (\E p \in Nodes : AddedToPrev(vma, p))
                         \/ (\E n \in Nodes : AddedToNext(vma, n)) \/ Removed(vma)
  PROVE  EndsLater(vm_end') /\ vm_end' \in [Nodes -> Nat]
<1>1. EndsLater(vm_end) /\ vm_end \in [Nodes -> Nat]
  BY DEF MemInv, TypeOK
<1>2. \A n \in Nodes : Areas[n].vm_end \in Nat /\ Start(n) < Areas[n].vm_end /\ Start(n) \in Nat
  BY AreasAssumption DEF Start
<1>3. CASE AddedAlone(vma)
  BY <1>1, <1>3 DEF AddedAlone
<1>4. CASE \E p \in Nodes : AddedToPrev(vma, p)
  <2>1. PICK p \in Nodes : AddedToPrev(vma, p)
    BY <1>4
  <2>2. Start(p) < vm_end[vma]
    BY <1>1, <1>2, <2>1 DEF AddedToPrev, CanMerge, EndsLater
  <2> QED BY <1>1, <1>2, <2>1, <2>2 DEF AddedToPrev, EndsLater
<1>5. CASE \E n \in Nodes : AddedToNext(vma, n)
  <2>1. PICK n \in Nodes : AddedToNext(vma, n)
    BY <1>5
  <2>2. Start(vma) < vm_end[n]
    BY <1>1, <1>2, <2>1 DEF AddedToNext, CanMerge, EndsLater
  <2> QED BY <1>1, <1>2, <2>1, <2>2 DEF AddedToNext, EndsLater
<1>6. CASE Removed(vma)
  BY <1>1, <1>2, <1>6 DEF Removed, EndsLater
<1> QED BY <1>3, <1>4, <1>5, <1>6

LEMMA LeavesKeeps ==
  ASSUME NEW M, Leaves(M), Running'
  PROVE  Linked' = M /\ Kept(vma_root', vma_list', total_vmas', Linked')
<1>1. Kept(vma_root', vma_list', total_vmas', M)
  BY DEF Leaves
<1>2. ToSet(vma_list') = M
  BY <1>1, ListIsSet DEF Kept
<1> QED BY <1>1, <1>2 DEF Linked

LEMMA NextMemInv == MemInv /\ [Next]_vars => MemInv'
<1> SUFFICES ASSUME MemInv, [Next]_vars PROVE MemInv'
  OBVIOUS
<1>1. CASE UNCHANGED vars
  BY <1>1 DEF vars, MemInv, TypeOK, Running, Kept, Linked
<1>2. CASE Next
  <2>1. PICK vma \in Nodes : AddVma(vma) \/ RemoveVma(vma)
    BY <1>2 DEF Next
  <2>2. AddedAlone(vma) \/ (\E p \in Nodes : AddedToPrev(vma, p))
                        \/ (\E n \in Nodes : AddedToNext(vma, n)) \/ Removed(vma)
    BY <2>1, AddVmaEffects, RemoveVmaEffects
  <2>3. EndsLater(vm_end') /\ vm_end' \in [Nodes -> Nat]
    BY <2>2, EndsStep
  <2>4. PICK M : Leaves(M)
    BY <2>2 DEF AddedAlone, AddedToPrev, AddedToNext, Removed
  <2>5. TypeOK'
    BY <2>3, <2>4 DEF TypeOK, Leaves
  <2>6. Running' => Kept(vma_root', vma_list', total_vmas', Linked')
    BY <2>4, LeavesKeeps
  <2> QED BY <2>3, <2>5, <2>6 DEF MemInv
<1> QED BY <1>1, <1>2

(* After any calls of add_vma and remove_vma that did not crash, the tree is a  *)
(* search tree of exactly the listed areas, its root is black, the list is in  *)
(* order of the starts and counted, and areas do not end before they start.    *)
THEOREM MemoryInvariant == Spec => []MemInv
<1>1. Init => MemInv
  BY InitMemInv
<1>2. MemInv /\ [Next]_vars => MemInv'
  BY NextMemInv
<1> QED BY <1>1, <1>2, PTL DEF Spec

-----------------------------------------------------------------------------
(* Every call leaves the tree, the list and the counter with values of their   *)
(* types, a call that crashes in an erasure included.                          *)
THEOREM MemoryTypeOK == Spec => []TypeOK
<1>1. MemInv => TypeOK
  BY DEF MemInv
<1> QED BY <1>1, MemoryInvariant, PTL

(* The root is black after every call, so that no insertion ever looks for a   *)
(* grandparent that is not there.                                              *)
THEOREM RootStaysBlack == Spec => []RootIsBlack
<1>1. MemInv => RootIsBlack
  <2> SUFFICES ASSUME MemInv, Running, vma_root.root # null
               PROVE  vma_root.color[vma_root.root] = "BLACK"
    BY DEF RootIsBlack
  <2>1. Sound(vma_root, Linked, Key)
    BY DEF MemInv, Kept
  <2>2. Root(vma_root) \in Linked
    BY <2>1 DEF Sound, Shape, Rooted, Root
  <2>3. BlackRoot(vma_root)
    BY <2>1, <2>2 DEF Sound
  <2> QED BY <2>3 DEF BlackRoot, Root, Color
<1> QED BY <1>1, MemoryInvariant, PTL

(* The tree and the list hold the same areas in the same order, no two with    *)
(* the same start, and total_vmas counts them, after any calls on any areas,   *)
(* overlapping ones and merged ones included, until an erasure crashes.        *)
THEOREM TreeStaysList == Spec => []TreeIsList
<1>1. MemInv => TreeIsList
  <2> SUFFICES ASSUME MemInv, Running
               PROVE  /\ InOrder(vma_root, Cardinality(Nodes) + 1) = vma_list
                      /\ total_vmas = Len(vma_list)
                      /\ \A i \in 1..(Len(vma_list) - 1) : Start(vma_list[i]) < Start(vma_list[i + 1])
    BY DEF TreeIsList
  <2>1. Sound(vma_root, Linked, Key) /\ Lists(vma_list, Linked, Key) /\ total_vmas = Len(vma_list)
    BY DEF MemInv, Kept
  <2>2. Key \in [Nodes -> Nat]
    BY KeyType
  <2>3. Lists(InOrder(vma_root, Cardinality(Nodes) + 1), Linked, Key)
    <3>1. PICK d : vma_root \in Heaps /\ Shape(vma_root, Linked, d, Key)
      BY <2>1 DEF Sound
    <3> QED BY <2>2, <3>1, InOrderLists
  <2>4. InOrder(vma_root, Cardinality(Nodes) + 1) = vma_list
    BY <2>1, <2>2, <2>3, ListUnique
  <2>5. ASSUME NEW i \in 1..(Len(vma_list) - 1)
        PROVE  Start(vma_list[i]) < Start(vma_list[i + 1])
    <3>1. /\ Len(vma_list) \in Nat
          /\ \A k \in 1..Len(vma_list) : vma_list[k] \in Nodes
          /\ \A k, j \in 1..Len(vma_list) : k < j => Key[vma_list[k]] < Key[vma_list[j]]
      BY <2>1, <2>2, ListFacts
    <3>2. i \in 1..Len(vma_list) /\ i + 1 \in 1..Len(vma_list) /\ i < i + 1
      BY <3>1
    <3> QED BY <3>1, <3>2, KeyType
  <2> QED BY <2>1, <2>4, <2>5
<1> QED BY <1>1, MemoryInvariant, PTL

\* No two of the areas overlap.
Apart(L, ends) == \A x, y \in L : Start(x) < Start(y) => ends[x] <= Start(y)

LEMMA DisjointApart ==
  ASSUME NEW list, NEW L, Lists(list, L, Key), NEW ends \in [Nodes -> Nat],
         \A i \in 1..(Len(list) - 1) : ends[list[i]] <= Start(list[i + 1])
  PROVE  Apart(L, ends)
<1>1. /\ Len(list) \in Nat
      /\ \A k \in 1..Len(list) : list[k] \in Nodes
      /\ \A x \in L : \E k \in 1..Len(list) : list[k] = x
      /\ \A k, j \in 1..Len(list) : k < j => Key[list[k]] < Key[list[j]]
  BY KeyType, ListFacts
<1>2. ASSUME NEW x \in L, NEW y \in L, Start(x) < Start(y) PROVE ends[x] <= Start(y)
  <2>1. PICK i \in 1..Len(list), j \in 1..Len(list) : list[i] = x /\ list[j] = y
    BY <1>1
  <2>2. x \in Nodes /\ y \in Nodes /\ Start(x) = Key[x] /\ Start(y) = Key[y]
    BY <1>1, <2>1, KeyType
  <2>3. i < j
    <3>1. SUFFICES ASSUME ~ (i < j) PROVE FALSE
      OBVIOUS
    <3>2. i = j \/ j < i
      BY <1>1, <3>1
    <3> QED BY <1>1, <1>2, <2>1, <2>2, <3>2, KeyType
  <2>4. i \in 1..(Len(list) - 1) /\ i + 1 \in 1..Len(list) /\ (i + 1 = j \/ i + 1 < j)
    BY <1>1, <2>3
  <2>5. ends[x] <= Start(list[i + 1]) /\ ends[x] \in Nat
    BY <2>1, <2>2, <2>4
  <2>6. Key[list[i + 1]] <= Key[y] /\ list[i + 1] \in Nodes
    BY <1>1, <2>1, <2>2, <2>4, KeyType
  <2> QED BY <2>2, <2>5, <2>6, KeyType
<1> QED BY <1>2 DEF Apart

\* find_vma in areas that do not overlap, for the one that holds the address.
LEMMA FindApart ==
  ASSUME NEW h, NEW L, Sound(h, L, Key), NEW ends \in [Nodes -> Nat], EndsLater(ends),
         Apart(L, ends), NEW addr \in Nat, NEW x \in L, Holds(x, ends, addr)
  PROVE  find_vma(h, ends, addr) = x
<1> DEFINE r == find_vma(h, ends, addr)
<1>1. L \subseteq Nodes /\ null \notin L
  BY NullFacts DEF Sound, Shape
<1>2. ASSUME NEW m \in L, addr >= ends[m] PROVE Start(m) < Start(x)
  <2>1. m \in Nodes /\ x \in Nodes /\ Start(m) \in Nat /\ Start(x) \in Nat /\ ends[m] \in Nat /\ ends[x] \in Nat
    BY <1>1, KeyType
  <2>2. Start(m) # Start(x)
    <3>1. Distinct(L, Key)
      BY DEF Sound, Shape
    <3>2. m # x
      BY <1>2, <2>1 DEF Holds
    <3> QED BY <2>1, <3>1, <3>2, KeyType DEF Distinct
  <2>3. Start(x) < Start(m) => ends[x] <= Start(m)
    BY DEF Apart
  <2> QED BY <1>2, <2>1, <2>2, <2>3 DEF Holds, EndsLater
<1>3. r \in L /\ Holds(r, ends, addr)
  <2>1. r # null /\ r \in L \cup {null} /\ (r # null => Holds(r, ends, addr))
    BY <1>2, FindFacts
  <2> QED BY <2>1
<1> HIDE DEF r
<1>4. r \in Nodes /\ x \in Nodes /\ Start(r) \in Nat /\ Start(x) \in Nat /\ ends[r] \in Nat /\ ends[x] \in Nat
  BY <1>1, <1>3, KeyType
<1>5. ~ (Start(r) < Start(x)) /\ ~ (Start(x) < Start(r))
  BY <1>3, <1>4 DEF Apart, Holds
<1>6. Key[r] = Key[x]
  BY <1>4, <1>5, KeyType
<1> QED BY <1>3, <1>6 DEF Sound, Shape, Distinct, r

(* As long as no two areas overlap, find_vma finds the area an address is in,  *)
(* if any; find_vma_after always finds the first area that starts at the       *)
(* address or later.                                                           *)
THEOREM LookupsStayRight == Spec => []LookupsAgree
<1>1. MemInv => LookupsAgree
  <2> SUFFICES ASSUME MemInv, Running, NEW addr \in Addresses
               PROVE
                 /\ Disjoint => LET in == {n \in Linked : addr \in Start(n)..(vm_end[n] - 1)}
                                    found == find_vma(vma_root, vm_end, addr)
                                IN IF in = {} THEN found = null ELSE found \in in
                 /\ LET later == {n \in Linked : Start(n) >= addr}
                        found == find_vma_after(vma_root, addr)
                    IN IF later = {} THEN found = null
                       ELSE found \in later /\ \A n \in later : Start(found) <= Start(n)
    BY DEF LookupsAgree
  <2>1. /\ Sound(vma_root, Linked, Key) /\ Lists(vma_list, Linked, Key)
        /\ EndsLater(vm_end) /\ vm_end \in [Nodes -> Nat] /\ addr \in Nat
    BY AreasAssumption DEF MemInv, Kept, TypeOK
  <2>2. Linked \subseteq Nodes /\ null \notin Linked
    BY <2>1, NullFacts DEF Sound, Shape
  <2>3. \A n \in Linked : addr \in Start(n)..(vm_end[n] - 1) <=> Holds(n, vm_end, addr)
    BY <2>1, <2>2, KeyType DEF Holds
  <2>4. ASSUME Disjoint
        PROVE  LET in == {n \in Linked : addr \in Start(n)..(vm_end[n] - 1)}
                   found == find_vma(vma_root, vm_end, addr)
               IN IF in = {} THEN found = null ELSE found \in in
    <3> DEFINE in == {n \in Linked : addr \in Start(n)..(vm_end[n] - 1)}
               found == find_vma(vma_root, vm_end, addr)
    <3>1. found \in Linked \cup {null} /\ (found # null => Holds(found, vm_end, addr))
      BY <2>1, FindFacts
    <3>2. in = {n \in Linked : Holds(n, vm_end, addr)}
      BY <2>3
    <3>3. CASE in = {}
      <4>1. found = null
        BY <3>1, <3>2, <3>3
      <4> QED BY <3>3, <4>1
    <3>4. CASE in # {}
      <4>1. PICK x \in Linked : Holds(x, vm_end, addr)
        BY <3>2, <3>4
      <4>2. Apart(Linked, vm_end)
        BY <2>1, <2>4, DisjointApart DEF Disjoint
      <4>3. found = x
        BY <2>1, <4>1, <4>2, FindApart
      <4>4. found \in in
        BY <3>2, <4>1, <4>3
      <4> QED BY <3>4, <4>4
    <3> QED BY <3>3, <3>4
  <2>5. LET later == {n \in Linked : Start(n) >= addr}
            found == find_vma_after(vma_root, addr)
        IN IF later = {} THEN found = null
           ELSE found \in later /\ \A n \in later : Start(found) <= Start(n)
    <3> DEFINE found == find_vma_after(vma_root, addr)
    <3>1. /\ found \in Linked \cup {null}
          /\ found # null => Start(found) >= addr
          /\ \A x \in Linked : Start(x) >= addr => found # null /\ Start(found) <= Start(x)
      BY <2>1, FindAfterFacts
    <3> HIDE DEF found
    <3> QED BY <3>1 DEF found
  <2> QED BY <2>4, <2>5
<1> QED BY <1>1, MemoryInvariant, PTL

-----------------------------------------------------------------------------
LEMMA TimesSum ==
  ASSUME NEW a \in Nat, NEW b \in Nat, NEW c \in Nat
  PROVE  (a + b) * c = a * c + b * c
OBVIOUS

LEMMA WholeQuotient ==
  ASSUME NEW n \in Nat, NEW m \in Nat, m > 0, n % m = 0
  PROVE  n \div m \in Nat /\ n = (n \div m) * m
OBVIOUS

\* Where two areas merge, the second one maps an address to the byte that the
\* first one maps it to, if the first one is a number of pages long.
LEMMA MergedMap ==
  ASSUME NEW a \in Nodes, NEW b \in Nodes, NEW ends \in [Nodes -> Nat], CanMerge(a, b, ends),
         Start(a) < ends[a], (ends[a] - Start(a)) % PageSize = 0, NEW addr \in Nat
  PROVE  virt_to_phys(a, addr) = virt_to_phys(b, addr)
<1> DEFINE length == ends[a] - Start(a)
           pages == length \div PageSize
<1>1. /\ Areas[a].vm_pfn \in Nat /\ Areas[b].vm_pfn \in Nat /\ Start(a) \in Nat /\ Start(b) \in Nat
      /\ PageSize \in Nat /\ PageSize > 0 /\ ends[a] \in Nat
  BY AreasAssumption, PageSizeAssumption DEF Start
<1>2. length \in Nat /\ pages \in Nat /\ length = pages * PageSize
  <2>1. length \in Nat
    BY <1>1
  <2> QED BY <1>1, <2>1, WholeQuotient
<1>3. Start(b) = Start(a) + length /\ Areas[b].vm_pfn = Areas[a].vm_pfn + pages
  BY <1>1 DEF CanMerge
<1>4. Areas[b].vm_pfn * PageSize = Areas[a].vm_pfn * PageSize + pages * PageSize
  BY <1>1, <1>2, <1>3, TimesSum
<1>5. Areas[a].vm_pfn * PageSize \in Nat /\ Areas[b].vm_pfn * PageSize \in Nat
  BY <1>1
<1> HIDE DEF length, pages
<1> QED BY <1>1, <1>2, <1>3, <1>4, <1>5 DEF virt_to_phys

\* The areas after a call hold the addresses that they held, at the same bytes.
Moved(x, y, addr) ==
  y \in Linked' /\ Holds(y, vm_end', addr) /\ virt_to_phys(y, addr) = virt_to_phys(x, addr)

LEMMA AddMoves ==
  ASSUME MemInv, Running', NEW vma \in Nodes, NEW addr \in Nat,
         AddedAlone(vma) \/ (\E p \in Nodes : AddedToPrev(vma, p)) \/ (\E n \in Nodes : AddedToNext(vma, n)),
         WholePages(Linked \cup {vma}), Linked \subseteq Nodes,
         NEW x \in Linked \cup {vma}, Holds(x, vm_end, addr)
  PROVE  \E y : Moved(x, y, addr)
<1>1. EndsLater(vm_end) /\ vm_end \in [Nodes -> Nat] /\ x \in Nodes
  BY DEF MemInv, TypeOK
<1>2. \A n \in Nodes : Areas[n].vm_pfn \in Nat /\ Start(n) \in Nat
  BY AreasAssumption DEF Start
<1>3. \A n \in Linked \cup {vma} : (vm_end[n] - Start(n)) % PageSize = 0
  BY DEF WholePages
<1>4. CASE AddedAlone(vma)
  <2>1. x \in Linked' /\ vm_end' = vm_end
    BY <1>4, LeavesKeeps DEF AddedAlone
  <2> QED BY <2>1 DEF Moved, Holds
<1>5. CASE \E p \in Nodes : AddedToPrev(vma, p)
  <2>1. PICK p \in Nodes : AddedToPrev(vma, p)
    BY <1>5
  <2>2. Linked' = Linked /\ p \in Linked /\ vma \notin Linked /\ CanMerge(p, vma, vm_end)
    BY <2>1, LeavesKeeps DEF AddedToPrev
  <2>3. \A n \in Linked : vm_end'[n] = IF n = p THEN vm_end[vma] ELSE vm_end[n]
    BY <1>1, <2>1, <2>2 DEF AddedToPrev
  <2>4. vm_end[p] = Start(vma) /\ Start(vma) < vm_end[vma] /\ Start(p) < vm_end[p]
    BY <1>1, <2>2 DEF CanMerge, EndsLater
  <2>5. CASE x = vma
    <3>1. Holds(p, vm_end', addr)
      BY <1>1, <1>2, <2>2, <2>3, <2>4, <2>5 DEF Holds
    <3>2. virt_to_phys(p, addr) = virt_to_phys(vma, addr)
      BY <1>1, <1>3, <2>2, <2>4, MergedMap
    <3> QED BY <2>2, <2>5, <3>1, <3>2 DEF Moved
  <2>6. CASE x # vma
    <3>1. x \in Linked'
      BY <2>2, <2>6
    <3>2. addr < vm_end'[x]
      BY <1>1, <1>2, <2>2, <2>3, <2>4, <3>1 DEF Holds
    <3> QED BY <3>1, <3>2 DEF Moved, Holds
  <2> QED BY <2>5, <2>6
<1>6. CASE \E n \in Nodes : AddedToNext(vma, n)
  <2>1. PICK n \in Nodes : AddedToNext(vma, n)
    BY <1>6
  <2>2. /\ Linked' = (Linked \cup {vma}) \ {n} /\ vma \notin Linked /\ n \in Linked
        /\ CanMerge(vma, n, vm_end)
    BY <2>1, LeavesKeeps DEF AddedToNext
  <2>3. vm_end' = [[vm_end EXCEPT ![vma] = vm_end[n]] EXCEPT ![n] = Areas[n].vm_end]
    BY <2>1 DEF AddedToNext
  <2>4. /\ vm_end[vma] = Start(n) /\ Start(vma) < vm_end[vma] /\ Start(n) < vm_end[n]
        /\ vma # n /\ vma \in Linked' /\ vm_end'[vma] = vm_end[n]
    BY <1>1, <2>2, <2>3 DEF CanMerge, EndsLater
  <2>5. CASE x \notin {vma, n}
    <3>1. x \in Linked' /\ vm_end'[x] = vm_end[x]
      BY <1>1, <2>2, <2>3, <2>5
    <3> QED BY <3>1 DEF Moved, Holds
  <2>6. CASE x \in {vma, n}
    <3>1. Holds(vma, vm_end', addr)
      BY <1>1, <1>2, <2>4, <2>6 DEF Holds
    <3>2. virt_to_phys(vma, addr) = virt_to_phys(n, addr)
      BY <1>1, <1>3, <2>2, <2>4, MergedMap
    <3> QED BY <2>4, <2>6, <3>1, <3>2 DEF Moved
  <2> QED BY <2>5, <2>6
<1> QED BY <1>4, <1>5, <1>6

LEMMA DisjointFinds ==
  ASSUME MemInv, Running, Disjoint, NEW addr \in Nat, NEW r, r = find_vma(vma_root, vm_end, addr)
  PROVE  /\ r # null => r \in Linked /\ Holds(r, vm_end, addr)
         /\ \A x \in Linked : Holds(x, vm_end, addr) => r = x
         /\ Linked \subseteq Nodes
<1>1. /\ Sound(vma_root, Linked, Key) /\ Lists(vma_list, Linked, Key)
      /\ EndsLater(vm_end) /\ vm_end \in [Nodes -> Nat]
  BY DEF MemInv, Kept, TypeOK
<1>2. Apart(Linked, vm_end)
  BY <1>1, DisjointApart DEF Disjoint
<1>3. r # null => r \in Linked /\ Holds(r, vm_end, addr)
  BY <1>1, FindFacts
<1>4. \A x \in Linked : Holds(x, vm_end, addr) => r = x
  BY <1>1, <1>2, FindApart
<1> QED BY <1>1, <1>3, <1>4, ListFacts, KeyType

LEMMA DisjointFindsNext ==
  ASSUME MemInv', Running', Disjoint', NEW addr \in Nat, NEW r, r = find_vma(vma_root', vm_end', addr)
  PROVE  /\ r # null => r \in Linked' /\ Holds(r, vm_end', addr)
         /\ \A x \in Linked' : Holds(x, vm_end', addr) => r = x
<1>1. /\ Sound(vma_root', Linked', Key) /\ Lists(vma_list', Linked', Key)
      /\ EndsLater(vm_end') /\ vm_end' \in [Nodes -> Nat]
  BY DEF MemInv, Kept, TypeOK
<1>2. Apart(Linked', vm_end')
  BY <1>1, DisjointApart DEF Disjoint
<1>3. r # null => r \in Linked' /\ Holds(r, vm_end', addr)
  BY <1>1, FindFacts
<1>4. \A x \in Linked' : Holds(x, vm_end', addr) => r = x
  BY <1>1, <1>2, FindApart
<1> QED BY <1>3, <1>4

LEMMA AddKeepsTranslations ==
  ASSUME MemInv, MemInv', Disjoint, Disjoint', Running', NEW addr \in Addresses,
         NEW vma \in Nodes, AddVma(vma), WholePages(Linked \cup {vma}),
         NEW x \in Linked \cup {vma}, Holds(x, vm_end, addr)
  PROVE  StaysAt(x, addr)
<1> DEFINE found == find_vma(vma_root', vm_end', addr)
<1>1. addr \in Nat /\ Running
  BY AreasAssumption DEF AddVma, CanAdd
<1>2. \A y \in Linked' : Holds(y, vm_end', addr) => found = y
  BY <1>1, DisjointFindsNext
<1>3. Linked \subseteq Nodes /\ Linked' \subseteq Nodes
  BY <1>1, ListFacts, KeyType DEF MemInv, Kept
<1>4. PICK y : Moved(x, y, addr)
  BY <1>1, <1>3, AddVmaEffects, AddMoves
<1>5. found = y /\ y \in Nodes /\ virt_to_phys(y, addr) = virt_to_phys(x, addr)
  BY <1>2, <1>3, <1>4 DEF Moved
<1> QED BY <1>5, NullFacts DEF StaysAt

LEMMA RemoveKeepsTranslations ==
  ASSUME MemInv, MemInv', Disjoint, Disjoint', Running', NEW addr \in Addresses,
         NEW vma \in Nodes, RemoveVma(vma),
         NEW old \in Linked, Holds(old, vm_end, addr), old # vma
  PROVE  StaysAt(old, addr)
<1> DEFINE found == find_vma(vma_root', vm_end', addr)
<1>1. addr \in Nat /\ Running
  BY AreasAssumption DEF RemoveVma
<1>2. \A y \in Linked' : Holds(y, vm_end', addr) => found = y
  BY <1>1, DisjointFindsNext
<1>3. Removed(vma) /\ Linked \subseteq Nodes
  BY <1>1, RemoveVmaEffects, ListFacts, KeyType DEF MemInv, Kept
<1>4. Linked' = Linked \ {vma}
  BY <1>3, LeavesKeeps DEF Removed
<1>5. vm_end'[old] = vm_end[old]
  BY <1>3 DEF Removed, MemInv, TypeOK
<1>6. found = old /\ old \in Nodes
  BY <1>2, <1>3, <1>4, <1>5 DEF Holds
<1> QED BY <1>6, NullFacts DEF StaysAt

(* Merging moves nothing: as long as areas do not overlap and have lengths of  *)
(* whole pages, adding an area leaves every address at the byte where it was,  *)
(* and the new area's at the byte that it was given; removing one takes only   *)
(* its own addresses away.                                                     *)
THEOREM TranslationsStay == Spec => TranslationsKept
<1> DEFINE Keeps ==
      Disjoint /\ Disjoint' /\ Running' =>
        \A vma \in Nodes :
          /\ AddVma(vma) /\ WholePages(Linked \cup {vma}) =>
               \A addr \in Addresses :
                 /\ InArea(vma, addr) => StaysAt(vma, addr)
                 /\ LET old == find_vma(vma_root, vm_end, addr)
                    IN old # null => StaysAt(old, addr)
          /\ RemoveVma(vma) =>
               \A addr \in Addresses :
                 LET old == find_vma(vma_root, vm_end, addr)
                 IN old \notin {null, vma} => StaysAt(old, addr)
<1>1. MemInv /\ MemInv' => Keeps
  <2> SUFFICES ASSUME MemInv, MemInv', Disjoint, Disjoint', Running', NEW vma \in Nodes,
                      NEW addr \in Addresses,
                      NEW old, old = find_vma(vma_root, vm_end, addr)
               PROVE  /\ AddVma(vma) /\ WholePages(Linked \cup {vma}) =>
                           /\ InArea(vma, addr) => StaysAt(vma, addr)
                           /\ old # null => StaysAt(old, addr)
                      /\ RemoveVma(vma) /\ old \notin {null, vma} => StaysAt(old, addr)
    OBVIOUS
  <2>1. ASSUME Running, old # null PROVE old \in Linked /\ Holds(old, vm_end, addr)
    <3>1. addr \in Nat
      BY AreasAssumption
    <3> QED BY <2>1, <3>1, DisjointFinds
  <2>2. AddVma(vma) \/ RemoveVma(vma) => Running
    BY DEF AddVma, CanAdd, RemoveVma
  <2>3. ASSUME AddVma(vma), WholePages(Linked \cup {vma}), InArea(vma, addr) PROVE StaysAt(vma, addr)
    <3>1. Holds(vma, vm_end, addr)
      BY <2>3 DEF InArea, Holds
    <3> QED BY <2>3, <3>1, AddKeepsTranslations
  <2>4. ASSUME AddVma(vma), WholePages(Linked \cup {vma}), old # null PROVE StaysAt(old, addr)
    BY <2>1, <2>2, <2>4, AddKeepsTranslations
  <2>5. ASSUME RemoveVma(vma), old \notin {null, vma} PROVE StaysAt(old, addr)
    <3>1. old # null /\ old # vma
      BY <2>5
    <3> QED BY <2>1, <2>2, <2>5, <3>1, RemoveKeepsTranslations
  <2> QED BY <2>3, <2>4, <2>5
<1>2. MemInv /\ MemInv' /\ [Next]_vars => [Keeps]_vars
  <2> HIDE DEF Keeps
  <2> QED BY <1>1
<1>3. Spec => [][Keeps]_vars
  <2> HIDE DEF Keeps
  <2> QED BY <1>2, MemoryInvariant, PTL DEF Spec
<1> QED BY <1>3 DEF TranslationsKept

-----------------------------------------------------------------------------
\* A call that lengthens the list has inserted and not merged.
LEMMA LongerByInsertion ==
  ASSUME MemInv, NEW vma \in Nodes, AddVma(vma) \/ RemoveVma(vma), Len(vma_list') > Len(vma_list)
  PROVE  CanAdd(vma) /\ vma_root' = Insert(vma_root, vma, [n \in Nodes |-> Start(n)])
<1>1. Len(vma_list) \in Nat
  BY DEF MemInv, TypeOK
<1>2. AddVma(vma)
  <2>1. ASSUME RemoveVma(vma) PROVE Len(vma_list') < Len(vma_list) /\ Len(vma_list') \in Nat
    <3>1. Removed(vma)
      BY <2>1, RemoveVmaEffects
    <3>2. Len(vma_list') < Len(vma_list)
      BY <3>1 DEF Removed
    <3>3. vma_list' \in Seq(Nodes)
      BY <3>1 DEF Removed, Leaves
    <3> QED BY <3>2, <3>3
  <2> QED BY <1>1, <2>1
<1> DEFINE h == Insert(vma_root, vma, [n \in Nodes |-> Start(n)])
           list == InsertOrdered(vma_list, vma)
           L == Linked \cup {vma}
           p == Prev(list, vma)
           n == Next_(list, vma)
<1>3. CanAdd(vma)
  BY <1>2 DEF AddVma
<1>4. Kept(h, list, total_vmas + 1, L) /\ Len(list) = Len(vma_list) + 1
  BY <1>3, InsertKeeps
<1>5. \/ vma_root' = h
      \/ /\ MergesPrev(list, vma)
         /\ Remove_vma(vma, h, list, total_vmas + 1, [vm_end EXCEPT ![p] = vm_end[vma]])
      \/ /\ MergesNext(list, vma)
         /\ Remove_vma(n, h, list, total_vmas + 1, [vm_end EXCEPT ![vma] = vm_end[n]])
  BY <1>2 DEF AddVma, Counted
<1> HIDE DEF h, list, L
<1>6. Lists(list, L, Key) /\ vma \in L
  BY <1>4 DEF Kept, L
<1>7. ASSUME NEW x \in L, vma_list' = RemoveFirst(list, x) PROVE FALSE
  <2>1. Len(RemoveFirst(list, x)) = Len(list) - 1
    BY <1>6, RemoveFirstLists
  <2> QED BY <1>1, <1>4, <1>7, <2>1
<1>8. ASSUME MergesPrev(list, vma),
             Remove_vma(vma, h, list, total_vmas + 1, [vm_end EXCEPT ![p] = vm_end[vma]])
      PROVE  FALSE
  BY <1>6, <1>7, <1>8 DEF Remove_vma
<1>9. ASSUME MergesNext(list, vma),
             Remove_vma(n, h, list, total_vmas + 1, [vm_end EXCEPT ![vma] = vm_end[n]])
      PROVE  FALSE
  <2>1. n # null
    BY <1>9 DEF MergesNext
  <2>2. n \in L
    BY <1>6, <2>1, NextFacts
  <2> QED BY <1>7, <1>9, <2>2 DEF Remove_vma
<1> QED BY <1>3, <1>5, <1>8, <1>9 DEF h

(* An insertion that merges nothing leaves a red-black tree red-black: with    *)
(* the same number of black nodes on every path down and no red child of a red *)
(* node, for any areas and any tree that add_vma and remove_vma can build.     *)
THEOREM InsertionsKeepBalance == Spec => InsertionBalances
<1> DEFINE Keeps == Len(vma_list') > Len(vma_list) /\ IsRedBlack(vma_root) => IsRedBlack(vma_root')
<1>1. MemInv /\ [Next]_vars => [Keeps]_vars
  <2> SUFFICES ASSUME MemInv, Next, Len(vma_list') > Len(vma_list), IsRedBlack(vma_root)
               PROVE  IsRedBlack(vma_root')
    OBVIOUS
  <2>1. PICK vma \in Nodes : AddVma(vma) \/ RemoveVma(vma)
    BY DEF Next
  <2>2. CanAdd(vma) /\ vma_root' = Insert(vma_root, vma, [n \in Nodes |-> Start(n)])
    BY <2>1, LongerByInsertion
  <2> QED BY <2>2, InsertKeeps
<1>2. Spec => [][Keeps]_vars
  <2> HIDE DEF Keeps
  <2> QED BY <1>1, MemoryInvariant, PTL DEF Spec
<1> QED BY <1>2 DEF InsertionBalances

=============================================================================
