--------------------------- MODULE MemoryManager ---------------------------
(***************************************************************************)
(* The memory manager (src/utils/mempool/include/MemoryManager.h): virtual *)
(* memory areas in a red-black tree, for look-ups, and in a list in        *)
(* address order, for traversals and for merging neighbours.               *)
(*                                                                         *)
(* It is sequential: an action is one call.  Addresses count bytes, frames *)
(* pages; no area has to start or end at a page.  The caller passes an     *)
(* object that is not linked yet to add_vma and one that is linked to      *)
(* remove_vma; an object is used once, so that the node of an area that    *)
(* was removed is that of a new object when it is added again.             *)
(***************************************************************************)
EXTENDS RBtree, SequencesExt

CONSTANTS
  PageSize,  \* 4096: frames are counted with >> 12 and << 12
  Areas,     \* the VMA the caller makes for each node: range, frame and flags
  Addresses  \* bound: the addresses that are looked up

ASSUME AreasAssumption ==
  /\ Areas \in [Nodes -> [vm_start : Nat, vm_end : Nat, vm_pfn : Nat, vm_flags : Nat]]
  /\ \A n \in Nodes : Areas[n].vm_start < Areas[n].vm_end
  /\ Addresses \subseteq Nat

ASSUME PageSizeAssumption == PageSize \in Nat \ {0}

VARIABLES
  vma_root,   \* the tree
  vma_list,   \* the list
  total_vmas,
  vm_end      \* the only field of a VMA that changes

vars == <<vma_root, vma_list, total_vmas, vm_end>>

Start(n) == Areas[n].vm_start

TypeOK ==
  /\ vma_root \in Heaps
  /\ vma_list \in Seq(Nodes)
  /\ total_vmas \in Nat
  /\ vm_end \in [Nodes -> Nat]

Init ==
  /\ vma_root = EmptyTree
  /\ vma_list = <<>>
  /\ total_vmas = 0
  /\ vm_end = [n \in Nodes |-> Areas[n].vm_end]


\* The end of an area taken for its last address.
BeyondClosed(ends, addr, n) == addr > ends[n]

Beyond(ends, addr, n) == addr >= ends[n]

find_vma(h, ends, addr) ==
  LET elsewhere == {n \in Nodes : addr < Start(n) \/ Beyond(ends, addr, n)}
  IN Loop(Nodes \cup {null},
          [n \in elsewhere |-> h.child[IF addr < Start(n) THEN "left" ELSE "right"][n]])[h.root]

\* The loop goes from a node and the result so far to the next ones.
find_vma_after(h, addr) ==
  LET next == [s \in Nodes \X (Nodes \cup {null}) |->
                 IF Start(s[1]) >= addr THEN <<h.child["left"][s[1]], s[1]>>
                 ELSE <<h.child["right"][s[1]], s[2]>>]
  IN Loop((Nodes \cup {null}) \X (Nodes \cup {null}), next)[<<h.root, null>>][2]

\* Of an address in the area.
virt_to_phys(vma, addr) == Areas[vma].vm_pfn * PageSize + (addr - Start(vma))

\* A list in order of insertion.
InsertLast(list, vma) == Append(list, vma)

\* insert_vma_list_ordered: before the first area that starts later.
InsertOrdered(list, vma) ==
  LET later == SelectInSeq(list, LAMBDA n : Start(n) > Start(vma))
  IN IF later = 0 THEN Append(list, vma) ELSE InsertAt(list, later, vma)

\* Neighbours merged wherever their frames are.
CanMergeAnyFrame(a, b, ends) ==
  ends[a] = Start(b) /\ Areas[a].vm_flags = Areas[b].vm_flags

CanMerge(a, b, ends) ==
  /\ ends[a] = Start(b)
  /\ Areas[a].vm_flags = Areas[b].vm_flags
  /\ Areas[a].vm_pfn + ((ends[a] - Start(a)) \div PageSize) = Areas[b].vm_pfn

\* The node of an object made anew.
Fresh(h, n) ==
  [h EXCEPT !.child["left"][n] = null, !.child["right"][n] = null,
            !.parent[n] = null, !.color[n] = "RED"]

\* remove_vma(vma), from the state after the rest of the call.
Remove_vma(vma, h, list, total, ends) ==
  /\ vma_root' = Fresh(Erase(h, vma), vma)
  /\ vma_list' = RemoveFirst(list, vma)
  /\ total_vmas' = total - 1
  /\ vm_end' = [ends EXCEPT ![vma] = Areas[vma].vm_end]

Running == ~vma_root.fault

\* The call returns true: only the first address of the new area is looked up.
CanAdd(vma) ==
  /\ Running
  /\ vma \notin ToSet(vma_list)
  /\ find_vma(vma_root, vm_end, Start(vma)) = null

\* The neighbours in the list, or null at the list's head.
Prev(list, vma) == LET i == SelectInSeq(list, LAMBDA n : n = vma)
                   IN IF i = 1 THEN null ELSE list[i - 1]

Next_(list, vma) == LET i == SelectInSeq(list, LAMBDA n : n = vma)
                    IN IF i = Len(list) THEN null ELSE list[i + 1]

MergesPrev(list, vma) == Prev(list, vma) # null /\ CanMerge(Prev(list, vma), vma, vm_end)

MergesNext(list, vma) ==
  /\ ~MergesPrev(list, vma)
  /\ Next_(list, vma) # null
  /\ CanMerge(vma, Next_(list, vma), vm_end)

\* An area that is counted only when it is not merged.
NotCounted == total_vmas

\* total_vmas++, which is before the merge.
Counted == total_vmas + 1

\* add_vma, which ends in try_merge_adjacent.
AddVma(vma) ==
  /\ CanAdd(vma)
  /\ LET h    == Insert(vma_root, vma, [n \in Nodes |-> Start(n)])
         list == InsertOrdered(vma_list, vma)
     IN \/ /\ ~MergesPrev(list, vma) /\ ~MergesNext(list, vma)
           /\ vma_root' = h /\ vma_list' = list /\ total_vmas' = Counted
           /\ UNCHANGED vm_end
        \/ /\ MergesPrev(list, vma)
           /\ Remove_vma(vma, h, list, Counted,
                         [vm_end EXCEPT ![Prev(list, vma)] = vm_end[vma]])
        \/ /\ MergesNext(list, vma)
           /\ Remove_vma(Next_(list, vma), h, list, Counted,
                         [vm_end EXCEPT ![vma] = vm_end[Next_(list, vma)]])

RemoveVma(vma) ==
  /\ Running
  /\ vma \in ToSet(vma_list)
  /\ Remove_vma(vma, vma_root, vma_list, total_vmas, vm_end)

Next == \E vma \in Nodes : AddVma(vma) \/ RemoveVma(vma)

Spec == Init /\ [][Next]_vars

-----------------------------------------------------------------------------

Linked == ToSet(vma_list)

\* No two areas overlap (the list is in order of the starts).
Disjoint == \A i \in 1..(Len(vma_list) - 1) : vm_end[vma_list[i]] <= Start(vma_list[i + 1])

(* The tree and the list hold the same areas in the same order, with no start  *)
(* twice, and total_vmas counts them: no insertion, rotation, erasure or merge *)
(* loses, doubles or misplaces a node, even when the tree is out of balance    *)
(* and areas that overlap were accepted.                                       *)
TreeIsList ==
  Running =>
    /\ InOrder(vma_root, Cardinality(Nodes) + 1) = vma_list
    /\ total_vmas = Len(vma_list)
    /\ \A i \in 1..(Len(vma_list) - 1) : Start(vma_list[i]) < Start(vma_list[i + 1])

(* As long as no two areas overlap, find_vma finds the area an address is in,  *)
(* if any; find_vma_after finds the first area that starts at the address or   *)
(* later, always.                                                              *)
LookupsAgree ==
  Running => \A addr \in Addresses :
    /\ Disjoint => LET in == {n \in Linked : addr \in Start(n)..(vm_end[n] - 1)}
                       found == find_vma(vma_root, vm_end, addr)
                   IN IF in = {} THEN found = null ELSE found \in in
    /\ LET later == {n \in Linked : Start(n) >= addr}
           found == find_vma_after(vma_root, addr)
       IN IF later = {} THEN found = null
          ELSE found \in later /\ \A n \in later : Start(found) <= Start(n)

(* The root is black, so that the insertion of a node never looks for a        *)
(* grandparent that is not there, whatever the erasures before did to the      *)
(* colours: only an erasure can crash.                                         *)
RootIsBlack == Running /\ vma_root.root # null => vma_root.color[vma_root.root] = "BLACK"

(* An insertion that merges nothing keeps a red-black tree red-black.          *)
InsertionBalances ==
  [][Len(vma_list') > Len(vma_list) /\ IsRedBlack(vma_root) => IsRedBlack(vma_root')]_vars

InArea(n, addr) == Start(n) <= addr /\ addr < vm_end[n]

\* Areas whose length is a number of pages, wherever they start.
WholePages(areas) == \A n \in areas : (vm_end[n] - Start(n)) % PageSize = 0

\* After the call, the address is found where area n maps it.
StaysAt(n, addr) ==
  LET found == find_vma(vma_root', vm_end', addr)
  IN found # null /\ virt_to_phys(found, addr) = virt_to_phys(n, addr)

(* Merging, which extends one area and drops another, moves nothing: after     *)
(* add_vma every address that was mapped, and every address of the new area,   *)
(* is mapped to the byte that it was given, and remove_vma takes only its own  *)
(* area's addresses away.  (The areas must not overlap, before and after, and  *)
(* for add_vma have lengths of whole pages: add_vma asks for neither.)         *)
TranslationsKept ==
  [][Disjoint /\ Disjoint' /\ Running' =>
       \A vma \in Nodes :
         /\ AddVma(vma) /\ WholePages(Linked \cup {vma}) =>
              \A addr \in Addresses :
                /\ InArea(vma, addr) => StaysAt(vma, addr)
                /\ LET old == find_vma(vma_root, vm_end, addr)
                   IN old # null => StaysAt(old, addr)
         /\ RemoveVma(vma) =>
              \A addr \in Addresses :
                LET old == find_vma(vma_root, vm_end, addr)
                IN old \notin {null, vma} => StaysAt(old, addr)]_vars

(* "Self-balancing red-black tree", with an adjustment after a deletion (the    *)
(* summary of the implementation in mempool): after every call the tree has     *)
(* the red-black properties.                                                    *)
SelfBalancing == Running => IsRedBlack(vma_root)
=============================================================================
