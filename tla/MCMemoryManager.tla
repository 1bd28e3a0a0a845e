-------------------------- MODULE MCMemoryManager --------------------------
(* Pages of two bytes.  Areas 1 and 2 merge, and so do 6, which is half a   *)
(* page long, and 7; 8 starts before 3 and overlaps it; of the others, some *)
(* follow each other without a gap, with other frames or flags.             *)
EXTENDS MemoryManager

Area(start, end, pfn, flags) ==
  [vm_start |-> start, vm_end |-> end, vm_pfn |-> pfn, vm_flags |-> flags]

MCNodes == 1..8

MCAreas ==
  [n \in MCNodes |->
     CASE n = 1 -> Area(0, 2, 20, 1)
       [] n = 2 -> Area(2, 4, 21, 1)
       [] n = 3 -> Area(6, 8, 30, 1)
       [] n = 4 -> Area(10, 12, 40, 1)
       [] n = 5 -> Area(12, 14, 41, 3)
       [] n = 6 -> Area(14, 15, 50, 3)
       [] n = 7 -> Area(15, 17, 50, 3)
       [] n = 8 -> Area(4, 8, 70, 1)]

MCAddresses == 0..18
=============================================================================
