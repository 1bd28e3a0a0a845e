-------------------------- MODULE ControlFlowGraph --------------------------
(***************************************************************************)
(* The control-flow graph builder of the x86 VM (src/src/vm/disassembly/   *)
(* ControlFlowGraph.cpp and DisassemblyTracker.h): from an entry address   *)
(* it decodes basic blocks, collects jump targets as further entries until *)
(* none is left, and then adds the edges.                                  *)
(*                                                                         *)
(* The program is not chosen beforehand: an address gets its instruction   *)
(* when it is decoded for the first time, so that a behaviour stands for   *)
(* all programs that agree on the addresses the builder looks at.          *)
(***************************************************************************)
EXTENDS FiniteSetsExt, SequencesExt, Integers

CONSTANTS
  code_size_,  \* bound: bytes of code
  Sizes        \* bound: the lengths of instructions

ASSUME CodeAssumption ==
  /\ code_size_ \in Nat \ {0} /\ Sizes \subseteq Nat \ {0}

Addresses == 0..(code_size_ - 1)

VARIABLES
  entry,            \* build's argument
  code,             \* the instructions decoded so far
  state_,           \* the tracker's mark of each address
  pending_entries_,
  pending_edges,
  blocks_,
  block,            \* the block being created
  phase             \* where process_pending_entries is

vars == <<entry, code, state_, pending_entries_, pending_edges, blocks_, block, phase>>

Marks == {"UNPROCESSED", "ENTRY_POINT", "JUMP_TARGET", "PROCESSED"}

\* What the builder takes an instruction for: "branch" is a call or a conditional jump
\* that is_conditional_jump lists, "end" one that is_terminator lists (ret, hlt, int3,
\* syscall, sysret, iret), "bad" cannot be decoded, and "plain" is everything else: also
\* the jumps that is_conditional_jump does not list (jrcxz, jecxz, loop), whose targets the
\* builder does not ask for.
Kinds == {"plain", "jump", "branch", "end", "bad"}

\* The target of a jump through a register or through memory.
Unknown == -1

\* to is where the operand says that control may go (for a jump through [rip + disp] the
\* builder takes the place of the pointer); code_size_ stands for every address outside,
\* and for none.
Instructions == [kind : Kinds, size : Sizes, to : Addresses \cup {code_size_, Unknown}]

\* A field that nothing reads is fixed.
Possible(addr) ==
  {insn \in Instructions :
     /\ insn.kind \in {"plain", "branch"} \/ insn.size = Min(Sizes)
     /\ insn.kind \in {"jump", "branch"} \/ insn.to = code_size_
     /\ addr + insn.size <= code_size_ \/ insn.kind = "bad"}

Decode(addr) == IF addr \in DOMAIN code THEN {code[addr]} ELSE Possible(addr)

\* map[addr] = value.
Put(map, addr, value) == [a \in DOMAIN map \cup {addr} |-> IF a = addr THEN value ELSE map[a]]

NoBlock == [start_addr |-> code_size_, instructions |-> <<>>, next |-> code_size_]

Blocks == [instructions : Seq(Addresses), is_terminated : BOOLEAN,
           successors : SUBSET Addresses, predecessors : SUBSET Addresses]

TypeOK ==
  /\ entry \in Addresses
  /\ DOMAIN code \subseteq Addresses /\ \A a \in DOMAIN code : code[a] \in Possible(a)
  /\ state_ \in [Addresses -> Marks]
  /\ pending_entries_ \subseteq Addresses
  /\ pending_edges \subseteq Addresses \X Addresses
  /\ DOMAIN blocks_ \subseteq Addresses /\ \A a \in DOMAIN blocks_ : blocks_[a] \in Blocks
  /\ phase \in {"entries", "block", "done"}

Init ==
  /\ entry \in Addresses
  /\ code = [a \in {} |-> NoBlock]
  /\ state_ = [a \in Addresses |-> IF a = entry THEN "ENTRY_POINT" ELSE "UNPROCESSED"]
  /\ pending_entries_ = {entry} /\ pending_edges = {}
  /\ blocks_ = [a \in {} |-> NoBlock] /\ block = NoBlock
  /\ phase = "entries"

has_block(addr) == addr \in DOMAIN blocks_

\* An entry that is taken whatever was done with it before.
NeverDropped(addr) == FALSE

\* An entry is dropped if it was processed, or has a block though it was marked again.
Dropped(addr) == state_[addr] = "PROCESSED" \/ has_block(addr)

\* The first of the ordered set is taken; it is dropped or starts a block.
TakeEntry ==
  /\ phase = "entries" /\ pending_entries_ # {}
  /\ LET addr == Min(pending_entries_)
     IN /\ pending_entries_' = pending_entries_ \ {addr}
        /\ IF Dropped(addr) THEN UNCHANGED <<block, phase>>
           ELSE /\ block' = [start_addr |-> addr, instructions |-> <<>>, next |-> addr]
                /\ phase' = "block"
  /\ UNCHANGED <<entry, code, state_, pending_edges, blocks_>>

\* The block is stored and then its start is marked; marks are those made until then.
EndBlock(instructions, is_terminated, marks) ==
  /\ blocks_' = Put(blocks_, block.start_addr,
                    [instructions |-> instructions, is_terminated |-> is_terminated,
                     successors |-> {}, predecessors |-> {}])
  /\ state_' = [marks EXCEPT ![block.start_addr] = "PROCESSED"]
  /\ block' = NoBlock /\ phase' = "entries"

\* A block that stops at entries that are still to be decoded only.
AtPendingEntry(addr) ==
  addr # block.start_addr /\ state_[addr] \in {"ENTRY_POINT", "JUMP_TARGET"}

\* is_entry_point holds for every mark but UNPROCESSED.
AtEntryPoint(addr) == addr # block.start_addr /\ state_[addr] # "UNPROCESSED"

RunsOut ==
  /\ phase = "block" /\ block.next >= code_size_
  /\ EndBlock(block.instructions, FALSE, state_)
  /\ UNCHANGED <<entry, code, pending_entries_, pending_edges>>

EdgeTo(from, to) == {<<from, to>>}

ReachesEntry ==
  /\ phase = "block" /\ block.next < code_size_
  /\ AtEntryPoint(block.next)
  /\ pending_edges' = pending_edges \cup EdgeTo(block.start_addr, block.next)
  /\ EndBlock(block.instructions, FALSE, state_)
  /\ UNCHANGED <<entry, code, pending_entries_>>

Decodes(insn) ==
  /\ phase = "block" /\ block.next < code_size_
  /\ ~AtEntryPoint(block.next)
  /\ insn \in Decode(block.next)
  /\ code' = Put(code, block.next, insn)

FailsToDecode ==
  /\ \E insn \in Possible(block.next) : insn.kind = "bad" /\ Decodes(insn)
  /\ EndBlock(block.instructions, FALSE, state_)
  /\ UNCHANGED <<entry, pending_entries_, pending_edges>>

\* 0 is returned for a target that cannot be determined, and taken for a target.
extract_jump_target(insn) == IF insn.to = Unknown THEN 0 ELSE insn.to

\* Targets without the instruction after a branch.
TakenOnly(addr, insn) ==
  {a \in Addresses : insn.kind \in {"jump", "branch"} /\ a = extract_jump_target(insn)}

\* Targets with the instruction after an unconditional jump.
WithNext(addr, insn) ==
  {a \in Addresses : \/ insn.kind \in {"jump", "branch"} /\ a = extract_jump_target(insn)
                     \/ insn.kind \in {"jump", "branch"} /\ a = addr + insn.size}

\* Targets that are not compared with the size of the code.
Unchecked(addr, insn) ==
  IF insn.kind = "branch" THEN {extract_jump_target(insn), addr + insn.size}
  ELSE {extract_jump_target(insn)}

\* The entries an instruction that ends a block leads to.
Targets(addr, insn) ==
  {a \in Addresses : \/ insn.kind \in {"jump", "branch"} /\ a = extract_jump_target(insn)
                     \/ insn.kind = "branch" /\ a = addr + insn.size}

\* mark_as_processed for the address after the first.
MarkDecoded(addr) ==
  IF addr = block.start_addr THEN state_ ELSE [state_ EXCEPT ![addr] = "PROCESSED"]

\* mark_as_jump_target, whatever the mark was.
MarkTargets(marks, targets) ==
  [a \in Addresses |-> IF a \in targets THEN "JUMP_TARGET" ELSE marks[a]]

EndsWith(insn) ==
  /\ insn.kind \notin {"plain", "bad"}
  /\ Decodes(insn)
  /\ LET addr == block.next
         targets == Targets(addr, insn)
     IN /\ pending_entries_' = pending_entries_ \cup targets
        /\ pending_edges' = pending_edges \cup ({block.start_addr} \X targets)
        /\ EndBlock(Append(block.instructions, addr), TRUE,
                    MarkTargets(MarkDecoded(addr), targets))
  /\ UNCHANGED entry

GoesOn(insn) ==
  /\ insn.kind = "plain"
  /\ Decodes(insn)
  /\ block' = [block EXCEPT !.instructions = Append(@, block.next),
                            !.next = @ + insn.size]
  /\ state_' = MarkDecoded(block.next)
  /\ UNCHANGED <<entry, pending_entries_, pending_edges, blocks_, phase>>

\* add_edge: a source that is a block gets the target as successor, and a target that
\* is a block the source as predecessor.
AddEdges ==
  /\ phase = "entries" /\ pending_entries_ = {}
  /\ blocks_' = [b \in DOMAIN blocks_ |->
       [blocks_[b] EXCEPT !.successors = {to \in Addresses : <<b, to>> \in pending_edges},
                          !.predecessors =
                            {a \in DOMAIN blocks_ : <<a, b>> \in pending_edges}]]
  /\ phase' = "done"
  /\ UNCHANGED <<entry, code, state_, pending_entries_, pending_edges, block>>

Step == \/ TakeEntry \/ RunsOut \/ ReachesEntry \/ FailsToDecode \/ AddEdges
        \/ \E insn \in Possible(block.next) : EndsWith(insn) \/ GoesOn(insn)

Done == phase = "done" /\ UNCHANGED vars

Next == Step \/ Done

\* build is one sequential call, which goes on until it returns.
Spec == Init /\ [][Next]_vars /\ WF_vars(Step)

-----------------------------------------------------------------------------

InstructionsOf(b) == ToSet(blocks_[b].instructions)

Covered == UNION {InstructionsOf(b) : b \in DOMAIN blocks_}

\* Where the builder's own reading of an instruction says that control may go: over what
\* its predicates list, and without the targets that it cannot determine.
Flow(addr) ==
  LET insn == code[addr]
  IN {a \in Addresses :
        \/ insn.kind \in {"plain", "branch"} /\ a = addr + insn.size
        \/ insn.kind \in {"jump", "branch"} /\ a = insn.to}

\* The 0 that stands for a target that cannot be determined.
Bogus(addr) == IF code[addr].to = Unknown THEN {0} ELSE {}

Undecodable == {a \in DOMAIN code : code[a].kind = "bad"}

(* The blocks are closed under the flow that the builder sees: the entry is in *)
(* one, and with an instruction everything that may follow it as far as the    *)
(* builder can tell, though blocks stop at any marked address and entries are  *)
(* dropped because their mark says they were decoded.  (What the builder does  *)
(* not see is not covered: the targets of jumps through registers or memory    *)
(* and of jrcxz and its like, and what runs after int3 or syscall.)            *)
FlowIsCovered ==
  phase = "done" =>
    /\ entry \in Covered \cup Undecodable
    /\ \A a \in Covered : Flow(a) \subseteq Covered \cup Undecodable

(* A jump into the middle of a finished block makes a second block there, but  *)
(* not a second copy of the rest: an instruction is in two blocks at most, and *)
(* if so it is the first of one of them.                                       *)
DecodedAtMostTwice ==
  \A a \in Covered :
    LET in == {b \in DOMAIN blocks_ : a \in InstructionsOf(b)}
    IN Cardinality(in) <= 2 /\ (Cardinality(in) = 2 => a \in in)

(* A block is straight-line code: each instruction but the last falls through  *)
(* to the next.  Its successors are where its last instruction leads, as far   *)
(* as the builder can tell, all of them that can be decoded and no others but  *)
(* the 0 of a target that it cannot determine; and it is listed as predecessor *)
(* by exactly those of them that are blocks.                                   *)
EdgesFollowCode ==
  phase = "done" => \A b \in DOMAIN blocks_ :
    LET s == blocks_[b].instructions
        to == blocks_[b].successors
    IN /\ s # <<>> => s[1] = b
       /\ \A i \in 1..(Len(s) - 1) : code[s[i]].kind = "plain" /\ s[i + 1] = s[i] + code[s[i]].size
       /\ s # <<>> => (Flow(Last(s)) \ Undecodable) \subseteq to
       /\ to \subseteq (IF s = <<>> THEN {} ELSE Flow(Last(s)) \cup Bogus(Last(s)))
       /\ \A c \in DOMAIN blocks_ : c \in to <=> b \in blocks_[c].predecessors

(* The builder comes to an end, though every block may ask for two more.       *)
BuildEnds == <>(phase = "done")
=============================================================================
