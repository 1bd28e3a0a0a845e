----------------------- MODULE ControlFlowGraphProofs -----------------------
(***************************************************************************)
(* For code of any size, instructions of any lengths and any program, and  *)
(* over the flow that the builder sees in it: the graph is closed under    *)
(* that flow, has its edges and no others, and no instruction is in more   *)
(* than two blocks.  That the builder stops is checked by TLC only.        *)
(***************************************************************************)
EXTENDS ControlFlowGraph, FiniteSetTheorems, NaturalsInduction, WellFoundedInduction,
        SequenceTheorems, TLAPS

\* The smallest of a set of numbers is one of them.
LEMMA MinIsLeast ==
  ASSUME NEW S \in SUBSET Nat, S # {}
  PROVE  Min(S) \in S
<1> DEFINE R == OpToRel(<, Nat)
<1>1. IsWellFoundedOn(R, Nat)
  BY NatLessThanWellFounded
<1>2. R = {ss \in Nat \X Nat : ss[1] < ss[2]}
  BY DEF OpToRel
<1> HIDE DEF R
<1>3. PICK x \in S : \A y \in S : ~ (<<y, x>> \in R)
  BY <1>1, WFMin
<1>4. ASSUME NEW y \in S PROVE x <= y
  <2>1. x \in Nat /\ y \in Nat
    OBVIOUS
  <2>2. ~ (y < x)
    BY <1>2, <1>3, <2>1
  <2> QED BY <2>1, <2>2
<1> QED BY <1>4 DEF Min

LEMMA ToSetAppend ==
  ASSUME NEW S, NEW s \in Seq(S), NEW e \in S
  PROVE  /\ Append(s, e) \in Seq(S) /\ Append(s, e) # <<>>
         /\ Len(Append(s, e)) = Len(s) + 1 /\ Len(s) \in Nat
         /\ \A i \in 1..Len(s) : Append(s, e)[i] = s[i]
         /\ Append(s, e)[Len(s) + 1] = e
         /\ Last(Append(s, e)) = e
         /\ ToSet(Append(s, e)) = ToSet(s) \cup {e}
<1>1. /\ Append(s, e) \in Seq(S) /\ Append(s, e) # <<>>
      /\ Len(Append(s, e)) = Len(s) + 1 /\ Len(s) \in Nat
      /\ \A i \in 1..Len(s) : Append(s, e)[i] = s[i]
      /\ Append(s, e)[Len(s) + 1] = e
  BY AppendProperties
<1>2. ToSet(s) = {s[i] : i \in 1..Len(s)}
  BY DEF ToSet
<1>3. ToSet(Append(s, e)) = {Append(s, e)[i] : i \in 1..(Len(s) + 1)}
  BY <1>1 DEF ToSet
<1>4. ToSet(Append(s, e)) = ToSet(s) \cup {e}
  BY <1>1, <1>2, <1>3
<1> QED BY <1>1, <1>4 DEF Last

-----------------------------------------------------------------------------
(* The invariant *)

FlowIn(c, addr) ==
  {a \in Addresses : \/ c[addr].kind \in {"plain", "branch"} /\ a = addr + c[addr].size
                     \/ c[addr].kind \in {"jump", "branch"} /\ a = c[addr].to}

\* The edges of a block that ends with addr go there.
OutIn(c, addr) == FlowIn(c, addr) \cup (IF c[addr].to = Unknown THEN {0} ELSE {})

BadIn(c) == {a \in DOMAIN c : c[a].kind = "bad"}

\* The instructions s follow each other in the code from b on.
LineIn(c, s, b) ==
  /\ s[1] = b
  /\ \A i \in 1..(Len(s) - 1) : c[s[i]].kind = "plain" /\ s[i + 1] = s[i] + c[s[i]].size

\* The block being created: its instructions, its start and the address after them.
Current == IF phase = "block" THEN ToSet(block.instructions) ELSE {}
Begun == IF phase = "block" THEN {block.start_addr} ELSE {}
Ahead == IF phase = "block" THEN {block.next} ELSE {}

OpenBlocks == [start_addr : Addresses, instructions : Seq(Addresses), next : Nat]

Typed == TypeOK /\ (phase = "block" => block \in OpenBlocks)

\* An open block is a line of code that goes on at its next address.
Shaped ==
  /\ \A a \in Covered \cup Current : a \in DOMAIN code /\ code[a].kind # "bad"
  /\ phase = "block" =>
       /\ ~has_block(block.start_addr)
       /\ IF block.instructions = <<>> THEN block.next = block.start_addr
          ELSE LET last == Last(block.instructions)
               IN /\ LineIn(code, block.instructions, block.start_addr)
                  /\ code[last].kind = "plain" /\ block.next = last + code[last].size

\* What is decoded, cannot be, or will be looked at.
Known == Covered \cup Current \cup BadIn(code) \cup pending_entries_ \cup Begun

Covering ==
  /\ entry \in Known
  /\ \A a \in Addresses : state_[a] # "UNPROCESSED" => a \in Known
  /\ \A a \in Addresses : state_[a] = "PROCESSED" \/ has_block(a)
                            => a \in Covered \cup Current \cup BadIn(code)
  /\ \A a \in Covered \cup Current : FlowIn(code, a) \subseteq Known \cup Ahead
  /\ phase = "done" => pending_entries_ = {}

\* Only an unmarked address is decoded inside a block, and then it has a mark.
Marking ==
  /\ \A a \in pending_entries_ \cup Begun \cup Covered \cup Current : state_[a] # "UNPROCESSED"
  /\ \A b, c \in DOMAIN blocks_ :
       \A a \in InstructionsOf(b) \cap InstructionsOf(c) : a = b \/ a = c \/ b = c
  /\ \A b \in DOMAIN blocks_ :
       \A a \in InstructionsOf(b) \cap Current : a = b \/ a = block.start_addr

Linking ==
  /\ \A b \in DOMAIN blocks_ :
       LET s == blocks_[b].instructions
       IN s # <<>> => /\ LineIn(code, s, b)
                      /\ \A t \in FlowIn(code, Last(s)) : t \in BadIn(code) \/ <<b, t>> \in pending_edges
  /\ phase = "done" => \A b \in DOMAIN blocks_ :
       /\ blocks_[b].successors = {to \in Addresses : <<b, to>> \in pending_edges}
       /\ blocks_[b].predecessors = {a \in DOMAIN blocks_ : <<a, b>> \in pending_edges}

\* An edge comes out of the last instruction of a finished block.
Leading ==
  \A b, t : <<b, t>> \in pending_edges =>
    /\ b \in DOMAIN blocks_ /\ blocks_[b].instructions # <<>>
    /\ t \in OutIn(code, Last(blocks_[b].instructions))

BuildInv == Typed /\ Shaped /\ Covering /\ Marking /\ Linking /\ Leading

LEMMA CodeOperators ==
  /\ \A a : Flow(a) = FlowIn(code, a)
  /\ Undecodable = BadIn(code)
BY DEF Flow, FlowIn, Undecodable, BadIn

LEMMA BlocksAreTyped ==
  ASSUME Typed, NEW b \in DOMAIN blocks_
  PROVE  /\ b \in Addresses
         /\ blocks_[b].instructions \in Seq(Addresses)
         /\ InstructionsOf(b) \subseteq Addresses
<1>1. b \in Addresses /\ blocks_[b].instructions \in Seq(Addresses)
  BY DEF Typed, TypeOK, Blocks
<1> QED BY <1>1 DEF InstructionsOf, ToSet

LEMMA BuildInit == Init => BuildInv
<1> SUFFICES ASSUME Init PROVE BuildInv
  OBVIOUS
<1>1. /\ DOMAIN code = {} /\ DOMAIN blocks_ = {} /\ phase = "entries" /\ entry \in Addresses
      /\ pending_entries_ = {entry} /\ pending_edges = {}
      /\ state_ = [a \in Addresses |-> IF a = entry THEN "ENTRY_POINT" ELSE "UNPROCESSED"]
  BY DEF Init
<1>2. Covered = {} /\ Current = {} /\ Begun = {}
  BY <1>1 DEF Covered, Current, Begun
<1>3. Typed
  BY <1>1 DEF Typed, TypeOK, Marks
<1>4. Covering
  BY <1>1, <1>2 DEF Covering, Known, has_block
<1>5. Shaped /\ Marking /\ Linking /\ Leading
  BY <1>1, <1>2 DEF Shaped, Marking, Linking, Leading
<1> QED BY <1>3, <1>4, <1>5 DEF BuildInv

LEMMA InvGivesProperties ==
  ASSUME BuildInv
  PROVE  TypeOK /\ FlowIsCovered /\ DecodedAtMostTwice /\ EdgesFollowCode
<1>1. FlowIsCovered
  <2> SUFFICES ASSUME phase = "done"
               PROVE  /\ entry \in Covered \cup Undecodable
                      /\ \A a \in Covered : Flow(a) \subseteq Covered \cup Undecodable
    BY DEF FlowIsCovered
  <2>1. Known = Covered \cup BadIn(code) /\ Ahead = {}
    BY DEF BuildInv, Covering, Known, Current, Begun, Ahead
  <2> QED BY <2>1, CodeOperators DEF BuildInv, Covering
<1>2. DecodedAtMostTwice
  <2> SUFFICES ASSUME NEW a \in Covered
               PROVE  LET in == {b \in DOMAIN blocks_ : a \in InstructionsOf(b)}
                      IN Cardinality(in) <= 2 /\ (Cardinality(in) = 2 => a \in in)
    BY DEF DecodedAtMostTwice
  <2> DEFINE in == {b \in DOMAIN blocks_ : a \in InstructionsOf(b)}
  <2>1. \A b, c \in in : a = b \/ a = c \/ b = c
    BY DEF BuildInv, Marking
  <2>2. PICK d \in in : TRUE
    BY DEF Covered
  <2> HIDE DEF in
  <2> DEFINE Few == Cardinality(in) <= 2 /\ (Cardinality(in) = 2 => a \in in)
  <2>3. ASSUME in \subseteq {a} PROVE Few
    <3>1. in = {a}
      BY <2>2, <2>3
    <3>2. Cardinality(in) = 1
      BY <3>1, FS_Singleton
    <3> QED BY <3>2
  <2>4. ASSUME ~(in \subseteq {a}) PROVE Few
    <3>1. PICK b \in in : b # a
      BY <2>4
    <3>2. \A c \in in : c = a \/ c = b
      BY <2>1, <3>1
    <3>3. in = {b} \/ in = {a, b}
      BY <3>1, <3>2
    <3>4. CASE in = {b}
      <4>1. Cardinality(in) = 1
        BY <3>4, FS_Singleton
      <4> QED BY <4>1
    <3>5. CASE in = {a, b}
      <4>1. Cardinality({b}) = 1 /\ IsFiniteSet({b})
        BY FS_Singleton
      <4>2. {a, b} = {b} \cup {a} /\ a \notin {b}
        BY <3>1
      <4>4. Cardinality({b} \cup {a}) = Cardinality({b}) + 1
        BY <4>1, <4>2, FS_AddElement
      <4>3. Cardinality({a, b}) = 2
        BY <4>1, <4>2, <4>4
      <4> QED BY <3>5, <4>3
    <3> QED BY <3>3, <3>4, <3>5
  <2> QED BY <2>3, <2>4 DEF in
<1>3. EdgesFollowCode
  <2> SUFFICES ASSUME phase = "done", NEW b \in DOMAIN blocks_
               PROVE  LET s == blocks_[b].instructions
                          to == blocks_[b].successors
                      IN /\ s # <<>> => s[1] = b
                         /\ \A i \in 1..(Len(s) - 1) :
                              code[s[i]].kind = "plain" /\ s[i + 1] = s[i] + code[s[i]].size
                         /\ s # <<>> => (Flow(Last(s)) \ Undecodable) \subseteq to
                         /\ to \subseteq (IF s = <<>> THEN {} ELSE Flow(Last(s)) \cup Bogus(Last(s)))
                         /\ \A c \in DOMAIN blocks_ : c \in to <=> b \in blocks_[c].predecessors
    BY DEF EdgesFollowCode
  <2> DEFINE s == blocks_[b].instructions
             to == blocks_[b].successors
  <2>1. s \in Seq(Addresses) /\ \A c \in DOMAIN blocks_ : c \in Addresses
    BY BlocksAreTyped DEF BuildInv
  <2>2. s # <<>> => /\ LineIn(code, s, b)
                    /\ \A t \in FlowIn(code, Last(s)) : t \in BadIn(code) \/ <<b, t>> \in pending_edges
    BY DEF BuildInv, Linking
  <2>3. \A c \in DOMAIN blocks_ :
          /\ blocks_[c].successors = {t \in Addresses : <<c, t>> \in pending_edges}
          /\ blocks_[c].predecessors = {a \in DOMAIN blocks_ : <<a, c>> \in pending_edges}
    BY DEF BuildInv, Linking
  <2>4. \A c \in DOMAIN blocks_ : c \in to <=> b \in blocks_[c].predecessors
    BY <2>1, <2>3
  <2>5. s # <<>> => (Flow(Last(s)) \ Undecodable) \subseteq to
    <3>1. \A t \in FlowIn(code, Last(s)) : t \in Addresses
      BY DEF FlowIn
    <3> QED BY <2>2, <2>3, <3>1, CodeOperators
  <2>6. s = <<>> => 1..(Len(s) - 1) = {}
    OBVIOUS
  <2>7. to \subseteq (IF s = <<>> THEN {} ELSE Flow(Last(s)) \cup Bogus(Last(s)))
    <3>1. \A t \in to : s # <<>> /\ t \in OutIn(code, Last(s))
      BY <2>3 DEF BuildInv, Leading
    <3>2. OutIn(code, Last(s)) = Flow(Last(s)) \cup Bogus(Last(s))
      BY CodeOperators DEF OutIn, Bogus
    <3> HIDE DEF to, s
    <3> QED BY <3>1, <3>2
  <2> QED BY <2>2, <2>4, <2>5, <2>6, <2>7 DEF LineIn
<1> QED BY <1>1, <1>2, <1>3 DEF BuildInv, Typed

-----------------------------------------------------------------------------
(* What the steps have in common *)

CodeGrows ==
  /\ DOMAIN code' \subseteq Addresses /\ \A a \in DOMAIN code' : code'[a] \in Possible(a)
  /\ \A a \in DOMAIN code : a \in DOMAIN code' /\ code'[a] = code[a]

LEMMA GrownCode ==
  ASSUME CodeGrows
  PROVE  /\ \A a \in DOMAIN code : FlowIn(code', a) = FlowIn(code, a) /\ OutIn(code', a) = OutIn(code, a)
         /\ BadIn(code) \subseteq BadIn(code')
         /\ \A s, b : (\A i \in 1..(Len(s) - 1) : s[i] \in DOMAIN code) /\ LineIn(code, s, b)
                         => LineIn(code', s, b)
BY DEF CodeGrows, FlowIn, OutIn, BadIn, LineIn

LEMMA Decoding ==
  ASSUME Typed, NEW insn \in Possible(block.next), Decodes(insn)
  PROVE  /\ CodeGrows
         /\ phase = "block" /\ block \in OpenBlocks /\ block.next \in Addresses
         /\ block.next \in DOMAIN code' /\ code'[block.next] = insn
         /\ block.next = block.start_addr \/ state_[block.next] = "UNPROCESSED"
<1>1. phase = "block" /\ block \in OpenBlocks /\ block.next \in Addresses
  <2>1. phase = "block" /\ block \in OpenBlocks /\ block.next < code_size_
    BY DEF Decodes, Typed
  <2> QED BY <2>1, CodeAssumption DEF OpenBlocks, Addresses
<1>2. /\ DOMAIN code' = DOMAIN code \cup {block.next}
      /\ code'[block.next] = insn
      /\ \A a \in DOMAIN code : a # block.next => code'[a] = code[a]
  BY DEF Decodes, Put
<1>3. block.next \in DOMAIN code => insn = code[block.next]
  BY DEF Decodes, Decode
<1>4. CodeGrows
  BY <1>1, <1>2, <1>3 DEF CodeGrows, Typed, TypeOK
<1>5. block.next = block.start_addr \/ state_[block.next] = "UNPROCESSED"
  BY DEF Decodes, AtEntryPoint
<1> QED BY <1>1, <1>2, <1>4, <1>5

\* A block with the instructions s is stored: what the four ways to end one do.
BlockEnds(s) ==
  /\ phase = "block" /\ phase' = "entries" /\ entry' = entry
  /\ s \in Seq(Addresses)
  /\ \E t \in BOOLEAN :
       blocks_' = Put(blocks_, block.start_addr,
                      [instructions |-> s, is_terminated |-> t, successors |-> {}, predecessors |-> {}])
  /\ CodeGrows
  /\ ToSet(block.instructions) \subseteq ToSet(s)
  /\ \A a \in ToSet(s) : a \in DOMAIN code' /\ code'[a].kind # "bad"
  /\ \A a \in ToSet(s) \ ToSet(block.instructions) :
       /\ a = block.start_addr \/ state_[a] = "UNPROCESSED"
       /\ FlowIn(code', a) \subseteq pending_entries_'
  /\ block.next \in Addresses => block.next \in Known \cup ToSet(s) \cup BadIn(code')
  /\ s = <<>> => block.start_addr \in BadIn(code')
  /\ s # <<>> =>
       /\ LineIn(code', s, block.start_addr)
       /\ \A t \in FlowIn(code', Last(s)) : t \in BadIn(code') \/ <<block.start_addr, t>> \in pending_edges'
  /\ \A b, t : <<b, t>> \in pending_edges' \ pending_edges =>
        b = block.start_addr /\ s # <<>> /\ t \in OutIn(code', Last(s))

\* The marks and the sets of a step that ends a block with the instructions s.
BlockMarks(s) ==
  /\ pending_entries_ \subseteq pending_entries_' /\ pending_entries_' \subseteq Addresses
  /\ pending_edges \subseteq pending_edges' /\ pending_edges' \subseteq Addresses \X Addresses
  /\ state_' \in [Addresses -> Marks]
  /\ state_'[block.start_addr] = "PROCESSED"
  /\ \A a \in Addresses :
       /\ state_[a] # "UNPROCESSED" => state_'[a] # "UNPROCESSED"
       /\ state_'[a] # "UNPROCESSED" =>
            \/ state_[a] # "UNPROCESSED"
            \/ a \in ToSet(s) \cup pending_entries_' \cup {block.start_addr}
       /\ state_'[a] = "PROCESSED" => state_[a] = "PROCESSED" \/ a \in ToSet(s) \cup {block.start_addr}
       /\ a \in ToSet(s) \cup (pending_entries_' \ pending_entries_) => state_'[a] # "UNPROCESSED"

LEMMA EndedTyped ==
  ASSUME BuildInv, NEW s, BlockEnds(s), BlockMarks(s)
  PROVE  Typed'
<1>1. block.start_addr \in Addresses
  BY DEF BlockEnds, BuildInv, Typed, OpenBlocks
<1>2. /\ DOMAIN blocks_' = DOMAIN blocks_ \cup {block.start_addr}
      /\ blocks_'[block.start_addr] \in Blocks
      /\ \A a \in DOMAIN blocks_ : a # block.start_addr => blocks_'[a] = blocks_[a]
  <2>1. PICK t \in BOOLEAN :
          blocks_' = Put(blocks_, block.start_addr,
                      [instructions |-> s, is_terminated |-> t, successors |-> {}, predecessors |-> {}])
    BY DEF BlockEnds
  <2>2. [instructions |-> s, is_terminated |-> t, successors |-> {}, predecessors |-> {}] \in Blocks
    BY DEF Blocks, BlockEnds
  <2> QED BY <2>1, <2>2 DEF Put
<1>3. DOMAIN blocks_' \subseteq Addresses /\ \A a \in DOMAIN blocks_' : blocks_'[a] \in Blocks
  BY <1>1, <1>2 DEF BuildInv, Typed, TypeOK
<1>4. /\ entry' \in Addresses /\ phase' = "entries"
      /\ DOMAIN code' \subseteq Addresses /\ \A a \in DOMAIN code' : code'[a] \in Possible(a)
  BY DEF BlockEnds, CodeGrows, BuildInv, Typed, TypeOK
<1>5. /\ state_' \in [Addresses -> Marks] /\ pending_entries_' \subseteq Addresses
      /\ pending_edges' \subseteq Addresses \X Addresses
  BY DEF BlockMarks
<1> QED BY <1>3, <1>4, <1>5 DEF Typed, TypeOK

\* The blocks after the step: one more, which holds s.
LEMMA EndedBlocks ==
  ASSUME BuildInv, NEW s, BlockEnds(s)
  PROVE  /\ block.start_addr \in Addresses
         /\ block.start_addr \notin DOMAIN blocks_
         /\ DOMAIN blocks_' = DOMAIN blocks_ \cup {block.start_addr}
         /\ blocks_'[block.start_addr].instructions = s
         /\ \A b \in DOMAIN blocks_ : blocks_'[b] = blocks_[b]
         /\ \A b \in DOMAIN blocks_ : InstructionsOf(b)' = InstructionsOf(b)
         /\ \A b : b = block.start_addr => InstructionsOf(b)' = ToSet(s)
         /\ Current = ToSet(block.instructions) /\ Begun = {block.start_addr} /\ Ahead = {block.next}
         /\ Current' = {} /\ Begun' = {} /\ Ahead' = {}
         /\ Covered' = Covered \cup ToSet(s)
<1>1. block.start_addr \in Addresses /\ block.start_addr \notin DOMAIN blocks_
  BY DEF BlockEnds, BuildInv, Typed, OpenBlocks, Shaped, has_block
<1>2. PICK t \in BOOLEAN :
        blocks_' = Put(blocks_, block.start_addr,
                    [instructions |-> s, is_terminated |-> t, successors |-> {}, predecessors |-> {}])
  BY DEF BlockEnds
<1>3. /\ DOMAIN blocks_' = DOMAIN blocks_ \cup {block.start_addr}
      /\ blocks_'[block.start_addr].instructions = s
      /\ \A b \in DOMAIN blocks_ : blocks_'[b] = blocks_[b]
  BY <1>1, <1>2 DEF Put
<1>4. \A b \in DOMAIN blocks_ : InstructionsOf(b)' = InstructionsOf(b)
  BY <1>3 DEF InstructionsOf
<1>5. \A b : b = block.start_addr => InstructionsOf(b)' = ToSet(s)
  BY <1>3 DEF InstructionsOf
<1>6. Covered' = Covered \cup ToSet(s)
  BY <1>3, <1>4, <1>5 DEF Covered
<1>7. /\ Current = ToSet(block.instructions) /\ Begun = {block.start_addr} /\ Ahead = {block.next}
      /\ Current' = {} /\ Begun' = {} /\ Ahead' = {}
  BY DEF BlockEnds, Current, Begun, Ahead
<1> QED BY <1>1, <1>3, <1>4, <1>5, <1>6, <1>7

LEMMA EndedShaped ==
  ASSUME BuildInv, NEW s, BlockEnds(s)
  PROVE  Shaped'
<1>1. \A a \in Covered \cup ToSet(s) : a \in DOMAIN code' /\ code'[a].kind # "bad"
  BY DEF BlockEnds, BuildInv, Shaped, CodeGrows
<1>2. Covered' \cup Current' = Covered \cup ToSet(s) /\ phase' = "entries"
  BY EndedBlocks DEF BlockEnds
<1> QED BY <1>1, <1>2 DEF Shaped

LEMMA EndedCovering ==
  ASSUME BuildInv, NEW s, BlockEnds(s), BlockMarks(s)
  PROVE  Covering'
<1>1. /\ Covered' = Covered \cup ToSet(s) /\ Current' = {} /\ Begun' = {} /\ Ahead' = {}
      /\ Current \subseteq ToSet(s) /\ Begun = {block.start_addr} /\ Ahead = {block.next}
      /\ block.start_addr \in Addresses
      /\ phase' = "entries" /\ entry' = entry
  BY EndedBlocks DEF BlockEnds
<1>2. BadIn(code) \subseteq BadIn(code') /\ BadIn(code)' = BadIn(code')
      /\ \A a \in DOMAIN code : FlowIn(code', a) = FlowIn(code, a)
  BY GrownCode DEF BlockEnds, BadIn
<1>3. block.start_addr \in ToSet(s) \cup BadIn(code')
  <2>1. CASE s = <<>>
    BY <2>1 DEF BlockEnds
  <2>2. CASE s # <<>>
    <3>1. s[1] = block.start_addr /\ s \in Seq(Addresses)
      BY <2>2 DEF BlockEnds, LineIn
    <3>2. 1 \in DOMAIN s
      BY <2>2, <3>1
    <3> QED BY <3>1, <3>2 DEF ToSet
  <2> QED BY <2>1, <2>2
<1>4. Known' = Covered \cup ToSet(s) \cup BadIn(code') \cup pending_entries_'
  BY <1>1, <1>2 DEF Known
<1>5. Known \subseteq Known'
  BY <1>1, <1>2, <1>3, <1>4 DEF Known, BlockMarks
<1>6. block.next \in Addresses => block.next \in Known'
  BY <1>4, <1>5 DEF BlockEnds
<1>7. entry' \in Known'
  BY <1>1, <1>5 DEF BuildInv, Covering
<1>8. \A a \in Addresses : state_'[a] # "UNPROCESSED" => a \in Known'
  BY <1>3, <1>4, <1>5 DEF BuildInv, Covering, BlockMarks
<1>9. \A a \in Addresses : state_'[a] = "PROCESSED" \/ has_block(a)'
                             => a \in Covered' \cup Current' \cup BadIn(code')
  <2>1. \A a \in Addresses : has_block(a)' => has_block(a) \/ a = block.start_addr
    BY EndedBlocks DEF has_block
  <2> QED BY <1>1, <1>2, <1>3, <2>1 DEF BuildInv, Covering, BlockMarks
<1>10. \A a \in Covered' \cup Current' : FlowIn(code', a) \subseteq Known' \cup Ahead'
  <2> TAKE a \in Covered' \cup Current'
  <2>1. CASE a \in Covered \cup Current
    <3>1. FlowIn(code', a) = FlowIn(code, a) /\ FlowIn(code, a) \subseteq Known \cup {block.next}
      BY <1>1, <1>2, <2>1 DEF BuildInv, Covering, Shaped
    <3>2. FlowIn(code, a) \subseteq Addresses
      BY DEF FlowIn
    <3> QED BY <1>5, <1>6, <3>1, <3>2
  <2>2. CASE a \notin Covered \cup Current
    <3>1. a \in ToSet(s) \ ToSet(block.instructions)
      BY <1>1, <2>2, EndedBlocks
    <3>2. FlowIn(code', a) \subseteq pending_entries_'
      BY <3>1 DEF BlockEnds
    <3> QED BY <1>4, <3>2
  <2> QED BY <2>1, <2>2
<1>11. \A a : FlowIn(code, a)' = FlowIn(code', a)
  BY DEF FlowIn
<1> QED BY <1>1, <1>2, <1>7, <1>8, <1>9, <1>10, <1>11 DEF Covering

LEMMA EndedMarking ==
  ASSUME BuildInv, NEW s, BlockEnds(s), BlockMarks(s)
  PROVE  Marking'
<1>1. /\ Covered' = Covered \cup ToSet(s) /\ Current' = {} /\ Begun' = {}
      /\ DOMAIN blocks_' = DOMAIN blocks_ \cup {block.start_addr}
      /\ \A b \in DOMAIN blocks_ : InstructionsOf(b)' = InstructionsOf(b)
      /\ \A b : b = block.start_addr => InstructionsOf(b)' = ToSet(s)
      /\ Current = ToSet(block.instructions)
  BY EndedBlocks
<1>2. Covered \subseteq Addresses /\ pending_entries_' \subseteq Addresses /\ ToSet(s) \subseteq Addresses
  BY BlocksAreTyped DEF BuildInv, Covered, BlockMarks, BlockEnds, ToSet
<1>3. \A a \in pending_entries_' \cup Begun' \cup Covered' \cup Current' : state_'[a] # "UNPROCESSED"
  BY <1>1, <1>2 DEF BuildInv, Marking, BlockMarks
<1>4. \A b \in DOMAIN blocks_ : \A a \in InstructionsOf(b) \cap ToSet(s) : a = b \/ a = block.start_addr
  <2> TAKE b \in DOMAIN blocks_
  <2> TAKE a \in InstructionsOf(b) \cap ToSet(s)
  <2>1. CASE a \in Current
    BY <2>1 DEF BuildInv, Marking
  <2>2. CASE a \notin Current
    <3>1. a = block.start_addr \/ state_[a] = "UNPROCESSED"
      BY <1>1, <2>2 DEF BlockEnds
    <3>2. a \in Covered
      BY DEF Covered
    <3> QED BY <3>1, <3>2 DEF BuildInv, Marking
  <2> QED BY <2>1, <2>2
<1>5. \A b, c \in DOMAIN blocks_' :
        \A a \in InstructionsOf(b)' \cap InstructionsOf(c)' : a = b \/ a = c \/ b = c
  <2> TAKE b, c \in DOMAIN blocks_'
  <2> TAKE a \in InstructionsOf(b)' \cap InstructionsOf(c)'
  <2>1. CASE b \in DOMAIN blocks_ /\ c \in DOMAIN blocks_
    BY <1>1, <2>1 DEF BuildInv, Marking
  <2>2. CASE b = block.start_addr /\ c \in DOMAIN blocks_
    BY <1>1, <1>4, <2>2
  <2>3. CASE b \in DOMAIN blocks_ /\ c = block.start_addr
    BY <1>1, <1>4, <2>3
  <2>4. CASE b = block.start_addr /\ c = block.start_addr
    BY <2>4
  <2> QED BY <1>1, <2>1, <2>2, <2>3, <2>4
<1> QED BY <1>1, <1>3, <1>5 DEF Marking

\* What is known of a stored block remains true of it while the code grows.
LEMMA LinesKept ==
  ASSUME BuildInv, CodeGrows, pending_edges \subseteq pending_edges',
         NEW b \in DOMAIN blocks_, blocks_[b].instructions # <<>>
  PROVE  LET r == blocks_[b].instructions
         IN /\ LineIn(code', r, b)
            /\ \A t \in FlowIn(code', Last(r)) : t \in BadIn(code') \/ <<b, t>> \in pending_edges'
<1> DEFINE r == blocks_[b].instructions
<1>1. r \in Seq(Addresses)
  BY BlocksAreTyped DEF BuildInv
<1>2. \A i \in 1..Len(r) : r[i] \in DOMAIN code
  <2>1. \A i \in 1..Len(r) : r[i] \in InstructionsOf(b)
    BY <1>1 DEF InstructionsOf, ToSet
  <2> QED BY <2>1 DEF BuildInv, Shaped, Covered
<1>3. /\ LineIn(code, r, b)
      /\ \A t \in FlowIn(code, Last(r)) : t \in BadIn(code) \/ <<b, t>> \in pending_edges
  BY DEF BuildInv, Linking
<1>4. Last(r) \in DOMAIN code
  BY <1>1, <1>2 DEF Last
<1>5. LineIn(code', r, b)
  <2>1. \A i \in 1..(Len(r) - 1) : r[i] \in DOMAIN code
    BY <1>1, <1>2
  <2> HIDE DEF r
  <2> QED BY <1>3, <2>1, GrownCode
<1>6. FlowIn(code', Last(r)) = FlowIn(code, Last(r)) /\ BadIn(code) \subseteq BadIn(code')
      /\ pending_edges \subseteq pending_edges'
  BY <1>4, GrownCode
<1> QED BY <1>3, <1>5, <1>6

LEMMA EndedLinking ==
  ASSUME BuildInv, NEW s, BlockEnds(s), BlockMarks(s)
  PROVE  Linking'
<1>1. /\ DOMAIN blocks_' = DOMAIN blocks_ \cup {block.start_addr}
      /\ blocks_'[block.start_addr].instructions = s
      /\ \A b \in DOMAIN blocks_ : blocks_'[b] = blocks_[b]
      /\ phase' = "entries"
  BY EndedBlocks DEF BlockEnds
<1>2. ASSUME NEW b \in DOMAIN blocks_, blocks_[b].instructions # <<>>
      PROVE  LET r == blocks_[b].instructions
             IN /\ LineIn(code', r, b)
                /\ \A t \in FlowIn(code', Last(r)) : t \in BadIn(code') \/ <<b, t>> \in pending_edges'
  <2>1. CodeGrows /\ pending_edges \subseteq pending_edges'
    BY DEF BlockEnds, BlockMarks
  <2> QED BY <1>2, <2>1, LinesKept
<1>3. \A b : LineIn(code, s, b)' <=> LineIn(code', s, b)
  BY DEF LineIn
<1>4. ASSUME NEW b \in DOMAIN blocks_', blocks_'[b].instructions # <<>>
      PROVE  LET r == blocks_'[b].instructions
             IN /\ LineIn(code', r, b)
                /\ \A t \in FlowIn(code', Last(r)) : t \in BadIn(code') \/ <<b, t>> \in pending_edges'
  <2>1. CASE b \in DOMAIN blocks_
    BY <1>1, <1>2, <1>4, <2>1
  <2>2. CASE b = block.start_addr
    BY <1>1, <1>4, <2>2 DEF BlockEnds
  <2> QED BY <1>1, <2>1, <2>2
<1> QED BY <1>1, <1>4 DEF Linking, LineIn, FlowIn, BadIn

\* What a finished block's last instruction leads to does not change.
LEMMA OutKept ==
  ASSUME BuildInv, CodeGrows, NEW b \in DOMAIN blocks_, blocks_[b].instructions # <<>>
  PROVE  OutIn(code', Last(blocks_[b].instructions)) = OutIn(code, Last(blocks_[b].instructions))
<1> DEFINE r == blocks_[b].instructions
<1>1. r \in Seq(Addresses)
  BY BlocksAreTyped DEF BuildInv
<1>2. Len(r) \in 1..Len(r)
  BY <1>1
<1>3. Last(r) \in InstructionsOf(b)
  BY <1>1, <1>2 DEF InstructionsOf, ToSet, Last
<1>4. Last(r) \in DOMAIN code
  BY <1>3 DEF BuildInv, Shaped, Covered
<1> QED BY <1>4, GrownCode

LEMMA EndedLeading ==
  ASSUME BuildInv, NEW s, BlockEnds(s)
  PROVE  Leading'
<1>1. /\ DOMAIN blocks_' = DOMAIN blocks_ \cup {block.start_addr}
      /\ blocks_'[block.start_addr].instructions = s
      /\ \A b \in DOMAIN blocks_ : blocks_'[b] = blocks_[b]
  BY EndedBlocks
<1>2. ASSUME NEW b, NEW t, <<b, t>> \in pending_edges'
      PROVE  /\ b \in DOMAIN blocks_' /\ blocks_'[b].instructions # <<>>
             /\ t \in OutIn(code', Last(blocks_'[b].instructions))
  <2>1. CASE <<b, t>> \in pending_edges
    <3>1. /\ b \in DOMAIN blocks_ /\ blocks_[b].instructions # <<>>
          /\ t \in OutIn(code, Last(blocks_[b].instructions))
      BY <2>1 DEF BuildInv, Leading
    <3>2. CodeGrows
      BY DEF BlockEnds
    <3>3. t \in OutIn(code', Last(blocks_[b].instructions))
      BY <3>1, <3>2, OutKept
    <3> QED BY <1>1, <3>1, <3>3
  <2>2. CASE b = block.start_addr /\ s # <<>> /\ t \in OutIn(code', Last(s))
    BY <1>1, <2>2
  <2> QED BY <1>2, <2>1, <2>2 DEF BlockEnds
<1> QED BY <1>2 DEF Leading, OutIn, FlowIn

LEMMA EndedInv ==
  ASSUME BuildInv, NEW s, BlockEnds(s), BlockMarks(s)
  PROVE  BuildInv'
BY EndedTyped, EndedShaped, EndedCovering, EndedMarking, EndedLinking, EndedLeading DEF BuildInv

-----------------------------------------------------------------------------
(* The steps *)

LEMMA BlockRunsOut ==
  ASSUME BuildInv, RunsOut
  PROVE  \E s : BlockEnds(s) /\ BlockMarks(s)
<1> DEFINE s == block.instructions
<1>1. /\ phase = "block" /\ block \in OpenBlocks /\ block.next \notin Addresses
      /\ phase' = "entries"
      /\ UNCHANGED <<entry, code, pending_entries_, pending_edges>>
      /\ state_' = [state_ EXCEPT ![block.start_addr] = "PROCESSED"]
      /\ blocks_' = Put(blocks_, block.start_addr,
                       [instructions |-> s, is_terminated |-> FALSE,
                        successors |-> {}, predecessors |-> {}])
  BY CodeAssumption DEF RunsOut, EndBlock, Addresses, BuildInv, Typed, OpenBlocks
<1>2. s # <<>> /\ block.start_addr \in Addresses
  BY <1>1 DEF BuildInv, Shaped, OpenBlocks
<1>3. /\ LineIn(code, s, block.start_addr)
      /\ FlowIn(code, Last(s)) = {}
  <2>1. /\ LineIn(code, s, block.start_addr) /\ code[Last(s)].kind = "plain"
        /\ block.next = Last(s) + code[Last(s)].size
    BY <1>1, <1>2 DEF BuildInv, Shaped
  <2> QED BY <1>1, <2>1 DEF FlowIn
<1>4. CodeGrows
  BY <1>1 DEF CodeGrows, BuildInv, Typed, TypeOK
<1>5. \A a \in ToSet(s) : a \in DOMAIN code /\ code[a].kind # "bad" /\ state_[a] # "UNPROCESSED"
  BY <1>1 DEF BuildInv, Shaped, Marking, Current
<1>6. BlockEnds(s)
  BY <1>1, <1>2, <1>3, <1>4, <1>5 DEF BlockEnds, OpenBlocks
<1>7. BlockMarks(s)
  BY <1>1, <1>2, <1>5 DEF BlockMarks, BuildInv, Typed, TypeOK, Marks
<1> QED BY <1>6, <1>7

LEMMA BlockReachesEntry ==
  ASSUME BuildInv, ReachesEntry
  PROVE  \E s : BlockEnds(s) /\ BlockMarks(s)
<1> DEFINE s == block.instructions
<1>1. /\ phase = "block" /\ block \in OpenBlocks /\ block.next \in Addresses
      /\ block.next # block.start_addr /\ state_[block.next] # "UNPROCESSED"
      /\ phase' = "entries"
      /\ UNCHANGED <<entry, code, pending_entries_>>
      /\ pending_edges' = pending_edges \cup {<<block.start_addr, block.next>>}
      /\ state_' = [state_ EXCEPT ![block.start_addr] = "PROCESSED"]
      /\ blocks_' = Put(blocks_, block.start_addr,
                       [instructions |-> s, is_terminated |-> FALSE,
                        successors |-> {}, predecessors |-> {}])
  BY CodeAssumption DEF ReachesEntry, EndBlock, EdgeTo, AtEntryPoint, Addresses, BuildInv, Typed,
                        OpenBlocks
<1>2. s # <<>> /\ block.start_addr \in Addresses
  BY <1>1 DEF BuildInv, Shaped, OpenBlocks
<1>3. /\ LineIn(code, s, block.start_addr)
      /\ \A t \in FlowIn(code, Last(s)) : <<block.start_addr, t>> \in pending_edges'
      /\ block.next \in OutIn(code, Last(s)) /\ code' = code
  <2>1. /\ LineIn(code, s, block.start_addr) /\ code[Last(s)].kind = "plain"
        /\ block.next = Last(s) + code[Last(s)].size
    BY <1>1, <1>2 DEF BuildInv, Shaped
  <2> QED BY <1>1, <2>1 DEF FlowIn, OutIn
<1>4. CodeGrows
  BY <1>1 DEF CodeGrows, BuildInv, Typed, TypeOK
<1>5. \A a \in ToSet(s) : a \in DOMAIN code /\ code[a].kind # "bad" /\ state_[a] # "UNPROCESSED"
  BY <1>1 DEF BuildInv, Shaped, Marking, Current
<1>8. block.next \in Known
  BY <1>1 DEF BuildInv, Covering
<1>9. \A b, t : <<b, t>> \in pending_edges' \ pending_edges =>
        b = block.start_addr /\ s # <<>> /\ t \in OutIn(code', Last(s))
  BY <1>1, <1>2, <1>3
<1>6. BlockEnds(s)
  BY <1>1, <1>2, <1>3, <1>4, <1>5, <1>8, <1>9 DEF BlockEnds, OpenBlocks
<1>7. BlockMarks(s)
  BY <1>1, <1>2, <1>5 DEF BlockMarks, BuildInv, Typed, TypeOK, Marks
<1> QED BY <1>6, <1>7

LEMMA BlockFailsToDecode ==
  ASSUME BuildInv, FailsToDecode
  PROVE  \E s : BlockEnds(s) /\ BlockMarks(s)
<1> DEFINE s == block.instructions
<1>0. PICK insn \in Possible(block.next) : insn.kind = "bad" /\ Decodes(insn)
  BY DEF FailsToDecode
<1>1. /\ CodeGrows
      /\ phase = "block" /\ block \in OpenBlocks /\ block.next \in Addresses
      /\ block.next \in BadIn(code')
  BY <1>0, Decoding DEF BuildInv, BadIn
<1>2. /\ phase' = "entries"
      /\ UNCHANGED <<entry, pending_entries_, pending_edges>>
      /\ state_' = [state_ EXCEPT ![block.start_addr] = "PROCESSED"]
      /\ blocks_' = Put(blocks_, block.start_addr,
                       [instructions |-> s, is_terminated |-> FALSE,
                        successors |-> {}, predecessors |-> {}])
  BY DEF FailsToDecode, EndBlock
<1>3. block.start_addr \in Addresses /\ s \in Seq(Addresses)
  BY <1>1 DEF OpenBlocks
<1>4. \A a \in ToSet(s) : /\ a \in DOMAIN code /\ code[a].kind # "bad" /\ state_[a] # "UNPROCESSED"
                          /\ a \in DOMAIN code' /\ code'[a].kind # "bad"
  BY <1>1 DEF BuildInv, Shaped, Marking, Current, CodeGrows
<1>5. s = <<>> => block.start_addr \in BadIn(code')
  BY <1>1 DEF BuildInv, Shaped
<1>6. s # <<>> => /\ LineIn(code', s, block.start_addr)
                  /\ \A t \in FlowIn(code', Last(s)) : t \in BadIn(code')
  <2> SUFFICES ASSUME s # <<>> PROVE /\ LineIn(code', s, block.start_addr)
                                     /\ \A t \in FlowIn(code', Last(s)) : t \in BadIn(code')
    OBVIOUS
  <2>1. /\ LineIn(code, s, block.start_addr) /\ code[Last(s)].kind = "plain"
        /\ block.next = Last(s) + code[Last(s)].size
    BY <1>1 DEF BuildInv, Shaped
  <2>2. \A i \in 1..Len(s) : s[i] \in ToSet(s)
    BY <1>3 DEF ToSet
  <2>3. Last(s) \in DOMAIN code /\ \A i \in 1..(Len(s) - 1) : s[i] \in DOMAIN code
    BY <1>3, <1>4, <2>2 DEF Last
  <2>4. LineIn(code', s, block.start_addr)
    BY <1>1, <2>1, <2>3, GrownCode
  <2>5. FlowIn(code', Last(s)) = FlowIn(code, Last(s))
    BY <1>1, <2>3, GrownCode
  <2>6. \A t \in FlowIn(code, Last(s)) : t = block.next
    BY <2>1 DEF FlowIn
  <2> QED BY <1>1, <2>4, <2>5, <2>6
<1>7. BlockEnds(s)
  BY <1>1, <1>2, <1>3, <1>4, <1>5, <1>6 DEF BlockEnds
<1>8. BlockMarks(s)
  BY <1>2, <1>3, <1>4 DEF BlockMarks, BuildInv, Typed, TypeOK, Marks
<1> QED BY <1>7, <1>8

\* The line of the open block, with the instruction after it.
LEMMA LineExtended ==
  ASSUME BuildInv, NEW insn \in Possible(block.next), Decodes(insn), insn.kind # "bad",
         NEW s, s = Append(block.instructions, block.next)
  PROVE  /\ s \in Seq(Addresses) /\ s # <<>> /\ Last(s) = block.next
         /\ ToSet(s) = ToSet(block.instructions) \cup {block.next}
         /\ LineIn(code', s, block.start_addr)
         /\ \A a \in ToSet(s) : a \in DOMAIN code' /\ code'[a].kind # "bad"
<1> DEFINE r == block.instructions
<1>1. /\ CodeGrows /\ phase = "block" /\ block \in OpenBlocks /\ block.next \in Addresses
      /\ block.next \in DOMAIN code' /\ code'[block.next] = insn
  BY Decoding DEF BuildInv
<1>2. r \in Seq(Addresses)
  BY <1>1 DEF OpenBlocks
<1>3. /\ s \in Seq(Addresses) /\ s # <<>>
      /\ Len(s) = Len(r) + 1 /\ Len(r) \in Nat
      /\ \A i \in 1..Len(r) : s[i] = r[i]
      /\ s[Len(r) + 1] = block.next
      /\ Last(s) = block.next
      /\ ToSet(s) = ToSet(r) \cup {block.next}
  BY <1>1, <1>2, ToSetAppend
<1>4. \A a \in ToSet(r) : a \in DOMAIN code /\ a \in DOMAIN code' /\ code'[a] = code[a]
                          /\ code[a].kind # "bad"
  BY <1>1 DEF BuildInv, Shaped, Current, CodeGrows
<1>5. LineIn(code', s, block.start_addr)
  <2>1. CASE r = <<>>
    <3>1. block.next = block.start_addr /\ Len(r) = 0
      BY <1>1, <2>1 DEF BuildInv, Shaped
    <3> QED BY <1>3, <3>1 DEF LineIn
  <2>2. CASE r # <<>>
    <3>1. /\ LineIn(code, r, block.start_addr) /\ code[Last(r)].kind = "plain"
          /\ block.next = Last(r) + code[Last(r)].size
      BY <1>1, <2>2 DEF BuildInv, Shaped
    <3>2. Len(r) >= 1
      BY <1>2, <2>2
    <3>3. \A i \in 1..Len(r) : r[i] \in ToSet(r)
      BY <1>2 DEF ToSet
    <3>4. s[1] = block.start_addr
      BY <1>3, <3>1, <3>2 DEF LineIn
    <3>5. ASSUME NEW i \in 1..Len(r)
          PROVE  code'[s[i]].kind = "plain" /\ s[i + 1] = s[i] + code'[s[i]].size
      <4>1. s[i] = r[i] /\ code'[s[i]] = code[r[i]]
        BY <1>3, <1>4, <3>3
      <4>2. CASE i = Len(r)
        BY <1>3, <3>1, <4>1, <4>2 DEF Last
      <4>3. CASE i # Len(r)
        <5>1. i \in 1..(Len(r) - 1) /\ s[i + 1] = r[i + 1]
          BY <1>3, <4>3
        <5> QED BY <3>1, <4>1, <5>1 DEF LineIn
      <4> QED BY <4>2, <4>3
    <3> HIDE DEF r
    <3> QED BY <1>3, <3>4, <3>5 DEF LineIn
  <2> QED BY <2>1, <2>2
<1>6. \A a \in ToSet(s) : a \in DOMAIN code' /\ code'[a].kind # "bad"
  BY <1>1, <1>3, <1>4
<1> QED BY <1>3, <1>5, <1>6

LEMMA BlockEndsWith ==
  ASSUME BuildInv, NEW insn \in Possible(block.next), EndsWith(insn)
  PROVE  \E s : BlockEnds(s) /\ BlockMarks(s)
<1>0. PICK s : s = Append(block.instructions, block.next)
  OBVIOUS
<1>1. Decodes(insn) /\ insn.kind \notin {"plain", "bad"}
  BY DEF EndsWith
<1>2. /\ CodeGrows /\ phase = "block" /\ block \in OpenBlocks /\ block.next \in Addresses
      /\ code'[block.next] = insn
      /\ block.next = block.start_addr \/ state_[block.next] = "UNPROCESSED"
  BY <1>1, Decoding DEF BuildInv
<1>3. /\ s \in Seq(Addresses) /\ s # <<>> /\ Last(s) = block.next
      /\ ToSet(s) = ToSet(block.instructions) \cup {block.next}
      /\ LineIn(code', s, block.start_addr)
      /\ \A a \in ToSet(s) : a \in DOMAIN code' /\ code'[a].kind # "bad"
  BY <1>0, <1>1, LineExtended
<1> DEFINE targets == Targets(block.next, insn)
<1>4. /\ targets \subseteq Addresses /\ FlowIn(code', block.next) \subseteq targets
      /\ targets \subseteq OutIn(code', block.next)
  <2>1. code_size_ \in Nat /\ Unknown \notin Addresses
    BY CodeAssumption DEF Addresses, Unknown
  <2> QED BY <1>1, <1>2, <2>1 DEF Targets, FlowIn, OutIn, extract_jump_target
<1>5. /\ phase' = "entries" /\ entry' = entry
      /\ pending_entries_' = pending_entries_ \cup targets
      /\ pending_edges' = pending_edges \cup ({block.start_addr} \X targets)
      /\ blocks_' = Put(blocks_, block.start_addr,
                       [instructions |-> s, is_terminated |-> TRUE,
                        successors |-> {}, predecessors |-> {}])
      /\ state_' = [MarkTargets(MarkDecoded(block.next), targets) EXCEPT
                      ![block.start_addr] = "PROCESSED"]
  BY <1>0 DEF EndsWith, EndBlock
<1> HIDE DEF targets
<1>6. block.start_addr \in Addresses
  BY <1>2 DEF OpenBlocks
<1>10. \A b, t : <<b, t>> \in pending_edges' \ pending_edges =>
        b = block.start_addr /\ s # <<>> /\ t \in OutIn(code', Last(s))
  BY <1>3, <1>4, <1>5
<1>7. BlockEnds(s)
  BY <1>2, <1>3, <1>4, <1>5, <1>6, <1>10 DEF BlockEnds
<1>8. \A a \in Addresses :
        state_'[a] = IF a = block.start_addr THEN "PROCESSED"
                     ELSE IF a \in targets THEN "JUMP_TARGET"
                     ELSE IF a = block.next THEN "PROCESSED" ELSE state_[a]
  <2>1. state_ \in [Addresses -> Marks]
    BY DEF BuildInv, Typed, TypeOK
  <2>2. \A a \in Addresses : a # block.start_addr =>
          MarkDecoded(block.next)[a] = IF a = block.next THEN "PROCESSED" ELSE state_[a]
    BY <1>2, <2>1 DEF MarkDecoded
  <2> QED BY <1>5, <1>6, <2>2 DEF MarkTargets
<1>9. BlockMarks(s)
  <2>1. state_' \in [Addresses -> Marks]
    <3>1. state_ \in [Addresses -> Marks]
      BY DEF BuildInv, Typed, TypeOK
    <3>2. MarkDecoded(block.next) \in [Addresses -> Marks]
      BY <1>2, <3>1 DEF MarkDecoded, Marks
    <3>3. MarkTargets(MarkDecoded(block.next), targets) \in [Addresses -> Marks]
      BY <3>2 DEF MarkTargets, Marks
    <3> QED BY <1>5, <3>3 DEF Marks
  <2>2. /\ pending_entries_ \subseteq pending_entries_' /\ pending_entries_' \subseteq Addresses
        /\ pending_edges \subseteq pending_edges' /\ pending_edges' \subseteq Addresses \X Addresses
    BY <1>4, <1>5, <1>6 DEF BuildInv, Typed, TypeOK
  <2>3. \A a \in ToSet(block.instructions) : state_[a] # "UNPROCESSED"
    BY <1>2 DEF BuildInv, Marking, Current
  <2> QED BY <1>3, <1>5, <1>6, <1>8, <2>1, <2>2, <2>3 DEF BlockMarks
<1> QED BY <1>7, <1>9

LEMMA BlockGoesOn ==
  ASSUME BuildInv, NEW insn \in Possible(block.next), GoesOn(insn)
  PROVE  BuildInv'
<1>0. PICK s : s = Append(block.instructions, block.next)
  OBVIOUS
<1>1. Decodes(insn) /\ insn.kind = "plain"
  BY DEF GoesOn
<1>2. /\ CodeGrows /\ phase = "block" /\ block \in OpenBlocks /\ block.next \in Addresses
      /\ code'[block.next] = insn
      /\ block.next = block.start_addr \/ state_[block.next] = "UNPROCESSED"
  BY <1>1, Decoding DEF BuildInv
<1>3. /\ s \in Seq(Addresses) /\ s # <<>> /\ Last(s) = block.next
      /\ ToSet(s) = ToSet(block.instructions) \cup {block.next}
      /\ LineIn(code', s, block.start_addr)
      /\ \A a \in ToSet(s) : a \in DOMAIN code' /\ code'[a].kind # "bad"
  BY <1>0, <1>1, LineExtended
<1>4. insn.size \in Nat /\ block.next \in Nat /\ block.start_addr \in Addresses
  <2>1. insn.size \in Nat
    BY CodeAssumption DEF Possible, Instructions
  <2> QED BY <1>2, <2>1, CodeAssumption DEF OpenBlocks
<1>5. /\ UNCHANGED <<entry, pending_entries_, pending_edges, blocks_, phase>>
      /\ state_' = MarkDecoded(block.next)
      /\ block' = [start_addr |-> block.start_addr, instructions |-> s,
                   next |-> block.next + insn.size]
  BY <1>0, <1>2 DEF GoesOn, OpenBlocks
<1>6. /\ state_' \in [Addresses -> Marks]
      /\ \A a \in Addresses :
           state_'[a] = IF a = block.next /\ a # block.start_addr THEN "PROCESSED" ELSE state_[a]
  <2>1. state_ \in [Addresses -> Marks]
    BY DEF BuildInv, Typed, TypeOK
  <2> QED BY <1>2, <1>5, <2>1 DEF MarkDecoded, Marks
<1>7. /\ Covered' = Covered /\ Current' = Current \cup {block.next} /\ Begun' = Begun
      /\ Ahead' = {block.next + insn.size} /\ Ahead = {block.next} /\ Begun = {block.start_addr}
      /\ Current = ToSet(block.instructions)
      /\ \A b : InstructionsOf(b)' = InstructionsOf(b)
      /\ BadIn(code)' = BadIn(code') /\ BadIn(code) \subseteq BadIn(code')
  <2>1. \A b : InstructionsOf(b)' = InstructionsOf(b)
    BY <1>5 DEF InstructionsOf
  <2>2. Covered' = Covered
    BY <1>5, <2>1 DEF Covered
  <2>3. BadIn(code)' = BadIn(code') /\ BadIn(code) \subseteq BadIn(code')
    BY <1>2, GrownCode DEF BadIn
  <2> QED BY <1>2, <1>3, <1>5, <2>1, <2>2, <2>3 DEF Current, Begun, Ahead
<1>8. Typed'
  BY <1>2, <1>3, <1>4, <1>5, <1>6 DEF Typed, TypeOK, OpenBlocks, CodeGrows, BuildInv
<1>9. Shaped'
  <2>1. \A a \in Covered' \cup Current' : a \in DOMAIN code' /\ code'[a].kind # "bad"
    BY <1>2, <1>3, <1>7 DEF BuildInv, Shaped, CodeGrows
  <2>2. /\ ~ (block'.start_addr \in DOMAIN blocks_')
        /\ block'.instructions # <<>>
        /\ LineIn(code', block'.instructions, block'.start_addr)
        /\ code'[Last(block'.instructions)].kind = "plain"
        /\ block'.next = Last(block'.instructions) + code'[Last(block'.instructions)].size
    BY <1>1, <1>2, <1>3, <1>5 DEF BuildInv, Shaped, has_block
  <2> QED BY <2>1, <2>2 DEF Shaped, has_block, LineIn
<1>10. Covering'
  <2>1. Known \subseteq Known' /\ Ahead \subseteq Known'
    BY <1>5, <1>7 DEF Known
  <2>2. entry' \in Known'
    BY <1>5, <2>1 DEF BuildInv, Covering
  <2>3. \A a \in Addresses : state_'[a] # "UNPROCESSED" => a \in Known'
    BY <1>6, <1>7, <2>1 DEF BuildInv, Covering
  <2>4. \A a \in Addresses : state_'[a] = "PROCESSED" \/ a \in DOMAIN blocks_'
          => a \in Covered' \cup Current' \cup BadIn(code')
    BY <1>5, <1>6, <1>7 DEF BuildInv, Covering, has_block
  <2>5. FlowIn(code', block.next) \subseteq Ahead'
    BY <1>1, <1>2, <1>7 DEF FlowIn
  <2>6. \A a \in Covered \cup Current : FlowIn(code', a) \subseteq Known'
    BY <1>2, <2>1, GrownCode DEF BuildInv, Covering, Shaped
  <2>7. \A a \in Covered' \cup Current' : FlowIn(code', a) \subseteq Known' \cup Ahead'
    BY <1>7, <2>5, <2>6
  <2>8. \A a : FlowIn(code, a)' = FlowIn(code', a)
    BY DEF FlowIn
  <2> QED BY <1>2, <1>5, <1>7, <2>2, <2>3, <2>4, <2>7, <2>8 DEF Covering, has_block
<1>11. Marking'
  <2>1. Covered \subseteq Addresses /\ Current \subseteq Addresses /\ pending_entries_ \subseteq Addresses
    BY <1>2, BlocksAreTyped DEF BuildInv, Covered, Current, OpenBlocks, ToSet, Typed, TypeOK
  <2>2. \A a \in pending_entries_' \cup Begun' \cup Covered' \cup Current' : state_'[a] # "UNPROCESSED"
    BY <1>2, <1>4, <1>5, <1>6, <1>7, <2>1 DEF BuildInv, Marking
  <2>3. \A b \in DOMAIN blocks_ :
          \A a \in InstructionsOf(b) \cap Current' : a = b \/ a = block.start_addr
    <3> TAKE b \in DOMAIN blocks_
    <3> TAKE a \in InstructionsOf(b) \cap Current'
    <3>1. a \in Covered
      BY DEF Covered
    <3> QED BY <1>2, <1>7, <3>1 DEF BuildInv, Marking
  <2> QED BY <1>5, <1>7, <2>2, <2>3 DEF BuildInv, Marking
<1>12. Linking'
  <2>1. ASSUME NEW b \in DOMAIN blocks_, blocks_[b].instructions # <<>>
        PROVE  LET r == blocks_[b].instructions
               IN /\ LineIn(code', r, b)
                  /\ \A t \in FlowIn(code', Last(r)) :
                       t \in BadIn(code') \/ <<b, t>> \in pending_edges'
    BY <1>2, <1>5, <2>1, LinesKept
  <2> QED BY <1>2, <1>5, <2>1 DEF Linking, LineIn, FlowIn, BadIn
<1>13. Leading'
  <2>1. ASSUME NEW b, NEW t, <<b, t>> \in pending_edges
        PROVE  /\ b \in DOMAIN blocks_ /\ blocks_[b].instructions # <<>>
               /\ t \in OutIn(code', Last(blocks_[b].instructions))
    <3>1. /\ b \in DOMAIN blocks_ /\ blocks_[b].instructions # <<>>
          /\ t \in OutIn(code, Last(blocks_[b].instructions))
      BY <2>1 DEF BuildInv, Leading
    <3> QED BY <1>2, <3>1, OutKept
  <2> QED BY <1>5, <2>1 DEF Leading, OutIn, FlowIn
<1> QED BY <1>8, <1>9, <1>10, <1>11, <1>12, <1>13 DEF BuildInv

LEMMA EntryTaken ==
  ASSUME BuildInv, TakeEntry
  PROVE  BuildInv'
<1>1. PICK addr : addr = Min(pending_entries_)
  OBVIOUS
<1>2. addr \in pending_entries_ /\ addr \in Addresses
  <2>1. pending_entries_ \in SUBSET Nat /\ pending_entries_ \subseteq Addresses
    BY CodeAssumption DEF BuildInv, Typed, TypeOK, Addresses
  <2>2. pending_entries_ # {}
    BY DEF TakeEntry
  <2> QED BY <1>1, <2>1, <2>2, MinIsLeast
<1>3. /\ phase = "entries" /\ pending_entries_' = pending_entries_ \ {addr}
      /\ UNCHANGED <<entry, code, state_, pending_edges, blocks_>>
      /\ \/ Dropped(addr) /\ UNCHANGED <<block, phase>>
         \/ /\ ~ Dropped(addr) /\ phase' = "block"
            /\ block' = [start_addr |-> addr, instructions |-> <<>>, next |-> addr]
  BY <1>1 DEF TakeEntry
<1>4. addr \in Nat
  BY <1>2, CodeAssumption DEF Addresses
<1>5. phase' = "block" => /\ block' = [start_addr |-> addr, instructions |-> <<>>, next |-> addr]
                          /\ block' \in OpenBlocks /\ ~has_block(addr)
  <2> SUFFICES ASSUME phase' = "block"
               PROVE  /\ block' = [start_addr |-> addr, instructions |-> <<>>, next |-> addr]
                      /\ block' \in OpenBlocks /\ ~has_block(addr)
    OBVIOUS
  <2>1. ~ Dropped(addr) /\ block' = [start_addr |-> addr, instructions |-> <<>>, next |-> addr]
    BY <1>3
  <2>2. <<>> \in Seq(Addresses)
    OBVIOUS
  <2>3. block' \in OpenBlocks
    BY <1>2, <1>4, <2>1, <2>2 DEF OpenBlocks
  <2> QED BY <2>1, <2>3 DEF Dropped
<1>6. ToSet(<<>>) = {}
  BY DEF ToSet
<1>7. /\ Covered' = Covered /\ Current' = {} /\ Current = {} /\ Begun = {} /\ Ahead = {}
      /\ Begun' = (IF phase' = "block" THEN {addr} ELSE {}) /\ BadIn(code)' = BadIn(code)
      /\ \A b : InstructionsOf(b)' = InstructionsOf(b)
  <2>1. \A b : InstructionsOf(b)' = InstructionsOf(b)
    BY <1>3 DEF InstructionsOf
  <2>2. Covered' = Covered
    BY <1>3, <2>1 DEF Covered
  <2>3. Current' = {}
    BY <1>5, <1>6 DEF Current
  <2>4. phase = "entries"
    BY <1>3
  <2>5. Current = {} /\ Begun = {} /\ Ahead = {}
    BY <2>4 DEF Current, Begun, Ahead
  <2>6. Begun' = (IF phase' = "block" THEN {addr} ELSE {})
    <3>1. Begun' = (IF phase' = "block" THEN {block'.start_addr} ELSE {})
      BY DEF Begun
    <3>2. phase' = "block" => block'.start_addr = addr
      BY <1>5
    <3> QED BY <3>1, <3>2
  <2>7. BadIn(code)' = BadIn(code)
    BY <1>3 DEF BadIn
  <2> QED BY <2>1, <2>2, <2>3, <2>5, <2>6, <2>7
<1>8. Typed'
  BY <1>3, <1>5 DEF BuildInv, Typed, TypeOK
<1>9. Shaped'
  <2>1. \A a \in Covered' \cup Current' : a \in DOMAIN code' /\ code'[a].kind # "bad"
    BY <1>3, <1>7 DEF BuildInv, Shaped
  <2> QED BY <1>3, <1>5, <2>1 DEF Shaped, has_block
<1>10. Covering'
  <2>1. addr \in Covered \cup BadIn(code) \/ phase' = "block"
    BY <1>2, <1>3, <1>7 DEF BuildInv, Covering, Dropped
  <2>2. Known \subseteq Known'
    BY <1>3, <1>7, <2>1 DEF Known
  <2> QED BY <1>3, <1>7, <2>2 DEF BuildInv, Covering, has_block, FlowIn
<1>11. Marking'
  BY <1>2, <1>3, <1>7 DEF BuildInv, Marking
<1>12. Linking'
  BY <1>3 DEF BuildInv, Linking, LineIn, FlowIn, BadIn
<1>13. Leading'
  BY <1>3 DEF BuildInv, Leading, OutIn, FlowIn
<1> QED BY <1>8, <1>9, <1>10, <1>11, <1>12, <1>13 DEF BuildInv

LEMMA EdgesAdded ==
  ASSUME BuildInv, AddEdges
  PROVE  BuildInv'
<1>1. /\ phase = "entries" /\ pending_entries_ = {} /\ phase' = "done"
      /\ UNCHANGED <<entry, code, state_, pending_entries_, pending_edges, block>>
      /\ DOMAIN blocks_' = DOMAIN blocks_
      /\ \A b \in DOMAIN blocks_ :
           blocks_'[b] = [blocks_[b] EXCEPT !.successors = {to \in Addresses : <<b, to>> \in pending_edges},
                            !.predecessors = {a \in DOMAIN blocks_ : <<a, b>> \in pending_edges}]
  BY DEF AddEdges
<1>2. /\ DOMAIN blocks_ \subseteq Addresses
      /\ \A b \in DOMAIN blocks_ : blocks_[b] \in Blocks
  BY DEF BuildInv, Typed, TypeOK
<1>3. \A b \in DOMAIN blocks_ :
        /\ blocks_'[b] \in Blocks
        /\ blocks_'[b].instructions = blocks_[b].instructions
        /\ blocks_'[b].successors = {to \in Addresses : <<b, to>> \in pending_edges}
        /\ blocks_'[b].predecessors = {a \in DOMAIN blocks_ : <<a, b>> \in pending_edges}
  <2> TAKE b \in DOMAIN blocks_
  <2> DEFINE to == {t \in Addresses : <<b, t>> \in pending_edges}
             from == {a \in DOMAIN blocks_ : <<a, b>> \in pending_edges}
  <2>1. to \in SUBSET Addresses /\ from \in SUBSET Addresses
    BY <1>2
  <2>2. blocks_'[b] = [blocks_[b] EXCEPT !.successors = to, !.predecessors = from]
    BY <1>1
  <2>3. blocks_[b] \in Blocks
    BY <1>2
  <2> HIDE DEF to, from
  <2>4. /\ blocks_'[b] \in Blocks /\ blocks_'[b].instructions = blocks_[b].instructions
        /\ blocks_'[b].successors = to /\ blocks_'[b].predecessors = from
    BY <2>1, <2>2, <2>3 DEF Blocks
  <2> QED BY <2>4 DEF to, from
<1>4. /\ \A b \in DOMAIN blocks_ : InstructionsOf(b)' = InstructionsOf(b)
      /\ Covered' = Covered /\ Current' = {} /\ Current = {} /\ Begun = {} /\ Begun' = {}
      /\ BadIn(code)' = BadIn(code) /\ Ahead = {}
  <2>1. \A b \in DOMAIN blocks_ : InstructionsOf(b)' = InstructionsOf(b)
    BY <1>3 DEF InstructionsOf
  <2>2. Covered' = Covered
    BY <1>1, <2>1 DEF Covered
  <2> QED BY <1>1, <2>1, <2>2 DEF Current, Begun, BadIn, Ahead
<1>5. Typed'
  BY <1>1, <1>2, <1>3 DEF BuildInv, Typed, TypeOK
<1>6. Shaped'
  BY <1>1, <1>4 DEF BuildInv, Shaped
<1>7. Covering'
  <2>1. Known' = Known
    BY <1>1, <1>4 DEF Known
  <2> QED BY <1>1, <1>4, <2>1 DEF BuildInv, Covering, has_block, FlowIn
<1>8. Marking'
  BY <1>1, <1>4 DEF BuildInv, Marking
<1>9. Linking'
  <2>1. \A b \in DOMAIN blocks_ :
          LET s == blocks_'[b].instructions
          IN s # <<>> => /\ LineIn(code, s, b)
                         /\ \A t \in FlowIn(code, Last(s)) :
                              t \in BadIn(code) \/ <<b, t>> \in pending_edges
    BY <1>3 DEF BuildInv, Linking
  <2>3. \A b \in DOMAIN blocks_' :
          LET s == blocks_'[b].instructions
          IN s # <<>> => /\ LineIn(code', s, b)
                         /\ \A t \in FlowIn(code', Last(s)) :
                              t \in BadIn(code') \/ <<b, t>> \in pending_edges'
    BY <1>1, <2>1
  <2>4. \A b \in DOMAIN blocks_' :
          /\ blocks_'[b].successors = {to \in Addresses : <<b, to>> \in pending_edges'}
          /\ blocks_'[b].predecessors = {a \in DOMAIN blocks_' : <<a, b>> \in pending_edges'}
    BY <1>1, <1>3
  <2> QED BY <2>3, <2>4 DEF Linking, LineIn, FlowIn, BadIn
<1>10. Leading'
  <2>1. ASSUME NEW b, NEW t, <<b, t>> \in pending_edges
        PROVE  /\ b \in DOMAIN blocks_' /\ blocks_'[b].instructions # <<>>
               /\ t \in OutIn(code, Last(blocks_'[b].instructions))
    <3>1. /\ b \in DOMAIN blocks_ /\ blocks_[b].instructions # <<>>
          /\ t \in OutIn(code, Last(blocks_[b].instructions))
      BY <2>1 DEF BuildInv, Leading
    <3>2. blocks_'[b].instructions = blocks_[b].instructions /\ DOMAIN blocks_' = DOMAIN blocks_
      BY <1>1, <1>3, <3>1
    <3> QED BY <3>1, <3>2
  <2> QED BY <1>1, <2>1 DEF Leading, OutIn, FlowIn
<1> QED BY <1>5, <1>6, <1>7, <1>8, <1>9, <1>10 DEF BuildInv

LEMMA BuildStutters == BuildInv /\ UNCHANGED vars => BuildInv'
<1> SUFFICES ASSUME BuildInv, UNCHANGED vars PROVE BuildInv'
  OBVIOUS
<1>1. UNCHANGED <<entry, code, state_, pending_entries_, pending_edges, blocks_, block, phase>>
  BY DEF vars
<1>2. /\ \A b : InstructionsOf(b)' = InstructionsOf(b)
      /\ Current' = Current /\ Begun' = Begun /\ Ahead' = Ahead /\ BadIn(code)' = BadIn(code)
  BY <1>1 DEF InstructionsOf, Current, Begun, Ahead, BadIn
<1>3. Covered' = Covered
  BY <1>1, <1>2 DEF Covered
<1>4. Known' = Known
  BY <1>1, <1>2, <1>3 DEF Known
<1>5. Typed' /\ Shaped'
  BY <1>1, <1>2, <1>3 DEF BuildInv, Typed, TypeOK, Shaped, has_block, LineIn
<1>6. Covering' /\ Marking' /\ Linking'
  BY <1>1, <1>2, <1>3, <1>4 DEF BuildInv, Covering, Marking, Linking, has_block, LineIn, FlowIn, BadIn
<1>7. Leading'
  BY <1>1 DEF BuildInv, Leading, OutIn, FlowIn
<1> QED BY <1>5, <1>6, <1>7 DEF BuildInv

LEMMA BuildStep == BuildInv /\ [Next]_vars => BuildInv'
<1> SUFFICES ASSUME BuildInv, [Next]_vars PROVE BuildInv'
  OBVIOUS
<1>1. CASE TakeEntry
  BY <1>1, EntryTaken
<1>2. CASE RunsOut
  BY <1>2, BlockRunsOut, EndedInv
<1>3. CASE ReachesEntry
  BY <1>3, BlockReachesEntry, EndedInv
<1>4. CASE FailsToDecode
  BY <1>4, BlockFailsToDecode, EndedInv
<1>5. CASE AddEdges
  BY <1>5, EdgesAdded
<1>6. ASSUME NEW insn \in Possible(block.next), EndsWith(insn) PROVE BuildInv'
  BY <1>6, BlockEndsWith, EndedInv
<1>7. ASSUME NEW insn \in Possible(block.next), GoesOn(insn) PROVE BuildInv'
  BY <1>7, BlockGoesOn
<1>8. CASE Done \/ UNCHANGED vars
  BY <1>8, BuildStutters DEF Done
<1> QED BY <1>1, <1>2, <1>3, <1>4, <1>5, <1>6, <1>7, <1>8 DEF Next, Step

LEMMA BuildInvariant == Spec => []BuildInv
BY BuildInit, BuildStep, PTL DEF Spec

-----------------------------------------------------------------------------
(* The marks, the blocks and the edges of the builder have their types.        *)
THEOREM BuilderTypeOK == Spec => []TypeOK
<1>1. BuildInv => TypeOK
  BY InvGivesProperties
<1> QED BY <1>1, BuildInvariant, PTL

(* When build returns, the blocks are closed under the flow that the builder   *)
(* sees, whatever the program: what follows an instruction of the graph as far *)
(* as the builder can tell is in the graph or could not be decoded.  An entry  *)
(* is dropped for its mark only after it was decoded, because an address gets  *)
(* a mark either when it becomes an entry or when it is decoded.               *)
THEOREM BlocksAreClosed == Spec => []FlowIsCovered
<1>1. BuildInv => FlowIsCovered
  BY InvGivesProperties
<1> QED BY <1>1, BuildInvariant, PTL

(* No instruction is in more than two blocks, whatever jumps into the middle   *)
(* of finished blocks: a block in the making stops at every marked address.    *)
THEOREM NothingDecodedThrice == Spec => []DecodedAtMostTwice
<1>1. BuildInv => DecodedAtMostTwice
  BY InvGivesProperties
<1> QED BY <1>1, BuildInvariant, PTL

(* The blocks are straight-line code, and the edges are those of their last    *)
(* instructions as far as the builder can tell: none is missing that leads to  *)
(* something decodable, and none is there besides, but for the 0 of a target   *)
(* that cannot be determined.  Every successor that is a block knows its       *)
(* predecessor.                                                                *)
THEOREM GraphHasEdgesOfCode == Spec => []EdgesFollowCode
<1>1. BuildInv => EdgesFollowCode
  BY InvGivesProperties
<1> QED BY <1>1, BuildInvariant, PTL
=============================================================================
