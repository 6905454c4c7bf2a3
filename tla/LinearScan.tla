----------------------------- MODULE LinearScan -----------------------------
(***************************************************************************)
(* The register allocator of the baseline JIT, LinearScanRegAlloc          *)
(* (src/src/jade/tier1_jade/LinearScanRegAlloc.cpp), on one graph.         *)
(*                                                                         *)
(* The values of a graph are its nodes, numbered as their NodeIds; node v  *)
(* is emitted at position v - 1 and its live interval is [v - 1, end[v]).  *)
(* The allocator computes the intervals, extends those a loop uses, walks  *)
(* them in order giving each a register or a spill slot, and then numbers  *)
(* the slots.  A step handles one node, as the loops of the code do.       *)
(*                                                                         *)
(* The order of the active list matters and is kept: std::sort may leave   *)
(* equal elements in any order, and std::lower_bound on a list the removal *)
(* of a victim has left unsorted may return any position a binary search   *)
(* can end at.                                                             *)
(***************************************************************************)
EXTENDS Integers, Sequences, FiniteSets, SequencesExt

CONSTANTS
  Graphs,  \* graphs to compile: kind is the sequence of the nodes' kinds,
           \* inputs[v] the sequence of the data inputs of node v
  Gprs,    \* kAllocatableGprs, in priority order
  Xmms     \* kAllocatableXmms, in priority order

ASSUME GraphsAssumption ==
  \A g \in Graphs : /\ g.kind \in Seq(STRING) /\ g.kind # <<>>
                    /\ g.inputs \in [DOMAIN g.kind -> Seq(DOMAIN g.kind)]

NoReg == "none"

ASSUME PoolsAssumption ==
  /\ Gprs \in Seq(STRING \ {NoReg}) /\ Xmms \in Seq(STRING \ {NoReg})

NoSlot     == -1  \* spill_slot is nullopt
Unassigned == 0   \* spilled, its slot not yet chosen

VARIABLES
  graph,   \* the graph being compiled
  phase,   \* the step of allocate
  at,      \* the node the step is at
  end,     \* LiveInterval::end
  weight,  \* LiveInterval::spill_weight
  active,  \* active_
  reg,     \* LiveInterval::assigned_reg
  slot,    \* LiveInterval::spill_slot
  spills,  \* AllocationResult::spills, which reloads repeats
  frame    \* next_slot, then AllocationResult::frame_size

allocVars == <<graph, phase, at, end, weight, active, reg, slot, spills, frame>>

Nodes       == 1 .. Len(graph.kind)
Registers   == ToSet(Gprs) \cup ToSet(Xmms)
AllocPhases == {"uses", "loops", "walk", "slots", "allocated"}

AllocTypeOK ==
  /\ graph.inputs \in [Nodes -> Seq(Nodes)]
  /\ at \in Nodes
  /\ end \in [Nodes -> Nat]
  /\ weight \in [Nodes -> Nat]
  /\ active \in Seq(Nodes)
  /\ reg \in [Nodes -> Registers \cup {NoReg}]
  /\ slot \in [Nodes -> Int]
  /\ spills \in Seq(Nodes)
  /\ frame \in Nat

-----------------------------------------------------------------------------
(* Live intervals.                                                         *)

(* Floating-point values live in the other register file.                  *)
IsFloat(v) == graph.kind[v] = "ConstFloat"

(* Mutant: the stack pointer is allocatable too.                           *)
PoolWithStackPointer(v) == IF IsFloat(v) THEN Xmms ELSE Append(Gprs, "rsp")

Pool(v) == IF IsFloat(v) THEN Xmms ELSE Gprs

AllocInit ==
  /\ graph \in Graphs
  /\ phase = "uses"
  /\ at = 1
  /\ end = [v \in Nodes |-> v]
  /\ weight = [v \in Nodes |-> 1]
  /\ active = <<>>
  /\ reg = [v \in Nodes |-> NoReg]
  /\ slot = [v \in Nodes |-> NoSlot]
  /\ spills = <<>>
  /\ frame = 0

(* On to the next node, or to the next phase.                              *)
Advance(next) ==
  IF at < Len(graph.kind) THEN at' = at + 1 /\ UNCHANGED phase
                          ELSE at' = 1 /\ phase' = next

UsesOf(u, v) == Cardinality({k \in DOMAIN graph.inputs[u] : graph.inputs[u][k] = v})

(* The data inputs of the node are live through its position.              *)
AddUses ==
  /\ phase = "uses"
  /\ end' = [v \in Nodes |-> IF UsesOf(at, v) > 0 /\ at - 1 >= end[v] THEN at
                                                                     ELSE end[v]]
  /\ weight' = [v \in Nodes |-> weight[v] + UsesOf(at, v)]
  /\ Advance("loops")
  /\ UNCHANGED <<graph, active, reg, slot, spills, frame>>

(* The loop a Jump goes to: the last one before it.                        *)
LoopsOf(jump) ==
  {h \in 1 .. jump - 1 : /\ graph.kind[h] = "Loop"
                         /\ \A n \in h + 1 .. jump - 1 : graph.kind[n] # "Loop"}

(* The Jumps that close the loop h.                                        *)
BackEdges(h) == {j \in Nodes : graph.kind[j] = "Jump" /\ h \in LoopsOf(j)}

(* v is defined before the loop and used in it, or just after its last     *)
(* block, whose last node is the Jump j.                                   *)
UsedInLoop(v, h, j) == v < h /\ \E u \in Nodes : u \in h .. j + 1 /\ UsesOf(u, v) > 0

(* Mutant: intervals end at the last use, in loops too (bug 002).          *)
ExtendOverLoopNever ==
  /\ phase = "loops"
  /\ UNCHANGED <<end, weight>>
  /\ Advance("walk")
  /\ UNCHANGED <<graph, active, reg, slot, spills, frame>>

(* A value the loop headed by the node uses is live until its back edge.   *)
ExtendOverLoop ==
  /\ phase = "loops"
  /\ \/ BackEdges(at) = {} /\ UNCHANGED <<end, weight>>
     \/ \E j \in BackEdges(at) :
          /\ \A i \in BackEdges(at) : i <= j
          /\ LET extended == {v \in Nodes : UsedInLoop(v, at, j) /\ end[v] <= j}
             IN /\ end' = [v \in Nodes |-> IF v \in extended THEN j + 1 ELSE end[v]]
                /\ weight' = [v \in Nodes |-> IF v \in extended THEN weight[v] + 10
                                                                ELSE weight[v]]
  /\ Advance("walk")
  /\ UNCHANGED <<graph, active, reg, slot, spills, frame>>

-----------------------------------------------------------------------------
(* The active list.                                                        *)

(* The loop of expire_active: while the front has ended it is overwritten  *)
(* by the last element, which is popped.                                   *)
Swept(s, position) ==
  LET kept == {k \in 2 .. Len(s) : end[s[k]] > position}
  IN IF s = <<>> THEN {s}
     ELSE IF end[s[1]] > position THEN {s}
     ELSE IF kept = {} THEN {<<>>}
     ELSE {<<s[k]>> \o SubSeq(s, 2, k - 1) : k \in {j \in kept : \A i \in kept : i <= j}}

(* The orders std::sort may put s in, by end.                              *)
Sorted(s) ==
  {u \in {[i \in DOMAIN s |-> s[p[i]]] : p \in Bijection(DOMAIN s, DOMAIN s)} :
     \A i, j \in DOMAIN s : i < j => end[u[i]] <= end[u[j]]}

(* What expire_active may leave.                                           *)
Expired(s, position) == UNION {Sorted(t) : t \in Swept(s, position)}

(* The positions std::lower_bound may return for v in s.                   *)
LowerBounds(s, v) ==
  {p \in 1 .. Len(s) + 1 : /\ p = 1 \/ end[s[p - 1]] < end[v]
                           /\ p = Len(s) + 1 \/ end[s[p]] >= end[v]}

(* Overwriting a victim with the last element and popping that.            *)
SwapRemove(s, k) == [i \in 1 .. Len(s) - 1 |-> IF i = k THEN s[Len(s)] ELSE s[i]]

-----------------------------------------------------------------------------
(* The walk.                                                               *)

(* pick_free_reg: the first register of the pool no active interval holds. *)
FreeRegs(v, s, holder) ==
  {k \in DOMAIN Pool(v) : \A i \in DOMAIN s : holder[s[i]] # Pool(v)[k]}

PickFreeReg(v, s, holder) ==
  {Pool(v)[k] : k \in {j \in FreeRegs(v, s, holder) :
                         \A i \in FreeRegs(v, s, holder) : j <= i}}

(* pick_spill_victim: the first of the lightest, if lighter than v.        *)
Candidates(v, s) ==
  {k \in DOMAIN s : IsFloat(s[k]) = IsFloat(v) /\ weight[s[k]] < weight[v]}

Victims(v, s) ==
  {k \in Candidates(v, s) :
     \A j \in Candidates(v, s) : \/ weight[s[k]] < weight[s[j]]
                                 \/ weight[s[k]] = weight[s[j]] /\ k <= j}

Activate(v, s) == \E p \in LowerBounds(s, v) : active' = InsertAt(s, p, v)

TakeFreeReg ==
  /\ phase = "walk"
  /\ \E s \in Expired(active, at - 1) : \E r \in PickFreeReg(at, s, reg) :
       /\ reg' = [reg EXCEPT ![at] = r]
       /\ Activate(at, s)
  /\ Advance("slots")
  /\ UNCHANGED <<graph, end, weight, slot, spills, frame>>

(* No register is free and no active interval is lighter.                  *)
SpillItself ==
  /\ phase = "walk"
  /\ \E s \in Expired(active, at - 1) :
       /\ PickFreeReg(at, s, reg) = {} /\ Victims(at, s) = {}
       /\ active' = s
  /\ slot' = [slot EXCEPT ![at] = Unassigned]
  /\ spills' = Append(spills, at)
  /\ Advance("slots")
  /\ UNCHANGED <<graph, end, weight, reg, frame>>

(* Mutant: the victim's interval is not marked as spilled.                 *)
SpillVictimUnmarked ==
  /\ phase = "walk"
  /\ \E s \in Expired(active, at - 1) :
       /\ PickFreeReg(at, s, reg) = {}
       /\ \E k \in Victims(at, s) :
            LET evicted == [reg EXCEPT ![s[k]] = NoReg]
            IN \E r \in PickFreeReg(at, s, evicted) :
                 /\ reg' = [evicted EXCEPT ![at] = r]
                 /\ spills' = Append(spills, s[k])
                 /\ Activate(at, SwapRemove(s, k))
  /\ Advance("slots")
  /\ UNCHANGED <<graph, end, weight, slot, frame>>

(* Mutant: the victim keeps its register as well.                          *)
SpillVictimKeeps ==
  /\ phase = "walk"
  /\ \E s \in Expired(active, at - 1) :
       /\ PickFreeReg(at, s, reg) = {}
       /\ \E k \in Victims(at, s) :
            /\ reg' = [reg EXCEPT ![at] = reg[s[k]]]
            /\ slot' = [slot EXCEPT ![s[k]] = Unassigned]
            /\ spills' = Append(spills, s[k])
            /\ Activate(at, SwapRemove(s, k))
  /\ Advance("slots")
  /\ UNCHANGED <<graph, end, weight, frame>>

(* The victim gives its register up, and pick_free_reg finds it free: its  *)
(* result is dereferenced unchecked.                                       *)
SpillVictim ==
  /\ phase = "walk"
  /\ \E s \in Expired(active, at - 1) :
       /\ PickFreeReg(at, s, reg) = {}
       /\ \E k \in Victims(at, s) :
            LET evicted == [reg EXCEPT ![s[k]] = NoReg]
            IN \E r \in PickFreeReg(at, s, evicted) :
                 /\ reg' = [evicted EXCEPT ![at] = r]
                 /\ slot' = [slot EXCEPT ![s[k]] = Unassigned]
                 /\ spills' = Append(spills, s[k])
                 /\ Activate(at, SwapRemove(s, k))
  /\ Advance("slots")
  /\ UNCHANGED <<graph, end, weight, frame>>

-----------------------------------------------------------------------------
(* Spill slots.                                                            *)

SlotSize == 8

(* Mutant: slots of 32 bits.                                               *)
NextSlotHalf == frame + 4

(* next_slot, incremented for a spilled interval.                          *)
NextSlot == frame + SlotSize

RoundUp16(n) == IF n % 16 = 0 THEN n ELSE n + 16 - (n % 16)

AssignSlot ==
  /\ phase = "slots"
  /\ LET next == IF slot[at] = Unassigned THEN NextSlot ELSE frame
     IN /\ slot' = [slot EXCEPT ![at] = IF @ = Unassigned THEN next ELSE @]
        /\ frame' = IF at = Len(graph.kind) THEN RoundUp16(next) ELSE next
  /\ Advance("allocated")
  /\ UNCHANGED <<graph, end, weight, active, reg, spills>>

AllocNext ==
  AddUses \/ ExtendOverLoop \/ TakeFreeReg \/ SpillItself \/ SpillVictim \/ AssignSlot

AllocSpec == AllocInit /\ [][AllocNext]_allocVars

-----------------------------------------------------------------------------
(* Properties.                                                             *)

(* Two intervals that overlap are never given the same register, although  *)
(* the active list loses its order, keeps intervals that have ended and    *)
(* gives up victims.                                                       *)
NoSharedRegister ==
  \A v, w \in Nodes : v < w /\ end[v] > w - 1 /\ reg[v] = reg[w] => reg[v] = NoReg

(* Once allocated, a value is in a register or in a spill slot, never in   *)
(* both or in neither, and spills lists the latter.                        *)
EveryValueHasAHome ==
  phase = "allocated" =>
    /\ \A v \in Nodes : (reg[v] = NoReg) <=> (slot[v] > 0)
    /\ ToSet(spills) = {v \in Nodes : slot[v] > 0}
    /\ IsInjective(spills)

(* Spill slots are apart from each other, and the aligned frame has room   *)
(* for them.                                                               *)
SlotsAreDistinct ==
  phase = "allocated" =>
    /\ frame % 16 = 0
    /\ \A v \in Nodes : slot[v] > 0 =>
         /\ slot[v] \in SlotSize .. frame
         /\ \A w \in Nodes : w # v /\ slot[w] > 0 =>
              slot[w] - slot[v] >= SlotSize \/ slot[v] - slot[w] >= SlotSize
=============================================================================
