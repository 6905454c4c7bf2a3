---------------------------- MODULE CodeEmitter -----------------------------
(***************************************************************************)
(* The baseline JIT behind JadeJit::compile: the allocator of LinearScan,  *)
(* then CodeEmitter::emit (src/src/jade/tier1_jade/CodeEmitter.cpp), and   *)
(* the run of the emitted code.                                            *)
(*                                                                         *)
(* The machine is symbolic.  A register or a stack cell holds the number   *)
(* of the node whose value it is, an argument, or junk; an instruction     *)
(* that reads anything but the operands its node has produces junk.  What  *)
(* the operations compute is abstracted away: where values are is not.     *)
(*                                                                         *)
(* Kinds that emit the same moves share a name: ConstNull also stands for  *)
(* ConstBool and ConstString, Neg for Not, Copy, the conversions, IsNull,  *)
(* ToBool, ArrayLength, LdFld and LdFlda, LdElem for LdElemA, StFld for    *)
(* StoreField, IsInt for IsFloat, ConvI8 for the guards and Phi, which     *)
(* emit nothing, Add for Sub and Mul, And for Or and Xor, Shl for Shr and  *)
(* Sar, Eq for the comparisons.  Arguments and locals have their numbers   *)
(* in the name of the kind.  Blocks follow one another as their nodes do,  *)
(* an arm belongs to the last If before it and ends in a Return or a Jump, *)
(* as in the loops of test_regression.cpp.                                 *)
(***************************************************************************)
EXTENDS LinearScan

VARIABLES
  machine,  \* the registers and the stack frame
  stored,   \* history: the StLoc executed last, for each local
  last      \* the node executed last; 0 before the first

emitVars == <<machine, stored, last>>
vars     == <<allocVars, emitVars>>

Junk == 0

(* The registers that arguments come in, and the arguments in them.        *)
ArgumentLoads  == {"LdArg0", "LdArg3"}
ArgReg(k)      == IF k = "LdArg0" THEN "rdi" ELSE "rcx"
ArgumentRegs   == {"rdi", "rcx"}
ArgumentIn(r)  == IF r = "rdi" THEN -1 ELSE -4

(* What a node that has no value reads, as one operand.                    *)
Out == "out"

ASSUME OutIsNoRegister == Out \notin Registers

MachineRegisters == Registers \cup {"rax", "rcx", "rdx", "rdi", "r11", Out}
MachineValues    == Nodes \cup {Junk, -1, -4}

Locals     == {1, 2}
LocalLoads  == {"LdLoc0", "LdLoc1"}
LocalStores == {"StLoc0", "StLoc1"}
LocalOf(k)  == IF k \in {"LdLoc0", "StLoc0"} THEN 1 ELSE 2

(* The offsets below rbp of build_frame_layout: spill slots, then locals.  *)
SpillSlots   == Cardinality({v \in Nodes : slot[v] > 0})
LocalCell(l) == SlotSize * (SpillSlots + l)
Cells        == {SlotSize * i : i \in 1 .. Len(graph.kind) + Cardinality(Locals)}

TypeOK ==
  /\ AllocTypeOK
  /\ phase \in AllocPhases \cup {"running", "returned", "fallback"}
  /\ machine \in [regs: [MachineRegisters -> MachineValues], stack: [Cells -> MachineValues]]
  /\ stored \in [Locals -> Nodes \cup {0}]
  /\ last \in Nodes \cup {0}

-----------------------------------------------------------------------------
(* Instructions, on a machine m.                                           *)

Put(m, r, x)         == [m EXCEPT !.regs[r] = x]
Mov(m, to, from)     == Put(m, to, m.regs[from])
Load(m, to, cell)    == Put(m, to, m.stack[cell])
Store(m, cell, from) == [m EXCEPT !.stack[cell] = m.regs[from]]

(* What an instruction of node n leaves, if it read what it should.        *)
Result(n, right) == IF right THEN n ELSE Junk

-----------------------------------------------------------------------------
(* The code of one node, n.                                                *)

(* The register given to load_value for the i-th operand.                  *)
Scratch(i) == CASE i = 1 -> "rax" [] i = 2 -> "rcx" [] OTHER -> "rdx"

In(n, i)       == graph.inputs[n][i]
Operands(n)    == DOMAIN graph.inputs[n]

(* load_value: the register of v, or the scratch register v is loaded in.  *)
Place(v, scratch) == IF reg[v] # NoReg THEN reg[v] ELSE scratch

Source(n, i) == Place(In(n, i), Scratch(i))

(* The operands that are not in registers, which load_value loads.         *)
Spilled(n, r) == {i \in Operands(n) : reg[In(n, i)] = NoReg /\ Scratch(i) = r}

Loaded(m, n) ==
  [m EXCEPT !.regs = [r \in MachineRegisters |->
     IF Spilled(n, r) = {} THEN @[r]
     ELSE m.stack[slot[In(n, CHOOSE i \in Spilled(n, r) : TRUE)]]]]

HasOperands(m, n) == \A i \in Operands(n) : m.regs[Source(n, i)] = In(n, i)

Dst(n) == Place(n, "rax")

Save(m, n) == IF slot[n] = NoSlot THEN m ELSE Store(m, slot[n], Dst(n))

(* Unary operations and LdElem: the result in one instruction.             *)
Direct(m, n) == Save(Put(Loaded(m, n), Dst(n), Result(n, HasOperands(Loaded(m, n), n))), n)

(* The first operand is moved to the destination, then combined with the   *)
(* second, which is in the given register.                                 *)
Moved(m, n) == Mov(Loaded(m, n), Dst(n), Source(n, 1))

Combined(m, n, second) ==
  Save(Put(m, Dst(n), Result(n, m.regs[Dst(n)] = In(n, 1) /\ m.regs[second] = In(n, 2))), n)

(* The destination is the register of the second operand.                  *)
Overlaps(n) == Dst(n) = Source(n, 2) /\ Dst(n) # Source(n, 1)

(* Add: when the move overwrites the second operand, it is loaded again.   *)
Arithmetic(m, n) ==
  IF Overlaps(n) THEN Combined(Load(Moved(m, n), "rcx", slot[In(n, 2)]), n, "rcx")
                 ELSE Combined(Moved(m, n), n, Source(n, 2))

(* Eq: set dl, then move it to the destination.                            *)
Compare(m, n) ==
  Save(Mov(Put(Loaded(m, n), "rdx", Result(n, HasOperands(Loaded(m, n), n))), Dst(n), "rdx"), n)

(* cqo and idiv divide rdx:rax, where load_value has put the dividend only *)
(* if it was spilled.                                                      *)
Divide(m, n, result, other) ==
  LET extended == Put(Loaded(m, n), "rdx", Junk)
      right == extended.regs["rax"] = In(n, 1) /\ extended.regs[Source(n, 2)] = In(n, 2)
  IN Save(Mov(Put(Put(extended, other, Junk), result, Result(n, right)), Dst(n), result), n)

(* LdArg, while the register of the argument still holds it.               *)
LoadArgument(m, n, r) == Save(Put(m, Dst(n), Result(n, m.regs[r] = ArgumentIn(r))), n)

(* LdLoc, while the local's cell holds what was stored in it.              *)
LoadLocal(m, n, l) ==
  Save(Put(m, Dst(n), Result(n, m.stack[LocalCell(l)] = stored[l])), n)

(* Stores, branches and returns: operands are read, no value is made.      *)
Sink(m, n) == Put(Loaded(m, n), Out, Result(n, HasOperands(Loaded(m, n), n)))

Directs  == {"ConstInt", "Neg", "LdElem"}
Sinks    == {"StFld", "StElem", "StArg", "CheckBounds", "If", "Switch", "Return"}
              \cup LocalStores
NoValue  == {"Start", "IfTrue", "IfFalse", "Region", "Loop", "Jump", "Safepoint"}
Unsupported == {"ConstFloat", "Call", "NewObj", "Throw"}

(* The machine after the code of n, of a kind that is supported.           *)
Run(m, n) ==
  LET k == graph.kind[n]
  IN CASE k \in Directs -> Direct(m, n)
       [] k = "ConstNull" /\ reg[n] # NoReg -> Direct(m, n)
       [] k = "IsInt" -> Put(m, Dst(n), n)
       [] k = "Add" -> Arithmetic(m, n)
       [] k = "And" -> Combined(Moved(m, n), n, Source(n, 2))
       [] k = "Shl" -> Combined(Moved(m, n), n, "rcx")
       [] k = "Eq"  -> Compare(m, n)
       [] k = "Div" -> Divide(m, n, "rax", "rdx")
       [] k = "Mod" -> Divide(m, n, "rdx", "rax")
       [] k \in ArgumentLoads -> LoadArgument(m, n, ArgReg(k))
       [] k \in LocalLoads -> LoadLocal(m, n, LocalOf(k))
       [] k \in LocalStores -> Store(Sink(m, n), LocalCell(LocalOf(k)), Out)
       [] k = "StArg" -> Put(Sink(m, n), "rdi", Junk)
       [] k \in Sinks \ (LocalStores \cup {"StArg"}) -> Sink(m, n)
       [] k = "Safepoint" -> Put(m, "r11", Junk)
       [] OTHER -> m  \* ConvI8, Phi, guards, a spilled ConstNull, no value

(* The operands the code of a node of kind k takes.                        *)
Arity(k) ==
  CASE k = "StElem" -> 3
    [] k \in {"Add", "And", "Shl", "Eq", "Div", "Mod", "StFld", "LdElem", "CheckBounds"} -> 2
    [] k \in {"Neg", "ConvI8", "StArg", "If", "Switch", "IsInt", "Return"} \cup LocalStores -> 1
    [] OTHER -> 0

(* The kinds whose operands emit counts.                                   *)
Demanding == {"Add", "And", "Shl", "Eq", "Div", "Mod", "Neg", "StFld", "If"} \cup LocalStores

(* emit returns an error at n.                                             *)
Rejected(n) ==
  \/ graph.kind[n] \in Unsupported
  \/ graph.kind[n] \in Demanding /\ Len(graph.inputs[n]) # Arity(graph.kind[n])
  \/ graph.kind[n] = "Add" /\ Overlaps(n) /\ slot[In(n, 2)] = NoSlot

-----------------------------------------------------------------------------
(* Compilation and execution.                                              *)

(* The machine when the compiled code is called.                           *)
Entry ==
  [regs  |-> [r \in MachineRegisters |->
                IF r \in ArgumentRegs THEN ArgumentIn(r) ELSE Junk],
   stack |-> [c \in Cells |-> Junk]]

Init ==
  /\ AllocInit
  /\ machine = Entry
  /\ stored = [l \in Locals |-> Junk]
  /\ last = 0

Allocate == AllocNext /\ UNCHANGED emitVars

(* emit: the code of every node, or an error and back to the interpreter.  *)
Emit ==
  /\ phase = "allocated"
  /\ phase' = IF \E n \in Nodes : Rejected(n) THEN "fallback" ELSE "running"
  /\ UNCHANGED <<graph, at, end, weight, active, reg, slot, spills, frame, emitVars>>

(* The arms of an If: the nodes IfTrue and IfFalse it controls.            *)
Arms(n) ==
  {m \in n + 1 .. Len(graph.kind) :
     /\ graph.kind[m] \in {"IfTrue", "IfFalse"}
     /\ \A i \in n + 1 .. m : graph.kind[i] # "If"}

(* Where control goes after n; the epilogue follows the last node.         *)
Targets(n) ==
  CASE graph.kind[n] = "If"     -> Arms(n)
    [] graph.kind[n] = "Jump"   -> LoopsOf(n)
    [] graph.kind[n] = "Return" -> {}
    [] OTHER                    -> {n + 1} \cap Nodes

ExecuteNode ==
  /\ phase = "running"
  /\ machine' = Run(machine, at)
  /\ stored' = IF graph.kind[at] \in LocalStores
                 THEN [stored EXCEPT ![LocalOf(graph.kind[at])] = at] ELSE stored
  /\ last' = at
  /\ IF Targets(at) = {} THEN phase' = "returned" /\ UNCHANGED at
                         ELSE at' \in Targets(at) /\ UNCHANGED phase
  /\ UNCHANGED <<graph, end, weight, active, reg, slot, spills, frame>>

(* The function has returned, or the interpreter goes on.                  *)
Stopped == phase \in {"returned", "fallback"} /\ UNCHANGED vars

Next == Allocate \/ Emit \/ ExecuteNode \/ Stopped

Spec == Init /\ [][Next]_vars

-----------------------------------------------------------------------------
(* Properties.                                                             *)

(* The value of v is where the allocator put it.                           *)
IsHome(v) == IF reg[v] # NoReg THEN machine.regs[reg[v]] = v ELSE machine.stack[slot[v]] = v

(* What the node executed last should have left: its value at home, or its *)
(* operands where it reads them.                                           *)
LastIsRight ==
  LET k == graph.kind[last]
  IN CASE k \in NoValue -> TRUE
       [] k \in Sinks   -> machine.regs[Out] = last
       [] OTHER -> IsHome(last)

(* Every node computes its value from its operands, "Input 1 -> RAX, input *)
(* 2 -> operand" for a division (CodeEmitter.cpp).                         *)
CodeIsRight == last # 0 => LastIsRight

HasValue(n) == graph.kind[n] \notin NoValue \cup Sinks

(* The registers the code of n writes, its own aside.                      *)
LoadsInto(n) == {r \in MachineRegisters : Spilled(n, r) # {}}

Takes(n) ==
  LET k == graph.kind[n]
  IN LoadsInto(n)
       \cup (IF HasValue(n) /\ reg[n] = NoReg THEN {"rax"} ELSE {})
       \cup CASE k = "Eq" -> {"rdx"}
              [] k \in {"Div", "Mod"} -> {"rax", "rdx"}
              [] k = "Add" /\ Overlaps(n) -> {"rcx"}
              [] k = "StArg" -> {"rdi"}
              [] k = "Safepoint" -> {"r11"}
              [] OTHER -> {}

Writes(n) == Takes(n) \cup (IF HasValue(n) THEN {reg[n]} ELSE {})

(* The argument register may have been written when n reads it.            *)
ArgumentIsLost(n) ==
  \E v \in Nodes : /\ v < n \/ \E h \in 1 .. n : graph.kind[h] = "Loop"
                   /\ ArgReg(graph.kind[n]) \in Writes(v)

Emitted == Directs \cup {"ConstNull", "Add", "And", "Shl", "Eq", "Div", "Mod"}
             \cup ArgumentLoads \cup LocalLoads

(* n takes for itself a register of a value that is needed after it, or of *)
(* an operand it has yet to read; it expects an operand in a register that *)
(* nothing has put it in; or it emits nothing that keeps its value.        *)
Disturbs(n) ==
  LET k == graph.kind[n]
  IN \/ \E v \in 1 .. n - 1 : end[v] > n /\ reg[v] \in Takes(n) \ {reg[n]}
     \/ \E i \in Operands(n) : reg[In(n, i)] \in LoadsInto(n)
     \/ k \in {"Add", "And", "Shl"} /\ Overlaps(n)
     \/ k \in {"Div", "Mod"} /\ (Source(n, 1) # "rax" \/ Source(n, 2) = "rdx")
     \/ k = "Shl" /\ Source(n, 2) # "rcx"
     \/ k \in ArgumentLoads /\ ArgumentIsLost(n)
     \/ k = "ConstNull" /\ reg[n] = NoReg
     \/ k = "IsInt" /\ reg[n] = NoReg
     \/ HasValue(n) /\ k \notin Emitted \cup {"IsInt"}

(* What holds of it: where the registers the emitter takes for itself are  *)
(* free, every value stays in its register or its slot from its definition *)
(* to its last use, through spills and the iterations of loops, and a      *)
(* local is what was stored in it.                                         *)
UndisturbedCodeIsRight ==
  last # 0 /\ (\A n \in Nodes : ~Disturbs(n)) => LastIsRight
=============================================================================
