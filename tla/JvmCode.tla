------------------------------- MODULE JvmCode -------------------------------
(* The method that granit runs and the lowerer compiles: decoded instructions   *)
(* of jvm/Opcode.hpp.  Opcodes that differ only in the operand they carry share *)
(* a name; a pc is an index of the sequence, from 0, and branch targets are     *)
(* indices too.  The sizes of byte and short conversions, constant pool         *)
(* entries, wide forms and division of floats are left out.                     *)
EXTENDS Integers, Sequences

VARIABLE method

PushConst(t, n) == [op |-> "const", t |-> t, n |-> n]
Load(l)         == [op |-> "load", n |-> l]
Store(l)        == [op |-> "store", n |-> l]
Iinc(l, d)      == [op |-> "iinc", n |-> l, d |-> d]
Stack(what)     == [op |-> "stack", what |-> what]
Binary(t, kind) == [op |-> "binary", t |-> t, kind |-> kind]
Neg(t)          == [op |-> "neg", t |-> t]
Conv(from, to)  == [op |-> "conv", t |-> from, to |-> to]
Cmp(t)          == [op |-> "cmp", t |-> t]
Goto(target)    == [op |-> "goto", d |-> target]
Return          == [op |-> "return"]
ReturnValue     == [op |-> "treturn"]
Switch          == [op |-> "switch"]

(* if<cond> (against "zero"), if_icmp<cond> ("value"), ifnull and ifnonnull      *)
(* ("null"), if_acmp<cond> ("ref").                                              *)
If(against, cond, target) ==
  [op |-> "if", against |-> against, cond |-> cond, d |-> target]

(* Fields, arrays, calls, allocations, casts, athrow and monitors: the node     *)
(* the lowerer makes, the operands it pops, and whether a value is pushed.      *)
Effect(kind, pops, pushes) ==
  [op |-> "effect", kind |-> kind, pops |-> pops, pushes |-> pushes]

StackOps == {"pop", "pop2", "dup", "dup_x1", "dup_x2", "dup2", "swap"}

ValueTypes == {"int", "long", "float"}
IntKinds == {"Add", "Sub", "Mul", "Div", "Mod", "And", "Or", "Xor", "Shl", "Sar", "Shr"}
Comparisons == {"eq", "ne", "lt", "ge", "gt", "le"}
EffectOps ==
  {"LdElem", "StElem", "LdFld", "StFld", "CallVirt", "InvokeDynamic", "NewObj", "NewArr",
   "ArrayLength", "CastClass", "IsInst", "Throw", "MonitorEnter", "MonitorExit"}

(* What the decoder makes.                                                      *)
JvmInstructions ==
  [op: {"const"}, t: ValueTypes, n: Int] \cup [op: {"const"}, t: {"null"}, n: {0}]
  \cup [op: {"load", "store"}, n: Nat] \cup [op: {"iinc"}, n: Nat, d: Int]
  \cup [op: {"stack"}, what: StackOps] \cup [op: {"binary"}, t: ValueTypes, kind: IntKinds]
  \cup [op: {"neg", "cmp"}, t: ValueTypes] \cup [op: {"conv"}, t: ValueTypes, to: ValueTypes]
  \cup [op: {"goto"}, d: Nat] \cup [op: {"return", "treturn", "switch"}]
  \cup [op: {"if"}, against: {"zero", "value", "null", "ref"}, cond: Comparisons, d: Nat]
  \cup [op: {"effect"}, kind: EffectOps, pops: Nat, pushes: BOOLEAN]

(* What must be on the stack for a stack operation, and the stack after it.     *)
Needs(what) == CASE what \in {"pop", "pop2", "dup"} -> 1
                 [] what \in {"dup_x1", "dup2", "swap"} -> 2
                 [] what = "dup_x2" -> 3
==============================================================================
