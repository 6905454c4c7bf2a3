------------------------------- MODULE CilCode -------------------------------
(* Decoded CIL instructions (cil/Opcode.hpp), beside those of JvmCode; a method *)
(* has instructions of one of the two sets.  Locals count from 0 up, arguments  *)
(* from -1 down.  The narrow conversions, and branch forms that differ only in  *)
(* the width of the offset, are left out.                                       *)
EXTENDS JvmCode

LdC(t, n)     == [op |-> "ldc", t |-> t, n |-> n]
LdLoc(l)      == [op |-> "ldloc", n |-> l]
LdArg(a)      == [op |-> "ldloc", n |-> -1 - a]
StLoc(l)      == [op |-> "stloc", n |-> l]
StArg(a)      == [op |-> "starg", n |-> -1 - a]
CilDup        == [op |-> "cil_dup"]
CilPop        == [op |-> "cil_pop"]
CilBinary(kind) == [op |-> "cil_binary", kind |-> kind]
CilUnary(kind)  == [op |-> "cil_unary", kind |-> kind]
ConvTo(to)    == [op |-> "conv_to", to |-> to]
Compare(kind) == [op |-> "compare", kind |-> kind]
Br(target)    == [op |-> "br", d |-> target]
BrIf(cond, target)     == [op |-> "br_if", cond |-> cond, d |-> target]
BrCmp(kind, target)    == [op |-> "br_cmp", kind |-> kind, d |-> target]
Object(kind)  == [op |-> "object", kind |-> kind]
Ret           == [op |-> "ret"]

CilOps == {"ldc", "ldloc", "stloc", "starg", "cil_dup", "cil_pop", "cil_binary", "cil_unary",
           "conv_to", "compare", "br", "br_if", "br_cmp", "object", "ret"}

(* Kinds that the lowerer takes, and those it does not.                         *)
LoweredArithmetic == {"Add", "Sub", "Mul", "Div"}
BitKinds == {"And", "Or", "Xor", "Shl", "Sar", "Shr"}

(* Box, Unbox, UnboxAny, IsInst, CastClass: one operand, one result.            *)
ObjectKinds == {"Box", "Unbox", "UnboxAny", "IsInst", "CastClass"}

(* What the decoder makes.                                                      *)
CilInstructions ==
  [op: {"ldc"}, t: ValueTypes, n: Int] \cup [op: {"ldc"}, t: {"null"}, n: {0}]
  \cup [op: {"ldloc", "stloc", "starg"}, n: Int]
  \cup [op: {"cil_dup", "cil_pop", "ret"}]
  \cup [op: {"cil_binary"}, kind: LoweredArithmetic \cup BitKinds]
  \cup [op: {"cil_unary"}, kind: {"Neg", "Not"}] \cup [op: {"conv_to"}, to: ValueTypes]
  \cup [op: {"compare"}, kind: {"Eq", "Lt", "Gt"}] \cup [op: {"br"}, d: Nat]
  \cup [op: {"br_if"}, cond: BOOLEAN, d: Nat] \cup [op: {"object"}, kind: ObjectKinds]
  \cup [op: {"br_cmp"}, kind: {"Eq", "Ne", "Lt", "Gt", "Lte", "Gte"}, d: Nat]
==============================================================================
