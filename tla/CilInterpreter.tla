--------------------------- MODULE CilInterpreter ----------------------------
(* tier0_granit/CilInterpreter.cpp: the loop of CilInterpreter::run, on the     *)
(* frame of JvmInterpreter (CilFrame has the same stack and error flag, and     *)
(* kMaxEvalStack is kMaxJvmStack).  Here the tags of the operands choose the    *)
(* operation, and comparisons go through double.                                *)
EXTENDS CilCode, JvmInterpreter

CONSTANT DoubleBits   \* significant bits of a double, 53 in the code

ASSUME DoubleAssumption == DoubleBits \in Nat \ {0}

(* The nearest double, ties to even.                                            *)
Rounded(v) ==
  LET fits(k) == AbsOf(v) < 2 ^ (DoubleBits + k)
      step == 2 ^ (CHOOSE k \in 0..LongBits : fits(k) /\ (k = 0 \/ ~fits(k - 1)))
      down == AbsOf(v) \div step
      rest == AbsOf(v) % step
      up == 2 * rest > step \/ (2 * rest = step /\ down % 2 = 1)
  IN  SignOf(v) * step * (IF up THEN down + 1 ELSE down)

Number(x) == x.t \in {"int", "long", "float"}
Integer(x) == x.t \in {"int", "long"}
AsDouble(x) == CASE Integer(x) -> Rounded(x.v) [] x.t = "float" -> x.v [] OTHER -> 0

Truthy(x) == Number(x) /\ x.v # 0

Operand1 == Top(Pop(frame))
Operand2 == Top(frame)
BothPopped == Pop(Pop(frame))

CilConstant == At("ldc") /\ Break(Push(frame, Value(Instr.t, Instr.n))) /\ UNCHANGED narrow

LoadSlot == At("ldloc") /\ Break(Push(frame, frame.locals[Instr.n])) /\ UNCHANGED narrow

StoreSlot ==
  /\ At("stloc") \/ At("starg")
  /\ Break([Pop(frame) EXCEPT !.locals[Instr.n] = Top(frame)])
  /\ UNCHANGED narrow

CilStack ==
  /\ \/ At("cil_dup") /\ Break(Push(Raise(frame, frame.stack = <<>>), Top(frame)))
     \/ At("cil_pop") /\ Break(Pop(frame))
  /\ UNCHANGED narrow

(* The least value divided by -1 is undefined; the build's idiv traps.          *)
Least(t, a) == a = -(2 ^ ((IF t = "int" THEN IntBits ELSE LongBits) - 1))

(* Same tags, or a float on either side; what a float is worth is left open.    *)
CilArithmetic ==
  /\ At("cil_binary") /\ Instr.kind \in LoweredArithmetic
  /\ LET kind == Instr.kind
         x == Operand1
         y == Operand2
         t == IF x.t = "float" \/ y.t = "float" THEN "float" ELSE x.t
         legal == Number(x) /\ Number(y) /\ (t = "float" \/ x.t = y.t)
         divides == t # "float" /\ kind = "Div" /\ y.v = 0
         wide == IF t = "float" THEN 0 ELSE Arith(kind, x.v, y.v)
         res == IF t = "int" THEN Wrap32(wide) ELSE wide
     IN  CASE ~legal \/ divides -> Break(Push(Raise(BothPopped, TRUE), Uninit)) /\ UNCHANGED narrow
           [] legal /\ t # "float" /\ kind = "Div" /\ y.v = -1 /\ Least(t, x.v) ->
                Give("trapped", Uninit) /\ UNCHANGED <<frame, narrow>>
           [] OTHER -> /\ Break(Push(BothPopped, Value(t, res)))
                       /\ narrow' = (narrow \/ t = "float" \/ Traps(kind, x.v, y.v) \/ res # wide)

(* and, or, xor, shl, shr, shr.un: as_int32 whatever the width of the operands. *)
CilBits ==
  /\ At("cil_binary") /\ Instr.kind \in BitKinds
  /\ LET x == Operand1
         y == Operand2
         res == IntArith(Instr.kind, As("int", x), As("int", y))
     IN  Break(Push(Raise(BothPopped, ~(Integer(x) /\ Integer(y))), Int32(res)))
  /\ UNCHANGED narrow

CilUnaryOperation ==
  /\ At("cil_unary")
  /\ LET x == Operand2
     IN  CASE Instr.kind = "Not" ->
                Break(Push(Raise(Pop(frame), ~Integer(x)), Int32(Wrap32(-1 - As("int", x)))))
           [] Instr.kind = "Neg" /\ Number(x) ->
                Break(Push(Pop(frame), Value(x.t, IF x.t = "int" THEN Wrap32(-x.v) ELSE Wrap64(-x.v))))
           [] OTHER -> Break(Raise(Pop(frame), TRUE))
  /\ UNCHANGED narrow

ConvertTo ==
  /\ At("conv_to")
  /\ LET x == Operand2
         v == IF Instr.to = "float" THEN AsDouble(x) ELSE As(Instr.to, x)
     IN  Break(Push(Raise(Pop(frame), x.t \notin Accepts(Instr.to)), Value(Instr.to, v)))
  /\ UNCHANGED narrow

(* value_equals looks at the tags; the order is the order of doubles.           *)
Related(kind, x, y) ==
  CASE kind = "Eq" -> x = y
    [] kind = "Ne" -> x # y
    [] kind = "Lt" -> AsDouble(x) < AsDouble(y)
    [] kind = "Gt" -> AsDouble(x) > AsDouble(y)
    [] kind = "Lte" -> AsDouble(x) <= AsDouble(y)
    [] kind = "Gte" -> AsDouble(x) >= AsDouble(y)

Misused(kind, x, y) == kind \notin {"Eq", "Ne"} /\ ~(Number(x) /\ Number(y))

(* What 64-bit code would make of the same payloads.                            *)
RelatedBits(kind, x, y) == Truth(Related(kind, x, y)) = Arith(kind, x.v, y.v)

CompareOperands ==
  /\ At("compare")
  /\ Break(Push(Raise(BothPopped, Misused(Instr.kind, Operand1, Operand2)),
                Int32(Truth(Related(Instr.kind, Operand1, Operand2)))))
  /\ narrow' = (narrow \/ ~RelatedBits(Instr.kind, Operand1, Operand2))

(* A taken branch goes on without the check after the switch.                   *)
BranchTo(f, taken) ==
  IF taken THEN frame' = [f EXCEPT !.pc = Instr.d] /\ UNCHANGED outcome ELSE Break(f)

CilBranch ==
  /\ \/ At("br") /\ BranchTo(frame, TRUE)
     \/ At("br_if") /\ BranchTo(Pop(frame), Truthy(Top(frame)) = Instr.cond)
     \/ /\ At("br_cmp")
        /\ BranchTo(Raise(BothPopped, Misused(Instr.kind, Operand1, Operand2)),
                    Related(Instr.kind, Operand1, Operand2))
  /\ UNCHANGED narrow

(* The popped value, uninit when there is none.                                 *)
CilReturn == At("ret") /\ Give("returned", Top(frame)) /\ UNCHANGED <<frame, narrow>>

(* default.                                                                     *)
CilUnsupported == At("object") /\ Give("failed", Uninit) /\ UNCHANGED <<frame, narrow>>

CilNext ==
  \/ CilConstant \/ LoadSlot \/ StoreSlot \/ CilStack \/ CilArithmetic \/ CilBits
  \/ CilUnaryOperation \/ ConvertTo \/ CompareOperands \/ CilBranch \/ CilReturn
  \/ CilUnsupported
==============================================================================
