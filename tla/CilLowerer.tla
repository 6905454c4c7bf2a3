----------------------------- MODULE CilLowerer ------------------------------
(* cil/Lowerer.cpp: CilLowerer::lower.  Like the Java lowerer one pass from the *)
(* first instruction to the last, a local or an argument being the node that    *)
(* holds its value; the two share the end of the method and its verification.   *)
EXTENDS JvmLowerer, CilCode

LowerLdC ==
  /\ Lowering("ldc")
  /\ CASE Op.t = "null" -> Emit(<<PureNode("LdNull", <<>>)>>, Append(lower.stack, NextId))
       [] Op.t \in {"int", "long"} -> Emit(<<ConstInt(Op.n)>>, Append(lower.stack, NextId))
       [] OTHER -> Fail

LowerLdLoc ==
  /\ Lowering("ldloc")
  /\ IF KnownLocal(Op.n) THEN Emit(<<>>, Append(lower.stack, lower.locals[Op.n])) ELSE Fail

LowerStLoc ==
  /\ Lowering("stloc")
  /\ IF KnownLocal(Op.n) /\ Depth > 0
       THEN /\ lower' = [lower EXCEPT !.pc = @ + 1, !.stack = Under(1),
                                      !.locals[Op.n] = Nth(0)]
            /\ UNCHANGED graph
       ELSE Fail

LowerCilStack ==
  \/ Lowering("cil_dup") /\ IF Depth > 0 THEN Emit(<<>>, Append(lower.stack, Nth(0))) ELSE Fail
  \/ Lowering("cil_pop") /\ IF Depth > 0 THEN Emit(<<>>, Under(1)) ELSE Fail

(* A pure node over the topmost operands, or the exception of pop.              *)
EmitPure(kind, arity) ==
  IF Depth >= arity
    THEN Emit(<<PureNode(kind, Operands(arity))>>, Append(Under(arity), NextId))
    ELSE Fail

LowerCilPure ==
  \/ Lowering("cil_binary") /\ Op.kind \in LoweredArithmetic /\ EmitPure(Op.kind, 2)
  \/ Lowering("compare") /\ EmitPure(Op.kind, 2)
  \/ /\ Lowering("conv_to")
     /\ EmitPure(CASE Op.to = "int" -> "ConvI4" [] Op.to = "long" -> "ConvI8"
                   [] Op.to = "float" -> "ConvR8", 1)

(* make_effectful.                                                              *)
LowerObject ==
  /\ Lowering("object")
  /\ IF Depth = 0 THEN Fail
     ELSE /\ graph' = Append(graph, NewNode(Op.kind, <<Nth(0)>>, lower.ctrl, lower.eff))
          /\ lower' = [lower EXCEPT !.pc = @ + 1, !.eff = NextId,
                                    !.stack = Append(Under(1), NextId)]

(* If, IfTrue and IfFalse on a condition, what follows hanging on the If.       *)
IfOn(cond, if) ==
  <<NewNode("If", <<cond>>, lower.ctrl, NoId), NewNode("IfTrue", <<>>, if, NoId),
    NewNode("IfFalse", <<>>, if, NoId)>>

LowerBr == Lowering("br") /\ Emit(<<>>, lower.stack)

(* brfalse too branches on the condition as it is.                              *)
LowerBrIf ==
  /\ Lowering("br_if")
  /\ IF Depth = 0 THEN Fail
     ELSE /\ graph' = graph \o IfOn(Nth(0), NextId)
          /\ lower' = [lower EXCEPT !.pc = @ + 1, !.stack = Under(1), !.ctrl = NextId]

LowerBrCmp ==
  /\ Lowering("br_cmp")
  /\ IF Depth < 2 THEN Fail
     ELSE /\ graph' = graph \o <<PureNode(Op.kind, Operands(2))>> \o IfOn(NextId, NextId + 1)
          /\ lower' = [lower EXCEPT !.pc = @ + 1, !.stack = Under(2), !.ctrl = NextId + 1]

LowerRet ==
  /\ Lowering("ret")
  /\ IF Depth > 0 THEN Emit(<<ReturnOf(Nth(0))>>, Under(1)) ELSE Emit(ReturnNull, lower.stack)

(* default: starg, bit operations, neg and not are not supported.               *)
LowerUnsupported ==
  /\ \/ Lowering("starg") \/ Lowering("cil_unary")
     \/ Lowering("cil_binary") /\ Op.kind \notin LoweredArithmetic
  /\ Fail

CilLowerNext ==
  \/ LowerLdC \/ LowerLdLoc \/ LowerStLoc \/ LowerCilStack \/ LowerCilPure \/ LowerObject
  \/ LowerBr \/ LowerBrIf \/ LowerBrCmp \/ LowerRet \/ LowerUnsupported
==============================================================================
