----------------------------- MODULE JvmLowerer ------------------------------
(* jvm/Lowerer.cpp: JvmLowerer::lower, bytecode to graph, one pass over the     *)
(* method.  A local is the node that holds its value; branches end nothing.     *)
EXTENDS JvmCode, SonGraph, SequencesExt

VARIABLES
  graph,   \* g_
  lower    \* pc, eval_stack_, locals_, current_ctrl_, current_effect_ and status

lowerVars == <<graph, lower>>

(* Start, then a Phi for each local and each argument.  The slots of a method   *)
(* are its locals from 0 up and, in CIL, its arguments from -1 down.            *)
SlotNode(locals, l) == IF l >= 0 THEN l + 2 ELSE locals + 1 - l

LowerInit(locals, args) ==
  /\ graph = <<NewNode("Start", <<>>, NoId, NoId)>>
             \o [k \in 1..locals + args |-> NewNode("Phi", <<>>, NoId, NoId)]
  /\ lower = [pc |-> 0, stack |-> <<>>,
              locals |-> [l \in -args..locals - 1 |-> SlotNode(locals, l)],
              ctrl |-> 1, eff |-> 1, status |-> "lowering"]

Op == method[lower.pc + 1]
Lowering(op) == lower.status = "lowering" /\ lower.pc < Len(method) /\ Op.op = op

(* Exceptions of pop, peek and locals_.at, and opcodes not supported.           *)
Fail == lower' = [lower EXCEPT !.status = "failed"] /\ UNCHANGED graph

Depth == Len(lower.stack)
Nth(k) == lower.stack[Depth - k]           \* peek(k)
Under(k) == SubSeq(lower.stack, 1, Depth - k)
Operands(k) == SubSeq(lower.stack, Depth - k + 1, Depth)
KnownLocal(l) == l \in DOMAIN lower.locals

(* The nodes are appended, the stack is replaced, on with the next instruction. *)
Emit(nodes, stack) ==
  /\ graph' = graph \o nodes
  /\ lower' = [lower EXCEPT !.pc = @ + 1, !.stack = stack]

NextId == Len(graph) + 1
PureNode(kind, in) == NewNode(kind, in, NoId, NoId)

LowerConst ==
  /\ Lowering("const")
  /\ Emit(<<CASE Op.t = "null" -> PureNode("LdNull", <<>>)
              [] Op.t = "float" -> ConstFloat(Op.n)
              [] OTHER -> ConstInt(Op.n)>>,
          Append(lower.stack, NextId))

LowerLoad ==
  /\ Lowering("load")
  /\ IF KnownLocal(Op.n) THEN Emit(<<>>, Append(lower.stack, lower.locals[Op.n]))
                         ELSE Fail

(* Mutant of LowerStore: the value is peeked, not popped.                       *)
LowerStorePeek ==
  /\ Lowering("store")
  /\ IF KnownLocal(Op.n) /\ Depth > 0
       THEN /\ lower' = [lower EXCEPT !.pc = @ + 1, !.locals[Op.n] = Nth(0)]
            /\ UNCHANGED graph
       ELSE Fail

LowerStore ==
  /\ Lowering("store")
  /\ IF KnownLocal(Op.n) /\ Depth > 0
       THEN /\ lower' = [lower EXCEPT !.pc = @ + 1, !.stack = Under(1),
                                      !.locals[Op.n] = Nth(0)]
            /\ UNCHANGED graph
       ELSE Fail

LowerIinc ==
  /\ Lowering("iinc")
  /\ IF KnownLocal(Op.n)
       THEN /\ graph' = graph \o <<ConstInt(Op.d),
                                   PureNode("Add", <<lower.locals[Op.n], NextId>>)>>
            /\ lower' = [lower EXCEPT !.pc = @ + 1, !.locals[Op.n] = NextId + 1]
       ELSE Fail

Shuffled(what) ==
  CASE what = "pop" -> Under(1)
    [] what = "pop2" -> IF Depth > 1 THEN Under(2) ELSE Under(1)
    [] what = "dup" -> Append(lower.stack, Nth(0))
    [] what = "dup_x1" -> Under(2) \o <<Nth(0), Nth(1), Nth(0)>>
    [] what = "dup_x2" -> Under(3) \o <<Nth(0), Nth(2), Nth(1), Nth(0)>>
    [] what = "dup2" -> lower.stack \o <<Nth(1), Nth(0)>>
    [] what = "swap" -> Under(2) \o <<Nth(0), Nth(1)>>

LowerStackOp ==
  /\ Lowering("stack")
  /\ IF Depth >= Needs(Op.what) THEN Emit(<<>>, Shuffled(Op.what)) ELSE Fail

(* Operations on values: the same node whatever the type of the operands; a     *)
(* comparison becomes Lt.                                                       *)
PureKind ==
  CASE Op.op = "binary" -> Op.kind
    [] Op.op = "neg" -> "Neg"
    [] Op.op = "cmp" -> "Lt"
    [] Op.op = "conv" -> CASE Op.to = "int" -> "ConvI4" [] Op.to = "long" -> "ConvI8"
                           [] Op.to = "float" -> "ConvR8"

LowerPure ==
  \E op \in {"binary", "neg", "cmp", "conv"} :
    /\ Lowering(op)
    /\ LET arity == IF op \in {"binary", "cmp"} THEN 2 ELSE 1
       IN  IF Depth >= arity
             THEN Emit(<<PureNode(PureKind, Operands(arity))>>, Append(Under(arity), NextId))
             ELSE Fail

(* Mutant of LowerEffect: the node is not put on the effect chain.              *)
LowerEffectAsPure ==
  /\ Lowering("effect")
  /\ IF Depth < Op.pops THEN Fail
     ELSE /\ graph' = Append(graph, NewNode(Op.kind, Operands(Op.pops), NoId, NoId))
          /\ lower' = [lower EXCEPT !.pc = @ + 1,
                                    !.stack = IF Op.pushes THEN Append(Under(Op.pops), NextId)
                                                           ELSE Under(Op.pops)]

(* make_effectful.                                                              *)
LowerEffect ==
  /\ Lowering("effect")
  /\ IF Depth < Op.pops THEN Fail
     ELSE /\ graph' = Append(graph, NewNode(Op.kind, Operands(Op.pops), lower.ctrl, lower.eff))
          /\ lower' = [lower EXCEPT !.pc = @ + 1, !.eff = NextId,
                                    !.stack = IF Op.pushes THEN Append(Under(Op.pops), NextId)
                                                           ELSE Under(Op.pops)]

(* The comparison, If, IfTrue and IfFalse; what follows hangs on the If.        *)
CompareKind == CASE Op.cond \in {"eq", "ne"} -> "Eq" [] Op.cond \in {"lt", "ge"} -> "Lt"
                 [] Op.cond \in {"gt", "le"} -> "Gt"

LowerIf ==
  /\ Lowering("if")
  /\ LET two == Op.against = "value"
         pops == IF two THEN 2 ELSE 1
         other == CASE Op.against = "value" -> <<>>
                    [] Op.against = "zero" -> <<ConstInt(0)>>
                    [] OTHER -> <<PureNode("LdNull", <<>>)>>
         cmp == NextId + Len(other)
         in == IF two THEN Operands(2) ELSE <<Nth(0), NextId>>
         kind == IF Op.against \in {"null", "ref"} THEN "Eq" ELSE CompareKind
     IN  IF Depth < pops THEN Fail
         ELSE /\ graph' = graph \o other
                          \o <<PureNode(kind, in),
                               NewNode("If", <<cmp>>, lower.ctrl, NoId),
                               NewNode("IfTrue", <<>>, cmp + 1, NoId),
                               NewNode("IfFalse", <<>>, cmp + 1, NoId)>>
              /\ lower' = [lower EXCEPT !.pc = @ + 1, !.stack = Under(pops),
                                        !.ctrl = cmp + 1]

LowerGoto == Lowering("goto") /\ Emit(<<>>, lower.stack)

ReturnOf(v) == NewNode("Return", <<v>>, lower.ctrl, lower.eff)
ReturnNull == <<PureNode("LdNull", <<>>), ReturnOf(NextId)>>

LowerReturn ==
  \/ Lowering("return") /\ Emit(ReturnNull, lower.stack)
  \/ Lowering("treturn") /\ IF Depth > 0 THEN Emit(<<ReturnOf(Nth(0))>>, Under(1)) ELSE Fail

LowerSwitch == Lowering("switch") /\ Fail

(* The implicit return, then verify_graph, in every build.                      *)
LowerEnd ==
  /\ lower.status = "lowering"
  /\ lower.pc = Len(method)
  /\ graph' = graph \o (IF Depth > 0 THEN <<ReturnOf(Nth(0))>> ELSE ReturnNull)
  /\ lower' = [lower EXCEPT !.stack = IF Depth > 0 THEN Under(1) ELSE @,
                            !.status = IF Verified(graph') THEN "lowered" ELSE "failed"]

LowerNext ==
  \/ LowerConst \/ LowerLoad \/ LowerStore \/ LowerIinc \/ LowerStackOp \/ LowerPure
  \/ LowerEffect \/ LowerIf \/ LowerGoto \/ LowerReturn \/ LowerSwitch \/ LowerEnd
=============================================================================
