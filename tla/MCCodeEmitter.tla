---------------------------- MODULE MCCodeEmitter ---------------------------
(* Graphs for CodeEmitter, and pools of few registers: the first of the    *)
(* code's list, or two of those that the emitter also uses as scratch.     *)
EXTENDS CodeEmitter

ThreeRegs == <<"rax", "rcx", "rdx">>
MixedRegs == <<"rbx", "rdx", "rcx">>
OneXmm    == <<"xmm0">>

(* The arm between an IfFalse and the IfTrue that follows is left by a     *)
(* Return: what it defines is not available in the other.                  *)
InExit(kind, n) ==
  \E f, t \in DOMAIN kind : kind[f] = "IfFalse" /\ kind[t] = "IfTrue" /\ n \in f .. t - 1

(* The nodes whose value node n may use.                                   *)
Available(kind, n) ==
  {v \in 1 .. n - 1 : /\ kind[v] \notin NoValue \cup Sinks
                      /\ InExit(kind, v) => InExit(kind, n)}

Inputs(kind) ==
  LET lists[n \in 0 .. Len(kind)] ==
        IF n = 0 THEN {<<>>}
        ELSE {Append(l, i) : l \in lists[n - 1], i \in [1 .. Arity(kind[n]) -> Available(kind, n)]}
  IN lists[Len(kind)]

GraphsOf(shapes) ==
  UNION {{[kind |-> k, inputs |-> i] : i \in Inputs(k)} : k \in shapes}

(* Expressions that fit in three registers, and that do not.               *)
Straight == <<"Start", "ConstInt", "ConstInt", "Add", "ConstInt", "StFld", "And", "Return">>
Spilling == <<"Start", "ConstInt", "ConstInt", "ConstInt", "Add", "StFld", "StLoc0", "Return">>

(* Operations with registers of their own, arguments, locals and stores.   *)
Scratching ==
  {<<"Start", "LdArg0", "LdArg3", "Eq", "StArg", "Return">>,
   <<"Start", "LdArg3", "ConstInt", "ConstInt", "Shl", "Return">>,
   <<"Start", "ConstInt", "ConvI8", "Return">>,
   <<"Start", "ConstInt", "ConstInt", "Div", "Return">>,
   <<"Start", "ConstInt", "IsInt", "Safepoint", "Switch", "Region", "ConstInt">>,
   <<"Start", "LdArg0", "ConstNull", "LdElem", "CheckBounds", "StElem", "Return">>,
   <<"Start", "ConstInt", "ConstInt", "ConstInt", "StLoc1", "LdLoc1", "StLoc0", "LdLoc0",
     "StFld", "Return">>}

(* A dividend that is spilled, so that it is loaded into RAX.              *)
Dividing(k) ==
  [kind   |-> <<"Start", "ConstInt", "ConstInt", "ConstInt", "ConstInt", "StLoc0", k,
                "StFld", "Return">>,
   inputs |-> <<<<>>, <<>>, <<>>, <<>>, <<>>, <<3>>, <<5, 2>>, <<4, 7>>, <<7>>>>]

(* The loops of test_regression.cpp; two loops, whose Jumps all go to the  *)
(* inner one.                                                              *)
While  == <<"Start", "ConstInt", "ConstInt", "Loop", "ConstInt", "If",
            "IfFalse", "Return", "IfTrue", "Add", "StLoc0", "Jump">>
Nested == <<"Start", "ConstInt", "Loop", "ConstInt", "Loop", "If",
            "IfFalse", "Neg", "Jump", "IfTrue", "Neg", "StLoc0", "Jump">>

(* An Add with one operand, which the emitter leaves to the interpreter.   *)
Incomplete ==
  [kind   |-> <<"Start", "ConstInt", "Add", "Return">>,
   inputs |-> <<<<>>, <<>>, <<2>>, <<3>>>>]

(* Floats: left to the interpreter.                                        *)
Floats == <<"Start", "ConstFloat", "ConstInt", "ConstFloat", "StFld", "Return">>

SafeGraphs ==
  GraphsOf({Straight, Spilling, While, Nested, Floats} \cup Scratching)
  \cup {Dividing("Div"), Dividing("Mod"), Incomplete}

(* A division of two constants: three registers are all it uses.           *)
DivisionGraphs == GraphsOf({<<"Start", "ConstInt", "ConstInt", "Div", "Return">>})

(* More constants than registers, then two sums.                           *)
SumGraphs ==
  GraphsOf({<<"Start", "ConstInt", "ConstInt", "ConstInt", "ConstInt", "Add", "Add", "Return">>})
=============================================================================
