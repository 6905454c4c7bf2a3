------------------------------ MODULE SonGraph ------------------------------
(* The sea-of-nodes graph of ir/Graph.cpp and the verifier of ir/Verifier.cpp. *)
(*                                                                             *)
(* A graph is the sequence of its nodes; a NodeId is an index, 0 is invalid.   *)
(* A node keeps its kind, its data inputs, its control and effect input, its   *)
(* flags, its type, the constant of its side data (val), the class id or local *)
(* index of its side data (cls) and whether a FrameState is attached (state).  *)
(* Left out: edge pool, names, profile data, bytecode offsets.                 *)
EXTENDS Integers, Sequences, FiniteSets

NoId == 0

(* Columns of the table of ir/NodeKind.cpp.                                    *)
Conversions ==
  {"ConvI1", "ConvI2", "ConvI4", "ConvI8", "ConvU1", "ConvU2", "ConvU4", "ConvU8",
   "ConvR4", "ConvR8", "ConvI", "ConvU"}
CheckedConversions ==
  {"ConvOvfI1", "ConvOvfI2", "ConvOvfI4", "ConvOvfI8",
   "ConvOvfU1", "ConvOvfU2", "ConvOvfU4", "ConvOvfU8"}
CommutativeKinds == {"Add", "Mul", "And", "Or", "Xor", "Eq", "Ne"}
PureKinds ==
  CommutativeKinds \cup Conversions \cup
  {"ConstInt", "ConstFloat", "ConstBool", "ConstNull", "ConstString", "Sub", "Div",
   "Mod", "Neg", "Not", "Shl", "Shr", "Sar", "Lt", "Gt", "Lte", "Gte", "ToFloat",
   "ToInt", "ToBool", "IsInt", "IsFloat", "IsNull", "Phi", "Copy", "LdNull", "LdStr",
   "LdArg", "LdLoc", "LdArga", "LdLoca", "VectorOp", "VectorExtract"}
LeavingKinds == {"Start", "Return", "TailCall", "Deopt", "Throw", "Rethrow", "Leave",
                 "EndFinally"}
EffectKinds ==
  LeavingKinds \cup CheckedConversions \cup
  {"Allocate", "LoadField", "StoreField", "LoadElement", "StoreElement", "ArrayLength",
   "Call", "CallKnown", "Safepoint", "Box", "Unbox", "UnboxAny", "IsInst", "CastClass",
   "LdFld", "StFld", "LdFlda", "LdElem", "StElem", "LdElemA", "NewArr", "NewObj",
   "CallVirt", "Constrained", "StArg", "StLoc", "MonitorEnter", "MonitorExit",
   "InvokeDynamic", "Materialize"}
Checks == {"CheckInt", "CheckNotNull", "CheckShape", "CheckBounds", "CheckClass"}
ControlKinds ==
  LeavingKinds \cup Checks \cup
  {"Region", "Loop", "If", "IfTrue", "IfFalse", "Switch", "Jump", "Unreachable"}
GuardKinds == Checks \cup CheckedConversions
Kinds == PureKinds \cup EffectKinds \cup ControlKinds \cup {"FrameState"}

KindFlags(kind) ==
  {f \in {"Pure", "Effect", "Control", "Commutative", "IsGuard"} :
     \/ f = "Pure" /\ kind \in PureKinds
     \/ f = "Effect" /\ kind \in EffectKinds
     \/ f = "Control" /\ kind \in ControlKinds
     \/ f = "Commutative" /\ kind \in CommutativeKinds
     \/ f = "IsGuard" /\ kind \in GuardKinds}

Flags == {"Pure", "Effect", "Control", "Commutative", "IsGuard", "IsConst", "IsDead",
          "IsScheduled", "IsCold", "HasTypeNarrowing"}

(* ir/Node.hpp with the side data of ir/Graph.hpp.                             *)
Node ==
  [kind: Kinds, in: Seq(Nat), ctrl: Nat, eff: Nat, flags: SUBSET Flags,
   type: {"Top", "Int", "Float"}, val: Int, cls: Nat, state: BOOLEAN]

(* Graph::create.                                                              *)
NewNode(kind, in, ctrl, eff) ==
  [kind |-> kind, in |-> in, ctrl |-> ctrl, eff |-> eff, flags |-> KindFlags(kind),
   type |-> "Top", val |-> 0, cls |-> 0, state |-> FALSE]

Const(kind, type, v) ==
  [NewNode(kind, <<>>, NoId, NoId) EXCEPT !.flags = @ \cup {"IsConst"}, !.type = type,
                                          !.val = v]
ConstInt(v) == Const("ConstInt", "Int", v)
ConstFloat(v) == Const("ConstFloat", "Float", v)

Ids(g) == 1..Len(g)
Valid(g, id) == id \in Ids(g)
Has(g, id, flag) == flag \in g[id].flags
Dead(g, id) == Has(g, id, "IsDead")
Live(g) == {id \in Ids(g) : ~Dead(g, id)}
DataInputs(g, id) == {g[id].in[k] : k \in DOMAIN g[id].in}

SetFlag(g, ids, flag) ==
  [id \in Ids(g) |-> IF id \in ids THEN [g[id] EXCEPT !.flags = @ \cup {flag}]
                                   ELSE g[id]]
MarkDead(g, id) == SetFlag(g, {id}, "IsDead")

(* Data inputs of live nodes; control and effect inputs keep the old node.      *)
ReplaceAllUses(g, old, new) ==
  [id \in Ids(g) |->
     IF Dead(g, id) THEN g[id]
     ELSE [g[id] EXCEPT !.in = [k \in DOMAIN @ |-> IF @[k] = old THEN new ELSE @[k]]]]

-----------------------------------------------------------------------------
(* verify_graph.  The first three checks look at dead nodes too.               *)
Dangling(g) ==
  {id \in Ids(g) : \/ ~(DataInputs(g, id) \subseteq Ids(g))
                   \/ g[id].ctrl > Len(g)
                   \/ g[id].eff > Len(g)}

BrokenEffectChain(g) ==
  {id \in Ids(g) : \/ /\ Has(g, id, "Effect")
                      /\ g[id].kind \notin {"Start", "Loop"}
                      /\ g[id].eff = NoId
                   \/ /\ Has(g, id, "Pure")
                      /\ ~Has(g, id, "Effect")
                      /\ g[id].eff # NoId}

GuardsWithoutState(g) == {id \in Ids(g) : Has(g, id, "IsGuard") /\ ~g[id].state}

References(g, id) == DataInputs(g, id) \cup ({g[id].ctrl, g[id].eff} \ {NoId})

DeadButReferenced(g) ==
  {id \in Ids(g) \ Live(g) : \E other \in Live(g) \ {id} : id \in References(g, other)}

Verified(g) ==
  /\ Dangling(g) = {}
  /\ BrokenEffectChain(g) = {}
  /\ GuardsWithoutState(g) = {}
  /\ DeadButReferenced(g) = {}

(* count_uses of DeadCodeElimination.cpp, as the test for no use at all.       *)
Unused(g, id) == \A other \in Live(g) \ {id} : id \notin References(g, other)
=============================================================================
