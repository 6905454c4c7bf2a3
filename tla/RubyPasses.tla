----------------------------- MODULE RubyPasses ------------------------------
(* The passes of the RUBY tier, ir/passes/*.cpp, in the order of                *)
(* PassPipeline.cpp.  A pass is an operator from graphs to graphs.              *)
EXTENDS SonMachine

(* The folded value is put beside the node, which keeps its kind.               *)
Mark(n, v) == [n EXCEPT !.flags = @ \cup {"IsConst"}, !.val = v]
MarkInt(n, v) == [Mark(n, v) EXCEPT !.type = "Int"]

OfKind(g, kinds) == {id \in Live(g) : g[id].kind \in kinds}
Pure(g) == {id \in Live(g) : Has(g, id, "Pure")}
Ascending(g) == [id \in Ids(g) |-> id]

-----------------------------------------------------------------------------
(* AlgebraicSimplification.  A node without the type Int is only marked: its    *)
(* val is a placeholder.                                                        *)
IsConstInt(g, id, v) == Valid(g, id) /\ g[id].kind = "ConstInt" /\ g[id].val = v

Simplified(g, n) ==
  LET a == n.in[1]
      b == n.in[2]
      either(v) == IsConstInt(g, a, v) \/ IsConstInt(g, b, v)
  IN  CASE n.kind = "Add" /\ either(0) -> Mark(n, 0)
        [] n.kind \in {"Sub", "Shl", "Shr", "Sar"} /\ IsConstInt(g, b, 0) -> Mark(n, 0)
        [] n.kind = "Mul" /\ either(1) -> Mark(n, 1)
        [] n.kind = "Mul" /\ either(0) /\ ~either(1) -> MarkInt(n, 0)
        [] n.kind = "Div" /\ IsConstInt(g, b, 1) -> Mark(n, 1)
        [] n.kind = "And" /\ either(0) -> MarkInt(n, 0)
        [] n.kind = "And" /\ a = b /\ ~either(0) -> Mark(n, 0)
        [] n.kind = "Or" /\ (either(0) \/ a = b) -> Mark(n, 0)
        [] n.kind = "Xor" /\ either(0) -> Mark(n, 0)
        [] n.kind = "Xor" /\ a = b /\ ~either(0) -> MarkInt(n, 0)
        [] OTHER -> n

AlgebraicSimplification(g) ==
  [id \in Ids(g) |-> IF id \in Pure(g) /\ Len(g[id].in) = 2 THEN Simplified(g, g[id]) ELSE g[id]]

-----------------------------------------------------------------------------
(* SCCP.  The lattice: unknown (TOP), a constant, overdefined (BOTTOM).  Phis   *)
(* are overdefined, so the values follow from those of the operands at once.    *)
(* A division by 0 has no value; one that overflows faults in the pass itself   *)
(* (Faults, below), so it has none either.                                      *)
TOP == <<"top">>
BOTTOM == <<"bottom">>
Known(v) == <<"const", v>>

(* Mutant of EvalBinary: the operands swapped.                                  *)
EvalSwapped(kind, x, y) ==
  IF x = TOP \/ y = TOP THEN TOP
  ELSE IF x = BOTTOM \/ y = BOTTOM THEN BOTTOM
  ELSE IF Traps(kind, y[2], x[2]) THEN TOP
  ELSE Known(Arith(kind, y[2], x[2]))

EvalBinary(kind, x, y) ==
  IF x = TOP \/ y = TOP THEN TOP
  ELSE IF x = BOTTOM \/ y = BOTTOM THEN BOTTOM
  ELSE IF Traps(kind, x[2], y[2]) THEN TOP
  ELSE Known(Arith(kind, x[2], y[2]))

Lattice(g) ==
  LET value[id \in Ids(g)] ==
        LET n == g[id]
            operand(k) == IF Valid(g, n.in[k]) THEN value[n.in[k]] ELSE TOP
        IN  CASE Dead(g, id) -> TOP
              [] n.kind = "ConstInt" /\ ~Dead(g, id) -> Known(n.val)
              [] n.kind \in BinaryKinds /\ Len(n.in) = 2 /\ ~Dead(g, id) ->
                   EvalBinary(n.kind, operand(1), operand(2))
              [] OTHER -> BOTTOM
  IN  value

SCCP(g) ==
  LET value == Lattice(g)
      found == {id \in Pure(g) : value[id][1] = "const" /\ ~Has(g, id, "IsConst")}
  IN  [id \in Ids(g) |-> IF id \in found THEN MarkInt(g[id], value[id][2]) ELSE g[id]]

-----------------------------------------------------------------------------
(* ConstantFolding, dead nodes included; folded operands are operands.          *)
IsInt(n) == n.kind = "ConstInt" \/ ("IsConst" \in n.flags /\ n.type = "Int")

TryFoldBinary(n, a, b) ==
  IF /\ n.kind \in {"Add", "Sub", "Mul", "Div", "Mod"}
     /\ IsInt(a) /\ IsInt(b)
     /\ "IsConst" \notin n.flags
     /\ ~Traps(n.kind, a.val, b.val)
    THEN MarkInt(n, Arith(n.kind, a.val, b.val)) ELSE n

FoldNode(g, folded, id) ==
  LET in == g[id].in
  IN  IF Len(in) = 2 /\ g[id].kind \in BinaryKinds
        THEN TryFoldBinary(g[id], folded[in[1]], folded[in[2]]) ELSE g[id]

ConstantFolding(g) ==
  LET folded[id \in Ids(g)] == FoldNode(g, folded, id)
  IN  [id \in Ids(g) |-> FoldNode(g, folded, id)]

-----------------------------------------------------------------------------
(* CSE and GVN.  The signature of a node has the value of a ConstInt, and of no *)
(* other constant, and neither the local nor the class of the side data.        *)
MinMax(in) == IF Len(in) = 2 /\ in[2] < in[1] THEN <<in[2], in[1]>> ELSE in

(* Mutant of Signature: the inputs of every node sorted.                        *)
SortedSignature(g, id) ==
  LET n == g[id]
  IN  [kind |-> n.kind, in |-> MinMax(n.in),
       val |-> IF n.kind = "ConstInt" /\ "IsConst" \in n.flags THEN n.val ELSE 0]

Signature(g, id) ==
  LET n == g[id]
  IN  [kind |-> n.kind,
       in |-> IF "Commutative" \in n.flags THEN MinMax(n.in) ELSE n.in,
       val |-> IF n.kind = "ConstInt" /\ "IsConst" \in n.flags THEN n.val ELSE 0]

(* Below, s.table has the signatures seen and the node that stays for each.     *)

(* Mutant of Deduplicate: the later of two equal nodes stays.                   *)
KeepLater(s, id) ==
  LET sig == Signature(s.g, id)
      same == {e \in s.table : e.sig = sig}
      table == (s.table \ same) \cup {[sig |-> sig, id |-> id]}
      old == (CHOOSE e \in same : TRUE).id
  IN  [g |-> IF same = {} THEN s.g ELSE MarkDead(ReplaceAllUses(s.g, old, id), old),
       table |-> table]

Deduplicate(s, id) ==
  LET sig == Signature(s.g, id)
      same == {e \in s.table : e.sig = sig}
  IN  IF same = {} THEN [s EXCEPT !.table = @ \cup {[sig |-> sig, id |-> id]}]
      ELSE [s EXCEPT !.g = MarkDead(ReplaceAllUses(@, id, (CHOOSE e \in same : TRUE).id), id)]

NoTable(g) == [g |-> g, table |-> {}]

GVN(g) ==
  FoldLeft(LAMBDA s, id : IF id \in Pure(s.g) THEN Deduplicate(s, id) ELSE s,
           NoTable(g), Ascending(g)).g

(* An effect empties the table.                                                 *)
CSE(g) ==
  FoldLeft(LAMBDA s, id :
             IF Dead(s.g, id) THEN s
             ELSE IF Has(s.g, id, "Effect") THEN [s EXCEPT !.table = {}]
             ELSE IF Has(s.g, id, "Pure") THEN Deduplicate(s, id) ELSE s,
           NoTable(g), Ascending(g)).g

-----------------------------------------------------------------------------
(* ControlFlowSimplification: the If goes, its projections stay.                *)
Conditions(g, id) == {c \in DataInputs(g, id) : Valid(g, c) /\ Has(g, c, "IsConst")}

ControlFlowSimplification(g) ==
  SetFlag(g, {id \in OfKind(g, {"If"}) : Len(g[id].in) = 1 /\ Conditions(g, id) # {}},
          "IsDead")

TypeNarrowing(g) == SetFlag(g, OfKind(g, {"CheckInt"}), "HasTypeNarrowing")

-----------------------------------------------------------------------------
(* LICM.  Every block from the header on counts as in the loop.                 *)
Hoistable(g, id) == Has(g, id, "Pure") /\ ~Has(g, id, "Effect") /\ ~Has(g, id, "Control")
                    /\ g[id].kind # "Phi"

Invariant(g, bs, id, header) ==
  /\ BlockOf(g, bs, id) # 0
  /\ \A in \in DataInputs(g, id) : Valid(g, in) => BlockOf(g, bs, in) < header

LICM(g) ==
  LET bs == BlockStructure(g)
      headers == {b \in Blocks(bs) : IsLoopHeader(g, bs, b)}
  IN  SetFlag(g, {id \in Live(g) : Hoistable(g, id)
                    /\ \E h \in headers : h <= BlockOf(g, bs, id) /\ Invariant(g, bs, id, h)},
              "IsScheduled")

(* LoopPeeling: the leaders of loops of fewer than 20 nodes, counted up to the  *)
(* first block that jumps back.                                                 *)
PeelLimit == 20

LoopNodes(g, bs, h) ==
  LET back == {b \in Blocks(bs) : h <= b /\ h \in SuccSet(g, bs, b)}
      end == CHOOSE b \in back : \A other \in back : b <= other
  IN  {id \in Live(g) : BlockOf(g, bs, id) \in h..end}

LoopPeeling(g) ==
  LET bs == BlockStructure(g)
      small == {h \in Blocks(bs) : IsLoopHeader(g, bs, h)
                                   /\ Cardinality(LoopNodes(g, bs, h)) < PeelLimit}
  IN  SetFlag(g, {bs[h + 1] : h \in small}, "IsScheduled")

-----------------------------------------------------------------------------
(* BCE: constant bounds, and an induction variable from 0 by 1 under a positive *)
(* constant length.                                                             *)
ConstIntOf(g, id) == Valid(g, id) /\ g[id].kind = "ConstInt" /\ Has(g, id, "IsConst")

CountsFromZero(g, id) ==
  /\ Valid(g, id) /\ g[id].kind = "Phi" /\ Len(g[id].in) >= 2
  /\ ConstIntOf(g, g[id].in[1]) /\ g[g[id].in[1]].val = 0
  /\ LET next == g[id].in[2]
     IN  /\ Valid(g, next) /\ g[next].kind = "Add" /\ Len(g[next].in) = 2
         /\ \E k \in {1, 2} : /\ g[next].in[k] = id
                              /\ ConstIntOf(g, g[next].in[3 - k])
                              /\ g[g[next].in[3 - k]].val = 1

InBounds(g, idx, len) ==
  /\ ConstIntOf(g, len)
  /\ \/ ConstIntOf(g, idx) /\ 0 <= g[idx].val /\ g[idx].val < g[len].val
     \/ CountsFromZero(g, idx) /\ 0 < g[len].val

BCE(g) ==
  SetFlag(g, {id \in OfKind(g, {"CheckBounds"}) :
                Len(g[id].in) = 2 /\ InBounds(g, g[id].in[1], g[id].in[2])}, "IsDead")

(* NCE.                                                                        *)
NonNullKinds == {"NewObj", "NewArr", "Allocate", "Box", "CheckNotNull", "LdStr"}

NCE(g) ==
  SetFlag(g, {id \in OfKind(g, {"CheckNotNull"}) :
                g[id].in # <<>> /\ Valid(g, g[id].in[1])
                /\ g[g[id].in[1]].kind \in NonNullKinds}, "IsDead")

(* EscapeAnalysis: allocations no live node has as a data input, one after the  *)
(* other; the effect chain does not count.  The escaping set is not used.       *)
AllocationKinds == {"Allocate", "NewObj", "NewArr", "Box"}

EscapeAnalysis(g) ==
  FoldLeft(LAMBDA h, id :
             IF \E other \in Live(h) \ {id} : id \in DataInputs(h, other) THEN h
             ELSE MarkDead(h, id),
           g, InOrder(OfKind(g, AllocationKinds), Len(g)))

(* Inlining looks at CallKnown nodes and changes nothing.                       *)
Inlining(g) == g

(* TailCallElimination: a call whose value and effect go straight to a Return   *)
(* changes its kind, and keeps its flags.                                       *)
TailCalls(g) ==
  {id \in Ids(g) : g[id].kind \in {"Call", "CallVirt", "CallKnown"}
                   /\ \E ret \in OfKind(g, {"Return"}) : g[ret].in = <<id>> /\ g[ret].eff = id}

TailCallElimination(g) ==
  [id \in Ids(g) |-> IF id \in TailCalls(g) THEN [g[id] EXCEPT !.kind = "TailCall"] ELSE g[id]]

(* ICStubEmission: a class check for the receiver before every virtual call.    *)
ICStubEmission(g) ==
  FoldLeft(LAMBDA h, id :
             LET check == NewNode("CheckClass", <<h[id].in[1]>>, h[id].ctrl, h[id].eff)
             IN  [Append(h, check) EXCEPT ![id].eff = Len(h) + 1],
           g, InOrder({id \in OfKind(g, {"CallVirt"}) :
                         g[id].in # <<>> /\ Valid(g, g[id].in[1])}, Len(g)))

-----------------------------------------------------------------------------
(* DeadCodeElimination.                                                         *)
HasExternalSideEffects ==
  {"Call", "CallVirt", "CallKnown", "TailCall", "InvokeDynamic", "Return", "Throw",
   "Rethrow", "Leave", "EndFinally", "MonitorEnter", "MonitorExit", "Safepoint", "Deopt",
   "Unreachable"}

(* Mutant of Removable: nodes only the effect chain uses go too.                *)
RemovableByData(g) ==
  {id \in Live(g) : ~Has(g, id, "Control") /\ g[id].kind \notin HasExternalSideEffects
                    /\ \A other \in Live(g) \ {id} : id \notin DataInputs(g, other)}

Removable(g) ==
  {id \in Live(g) : ~Has(g, id, "Control") /\ g[id].kind \notin HasExternalSideEffects
                    /\ Unused(g, id)}

(* Mutant of DeadCodeElimination: one round.                                    *)
OneRound(g) == SetFlag(g, Removable(g), "IsDead")

DeadCodeElimination(g) ==
  FoldLeft(LAMBDA h, round : IF Removable(h) = {} THEN h ELSE SetFlag(h, Removable(h), "IsDead"),
           g, Ascending(g))

-----------------------------------------------------------------------------
(* Peephole: the shift count is put in the side data of the multiplication.     *)
Log2(v) == CHOOSE k \in 0..LongBits : 2 ^ k = v
IsPowerOfTwo(v) == \E k \in 0..LongBits : 2 ^ k = v

ShiftsInstead(g, id) ==
  /\ id \in OfKind(g, {"Mul"}) /\ Len(g[id].in) = 2
  /\ Valid(g, g[id].in[2]) /\ g[g[id].in[2]].kind = "ConstInt"
  /\ IsPowerOfTwo(g[g[id].in[2]].val)

Peephole(g) ==
  [id \in Ids(g) |->
     IF ShiftsInstead(g, id) THEN Mark(g[id], Log2(g[g[id].in[2]].val)) ELSE g[id]]

(* GCM: nodes before their operands' block, hoisted nodes, and nodes after      *)
(* their first user's block.                                                    *)
BlocksOf(g, bs, ids) == {BlockOf(g, bs, id) : id \in {x \in ids : Valid(g, x)}}

EarliestBlock(g, bs, id) == MaxOf({0} \cup BlocksOf(g, bs, DataInputs(g, id)))

LatestBlock(g, bs, id) ==
  LET users == {other \in Live(g) : id \in DataInputs(g, other)}
      blocks == BlocksOf(g, bs, users)
  IN  IF users = {} THEN EarliestBlock(g, bs, id)
      ELSE CHOOSE b \in blocks : \A other \in blocks : b <= other

GCM(g) ==
  LET bs == BlockStructure(g)
      placed == {id \in Pure(g) : BlockOf(g, bs, id) # 0}
      early == {id \in placed : BlockOf(g, bs, id) < EarliestBlock(g, bs, id)}
      hoisted == {id \in Live(g) : Has(g, id, "IsScheduled")}
      late == {id \in placed : ~Has(g, id, "IsConst") /\ ~Has(g, id, "Control")
                               /\ ~Has(g, id, "Effect")
                               /\ BlockOf(g, bs, id) > LatestBlock(g, bs, id)}
  IN  SetFlag(g, early \cup hoisted \cup late, "IsCold")

(* ProfileGuidedBlockReorder: the leaders of blocks that leave by exception.    *)
ColdKinds == {"Throw", "Rethrow", "Deopt", "Unreachable"}

ProfileGuidedBlockReorder(g) ==
  LET bs == BlockStructure(g)
  IN  SetFlag(g, {bs[BlockOf(g, bs, id) + 1] : id \in OfKind(g, ColdKinds)}, "IsCold")

-----------------------------------------------------------------------------
(* build_ruby_pipeline.                                                        *)
RubyPipeline ==
  <<"AlgebraicSimplification", "SCCP", "ConstantFolding", "CSE", "GVN",
    "ControlFlowSimplification", "TypeNarrowing", "LICM", "LoopPeeling", "BCE", "NCE",
    "EscapeAnalysis", "Inlining", "TailCallElimination", "ICStubEmission",
    "DeadCodeElimination", "Peephole", "GCM", "ProfileGuidedBlockReorder">>

Run(pass, g) ==
  CASE pass = "AlgebraicSimplification" -> AlgebraicSimplification(g)
    [] pass = "SCCP" -> SCCP(g)
    [] pass = "ConstantFolding" -> ConstantFolding(g)
    [] pass = "CSE" -> CSE(g)
    [] pass = "GVN" -> GVN(g)
    [] pass = "ControlFlowSimplification" -> ControlFlowSimplification(g)
    [] pass = "TypeNarrowing" -> TypeNarrowing(g)
    [] pass = "LICM" -> LICM(g)
    [] pass = "LoopPeeling" -> LoopPeeling(g)
    [] pass = "BCE" -> BCE(g)
    [] pass = "NCE" -> NCE(g)
    [] pass = "EscapeAnalysis" -> EscapeAnalysis(g)
    [] pass = "Inlining" -> Inlining(g)
    [] pass = "TailCallElimination" -> TailCallElimination(g)
    [] pass = "ICStubEmission" -> ICStubEmission(g)
    [] pass = "DeadCodeElimination" -> DeadCodeElimination(g)
    [] pass = "Peephole" -> Peephole(g)
    [] pass = "GCM" -> GCM(g)
    [] pass = "ProfileGuidedBlockReorder" -> ProfileGuidedBlockReorder(g)

(* The passes divide as the emitted code does, by an idiv of the compiler: the  *)
(* least value by -1 ends the process.  SCCP divides what it knows of the       *)
(* operands of live nodes, ConstantFolding what is or becomes an integer.       *)
Divisions(g) == {id \in Ids(g) : g[id].kind \in {"Div", "Mod"} /\ Len(g[id].in) = 2}

DividesKnown(g, id) ==
  LET operand(k) == Lattice(g)[g[id].in[k]]
  IN  /\ \A k \in {1, 2} : Valid(g, g[id].in[k]) /\ operand(k)[1] = "const"
      /\ Overflows(operand(1)[2], operand(2)[2])

DividesFolded(g, id) ==
  LET operand(k) == ConstantFolding(g)[g[id].in[k]]
  IN  /\ ~Has(g, id, "IsConst") /\ IsInt(operand(1)) /\ IsInt(operand(2))
      /\ Overflows(operand(1).val, operand(2).val)

Faults(pass, g) ==
  \/ pass = "SCCP" /\ \E id \in Divisions(g) \cap Live(g) : DividesKnown(g, id)
  \/ pass = "ConstantFolding" /\ \E id \in Divisions(g) : DividesFolded(g, id)

(* verify_if_enabled: a pass that changed the graph verifies it in a debug      *)
(* build.  ConstantFolding always does, DeadCodeElimination never: its loop     *)
(* ends with changed = false.                                                   *)
Verifies(pass, g, h) ==
  pass = "ConstantFolding" \/ (g # h /\ pass # "DeadCodeElimination")
==============================================================================
