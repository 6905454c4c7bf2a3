----------------------------- MODULE SonMachine -----------------------------
(* What a graph computes, as the code tier1_jade/CodeEmitter.cpp emits for it   *)
(* would: blocks in reverse post-order, the nodes of a block in id order, and   *)
(* the 64-bit arithmetic of one node.  Registers and slots are left to          *)
(* CodeEmitter.tla: here a node's value is found under its id.                  *)
EXTENDS Regions

CONSTANTS IntBits,    \* width of int, 32 in the code
          LongBits    \* width of long and of a register, 64 in the code

ASSUME WidthAssumption == IntBits \in Nat /\ LongBits \in Nat /\ 0 < IntBits
                          /\ IntBits <= LongBits

Signed(bits, x) == ((x + 2 ^ (bits - 1)) % 2 ^ bits) - 2 ^ (bits - 1)
Unsigned(bits, x) == x % 2 ^ bits
Wrap32(x) == Signed(IntBits, x)
Wrap64(x) == Signed(LongBits, x)

AbsOf(x) == IF x < 0 THEN -x ELSE x
SignOf(x) == IF x < 0 THEN -1 ELSE 1
TruncDiv(a, b) == SignOf(a) * SignOf(b) * (AbsOf(a) \div AbsOf(b))
TruncMod(a, b) == a - b * TruncDiv(a, b)

BitOf(kind, x, y) ==
  CASE kind = "And" -> x * y [] kind = "Or" -> x + y - x * y [] kind = "Xor" -> (x + y) % 2

Bitwise2(kind, a, b) ==
  LET bit(x, i) == (x \div 2 ^ i) % 2
  IN  Wrap64(FoldLeft(LAMBDA sum, i : sum + 2 ^ i * BitOf(kind, bit(a, i), bit(b, i)),
                      0, [i \in 1..LongBits |-> i - 1]))

Truth(p) == IF p THEN 1 ELSE 0

BinaryKinds == {"Add", "Sub", "Mul", "Div", "Mod", "And", "Or", "Xor", "Shl", "Shr", "Sar",
                "Eq", "Ne", "Lt", "Gt", "Lte", "Gte"}

(* One binary node; Div and Mod only where they do not trap.                    *)
Arith(kind, a, b) ==
  LET count == b % LongBits
  IN  CASE kind = "Add" -> Wrap64(a + b)
        [] kind = "Sub" -> Wrap64(a - b)
        [] kind = "Mul" -> Wrap64(a * b)
        [] kind = "Div" -> TruncDiv(a, b)
        [] kind = "Mod" -> TruncMod(a, b)
        [] kind \in {"And", "Or", "Xor"} -> Bitwise2(kind, a, b)
        [] kind = "Shl" -> Wrap64(a * 2 ^ count)
        [] kind = "Shr" -> Wrap64(Unsigned(LongBits, a) \div 2 ^ count)
        [] kind = "Sar" -> a \div 2 ^ count
        [] kind = "Eq"  -> Truth(a = b)
        [] kind = "Ne"  -> Truth(a # b)
        [] kind = "Lt"  -> Truth(a < b)
        [] kind = "Gt"  -> Truth(a > b)
        [] kind = "Lte" -> Truth(a <= b)
        [] kind = "Gte" -> Truth(a >= b)

(* idiv faults on a divisor 0 and when the quotient does not fit: the least     *)
(* value divided by -1, which then has no remainder either.                     *)
Overflows(a, b) == a = -(2 ^ (LongBits - 1)) /\ b = -1
Traps(kind, a, b) == kind \in {"Div", "Mod"} /\ (b = 0 \/ Overflows(a, b))

-----------------------------------------------------------------------------
(* The emitted order.                                                          *)
Layout(g) ==
  LET bs == BlockStructure(g)
  IN  FoldLeft(LAMBDA before, b : before \o InOrder(NodesIn(g, bs, b), Len(g)),
               <<>>, ReversePostOrder(g, bs))

(* Where control goes after a branch: the leader of the target block, or on.    *)
(* Of several projections of a side, and of the loops before a Jump, the last   *)
(* one counts.                                                                  *)
BranchTarget(g, id, cond) ==
  LET side == IF cond # 0 THEN "IfTrue" ELSE "IfFalse"
      targets == CASE g[id].kind = "If" ->
                        {p \in Live(g) : g[p].kind = side /\ g[p].ctrl = id}
                   [] g[id].kind = "Jump" -> JumpTarget(g, id)
                   [] OTHER -> {}
  IN  IF targets = {} THEN {} ELSE {MaxOf(targets)}

(* What others see.  A tail call is a call.                                     *)
ObservableKinds ==
  {"StFld", "StElem", "StoreField", "StoreElement", "Call", "CallVirt", "CallKnown",
   "TailCall", "InvokeDynamic", "MonitorEnter", "MonitorExit"}
Observed(kind) == IF kind = "TailCall" THEN "CallVirt" ELSE kind

(* Effects whose result is taken as it comes.                                   *)
UnknownKinds == EffectKinds \ (ObservableKinds \cup {"Start", "StLoc", "Return", "Throw"})

(* A run: position in the layout, values by node, locals, the observable        *)
(* effects so far and the result, "junk" when control falls off the end or a    *)
(* label is not bound.  The unknowns, which are the incoming locals (Phi        *)
(* without inputs) and what effects return, come from env.  ran: nodes passed.  *)
Start0(g) == [pos |-> 1, vals |-> [id \in Ids(g) |-> 0], locals |-> [l \in 0..3 |-> 0],
              obs |-> <<>>, ran |-> {}, result |-> <<"running">>]

(* On with the next node, with its value, in a local, or seen by others; to the *)
(* label of a block; the end.                                                   *)
Passed(s, id) == [s EXCEPT !.pos = @ + 1, !.ran = @ \cup {id}]
Computed(s, id, v) == [Passed(s, id) EXCEPT !.vals[id] = v]
Stored(s, id, l, v) == [Passed(s, id) EXCEPT !.locals[l] = v]
Shown(s, id, v, what) == [Computed(s, id, v) EXCEPT !.obs = Append(@, what)]
Ended(s, result) == [s EXCEPT !.result = result]
Moved(layout, s, targets) ==
  LET at == {p \in DOMAIN layout : layout[p] \in targets}
  IN  IF at = {} THEN Ended(s, <<"junk">>) ELSE [s EXCEPT !.pos = MaxOf(at)]

MachineStep(g, layout, env, s) ==
  IF Len(layout) < s.pos THEN Ended(s, <<"junk">>)
  ELSE IF s.result # <<"running">> THEN s
  ELSE
    LET id == layout[s.pos]
        n == g[id]
        in == [k \in DOMAIN n.in |-> s.vals[n.in[k]]]
        give(v) == Computed(s, id, v)
    IN  CASE n.kind \in {"ConstInt", "ConstFloat"} -> give(n.val)
          [] n.kind = "LdNull" -> give(0)
          [] n.kind = "Phi" -> give(env[id])
          [] n.kind \in BinaryKinds ->
               IF Traps(n.kind, in[1], in[2]) THEN Ended(s, <<"trap">>)
               ELSE give(Arith(n.kind, in[1], in[2]))
          [] n.kind = "Neg" -> give(Wrap64(-in[1]))
          [] n.kind = "ConvI4" -> give(Wrap32(in[1]))
          [] n.kind = "ConvI8" -> give(in[1])
          [] n.kind = "LdLoc" -> give(s.locals[n.cls])
          [] n.kind = "StLoc" -> Stored(s, id, n.cls, in[1])
          [] n.kind = "If" -> Moved(layout, s, BranchTarget(g, id, in[1]))
          [] n.kind = "Jump" -> IF BranchTarget(g, id, 0) = {} THEN Passed(s, id)
                                ELSE Moved(layout, s, BranchTarget(g, id, 0))
          [] n.kind = "Return" -> Ended(s, <<"value", in[1]>>)
          [] n.kind = "Throw" -> Ended(s, <<"thrown", in[1]>>)
          [] n.kind \in ObservableKinds -> Shown(s, id, env[id], <<Observed(n.kind), in>>)
          [] n.kind \in UnknownKinds -> give(env[id])
          [] OTHER -> Passed(s, id)

(* At most fuel steps.                                                         *)
RunInOrder(g, layout, env, fuel) ==
  LET run[k \in 0..fuel] ==
        IF k = 0 THEN Start0(g) ELSE MachineStep(g, layout, env, run[k - 1])
  IN  run[fuel]

MachineRun(g, env, fuel) == RunInOrder(g, Layout(g), env, fuel)
=============================================================================
