--------------------------- MODULE Lowering_proofs ---------------------------
(* What the lowerers make of every method: a graph that the verifier takes, and *)
(* for a method without branches one that computes what granit computes.        *)
EXTENDS JvmPipeline, SequenceTheorems, FiniteSetTheorems, WellFoundedInduction, TLAPS

-----------------------------------------------------------------------------
(* Induction.                                                                  *)

(* A set of numbers that is not empty has a least one.                          *)
LEMMA LeastNat ==
  ASSUME NEW T, T \subseteq Nat, T # {}
  PROVE  \E n \in T : \A m \in T : n <= m
<1> DEFINE R == OpToRel(<, Nat)
<1>1. IsWellFoundedOn(R, Nat)
  BY NatLessThanWellFounded
<1>2. \A m \in Nat : \A n \in Nat : m < n => <<m, n>> \in R
  BY DEF OpToRel
<1> HIDE DEF R
<1>3. PICK x \in T : \A y \in T : ~(<<y, x>> \in R)
  BY <1>1, WFMin
<1>4. ASSUME NEW y \in T PROVE x <= y
  <2>1. x \in Nat /\ y \in Nat
    OBVIOUS
  <2>2. ~(y < x)
    BY <1>2, <1>3, <2>1
  <2> QED BY <2>1, <2>2
<1> QED BY <1>4

(* What holds of 0 and goes from each number to the next holds up to n.         *)
LEMMA PrefixInduction ==
  ASSUME NEW n \in Nat, NEW S, 0 \in S,
         \A k \in 0..n - 1 : k \in S => k + 1 \in S
  PROVE  0..n \subseteq S
<1> DEFINE T == (0..n) \ S
<1> SUFFICES ASSUME T # {} PROVE FALSE
  OBVIOUS
<1>1. T \subseteq Nat
  OBVIOUS
<1>2. PICK x \in T : \A y \in T : x <= y
  <2> HIDE DEF T
  <2> QED BY <1>1, LeastNat
<1>3. x \in 1..n
  OBVIOUS
<1>4. x - 1 \in 0..n - 1 /\ x - 1 \notin T
  BY <1>2, <1>3
<1> QED BY <1>3, <1>4

(* The fold of f over a sequence of n: a set that has the value for the empty   *)
(* prefix and, with that for a prefix, that for the next, has the value for all.*)
LEMMA FoldStays ==
  ASSUME NEW n \in Nat, NEW f, NEW V, f[{}] \in V,
         \A k \in 1..n : f[1..k - 1] \in V => f[1..k] \in V
  PROVE  f[1..n] \in V
<1> DEFINE S == {k \in 0..n : f[1..k] \in V}
<1>1. 0 \in S
  <2>1. 1..0 = {}
    OBVIOUS
  <2> QED BY <2>1
<1>2. ASSUME NEW k \in 0..n - 1, k \in S PROVE k + 1 \in S
  <2>1. k + 1 \in 1..n /\ (k + 1) - 1 = k
    OBVIOUS
  <2> QED BY <1>2, <2>1
<1>3. 0..n \subseteq S
  <2> HIDE DEF S
  <2> QED BY <1>1, <1>2, PrefixInduction
<1> QED BY <1>3

LEMMA MaxOfPrefix ==
  ASSUME NEW k \in Nat, NEW s \in SUBSET (1..k + 1), k + 1 \in s
  PROVE  Max(s) = k + 1 /\ s \ {Max(s)} \in SUBSET (1..k)
<1>1. \A y \in s : y \in Int /\ k + 1 >= y
  OBVIOUS
<1>2. \E x \in s : \A y \in s : x >= y
  BY <1>1
<1>3. Max(s) \in s /\ \A y \in s : Max(s) >= y
  BY <1>2 DEF Max
<1>4. Max(s) = k + 1
  <2> DEFINE m == Max(s)
  <2>1. m \in s /\ m >= k + 1
    BY <1>3
  <2> HIDE DEF m
  <2>2. m = k + 1
    BY <1>1, <2>1
  <2> QED BY <2>2 DEF m
<1>5. s \ {k + 1} \in SUBSET (1..k)
  OBVIOUS
<1> QED BY <1>4, <1>5

-----------------------------------------------------------------------------
(* What the lowerers build: every node points back at nodes that are there, a   *)
(* node with an effect hangs on the effect chain and a pure one does not, and   *)
(* there are neither guards nor dead nodes.                                     *)

PureLowered ==
  {"Phi", "LdNull", "ConstInt", "ConstFloat", "Neg", "ConvI4", "ConvI8", "ConvR8",
   "Eq", "Ne", "Lt", "Gt", "Lte", "Gte"} \cup IntKinds
EffectLowered == EffectOps \cup ObjectKinds \cup {"Return"}
BranchLowered == {"If", "IfTrue", "IfFalse"}
LoweredKinds == PureLowered \cup EffectLowered \cup BranchLowered \cup {"Start"}

Nodes ==
  [kind: LoweredKinds, in: Seq(Nat), ctrl: Nat, eff: Nat, flags: SUBSET Flags,
   type: {"Top", "Int", "Float"}, val: Int, cls: {0}, state: {FALSE}]

LoweredNode(n, id) ==
  /\ n \in Nodes
  /\ \A k \in 1..Len(n.in) : n.in[k] \in 1..id - 1
  /\ n.ctrl < id /\ n.eff < id
  /\ "IsGuard" \notin n.flags /\ "IsDead" \notin n.flags
  /\ "Effect" \in n.flags /\ n.kind # "Start" => n.eff # NoId
  /\ "Pure" \in n.flags => n.eff = NoId
  /\ n.kind = "Start" => id = 1

LoweredGraph(g) ==
  /\ g \in Seq(Nodes)
  /\ \A id \in 1..Len(g) : LoweredNode(g[id], id)

LEMMA NewNodeFields ==
  ASSUME NEW kind, NEW in, NEW ctrl, NEW eff
  PROVE  /\ NewNode(kind, in, ctrl, eff).kind = kind
         /\ NewNode(kind, in, ctrl, eff).in = in
         /\ NewNode(kind, in, ctrl, eff).ctrl = ctrl
         /\ NewNode(kind, in, ctrl, eff).eff = eff
         /\ NewNode(kind, in, ctrl, eff).flags = KindFlags(kind)
         /\ NewNode(kind, in, ctrl, eff).type = "Top"
BY DEF NewNode

LEMMA NewNodeIsNode ==
  ASSUME NEW kind \in LoweredKinds, NEW in \in Seq(Nat), NEW ctrl \in Nat, NEW eff \in Nat
  PROVE  NewNode(kind, in, ctrl, eff) \in Nodes
<1>1. KindFlags(kind) \in SUBSET Flags
  BY DEF KindFlags, Flags
<1> QED BY <1>1 DEF NewNode, Nodes

LEMMA FlagsOfKinds ==
  ASSUME NEW kind
  PROVE  /\ "IsDead" \notin KindFlags(kind)
         /\ kind \in LoweredKinds => "IsGuard" \notin KindFlags(kind)
         /\ kind \in PureLowered \cup BranchLowered => "Effect" \notin KindFlags(kind)
         /\ kind \in EffectLowered \cup BranchLowered \cup {"Start"} => "Pure" \notin KindFlags(kind)
<1>1. "IsDead" \notin KindFlags(kind)
  BY DEF KindFlags
<1>2. ("IsGuard" \in KindFlags(kind) <=> kind \in GuardKinds)
      /\ ("Effect" \in KindFlags(kind) <=> kind \in EffectKinds)
      /\ ("Pure" \in KindFlags(kind) <=> kind \in PureKinds)
  BY DEF KindFlags
<1>3. kind \in LoweredKinds => kind \notin GuardKinds
  BY DEF LoweredKinds, PureLowered, EffectLowered, BranchLowered, IntKinds, EffectOps,
         ObjectKinds, GuardKinds, Checks, CheckedConversions
<1>4. kind \in PureLowered \cup BranchLowered => kind \notin EffectKinds
  BY DEF PureLowered, BranchLowered, IntKinds, EffectKinds, LeavingKinds, CheckedConversions
<1>5. kind \in EffectLowered \cup BranchLowered \cup {"Start"} => kind \notin PureKinds
  BY DEF EffectLowered, BranchLowered, EffectOps, ObjectKinds, PureKinds, CommutativeKinds,
         Conversions
<1> QED BY <1>1, <1>2, <1>3, <1>4, <1>5

LEMMA PureNodeLowered ==
  ASSUME NEW id \in Nat \ {0}, NEW kind \in PureLowered, NEW in \in Seq(1..id - 1)
  PROVE  LoweredNode(PureNode(kind, in), id)
<1>1. in \in Seq(Nat) /\ \A k \in 1..Len(in) : in[k] \in 1..id - 1
  <2>1. 1..id - 1 \subseteq Nat
    OBVIOUS
  <2> QED BY <2>1, SeqMonotonic, ElementOfSeq
<1>2. kind \in LoweredKinds /\ kind # "Start" /\ NoId \in Nat
  BY DEF PureLowered, LoweredKinds, IntKinds, NoId
<1> DEFINE n == PureNode(kind, in)
<1>3. n \in Nodes
  BY <1>1, <1>2, NewNodeIsNode DEF PureNode
<1>4. /\ n.kind = kind /\ n.in = in /\ n.ctrl = NoId /\ n.eff = NoId
      /\ n.flags = KindFlags(kind)
  BY NewNodeFields DEF PureNode
<1>5. /\ "IsGuard" \notin KindFlags(kind) /\ "IsDead" \notin KindFlags(kind)
      /\ "Effect" \notin KindFlags(kind)
  BY <1>2, FlagsOfKinds
<1> HIDE DEF n
<1>6. LoweredNode(n, id)
  BY <1>1, <1>2, <1>3, <1>4, <1>5 DEF LoweredNode, NoId
<1> QED BY <1>6 DEF n

LEMMA NullLowered ==
  ASSUME NEW n \in Nat
  PROVE  LoweredNode(PureNode("LdNull", <<>>), n + 1)
<1>1. n + 1 \in Nat \ {0} /\ "LdNull" \in PureLowered /\ <<>> \in Seq(1..(n + 1) - 1)
  BY DEF PureLowered
<1> QED BY <1>1, PureNodeLowered

LEMMA EffectNodeLowered ==
  ASSUME NEW id \in Nat, NEW kind \in EffectLowered, NEW in \in Seq(1..id - 1),
         NEW ctrl \in 1..id - 1, NEW eff \in 1..id - 1
  PROVE  LoweredNode(NewNode(kind, in, ctrl, eff), id)
<1>1. in \in Seq(Nat) /\ \A k \in 1..Len(in) : in[k] \in 1..id - 1
  <2>1. 1..id - 1 \subseteq Nat
    OBVIOUS
  <2> QED BY <2>1, SeqMonotonic, ElementOfSeq
<1>2. kind \in LoweredKinds /\ kind # "Start" /\ ctrl \in Nat /\ eff \in Nat
  BY DEF EffectLowered, LoweredKinds, EffectOps, ObjectKinds
<1>3. NewNode(kind, in, ctrl, eff) \in Nodes
  BY <1>1, <1>2, NewNodeIsNode
<1> QED BY <1>1, <1>2, <1>3, FlagsOfKinds, NewNodeFields DEF LoweredNode, NoId

LEMMA BranchNodeLowered ==
  ASSUME NEW id \in Nat, NEW kind \in BranchLowered, NEW in \in Seq(1..id - 1),
         NEW ctrl \in 1..id - 1
  PROVE  LoweredNode(NewNode(kind, in, ctrl, NoId), id)
<1>1. in \in Seq(Nat) /\ \A k \in 1..Len(in) : in[k] \in 1..id - 1
  <2>1. 1..id - 1 \subseteq Nat
    OBVIOUS
  <2> QED BY <2>1, SeqMonotonic, ElementOfSeq
<1>2. kind \in LoweredKinds /\ kind # "Start" /\ ctrl \in Nat /\ NoId \in Nat
  BY DEF BranchLowered, LoweredKinds, NoId
<1>3. NewNode(kind, in, ctrl, NoId) \in Nodes
  BY <1>1, <1>2, NewNodeIsNode
<1> QED BY <1>1, <1>2, <1>3, FlagsOfKinds, NewNodeFields DEF LoweredNode, NoId

LEMMA ConstLowered ==
  ASSUME NEW id \in Nat \ {0}, NEW v \in Int
  PROVE  LoweredNode(ConstInt(v), id) /\ LoweredNode(ConstFloat(v), id)
<1>1. ASSUME NEW kind \in {"ConstInt", "ConstFloat"}, NEW type \in {"Int", "Float"}
      PROVE  LoweredNode(Const(kind, type, v), id)
  <2> DEFINE n == NewNode(kind, <<>>, NoId, NoId)
             c == Const(kind, type, v)
  <2>1. <<>> \in Seq(1..id - 1) /\ kind \in PureLowered
    BY DEF PureLowered
  <2>2. LoweredNode(n, id)
    BY <2>1, PureNodeLowered DEF PureNode
  <2>3. c = [n EXCEPT !.flags = @ \cup {"IsConst"}, !.type = type, !.val = v]
    BY DEF Const
  <2>4. n \in Nodes
    BY <2>2 DEF LoweredNode
  <2> HIDE DEF n, c
  <2>5. /\ c \in Nodes /\ c.in = n.in /\ c.ctrl = n.ctrl /\ c.eff = n.eff
        /\ c.flags = n.flags \cup {"IsConst"} /\ c.kind = n.kind
    BY <2>3, <2>4 DEF Nodes, Flags
  <2> QED BY <2>2, <2>5 DEF LoweredNode, c
<1> QED BY <1>1 DEF ConstInt, ConstFloat

(* Nodes appended at the end.                                                   *)
LEMMA Appended ==
  ASSUME NEW g, LoweredGraph(g), NEW nodes \in Seq(Nodes),
         \A k \in 1..Len(nodes) : LoweredNode(nodes[k], Len(g) + k)
  PROVE  /\ LoweredGraph(g \o nodes)
         /\ Len(g \o nodes) = Len(g) + Len(nodes)
         /\ \A id \in 1..Len(g) : (g \o nodes)[id] = g[id]
         /\ \A k \in 1..Len(nodes) : (g \o nodes)[Len(g) + k] = nodes[k]
<1>1. g \in Seq(Nodes) /\ Len(g) \in Nat /\ Len(nodes) \in Nat
  BY DEF LoweredGraph
<1> DEFINE h == g \o nodes
<1>2. /\ h \in Seq(Nodes) /\ Len(h) = Len(g) + Len(nodes)
      /\ \A i \in 1..Len(g) + Len(nodes) : h[i] = IF i <= Len(g) THEN g[i] ELSE nodes[i - Len(g)]
  BY <1>1, ConcatProperties
<1> HIDE DEF h
<1>3. \A id \in 1..Len(g) : h[id] = g[id]
  BY <1>1, <1>2
<1>4. ASSUME NEW k \in 1..Len(nodes) PROVE h[Len(g) + k] = nodes[k]
  <2>1. Len(g) + k \in 1..Len(g) + Len(nodes) /\ ~(Len(g) + k <= Len(g))
        /\ (Len(g) + k) - Len(g) = k
    BY <1>1
  <2> QED BY <1>2, <2>1
<1>5. ASSUME NEW id \in 1..Len(h) PROVE LoweredNode(h[id], id)
  <2>1. CASE id <= Len(g)
    BY <1>1, <1>3, <2>1 DEF LoweredGraph
  <2>2. CASE id > Len(g)
    <3>1. id - Len(g) \in 1..Len(nodes) /\ id = Len(g) + (id - Len(g))
      BY <1>1, <1>2, <2>2
    <3>2. h[id] = nodes[id - Len(g)]
      BY <1>4, <3>1
    <3> QED BY <3>1, <3>2
  <2> QED BY <1>1, <1>2, <2>1, <2>2
<1> QED BY <1>2, <1>3, <1>4, <1>5 DEF LoweredGraph, h

LEMMA AppendedOne ==
  ASSUME NEW g, LoweredGraph(g), NEW n, LoweredNode(n, Len(g) + 1)
  PROVE  /\ LoweredGraph(g \o <<n>>) /\ Append(g, n) = g \o <<n>>
         /\ Len(g \o <<n>>) = Len(g) + 1
         /\ \A id \in 1..Len(g) : (g \o <<n>>)[id] = g[id]
         /\ (g \o <<n>>)[Len(g) + 1] = n
<1> DEFINE nodes == <<n>>
<1>1. n \in Nodes
  BY DEF LoweredNode
<1>2. nodes \in Seq(Nodes) /\ Len(nodes) = 1 /\ nodes[1] = n
  BY <1>1
<1>3. \A k \in 1..Len(nodes) : LoweredNode(nodes[k], Len(g) + k)
  BY <1>2
<1>4. Append(g, n) = g \o <<n>>
  BY <1>1, AppendIsConcat DEF LoweredGraph
<1> HIDE DEF nodes
<1>5. /\ LoweredGraph(g \o nodes) /\ Len(g \o nodes) = Len(g) + 1
      /\ \A id \in 1..Len(g) : (g \o nodes)[id] = g[id]
      /\ (g \o nodes)[Len(g) + 1] = nodes[1]
  BY <1>2, <1>3, Appended
<1> QED BY <1>2, <1>4, <1>5 DEF nodes

(* verify_graph finds nothing wrong with it.                                    *)
LEMMA LoweredGraphVerifies ==
  ASSUME NEW g, LoweredGraph(g)
  PROVE  Verified(g)
<1>1. g \in Seq(Nodes) /\ Len(g) \in Nat
  BY DEF LoweredGraph
<1>2. ASSUME NEW id \in Ids(g)
      PROVE  /\ DataInputs(g, id) \subseteq Ids(g)
             /\ ~(g[id].ctrl > Len(g)) /\ ~(g[id].eff > Len(g))
             /\ "IsDead" \notin g[id].flags /\ "IsGuard" \notin g[id].flags
             /\ "Effect" \in g[id].flags /\ g[id].kind # "Start" => g[id].eff # NoId
             /\ "Pure" \in g[id].flags => g[id].eff = NoId
  <2> DEFINE n == g[id]
  <2>1. LoweredNode(n, id) /\ id \in 1..Len(g)
    BY <1>2 DEF LoweredGraph, Ids
  <2>2. n.in \in Seq(Nat) /\ n.ctrl \in Nat /\ n.eff \in Nat
    BY <2>1 DEF LoweredNode, Nodes
  <2>3. \A k \in DOMAIN n.in : n.in[k] \in 1..Len(g)
    <3>1. DOMAIN n.in = 1..Len(n.in)
      BY <2>2
    <3>2. 1..id - 1 \subseteq 1..Len(g)
      BY <1>1, <2>1
    <3> QED BY <2>1, <3>1, <3>2 DEF LoweredNode
  <2>4. DataInputs(g, id) \subseteq Ids(g)
    BY <2>3 DEF DataInputs, Ids
  <2>5. ~(n.ctrl > Len(g)) /\ ~(n.eff > Len(g))
    BY <1>1, <2>1, <2>2 DEF LoweredNode
  <2> QED BY <2>1, <2>4, <2>5 DEF LoweredNode
<1>3. Dangling(g) = {}
  BY <1>1, <1>2 DEF Dangling, Ids
<1>4. BrokenEffectChain(g) = {}
  BY <1>2 DEF BrokenEffectChain, Has
<1>5. GuardsWithoutState(g) = {}
  BY <1>2 DEF GuardsWithoutState, Has
<1>6. DeadButReferenced(g) = {}
  BY <1>2 DEF DeadButReferenced, Live, Dead, Has
<1> QED BY <1>3, <1>4, <1>5, <1>6 DEF Verified

-----------------------------------------------------------------------------
(* What the lowerers keep: slots and stack name nodes of the graph.             *)

LowererOK(m, g, l) ==
  /\ LoweredGraph(g)
  /\ l \in [pc: 0..Len(m), stack: Seq(1..Len(g)), locals: [DOMAIN l.locals -> 1..Len(g)],
            ctrl: 1..Len(g), eff: 1..Len(g), status: {"lowering", "lowered", "failed"}]

Instructions == JvmInstructions \cup CilInstructions

(* On with the next instruction.                                                *)
Advanced ==
  /\ LowererOK(method, graph', lower')
  /\ Len(graph') >= Len(graph)
  /\ \A id \in 1..Len(graph) : graph'[id] = graph[id]
  /\ lower'.pc = lower.pc + 1 /\ lower'.status = "lowering"
  /\ DOMAIN lower'.locals = DOMAIN lower.locals

Failed ==
  /\ lower.pc < Len(method)
  /\ graph' = graph /\ lower' = [lower EXCEPT !.status = "failed"]

(* The stack by its operands, whatever it holds.                                *)
LEMMA StackIn ==
  ASSUME NEW N, lower.stack \in Seq(N)
  PROVE  /\ Depth \in Nat
         /\ \A k \in 0..Depth : /\ Under(k) \in Seq(N)
                                /\ Len(Under(k)) = Depth - k
                                /\ \A i \in 1..Depth - k : Under(k)[i] = lower.stack[i]
                                /\ Operands(k) \in Seq(N)
                                /\ Len(Operands(k)) = k
                                /\ \A i \in 1..k : Operands(k)[i] = lower.stack[Depth - k + i]
         /\ \A k \in 0..Depth - 1 : Nth(k) \in N
<1> DEFINE st == lower.stack
<1>1. st \in Seq(N) /\ Len(st) \in Nat
  OBVIOUS
<1>2. \A i \in 1..Len(st) : st[i] \in N
  BY <1>1, ElementOfSeq
<1> HIDE DEF st
<1>3. ASSUME NEW k \in 0..Len(st)
      PROVE  /\ SubSeq(st, 1, Len(st) - k) \in Seq(N)
             /\ Len(SubSeq(st, 1, Len(st) - k)) = Len(st) - k
             /\ \A i \in 1..Len(st) - k : SubSeq(st, 1, Len(st) - k)[i] = st[i]
  <2>1. Len(st) - k \in Int /\ \A i \in 1..Len(st) - k : st[i] \in N
    BY <1>1, <1>2
  <2> DEFINE b == Len(st) - k
  <2>2. b \in Nat /\ b <= Len(st)
    BY <1>1
  <2> HIDE DEF b
  <2>3. /\ SubSeq(st, 1, b) \in Seq(N)
        /\ Len(SubSeq(st, 1, b)) = IF 1 <= b THEN b - 1 + 1 ELSE 0
        /\ \A i \in 1..b - 1 + 1 : SubSeq(st, 1, b)[i] = st[1 + i - 1]
    <3>1. \A i \in 1..b : st[i] \in N
      BY <1>1, <1>2, <2>2
    <3> QED BY <2>2, <3>1, SubSeqProperties
  <2> QED BY <2>2, <2>3 DEF b
<1>4. ASSUME NEW k \in 0..Len(st)
      PROVE  /\ SubSeq(st, Len(st) - k + 1, Len(st)) \in Seq(N)
             /\ Len(SubSeq(st, Len(st) - k + 1, Len(st))) = k
             /\ \A i \in 1..k : SubSeq(st, Len(st) - k + 1, Len(st))[i] = st[Len(st) - k + i]
  <2> DEFINE a == Len(st) - k + 1
             b == Len(st)
  <2>2. a \in Int /\ b \in Int /\ 1 <= a /\ b - a + 1 = k
    BY <1>1
  <2>3. \A i \in 1..k : a + i - 1 = Len(st) - k + i
    BY <1>1
  <2> HIDE DEF a, b
  <2>4. /\ SubSeq(st, a, b) \in Seq(N)
        /\ Len(SubSeq(st, a, b)) = IF a <= b THEN b - a + 1 ELSE 0
        /\ \A i \in 1..b - a + 1 : SubSeq(st, a, b)[i] = st[a + i - 1]
    <3>1. \A i \in a..b : st[i] \in N
      BY <1>1, <1>2, <2>2 DEF b
    <3> QED BY <2>2, <3>1, SubSeqProperties
  <2>5. Len(SubSeq(st, a, b)) = k
    BY <2>2, <2>4
  <2>6. \A i \in 1..k : SubSeq(st, a, b)[i] = st[Len(st) - k + i]
    BY <2>2, <2>3, <2>4
  <2> QED BY <2>4, <2>5, <2>6 DEF a, b
<1>5. ASSUME NEW k \in 0..Len(st) - 1 PROVE st[Len(st) - k] \in N
  BY <1>1, <1>2
<1> QED BY <1>1, <1>3, <1>4, <1>5 DEF Depth, Under, Operands, Nth, st

LEMMA StackFacts ==
  ASSUME LowererOK(method, graph, lower)
  PROVE  /\ Depth \in Nat /\ Len(graph) \in Nat /\ lower.stack \in Seq(1..Len(graph))
         /\ \A k \in 0..Depth : /\ Under(k) \in Seq(1..Len(graph))
                                /\ Len(Under(k)) = Depth - k
                                /\ \A i \in 1..Depth - k : Under(k)[i] = lower.stack[i]
                                /\ Operands(k) \in Seq(1..Len(graph))
                                /\ Len(Operands(k)) = k
                                /\ \A i \in 1..k : Operands(k)[i] = lower.stack[Depth - k + i]
         /\ \A k \in 0..Depth - 1 : Nth(k) \in 1..Len(graph)
<1>1. Len(graph) \in Nat /\ lower.stack \in Seq(1..Len(graph))
  BY DEF LowererOK, LoweredGraph
<1> QED BY <1>1, StackIn

(* A step to a longer graph, whose new stack, slots, control and effect name    *)
(* nodes of it.                                                                 *)
LEMMA GraphAdvances ==
  ASSUME LowererOK(method, graph, lower), lower.status = "lowering", lower.pc < Len(method),
         Len(method) \in Nat,
         LoweredGraph(graph'), NEW n, Len(graph') = n, n >= Len(graph),
         \A id \in 1..Len(graph) : graph'[id] = graph[id],
         NEW stack \in Seq(1..n), NEW locals \in [DOMAIN lower.locals -> 1..n],
         NEW ctrl \in 1..n, NEW eff \in 1..n,
         lower' = [pc |-> lower.pc + 1, stack |-> stack, locals |-> locals, ctrl |-> ctrl,
                   eff |-> eff, status |-> lower.status]
  PROVE  Advanced
<1>1. lower.pc + 1 \in 0..Len(method)
  BY DEF LowererOK
<1>2. DOMAIN locals = DOMAIN lower.locals
  OBVIOUS
<1>3. lower' \in [pc: 0..Len(method), stack: Seq(1..Len(graph')),
                  locals: [DOMAIN lower'.locals -> 1..Len(graph')],
                  ctrl: 1..Len(graph'), eff: 1..Len(graph'),
                  status: {"lowering", "lowered", "failed"}]
  BY <1>1, <1>2
<1>4. LowererOK(method, graph', lower')
  BY <1>3 DEF LowererOK
<1> QED BY <1>2, <1>4 DEF Advanced

LEMMA StayAdvances ==
  ASSUME LowererOK(method, graph, lower), lower.status = "lowering", lower.pc < Len(method),
         Len(method) \in Nat, graph' = graph,
         NEW stack \in Seq(1..Len(graph)),
         NEW locals \in [DOMAIN lower.locals -> 1..Len(graph)],
         NEW ctrl \in 1..Len(graph), NEW eff \in 1..Len(graph),
         lower' = [pc |-> lower.pc + 1, stack |-> stack, locals |-> locals, ctrl |-> ctrl,
                   eff |-> eff, status |-> lower.status]
  PROVE  Advanced
<1>1. Len(graph) \in Nat /\ LoweredGraph(graph') /\ Len(graph') >= Len(graph)
      /\ \A id \in 1..Len(graph) : graph'[id] = graph[id]
  BY DEF LowererOK, LoweredGraph
<1> QED BY <1>1, GraphAdvances

LEMMA StepAdvances ==
  ASSUME LowererOK(method, graph, lower), lower.status = "lowering", lower.pc < Len(method),
         Len(method) \in Nat,
         NEW nodes \in Seq(Nodes),
         \A k \in 1..Len(nodes) : LoweredNode(nodes[k], Len(graph) + k),
         graph' = graph \o nodes,
         NEW stack \in Seq(1..Len(graph) + Len(nodes)),
         NEW locals \in [DOMAIN lower.locals -> 1..Len(graph) + Len(nodes)],
         NEW ctrl \in 1..Len(graph) + Len(nodes), NEW eff \in 1..Len(graph) + Len(nodes),
         lower' = [pc |-> lower.pc + 1, stack |-> stack, locals |-> locals, ctrl |-> ctrl,
                   eff |-> eff, status |-> lower.status]
  PROVE  Advanced
<1>1. /\ LoweredGraph(graph') /\ Len(graph') = Len(graph) + Len(nodes)
      /\ \A id \in 1..Len(graph) : graph'[id] = graph[id]
  BY Appended DEF LowererOK
<1>2. Len(graph) \in Nat /\ Len(nodes) \in Nat
  BY DEF LowererOK, LoweredGraph
<1>3. Len(graph) + Len(nodes) >= Len(graph)
  BY <1>2
<1> QED BY <1>1, <1>3, GraphAdvances

(* The pieces of lower that most steps leave, as they are in the longer graph.  *)
LEMMA LowerFields ==
  ASSUME LowererOK(method, graph, lower), NEW n \in Nat
  PROVE  /\ lower = [pc |-> lower.pc, stack |-> lower.stack, locals |-> lower.locals,
                     ctrl |-> lower.ctrl, eff |-> lower.eff, status |-> lower.status]
         /\ Len(graph) \in Nat /\ LoweredGraph(graph)
         /\ 1..Len(graph) \subseteq 1..Len(graph) + n
         /\ \A s \in Seq(1..Len(graph)) : s \in Seq(1..Len(graph) + n)
         /\ lower.locals \in [DOMAIN lower.locals -> 1..Len(graph)]
         /\ lower.locals \in [DOMAIN lower.locals -> 1..Len(graph) + n]
         /\ lower.ctrl \in 1..Len(graph) /\ lower.eff \in 1..Len(graph)
<1>1. Len(graph) \in Nat /\ LoweredGraph(graph)
  BY DEF LowererOK, LoweredGraph
<1>2. 1..Len(graph) \subseteq 1..Len(graph) + n
  BY <1>1
<1>3. \A s \in Seq(1..Len(graph)) : s \in Seq(1..Len(graph) + n)
  BY <1>2, SeqMonotonic
<1>4. lower.locals \in [DOMAIN lower.locals -> 1..Len(graph)]
  BY DEF LowererOK
<1>5. lower.locals \in [DOMAIN lower.locals -> 1..Len(graph) + n]
  BY <1>2, <1>4
<1>6. lower = [pc |-> lower.pc, stack |-> lower.stack, locals |-> lower.locals,
               ctrl |-> lower.ctrl, eff |-> lower.eff, status |-> lower.status]
  BY DEF LowererOK
<1> QED BY <1>1, <1>2, <1>3, <1>4, <1>5, <1>6 DEF LowererOK

(* Emit keeps the slots, the control and the effect.                            *)
LEMMA EmitAdvances ==
  ASSUME LowererOK(method, graph, lower), lower.status = "lowering", lower.pc < Len(method),
         Len(method) \in Nat,
         NEW nodes \in Seq(Nodes),
         \A k \in 1..Len(nodes) : LoweredNode(nodes[k], Len(graph) + k),
         NEW stack \in Seq(1..Len(graph) + Len(nodes)),
         Emit(nodes, stack)
  PROVE  Advanced
<1>1. Len(nodes) \in Nat
  OBVIOUS
<1>2. /\ lower.locals \in [DOMAIN lower.locals -> 1..Len(graph) + Len(nodes)]
      /\ lower.ctrl \in 1..Len(graph) + Len(nodes) /\ lower.eff \in 1..Len(graph) + Len(nodes)
      /\ lower = [pc |-> lower.pc, stack |-> lower.stack, locals |-> lower.locals,
                  ctrl |-> lower.ctrl, eff |-> lower.eff, status |-> lower.status]
  BY <1>1, LowerFields
<1>3. lower' = [pc |-> lower.pc + 1, stack |-> stack, locals |-> lower.locals,
                ctrl |-> lower.ctrl, eff |-> lower.eff, status |-> lower.status]
  BY <1>2 DEF Emit
<1>4. graph' = graph \o nodes
  BY DEF Emit
<1> QED BY <1>2, <1>3, <1>4, StepAdvances

(* Emit of nothing, and of one node.                                            *)
LEMMA EmitNothing ==
  ASSUME LowererOK(method, graph, lower), lower.status = "lowering", lower.pc < Len(method),
         Len(method) \in Nat,
         NEW stack \in Seq(1..Len(graph)), Emit(<<>>, stack)
  PROVE  Advanced /\ graph' = graph
<1> DEFINE nodes == <<>>
<1>1. nodes \in Seq(Nodes) /\ Len(nodes) = 0 /\ Len(graph) + Len(nodes) = Len(graph)
      /\ graph \o nodes = graph
  <2>1. Len(graph) \in Nat /\ graph \in Seq(Nodes)
    BY DEF LowererOK, LoweredGraph
  <2> QED BY <2>1, ConcatEmptySeq
<1>2. \A k \in 1..Len(nodes) : LoweredNode(nodes[k], Len(graph) + k)
  BY <1>1
<1>3. Emit(nodes, stack)
  OBVIOUS
<1>4. graph' = graph
  BY <1>1 DEF Emit
<1> HIDE DEF nodes
<1> QED BY <1>1, <1>2, <1>3, <1>4, EmitAdvances

LEMMA EmitOne ==
  ASSUME LowererOK(method, graph, lower), lower.status = "lowering", lower.pc < Len(method),
         Len(method) \in Nat,
         NEW n, LoweredNode(n, Len(graph) + 1),
         NEW stack \in Seq(1..Len(graph) + 1), Emit(<<n>>, stack)
  PROVE  Advanced
<1> DEFINE nodes == <<n>>
<1>1. nodes \in Seq(Nodes) /\ Len(nodes) = 1 /\ nodes[1] = n
  BY DEF LoweredNode
<1>2. \A k \in 1..Len(nodes) : LoweredNode(nodes[k], Len(graph) + k)
  BY <1>1
<1>3. Emit(nodes, stack)
  OBVIOUS
<1> HIDE DEF nodes
<1> QED BY <1>1, <1>2, <1>3, EmitAdvances

(* What an instruction has, by its name.                                        *)
LEMMA InstructionFields ==
  ASSUME NEW i \in Instructions
  PROVE  /\ i.op \in {"const", "ldc"} => i.n \in Int
         /\ i.op = "iinc" => i.d \in Int
         /\ i.op = "binary" => i.kind \in IntKinds
         /\ i.op \in {"conv", "conv_to"} => i.to \in ValueTypes
         /\ i.op = "effect" => i.kind \in EffectOps /\ i.pops \in Nat /\ i.pushes \in BOOLEAN
         /\ i.op = "if" => i.against \in {"zero", "value", "null", "ref"} /\ i.cond \in Comparisons
         /\ i.op = "stack" => i.what \in StackOps
         /\ i.op = "compare" => i.kind \in {"Eq", "Lt", "Gt"}
         /\ i.op = "br_cmp" => i.kind \in {"Eq", "Ne", "Lt", "Gt", "Lte", "Gte"}
         /\ i.op = "object" => i.kind \in ObjectKinds
<1>1. CASE i \in JvmInstructions
  BY <1>1 DEF JvmInstructions
<1>2. CASE i \in CilInstructions
  BY <1>2 DEF CilInstructions
<1> QED BY <1>1, <1>2 DEF Instructions

LEMMA OpFields ==
  ASSUME NEW op, Lowering(op), LowererOK(method, graph, lower), method \in Seq(Instructions)
  PROVE  /\ lower.status = "lowering" /\ lower.pc < Len(method) /\ Len(method) \in Nat
         /\ Op \in Instructions /\ Op.op = op /\ NextId = Len(graph) + 1
         /\ Len(graph) \in Nat
<1>1. lower.pc + 1 \in 1..Len(method) /\ Len(method) \in Nat /\ Len(graph) \in Nat
  BY DEF Lowering, LowererOK, LoweredGraph
<1> QED BY <1>1 DEF Lowering, Op, NextId

LEMMA AppendNext ==
  ASSUME LowererOK(method, graph, lower), NEW s \in Seq(1..Len(graph))
  PROVE  Append(s, Len(graph) + 1) \in Seq(1..Len(graph) + 1)
<1>1. s \in Seq(1..Len(graph) + 1) /\ Len(graph) \in Nat
  BY LowerFields
<1> QED BY <1>1, AppendProperties

(* Nothing is emitted and the exception ends lower.                             *)
LEMMA FailFails ==
  ASSUME NEW op, Lowering(op), Fail
  PROVE  Failed
BY DEF Lowering, Fail, Failed

LEMMA ConstStep ==
  ASSUME LowererOK(method, graph, lower), method \in Seq(Instructions), LowerConst
  PROVE  Advanced \/ Failed
<1> DEFINE n == CASE Op.t = "null" -> PureNode("LdNull", <<>>)
                  [] Op.t = "float" -> ConstFloat(Op.n)
                  [] OTHER -> ConstInt(Op.n)
<1>1. Lowering("const") /\ Emit(<<n>>, Append(lower.stack, NextId))
  BY DEF LowerConst
<1>2. /\ lower.status = "lowering" /\ lower.pc < Len(method) /\ Len(method) \in Nat
      /\ Op \in Instructions /\ Op.op = "const" /\ NextId = Len(graph) + 1 /\ Len(graph) \in Nat
  BY <1>1, OpFields
<1>3. Op.n \in Int
  BY <1>2, InstructionFields
<1>4. LoweredNode(n, Len(graph) + 1)
  <2>1. LoweredNode(PureNode("LdNull", <<>>), Len(graph) + 1)
    BY <1>2, NullLowered
  <2>2. LoweredNode(ConstFloat(Op.n), Len(graph) + 1) /\ LoweredNode(ConstInt(Op.n), Len(graph) + 1)
    BY <1>2, <1>3, ConstLowered
  <2> QED BY <2>1, <2>2
<1>5. Append(lower.stack, NextId) \in Seq(1..Len(graph) + 1)
  BY <1>2, AppendNext, StackFacts
<1> HIDE DEF n
<1> QED BY <1>1, <1>2, <1>4, <1>5, EmitOne

LEMMA LoadStep ==
  ASSUME LowererOK(method, graph, lower), method \in Seq(Instructions),
         NEW op, Lowering(op), KnownLocal(Op.n),
         Emit(<<>>, Append(lower.stack, lower.locals[Op.n]))
  PROVE  Advanced /\ graph' = graph
<1>1. lower.locals[Op.n] \in 1..Len(graph)
  BY LowerFields DEF KnownLocal
<1>2. Append(lower.stack, lower.locals[Op.n]) \in Seq(1..Len(graph))
  BY <1>1, StackFacts, AppendProperties
<1> QED BY <1>2, OpFields, EmitNothing

LEMMA StoreStep ==
  ASSUME LowererOK(method, graph, lower), method \in Seq(Instructions),
         NEW op, Lowering(op), KnownLocal(Op.n), Depth > 0,
         lower' = [lower EXCEPT !.pc = @ + 1, !.stack = Under(1), !.locals[Op.n] = Nth(0)],
         UNCHANGED graph
  PROVE  Advanced
<1> DEFINE locals == [lower.locals EXCEPT ![Op.n] = Nth(0)]
<1>1. Under(1) \in Seq(1..Len(graph)) /\ Nth(0) \in 1..Len(graph)
  <2>1. Depth \in Nat
    BY StackFacts
  <2>2. 1 \in 0..Depth /\ 0 \in 0..Depth - 1
    BY <2>1
  <2> QED BY <2>2, StackFacts
<1>2. /\ lower = [pc |-> lower.pc, stack |-> lower.stack, locals |-> lower.locals,
                  ctrl |-> lower.ctrl, eff |-> lower.eff, status |-> lower.status]
      /\ lower.locals \in [DOMAIN lower.locals -> 1..Len(graph)]
      /\ lower.ctrl \in 1..Len(graph) /\ lower.eff \in 1..Len(graph)
  BY LowerFields
<1>3. locals \in [DOMAIN lower.locals -> 1..Len(graph)]
  BY <1>1, <1>2
<1>4. lower' = [pc |-> lower.pc + 1, stack |-> Under(1), locals |-> locals,
                ctrl |-> lower.ctrl, eff |-> lower.eff, status |-> lower.status]
  BY <1>2
<1>5. lower.status = "lowering" /\ lower.pc < Len(method) /\ Len(method) \in Nat
  BY OpFields
<1> HIDE DEF locals
<1> QED BY <1>1, <1>2, <1>3, <1>4, <1>5, StayAdvances

LEMMA IincStep ==
  ASSUME LowererOK(method, graph, lower), method \in Seq(Instructions), LowerIinc
  PROVE  Advanced \/ Failed
<1>1. Lowering("iinc")
  BY DEF LowerIinc
<1>2. CASE ~KnownLocal(Op.n)
  BY <1>1, <1>2, FailFails DEF LowerIinc
<1>3. CASE KnownLocal(Op.n)
  <2> DEFINE c == ConstInt(Op.d)
             a == PureNode("Add", <<lower.locals[Op.n], NextId>>)
             nodes == <<c, a>>
             locals == [lower.locals EXCEPT ![Op.n] = NextId + 1]
  <2>1. graph' = graph \o nodes
        /\ lower' = [lower EXCEPT !.pc = @ + 1, !.locals[Op.n] = NextId + 1]
    BY <1>3 DEF LowerIinc
  <2>2. /\ lower.status = "lowering" /\ lower.pc < Len(method) /\ Len(method) \in Nat
        /\ Op \in Instructions /\ Op.op = "iinc" /\ NextId = Len(graph) + 1 /\ Len(graph) \in Nat
    BY <1>1, OpFields
  <2>3. Op.d \in Int
    BY <2>2, InstructionFields
  <2>4. lower.locals[Op.n] \in 1..Len(graph)
    BY <1>3, LowerFields DEF KnownLocal
  <2>5. LoweredNode(c, Len(graph) + 1)
    BY <2>2, <2>3, ConstLowered
  <2>6. LoweredNode(a, Len(graph) + 2)
    <3>1. <<lower.locals[Op.n], NextId>> \in Seq(1..(Len(graph) + 2) - 1)
      BY <2>2, <2>4
    <3>2. "Add" \in PureLowered /\ Len(graph) + 2 \in Nat \ {0}
      BY <2>2 DEF PureLowered, IntKinds
    <3> QED BY <3>1, <3>2, PureNodeLowered
  <2>7. nodes \in Seq(Nodes) /\ Len(nodes) = 2
        /\ \A k \in 1..Len(nodes) : LoweredNode(nodes[k], Len(graph) + k)
    <3>1. c \in Nodes /\ a \in Nodes
      BY <2>5, <2>6 DEF LoweredNode
    <3> HIDE DEF c, a
    <3>2. nodes \in Seq(Nodes) /\ Len(nodes) = 2
      BY <3>1
    <3>3. \A k \in 1..2 : LoweredNode(nodes[k], Len(graph) + k)
      BY <2>5, <2>6
    <3> QED BY <3>2, <3>3
  <2>8. /\ lower = [pc |-> lower.pc, stack |-> lower.stack, locals |-> lower.locals,
                    ctrl |-> lower.ctrl, eff |-> lower.eff, status |-> lower.status]
        /\ \A s \in Seq(1..Len(graph)) : s \in Seq(1..Len(graph) + 2)
        /\ lower.locals \in [DOMAIN lower.locals -> 1..Len(graph) + 2]
        /\ lower.ctrl \in 1..Len(graph) + 2 /\ lower.eff \in 1..Len(graph) + 2
    BY LowerFields
  <2>9. lower.stack \in Seq(1..Len(graph) + 2)
    BY <2>8, StackFacts
  <2>10. locals \in [DOMAIN lower.locals -> 1..Len(graph) + 2]
    <3> DEFINE v == NextId + 1
    <3>1. v \in 1..Len(graph) + 2
      BY <2>2
    <3> HIDE DEF v
    <3>2. [lower.locals EXCEPT ![Op.n] = v] \in [DOMAIN lower.locals -> 1..Len(graph) + 2]
      BY <2>8, <3>1
    <3> QED BY <3>2 DEF v
  <2>11. lower' = [pc |-> lower.pc + 1, stack |-> lower.stack, locals |-> locals,
                   ctrl |-> lower.ctrl, eff |-> lower.eff, status |-> lower.status]
    BY <2>1, <2>8
  <2>12. Len(graph') = Len(graph) + 2 /\ LoweredGraph(graph')
         /\ \A id \in 1..Len(graph) : graph'[id] = graph[id]
    BY <2>1, <2>7, Appended DEF LowererOK
  <2>13. Len(graph) + 2 >= Len(graph)
    BY <2>2
  <2> HIDE DEF nodes, locals
  <2>14. Advanced
    BY <2>2, <2>8, <2>9, <2>10, <2>11, <2>12, <2>13, GraphAdvances
  <2> QED BY <2>14
<1> QED BY <1>2, <1>3

(* A sequence of a few of the nodes on the stack.                               *)
LEMMA FewOnTop ==
  ASSUME NEW N, lower.stack \in Seq(N), NEW k \in 0..Depth,
         NEW top \in Seq(N)
  PROVE  Under(k) \o top \in Seq(N)
<1>1. Under(k) \in Seq(N)
  BY StackIn
<1> QED BY <1>1, ConcatProperties

LEMMA ShuffledIn ==
  ASSUME NEW N, lower.stack \in Seq(N), NEW what \in StackOps, Depth >= Needs(what)
  PROVE  Shuffled(what) \in Seq(N)
<1>1. Depth \in Nat /\ lower.stack \in Seq(N)
      /\ \A k \in 0..Depth : Under(k) \in Seq(N)
      /\ \A j \in 0..Depth - 1 : Nth(j) \in N
  BY StackIn
<1>2. /\ what \in {"pop", "pop2", "dup"} => Depth >= 1
      /\ what \in {"dup_x1", "dup2", "swap"} => Depth >= 2
      /\ what = "dup_x2" => Depth >= 3
  BY DEF Needs
<1>3. CASE what = "pop"
  <2>1. Shuffled(what) = Under(1) /\ 1 \in 0..Depth
    BY <1>1, <1>2, <1>3 DEF Shuffled
  <2> QED BY <1>1, <2>1
<1>4. CASE what = "pop2"
  <2>1. Shuffled(what) = (IF Depth > 1 THEN Under(2) ELSE Under(1)) /\ 1 \in 0..Depth
        /\ (Depth > 1 => 2 \in 0..Depth)
    BY <1>1, <1>2, <1>4 DEF Shuffled
  <2> QED BY <1>1, <2>1
<1>5. CASE what = "dup"
  <2>1. Shuffled(what) = Append(lower.stack, Nth(0)) /\ 0 \in 0..Depth - 1
    BY <1>1, <1>2, <1>5 DEF Shuffled
  <2> QED BY <1>1, <2>1, AppendProperties
<1>6. CASE what = "dup_x1"
  <2>1. Shuffled(what) = Under(2) \o <<Nth(0), Nth(1), Nth(0)>>
        /\ 0 \in 0..Depth - 1 /\ 1 \in 0..Depth - 1 /\ 2 \in 0..Depth
    BY <1>1, <1>2, <1>6 DEF Shuffled
  <2>2. Nth(0) \in N /\ Nth(1) \in N
    BY <1>1, <2>1
  <2>3. <<Nth(0), Nth(1), Nth(0)>> \in Seq(N)
    BY <2>2
  <2> QED BY <2>1, <2>3, FewOnTop
<1>7. CASE what = "dup_x2"
  <2>1. Shuffled(what) = Under(3) \o <<Nth(0), Nth(2), Nth(1), Nth(0)>>
        /\ 0 \in 0..Depth - 1 /\ 1 \in 0..Depth - 1 /\ 2 \in 0..Depth - 1 /\ 3 \in 0..Depth
    BY <1>1, <1>2, <1>7 DEF Shuffled
  <2>2. Nth(0) \in N /\ Nth(1) \in N /\ Nth(2) \in N
    BY <1>1, <2>1
  <2>3. <<Nth(0), Nth(2), Nth(1), Nth(0)>> \in Seq(N)
    BY <2>2
  <2> QED BY <2>1, <2>3, FewOnTop
<1>8. CASE what = "dup2"
  <2>1. Shuffled(what) = lower.stack \o <<Nth(1), Nth(0)>>
        /\ 0 \in 0..Depth - 1 /\ 1 \in 0..Depth - 1
    BY <1>1, <1>2, <1>8 DEF Shuffled
  <2>2. Nth(0) \in N /\ Nth(1) \in N
    BY <1>1, <2>1
  <2>3. <<Nth(1), Nth(0)>> \in Seq(N)
    BY <2>2
  <2> QED BY <1>1, <2>1, <2>3, ConcatProperties
<1>9. CASE what = "swap"
  <2>1. Shuffled(what) = Under(2) \o <<Nth(0), Nth(1)>>
        /\ 0 \in 0..Depth - 1 /\ 1 \in 0..Depth - 1 /\ 2 \in 0..Depth
    BY <1>1, <1>2, <1>9 DEF Shuffled
  <2>2. Nth(0) \in N /\ Nth(1) \in N
    BY <1>1, <2>1
  <2>3. <<Nth(0), Nth(1)>> \in Seq(N)
    BY <2>2
  <2> QED BY <2>1, <2>3, FewOnTop
<1> QED BY <1>3, <1>4, <1>5, <1>6, <1>7, <1>8, <1>9 DEF StackOps

LEMMA ShuffledIsAStack ==
  ASSUME LowererOK(method, graph, lower), NEW what \in StackOps, Depth >= Needs(what)
  PROVE  Shuffled(what) \in Seq(1..Len(graph))
BY StackFacts, ShuffledIn

LEMMA StackOpStep ==
  ASSUME LowererOK(method, graph, lower), method \in Seq(Instructions), LowerStackOp
  PROVE  Advanced \/ Failed
<1>1. Lowering("stack")
  BY DEF LowerStackOp
<1>2. CASE ~(Depth >= Needs(Op.what))
  BY <1>1, <1>2, FailFails DEF LowerStackOp
<1>3. CASE Depth >= Needs(Op.what)
  <2>1. Emit(<<>>, Shuffled(Op.what))
    BY <1>3 DEF LowerStackOp
  <2>2. Op.what \in StackOps
    BY <1>1, OpFields, InstructionFields
  <2>3. Shuffled(Op.what) \in Seq(1..Len(graph))
    BY <1>3, <2>2, ShuffledIsAStack
  <2> QED BY <1>1, <2>1, <2>3, OpFields, EmitNothing
<1> QED BY <1>2, <1>3

(* A pure node over the topmost operands, pushed in their place.                *)
LEMMA PureOnTop ==
  ASSUME LowererOK(method, graph, lower), lower.status = "lowering", lower.pc < Len(method),
         Len(method) \in Nat, NEW kind \in PureLowered, NEW arity \in 0..Depth,
         Emit(<<PureNode(kind, Operands(arity))>>, Append(Under(arity), NextId))
  PROVE  Advanced
<1>1. Len(graph) \in Nat /\ NextId = Len(graph) + 1
  BY DEF LowererOK, LoweredGraph, NextId
<1>2. Operands(arity) \in Seq(1..Len(graph)) /\ Under(arity) \in Seq(1..Len(graph))
  BY StackFacts
<1>3. LoweredNode(PureNode(kind, Operands(arity)), Len(graph) + 1)
  <2>1. (Len(graph) + 1) - 1 = Len(graph) /\ Len(graph) + 1 \in Nat \ {0}
    BY <1>1
  <2> QED BY <1>2, <2>1, PureNodeLowered
<1>4. Append(Under(arity), NextId) \in Seq(1..Len(graph) + 1)
  BY <1>1, <1>2, AppendNext
<1> QED BY <1>3, <1>4, EmitOne

LEMMA PureStep ==
  ASSUME LowererOK(method, graph, lower), method \in Seq(Instructions), LowerPure
  PROVE  Advanced \/ Failed
<1>1. PICK op \in {"binary", "neg", "cmp", "conv"} :
        /\ Lowering(op)
        /\ LET arity == IF op \in {"binary", "cmp"} THEN 2 ELSE 1
           IN  IF Depth >= arity
                 THEN Emit(<<PureNode(PureKind, Operands(arity))>>, Append(Under(arity), NextId))
                 ELSE Fail
  BY DEF LowerPure
<1> DEFINE arity == IF op \in {"binary", "cmp"} THEN 2 ELSE 1
<1>2. CASE ~(Depth >= arity)
  BY <1>1, <1>2, FailFails
<1>3. CASE Depth >= arity
  <2>1. /\ lower.status = "lowering" /\ lower.pc < Len(method) /\ Len(method) \in Nat
        /\ Op \in Instructions /\ Op.op = op
    BY <1>1, OpFields
  <2>2. /\ Op.op = "binary" => Op.kind \in IntKinds
        /\ Op.op = "conv" => Op.to \in ValueTypes
    BY <2>1, InstructionFields
  <2>3. PureKind \in PureLowered
    BY <1>1, <2>1, <2>2 DEF PureKind, PureLowered, ValueTypes
  <2>4. arity \in 0..Depth
    BY <1>3, StackFacts
  <2>5. Emit(<<PureNode(PureKind, Operands(arity))>>, Append(Under(arity), NextId))
    BY <1>1, <1>3
  <2> HIDE DEF arity
  <2> QED BY <2>1, <2>3, <2>4, <2>5, PureOnTop
<1> QED BY <1>2, <1>3

(* make_effectful: the node becomes the end of the effect chain.                *)
LEMMA EffectAdvances ==
  ASSUME LowererOK(method, graph, lower), lower.status = "lowering", lower.pc < Len(method),
         Len(method) \in Nat, NEW kind \in EffectLowered, NEW in \in Seq(1..Len(graph)),
         graph' = Append(graph, NewNode(kind, in, lower.ctrl, lower.eff)),
         NEW stack \in Seq(1..Len(graph) + 1),
         lower' = [lower EXCEPT !.pc = @ + 1, !.eff = NextId, !.stack = stack]
  PROVE  Advanced
<1>1. Len(graph) \in Nat /\ NextId = Len(graph) + 1 /\ LoweredGraph(graph)
  BY DEF LowererOK, LoweredGraph, NextId
<1>2. /\ lower = [pc |-> lower.pc, stack |-> lower.stack, locals |-> lower.locals,
                  ctrl |-> lower.ctrl, eff |-> lower.eff, status |-> lower.status]
      /\ lower.locals \in [DOMAIN lower.locals -> 1..Len(graph) + 1]
      /\ lower.ctrl \in 1..Len(graph) + 1
      /\ lower.ctrl \in 1..Len(graph) /\ lower.eff \in 1..Len(graph)
  BY LowerFields
<1> DEFINE n == NewNode(kind, in, lower.ctrl, lower.eff)
<1>3. LoweredNode(n, Len(graph) + 1)
  <2>1. (Len(graph) + 1) - 1 = Len(graph) /\ Len(graph) + 1 \in Nat
    BY <1>1
  <2> QED BY <1>2, <2>1, EffectNodeLowered
<1>4. graph' = Append(graph, n)
  OBVIOUS
<1> HIDE DEF n
<1>5. /\ LoweredGraph(graph') /\ Len(graph') = Len(graph) + 1
      /\ \A id \in 1..Len(graph) : graph'[id] = graph[id]
  <2>1. /\ LoweredGraph(graph \o <<n>>) /\ Append(graph, n) = graph \o <<n>>
        /\ Len(graph \o <<n>>) = Len(graph) + 1
        /\ \A id \in 1..Len(graph) : (graph \o <<n>>)[id] = graph[id]
    BY <1>1, <1>3, AppendedOne
  <2>2. graph' = graph \o <<n>>
    BY <1>4, <2>1
  <2> QED BY <2>1, <2>2
<1>6. lower' = [pc |-> lower.pc + 1, stack |-> stack, locals |-> lower.locals,
                ctrl |-> lower.ctrl, eff |-> NextId, status |-> lower.status]
  BY <1>2
<1>7. NextId \in 1..Len(graph) + 1 /\ Len(graph) + 1 >= Len(graph)
  BY <1>1
<1> QED BY <1>2, <1>5, <1>6, <1>7, GraphAdvances

LEMMA EffectStep ==
  ASSUME LowererOK(method, graph, lower), method \in Seq(Instructions), LowerEffect
  PROVE  Advanced \/ Failed
<1>1. Lowering("effect")
  BY DEF LowerEffect
<1>2. CASE Depth < Op.pops
  BY <1>1, <1>2, FailFails DEF LowerEffect
<1>3. CASE ~(Depth < Op.pops)
  <2> DEFINE stack == IF Op.pushes THEN Append(Under(Op.pops), NextId) ELSE Under(Op.pops)
  <2>1. /\ graph' = Append(graph, NewNode(Op.kind, Operands(Op.pops), lower.ctrl, lower.eff))
        /\ lower' = [lower EXCEPT !.pc = @ + 1, !.eff = NextId, !.stack = stack]
    BY <1>3 DEF LowerEffect
  <2>2. /\ lower.status = "lowering" /\ lower.pc < Len(method) /\ Len(method) \in Nat
        /\ Op \in Instructions /\ Op.op = "effect" /\ NextId = Len(graph) + 1
    BY <1>1, OpFields
  <2>3. Op.kind \in EffectLowered /\ Op.pops \in Nat /\ Op.pushes \in BOOLEAN
    BY <2>2, InstructionFields DEF EffectLowered
  <2>4. Op.pops \in 0..Depth
    BY <1>3, <2>3, StackFacts
  <2>5. Operands(Op.pops) \in Seq(1..Len(graph)) /\ Under(Op.pops) \in Seq(1..Len(graph))
    BY <2>4, StackFacts
  <2>6. stack \in Seq(1..Len(graph) + 1)
    <3>1. Append(Under(Op.pops), NextId) \in Seq(1..Len(graph) + 1)
      BY <2>2, <2>5, AppendNext
    <3>2. Under(Op.pops) \in Seq(1..Len(graph) + 1)
      BY <2>5, LowerFields
    <3> QED BY <3>1, <3>2
  <2> HIDE DEF stack
  <2> QED BY <2>1, <2>2, <2>3, <2>5, <2>6, EffectAdvances
<1> QED BY <1>2, <1>3

LEMMA ObjectStep ==
  ASSUME LowererOK(method, graph, lower), method \in Seq(Instructions), LowerObject
  PROVE  Advanced \/ Failed
<1>1. Lowering("object")
  BY DEF LowerObject
<1>2. CASE Depth = 0
  BY <1>1, <1>2, FailFails DEF LowerObject
<1>3. CASE Depth # 0
  <2> DEFINE stack == Append(Under(1), NextId)
  <2>1. /\ graph' = Append(graph, NewNode(Op.kind, <<Nth(0)>>, lower.ctrl, lower.eff))
        /\ lower' = [lower EXCEPT !.pc = @ + 1, !.eff = NextId, !.stack = stack]
    BY <1>3 DEF LowerObject
  <2>2. /\ lower.status = "lowering" /\ lower.pc < Len(method) /\ Len(method) \in Nat
        /\ Op \in Instructions /\ Op.op = "object" /\ NextId = Len(graph) + 1
    BY <1>1, OpFields
  <2>3. Op.kind \in EffectLowered
    BY <2>2, InstructionFields DEF EffectLowered
  <2>4. 1 \in 0..Depth /\ 0 \in 0..Depth - 1
    BY <1>3, StackFacts
  <2>5. Nth(0) \in 1..Len(graph) /\ Under(1) \in Seq(1..Len(graph))
    BY <2>4, StackFacts
  <2>6. stack \in Seq(1..Len(graph) + 1) /\ <<Nth(0)>> \in Seq(1..Len(graph))
    BY <2>2, <2>5, AppendNext
  <2> HIDE DEF stack
  <2> QED BY <2>1, <2>2, <2>3, <2>6, EffectAdvances
<1> QED BY <1>2, <1>3

(* The If and its projections, after nodes for the condition.                   *)
LEMMA BranchAdvances ==
  ASSUME LowererOK(method, graph, lower), lower.status = "lowering", lower.pc < Len(method),
         Len(method) \in Nat,
         NEW g, LoweredGraph(g), Len(g) >= Len(graph),
         \A id \in 1..Len(graph) : g[id] = graph[id],
         NEW cond \in 1..Len(g), NEW k \in 0..Depth,
         NEW branch,
         branch = <<NewNode("If", <<cond>>, lower.ctrl, NoId),
                    NewNode("IfTrue", <<>>, Len(g) + 1, NoId),
                    NewNode("IfFalse", <<>>, Len(g) + 1, NoId)>>,
         graph' = g \o branch,
         NEW stack, stack = Under(k),
         lower' = [lower EXCEPT !.pc = @ + 1, !.stack = stack, !.ctrl = Len(g) + 1]
  PROVE  Advanced
<1> DEFINE n == Len(g)
           a == NewNode("If", <<cond>>, lower.ctrl, NoId)
           b == NewNode("IfTrue", <<>>, n + 1, NoId)
           c == NewNode("IfFalse", <<>>, n + 1, NoId)
           nodes == branch
<1>1. n \in Nat /\ Len(graph) \in Nat /\ n >= Len(graph)
  BY DEF LoweredGraph, LowererOK
<1>2. /\ lower = [pc |-> lower.pc, stack |-> lower.stack, locals |-> lower.locals,
                  ctrl |-> lower.ctrl, eff |-> lower.eff, status |-> lower.status]
      /\ lower.ctrl \in 1..Len(graph)
      /\ \A m \in Nat : /\ \A s \in Seq(1..Len(graph)) : s \in Seq(1..Len(graph) + m)
                        /\ lower.locals \in [DOMAIN lower.locals -> 1..Len(graph) + m]
                        /\ 1..Len(graph) \subseteq 1..Len(graph) + m
      /\ lower.eff \in 1..Len(graph)
  BY LowerFields
<1>3. graph' = g \o nodes
  OBVIOUS
<1>4. LoweredNode(a, n + 1)
  <2>1. n + 1 \in Nat /\ (n + 1) - 1 = n /\ lower.ctrl \in 1..(n + 1) - 1
    BY <1>1, <1>2
  <2>2. <<cond>> \in Seq(1..(n + 1) - 1) /\ "If" \in BranchLowered
    BY <2>1 DEF BranchLowered
  <2> QED BY <2>1, <2>2, BranchNodeLowered
<1>5. LoweredNode(b, n + 2)
  <2>1. n + 2 \in Nat /\ n + 1 \in 1..(n + 2) - 1
    BY <1>1
  <2>2. <<>> \in Seq(1..(n + 2) - 1) /\ "IfTrue" \in BranchLowered
    BY DEF BranchLowered
  <2> QED BY <2>1, <2>2, BranchNodeLowered
<1>6. LoweredNode(c, n + 3)
  <2>1. n + 3 \in Nat /\ n + 1 \in 1..(n + 3) - 1
    BY <1>1
  <2>2. <<>> \in Seq(1..(n + 3) - 1) /\ "IfFalse" \in BranchLowered
    BY DEF BranchLowered
  <2> QED BY <2>1, <2>2, BranchNodeLowered
<1>7. nodes \in Seq(Nodes) /\ Len(nodes) = 3
      /\ \A i \in 1..Len(nodes) : LoweredNode(nodes[i], n + i)
  <2>1. a \in Nodes /\ b \in Nodes /\ c \in Nodes
    BY <1>4, <1>5, <1>6 DEF LoweredNode
  <2>2. branch = <<a, b, c>>
    OBVIOUS
  <2> HIDE DEF a, b, c
  <2>3. nodes \in Seq(Nodes) /\ Len(nodes) = 3
    BY <2>1, <2>2
  <2>4. \A i \in 1..3 : LoweredNode(nodes[i], n + i)
    BY <1>4, <1>5, <1>6, <2>2
  <2> QED BY <2>3, <2>4
<1> HIDE DEF nodes
<1>8. /\ LoweredGraph(graph') /\ Len(graph') = n + 3
      /\ \A id \in 1..n : graph'[id] = g[id]
  <2>1. /\ LoweredGraph(g \o nodes) /\ Len(g \o nodes) = Len(g) + Len(nodes)
        /\ \A id \in 1..Len(g) : (g \o nodes)[id] = g[id]
    BY <1>7, Appended
  <2> QED BY <1>3, <1>7, <2>1
<1>9. /\ n + 3 >= Len(graph) /\ n + 1 \in 1..n + 3
      /\ \A id \in 1..Len(graph) : graph'[id] = graph[id]
  BY <1>1, <1>8
<1>10. (n + 3) - Len(graph) \in Nat /\ Len(graph) + ((n + 3) - Len(graph)) = n + 3
  BY <1>1
<1>11. /\ Under(k) \in Seq(1..n + 3) /\ lower.eff \in 1..n + 3
       /\ lower.locals \in [DOMAIN lower.locals -> 1..n + 3]
  BY <1>2, <1>10, StackFacts
<1>12. lower' = [pc |-> lower.pc + 1, stack |-> Under(k), locals |-> lower.locals,
                 ctrl |-> n + 1, eff |-> lower.eff, status |-> lower.status]
  BY <1>2
<1> DEFINE N == n + 3
           ctrl == n + 1
<1>13. /\ LoweredGraph(graph') /\ Len(graph') = N /\ N >= Len(graph)
       /\ ctrl \in 1..N /\ stack \in Seq(1..N) /\ lower.eff \in 1..N
       /\ lower.locals \in [DOMAIN lower.locals -> 1..N]
       /\ \A id \in 1..Len(graph) : graph'[id] = graph[id]
  BY <1>8, <1>9, <1>11
<1>14. lower' = [pc |-> lower.pc + 1, stack |-> stack, locals |-> lower.locals,
                 ctrl |-> ctrl, eff |-> lower.eff, status |-> lower.status]
  BY <1>12
<1>15. /\ LowererOK(method, graph, lower) /\ lower.status = "lowering"
       /\ lower.pc < Len(method) /\ Len(method) \in Nat
  OBVIOUS
<1> HIDE DEF n, N, ctrl, a, b, c, nodes
<1> QED BY ONLY <1>13, <1>14, <1>15, GraphAdvances

(* What if_* builds: the operand to compare with, if it is not on the stack, the *)
(* comparison, and the branch on it.                                            *)
Compared(g1, x, g2) ==
  /\ LoweredGraph(g1) /\ LoweredGraph(g2) /\ g2 = g1 \o <<x>> /\ x.kind \in PureLowered
  /\ \/ g1 = graph /\ x.in = Operands(2) /\ 2 \in 0..Depth
     \/ /\ \E n : g1 = graph \o <<n>> /\ n.kind \in PureLowered /\ n.in = <<>>
        /\ x.in = <<Nth(0), NextId>> /\ 0 \in 0..Depth - 1

Branched(g, branch, k) ==
  /\ LoweredGraph(g) /\ Len(g) >= Len(graph) /\ \A id \in 1..Len(graph) : g[id] = graph[id]
  /\ Len(g) \in 1..Len(g) /\ k \in 0..Depth
  /\ branch = IfOn(Len(g), Len(g) + 1)
  /\ graph' = g \o branch
  /\ lower' = [lower EXCEPT !.pc = @ + 1, !.stack = Under(k), !.ctrl = Len(g) + 1]

LEMMA IfBuilds ==
  ASSUME LowererOK(method, graph, lower), method \in Seq(Instructions), LowerIf, ~Fail
  PROVE  \E g1, x, g2, branch, k : Compared(g1, x, g2) /\ Branched(g2, branch, k)
<1> DEFINE two == Op.against = "value"
           pops == IF two THEN 2 ELSE 1
           other == CASE Op.against = "value" -> <<>>
                      [] Op.against = "zero" -> <<ConstInt(0)>>
                      [] OTHER -> <<PureNode("LdNull", <<>>)>>
           cmp == NextId + Len(other)
           in == IF two THEN Operands(2) ELSE <<Nth(0), NextId>>
           kind == IF Op.against \in {"null", "ref"} THEN "Eq" ELSE CompareKind
           tail == <<PureNode(kind, in), NewNode("If", <<cmp>>, lower.ctrl, NoId),
                     NewNode("IfTrue", <<>>, cmp + 1, NoId), NewNode("IfFalse", <<>>, cmp + 1, NoId)>>
<1>1. /\ Lowering("if")
      /\ IF Depth < pops THEN Fail
         ELSE /\ graph' = graph \o other \o tail
              /\ lower' = [lower EXCEPT !.pc = @ + 1, !.stack = Under(pops), !.ctrl = cmp + 1]
  BY DEF LowerIf
<1>2. ~(Depth < pops)
  BY <1>1
<1> QED
  <2>1. /\ lower.status = "lowering" /\ lower.pc < Len(method) /\ Len(method) \in Nat
        /\ Op \in Instructions /\ Op.op = "if" /\ NextId = Len(graph) + 1 /\ Len(graph) \in Nat
        /\ LoweredGraph(graph)
    BY <1>1, OpFields DEF LowererOK
  <2>2. Op.against \in {"zero", "value", "null", "ref"} /\ Op.cond \in Comparisons
    BY <2>1, InstructionFields
  <2>3. pops \in 0..Depth /\ (~two => 0 \in 0..Depth - 1)
    BY <1>2, StackFacts
  <2>4. kind \in PureLowered
    BY <2>2 DEF CompareKind, Comparisons, PureLowered
  <2> DEFINE g1 == graph \o other
  <2>5. /\ LoweredGraph(g1) /\ Len(g1) = Len(graph) + Len(other)
        /\ other \in Seq(Nodes) /\ Len(other) = (IF two THEN 0 ELSE 1)
        /\ \A id \in 1..Len(graph) : g1[id] = graph[id]
    <3>1. LoweredNode(ConstInt(0), Len(graph) + 1)
      BY <2>1, ConstLowered
    <3>2. LoweredNode(PureNode("LdNull", <<>>), Len(graph) + 1)
      BY <2>1, NullLowered
    <3>3. CASE two
      <4>1. other = <<>> /\ graph \in Seq(Nodes) /\ Len(graph) \in Nat
        BY <2>1, <3>3 DEF LoweredGraph
      <4>2. graph \o <<>> = graph
        BY <4>1, ConcatEmptySeq
      <4> QED BY <2>1, <3>3, <4>1, <4>2
    <3>4. CASE ~two
      <4>1. PICK n : other = <<n>> /\ LoweredNode(n, Len(graph) + 1)
        BY <2>2, <3>1, <3>2, <3>4
      <4>2. other \in Seq(Nodes) /\ Len(other) = 1
        BY <4>1 DEF LoweredNode
      <4> HIDE DEF other
      <4> QED BY <2>1, <3>4, <4>1, <4>2, AppendedOne
    <3> QED BY <3>3, <3>4
  <2>6. in \in Seq(1..Len(g1))
    <3>1. CASE two
      <4>1. Operands(2) \in Seq(1..Len(graph))
        BY <2>3, <3>1, StackFacts
      <4> HIDE DEF g1, other
      <4>2. Len(g1) = Len(graph) + 0
        BY <2>1, <2>5, <3>1
      <4>3. Operands(2) \in Seq(1..Len(graph) + 0)
        BY <4>1, LowerFields
      <4> QED BY <3>1, <4>2, <4>3
    <3>2. CASE ~two
      <4>1. Nth(0) \in 1..Len(graph)
        BY <2>3, <3>2, StackFacts
      <4> HIDE DEF g1, other
      <4>2. Len(g1) = Len(graph) + 1
        BY <2>5, <3>2
      <4>3. Nth(0) \in 1..Len(g1) /\ NextId \in 1..Len(g1)
        BY <2>1, <4>1, <4>2
      <4> QED BY <3>2, <4>3
    <3> QED BY <3>1, <3>2
  <2> DEFINE x == PureNode(kind, in)
             g2 == g1 \o <<x>>
             branch == <<NewNode("If", <<cmp>>, lower.ctrl, NoId),
                         NewNode("IfTrue", <<>>, cmp + 1, NoId), NewNode("IfFalse", <<>>, cmp + 1, NoId)>>
  <2>7. LoweredNode(x, Len(g1) + 1)
    <3>1. Len(g1) + 1 \in Nat \ {0} /\ (Len(g1) + 1) - 1 = Len(g1)
      BY <2>5 DEF LoweredGraph
    <3> HIDE DEF g1, kind, in
    <3> QED BY <2>4, <2>6, <3>1, PureNodeLowered
  <2>8. /\ LoweredGraph(g2) /\ Len(g2) = Len(g1) + 1
        /\ \A id \in 1..Len(g1) : g2[id] = g1[id]
    <3> HIDE DEF g1, x
    <3> QED BY <2>5, <2>7, AppendedOne
  <2>9. cmp = Len(g2) /\ Len(g2) >= Len(graph) /\ Len(g2) \in Nat /\ cmp \in 1..Len(g2)
        /\ \A id \in 1..Len(graph) : g2[id] = graph[id]
    <3> HIDE DEF g1, g2, x, other
    <3>1. Len(other) \in Nat
      BY <2>5
    <3>2. Len(g1) >= Len(graph) /\ Len(g1) \in Nat
      BY <2>1, <2>5, <3>1
    <3>3. cmp = Len(g2) /\ Len(g2) >= Len(graph) /\ Len(g2) \in Nat /\ cmp >= 1
      <4>1. NextId = Len(graph) + 1 /\ Len(graph) \in Nat
        BY <2>1
      <4>2. Len(g1) = Len(graph) + Len(other)
        BY <2>5
      <4>3. Len(g2) = Len(g1) + 1
        BY <2>8
      <4> QED BY <3>1, <3>2, <4>1, <4>2, <4>3
    <3>4. \A id \in 1..Len(graph) : g2[id] = graph[id]
      <4>1. 1..Len(graph) \subseteq 1..Len(g1)
        BY <2>1, <3>2
      <4> QED BY <2>5, <2>8, <4>1
    <3> QED BY <3>3, <3>4
  <2>10. graph' = g2 \o branch
    <3>1. graph' = g1 \o tail
      BY <1>1, <1>2
    <3>2. tail = <<x>> \o branch
      OBVIOUS
    <3>3. g1 \in Seq(Nodes) /\ <<x>> \in Seq(Nodes)
      BY <2>5, <2>7 DEF LoweredGraph, LoweredNode
    <3>4. branch \in Seq(Nodes)
      <4>1. lower.ctrl \in Nat /\ cmp \in Nat /\ cmp + 1 \in Nat /\ NoId \in Nat
        BY <2>1, <2>9, LowerFields DEF NoId
      <4>2. <<cmp>> \in Seq(Nat) /\ <<>> \in Seq(Nat) /\ BranchLowered \subseteq LoweredKinds
        BY <4>1 DEF LoweredKinds
      <4> HIDE DEF cmp
      <4>3. /\ NewNode("If", <<cmp>>, lower.ctrl, NoId) \in Nodes
            /\ NewNode("IfTrue", <<>>, cmp + 1, NoId) \in Nodes
            /\ NewNode("IfFalse", <<>>, cmp + 1, NoId) \in Nodes
        BY <4>1, <4>2, NewNodeIsNode DEF BranchLowered
      <4> QED BY <4>3
    <3> HIDE DEF g1, x, branch, tail
    <3> QED BY <3>1, <3>2, <3>3, <3>4, ConcatAssociative
  <2>11. lower' = [lower EXCEPT !.pc = @ + 1, !.stack = Under(pops), !.ctrl = cmp + 1]
    BY <1>1, <1>2
  <2>12. \/ g1 = graph /\ x.in = Operands(2) /\ 2 \in 0..Depth
         \/ /\ \E n : g1 = graph \o <<n>> /\ n.kind \in PureLowered /\ n.in = <<>>
            /\ x.in = <<Nth(0), NextId>> /\ 0 \in 0..Depth - 1
    <3>1. x.in = in /\ x.kind = kind
      BY NewNodeFields DEF PureNode
    <3>2. CASE two
      <4>1. other = <<>> /\ graph \in Seq(Nodes)
        BY <2>1, <3>2 DEF LoweredGraph
      <4>2. g1 = graph
        BY <4>1, ConcatEmptySeq
      <4>3. pops = 2 /\ in = Operands(2)
        BY <3>2
      <4> HIDE DEF g1, x, in, pops
      <4> QED BY <2>3, <3>1, <4>2, <4>3
    <3>3. CASE ~two
      <4>1. PICK n \in {ConstInt(0), PureNode("LdNull", <<>>)} : other = <<n>>
        BY <2>2, <3>3
      <4>2. n.kind \in PureLowered /\ n.in = <<>>
        <5>1. /\ ConstInt(0).kind = "ConstInt" /\ ConstInt(0).in = <<>>
              /\ PureNode("LdNull", <<>>).kind = "LdNull" /\ PureNode("LdNull", <<>>).in = <<>>
          BY DEF PureNode, NewNode, ConstInt, Const
        <5>2. "ConstInt" \in PureLowered /\ "LdNull" \in PureLowered
          BY DEF PureLowered
        <5> QED BY <4>1, <5>1, <5>2
      <4>3. g1 = graph \o <<n>> /\ in = <<Nth(0), NextId>>
        BY <3>3, <4>1
      <4> HIDE DEF g1, x, in, other
      <4> QED BY <2>3, <3>1, <3>3, <4>2, <4>3
    <3> QED BY <3>2, <3>3
  <2>13. x.kind = kind /\ g2 = g1 \o <<x>> /\ branch = IfOn(Len(g2), Len(g2) + 1)
    <3>1. x.kind = kind
      BY NewNodeFields DEF PureNode
    <3>2. cmp = Len(g2)
      BY <2>9
    <3> HIDE DEF g2, cmp, x, kind
    <3> QED BY <3>1, <3>2 DEF IfOn, g2
  <2> HIDE DEF g1, g2, x, pops, cmp, other, branch, kind
  <2>14. Compared(g1, x, g2)
    BY <2>4, <2>5, <2>8, <2>12, <2>13 DEF Compared
  <2>15. Branched(g2, branch, pops)
    BY <2>3, <2>8, <2>9, <2>10, <2>11, <2>13 DEF Branched
  <2> QED BY <2>14, <2>15

LEMMA IfStep ==
  ASSUME LowererOK(method, graph, lower), method \in Seq(Instructions), LowerIf
  PROVE  Advanced \/ Failed
<1>1. Lowering("if")
  BY DEF LowerIf
<1>2. CASE Fail
  BY <1>1, <1>2, FailFails
<1>3. CASE ~Fail
  <2>1. /\ lower.status = "lowering" /\ lower.pc < Len(method) /\ Len(method) \in Nat
    BY <1>1, OpFields
  <2>2. PICK g1, x, g, branch, k : Branched(g, branch, k)
    BY <1>3, IfBuilds
  <2> DEFINE stack == Under(k)
  <2>3. /\ LoweredGraph(g) /\ Len(g) >= Len(graph) /\ \A id \in 1..Len(graph) : g[id] = graph[id]
        /\ Len(g) \in 1..Len(g) /\ k \in 0..Depth /\ graph' = g \o branch /\ stack = Under(k)
        /\ lower' = [lower EXCEPT !.pc = @ + 1, !.stack = stack, !.ctrl = Len(g) + 1]
    BY <2>2 DEF Branched
  <2>4. branch = <<NewNode("If", <<Len(g)>>, lower.ctrl, NoId),
                   NewNode("IfTrue", <<>>, Len(g) + 1, NoId),
                   NewNode("IfFalse", <<>>, Len(g) + 1, NoId)>>
    BY <2>2 DEF Branched, IfOn
  <2> HIDE DEF stack
  <2> QED BY <2>1, <2>3, <2>4, BranchAdvances
<1> QED BY <1>2, <1>3

LEMMA GotoStep ==
  ASSUME LowererOK(method, graph, lower), method \in Seq(Instructions), LowerGoto \/ LowerBr
  PROVE  Advanced
<1>1. PICK op : Lowering(op) /\ Emit(<<>>, lower.stack)
  BY DEF LowerGoto, LowerBr
<1> QED BY <1>1, OpFields, StackFacts, EmitNothing

(* Return nodes hang on the control and the end of the effect chain.            *)
LEMMA ReturnLowered ==
  ASSUME LowererOK(method, graph, lower)
  PROVE  /\ \A v \in 1..Len(graph) : LoweredNode(ReturnOf(v), Len(graph) + 1)
         /\ ReturnNull \in Seq(Nodes) /\ Len(ReturnNull) = 2
         /\ \A k \in 1..Len(ReturnNull) : LoweredNode(ReturnNull[k], Len(graph) + k)
<1>1. /\ Len(graph) \in Nat /\ NextId = Len(graph) + 1
      /\ lower.ctrl \in 1..Len(graph) /\ lower.eff \in 1..Len(graph)
  BY LowerFields DEF NextId
<1>2. "Return" \in EffectLowered
  BY DEF EffectLowered
<1>3. ASSUME NEW v \in 1..Len(graph) PROVE LoweredNode(ReturnOf(v), Len(graph) + 1)
  <2>1. /\ Len(graph) + 1 \in Nat /\ (Len(graph) + 1) - 1 = Len(graph)
        /\ <<v>> \in Seq(1..Len(graph))
    BY <1>1
  <2> QED BY <1>1, <1>2, <2>1, EffectNodeLowered DEF ReturnOf
<1> DEFINE a == PureNode("LdNull", <<>>)
           b == ReturnOf(NextId)
<1>4. LoweredNode(a, Len(graph) + 1)
  BY <1>1, NullLowered
<1>5. LoweredNode(b, Len(graph) + 2)
  <2>1. /\ Len(graph) + 2 \in Nat
        /\ lower.ctrl \in 1..(Len(graph) + 2) - 1 /\ lower.eff \in 1..(Len(graph) + 2) - 1
        /\ <<NextId>> \in Seq(1..(Len(graph) + 2) - 1)
    BY <1>1
  <2> QED BY <1>2, <2>1, EffectNodeLowered DEF ReturnOf
<1>6. ReturnNull = <<a, b>>
  BY DEF ReturnNull
<1>7. a \in Nodes /\ b \in Nodes
  BY <1>4, <1>5 DEF LoweredNode
<1> HIDE DEF a, b
<1>8. ReturnNull \in Seq(Nodes) /\ Len(ReturnNull) = 2 /\ ReturnNull[1] = a /\ ReturnNull[2] = b
  BY <1>6, <1>7
<1>9. \A k \in 1..2 : LoweredNode(ReturnNull[k], Len(graph) + k)
  BY <1>4, <1>5, <1>8
<1> QED BY <1>3, <1>8, <1>9

(* A return, of the topmost value or of null.                                   *)
LEMMA ReturnAdvances ==
  ASSUME LowererOK(method, graph, lower), lower.status = "lowering", lower.pc < Len(method),
         Len(method) \in Nat,
         \/ Depth > 0 /\ Emit(<<ReturnOf(Nth(0))>>, Under(1))
         \/ Emit(ReturnNull, lower.stack)
  PROVE  Advanced
<1>1. CASE Depth > 0 /\ Emit(<<ReturnOf(Nth(0))>>, Under(1))
  <2>1. 1 \in 0..Depth /\ 0 \in 0..Depth - 1
    BY <1>1, StackFacts
  <2>2. Nth(0) \in 1..Len(graph) /\ Under(1) \in Seq(1..Len(graph))
    BY <2>1, StackFacts
  <2>3. LoweredNode(ReturnOf(Nth(0)), Len(graph) + 1) /\ Under(1) \in Seq(1..Len(graph) + 1)
    BY <2>2, ReturnLowered, LowerFields
  <2> QED BY <1>1, <2>3, EmitOne
<1>2. CASE Emit(ReturnNull, lower.stack)
  <2>1. lower.stack \in Seq(1..Len(graph) + 2)
    BY StackFacts, LowerFields
  <2>2. /\ ReturnNull \in Seq(Nodes) /\ Len(ReturnNull) = 2
        /\ \A k \in 1..Len(ReturnNull) : LoweredNode(ReturnNull[k], Len(graph) + k)
    BY ReturnLowered
  <2> QED BY <1>2, <2>1, <2>2, EmitAdvances
<1> QED BY <1>1, <1>2

LEMMA ReturnStep ==
  ASSUME LowererOK(method, graph, lower), method \in Seq(Instructions), LowerReturn \/ LowerRet
  PROVE  Advanced \/ Failed
<1>1. PICK op : /\ Lowering(op)
                /\ \/ Depth > 0 /\ Emit(<<ReturnOf(Nth(0))>>, Under(1))
                   \/ Emit(ReturnNull, lower.stack)
                   \/ Fail
  BY DEF LowerReturn, LowerRet
<1>2. CASE Fail
  BY <1>1, <1>2, FailFails
<1>3. CASE ~Fail
  BY <1>1, <1>3, OpFields, ReturnAdvances
<1> QED BY <1>2, <1>3

LEMMA SlotStep ==
  ASSUME LowererOK(method, graph, lower), method \in Seq(Instructions),
         LowerLoad \/ LowerLdLoc \/ LowerStore \/ LowerStLoc
  PROVE  Advanced \/ Failed
<1>1. PICK op :
        /\ Lowering(op)
        /\ \/ KnownLocal(Op.n) /\ Emit(<<>>, Append(lower.stack, lower.locals[Op.n]))
           \/ /\ KnownLocal(Op.n) /\ Depth > 0
              /\ lower' = [lower EXCEPT !.pc = @ + 1, !.stack = Under(1), !.locals[Op.n] = Nth(0)]
              /\ UNCHANGED graph
           \/ Fail
  BY DEF LowerLoad, LowerLdLoc, LowerStore, LowerStLoc
<1>2. CASE KnownLocal(Op.n) /\ Emit(<<>>, Append(lower.stack, lower.locals[Op.n]))
  BY <1>1, <1>2, LoadStep
<1>3. CASE /\ KnownLocal(Op.n) /\ Depth > 0
           /\ lower' = [lower EXCEPT !.pc = @ + 1, !.stack = Under(1), !.locals[Op.n] = Nth(0)]
           /\ UNCHANGED graph
  BY <1>1, <1>3, StoreStep
<1>4. CASE Fail
  BY <1>1, <1>4, FailFails
<1> QED BY <1>1, <1>2, <1>3, <1>4

LEMMA SwitchStep ==
  ASSUME LowerSwitch \/ LowerUnsupported
  PROVE  Failed
<1>1. PICK op : Lowering(op) /\ Fail
  BY DEF LowerSwitch, LowerUnsupported
<1> QED BY <1>1, FailFails

LEMMA LdCStep ==
  ASSUME LowererOK(method, graph, lower), method \in Seq(Instructions), LowerLdC
  PROVE  Advanced \/ Failed
<1>1. /\ Lowering("ldc")
      /\ \/ Emit(<<PureNode("LdNull", <<>>)>>, Append(lower.stack, NextId))
         \/ Emit(<<ConstInt(Op.n)>>, Append(lower.stack, NextId))
         \/ Fail
  BY DEF LowerLdC
<1>2. /\ lower.status = "lowering" /\ lower.pc < Len(method) /\ Len(method) \in Nat
      /\ Op \in Instructions /\ Op.op = "ldc" /\ NextId = Len(graph) + 1 /\ Len(graph) \in Nat
  BY <1>1, OpFields
<1>3. Op.n \in Int
  BY <1>2, InstructionFields
<1>4. LoweredNode(PureNode("LdNull", <<>>), Len(graph) + 1) /\ LoweredNode(ConstInt(Op.n), Len(graph) + 1)
  BY <1>2, <1>3, NullLowered, ConstLowered
<1>5. Append(lower.stack, NextId) \in Seq(1..Len(graph) + 1)
  BY <1>2, AppendNext, StackFacts
<1>6. CASE Emit(<<PureNode("LdNull", <<>>)>>, Append(lower.stack, NextId))
  BY <1>2, <1>4, <1>5, <1>6, EmitOne
<1>7. CASE Emit(<<ConstInt(Op.n)>>, Append(lower.stack, NextId))
  BY <1>2, <1>4, <1>5, <1>7, EmitOne
<1>8. CASE Fail
  BY <1>1, <1>8, FailFails
<1> QED BY <1>1, <1>6, <1>7, <1>8

LEMMA CilStackStep ==
  ASSUME LowererOK(method, graph, lower), method \in Seq(Instructions), LowerCilStack
  PROVE  Advanced \/ Failed
<1>1. PICK op :
        /\ Lowering(op)
        /\ \/ Depth > 0 /\ Emit(<<>>, Append(lower.stack, Nth(0)))
           \/ Depth > 0 /\ Emit(<<>>, Under(1))
           \/ Fail
  BY DEF LowerCilStack
<1>2. CASE Fail
  BY <1>1, <1>2, FailFails
<1>3. CASE Depth > 0
  <2>1. 1 \in 0..Depth /\ 0 \in 0..Depth - 1
    BY <1>3, StackFacts
  <2>2. Append(lower.stack, Nth(0)) \in Seq(1..Len(graph)) /\ Under(1) \in Seq(1..Len(graph))
    BY <2>1, StackFacts, AppendProperties
  <2>3. CASE Emit(<<>>, Append(lower.stack, Nth(0)))
    BY <1>1, <2>2, <2>3, OpFields, EmitNothing
  <2>4. CASE Emit(<<>>, Under(1))
    BY <1>1, <2>2, <2>4, OpFields, EmitNothing
  <2> QED BY <1>1, <1>2, <2>3, <2>4
<1> QED BY <1>1, <1>2, <1>3

LEMMA CilPureStep ==
  ASSUME LowererOK(method, graph, lower), method \in Seq(Instructions), LowerCilPure
  PROVE  Advanced \/ Failed
<1>1. PICK op \in {"cil_binary", "compare", "conv_to"} :
        /\ Lowering(op)
        /\ op = "cil_binary" => Op.kind \in LoweredArithmetic
        /\ \E kind \in {IF op = "conv_to" THEN CASE Op.to = "int" -> "ConvI4" [] Op.to = "long" -> "ConvI8"
                                                 [] Op.to = "float" -> "ConvR8"
                        ELSE Op.kind} :
             EmitPure(kind, IF op = "conv_to" THEN 1 ELSE 2)
  BY DEF LowerCilPure
<1> DEFINE arity == IF op = "conv_to" THEN 1 ELSE 2
<1>2. PICK kind \in {IF op = "conv_to" THEN CASE Op.to = "int" -> "ConvI4" [] Op.to = "long" -> "ConvI8"
                                              [] Op.to = "float" -> "ConvR8"
                     ELSE Op.kind} :
        EmitPure(kind, arity)
  BY <1>1
<1>3. CASE ~(Depth >= arity)
  BY <1>1, <1>2, <1>3, FailFails DEF EmitPure
<1>4. CASE Depth >= arity
  <2>1. /\ lower.status = "lowering" /\ lower.pc < Len(method) /\ Len(method) \in Nat
        /\ Op \in Instructions /\ Op.op = op
    BY <1>1, OpFields
  <2>2. /\ Op.op = "compare" => Op.kind \in {"Eq", "Lt", "Gt"}
        /\ Op.op = "conv_to" => Op.to \in ValueTypes
    BY <2>1, InstructionFields
  <2>3. kind \in PureLowered
    BY <1>1, <1>2, <2>1, <2>2 DEF PureLowered, ValueTypes, LoweredArithmetic, IntKinds
  <2>4. arity \in 0..Depth
    BY <1>4, StackFacts
  <2>5. Emit(<<PureNode(kind, Operands(arity))>>, Append(Under(arity), NextId))
    BY <1>2, <1>4 DEF EmitPure
  <2> HIDE DEF arity
  <2> QED BY <2>1, <2>3, <2>4, <2>5, PureOnTop
<1> QED BY <1>3, <1>4

LEMMA BrIfStep ==
  ASSUME LowererOK(method, graph, lower), method \in Seq(Instructions), LowerBrIf
  PROVE  Advanced \/ Failed
<1>1. Lowering("br_if")
  BY DEF LowerBrIf
<1>2. CASE Depth = 0
  BY <1>1, <1>2, FailFails DEF LowerBrIf
<1>3. CASE Depth # 0
  <2>1. /\ graph' = graph \o IfOn(Nth(0), NextId)
        /\ lower' = [lower EXCEPT !.pc = @ + 1, !.stack = Under(1), !.ctrl = NextId]
    BY <1>3 DEF LowerBrIf
  <2>2. /\ lower.status = "lowering" /\ lower.pc < Len(method) /\ Len(method) \in Nat
        /\ NextId = Len(graph) + 1 /\ Len(graph) \in Nat
    BY <1>1, OpFields
  <2>3. 1 \in 0..Depth /\ 0 \in 0..Depth - 1
    BY <1>3, StackFacts
  <2>4. Nth(0) \in 1..Len(graph) /\ LoweredGraph(graph) /\ Len(graph) >= Len(graph)
    <3>1. Nth(0) \in 1..Len(graph)
      BY <2>3, StackFacts
    <3> QED BY <2>2, <3>1 DEF LowererOK
  <2> DEFINE branch == IfOn(Nth(0), NextId)
             stack == Under(1)
  <2>5. branch = <<NewNode("If", <<Nth(0)>>, lower.ctrl, NoId),
                   NewNode("IfTrue", <<>>, Len(graph) + 1, NoId),
                   NewNode("IfFalse", <<>>, Len(graph) + 1, NoId)>>
    BY <2>2 DEF IfOn
  <2>6. /\ graph' = graph \o branch /\ stack = Under(1)
        /\ lower' = [lower EXCEPT !.pc = @ + 1, !.stack = stack, !.ctrl = Len(graph) + 1]
    BY <2>1, <2>2
  <2> HIDE DEF branch, stack
  <2> QED BY <2>2, <2>3, <2>4, <2>5, <2>6, BranchAdvances
<1> QED BY <1>2, <1>3

LEMMA BrCmpStep ==
  ASSUME LowererOK(method, graph, lower), method \in Seq(Instructions), LowerBrCmp
  PROVE  Advanced \/ Failed
<1>1. Lowering("br_cmp")
  BY DEF LowerBrCmp
<1>2. CASE Depth < 2
  BY <1>1, <1>2, FailFails DEF LowerBrCmp
<1>3. CASE ~(Depth < 2)
  <2> DEFINE x == PureNode(Op.kind, Operands(2))
             g == graph \o <<x>>
             branch == IfOn(NextId, NextId + 1)
             stack == Under(2)
  <2>1. /\ graph' = graph \o <<x>> \o branch
        /\ lower' = [lower EXCEPT !.pc = @ + 1, !.stack = stack, !.ctrl = NextId + 1]
    BY <1>3 DEF LowerBrCmp
  <2>2. /\ lower.status = "lowering" /\ lower.pc < Len(method) /\ Len(method) \in Nat
        /\ Op \in Instructions /\ Op.op = "br_cmp" /\ NextId = Len(graph) + 1
        /\ Len(graph) \in Nat /\ LoweredGraph(graph)
    BY <1>1, OpFields DEF LowererOK
  <2>3. Op.kind \in PureLowered
    BY <2>2, InstructionFields DEF PureLowered
  <2>4. 2 \in 0..Depth
    BY <1>3, StackFacts
  <2>5. LoweredNode(x, Len(graph) + 1)
    <3>1. Len(graph) + 1 \in Nat \ {0} /\ (Len(graph) + 1) - 1 = Len(graph)
      BY <2>2
    <3>2. Operands(2) \in Seq(1..Len(graph))
      BY <2>4, StackFacts
    <3> QED BY <2>3, <3>1, <3>2, PureNodeLowered
  <2> HIDE DEF x
  <2>6. /\ LoweredGraph(g) /\ Len(g) = Len(graph) + 1
        /\ \A id \in 1..Len(graph) : g[id] = graph[id]
    BY <2>2, <2>5, AppendedOne
  <2>7. /\ NextId = Len(g) /\ NextId \in 1..Len(g) /\ Len(g) >= Len(graph)
    BY <2>2, <2>6
  <2>8. branch = <<NewNode("If", <<NextId>>, lower.ctrl, NoId),
                   NewNode("IfTrue", <<>>, Len(g) + 1, NoId),
                   NewNode("IfFalse", <<>>, Len(g) + 1, NoId)>>
    BY <2>7 DEF IfOn
  <2>9. /\ graph' = g \o branch /\ stack = Under(2)
        /\ lower' = [lower EXCEPT !.pc = @ + 1, !.stack = stack, !.ctrl = Len(g) + 1]
    BY <2>1, <2>7
  <2> HIDE DEF g, branch, stack
  <2> QED BY <2>2, <2>4, <2>6, <2>7, <2>8, <2>9, BranchAdvances
<1> QED BY <1>2, <1>3

(* The end of the method: the verifier takes the graph.                         *)
LEMMA EndStep ==
  ASSUME LowererOK(method, graph, lower), LowerEnd
  PROVE  /\ LowererOK(method, graph', lower')
         /\ lower'.status = "lowered"
         /\ lower'.pc = lower.pc /\ lower'.locals = lower.locals
         /\ \A id \in 1..Len(graph) : graph'[id] = graph[id]
         /\ Len(graph') >= Len(graph)
<1> DEFINE nodes == IF Depth > 0 THEN <<ReturnOf(Nth(0))>> ELSE ReturnNull
           stack == IF Depth > 0 THEN Under(1) ELSE lower.stack
           status == IF Verified(graph') THEN "lowered" ELSE "failed"
<1>1. /\ graph' = graph \o nodes
      /\ lower' = [lower EXCEPT !.stack = stack, !.status = status]
  BY DEF LowerEnd
<1>2. nodes \in Seq(Nodes) /\ \A k \in 1..Len(nodes) : LoweredNode(nodes[k], Len(graph) + k)
  <2>1. CASE Depth > 0
    <3>1. 0 \in 0..Depth - 1
      BY <2>1, StackFacts
    <3>2. Nth(0) \in 1..Len(graph)
      BY <3>1, StackFacts
    <3>3. LoweredNode(ReturnOf(Nth(0)), Len(graph) + 1)
      BY <3>2, ReturnLowered
    <3> DEFINE r == ReturnOf(Nth(0))
    <3>4. r \in Nodes
      BY <3>3 DEF LoweredNode
    <3>5. nodes = <<r>>
      BY <2>1
    <3> HIDE DEF r, nodes
    <3>6. nodes \in Seq(Nodes) /\ Len(nodes) = 1 /\ nodes[1] = r
      BY <3>4, <3>5
    <3> QED BY <3>3, <3>6 DEF r
  <2>2. CASE ~(Depth > 0)
    BY <2>2, ReturnLowered
  <2> QED BY <2>1, <2>2
<1>3. stack \in Seq(1..Len(graph))
  <2>1. Depth > 0 => 1 \in 0..Depth
    BY StackFacts
  <2> QED BY <2>1, StackFacts
<1> HIDE DEF nodes, stack
<1>4. /\ LoweredGraph(graph') /\ Len(graph') = Len(graph) + Len(nodes) /\ Len(nodes) \in Nat
      /\ \A id \in 1..Len(graph) : graph'[id] = graph[id]
  BY <1>1, <1>2, Appended DEF LowererOK
<1>5. status = "lowered"
  BY <1>4, LoweredGraphVerifies
<1>6. /\ lower = [pc |-> lower.pc, stack |-> lower.stack, locals |-> lower.locals,
                  ctrl |-> lower.ctrl, eff |-> lower.eff, status |-> lower.status]
      /\ stack \in Seq(1..Len(graph'))
      /\ lower.locals \in [DOMAIN lower.locals -> 1..Len(graph')]
      /\ lower.ctrl \in 1..Len(graph') /\ lower.eff \in 1..Len(graph')
      /\ Len(graph') >= Len(graph)
  <2> DEFINE n == Len(nodes)
  <2>1. n \in Nat /\ Len(graph') = Len(graph) + n
    BY <1>4
  <2> HIDE DEF n
  <2>2. /\ lower = [pc |-> lower.pc, stack |-> lower.stack, locals |-> lower.locals,
                    ctrl |-> lower.ctrl, eff |-> lower.eff, status |-> lower.status]
        /\ \A s \in Seq(1..Len(graph)) : s \in Seq(1..Len(graph) + n)
        /\ 1..Len(graph) \subseteq 1..Len(graph) + n
        /\ lower.locals \in [DOMAIN lower.locals -> 1..Len(graph) + n]
        /\ lower.ctrl \in 1..Len(graph) /\ lower.eff \in 1..Len(graph)
        /\ Len(graph) \in Nat
    BY <2>1, LowerFields
  <2>3. Len(graph) + n >= Len(graph)
    BY <2>1, <2>2
  <2> QED BY <1>3, <2>1, <2>2, <2>3
<1>7. lower' = [pc |-> lower.pc, stack |-> stack, locals |-> lower.locals, ctrl |-> lower.ctrl,
                eff |-> lower.eff, status |-> "lowered"]
  BY <1>1, <1>5, <1>6
<1>8. lower.pc \in 0..Len(method)
  BY DEF LowererOK
<1>9. LowererOK(method, graph', lower')
  BY <1>4, <1>6, <1>7, <1>8 DEF LowererOK
<1> QED BY <1>4, <1>6, <1>7, <1>9

(* A step of either lowerer.                                                    *)
LEMMA LowerStep ==
  ASSUME LowererOK(method, graph, lower), method \in Seq(Instructions),
         LowerNext \/ CilLowerNext
  PROVE  Advanced \/ Failed \/ LowerEnd
<1>1. CASE LowerConst
  BY <1>1, ConstStep
<1>2. CASE LowerLoad \/ LowerLdLoc \/ LowerStore \/ LowerStLoc
  BY <1>2, SlotStep
<1>3. CASE LowerIinc
  BY <1>3, IincStep
<1>4. CASE LowerStackOp
  BY <1>4, StackOpStep
<1>5. CASE LowerPure
  BY <1>5, PureStep
<1>6. CASE LowerEffect
  BY <1>6, EffectStep
<1>7. CASE LowerIf
  BY <1>7, IfStep
<1>8. CASE LowerGoto \/ LowerBr
  BY <1>8, GotoStep
<1>9. CASE LowerReturn \/ LowerRet
  BY <1>9, ReturnStep
<1>10. CASE LowerSwitch \/ LowerUnsupported
  BY <1>10, SwitchStep
<1>11. CASE LowerLdC
  BY <1>11, LdCStep
<1>12. CASE LowerCilStack
  BY <1>12, CilStackStep
<1>13. CASE LowerCilPure
  BY <1>13, CilPureStep
<1>14. CASE LowerObject
  BY <1>14, ObjectStep
<1>15. CASE LowerBrIf
  BY <1>15, BrIfStep
<1>16. CASE LowerBrCmp
  BY <1>16, BrCmpStep
<1> QED
  BY <1>1, <1>2, <1>3, <1>4, <1>5, <1>6, <1>7, <1>8, <1>9, <1>10, <1>11, <1>12, <1>13, <1>14,
     <1>15, <1>16 DEF LowerNext, CilLowerNext

LEMMA LowerInitOK ==
  ASSUME NEW m, NEW locals \in Nat, NEW arguments \in Nat, LowerInit(locals, arguments),
         m \in Seq(Instructions)
  PROVE  LowererOK(m, graph, lower) /\ Len(graph) = locals + arguments + 1
<1> DEFINE start == NewNode("Start", <<>>, NoId, NoId)
           phi == PureNode("Phi", <<>>)
           n == locals + arguments
           phis == [k \in 1..n |-> phi]
<1>1. LoweredNode(start, 1)
  <2>1. <<>> \in Seq(Nat) /\ NoId \in Nat /\ "Start" \in LoweredKinds
    BY DEF NoId, LoweredKinds
  <2>2. start \in Nodes
    BY <2>1, NewNodeIsNode
  <2>3. /\ start.kind = "Start" /\ start.in = <<>> /\ start.ctrl = NoId /\ start.eff = NoId
        /\ start.flags = KindFlags("Start")
    BY NewNodeFields
  <2>4. "IsGuard" \notin KindFlags("Start") /\ "IsDead" \notin KindFlags("Start")
    BY <2>1, FlagsOfKinds
  <2> HIDE DEF start
  <2> QED BY <2>2, <2>3, <2>4 DEF LoweredNode, NoId
<1>2. n \in Nat
  OBVIOUS
<1>3. \A k \in 1..n : LoweredNode(phi, 1 + k)
  <2> SUFFICES ASSUME NEW k \in 1..n PROVE LoweredNode(phi, 1 + k)
    OBVIOUS
  <2>1. 1 + k \in Nat \ {0} /\ "Phi" \in PureLowered /\ <<>> \in Seq(1..(1 + k) - 1)
    BY <1>2 DEF PureLowered
  <2> QED BY <2>1, PureNodeLowered
<1> DEFINE g == <<start>>
<1>4. LoweredGraph(g) /\ Len(g) = 1 /\ g[1] = start
  <2>1. start \in Nodes
    BY <1>1 DEF LoweredNode
  <2> HIDE DEF start
  <2> QED BY <1>1, <2>1 DEF LoweredGraph
<1>5. phi \in Nodes \/ n = 0
  BY <1>2, <1>3 DEF LoweredNode
<1>6. phis \in Seq(Nodes) /\ Len(phis) = n /\ \A k \in 1..Len(phis) : LoweredNode(phis[k], Len(g) + k)
  <2> HIDE DEF phi, g, n
  <2> QED BY <1>2, <1>3, <1>4, <1>5
<1>7. graph = g \o phis
  BY DEF LowerInit, PureNode
<1>8. LoweredGraph(graph) /\ Len(graph) = 1 + n
  <2> HIDE DEF g, phis, n
  <2> QED BY <1>4, <1>6, <1>7, Appended
<1>9. lower = [pc |-> 0, stack |-> <<>>, locals |-> [l \in -arguments..locals - 1 |-> SlotNode(locals, l)],
               ctrl |-> 1, eff |-> 1, status |-> "lowering"]
  BY DEF LowerInit
<1>10. \A l \in -arguments..locals - 1 : SlotNode(locals, l) \in 1..1 + n
  BY DEF SlotNode
<1>11. Len(graph) = locals + arguments + 1
  BY <1>8
<1>12. Len(m) \in Nat /\ 0 \in 0..Len(m) /\ 1 \in 1..1 + n
  BY <1>2
<1>13. LowererOK(m, graph, lower)
  <2> HIDE DEF n
  <2> QED BY <1>8, <1>9, <1>10, <1>12 DEF LowererOK
<1> QED BY <1>11, <1>13

-----------------------------------------------------------------------------
(* The verifier takes whatever is lowered.                                      *)

LoweringOK ==
  /\ method \in Seq(Instructions)
  /\ lower.status = "lowering" => LowererOK(method, graph, lower) /\ done = 0
  /\ lower.status = "failed" => lower.pc < Len(method)

LEMMA MethodsAreCode ==
  \A m \in Methods : m.code \in Seq(Instructions) /\ m.locals \in Nat /\ m.args \in Nat
BY MethodsAssumption DEF Instructions

LEMMA LoweringInit ==
  ASSUME Init
  PROVE  LoweringOK
<1>1. CASE \E m \in Methods : method = m.code /\ LowerInit(m.locals, m.args) /\ source = graph
  <2>1. PICK m \in Methods : method = m.code /\ LowerInit(m.locals, m.args)
    BY <1>1
  <2>2. LowererOK(method, graph, lower) /\ method \in Seq(Instructions)
    BY <2>1, MethodsAreCode, LowerInitOK
  <2>3. lower.status = "lowering" /\ done = 0
    BY <2>1 DEF LowerInit, Init
  <2> QED BY <2>2, <2>3 DEF LoweringOK
<1>2. CASE method = NoCode /\ lower.status = "lowered"
  <2>1. method \in Seq(Instructions)
    BY <1>2 DEF NoCode
  <2> QED BY <1>2, <2>1 DEF LoweringOK
<1>3. \/ \E m \in Methods : method = m.code /\ LowerInit(m.locals, m.args) /\ source = graph
      \/ method = NoCode /\ lower.status = "lowered"
  <2> DEFINE first == \E m \in Methods : method = m.code /\ LowerInit(m.locals, m.args) /\ source = graph
  <2>1. CASE first
    BY <2>1
  <2>2. CASE ~first
    <3> HIDE DEF first
    <3>1. /\ method = NoCode
          /\ lower = [pc |-> 0, stack |-> <<>>, locals |-> <<>>, ctrl |-> 1, eff |-> 1,
                      status |-> "lowered"]
      <4>1. first \/ (/\ method = NoCode
                     /\ lower = [pc |-> 0, stack |-> <<>>, locals |-> <<>>, ctrl |-> 1, eff |-> 1,
                                 status |-> "lowered"])
        BY DEF Init, first
      <4> QED BY <2>2, <4>1
    <3> QED BY <3>1
  <2> QED BY <2>1, <2>2
<1> QED BY <1>1, <1>2, <1>3

LEMMA LoweringStep ==
  ASSUME LoweringOK, [Next]_vars
  PROVE  LoweringOK'
<1>1. CASE Lower
  <2>1. method \in Seq(Instructions) /\ method' = method /\ done' = done
        /\ (LowerNext \/ CilLowerNext)
    BY <1>1 DEF LoweringOK, Lower
  <2>2. lower.status = "lowering"
    BY <2>1 DEF LowerNext, CilLowerNext, Lowering, LowerConst, LowerLoad, LowerStore, LowerIinc,
       LowerStackOp, LowerPure, LowerEffect, LowerIf, LowerGoto, LowerReturn, LowerSwitch, LowerEnd,
       LowerLdC, LowerLdLoc, LowerStLoc, LowerCilStack, LowerCilPure, LowerObject, LowerBr,
       LowerBrIf, LowerBrCmp, LowerRet, LowerUnsupported
  <2>3. LowererOK(method, graph, lower) /\ done = 0
    BY <2>2 DEF LoweringOK
  <2>4. CASE Advanced
    BY <2>1, <2>3, <2>4 DEF Advanced, LoweringOK
  <2>5. CASE Failed
    <3>1. lower'.status = "failed" /\ lower'.pc < Len(method)
      BY <2>3, <2>5 DEF Failed, LowererOK
    <3> QED BY <2>1, <3>1 DEF LoweringOK
  <2>6. CASE LowerEnd
    <3>1. lower'.status = "lowered"
      BY <2>3, <2>6, EndStep
    <3> QED BY <2>1, <3>1 DEF LoweringOK
  <2> QED BY <2>1, <2>3, <2>4, <2>5, <2>6, LowerStep
<1>2. CASE Optimize \/ CompilePeak
  <2>1. lower.status = "lowered" /\ lower' = lower /\ method' = method
    BY <1>2 DEF Optimize, CompilePeak
  <2> QED BY <2>1 DEF LoweringOK
<1>3. CASE Call \/ Interpret \/ PassTraps
  <2>1. lower' = lower /\ method' = method /\ graph' = graph /\ done' = done
    BY <1>3 DEF Call, Interpret, PassTraps, lowerVars, pipeVars
  <2> QED BY <2>1 DEF LoweringOK
<1>4. CASE UNCHANGED vars
  <2>1. lower' = lower /\ method' = method /\ graph' = graph /\ done' = done
    BY <1>4 DEF vars, lowerVars, pipeVars
  <2> QED BY <2>1 DEF LoweringOK
<1> QED BY <1>1, <1>2, <1>3, <1>4 DEF Next

LEMMA LoweringAlwaysOK == Spec => []LoweringOK
<1>1. Init => LoweringOK
  BY LoweringInit
<1>2. LoweringOK /\ [Next]_vars => LoweringOK'
  BY LoweringStep
<1> QED BY <1>1, <1>2, PTL DEF Spec

(* Whatever method is lowered, the verification at the end of lower finds       *)
(* nothing: a method that is refused is refused at one of its instructions.     *)
THEOREM LoweringAlwaysVerifies == Spec => []LoweringIsVerified
<1>1. LoweringOK => LoweringIsVerified
  BY DEF LoweringOK, LoweringIsVerified
<1> QED BY <1>1, LoweringAlwaysOK, PTL

-----------------------------------------------------------------------------
(* What the lowerers build has its branches in order: If, IfTrue and IfFalse    *)
(* come one after the other, and no node has an If as an operand.               *)

Values(g) == {id \in 1..Len(g) : g[id].kind # "If"}

BranchNode(g, id) ==
  /\ \A k \in 1..Len(g[id].in) : g[id].in[k] \in Values(g)
  /\ g[id].kind = "If" => id + 2 <= Len(g) /\ g[id + 1].kind = "IfTrue" /\ g[id + 2].kind = "IfFalse"
  /\ g[id].kind = "IfTrue" => g[id].ctrl = id - 1
  /\ g[id].kind = "IfFalse" => g[id].ctrl = id - 2
  /\ g[id].kind \in {"IfTrue", "IfFalse"} => g[id].flags = KindFlags(g[id].kind)

Branches(g) == \A id \in 1..Len(g) : BranchNode(g, id)

Tidy(g, l) ==
  /\ Branches(g)
  /\ l.stack \in Seq(Values(g))
  /\ l.locals \in [DOMAIN l.locals -> Values(g)]

Extends(g, h) == Len(h) >= Len(g) /\ \A id \in 1..Len(g) : h[id] = g[id]

LEMMA ValuesGrow ==
  ASSUME NEW g, LoweredGraph(g), NEW h, LoweredGraph(h), Extends(g, h)
  PROVE  /\ Values(g) \subseteq Values(h) /\ \A s \in Seq(Values(g)) : s \in Seq(Values(h))
         /\ Values(g) \subseteq 1..Len(g) /\ 1..Len(g) \subseteq 1..Len(h)
<1>1. Len(g) \in Nat /\ Len(h) \in Nat
  BY DEF LoweredGraph
<1>2. Values(g) \subseteq Values(h) /\ Values(g) \subseteq 1..Len(g) /\ 1..Len(g) \subseteq 1..Len(h)
  BY <1>1 DEF Values, Extends
<1> QED BY <1>2, SeqMonotonic

(* The nodes that were there stay as they are, so only new ones count.          *)
LEMMA BranchesGrow ==
  ASSUME NEW g, LoweredGraph(g), NEW h, LoweredGraph(h), Extends(g, h), Branches(g),
         \A id \in Len(g) + 1..Len(h) : BranchNode(h, id)
  PROVE  Branches(h)
<1>1. Len(g) \in Nat /\ Len(h) \in Nat /\ Len(h) >= Len(g)
  BY DEF LoweredGraph, Extends
<1>2. ASSUME NEW id \in 1..Len(g) PROVE BranchNode(h, id)
  <2>1. h[id] = g[id] /\ BranchNode(g, id)
    BY DEF Extends, Branches
  <2>2. Values(g) \subseteq Values(h)
    BY ValuesGrow
  <2>3. ASSUME g[id].kind = "If"
        PROVE  id + 2 <= Len(h) /\ h[id + 1].kind = "IfTrue" /\ h[id + 2].kind = "IfFalse"
    <3>1. id + 2 <= Len(g) /\ g[id + 1].kind = "IfTrue" /\ g[id + 2].kind = "IfFalse"
      BY <2>1, <2>3 DEF BranchNode
    <3>2. id + 1 \in 1..Len(g) /\ id + 2 \in 1..Len(g)
      BY <1>1, <3>1
    <3>3. h[id + 1] = g[id + 1] /\ h[id + 2] = g[id + 2]
      BY <3>2 DEF Extends
    <3> QED BY <1>1, <3>1, <3>3
  <2> QED BY <2>1, <2>2, <2>3 DEF BranchNode
<1>3. \A id \in 1..Len(h) : id \in 1..Len(g) \/ id \in Len(g) + 1..Len(h)
  BY <1>1
<1> QED BY <1>2, <1>3 DEF Branches

LEMMA NotFailed ==
  ASSUME LowererOK(method, graph, lower), Advanced
  PROVE  ~Fail
<1>1. lower'.status = "lowering"
  BY DEF Advanced
<1>2. Fail => lower'.status = "failed"
  BY DEF Fail, LowererOK
<1> QED BY <1>1, <1>2

LEMMA OnTop ==
  ASSUME LowererOK(method, graph, lower), Depth > 0
  PROVE  /\ lower.stack # <<>> /\ Under(1) = Front(lower.stack) /\ Nth(0) = Last(lower.stack)
         /\ Operands(1) = <<Last(lower.stack)>>
<1> DEFINE s == lower.stack
           S == 1..Len(graph)
<1>1. s \in Seq(S) /\ Len(s) \in Nat /\ Len(s) > 0
  BY StackFacts DEF Depth
<1>2. Len(s) - 0 = Len(s)
  BY <1>1
<1>3. 1 \in 0..Depth
  BY <1>1 DEF Depth
<1>4. Operands(1) \in Seq(S) /\ Len(Operands(1)) = 1
      /\ \A i \in 1..1 : Operands(1)[i] = s[Depth - 1 + i]
  BY <1>3, StackFacts
<1>5. Depth - 1 + 1 = Depth /\ 1 \in 1..1
  BY <1>1 DEF Depth
<1>6. Operands(1)[1] = Last(s)
  BY <1>4, <1>5 DEF Last, Depth
<1>7. Operands(1) = <<Last(s)>>
  BY <1>4, <1>6
<1> QED BY <1>1, <1>2, <1>7 DEF Under, Nth, Depth, Front, Last

LEMMA AppendedAny ==
  ASSUME NEW g, LoweredGraph(g), NEW nodes, NEW T, nodes \in Seq(T)
  PROVE  /\ Len(g \o nodes) = Len(g) + Len(nodes)
         /\ \A k \in 1..Len(nodes) : (g \o nodes)[Len(g) + k] = nodes[k]
<1> DEFINE S == Nodes \cup T
           h == g \o nodes
<1>1. g \in Seq(S) /\ nodes \in Seq(S) /\ Len(g) \in Nat /\ Len(nodes) \in Nat
  <2>1. g \in Seq(Nodes) /\ Nodes \subseteq S /\ T \subseteq S
    BY DEF LoweredGraph
  <2> HIDE DEF S
  <2> QED BY <2>1, SeqMonotonic, LenProperties
<1>2. /\ Len(h) = Len(g) + Len(nodes)
      /\ \A i \in 1..Len(g) + Len(nodes) : h[i] = IF i <= Len(g) THEN g[i] ELSE nodes[i - Len(g)]
  <2> HIDE DEF S
  <2> QED BY <1>1, ConcatProperties
<1> HIDE DEF h
<1>3. ASSUME NEW k \in 1..Len(nodes) PROVE h[Len(g) + k] = nodes[k]
  <2>1. Len(g) + k \in 1..Len(g) + Len(nodes) /\ ~(Len(g) + k <= Len(g))
        /\ (Len(g) + k) - Len(g) = k
    BY <1>1
  <2> QED BY <1>2, <2>1
<1> QED BY <1>2, <1>3 DEF h

LEMMA PlainAdded ==
  ASSUME NEW g, LoweredGraph(g), NEW h, LoweredGraph(h), Branches(g), NEW n, h = g \o <<n>>,
         n.kind \notin BranchLowered, \A k \in 1..Len(n.in) : n.in[k] \in Values(g)
  PROVE  Extends(g, h) /\ Branches(h) /\ Len(h) = Len(g) + 1 /\ Len(h) \in Values(h)
<1> DEFINE nodes == <<n>>
<1>1. nodes \in Seq({n}) /\ Len(nodes) = 1 /\ nodes[1] = n
  OBVIOUS
<1>2. Len(g) \in Nat /\ Len(h) \in Nat /\ h = g \o nodes /\ g \in Seq(Nodes)
  BY DEF LoweredGraph
<1> HIDE DEF nodes
<1>3. Len(h) = Len(g) + 1 /\ h[Len(g) + 1] = n
  BY <1>1, <1>2, AppendedAny
<1>4. Extends(g, h)
  <2> DEFINE S == Nodes \cup {n}
  <2>1. g \in Seq(S) /\ nodes \in Seq(S)
    <3>1. Nodes \subseteq S /\ {n} \subseteq S
      OBVIOUS
    <3> HIDE DEF S
    <3> QED BY <1>1, <1>2, <3>1, SeqMonotonic
  <2>2. \A i \in 1..Len(g) + Len(nodes) : h[i] = IF i <= Len(g) THEN g[i] ELSE nodes[i - Len(g)]
    <3> HIDE DEF S
    <3> QED BY <1>2, <2>1, ConcatProperties
  <2> QED BY <1>1, <1>2, <1>3, <2>2 DEF Extends
<1>5. n.kind # "If" /\ n.kind # "IfTrue" /\ n.kind # "IfFalse"
  BY DEF BranchLowered
<1> DEFINE e == Len(h)
<1>6. h[e] = n /\ e \in 1..Len(h) /\ \A id \in Len(g) + 1..Len(h) : id = e
  BY <1>2, <1>3
<1>7. Values(g) \subseteq Values(h)
  BY <1>4, ValuesGrow
<1> HIDE DEF e
<1>8. BranchNode(h, e)
  BY <1>5, <1>6, <1>7 DEF BranchNode
<1>9. Branches(h)
  BY <1>4, <1>6, <1>8, BranchesGrow
<1>10. e \in Values(h)
  BY <1>5, <1>6 DEF Values
<1> QED BY <1>3, <1>4, <1>9, <1>10 DEF e

LEMMA BranchAdded ==
  ASSUME NEW g, LoweredGraph(g), NEW h, LoweredGraph(h), Branches(g), NEW cond \in Values(g),
         NEW ctrl, NEW branch,
         branch = <<NewNode("If", <<cond>>, ctrl, NoId),
                    NewNode("IfTrue", <<>>, Len(g) + 1, NoId),
                    NewNode("IfFalse", <<>>, Len(g) + 1, NoId)>>,
         h = g \o branch
  PROVE  Extends(g, h) /\ Branches(h)
<1> DEFINE n == Len(g)
           a == NewNode("If", <<cond>>, ctrl, NoId)
           b == NewNode("IfTrue", <<>>, n + 1, NoId)
           c == NewNode("IfFalse", <<>>, n + 1, NoId)
<1>1. n \in Nat /\ Len(h) \in Nat /\ g \in Seq(Nodes)
  BY DEF LoweredGraph
<1>2. branch = <<a, b, c>>
  OBVIOUS
<1>3. /\ a.kind = "If" /\ a.in = <<cond>>
      /\ b.kind = "IfTrue" /\ b.in = <<>> /\ b.ctrl = n + 1 /\ b.flags = KindFlags("IfTrue")
      /\ c.kind = "IfFalse" /\ c.in = <<>> /\ c.ctrl = n + 1 /\ c.flags = KindFlags("IfFalse")
  BY NewNodeFields
<1> HIDE DEF a, b, c
<1>31. /\ \A k \in 1..Len(a.in) : a.in[k] = cond
       /\ \A k \in 1..Len(b.in) : FALSE
       /\ \A k \in 1..Len(c.in) : FALSE
  <2>1. Len(<<cond>>) = 1 /\ <<cond>>[1] = cond /\ Len(<<>>) = 0
    OBVIOUS
  <2>2. \A k \in 1..0 : FALSE
    OBVIOUS
  <2>3. \A k \in 1..1 : k = 1
    OBVIOUS
  <2> QED BY <1>3, <2>1, <2>2, <2>3
<1>4. branch \in Seq({a, b, c}) /\ Len(branch) = 3 /\ branch[1] = a /\ branch[2] = b /\ branch[3] = c
  BY <1>2
<1>5. Len(h) = n + 3 /\ h[n + 1] = a /\ h[n + 2] = b /\ h[n + 3] = c
  <2>1. /\ Len(h) = Len(g) + Len(branch)
        /\ \A k \in 1..Len(branch) : h[Len(g) + k] = branch[k]
    BY <1>4, AppendedAny
  <2>2. 1 \in 1..3 /\ 2 \in 1..3 /\ 3 \in 1..3
    OBVIOUS
  <2> QED BY <1>4, <2>1, <2>2
<1>6. Extends(g, h)
  <2> DEFINE S == Nodes \cup {a, b, c}
  <2>1. g \in Seq(S) /\ branch \in Seq(S)
    <3>1. Nodes \subseteq S /\ {a, b, c} \subseteq S
      OBVIOUS
    <3> HIDE DEF S
    <3> QED BY <1>1, <1>4, <3>1, SeqMonotonic
  <2>2. \A i \in 1..Len(g) + Len(branch) : h[i] = IF i <= Len(g) THEN g[i] ELSE branch[i - Len(g)]
    <3> HIDE DEF S
    <3> QED BY <2>1, ConcatProperties
  <2> QED BY <1>1, <1>4, <1>5, <2>2 DEF Extends
<1>7. Values(g) \subseteq Values(h)
  BY <1>6, ValuesGrow
<1>8. BranchNode(h, n + 1)
  <2> DEFINE x == n + 1
  <2>1. x + 2 <= Len(h) /\ x + 1 = n + 2 /\ x + 2 = n + 3
    BY <1>1, <1>5
  <2>2. h[x] = a /\ h[x + 1] = b /\ h[x + 2] = c
    BY <1>5, <2>1
  <2>3. \A k \in 1..Len(a.in) : a.in[k] \in Values(h)
    BY <1>31, <1>7
  <2> HIDE DEF x
  <2>4. BranchNode(h, x)
    BY <1>3, <2>1, <2>2, <2>3 DEF BranchNode
  <2> QED BY <2>4 DEF x
<1>9. BranchNode(h, n + 2)
  <2> DEFINE x == n + 2
  <2>1. x - 1 = n + 1 /\ h[x] = b
    BY <1>1, <1>5
  <2> HIDE DEF x
  <2>2. BranchNode(h, x)
    BY <1>3, <1>31, <2>1 DEF BranchNode
  <2> QED BY <2>2 DEF x
<1>10. BranchNode(h, n + 3)
  <2> DEFINE x == n + 3
  <2>1. x - 2 = n + 1 /\ h[x] = c
    BY <1>1, <1>5
  <2> HIDE DEF x
  <2>2. BranchNode(h, x)
    BY <1>3, <1>31, <2>1 DEF BranchNode
  <2> QED BY <2>2 DEF x
<1>11. \A id \in n + 1..Len(h) : id = n + 1 \/ id = n + 2 \/ id = n + 3
  BY <1>1, <1>5
<1>12. \A id \in Len(g) + 1..Len(h) : BranchNode(h, id)
  BY <1>8, <1>9, <1>10, <1>11
<1> QED BY <1>6, <1>12, BranchesGrow

(* The stack of a tidy lowering.                                                *)
LEMMA KindsApart ==
  /\ PureLowered \cap BranchLowered = {} /\ EffectLowered \cap BranchLowered = {}
  /\ "Start" \notin BranchLowered
BY DEF PureLowered, EffectLowered, BranchLowered, IntKinds, EffectOps, ObjectKinds

LEMMA TidyStack ==
  ASSUME LowererOK(method, graph, lower), Tidy(graph, lower)
  PROVE  /\ Depth \in Nat /\ lower.stack \in Seq(Values(graph))
         /\ \A k \in 0..Depth : /\ Under(k) \in Seq(Values(graph))
                                /\ Operands(k) \in Seq(Values(graph))
         /\ \A k \in 0..Depth - 1 : Nth(k) \in Values(graph)
BY StackIn DEF Tidy

(* Steps that append nothing.                                                   *)
LEMMA TidyStays ==
  ASSUME Tidy(graph, lower), graph' = graph, lower'.stack \in Seq(Values(graph)),
         lower'.locals \in [DOMAIN lower'.locals -> Values(graph)]
  PROVE  Tidy(graph', lower')
BY DEF Tidy

(* Steps that append one node.                                                  *)
LEMMA TidyOne ==
  ASSUME LowererOK(method, graph, lower), Tidy(graph, lower), Advanced,
         NEW n, graph' = graph \o <<n>>, n.kind \notin BranchLowered,
         \A k \in 1..Len(n.in) : n.in[k] \in Values(graph),
         NEW s \in Seq(Values(graph)), lower'.stack \in {s, Append(s, NextId)},
         lower'.locals = lower.locals
  PROVE  Tidy(graph', lower')
<1>1. LoweredGraph(graph) /\ LoweredGraph(graph') /\ Branches(graph)
  BY DEF LowererOK, Advanced, Tidy
<1>2. Extends(graph, graph') /\ Branches(graph') /\ Len(graph') = NextId /\ Len(graph') \in Values(graph')
  BY <1>1, PlainAdded DEF NextId
<1>3. Values(graph) \subseteq Values(graph') /\ s \in Seq(Values(graph'))
  BY <1>1, <1>2, ValuesGrow
<1>4. Append(s, NextId) \in Seq(Values(graph'))
  BY <1>2, <1>3, AppendProperties
<1>5. lower'.locals \in [DOMAIN lower'.locals -> Values(graph')]
  <2>1. lower.locals \in [DOMAIN lower.locals -> Values(graph)]
    BY DEF Tidy
  <2> QED BY <1>3, <2>1
<1> QED BY <1>2, <1>3, <1>4, <1>5 DEF Tidy

(* The stack and the slots after Emit.                                          *)
LEMMA EmitFields ==
  ASSUME LowererOK(method, graph, lower), NEW nodes, NEW stack, Emit(nodes, stack)
  PROVE  graph' = graph \o nodes /\ lower'.stack = stack /\ lower'.locals = lower.locals
<1>1. lower = [pc |-> lower.pc, stack |-> lower.stack, locals |-> lower.locals,
               ctrl |-> lower.ctrl, eff |-> lower.eff, status |-> lower.status]
  BY DEF LowererOK
<1> QED BY <1>1 DEF Emit

LEMMA EmitTidy ==
  ASSUME LowererOK(method, graph, lower), Tidy(graph, lower),
         NEW s \in Seq(Values(graph)), Emit(<<>>, s)
  PROVE  Tidy(graph', lower')
<1>1. graph' = graph \o <<>> /\ lower'.stack = s /\ lower'.locals = lower.locals
  BY EmitFields
<1>2. graph \o <<>> = graph
  BY ConcatEmptySeq DEF LowererOK, LoweredGraph
<1>3. lower'.locals \in [DOMAIN lower'.locals -> Values(graph)]
  BY <1>1 DEF Tidy
<1> QED BY <1>1, <1>2, <1>3, TidyStays

LEMMA EmitOneTidy ==
  ASSUME LowererOK(method, graph, lower), Tidy(graph, lower), Advanced,
         NEW n, n.kind \in PureLowered \cup EffectLowered,
         \A k \in 1..Len(n.in) : n.in[k] \in Values(graph),
         NEW s \in Seq(Values(graph)), NEW stack \in {s, Append(s, NextId)}, Emit(<<n>>, stack)
  PROVE  Tidy(graph', lower')
<1>1. graph' = graph \o <<n>> /\ lower'.stack = stack /\ lower'.locals = lower.locals
  BY EmitFields
<1>2. n.kind \notin BranchLowered
  BY KindsApart
<1> QED BY <1>1, <1>2, TidyOne

LEMMA ConstNodes ==
  ASSUME NEW v
  PROVE  /\ PureNode("LdNull", <<>>).kind \in PureLowered /\ ConstInt(v).kind \in PureLowered
         /\ ConstFloat(v).kind \in PureLowered
         /\ PureNode("LdNull", <<>>).in = <<>> /\ ConstInt(v).in = <<>> /\ ConstFloat(v).in = <<>>
<1>1. "LdNull" \in PureLowered /\ "ConstInt" \in PureLowered /\ "ConstFloat" \in PureLowered
  BY DEF PureLowered
<1> QED BY <1>1 DEF PureNode, NewNode, ConstInt, ConstFloat, Const

LEMMA NoInputs == ASSUME NEW in, in = <<>> PROVE \A k \in 1..Len(in) : FALSE
OBVIOUS

LEMMA ConstTidy ==
  ASSUME LowererOK(method, graph, lower), Tidy(graph, lower), Advanced, LowerConst \/ LowerLdC
  PROVE  Tidy(graph', lower')
<1>1. CASE \E n \in {PureNode("LdNull", <<>>), ConstFloat(Op.n), ConstInt(Op.n)} :
             Emit(<<n>>, Append(lower.stack, NextId))
  <2>1. PICK n \in {PureNode("LdNull", <<>>), ConstFloat(Op.n), ConstInt(Op.n)} :
               Emit(<<n>>, Append(lower.stack, NextId))
    BY <1>1
  <2>2. n.kind \in PureLowered \cup EffectLowered /\ n.in = <<>>
    BY ConstNodes
  <2>3. \A k \in 1..Len(n.in) : n.in[k] \in Values(graph)
    BY <2>2, NoInputs
  <2>4. lower.stack \in Seq(Values(graph))
    BY TidyStack
  <2> DEFINE stack == Append(lower.stack, NextId)
  <2>5. stack \in {lower.stack, Append(lower.stack, NextId)} /\ Emit(<<n>>, stack)
    BY <2>1
  <2> HIDE DEF stack
  <2> QED BY <2>2, <2>3, <2>4, <2>5, EmitOneTidy
<1>2. CASE Fail
  <2>1. lower'.status = "failed"
    BY <1>2 DEF Fail, LowererOK
  <2> QED BY <2>1 DEF Advanced
<1> QED BY <1>1, <1>2 DEF LowerConst, LowerLdC

LEMMA SlotTidy ==
  ASSUME LowererOK(method, graph, lower), Tidy(graph, lower), Advanced,
         LowerLoad \/ LowerLdLoc \/ LowerStore \/ LowerStLoc
  PROVE  Tidy(graph', lower')
<1>1. /\ KnownLocal(Op.n)
      /\ \/ Emit(<<>>, Append(lower.stack, lower.locals[Op.n]))
         \/ /\ Depth > 0 /\ UNCHANGED graph
            /\ lower' = [lower EXCEPT !.pc = @ + 1, !.stack = Under(1), !.locals[Op.n] = Nth(0)]
  BY NotFailed DEF LowerLoad, LowerLdLoc, LowerStore, LowerStLoc
<1>2. CASE Emit(<<>>, Append(lower.stack, lower.locals[Op.n]))
  <2>1. lower.locals[Op.n] \in Values(graph)
    BY <1>1 DEF Tidy, KnownLocal
  <2>2. Append(lower.stack, lower.locals[Op.n]) \in Seq(Values(graph))
    BY <2>1, TidyStack, AppendProperties
  <2> QED BY <1>2, <2>2, EmitTidy
<1>3. CASE /\ Depth > 0 /\ UNCHANGED graph
           /\ lower' = [lower EXCEPT !.pc = @ + 1, !.stack = Under(1), !.locals[Op.n] = Nth(0)]
  <2>1. 1 \in 0..Depth /\ 0 \in 0..Depth - 1
    BY <1>3, TidyStack
  <2>2. Under(1) \in Seq(Values(graph)) /\ Nth(0) \in Values(graph)
    BY <2>1, TidyStack
  <2> DEFINE locals == [lower.locals EXCEPT ![Op.n] = Nth(0)]
  <2>3. locals \in [DOMAIN locals -> Values(graph)]
    BY <2>2 DEF Tidy
  <2>4. lower'.stack = Under(1) /\ lower'.locals = locals
    BY <1>3 DEF LowererOK
  <2> HIDE DEF locals
  <2> QED BY <1>3, <2>2, <2>3, <2>4, TidyStays
<1> QED BY <1>1, <1>2, <1>3

LEMMA StackTidy ==
  ASSUME LowererOK(method, graph, lower), Tidy(graph, lower), Advanced,
         method \in Seq(Instructions),
         LowerStackOp \/ LowerCilStack \/ LowerGoto \/ LowerBr
  PROVE  Tidy(graph', lower')
<1>1. \/ Lowering("stack") /\ Depth >= Needs(Op.what) /\ Emit(<<>>, Shuffled(Op.what))
      \/ Depth > 0 /\ Emit(<<>>, Append(lower.stack, Nth(0)))
      \/ Depth > 0 /\ Emit(<<>>, Under(1))
      \/ Emit(<<>>, lower.stack)
  BY NotFailed DEF LowerStackOp, LowerCilStack, LowerGoto, LowerBr
<1>2. CASE Lowering("stack") /\ Depth >= Needs(Op.what) /\ Emit(<<>>, Shuffled(Op.what))
  <2>1. Op.what \in StackOps
    BY <1>2, OpFields, InstructionFields
  <2>2. Shuffled(Op.what) \in Seq(Values(graph))
    BY <1>2, <2>1, TidyStack, ShuffledIn
  <2> QED BY <1>2, <2>2, EmitTidy
<1>3. Depth > 0 => 1 \in 0..Depth /\ 0 \in 0..Depth - 1
  BY TidyStack
<1>4. Depth > 0 => Under(1) \in Seq(Values(graph)) /\ Append(lower.stack, Nth(0)) \in Seq(Values(graph))
  BY <1>3, TidyStack, AppendProperties
<1>5. CASE Depth > 0 /\ Emit(<<>>, Append(lower.stack, Nth(0)))
  BY <1>4, <1>5, EmitTidy
<1>6. CASE Depth > 0 /\ Emit(<<>>, Under(1))
  BY <1>4, <1>6, EmitTidy
<1>7. CASE Emit(<<>>, lower.stack)
  BY <1>7, TidyStack, EmitTidy
<1> QED BY <1>1, <1>2, <1>5, <1>6, <1>7

(* A node of any kind but a branch over the topmost operands.                   *)
LEMMA OperandsTidy ==
  ASSUME LowererOK(method, graph, lower), Tidy(graph, lower), Advanced,
         NEW n, n.kind \in PureLowered \cup EffectLowered, NEW k \in 0..Depth, n.in = Operands(k),
         graph' = graph \o <<n>>, lower'.stack \in {Under(k), Append(Under(k), NextId)},
         lower'.locals = lower.locals
  PROVE  Tidy(graph', lower')
<1>1. Operands(k) \in Seq(Values(graph)) /\ Under(k) \in Seq(Values(graph))
  BY TidyStack
<1>2. \A i \in 1..Len(n.in) : n.in[i] \in Values(graph)
  BY <1>1, ElementOfSeq
<1>3. n.kind \notin BranchLowered
  BY KindsApart
<1> QED BY <1>1, <1>2, <1>3, TidyOne

LEMMA PureTidy ==
  ASSUME LowererOK(method, graph, lower), Tidy(graph, lower), Advanced,
         method \in Seq(Instructions), LowerPure \/ LowerCilPure
  PROVE  Tidy(graph', lower')
<1>1. \E kind \in PureLowered, k \in 0..Depth :
        Emit(<<PureNode(kind, Operands(k))>>, Append(Under(k), NextId))
  <2>1. CASE LowerPure
    <3>1. PICK op \in {"binary", "neg", "cmp", "conv"} :
            /\ Lowering(op)
            /\ LET arity == IF op \in {"binary", "cmp"} THEN 2 ELSE 1
               IN  /\ Depth >= arity
                   /\ Emit(<<PureNode(PureKind, Operands(arity))>>, Append(Under(arity), NextId))
      BY <2>1, NotFailed DEF LowerPure
    <3>2. Op \in Instructions /\ Op.op = op
      BY <3>1, OpFields
    <3>3. /\ Op.op = "binary" => Op.kind \in IntKinds
          /\ Op.op = "conv" => Op.to \in ValueTypes
      BY <3>2, InstructionFields
    <3>4. PureKind \in PureLowered
      BY <3>1, <3>2, <3>3 DEF PureKind, PureLowered, ValueTypes
    <3>5. PICK k \in {1, 2} : Depth >= k /\ Emit(<<PureNode(PureKind, Operands(k))>>, Append(Under(k), NextId))
      BY <3>1
    <3>6. k \in 0..Depth
      BY <3>5, StackFacts
    <3> QED BY <3>4, <3>5, <3>6
  <2>2. CASE LowerCilPure
    <3>1. PICK op \in {"cil_binary", "compare", "conv_to"} :
            /\ Lowering(op)
            /\ op = "cil_binary" => Op.kind \in LoweredArithmetic
            /\ \E kind \in {IF op = "conv_to" THEN CASE Op.to = "int" -> "ConvI4" [] Op.to = "long" -> "ConvI8"
                                                     [] Op.to = "float" -> "ConvR8"
                            ELSE Op.kind} :
                 EmitPure(kind, IF op = "conv_to" THEN 1 ELSE 2)
      BY <2>2 DEF LowerCilPure
    <3>2. PICK kind \in {IF op = "conv_to" THEN CASE Op.to = "int" -> "ConvI4" [] Op.to = "long" -> "ConvI8"
                                                  [] Op.to = "float" -> "ConvR8"
                         ELSE Op.kind} :
            EmitPure(kind, IF op = "conv_to" THEN 1 ELSE 2)
      BY <3>1
    <3>3. Op \in Instructions /\ Op.op = op
      BY <3>1, OpFields
    <3>4. /\ Op.op = "compare" => Op.kind \in {"Eq", "Lt", "Gt"}
          /\ Op.op = "conv_to" => Op.to \in ValueTypes
      BY <3>3, InstructionFields
    <3>5. kind \in PureLowered
      BY <3>1, <3>2, <3>3, <3>4 DEF PureLowered, ValueTypes, LoweredArithmetic, IntKinds
    <3>6. PICK k \in {1, 2} : Depth >= k /\ Emit(<<PureNode(kind, Operands(k))>>, Append(Under(k), NextId))
      BY <3>2, NotFailed DEF EmitPure
    <3>7. k \in 0..Depth
      BY <3>6, StackFacts
    <3> QED BY <3>5, <3>6, <3>7
  <2> QED BY <2>1, <2>2
<1>2. PICK kind \in PureLowered, k \in 0..Depth :
        Emit(<<PureNode(kind, Operands(k))>>, Append(Under(k), NextId))
  BY <1>1
<1> DEFINE n == PureNode(kind, Operands(k))
<1>3. n.kind = kind /\ n.in = Operands(k)
  BY NewNodeFields DEF PureNode
<1>4. graph' = graph \o <<n>> /\ lower'.stack = Append(Under(k), NextId) /\ lower'.locals = lower.locals
  BY <1>2, EmitFields
<1> HIDE DEF n
<1> QED BY <1>3, <1>4, OperandsTidy

LEMMA EffectTidy ==
  ASSUME LowererOK(method, graph, lower), Tidy(graph, lower), Advanced,
         method \in Seq(Instructions), LowerEffect \/ LowerObject
  PROVE  Tidy(graph', lower')
<1>1. \E kind \in EffectLowered, k \in 0..Depth : \E stack \in {Under(k), Append(Under(k), NextId)} :
        /\ graph' = Append(graph, NewNode(kind, Operands(k), lower.ctrl, lower.eff))
        /\ lower' = [lower EXCEPT !.pc = @ + 1, !.eff = NextId, !.stack = stack]
  <2>1. CASE LowerEffect
    <3>1. Lowering("effect") /\ ~(Depth < Op.pops)
      BY <2>1, NotFailed DEF LowerEffect
    <3>2. Op \in Instructions /\ Op.op = "effect"
      BY <3>1, OpFields
    <3>3. Op.kind \in EffectLowered /\ Op.pops \in Nat
      BY <3>2, InstructionFields DEF EffectLowered
    <3>4. Op.pops \in 0..Depth
      BY <3>1, <3>3, StackFacts
    <3> DEFINE stack == IF Op.pushes THEN Append(Under(Op.pops), NextId) ELSE Under(Op.pops)
    <3>5. /\ graph' = Append(graph, NewNode(Op.kind, Operands(Op.pops), lower.ctrl, lower.eff))
          /\ lower' = [lower EXCEPT !.pc = @ + 1, !.eff = NextId, !.stack = stack]
      BY <2>1, <3>1 DEF LowerEffect
    <3>6. stack \in {Under(Op.pops), Append(Under(Op.pops), NextId)}
      OBVIOUS
    <3> HIDE DEF stack
    <3> QED BY <3>3, <3>4, <3>5, <3>6
  <2>2. CASE LowerObject
    <3>1. Lowering("object") /\ Depth # 0
      BY <2>2, NotFailed DEF LowerObject
    <3>2. Op \in Instructions /\ Op.op = "object"
      BY <3>1, OpFields
    <3>3. Op.kind \in EffectLowered
      BY <3>2, InstructionFields DEF EffectLowered
    <3>4. 1 \in 0..Depth /\ Depth > 0
      BY <3>1, StackFacts
    <3>5. Operands(1) = <<Nth(0)>>
      BY <3>4, OnTop
    <3>6. /\ graph' = Append(graph, NewNode(Op.kind, Operands(1), lower.ctrl, lower.eff))
          /\ lower' = [lower EXCEPT !.pc = @ + 1, !.eff = NextId, !.stack = Append(Under(1), NextId)]
      BY <2>2, <3>1, <3>5 DEF LowerObject
    <3> QED BY <3>3, <3>4, <3>6
  <2> QED BY <2>1, <2>2
<1>2. PICK kind \in EffectLowered, k \in 0..Depth :
        \E stack \in {Under(k), Append(Under(k), NextId)} :
        /\ graph' = Append(graph, NewNode(kind, Operands(k), lower.ctrl, lower.eff))
        /\ lower' = [lower EXCEPT !.pc = @ + 1, !.eff = NextId, !.stack = stack]
  BY <1>1
<1>2a. PICK stack \in {Under(k), Append(Under(k), NextId)} :
        /\ graph' = Append(graph, NewNode(kind, Operands(k), lower.ctrl, lower.eff))
        /\ lower' = [lower EXCEPT !.pc = @ + 1, !.eff = NextId, !.stack = stack]
  BY <1>2
<1> DEFINE n == NewNode(kind, Operands(k), lower.ctrl, lower.eff)
<1>3. n.kind = kind /\ n.in = Operands(k)
  BY NewNodeFields
<1>4. lower'.stack = stack /\ lower'.locals = lower.locals
  BY <1>2a DEF LowererOK
<1>5. graph' = graph \o <<n>>
  <2> DEFINE S == Nodes \cup {n}
  <2>1. graph \in Seq(S) /\ n \in S
    <3>1. Nodes \subseteq S /\ graph \in Seq(Nodes) /\ n \in S
      BY DEF LowererOK, LoweredGraph
    <3> HIDE DEF S
    <3> QED BY <3>1, SeqMonotonic
  <2>2. graph' = Append(graph, n)
    BY <1>2a
  <2> HIDE DEF S, n
  <2> QED BY <2>1, <2>2, AppendIsConcat
<1> HIDE DEF n
<1> QED BY <1>2a, <1>3, <1>4, <1>5, OperandsTidy

(* A node without operands and one that may use it.                             *)
LEMMA TwoAdded ==
  ASSUME NEW g, LoweredGraph(g), NEW h, LoweredGraph(h), Branches(g),
         NEW a, NEW b, LoweredNode(a, Len(g) + 1), h = g \o <<a, b>>, b \in Nodes,
         a.kind \notin BranchLowered, b.kind \notin BranchLowered, a.in = <<>>,
         \A k \in 1..Len(b.in) : b.in[k] \in Values(g) \cup {Len(g) + 1}
  PROVE  Extends(g, h) /\ Branches(h) /\ Len(h) = Len(g) + 2 /\ Len(h) \in Values(h)
<1> DEFINE g1 == g \o <<a>>
<1>1. g \in Seq(Nodes) /\ a \in Nodes /\ Len(g) \in Nat
  BY DEF LoweredGraph, LoweredNode
<1>2. h = g1 \o <<b>>
  <2>1. <<a>> \in Seq(Nodes) /\ <<b>> \in Seq(Nodes)
    BY <1>1
  <2>2. <<a, b>> = Append(<<a>>, b)
    OBVIOUS
  <2>3. <<a, b>> = <<a>> \o <<b>>
    BY <1>1, <2>1, <2>2, AppendIsConcat
  <2> QED BY <1>1, <2>1, <2>3, ConcatAssociative
<1>3. LoweredGraph(g1)
  BY AppendedOne
<1>4. \A k \in 1..Len(a.in) : a.in[k] \in Values(g)
  BY NoInputs
<1> HIDE DEF g1
<1>5. Extends(g, g1) /\ Branches(g1) /\ Len(g1) = Len(g) + 1 /\ Len(g1) \in Values(g1)
  BY <1>3, <1>4, PlainAdded DEF g1
<1>6. Values(g) \subseteq Values(g1)
  BY <1>3, <1>5, ValuesGrow
<1>7. \A k \in 1..Len(b.in) : b.in[k] \in Values(g1)
  BY <1>5, <1>6
<1>8. Extends(g1, h) /\ Branches(h) /\ Len(h) = Len(g1) + 1 /\ Len(h) \in Values(h)
  BY <1>2, <1>3, <1>5, <1>7, PlainAdded
<1>9. Extends(g, h) /\ Len(h) = Len(g) + 2
  <2>1. \A id \in 1..Len(g) : id \in 1..Len(g1)
    BY <1>1, <1>5
  <2> QED BY <1>1, <1>5, <1>8, <2>1 DEF Extends
<1> QED BY <1>8, <1>9

LEMMA IincTidy ==
  ASSUME LowererOK(method, graph, lower), Tidy(graph, lower), Advanced,
         method \in Seq(Instructions), LowerIinc
  PROVE  Tidy(graph', lower')
<1>1. Lowering("iinc") /\ KnownLocal(Op.n)
  BY NotFailed DEF LowerIinc
<1> DEFINE c == ConstInt(Op.d)
           a == PureNode("Add", <<lower.locals[Op.n], NextId>>)
<1>2. graph' = graph \o <<c, a>>
      /\ lower' = [lower EXCEPT !.pc = @ + 1, !.locals[Op.n] = NextId + 1]
  BY <1>1 DEF LowerIinc
<1>3. Op \in Instructions /\ Op.op = "iinc" /\ NextId = Len(graph) + 1 /\ Len(graph) \in Nat
  BY <1>1, OpFields
<1>4. LoweredNode(c, Len(graph) + 1) /\ c.kind \notin BranchLowered /\ c.in = <<>>
  <2>1. Op.d \in Int /\ Len(graph) + 1 \in Nat \ {0}
    BY <1>3, InstructionFields
  <2>2. c.kind \in PureLowered /\ c.in = <<>>
    BY ConstNodes
  <2>3. LoweredNode(c, Len(graph) + 1)
    BY <2>1, ConstLowered
  <2> QED BY <2>2, <2>3, KindsApart
<1>5. lower.locals[Op.n] \in Values(graph)
  BY <1>1 DEF Tidy, KnownLocal
<1>6. Values(graph) \subseteq Nat
  BY DEF Values
<1>7. a \in Nodes /\ a.kind \notin BranchLowered /\ a.in = <<lower.locals[Op.n], NextId>>
  <2>1. "Add" \in PureLowered /\ "Add" \in LoweredKinds /\ NoId \in Nat
    BY DEF PureLowered, LoweredKinds, IntKinds, NoId
  <2> DEFINE in == <<lower.locals[Op.n], NextId>>
  <2>2. in \in Seq(Nat)
    BY <1>3, <1>5, <1>6
  <2>3. a = NewNode("Add", in, NoId, NoId) /\ "Add" \notin BranchLowered
    BY <2>1, KindsApart DEF PureNode
  <2> HIDE DEF in, a
  <2>4. a \in Nodes /\ a.kind = "Add" /\ a.in = in
    BY <2>1, <2>2, <2>3, NewNodeIsNode, NewNodeFields
  <2> QED BY <2>3, <2>4 DEF in
<1>8. \A k \in 1..Len(a.in) : a.in[k] \in Values(graph) \cup {Len(graph) + 1}
  <2> DEFINE x == lower.locals[Op.n]
             y == NextId
  <2>1. a.in = <<x, y>> /\ x \in Values(graph) /\ y = Len(graph) + 1
    BY <1>3, <1>5, <1>7
  <2> HIDE DEF a, x, y
  <2>2. Len(a.in) = 2 /\ a.in[1] = x /\ a.in[2] = y
    BY <2>1
  <2> QED BY <2>1, <2>2
<1> HIDE DEF a, c
<1>9. LoweredGraph(graph) /\ LoweredGraph(graph') /\ Branches(graph)
  BY DEF LowererOK, Advanced, Tidy
<1>10. /\ Extends(graph, graph') /\ Branches(graph') /\ Len(graph') = Len(graph) + 2
       /\ Len(graph') \in Values(graph')
  BY <1>2, <1>4, <1>7, <1>8, <1>9, TwoAdded
<1>11. Values(graph) \subseteq Values(graph') /\ lower.stack \in Seq(Values(graph'))
  BY <1>9, <1>10, ValuesGrow DEF Tidy
<1>12. NextId + 1 \in Values(graph')
  BY <1>3, <1>10
<1>13. /\ lower'.stack = lower.stack
       /\ lower'.locals = [lower.locals EXCEPT ![Op.n] = NextId + 1]
  BY <1>2 DEF LowererOK
<1>14. lower'.locals \in [DOMAIN lower'.locals -> Values(graph')]
  <2> DEFINE v == NextId + 1
  <2>1. v \in Values(graph') /\ lower'.locals = [lower.locals EXCEPT ![Op.n] = v]
    BY <1>12, <1>13
  <2>2. lower.locals \in [DOMAIN lower.locals -> Values(graph)]
    BY DEF Tidy
  <2> HIDE DEF v
  <2> QED BY <1>11, <2>1, <2>2
<1> QED BY <1>10, <1>11, <1>13, <1>14 DEF Tidy

(* A value or null is returned.                                                 *)
LEMMA ReturnAdded ==
  ASSUME LowererOK(method, graph, lower), Tidy(graph, lower), LoweredGraph(graph'),
         graph' = graph \o (IF Depth > 0 THEN <<ReturnOf(Nth(0))>> ELSE ReturnNull)
         \/ graph' = graph \o ReturnNull
  PROVE  Extends(graph, graph') /\ Branches(graph')
<1>1. LoweredGraph(graph) /\ Branches(graph) /\ Len(graph) \in Nat
  BY DEF LowererOK, Tidy, LoweredGraph
<1>2. "Return" \notin BranchLowered /\ "LdNull" \notin BranchLowered
  BY DEF BranchLowered
<1>3. CASE Depth > 0 /\ graph' = graph \o <<ReturnOf(Nth(0))>>
  <2> DEFINE n == ReturnOf(Nth(0))
  <2>1. n.kind = "Return" /\ n.in = <<Nth(0)>>
    BY NewNodeFields DEF ReturnOf
  <2>2. 0 \in 0..Depth - 1
    BY <1>3, TidyStack
  <2>3. Nth(0) \in Values(graph)
    BY <2>2, TidyStack
  <2>4. \A k \in 1..Len(n.in) : n.in[k] \in Values(graph)
    <3> DEFINE v == Nth(0)
    <3>1. n.in = <<v>> /\ v \in Values(graph)
      BY <2>1, <2>3
    <3> HIDE DEF n, v
    <3>2. Len(n.in) = 1 /\ n.in[1] = v
      BY <3>1
    <3> QED BY <3>1, <3>2
  <2>5. graph' = graph \o <<n>>
    BY <1>3
  <2> HIDE DEF n
  <2> QED BY <1>1, <1>2, <2>1, <2>4, <2>5, PlainAdded
<1>4. CASE graph' = graph \o ReturnNull
  <2> DEFINE a == PureNode("LdNull", <<>>)
             b == ReturnOf(NextId)
  <2>1. graph' = graph \o <<a, b>>
    BY <1>4 DEF ReturnNull
  <2>2. LoweredNode(a, Len(graph) + 1)
    BY <1>1, NullLowered
  <2>3. a.kind = "LdNull" /\ a.in = <<>> /\ b.kind = "Return" /\ b.in = <<NextId>>
    BY NewNodeFields DEF PureNode, ReturnOf
  <2>4. b \in Nodes
    <3>1. ReturnNull \in Seq(Nodes) /\ Len(ReturnNull) = 2
      BY ReturnLowered
    <3>2. ReturnNull[2] = b
      BY DEF ReturnNull
    <3>3. 2 \in 1..Len(ReturnNull)
      BY <3>1
    <3> HIDE DEF b
    <3> QED BY <3>1, <3>2, <3>3, ElementOfSeq
  <2>5. \A k \in 1..Len(b.in) : b.in[k] \in Values(graph) \cup {Len(graph) + 1}
    <3> DEFINE v == NextId
    <3>1. b.in = <<v>> /\ v = Len(graph) + 1
      BY <2>3 DEF NextId
    <3> HIDE DEF b, v
    <3>2. Len(b.in) = 1 /\ b.in[1] = v
      BY <3>1
    <3> QED BY <3>1, <3>2
  <2> HIDE DEF a, b
  <2> QED BY <1>1, <1>2, <2>1, <2>2, <2>3, <2>4, <2>5, TwoAdded
<1> QED BY <1>3, <1>4

LEMMA ReturnTidy ==
  ASSUME LowererOK(method, graph, lower), Tidy(graph, lower), Advanced,
         LowerReturn \/ LowerRet
  PROVE  Tidy(graph', lower')
<1>1. \/ Depth > 0 /\ Emit(<<ReturnOf(Nth(0))>>, Under(1))
      \/ Emit(ReturnNull, lower.stack)
  BY NotFailed DEF LowerReturn, LowerRet
<1>2. /\ \/ graph' = graph \o (IF Depth > 0 THEN <<ReturnOf(Nth(0))>> ELSE ReturnNull)
         \/ graph' = graph \o ReturnNull
      /\ lower'.stack = lower.stack \/ (Depth > 0 /\ lower'.stack = Under(1))
      /\ lower'.locals = lower.locals
  BY <1>1, EmitFields
<1>3. LoweredGraph(graph) /\ LoweredGraph(graph')
  BY DEF LowererOK, Advanced
<1>4. Extends(graph, graph') /\ Branches(graph')
  BY <1>2, <1>3, ReturnAdded
<1>5. lower'.stack \in Seq(Values(graph))
  <2>1. Depth > 0 => 1 \in 0..Depth
    BY TidyStack
  <2> QED BY <1>2, <2>1, TidyStack
<1>6. lower'.stack \in Seq(Values(graph')) /\ Values(graph) \subseteq Values(graph')
  BY <1>3, <1>4, <1>5, ValuesGrow
<1>7. lower'.locals \in [DOMAIN lower'.locals -> Values(graph')]
  BY <1>2, <1>6 DEF Tidy
<1> QED BY <1>4, <1>6, <1>7 DEF Tidy

(* A branch on a value that is there.                                           *)
LEMMA BranchTidy ==
  ASSUME LowererOK(method, graph, lower), Tidy(graph, lower), Advanced,
         NEW g, LoweredGraph(g), Extends(graph, g), Branches(g), NEW cond \in Values(g),
         graph' = g \o IfOn(cond, Len(g) + 1), NEW k \in 0..Depth,
         lower' = [lower EXCEPT !.pc = @ + 1, !.stack = Under(k), !.ctrl = Len(g) + 1]
  PROVE  Tidy(graph', lower')
<1>1. LoweredGraph(graph) /\ LoweredGraph(graph')
  BY DEF LowererOK, Advanced
<1> DEFINE branch == IfOn(cond, Len(g) + 1)
<1>2. branch = <<NewNode("If", <<cond>>, lower.ctrl, NoId),
                 NewNode("IfTrue", <<>>, Len(g) + 1, NoId),
                 NewNode("IfFalse", <<>>, Len(g) + 1, NoId)>>
  BY DEF IfOn
<1> HIDE DEF branch
<1>3. Extends(g, graph') /\ Branches(graph')
  BY <1>1, <1>2, BranchAdded DEF branch
<1>4. Extends(graph, graph')
  <2>1. Len(graph) \in Nat /\ Len(g) \in Nat /\ Len(graph') \in Nat
    BY <1>1 DEF LoweredGraph
  <2>2. \A id \in 1..Len(graph) : id \in 1..Len(g)
    BY <2>1 DEF Extends
  <2> QED BY <1>3, <2>1, <2>2 DEF Extends
<1>5. lower'.stack = Under(k) /\ lower'.locals = lower.locals
  BY DEF LowererOK
<1>6. Under(k) \in Seq(Values(graph))
  BY TidyStack
<1>7. lower'.stack \in Seq(Values(graph')) /\ Values(graph) \subseteq Values(graph')
  BY <1>1, <1>4, <1>5, <1>6, ValuesGrow
<1>8. lower'.locals \in [DOMAIN lower'.locals -> Values(graph')]
  BY <1>5, <1>7 DEF Tidy
<1> QED BY <1>3, <1>7, <1>8 DEF Tidy

LEMMA BrTidy ==
  ASSUME LowererOK(method, graph, lower), Tidy(graph, lower), Advanced,
         method \in Seq(Instructions), LowerBrIf \/ LowerBrCmp
  PROVE  Tidy(graph', lower')
<1>1. LoweredGraph(graph) /\ Branches(graph) /\ Len(graph) \in Nat /\ NextId = Len(graph) + 1
  BY DEF LowererOK, Tidy, LoweredGraph, NextId
<1>2. CASE LowerBrIf
  <2>1. /\ Depth # 0 /\ graph' = graph \o IfOn(Nth(0), NextId)
        /\ lower' = [lower EXCEPT !.pc = @ + 1, !.stack = Under(1), !.ctrl = NextId]
    BY <1>2, NotFailed DEF LowerBrIf
  <2>2. 1 \in 0..Depth /\ 0 \in 0..Depth - 1
    BY <2>1, TidyStack
  <2>3. Nth(0) \in Values(graph) /\ Extends(graph, graph)
    BY <1>1, <2>2, TidyStack DEF Extends
  <2> QED BY <1>1, <2>1, <2>2, <2>3, BranchTidy
<1>3. CASE LowerBrCmp
  <2> DEFINE x == PureNode(Op.kind, Operands(2))
             g == graph \o <<x>>
  <2>1. /\ ~(Depth < 2) /\ graph' = graph \o <<x>> \o IfOn(NextId, NextId + 1)
        /\ lower' = [lower EXCEPT !.pc = @ + 1, !.stack = Under(2), !.ctrl = NextId + 1]
    BY <1>3, NotFailed DEF LowerBrCmp
  <2>2. Op \in Instructions /\ Op.op = "br_cmp"
    BY <1>3, OpFields DEF LowerBrCmp
  <2>3. Op.kind \in PureLowered
    BY <2>2, InstructionFields DEF PureLowered
  <2>4. 2 \in 0..Depth
    BY <2>1, TidyStack
  <2>5. LoweredNode(x, Len(graph) + 1)
    <3>1. Len(graph) + 1 \in Nat \ {0} /\ (Len(graph) + 1) - 1 = Len(graph)
      BY <1>1
    <3>2. Operands(2) \in Seq(1..Len(graph))
      BY <2>4, StackFacts
    <3> QED BY <2>3, <3>1, <3>2, PureNodeLowered
  <2>6. x.kind \notin BranchLowered /\ \A k \in 1..Len(x.in) : x.in[k] \in Values(graph)
    <3>1. x.kind = Op.kind /\ x.in = Operands(2)
      BY NewNodeFields DEF PureNode
    <3>2. Operands(2) \in Seq(Values(graph))
      BY <2>4, TidyStack
    <3> HIDE DEF x
    <3> QED BY <2>3, <3>1, <3>2, KindsApart, ElementOfSeq
  <2> HIDE DEF x
  <2>7. LoweredGraph(g)
    BY <1>1, <2>5, AppendedOne
  <2>8. Extends(graph, g) /\ Branches(g) /\ Len(g) = Len(graph) + 1 /\ Len(g) \in Values(g)
    <3> HIDE DEF g
    <3> QED BY <1>1, <2>6, <2>7, PlainAdded DEF g
  <2>9. NextId \in Values(g) /\ NextId + 1 = Len(g) + 1 /\ NextId = Len(g)
    <3> HIDE DEF g
    <3> QED BY <1>1, <2>8
  <2>10. /\ graph' = g \o IfOn(NextId, Len(g) + 1)
         /\ lower' = [lower EXCEPT !.pc = @ + 1, !.stack = Under(2), !.ctrl = Len(g) + 1]
    BY <2>1, <2>9
  <2> HIDE DEF g
  <2> QED BY <2>4, <2>7, <2>8, <2>9, <2>10, BranchTidy
<1> QED BY <1>2, <1>3

LEMMA IfTidy ==
  ASSUME LowererOK(method, graph, lower), Tidy(graph, lower), Advanced,
         method \in Seq(Instructions), LowerIf
  PROVE  Tidy(graph', lower')
<1>1. LoweredGraph(graph) /\ Branches(graph) /\ Len(graph) \in Nat /\ NextId = Len(graph) + 1
  BY DEF LowererOK, Tidy, LoweredGraph, NextId
<1>2. ~Fail
  BY NotFailed
<1>3. PICK g1, x, g, branch, k : Compared(g1, x, g) /\ Branched(g, branch, k)
  BY <1>2, IfBuilds
<1>4. /\ LoweredGraph(g1) /\ LoweredGraph(g) /\ g = g1 \o <<x>> /\ x.kind \notin BranchLowered
      /\ k \in 0..Depth /\ graph' = g \o IfOn(Len(g), Len(g) + 1)
      /\ lower' = [lower EXCEPT !.pc = @ + 1, !.stack = Under(k), !.ctrl = Len(g) + 1]
  BY <1>3, KindsApart DEF Compared, Branched
<1>5. /\ Extends(graph, g1) /\ Branches(g1)
      /\ \A i \in 1..Len(x.in) : x.in[i] \in Values(g1)
  <2>1. CASE g1 = graph /\ x.in = Operands(2) /\ 2 \in 0..Depth
    <3>1. Operands(2) \in Seq(Values(graph))
      BY <2>1, TidyStack
    <3> QED BY <1>1, <2>1, <3>1, ElementOfSeq DEF Extends
  <2>2. CASE /\ \E n : g1 = graph \o <<n>> /\ n.kind \in PureLowered /\ n.in = <<>>
             /\ x.in = <<Nth(0), NextId>> /\ 0 \in 0..Depth - 1
    <3>1. PICK n : g1 = graph \o <<n>> /\ n.kind \in PureLowered /\ n.in = <<>>
      BY <2>2
    <3>2. n.kind \notin BranchLowered /\ \A i \in 1..Len(n.in) : n.in[i] \in Values(graph)
      BY <3>1, KindsApart, NoInputs
    <3>3. Extends(graph, g1) /\ Branches(g1) /\ Len(g1) = Len(graph) + 1 /\ Len(g1) \in Values(g1)
      BY <1>1, <1>4, <3>1, <3>2, PlainAdded
    <3>4. Nth(0) \in Values(graph)
      BY <2>2, TidyStack
    <3>5. Nth(0) \in Values(g1) /\ NextId \in Values(g1)
      BY <1>1, <1>4, <3>3, <3>4, ValuesGrow
    <3> DEFINE v == Nth(0)
               w == NextId
    <3>6. x.in = <<v, w>> /\ v \in Values(g1) /\ w \in Values(g1)
      BY <2>2, <3>5
    <3> HIDE DEF v, w
    <3>7. Len(x.in) = 2 /\ x.in[1] = v /\ x.in[2] = w
      BY <3>6
    <3> QED BY <3>3, <3>6, <3>7
  <2> QED BY <1>3, <2>1, <2>2 DEF Compared
<1>6. Extends(g1, g) /\ Branches(g) /\ Len(g) = Len(g1) + 1 /\ Len(g) \in Values(g)
  BY <1>4, <1>5, PlainAdded
<1>7. Extends(graph, g)
  <2>1. Len(g) \in Nat /\ Len(g1) \in Nat
    BY <1>4 DEF LoweredGraph
  <2>2. \A id \in 1..Len(graph) : id \in 1..Len(g1)
    BY <1>1, <1>5, <2>1 DEF Extends
  <2> QED BY <1>1, <1>5, <1>6, <2>1, <2>2 DEF Extends
<1> DEFINE cond == Len(g)
<1>8. cond \in Values(g) /\ graph' = g \o IfOn(cond, Len(g) + 1)
  BY <1>4, <1>6
<1> HIDE DEF cond
<1> QED BY <1>4, <1>6, <1>7, <1>8, BranchTidy

LEMMA TidyStep ==
  ASSUME LowererOK(method, graph, lower), Tidy(graph, lower), Advanced,
         method \in Seq(Instructions), LowerNext \/ CilLowerNext
  PROVE  Tidy(graph', lower') \/ LowerEnd
<1>1. CASE LowerConst \/ LowerLdC
  BY <1>1, ConstTidy
<1>2. CASE LowerLoad \/ LowerLdLoc \/ LowerStore \/ LowerStLoc
  BY <1>2, SlotTidy
<1>3. CASE LowerIinc
  BY <1>3, IincTidy
<1>4. CASE LowerStackOp \/ LowerCilStack \/ LowerGoto \/ LowerBr
  BY <1>4, StackTidy
<1>5. CASE LowerPure \/ LowerCilPure
  BY <1>5, PureTidy
<1>6. CASE LowerEffect \/ LowerObject
  BY <1>6, EffectTidy
<1>7. CASE LowerIf
  BY <1>7, IfTidy
<1>8. CASE LowerReturn \/ LowerRet
  BY <1>8, ReturnTidy
<1>9. CASE LowerSwitch \/ LowerUnsupported
  BY <1>9, NotFailed DEF LowerSwitch, LowerUnsupported
<1>10. CASE LowerBrIf \/ LowerBrCmp
  BY <1>10, BrTidy
<1> QED
  BY <1>1, <1>2, <1>3, <1>4, <1>5, <1>6, <1>7, <1>8, <1>9, <1>10 DEF LowerNext, CilLowerNext

LEMMA EndTidy ==
  ASSUME LowererOK(method, graph, lower), Tidy(graph, lower), LowerEnd
  PROVE  LoweredGraph(graph') /\ Branches(graph')
<1>1. LoweredGraph(graph')
  BY EndStep DEF LowererOK
<1>2. graph' = graph \o (IF Depth > 0 THEN <<ReturnOf(Nth(0))>> ELSE ReturnNull)
  BY DEF LowerEnd
<1> QED BY <1>1, <1>2, ReturnAdded

(* Start and the Phis.                                                          *)
LEMMA TidyInit ==
  ASSUME NEW m, NEW locals \in Nat, NEW arguments \in Nat, LowerInit(locals, arguments),
         m \in Seq(Instructions)
  PROVE  Tidy(graph, lower)
<1> DEFINE start == NewNode("Start", <<>>, NoId, NoId)
           phi == NewNode("Phi", <<>>, NoId, NoId)
           n == locals + arguments
           phis == [k \in 1..n |-> phi]
           g == <<start>>
<1>1. LoweredGraph(graph) /\ Len(graph) = n + 1
  BY LowerInitOK DEF LowererOK
<1>2. graph = g \o phis /\ n \in Nat
  BY DEF LowerInit
<1>3. g \in Seq({start, phi}) /\ phis \in Seq({start, phi}) /\ Len(g) = 1 /\ Len(phis) = n /\ g[1] = start
  <2> HIDE DEF start, phi, n
  <2> QED BY <1>2
<1>4. /\ start.kind = "Start" /\ start.in = <<>> /\ phi.kind = "Phi" /\ phi.in = <<>>
  BY NewNodeFields
<1> HIDE DEF start, phi, n, g, phis
<1>5. \A i \in 1..Len(graph) : graph[i] \in {start, phi}
  <2>1. graph \in Seq({start, phi})
    BY <1>2, <1>3, ConcatProperties
  <2> QED BY <2>1, ElementOfSeq
<1>6. ASSUME NEW id \in 1..Len(graph)
      PROVE  graph[id].kind \in {"Start", "Phi"} /\ \A k \in 1..Len(graph[id].in) : FALSE
  <2>1. graph[id].in = <<>> /\ graph[id].kind \in {"Start", "Phi"}
    BY <1>4, <1>5
  <2> QED BY <2>1, NoInputs
<1>7. Branches(graph)
  BY <1>6 DEF Branches, BranchNode
<1>8. Values(graph) = 1..Len(graph)
  BY <1>6 DEF Values
<1>9. LowererOK(m, graph, lower) /\ lower.stack = <<>>
  BY LowerInitOK DEF LowerInit
<1> QED BY <1>7, <1>8, <1>9 DEF Tidy, LowererOK

-----------------------------------------------------------------------------
(* The constants and operands of what is lowered, and its chain of effects.     *)
ConstKinds == {"ConstInt", "ConstFloat"}

(* What else a lowerer gives a node: the flags of its kind, its operands and,   *)
(* only to an integer constant, the type of integers.                           *)
Shaped(n) ==
  /\ n.flags = KindFlags(n.kind) \cup (IF n.kind \in ConstKinds THEN {"IsConst"} ELSE {})
  /\ n.kind \in BinaryKinds => Len(n.in) = 2
  /\ n.kind \in {"Neg", "ConvI4", "ConvI8"} => Len(n.in) = 1
  /\ n.type = "Int" => n.kind = "ConstInt"

ShapedGraph(src) == LoweredGraph(src) /\ \A id \in 1..Len(src) : Shaped(src[id])

(* In g, which was made of src, y comes after x on the chain of effects; every  *)
(* effect that does not return has one after it.                                *)
Chains(src, g, x, y) == x < y /\ g[y].eff = x /\ (y > Len(src) \/ Has(src, y, "Effect"))

Linked(src, g) ==
  \A x \in 1..Len(src) :
    Has(src, x, "Effect") /\ src[x].kind # "Return" => \E y \in 1..Len(g) : Chains(src, g, x, y)

(* While a method is lowered, e is the effect that none follows yet.            *)
Hangs(g, e) ==
  \A x \in 1..Len(g) :
    Has(g, x, "Effect") /\ g[x].kind # "Return" => x = e \/ \E y \in 1..Len(g) : Chains(g, g, x, y)

Built(g, e) == (\A id \in 1..Len(g) : Shaped(g[id])) /\ Hangs(g, e)

Quiet(n) == Shaped(n) /\ ("Effect" \in n.flags => n.kind = "Return")

LEMMA HangsOn ==
  ASSUME NEW g, Len(g) \in Nat, NEW h, Len(h) \in Nat, Extends(g, h), NEW e, Hangs(g, e),
         NEW x \in 1..Len(g), Has(h, x, "Effect"), h[x].kind # "Return"
  PROVE  x = e \/ \E y \in 1..Len(h) : Chains(h, h, x, y)
<1>1. h[x] = g[x] /\ Len(g) <= Len(h)
  BY DEF Extends
<1>2. SUFFICES ASSUME NEW y \in 1..Len(g), Chains(g, g, x, y)
               PROVE  \E z \in 1..Len(h) : Chains(h, h, x, z)
  BY <1>1 DEF Hangs, Has
<1>3. h[y] = g[y] /\ y \in 1..Len(h) /\ ~(y > Len(g))
  BY <1>1 DEF Extends
<1>4. Chains(h, h, x, y)
  BY <1>2, <1>3 DEF Chains, Has
<1> QED BY <1>3, <1>4

Joins(g, nodes, h) ==
  /\ Len(g) \in Nat /\ Len(nodes) \in Nat /\ Len(h) = Len(g) + Len(nodes)
  /\ Extends(g, h)
  /\ \A id \in Len(g) + 1..Len(h) : \E k \in 1..Len(nodes) : h[id] = nodes[k]

LEMMA ConcatExtends ==
  ASSUME NEW R, NEW g \in Seq(R), NEW T, NEW nodes \in Seq(T)
  PROVE  Joins(g, nodes, g \o nodes) /\ g \o nodes \in Seq(R \cup T)
<1> DEFINE S == R \cup T
           h == g \o nodes
<1>1. g \in Seq(S) /\ nodes \in Seq(S) /\ Len(g) \in Nat /\ Len(nodes) \in Nat
  <2>1. R \subseteq S /\ T \subseteq S
    OBVIOUS
  <2> HIDE DEF S
  <2> QED BY <2>1, SeqMonotonic, LenProperties
<1>2. /\ Len(h) = Len(g) + Len(nodes) /\ h \in Seq(S)
      /\ \A i \in 1..Len(g) + Len(nodes) : h[i] = IF i <= Len(g) THEN g[i] ELSE nodes[i - Len(g)]
  <2> HIDE DEF S
  <2> QED BY <1>1, ConcatProperties
<1> HIDE DEF h
<1>3. ASSUME NEW id \in Len(g) + 1..Len(h) PROVE \E k \in 1..Len(nodes) : h[id] = nodes[k]
  <2>1. id - Len(g) \in 1..Len(nodes) /\ id \in 1..Len(g) + Len(nodes) /\ ~(id <= Len(g))
    BY <1>1, <1>2
  <2> QED BY <1>2, <2>1
<1>4. Extends(g, h)
  BY <1>1, <1>2 DEF Extends
<1> QED BY <1>1, <1>2, <1>3, <1>4 DEF h, Joins

LEMMA QuietAdded ==
  ASSUME NEW R, NEW g \in Seq(R), NEW e, Built(g, e), NEW T, NEW nodes \in Seq(T),
         \A k \in 1..Len(nodes) : Quiet(nodes[k])
  PROVE  Built(g \o nodes, e)
<1> DEFINE h == g \o nodes
<1>1. /\ Len(g) \in Nat /\ Len(nodes) \in Nat /\ Len(h) = Len(g) + Len(nodes) /\ Extends(g, h)
      /\ \A id \in Len(g) + 1..Len(h) : \E k \in 1..Len(nodes) : h[id] = nodes[k]
  <2>1. Joins(g, nodes, h)
    BY ConcatExtends
  <2> HIDE DEF h
  <2> QED BY <2>1 DEF Joins
<1> HIDE DEF h
<1>2. Len(h) \in Nat /\ \A id \in 1..Len(h) : id \in 1..Len(g) \/ id \in Len(g) + 1..Len(h)
  BY <1>1
<1>3. \A id \in Len(g) + 1..Len(h) : Quiet(h[id])
  BY <1>1
<1>4. \A id \in 1..Len(h) : Shaped(h[id])
  BY <1>1, <1>2, <1>3 DEF Built, Extends, Quiet
<1>5. Hangs(h, e)
  <2> SUFFICES ASSUME NEW x \in 1..Len(h), Has(h, x, "Effect"), h[x].kind # "Return"
               PROVE  x = e \/ \E y \in 1..Len(h) : Chains(h, h, x, y)
    BY DEF Hangs
  <2>1. x \notin Len(g) + 1..Len(h)
    BY <1>3 DEF Quiet, Has
  <2>2. x \in 1..Len(g)
    BY <1>2, <2>1
  <2> QED BY <1>1, <1>2, <2>2, HangsOn DEF Built
<1> QED BY <1>4, <1>5 DEF Built, h

LEMMA QuietOne ==
  ASSUME NEW R, NEW g \in Seq(R), NEW e, Built(g, e), NEW n, Quiet(n)
  PROVE  Built(g \o <<n>>, e)
<1> DEFINE nodes == <<n>>
<1>1. nodes \in Seq({n}) /\ \A k \in 1..Len(nodes) : nodes[k] = n
  OBVIOUS
<1> HIDE DEF nodes
<1>2. Built(g \o nodes, e)
  BY <1>1, QuietAdded
<1> QED BY <1>2 DEF nodes

LEMMA QuietTwo ==
  ASSUME NEW R, NEW g \in Seq(R), NEW e, Built(g, e), NEW a, Quiet(a), NEW b, Quiet(b)
  PROVE  Built(g \o <<a, b>>, e)
<1> DEFINE nodes == <<a, b>>
<1>1. nodes \in Seq({a, b}) /\ \A k \in 1..Len(nodes) : nodes[k] \in {a, b}
  OBVIOUS
<1> HIDE DEF nodes
<1>2. Built(g \o nodes, e)
  BY <1>1, QuietAdded
<1> QED BY <1>2 DEF nodes

LEMMA LinkAdded ==
  ASSUME NEW R, NEW g \in Seq(R), NEW e \in 1..Len(g), Built(g, e), NEW n, Shaped(n), "Effect" \in n.flags,
         n.eff = e
  PROVE  Built(g \o <<n>>, Len(g) + 1)
<1> DEFINE nodes == <<n>>
           h == g \o nodes
           m == Len(g) + 1
<1>1. nodes \in Seq({n}) /\ Len(nodes) = 1 /\ nodes[1] = n
  OBVIOUS
<1> HIDE DEF nodes
<1>2. /\ Len(g) \in Nat /\ Len(h) = Len(g) + Len(nodes) /\ Extends(g, h)
      /\ \A id \in Len(g) + 1..Len(h) : \E k \in 1..Len(nodes) : h[id] = nodes[k]
  <2>1. Joins(g, nodes, h)
    BY <1>1, ConcatExtends
  <2> HIDE DEF h
  <2> QED BY <2>1 DEF Joins
<1> HIDE DEF h
<1>3. /\ m \in 1..Len(h) /\ Len(h) \in Nat /\ e < m /\ ~(m > Len(h))
      /\ \A id \in 1..Len(h) : id \in 1..Len(g) \/ id = m
      /\ m \in Len(g) + 1..Len(h)
  BY <1>1, <1>2
<1>4. h[m] = n
  BY <1>1, <1>2, <1>3
<1> HIDE DEF m
<1>5. \A id \in 1..Len(h) : Shaped(h[id])
  BY <1>2, <1>3, <1>4 DEF Built, Extends
<1>6. Chains(h, h, e, m)
  BY <1>3, <1>4 DEF Chains, Has
<1>7. Hangs(h, m)
  <2> SUFFICES ASSUME NEW x \in 1..Len(h), Has(h, x, "Effect"), h[x].kind # "Return"
               PROVE  x = m \/ \E y \in 1..Len(h) : Chains(h, h, x, y)
    BY DEF Hangs
  <2>1. CASE x \in 1..Len(g)
    <3>1. x = e \/ \E y \in 1..Len(h) : Chains(h, h, x, y)
      BY <1>2, <1>3, <2>1, HangsOn DEF Built
    <3> QED BY <1>3, <1>6, <3>1
  <2> QED BY <1>3, <2>1
<1> QED BY <1>5, <1>7 DEF Built, h, m, nodes

(* The nodes that the lowerers make.                                            *)
LEMMA PureQuiet ==
  ASSUME NEW kind \in PureLowered, kind \notin ConstKinds, NEW in,
         kind \in BinaryKinds => Len(in) = 2, kind \in {"Neg", "ConvI4", "ConvI8"} => Len(in) = 1
  PROVE  Quiet(PureNode(kind, in))
<1> DEFINE n == PureNode(kind, in)
<1>1. n.kind = kind /\ n.in = in /\ n.flags = KindFlags(kind) /\ n.type = "Top"
  BY NewNodeFields DEF PureNode
<1> HIDE DEF n
<1>2. "Effect" \notin KindFlags(kind)
  BY FlagsOfKinds
<1>3. n.flags = KindFlags(n.kind) \cup {}
  BY <1>1
<1> QED BY <1>1, <1>2, <1>3 DEF Quiet, Shaped, n

LEMMA ConstQuiet ==
  ASSUME NEW v
  PROVE  Quiet(ConstInt(v)) /\ Quiet(ConstFloat(v)) /\ Quiet(PureNode("LdNull", <<>>))
<1>1. ASSUME NEW kind \in ConstKinds, NEW type, type = "Int" => kind = "ConstInt"
      PROVE  Quiet(Const(kind, type, v))
  <2> DEFINE m == NewNode(kind, <<>>, NoId, NoId)
             n == Const(kind, type, v)
  <2>1. m.kind = kind /\ m.flags = KindFlags(kind)
    BY NewNodeFields
  <2>2. n = [m EXCEPT !.flags = @ \cup {"IsConst"}, !.type = type, !.val = v]
    BY DEF Const
  <2>3. m = [kind |-> kind, in |-> <<>>, ctrl |-> NoId, eff |-> NoId, flags |-> KindFlags(kind),
             type |-> "Top", val |-> 0, cls |-> 0, state |-> FALSE]
    BY DEF NewNode
  <2> HIDE DEF m, n
  <2>4. n.kind = kind /\ n.flags = KindFlags(kind) \cup {"IsConst"} /\ n.type = type
    BY <2>2, <2>3
  <2>5. kind \in PureLowered /\ kind \notin BinaryKinds \cup {"Neg", "ConvI4", "ConvI8"}
    BY DEF ConstKinds, PureLowered, BinaryKinds
  <2>6. "Effect" \notin KindFlags(kind)
    BY <2>5, FlagsOfKinds
  <2> QED BY <1>1, <2>4, <2>5, <2>6 DEF Quiet, Shaped, n
<1>2. "ConstInt" \in ConstKinds /\ "ConstFloat" \in ConstKinds
      /\ "LdNull" \notin ConstKinds \cup BinaryKinds /\ "LdNull" \in PureLowered
  BY DEF ConstKinds, PureLowered, BinaryKinds
<1>3. Quiet(PureNode("LdNull", <<>>))
  BY <1>2, PureQuiet
<1> QED BY <1>1, <1>2, <1>3 DEF ConstInt, ConstFloat

LEMMA OtherShaped ==
  ASSUME NEW kind \in EffectLowered \cup BranchLowered \cup {"Start"}, NEW in, NEW ctrl, NEW eff
  PROVE  /\ Shaped(NewNode(kind, in, ctrl, eff))
         /\ kind \notin BranchLowered => "Effect" \in KindFlags(kind)
         /\ kind \in BranchLowered \cup {"Return"} => Quiet(NewNode(kind, in, ctrl, eff))
<1> DEFINE n == NewNode(kind, in, ctrl, eff)
<1>1. n.kind = kind /\ n.in = in /\ n.flags = KindFlags(kind) /\ n.type = "Top"
  BY NewNodeFields
<1> HIDE DEF n
<1>2. kind \notin ConstKinds \cup BinaryKinds \cup {"Neg", "ConvI4", "ConvI8"}
  BY DEF EffectLowered, BranchLowered, EffectOps, ObjectKinds, ConstKinds, BinaryKinds
<1>3. kind \notin BranchLowered => "Effect" \in KindFlags(kind)
  BY DEF EffectLowered, BranchLowered, EffectOps, ObjectKinds, KindFlags, EffectKinds, LeavingKinds
<1>4. kind \in BranchLowered => "Effect" \notin KindFlags(kind)
  BY FlagsOfKinds
<1>5. n.flags = KindFlags(n.kind) \cup {}
  BY <1>1
<1>6. Shaped(n)
  BY <1>1, <1>2, <1>5 DEF Shaped
<1> QED BY <1>1, <1>3, <1>4, <1>6 DEF Quiet, n

LEMMA BranchQuiet ==
  ASSUME NEW R, NEW g \in Seq(R), NEW e, Built(g, e), NEW cond, NEW if
  PROVE  Built(g \o IfOn(cond, if), e)
<1> DEFINE a == NewNode("If", <<cond>>, lower.ctrl, NoId)
           b == NewNode("IfTrue", <<>>, if, NoId)
           c == NewNode("IfFalse", <<>>, if, NoId)
           nodes == <<a, b, c>>
<1>1. Quiet(a) /\ Quiet(b) /\ Quiet(c)
  BY OtherShaped DEF BranchLowered
<1>2. IfOn(cond, if) = nodes
  BY DEF IfOn
<1> HIDE DEF a, b, c
<1>3. nodes \in Seq({a, b, c}) /\ \A k \in 1..Len(nodes) : nodes[k] \in {a, b, c}
  OBVIOUS
<1> HIDE DEF nodes
<1> QED BY <1>1, <1>2, <1>3, QuietAdded

LEMMA ReturnQuiet ==
  ASSUME NEW R, NEW g \in Seq(R), NEW e, Built(g, e)
  PROVE  /\ \A v : Built(g \o <<ReturnOf(v)>>, e)
         /\ Built(g \o ReturnNull, e)
<1>1. \A v : Quiet(ReturnOf(v))
  BY OtherShaped DEF ReturnOf, EffectLowered
<1>2. Quiet(PureNode("LdNull", <<>>))
  BY ConstQuiet
<1>3. ASSUME NEW v PROVE Built(g \o <<ReturnOf(v)>>, e)
  <2> DEFINE n == ReturnOf(v)
  <2>1. Quiet(n)
    BY <1>1
  <2> HIDE DEF n
  <2>2. Built(g \o <<n>>, e)
    BY <2>1, QuietOne
  <2> QED BY <2>2 DEF n
<1>4. Built(g \o ReturnNull, e)
  <2> DEFINE a == PureNode("LdNull", <<>>)
             b == ReturnOf(NextId)
  <2>1. Quiet(a) /\ Quiet(b) /\ ReturnNull = <<a, b>>
    BY <1>1, <1>2 DEF ReturnNull
  <2> HIDE DEF a, b
  <2> QED BY <2>1, QuietTwo
<1> QED BY <1>3, <1>4

(* The steps of the lowerers.                                                   *)
LEMMA EmitBuilds ==
  ASSUME LowererOK(method, graph, lower), Built(graph, lower.eff), NEW T, NEW nodes \in Seq(T),
         \A k \in 1..Len(nodes) : Quiet(nodes[k]), NEW stack, Emit(nodes, stack)
  PROVE  Built(graph', lower'.eff)
<1>1. lower'.eff = lower.eff /\ graph' = graph \o nodes
  BY DEF Emit, LowererOK
<1>2. graph \in Seq(Nodes)
  BY DEF LowererOK, LoweredGraph
<1>3. Built(graph \o nodes, lower.eff)
  BY <1>2, QuietAdded
<1> QED BY <1>1, <1>3

LEMMA EmitBuildsOne ==
  ASSUME LowererOK(method, graph, lower), Built(graph, lower.eff), NEW n, Quiet(n), NEW stack,
         Emit(<<n>>, stack)
  PROVE  Built(graph', lower'.eff)
<1> DEFINE nodes == <<n>>
<1>1. nodes \in Seq({n}) /\ \A k \in 1..Len(nodes) : nodes[k] = n
  OBVIOUS
<1>2. Emit(nodes, stack)
  OBVIOUS
<1> HIDE DEF nodes
<1> QED BY <1>1, <1>2, EmitBuilds

LEMMA EmitBuildsNone ==
  ASSUME LowererOK(method, graph, lower), Built(graph, lower.eff), NEW stack, Emit(<<>>, stack)
  PROVE  Built(graph', lower'.eff)
<1> DEFINE nodes == <<>>
<1>1. nodes \in Seq({}) /\ \A k \in 1..Len(nodes) : FALSE
  OBVIOUS
<1>2. Emit(nodes, stack)
  OBVIOUS
<1> HIDE DEF nodes
<1> QED BY <1>1, <1>2, EmitBuilds

LEMMA ConstBuilds ==
  ASSUME LowererOK(method, graph, lower), Built(graph, lower.eff), Advanced, LowerConst \/ LowerLdC
  PROVE  Built(graph', lower'.eff)
<1>1. ~Fail
  BY NotFailed
<1>2. \E n \in {PureNode("LdNull", <<>>), ConstFloat(Op.n), ConstInt(Op.n)} :
        Emit(<<n>>, Append(lower.stack, NextId))
  BY <1>1 DEF LowerConst, LowerLdC
<1>3. PICK n \in {PureNode("LdNull", <<>>), ConstFloat(Op.n), ConstInt(Op.n)} :
        Emit(<<n>>, Append(lower.stack, NextId))
  BY <1>2
<1>4. Quiet(n)
  BY ConstQuiet
<1> QED BY <1>3, <1>4, EmitBuildsOne

LEMMA SlotBuilds ==
  ASSUME LowererOK(method, graph, lower), Built(graph, lower.eff), Advanced,
         LowerLoad \/ LowerLdLoc \/ LowerStore \/ LowerStLoc
  PROVE  Built(graph', lower'.eff)
<1>1. \/ Emit(<<>>, Append(lower.stack, lower.locals[Op.n]))
      \/ /\ Depth > 0 /\ UNCHANGED graph
         /\ lower' = [lower EXCEPT !.pc = @ + 1, !.stack = Under(1), !.locals[Op.n] = Nth(0)]
  BY NotFailed DEF LowerLoad, LowerLdLoc, LowerStore, LowerStLoc
<1>2. CASE Emit(<<>>, Append(lower.stack, lower.locals[Op.n]))
  BY <1>2, EmitBuildsNone
<1>3. CASE /\ Depth > 0 /\ UNCHANGED graph
           /\ lower' = [lower EXCEPT !.pc = @ + 1, !.stack = Under(1), !.locals[Op.n] = Nth(0)]
  <2>1. graph' = graph /\ lower'.eff = lower.eff
    BY <1>3 DEF LowererOK
  <2> QED BY <2>1
<1> QED BY <1>1, <1>2, <1>3

LEMMA StackBuilds ==
  ASSUME LowererOK(method, graph, lower), Built(graph, lower.eff), Advanced,
         LowerStackOp \/ LowerCilStack \/ LowerGoto \/ LowerBr
  PROVE  Built(graph', lower'.eff)
<1>1. \E stack : Emit(<<>>, stack)
  BY NotFailed DEF LowerStackOp, LowerCilStack, LowerGoto, LowerBr
<1> QED BY <1>1, EmitBuildsNone

LEMMA IincBuilds ==
  ASSUME LowererOK(method, graph, lower), Built(graph, lower.eff), Advanced, LowerIinc
  PROVE  Built(graph', lower'.eff)
<1> DEFINE in == <<lower.locals[Op.n], NextId>>
           c == ConstInt(Op.d)
           a == PureNode("Add", in)
<1>1. ~Fail
  BY NotFailed
<1>2. graph' = graph \o <<c, a>>
      /\ lower' = [lower EXCEPT !.pc = @ + 1, !.locals[Op.n] = NextId + 1]
  BY <1>1 DEF LowerIinc
<1>3. graph \in Seq(Nodes) /\ lower'.eff = lower.eff
  BY <1>2 DEF LowererOK, LoweredGraph
<1>4. Len(in) = 2
  OBVIOUS
<1>5. "Add" \in PureLowered /\ "Add" \notin ConstKinds
  BY DEF PureLowered, IntKinds, ConstKinds
<1>6. Quiet(c)
  BY ConstQuiet
<1> HIDE DEF in, c
<1>7. Quiet(a)
  BY <1>4, <1>5, PureQuiet
<1> HIDE DEF a
<1>8. Built(graph \o <<c, a>>, lower.eff)
  BY <1>3, <1>6, <1>7, QuietTwo
<1> QED BY <1>2, <1>3, <1>8

(* Two operands for what has two, and one for the others.                       *)
Arity(kind) == IF kind \in BinaryKinds THEN 2 ELSE 1

LEMMA PureBuilds ==
  ASSUME LowererOK(method, graph, lower), Built(graph, lower.eff), Advanced,
         method \in Seq(Instructions), LowerPure \/ LowerCilPure
  PROVE  Built(graph', lower'.eff)
<1>1. \E kind \in PureLowered \ ConstKinds :
        /\ Arity(kind) \in 0..Depth
        /\ Emit(<<PureNode(kind, Operands(Arity(kind)))>>, Append(Under(Arity(kind)), NextId))
  <2>1. CASE LowerPure
    <3>1. PICK op \in {"binary", "neg", "cmp", "conv"} :
            /\ Lowering(op)
            /\ LET arity == IF op \in {"binary", "cmp"} THEN 2 ELSE 1
               IN  /\ Depth >= arity
                   /\ Emit(<<PureNode(PureKind, Operands(arity))>>, Append(Under(arity), NextId))
      BY <2>1, NotFailed DEF LowerPure
    <3>2. Op \in Instructions /\ Op.op = op
      BY <3>1, OpFields
    <3>3. /\ Op.op = "binary" => Op.kind \in IntKinds
          /\ Op.op = "conv" => Op.to \in ValueTypes
      BY <3>2, InstructionFields
    <3>4. PureKind \in PureLowered \ ConstKinds
          /\ (PureKind \in BinaryKinds <=> op \in {"binary", "cmp"})
      <4>1. CASE op = "binary"
        <5>1. PureKind = Op.kind
          BY <3>2, <4>1 DEF PureKind
        <5> QED BY <3>2, <3>3, <4>1, <5>1 DEF PureLowered, ConstKinds, IntKinds, BinaryKinds
      <4>2. CASE op \in {"neg", "cmp", "conv"}
        BY <3>2, <3>3, <4>2 DEF PureKind, PureLowered, ConstKinds, BinaryKinds, ValueTypes
      <4> QED BY <4>1, <4>2
    <3> DEFINE kind == PureKind
    <3>5. Depth >= Arity(kind) /\ Emit(<<PureNode(kind, Operands(Arity(kind)))>>, Append(Under(Arity(kind)), NextId))
      BY <3>1, <3>4 DEF Arity
    <3>6. Arity(kind) \in 0..Depth
      BY <3>5, StackFacts DEF Arity
    <3> HIDE DEF kind
    <3> QED BY <3>4, <3>5, <3>6 DEF kind
  <2>2. CASE LowerCilPure
    <3>1. PICK op \in {"cil_binary", "compare", "conv_to"} :
            /\ Lowering(op)
            /\ op = "cil_binary" => Op.kind \in LoweredArithmetic
            /\ \E kind \in {IF op = "conv_to" THEN CASE Op.to = "int" -> "ConvI4" [] Op.to = "long" -> "ConvI8"
                                                     [] Op.to = "float" -> "ConvR8"
                            ELSE Op.kind} :
                 EmitPure(kind, IF op = "conv_to" THEN 1 ELSE 2)
      BY <2>2 DEF LowerCilPure
    <3>2. PICK kind \in {IF op = "conv_to" THEN CASE Op.to = "int" -> "ConvI4" [] Op.to = "long" -> "ConvI8"
                                                  [] Op.to = "float" -> "ConvR8"
                         ELSE Op.kind} :
            EmitPure(kind, IF op = "conv_to" THEN 1 ELSE 2)
      BY <3>1
    <3>3. Op \in Instructions /\ Op.op = op
      BY <3>1, OpFields
    <3>4. /\ Op.op = "compare" => Op.kind \in {"Eq", "Lt", "Gt"}
          /\ Op.op = "conv_to" => Op.to \in ValueTypes
      BY <3>3, InstructionFields
    <3>5. kind \in PureLowered \ ConstKinds /\ (kind \in BinaryKinds <=> op # "conv_to")
      <4>1. CASE op = "conv_to"
        BY <3>2, <3>3, <3>4, <4>1 DEF PureLowered, ConstKinds, BinaryKinds, ValueTypes
      <4>2. CASE op # "conv_to"
        <5>1. kind = Op.kind
          BY <3>2, <4>2
        <5> QED BY <3>1, <3>3, <3>4, <4>2, <5>1
            DEF PureLowered, LoweredArithmetic, IntKinds, ConstKinds, BinaryKinds
      <4> QED BY <4>1, <4>2
    <3>6. Depth >= Arity(kind) /\ Emit(<<PureNode(kind, Operands(Arity(kind)))>>, Append(Under(Arity(kind)), NextId))
      BY <3>2, <3>5, NotFailed DEF EmitPure, Arity
    <3>7. Arity(kind) \in 0..Depth
      BY <3>6, StackFacts DEF Arity
    <3> QED BY <3>5, <3>6, <3>7
  <2> QED BY <2>1, <2>2
<1>2. PICK kind \in PureLowered \ ConstKinds :
        /\ Arity(kind) \in 0..Depth
        /\ Emit(<<PureNode(kind, Operands(Arity(kind)))>>, Append(Under(Arity(kind)), NextId))
  BY <1>1
<1> DEFINE in == Operands(Arity(kind))
<1>3. Len(in) = Arity(kind)
  BY <1>2, StackFacts
<1>4. kind \in {"Neg", "ConvI4", "ConvI8"} => kind \notin BinaryKinds
  BY DEF BinaryKinds
<1> HIDE DEF in
<1>5. Quiet(PureNode(kind, in))
  BY <1>3, <1>4, PureQuiet DEF Arity
<1> QED BY <1>2, <1>5, EmitBuildsOne DEF in

(* An effect follows the last one.                                              *)
LEMMA EffectBuilds ==
  ASSUME LowererOK(method, graph, lower), Built(graph, lower.eff), Advanced,
         method \in Seq(Instructions), LowerEffect \/ LowerObject
  PROVE  Built(graph', lower'.eff)
<1>1. \E kind \in EffectLowered : \E in, stack :
        /\ graph' = Append(graph, NewNode(kind, in, lower.ctrl, lower.eff))
        /\ lower' = [lower EXCEPT !.pc = @ + 1, !.eff = NextId, !.stack = stack]
  <2>1. CASE LowerEffect
    <3>1. Lowering("effect") /\ ~(Depth < Op.pops)
      BY <2>1, NotFailed DEF LowerEffect
    <3>2. Op \in Instructions /\ Op.op = "effect"
      BY <3>1, OpFields
    <3>3. Op.kind \in EffectLowered
      BY <3>2, InstructionFields DEF EffectLowered
    <3>4. \E in, stack :
            /\ graph' = Append(graph, NewNode(Op.kind, in, lower.ctrl, lower.eff))
            /\ lower' = [lower EXCEPT !.pc = @ + 1, !.eff = NextId, !.stack = stack]
      BY <2>1, <3>1 DEF LowerEffect
    <3> QED BY <3>3, <3>4
  <2>2. CASE LowerObject
    <3>1. Lowering("object") /\ Depth # 0
      BY <2>2, NotFailed DEF LowerObject
    <3>2. Op \in Instructions /\ Op.op = "object"
      BY <3>1, OpFields
    <3>3. Op.kind \in EffectLowered
      BY <3>2, InstructionFields DEF EffectLowered
    <3>4. \E in, stack :
            /\ graph' = Append(graph, NewNode(Op.kind, in, lower.ctrl, lower.eff))
            /\ lower' = [lower EXCEPT !.pc = @ + 1, !.eff = NextId, !.stack = stack]
      BY <2>2, <3>1 DEF LowerObject
    <3> QED BY <3>3, <3>4
  <2> QED BY <2>1, <2>2
<1>2. PICK kind \in EffectLowered : \E in, stack :
        /\ graph' = Append(graph, NewNode(kind, in, lower.ctrl, lower.eff))
        /\ lower' = [lower EXCEPT !.pc = @ + 1, !.eff = NextId, !.stack = stack]
  BY <1>1
<1>2a. PICK in, stack :
        /\ graph' = Append(graph, NewNode(kind, in, lower.ctrl, lower.eff))
        /\ lower' = [lower EXCEPT !.pc = @ + 1, !.eff = NextId, !.stack = stack]
  BY <1>2
<1> DEFINE n == NewNode(kind, in, lower.ctrl, lower.eff)
<1>3. n.kind = kind /\ n.eff = lower.eff /\ n.flags = KindFlags(kind)
  BY NewNodeFields
<1>4. kind \notin BranchLowered
  BY KindsApart
<1>5. Shaped(n) /\ "Effect" \in n.flags
  BY <1>3, <1>4, OtherShaped
<1>6. lower'.eff = Len(graph) + 1 /\ graph \in Seq(Nodes) /\ lower.eff \in 1..Len(graph)
  BY <1>2a DEF LowererOK, LoweredGraph, NextId
<1>7. graph' = Append(graph, n)
  BY <1>2a
<1> HIDE DEF n
<1>8. graph' = graph \o <<n>>
  <2> DEFINE S == Nodes \cup {n}
  <2>1. graph \in Seq(S) /\ n \in S
    <3>1. Nodes \subseteq S /\ n \in S
      OBVIOUS
    <3> HIDE DEF S
    <3> QED BY <1>6, <3>1, SeqMonotonic
  <2> HIDE DEF S
  <2> QED BY <1>7, <2>1, AppendIsConcat
<1>9. Built(graph \o <<n>>, Len(graph) + 1)
  BY <1>3, <1>5, <1>6, LinkAdded
<1> QED BY <1>6, <1>8, <1>9

LEMMA ReturnBuilds ==
  ASSUME LowererOK(method, graph, lower), Built(graph, lower.eff), Advanced,
         LowerReturn \/ LowerRet
  PROVE  Built(graph', lower'.eff)
<1>1. \/ Emit(<<ReturnOf(Nth(0))>>, Under(1))
      \/ Emit(ReturnNull, lower.stack)
  BY NotFailed DEF LowerReturn, LowerRet
<1>2. graph \in Seq(Nodes) /\ lower'.eff = lower.eff
  BY <1>1 DEF LowererOK, LoweredGraph, Emit
<1>3. \/ graph' = graph \o <<ReturnOf(Nth(0))>>
      \/ graph' = graph \o ReturnNull
  BY <1>1 DEF Emit
<1>4. Built(graph \o <<ReturnOf(Nth(0))>>, lower.eff) /\ Built(graph \o ReturnNull, lower.eff)
  BY <1>2, ReturnQuiet
<1> QED BY <1>2, <1>3, <1>4

LEMMA BrBuilds ==
  ASSUME LowererOK(method, graph, lower), Built(graph, lower.eff), Advanced,
         method \in Seq(Instructions), LowerBrIf \/ LowerBrCmp
  PROVE  Built(graph', lower'.eff)
<1>1. graph \in Seq(Nodes)
  BY DEF LowererOK, LoweredGraph
<1>2. CASE LowerBrIf
  <2>1. /\ graph' = graph \o IfOn(Nth(0), NextId)
        /\ lower' = [lower EXCEPT !.pc = @ + 1, !.stack = Under(1), !.ctrl = NextId]
    BY <1>2, NotFailed DEF LowerBrIf
  <2>2. lower'.eff = lower.eff
    BY <2>1 DEF LowererOK
  <2>3. Built(graph \o IfOn(Nth(0), NextId), lower.eff)
    BY <1>1, BranchQuiet
  <2> QED BY <2>1, <2>2, <2>3
<1>3. CASE LowerBrCmp
  <2> DEFINE in == Operands(2)
             x == PureNode(Op.kind, in)
             g == graph \o <<x>>
  <2>1. /\ ~(Depth < 2) /\ graph' = g \o IfOn(NextId, NextId + 1)
        /\ lower' = [lower EXCEPT !.pc = @ + 1, !.stack = Under(2), !.ctrl = NextId + 1]
    BY <1>3, NotFailed DEF LowerBrCmp
  <2>2. Op \in Instructions /\ Op.op = "br_cmp"
    BY <1>3, OpFields DEF LowerBrCmp
  <2>3. Op.kind \in PureLowered /\ Op.kind \notin ConstKinds /\ Op.kind \notin {"Neg", "ConvI4", "ConvI8"}
    BY <2>2, InstructionFields DEF PureLowered, ConstKinds
  <2>4. 2 \in 0..Depth
    BY <2>1, StackFacts
  <2>5. Len(in) = 2
    BY <2>4, StackFacts
  <2> HIDE DEF in
  <2>6. Quiet(x)
    BY <2>3, <2>5, PureQuiet
  <2>7. lower'.eff = lower.eff
    BY <2>1 DEF LowererOK
  <2> HIDE DEF x
  <2>8. Built(g, lower.eff) /\ g \in Seq(Nodes \cup {x})
    <3> DEFINE nodes == <<x>>
    <3>1. nodes \in Seq({x})
      OBVIOUS
    <3>2. graph \o nodes \in Seq(Nodes \cup {x})
      <4> HIDE DEF nodes
      <4> QED BY <1>1, <3>1, ConcatExtends
    <3> QED BY <1>1, <2>6, <3>2, QuietOne
  <2> HIDE DEF g
  <2>9. Built(g \o IfOn(NextId, NextId + 1), lower.eff)
    BY <2>8, BranchQuiet
  <2> QED BY <2>1, <2>7, <2>9
<1> QED BY <1>2, <1>3

LEMMA IfQuiet ==
  ASSUME LowererOK(method, graph, lower), Built(graph, lower.eff), Advanced,
         method \in Seq(Instructions), LowerIf
  PROVE  Built(graph', lower'.eff)
<1> DEFINE two == Op.against = "value"
           pops == IF two THEN 2 ELSE 1
           other == CASE Op.against = "value" -> <<>>
                      [] Op.against = "zero" -> <<ConstInt(0)>>
                      [] OTHER -> <<PureNode("LdNull", <<>>)>>
           cmp == NextId + Len(other)
           in == IF two THEN Operands(2) ELSE <<Nth(0), NextId>>
           kind == IF Op.against \in {"null", "ref"} THEN "Eq" ELSE CompareKind
           x == PureNode(kind, in)
           a == NewNode("If", <<cmp>>, lower.ctrl, NoId)
           b == NewNode("IfTrue", <<>>, cmp + 1, NoId)
           c == NewNode("IfFalse", <<>>, cmp + 1, NoId)
           nodes == <<x, a, b, c>>
<1>1. ~Fail
  BY NotFailed
<1>2. /\ ~(Depth < pops) /\ graph' = graph \o other \o nodes
      /\ lower' = [lower EXCEPT !.pc = @ + 1, !.stack = Under(pops), !.ctrl = cmp + 1]
  BY <1>1 DEF LowerIf
<1>3. Op \in Instructions /\ Op.op = "if"
  BY OpFields DEF LowerIf
<1>4. Op.against \in {"zero", "value", "null", "ref"} /\ Op.cond \in Comparisons
  BY <1>3, InstructionFields
<1>5. lower'.eff = lower.eff
  BY <1>2 DEF LowererOK
<1>6. graph \in Seq(Nodes)
  BY DEF LowererOK, LoweredGraph
<1>7. Len(in) = 2
  <2>1. CASE two
    <3>1. 2 \in 0..Depth
      BY <1>2, <2>1, StackFacts
    <3> QED BY <2>1, <3>1, StackFacts
  <2>2. CASE ~two
    BY <2>2
  <2> QED BY <2>1, <2>2
<1>8. kind \in {"Eq", "Lt", "Gt"}
  BY <1>4 DEF CompareKind, Comparisons
<1>9. kind \in PureLowered /\ kind \notin ConstKinds /\ kind \notin {"Neg", "ConvI4", "ConvI8"}
  BY <1>8 DEF PureLowered, ConstKinds
<1>10. \E T : other \in Seq(T) /\ \A k \in 1..Len(other) : Quiet(other[k])
  <2>1. CASE Op.against = "value"
    <3>1. other = <<>>
      BY <2>1
    <3>2. other \in Seq({}) /\ \A k \in 1..Len(other) : FALSE
      BY <3>1
    <3> QED BY <3>2
  <2>2. CASE Op.against # "value"
    <3>1. PICK n \in {ConstInt(0), PureNode("LdNull", <<>>)} : other = <<n>>
      <4> HIDE DEF nodes, cmp
      <4> QED BY <2>2
    <3>2. Quiet(n)
      BY ConstQuiet
    <3> HIDE DEF other
    <3>3. other \in Seq({n}) /\ \A k \in 1..Len(other) : other[k] = n
      BY <3>1
    <3> QED BY <3>2, <3>3
  <2> QED BY <2>1, <2>2
<1> HIDE DEF two, other, cmp, in, kind
<1>11. Quiet(x)
  BY <1>7, <1>9, PureQuiet
<1>12. Quiet(a) /\ Quiet(b) /\ Quiet(c)
  BY OtherShaped DEF BranchLowered
<1> HIDE DEF x, a, b, c
<1>13. nodes \in Seq({x, a, b, c}) /\ \A k \in 1..Len(nodes) : nodes[k] \in {x, a, b, c}
  OBVIOUS
<1> HIDE DEF nodes
<1>14. PICK T : other \in Seq(T) /\ \A k \in 1..Len(other) : Quiet(other[k])
  BY <1>10
<1> DEFINE g == graph \o other
<1>15. Built(g, lower.eff) /\ g \in Seq(Nodes \cup T)
  BY <1>6, <1>14, QuietAdded, ConcatExtends
<1> HIDE DEF g
<1>16. \A k \in 1..Len(nodes) : Quiet(nodes[k])
  BY <1>11, <1>12, <1>13
<1>17. Built(g \o nodes, lower.eff)
  BY <1>13, <1>15, <1>16, QuietAdded
<1> QED BY <1>2, <1>5, <1>17 DEF g

LEMMA BuiltStep ==
  ASSUME LowererOK(method, graph, lower), Built(graph, lower.eff), Advanced,
         method \in Seq(Instructions), LowerNext \/ CilLowerNext
  PROVE  Built(graph', lower'.eff) \/ LowerEnd
<1>1. CASE LowerConst \/ LowerLdC
  BY <1>1, ConstBuilds
<1>2. CASE LowerLoad \/ LowerLdLoc \/ LowerStore \/ LowerStLoc
  BY <1>2, SlotBuilds
<1>3. CASE LowerIinc
  BY <1>3, IincBuilds
<1>4. CASE LowerStackOp \/ LowerCilStack \/ LowerGoto \/ LowerBr
  BY <1>4, StackBuilds
<1>5. CASE LowerPure \/ LowerCilPure
  BY <1>5, PureBuilds
<1>6. CASE LowerEffect \/ LowerObject
  BY <1>6, EffectBuilds
<1>7. CASE LowerIf
  BY <1>7, IfQuiet
<1>8. CASE LowerReturn \/ LowerRet
  BY <1>8, ReturnBuilds
<1>9. CASE LowerSwitch \/ LowerUnsupported
  BY <1>9, NotFailed DEF LowerSwitch, LowerUnsupported
<1>10. CASE LowerBrIf \/ LowerBrCmp
  BY <1>10, BrBuilds
<1> QED
  BY <1>1, <1>2, <1>3, <1>4, <1>5, <1>6, <1>7, <1>8, <1>9, <1>10 DEF LowerNext, CilLowerNext

(* At the end a Return hangs on the last effect.                                *)
LEMMA EndBuilds ==
  ASSUME LowererOK(method, graph, lower), Built(graph, lower.eff), LowerEnd
  PROVE  /\ ShapedGraph(graph') /\ Linked(graph', graph')
         /\ \E r \in 1..Len(graph') : graph'[r].kind = "Return"
<1> DEFINE h == graph'
           m == Len(h)
           e == lower.eff
<1>1. LoweredGraph(h) /\ LoweredGraph(graph) /\ graph \in Seq(Nodes) /\ e \in 1..Len(graph)
  BY EndStep DEF LowererOK, LoweredGraph
<1>2. h = graph \o (IF Depth > 0 THEN <<ReturnOf(Nth(0))>> ELSE ReturnNull)
  BY DEF LowerEnd
<1>3. Built(h, e)
  <2>1. Built(graph \o <<ReturnOf(Nth(0))>>, e) /\ Built(graph \o ReturnNull, e)
    BY <1>1, ReturnQuiet
  <2> QED BY <1>2, <2>1
<1>4. Len(graph) < m /\ m \in Nat /\ \E v : h[m] = ReturnOf(v)
  <2>1. ASSUME NEW T, NEW nodes \in Seq(T), Len(nodes) \in {1, 2}, h = graph \o nodes,
               \E v : nodes[Len(nodes)] = ReturnOf(v)
        PROVE  Len(graph) < m /\ m \in Nat /\ \E v : h[m] = ReturnOf(v)
    <3>1. /\ Len(h) = Len(graph) + Len(nodes)
          /\ \A k \in 1..Len(nodes) : h[Len(graph) + k] = nodes[k]
      BY <1>1, <2>1, AppendedAny
    <3>2. Len(graph) \in Nat /\ Len(nodes) \in 1..Len(nodes)
      <4>1. \A k \in {1, 2} : k \in 1..k
        OBVIOUS
      <4> QED BY <1>1, <2>1, <4>1, LenProperties
    <3>3. h[m] = nodes[Len(nodes)]
      BY <3>1, <3>2
    <3> QED BY <2>1, <3>1, <3>2, <3>3
  <2>2. CASE Depth > 0
    <3> DEFINE n == ReturnOf(Nth(0))
               nodes == <<n>>
    <3>1. nodes \in Seq({n}) /\ Len(nodes) = 1 /\ nodes[Len(nodes)] = n
      OBVIOUS
    <3>2. h = graph \o nodes /\ \E v : n = ReturnOf(v)
      BY <1>2, <2>2
    <3> HIDE DEF nodes, n, h
    <3> QED BY <2>1, <3>1, <3>2 DEF h
  <2>3. CASE ~(Depth > 0)
    <3> DEFINE a == PureNode("LdNull", <<>>)
               n == ReturnOf(NextId)
               nodes == <<a, n>>
    <3>1. nodes \in Seq({a, n}) /\ Len(nodes) = 2 /\ nodes[Len(nodes)] = n
      OBVIOUS
    <3>2. h = graph \o nodes /\ \E v : n = ReturnOf(v)
      BY <1>2, <2>3 DEF ReturnNull
    <3> HIDE DEF nodes, n, a, h
    <3> QED BY <2>1, <3>1, <3>2 DEF h
  <2> QED BY <2>2, <2>3
<1>5. h[m].kind = "Return" /\ h[m].eff = e /\ "Effect" \in h[m].flags
  <2>1. PICK v : h[m] = ReturnOf(v)
    BY <1>4
  <2>2. "Effect" \in KindFlags("Return")
    BY DEF KindFlags, EffectKinds, LeavingKinds
  <2> QED BY <2>1, <2>2, NewNodeFields DEF ReturnOf
<1> HIDE DEF h, e
<1>6. m \in 1..Len(h) /\ e < m
  BY <1>1, <1>4
<1>7. Chains(h, h, e, m)
  BY <1>5, <1>6 DEF Chains, Has
<1> HIDE DEF m
<1>8. Linked(h, h)
  <2> SUFFICES ASSUME NEW x \in 1..Len(h), Has(h, x, "Effect"), h[x].kind # "Return"
               PROVE  \E y \in 1..Len(h) : Chains(h, h, x, y)
    BY DEF Linked
  <2>1. x = e \/ \E y \in 1..Len(h) : Chains(h, h, x, y)
    BY <1>3 DEF Built, Hangs
  <2> QED BY <1>6, <1>7, <2>1
<1> QED BY <1>1, <1>3, <1>5, <1>6, <1>8 DEF Built, ShapedGraph, h

LEMMA BuiltInit ==
  ASSUME NEW locals \in Nat, NEW arguments \in Nat, LowerInit(locals, arguments)
  PROVE  Built(graph, lower.eff)
<1> DEFINE start == NewNode("Start", <<>>, NoId, NoId)
           phi == NewNode("Phi", <<>>, NoId, NoId)
           n == locals + arguments
           phis == [k \in 1..n |-> phi]
           g == <<start>>
<1>1. graph = g \o phis /\ n \in Nat /\ lower.eff = 1
  BY DEF LowerInit
<1>2. Shaped(start) /\ Quiet(phi)
  <2>1. "Phi" \in PureLowered /\ "Phi" \notin ConstKinds \cup BinaryKinds
    BY DEF PureLowered, ConstKinds, BinaryKinds
  <2> QED BY <2>1, OtherShaped, PureQuiet DEF PureNode
<1> HIDE DEF start, phi, n
<1>3. g \in Seq({start}) /\ Len(g) = 1 /\ g[1] = start /\ phis \in Seq({phi}) /\ Len(phis) = n
      /\ \A k \in 1..Len(phis) : phis[k] = phi
  BY <1>1
<1> HIDE DEF g, phis
<1>4. Built(g, 1)
  <2>1. \A id \in 1..Len(g) : id = 1
    BY <1>3
  <2> QED BY <1>2, <1>3, <2>1 DEF Built, Hangs
<1>5. \A k \in 1..Len(phis) : Quiet(phis[k])
  BY <1>2, <1>3
<1>6. Built(g \o phis, 1)
  BY <1>3, <1>4, <1>5, QuietAdded
<1> QED BY <1>1, <1>6

==============================================================================
