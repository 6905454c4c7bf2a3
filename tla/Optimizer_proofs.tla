--------------------------- MODULE Optimizer_proofs ---------------------------
(* What the passes of the RUBY tier keep.                                       *)
EXTENDS Baseline_proofs

-----------------------------------------------------------------------------
(* The passes that are folds over a sequence of ids: one step of each.          *)

GvnStep(s, id) == IF id \in Pure(s.g) THEN Deduplicate(s, id) ELSE s

CseStep(s, id) ==
  IF Dead(s.g, id) THEN s
  ELSE IF Has(s.g, id, "Effect") THEN [s EXCEPT !.table = {}]
  ELSE IF Has(s.g, id, "Pure") THEN Deduplicate(s, id) ELSE s

EscapeStep(h, id) ==
  IF \E other \in Live(h) \ {id} : id \in DataInputs(h, other) THEN h ELSE MarkDead(h, id)

StubStep(h, id) ==
  LET check == NewNode("CheckClass", <<h[id].in[1]>>, h[id].ctrl, h[id].eff)
  IN  [Append(h, check) EXCEPT ![id].eff = Len(h) + 1]

SweepStep(h) == IF Removable(h) = {} THEN h ELSE SetFlag(h, Removable(h), "IsDead")

(* The same for the folds inside the passes of the DIAMOND tier, of whose       *)
(* operators they are the bodies.                                               *)
LoadForwarded(g, u, o, h, load) ==
  IF ForwardableFrom(h, g, u, o, load)
    THEN ForwardLoad(h, load, StoredBy(g, MaxOf(Users(StoresAt(g, u, o, g[load].cls))))) ELSE h

UseMaterialized(escaping, o, values, user, h, k) ==
  IF <<user, k>> \in escaping THEN MaterializeAt(h, o, values, user, k) ELSE h

UserMaterialized(g, escaping, o, values, h, user) ==
  FoldLeft(LAMBDA x, k : UseMaterialized(escaping, o, values, user, x, k),
           h, [k \in DOMAIN g[user].in |-> k])

UseUnboxed(uses, box, value, user, h, k) ==
  IF <<user, k>> \in uses THEN UnboxUse(h, box, value, user, k) ELSE h

UserUnboxed(g, uses, box, value, h, user) ==
  FoldLeft(LAMBDA x, k : UseUnboxed(uses, box, value, user, x, k),
           h, [k \in DOMAIN g[user].in |-> k])

TripRemoved(h, id) ==
  LET box == h[id].in[1]
  IN  IF Valid(h, box) /\ ~Dead(h, box) /\ h[box].kind = "Box" /\ h[box].in # <<>>
        THEN MarkDead(ReplaceAllUses(h, id, h[box].in[1]), id) ELSE h

LoadKnown(g, u, o, h, load) ==
  LET value == StoredBy(g, MaxOf(Users(StoresAt(g, u, o, g[load].cls))))
  IN  CASE ~ForwardableFrom(h, g, u, o, load) -> h
        [] ForwardableFrom(h, g, u, o, load) ->
             IF Has(h, value, "IsConst") THEN NoteConstant(h, load, value)
             ELSE MarkDead(ReplaceAllUses(h, load, value), load)

StoreDropped(u, h, store) ==
  IF \A user \in EffectUsers(u, store) : Dead(h, user) THEN MarkDead(h, store) ELSE h

Copied(g, bs, h) ==
  InOrder({id \in LoopNodes(g, bs, h) : g[id].kind \notin {"Loop", "Jump"}}, Len(g))

LaneExtracted(pack, vector, h, lane) == ExtractLane(h, pack, vector, lane)

LoopUnrolled(g, bs, x, h) ==
  FoldLeft(CopyNode, [g |-> x, copies |-> <<>>], Copied(g, bs, h - 1)).g

PackedWith(g, pack, id) ==
  IF Len(pack) < MaxLanes /\ \A k \in DOMAIN pack : AreIndependent(g, id, pack[k])
    THEN Append(pack, id) ELSE pack

PassRun(build, s, pass) ==
  IF s.rejected THEN s ELSE Examined(build, pass, s.g, RunDiamond(pass, s.g))

(* One step of the fold of this name; a to d are what its body names besides.   *)
FoldStepIn(fold, a, b, c, d, s, id) ==
  CASE fold = "GVN" -> GvnStep(s, id)
    [] fold = "CSE" -> CseStep(s, id)
    [] fold = "EscapeAnalysis" -> EscapeStep(s, id)
    [] fold = "ICStubEmission" -> StubStep(s, id)
    [] fold = "DeadCodeElimination" -> SweepStep(s)
    [] fold = "ForwardLoads" -> LoadForwarded(a, b, c, s, id)
    [] fold = "MaterializeAt" -> UseMaterialized(a, b, c, d, s, id)
    [] fold = "InsertMaterialize" -> UserMaterialized(a, b, c, d, s, id)
    [] fold = "RemoveStores" -> Bypass(s, id)
    [] fold = "UnboxUse" -> UseUnboxed(a, b, c, d, s, id)
    [] fold = "UnboxUses" -> UserUnboxed(a, b, c, d, s, id)
    [] fold = "RoundTrips" -> TripRemoved(s, id)
    [] fold = "PEARound" -> ProcessBoth(s, a, id)
    [] fold = "PEARounds" -> PEARound(s)
    [] fold = "ProcessBoxes" -> ProcessBox(s, a, id)
    [] fold = "ProcessAllocations" -> ProcessAllocation(s, a, id)
    [] fold = "SRALoads" -> LoadKnown(a, b, c, s, id)
    [] fold = "SRAStores" -> StoreDropped(a, s, id)
    [] fold = "SRA" -> SRAObject(s, a, id)
    [] fold = "CopyNode" -> CopyNode(s, id)
    [] fold = "LoopUnrolling" -> LoopUnrolled(a, b, s, id)
    [] fold = "Pack" -> PackedWith(a, s, id)
    [] fold = "Lanes" -> LaneExtracted(a, b, s, id)
    [] fold = "SLP" -> PackKind(s, id)
    [] fold = "Pipeline" -> PassRun(a, s, id)

IsFoldIn(f, fold, a, b, c, d, base, q, n) ==
  f = [s \in SUBSET (1..n) |-> IF s = {} THEN base
                               ELSE FoldStepIn(fold, a, b, c, d, f[s \ {Max(s)}], q[Max(s)])]

FoldStep(pass, s, id) == FoldStepIn(pass, 0, 0, 0, 0, s, id)
IsFold(f, pass, base, q, n) == IsFoldIn(f, pass, 0, 0, 0, 0, base, q, n)

(* The steps of a fold, one after the other.                                    *)
Steps(f, pass, base, q) ==
  /\ f[0] = base
  /\ \A k \in 1..Len(q) : f[k] = FoldStep(pass, f[k - 1], q[k])

LEMMA FoldInExists ==
  ASSUME NEW pass, NEW a, NEW b, NEW c, NEW d, NEW base, NEW q, NEW n \in Nat
  PROVE  \E f : IsFoldIn(f, pass, a, b, c, d, base, q, n)
<1> DEFINE T == {m \in Nat : \E f : IsFoldIn(f, pass, a, b, c, d, base, q, m)}
<1>1. 0 \in T
  <2> DEFINE f == [s \in SUBSET (1..0) |-> base]
             r(s) == IF s = {} THEN base ELSE FoldStepIn(pass, a, b, c, d, f[s \ {Max(s)}], q[Max(s)])
  <2>1. \A s \in SUBSET (1..0) : f[s] = r(s)
    OBVIOUS
  <2>2. f = [s \in SUBSET (1..0) |-> r(s)]
    BY <2>1
  <2>3. IsFoldIn(f, pass, a, b, c, d, base, q, 0)
    BY <2>2 DEF IsFoldIn
  <2> HIDE DEF f
  <2> QED BY <2>3
<1>2. ASSUME NEW m \in 0..n - 1, m \in T PROVE m + 1 \in T
  <2>1. PICK f : IsFoldIn(f, pass, a, b, c, d, base, q, m)
    BY <1>2
  <2> DEFINE D == SUBSET (1..m + 1)
             h == [s \in D |-> IF m + 1 \in s THEN FoldStepIn(pass, a, b, c, d, f[s \ {m + 1}], q[m + 1])
                                              ELSE f[s]]
             r(s) == IF s = {} THEN base ELSE FoldStepIn(pass, a, b, c, d, h[s \ {Max(s)}], q[Max(s)])
  <2>2. ASSUME NEW s \in D PROVE h[s] = r(s)
    <3>1. CASE m + 1 \in s
      <4>1. Max(s) = m + 1 /\ s \ {Max(s)} \in SUBSET (1..m)
        <5> HIDE DEF h
        <5> QED BY <3>1, MaxOfPrefix
      <4>2. s \ {m + 1} \in D /\ m + 1 \notin s \ {m + 1} /\ s # {}
        BY <3>1, <4>1
      <4>3. h[s \ {m + 1}] = f[s \ {m + 1}]
        BY <4>2
      <4>4. h[s] = FoldStepIn(pass, a, b, c, d, f[s \ {m + 1}], q[m + 1])
        BY <3>1
      <4> QED BY <4>1, <4>2, <4>3, <4>4
    <3>2. CASE m + 1 \notin s
      <4>1. s \in SUBSET (1..m)
        BY <3>2
      <4>2. h[s] = f[s]
        BY <3>2
      <4> DEFINE t == s \ {Max(s)}
      <4>3. t \in SUBSET (1..m) /\ t \in D /\ m + 1 \notin t
        <5>1. t \subseteq s /\ 1..m \subseteq 1..m + 1 /\ m + 1 \notin 1..m
          OBVIOUS
        <5> HIDE DEF t
        <5> QED BY <4>1, <5>1
      <4>4. h[t] = f[t]
        BY <4>3
      <4>5. f[s] = IF s = {} THEN base ELSE FoldStepIn(pass, a, b, c, d, f[t], q[Max(s)])
        BY <2>1, <4>1 DEF IsFoldIn
      <4> QED BY <4>2, <4>4, <4>5
    <3> QED BY <3>1, <3>2
  <2>3. h = [s \in D |-> r(s)]
    <3>1. h = [s \in D |-> h[s]]
      OBVIOUS
    <3> HIDE DEF h
    <3> QED BY <2>2, <3>1
  <2>4. IsFoldIn(h, pass, a, b, c, d, base, q, m + 1)
    BY <2>3 DEF IsFoldIn
  <2> HIDE DEF h
  <2> QED BY <1>2, <2>4
<1>3. n \in T
  <2> HIDE DEF T
  <2> QED BY <1>1, <1>2, PrefixInduction
<1> QED BY <1>3

LEMMA FoldExists ==
  ASSUME NEW pass, NEW base, NEW q, NEW n \in Nat
  PROVE  \E f : IsFold(f, pass, base, q, n)
BY FoldInExists DEF IsFold

(* The fold is the last of its steps.                                           *)
LEMMA FoldSteps ==
  ASSUME NEW pass, NEW base, NEW q, NEW n \in Nat, n = Len(q),
         NEW w, IsFold(w, pass, base, q, n)
  PROVE  \E f : Steps(f, pass, base, q) /\ f[n] = w[1..n]
<1> DEFINE f == [k \in 0..n |-> w[1..k]]
<1>1. w[1..0] = base
  <2>1. 1..0 = {} /\ {} \in SUBSET (1..n)
    OBVIOUS
  <2> QED BY <2>1 DEF IsFold, IsFoldIn
<1>2. ASSUME NEW k \in 1..n PROVE w[1..k] = FoldStep(pass, w[1..k - 1], q[k])
  <2>1. k - 1 \in Nat /\ (k - 1) + 1 = k /\ 1..k \in SUBSET (1..n) /\ 1..k # {} /\ k \in 1..k
        /\ (1..k) \ {k} = 1..k - 1
    BY PrefixOfPrefix
  <2>2. Max(1..k) = k
    <3> DEFINE m == k - 1
    <3>1. m \in Nat /\ m + 1 = k
      BY <2>1
    <3> HIDE DEF m
    <3>2. 1..k \in SUBSET (1..m + 1) /\ m + 1 \in 1..k
      BY <2>1, <3>1
    <3>3. Max(1..k) = m + 1
      BY <3>1, <3>2, MaxOfPrefix
    <3> QED BY <3>1, <3>3
  <2> DEFINE a == 1..k
             b == 1..k - 1
  <2>3. a \in SUBSET (1..n) /\ a # {} /\ a \ {k} = b /\ Max(a) = k
    BY <2>1, <2>2
  <2> HIDE DEF a, b
  <2>4. w[a] = FoldStep(pass, w[b], q[k])
    BY <2>3 DEF IsFold, IsFoldIn, FoldStep
  <2> QED BY <2>4 DEF a, b
<1>3. f[0] = w[1..0] /\ f[n] = w[1..n] /\ 0 \in 0..n
  OBVIOUS
<1>4. ASSUME NEW k \in 1..n PROVE f[k] = FoldStep(pass, f[k - 1], q[k])
  <2>1. k \in 0..n /\ k - 1 \in 0..n
    OBVIOUS
  <2>2. f[k] = w[1..k] /\ f[k - 1] = w[1..k - 1]
    BY <2>1
  <2> HIDE DEF f
  <2> QED BY <1>2, <2>2
<1> HIDE DEF f
<1>5. Steps(f, pass, base, q)
  BY <1>1, <1>3, <1>4 DEF Steps
<1> QED BY <1>3, <1>5

LEMMA AscendingFacts ==
  ASSUME NEW g, Len(g) \in Nat
  PROVE  /\ Len(Ascending(g)) = Len(g) /\ DOMAIN Ascending(g) = 1..Len(g)
         /\ \A k \in 1..Len(g) : Ascending(g)[k] = k
<1>1. Ascending(g) = [k \in 1..Len(g) |-> k]
  BY DEF Ascending, Ids
<1> QED BY <1>1

LEMMA GvnSteps ==
  ASSUME NEW g, NEW n \in Nat, n = Len(g)
  PROVE  \E f : /\ Steps(f, "GVN", NoTable(g), Ascending(g))
                /\ f[n].g = GVN(g)
<1> DEFINE q == Ascending(g)
           base == NoTable(g)
           w == CHOOSE f : IsFold(f, "GVN", base, q, n)
<1>1. Len(q) = n /\ DOMAIN q = 1..n
  BY AscendingFacts
<1> HIDE DEF q, base
<1>2. IsFold(w, "GVN", base, q, n)
  BY <1>1, FoldExists
<1>3. GVN(g) = w[1..n].g
  BY <1>1 DEF GVN, FoldLeft, MapThenFoldSet, IsFold, IsFoldIn, FoldStep, FoldStepIn, GvnStep, q, base
<1> HIDE DEF w
<1>4. \E f : Steps(f, "GVN", base, q) /\ f[n] = w[1..n]
  BY <1>1, <1>2, FoldSteps
<1> QED BY <1>3, <1>4 DEF q, base

LEMMA CseSteps ==
  ASSUME NEW g, NEW n \in Nat, n = Len(g)
  PROVE  \E f : /\ Steps(f, "CSE", NoTable(g), Ascending(g))
                /\ f[n].g = CSE(g)
<1> DEFINE q == Ascending(g)
           base == NoTable(g)
           w == CHOOSE f : IsFold(f, "CSE", base, q, n)
<1>1. Len(q) = n /\ DOMAIN q = 1..n
  BY AscendingFacts
<1> HIDE DEF q, base
<1>2. IsFold(w, "CSE", base, q, n)
  BY <1>1, FoldExists
<1>3. CSE(g) = w[1..n].g
  BY <1>1 DEF CSE, FoldLeft, MapThenFoldSet, IsFold, IsFoldIn, FoldStep, FoldStepIn, CseStep, q, base
<1> HIDE DEF w
<1>4. \E f : Steps(f, "CSE", base, q) /\ f[n] = w[1..n]
  BY <1>1, <1>2, FoldSteps
<1> QED BY <1>3, <1>4 DEF q, base

LEMMA SweepSteps ==
  ASSUME NEW g, NEW n \in Nat, n = Len(g)
  PROVE  \E f : /\ Steps(f, "DeadCodeElimination", g, Ascending(g))
                /\ f[n] = DeadCodeElimination(g)
<1> DEFINE q == Ascending(g)
           w == CHOOSE f : IsFold(f, "DeadCodeElimination", g, q, n)
<1>1. Len(q) = n /\ DOMAIN q = 1..n
  BY AscendingFacts
<1> HIDE DEF q
<1>2. IsFold(w, "DeadCodeElimination", g, q, n)
  BY <1>1, FoldExists
<1>3. DeadCodeElimination(g) = w[1..n]
  BY <1>1 DEF DeadCodeElimination, FoldLeft, MapThenFoldSet, IsFold, IsFoldIn, FoldStep, FoldStepIn, SweepStep, q
<1> HIDE DEF w
<1>4. \E f : Steps(f, "DeadCodeElimination", g, q) /\ f[n] = w[1..n]
  BY <1>1, <1>2, FoldSteps
<1> QED BY <1>3, <1>4 DEF q

LEMMA EscapeSteps ==
  ASSUME NEW g, NEW q, q = InOrder(OfKind(g, AllocationKinds), Len(g)),
         NEW n \in Nat, n = Len(q), DOMAIN q = 1..n
  PROVE  \E f : Steps(f, "EscapeAnalysis", g, q) /\ f[n] = EscapeAnalysis(g)
<1> DEFINE w == CHOOSE f : IsFold(f, "EscapeAnalysis", g, q, n)
<1>1. IsFold(w, "EscapeAnalysis", g, q, n)
  BY FoldExists
<1>2. EscapeAnalysis(g) = w[1..n]
  BY DEF EscapeAnalysis, FoldLeft, MapThenFoldSet, IsFold, IsFoldIn, FoldStep, FoldStepIn, EscapeStep
<1> HIDE DEF w
<1>3. \E f : Steps(f, "EscapeAnalysis", g, q) /\ f[n] = w[1..n]
  BY <1>1, FoldSteps
<1> QED BY <1>2, <1>3

(* The virtual calls that get a class check.                                    *)
Checked(g) ==
  {id \in OfKind(g, {"CallVirt"}) : g[id].in # <<>> /\ Valid(g, g[id].in[1])}

LEMMA StubSteps ==
  ASSUME NEW g, NEW q, q = InOrder(Checked(g), Len(g)), NEW n \in Nat, n = Len(q),
         DOMAIN q = 1..n
  PROVE  \E f : Steps(f, "ICStubEmission", g, q) /\ f[n] = ICStubEmission(g)
<1> DEFINE w == CHOOSE f : IsFold(f, "ICStubEmission", g, q, n)
<1>1. IsFold(w, "ICStubEmission", g, q, n)
  BY FoldExists
<1>2. ICStubEmission(g) = w[1..n]
  <2>1. ICStubEmission(g) = FoldLeft(StubStep, g, q)
    BY DEF ICStubEmission, StubStep, Checked
  <2>2. FoldLeft(StubStep, g, q) = w[1..n]
    BY DEF FoldLeft, MapThenFoldSet, IsFold, IsFoldIn, FoldStep, FoldStepIn
  <2> QED BY <2>1, <2>2
<1> HIDE DEF w
<1>3. \E f : Steps(f, "ICStubEmission", g, q) /\ f[n] = w[1..n]
  BY <1>1, FoldSteps
<1> QED BY <1>2, <1>3

-----------------------------------------------------------------------------
(* Nodes that a pass changes.                                                    *)

(* A node with one more flag, or with a constant put beside it.                 *)
LEMMA FlaggedNode ==
  ASSUME NEW n, GraphNode(n), NEW flag \in Flags
  PROVE  LET m == [n EXCEPT !.flags = @ \cup {flag}]
         IN  /\ GraphNode(m) /\ m.flags = n.flags \cup {flag}
             /\ m.kind = n.kind /\ m.in = n.in /\ m.ctrl = n.ctrl /\ m.eff = n.eff
             /\ m.type = n.type /\ m.val = n.val /\ m.cls = n.cls /\ m.state = n.state
BY DEF GraphNode

LEMMA MarkedNode ==
  ASSUME NEW n, GraphNode(n), NEW v
  PROVE  /\ GraphNode(Mark(n, v)) /\ GraphNode(MarkInt(n, v))
         /\ \A m \in {Mark(n, v), MarkInt(n, v)} :
              /\ m.flags = n.flags \cup {"IsConst"} /\ m.val = v
              /\ m.kind = n.kind /\ m.in = n.in /\ m.ctrl = n.ctrl /\ m.eff = n.eff
              /\ m.cls = n.cls /\ m.state = n.state
         /\ MarkInt(n, v).type = "Int"
BY DEF GraphNode, Mark, MarkInt, Flags

-----------------------------------------------------------------------------
(* Every pass of the RUBY tier makes a graph of a graph.                        *)

(* h is g with a flag on some of its nodes.                                     *)
Flagged(g, h, ids, flag) ==
  /\ IsGraph(h) /\ Len(h) = Len(g)
  /\ \A id \in 1..Len(g) :
       /\ id \notin ids => h[id] = g[id]
       /\ h[id].flags = IF id \in ids THEN g[id].flags \cup {flag} ELSE g[id].flags
       /\ h[id].kind = g[id].kind /\ h[id].in = g[id].in
       /\ h[id].ctrl = g[id].ctrl /\ h[id].eff = g[id].eff
       /\ h[id].type = g[id].type /\ h[id].val = g[id].val
       /\ h[id].cls = g[id].cls /\ h[id].state = g[id].state

LEMMA SetFlagMarks ==
  ASSUME NEW g, IsGraph(g), NEW ids, NEW flag \in Flags
  PROVE  Flagged(g, SetFlag(g, ids, flag), ids, flag)
<1> DEFINE h == SetFlag(g, ids, flag)
           n == Len(g)
           marked(m) == [m EXCEPT !.flags = @ \cup {flag}]
<1>1. n \in Nat /\ h = [id \in 1..n |-> IF id \in ids THEN marked(g[id]) ELSE g[id]]
  BY GraphFacts DEF SetFlag
<1>2. \A id \in 1..n : GraphNode(g[id])
  BY DEF IsGraph
<1> HIDE DEF h, n, marked
<1>3. h = [id \in 1..n |-> h[id]] /\ \A id \in 1..n : h[id] = IF id \in ids THEN marked(g[id]) ELSE g[id]
  BY <1>1
<1>4. ASSUME NEW id \in 1..n
      PROVE  /\ GraphNode(h[id])
             /\ id \notin ids => h[id] = g[id]
             /\ h[id].flags = IF id \in ids THEN g[id].flags \cup {flag} ELSE g[id].flags
             /\ h[id].kind = g[id].kind /\ h[id].in = g[id].in
             /\ h[id].ctrl = g[id].ctrl /\ h[id].eff = g[id].eff
             /\ h[id].type = g[id].type /\ h[id].val = g[id].val
             /\ h[id].cls = g[id].cls /\ h[id].state = g[id].state
  <2> DEFINE m == g[id]
  <2>1. GraphNode(m)
    BY <1>2
  <2> HIDE DEF m
  <2>2. /\ GraphNode(marked(m)) /\ marked(m).flags = m.flags \cup {flag}
        /\ marked(m).kind = m.kind /\ marked(m).in = m.in /\ marked(m).ctrl = m.ctrl
        /\ marked(m).eff = m.eff /\ marked(m).type = m.type /\ marked(m).val = m.val
        /\ marked(m).cls = m.cls /\ marked(m).state = m.state
    BY <2>1, FlaggedNode DEF marked
  <2>3. h[id] = IF id \in ids THEN marked(m) ELSE m
    BY <1>3 DEF m
  <2>4. CASE id \in ids
    BY <2>2, <2>3, <2>4 DEF m
  <2>5. CASE id \notin ids
    BY <2>1, <2>3, <2>5 DEF m
  <2> QED BY <2>4, <2>5
<1>5. IsGraph(h) /\ Len(h) = n
  BY <1>1, <1>3, <1>4, GraphOfNodes
<1> QED BY <1>4, <1>5 DEF Flagged, h, n

(* Nodes that stay or are marked.                                               *)
LEMMA MarksAGraph ==
  ASSUME NEW g, IsGraph(g), NEW h, h = [id \in Ids(g) |-> h[id]],
         \A id \in Ids(g) : h[id] = g[id] \/ \E v : h[id] \in {Mark(g[id], v), MarkInt(g[id], v)}
  PROVE  IsGraph(h) /\ Len(h) = Len(g)
<1>1. Ids(g) = 1..Len(g) /\ Len(g) \in Nat /\ \A id \in 1..Len(g) : GraphNode(g[id])
  BY GraphFacts DEF IsGraph
<1>2. \A id \in 1..Len(g) : GraphNode(h[id])
  BY <1>1, MarkedNode
<1> QED BY <1>1, <1>2, GraphOfNodes

LEMMA SimplificationMarks ==
  ASSUME NEW g
  PROVE  LET h == AlgebraicSimplification(g)
         IN  /\ h = [id \in Ids(g) |-> h[id]]
             /\ \A id \in Ids(g) : h[id] = g[id] \/ \E v : h[id] \in {Mark(g[id], v), MarkInt(g[id], v)}
<1> DEFINE h == AlgebraicSimplification(g)
<1>1. h = [id \in Ids(g) |-> IF id \in Pure(g) /\ Len(g[id].in) = 2
                               THEN Simplified(g, g[id]) ELSE g[id]]
  BY DEF AlgebraicSimplification
<1>2. ASSUME NEW n PROVE Simplified(g, n) = n \/ \E v : Simplified(g, n) \in {Mark(n, v), MarkInt(n, v)}
  BY DEF Simplified
<1> HIDE DEF h
<1> QED BY <1>1, <1>2 DEF h

LEMMA SCCPMarks ==
  ASSUME NEW g
  PROVE  LET h == SCCP(g)
         IN  /\ h = [id \in Ids(g) |-> h[id]]
             /\ \A id \in Ids(g) : h[id] = g[id] \/ \E v : h[id] \in {Mark(g[id], v), MarkInt(g[id], v)}
<1> DEFINE h == SCCP(g)
           value == Lattice(g)
           found == {id \in Pure(g) : value[id][1] = "const" /\ ~Has(g, id, "IsConst")}
<1>1. h = [id \in Ids(g) |-> IF id \in found THEN MarkInt(g[id], value[id][2]) ELSE g[id]]
  BY DEF SCCP
<1> HIDE DEF h, value, found
<1> QED BY <1>1 DEF h

LEMMA FoldingMarks ==
  ASSUME NEW g
  PROVE  LET h == ConstantFolding(g)
         IN  /\ h = [id \in Ids(g) |-> h[id]]
             /\ \A id \in Ids(g) : h[id] = g[id] \/ \E v : h[id] \in {Mark(g[id], v), MarkInt(g[id], v)}
<1> DEFINE h == ConstantFolding(g)
           folded == CHOOSE folded : folded = [id \in Ids(g) |-> FoldNode(g, folded, id)]
<1>1. h = [id \in Ids(g) |-> FoldNode(g, folded, id)]
  BY DEF ConstantFolding
<1> HIDE DEF h, folded
<1>2. ASSUME NEW id
      PROVE  FoldNode(g, folded, id) = g[id] \/ \E v : FoldNode(g, folded, id) = MarkInt(g[id], v)
  BY DEF FoldNode, TryFoldBinary
<1> QED BY <1>1, <1>2 DEF h

LEMMA PeepholeMarks ==
  ASSUME NEW g
  PROVE  LET h == Peephole(g)
         IN  /\ h = [id \in Ids(g) |-> h[id]]
             /\ \A id \in Ids(g) : h[id] = g[id] \/ \E v : h[id] \in {Mark(g[id], v), MarkInt(g[id], v)}
<1> DEFINE h == Peephole(g)
           shifts == {id \in OfKind(g, {"Mul"}) :
                        /\ Len(g[id].in) = 2
                        /\ Valid(g, g[id].in[2]) /\ g[g[id].in[2]].kind = "ConstInt"
                        /\ IsPowerOfTwo(g[g[id].in[2]].val)}
           value(id) == Log2(g[g[id].in[2]].val)
<1>1. h = [id \in Ids(g) |-> IF id \in shifts THEN Mark(g[id], value(id)) ELSE g[id]]
  BY DEF Peephole, ShiftsInstead
<1> HIDE DEF h, shifts, value
<1> QED BY <1>1 DEF h

LEMMA TailCallsGraph ==
  ASSUME NEW g, IsGraph(g)
  PROVE  IsGraph(TailCallElimination(g)) /\ Len(TailCallElimination(g)) = Len(g)
<1> DEFINE h == TailCallElimination(g)
           calls == TailCalls(g)
           n == Len(g)
<1>1. n \in Nat /\ h = [id \in 1..n |-> IF id \in calls THEN [g[id] EXCEPT !.kind = "TailCall"]
                                                        ELSE g[id]]
  BY GraphFacts DEF TailCallElimination
<1>2. \A id \in 1..n : GraphNode(g[id])
  BY DEF IsGraph
<1> HIDE DEF h, calls, n
<1>3. ASSUME NEW m, GraphNode(m) PROVE GraphNode([m EXCEPT !.kind = "TailCall"])
  BY <1>3 DEF GraphNode, Kinds, EffectKinds, LeavingKinds
<1>4. h = [id \in 1..n |-> h[id]]
  BY <1>1
<1>5. \A id \in 1..n : GraphNode(h[id])
  BY <1>1, <1>2, <1>3
<1>6. IsGraph(h) /\ Len(h) = n
  BY <1>1, <1>4, <1>5, GraphOfNodes
<1> QED BY <1>6 DEF h, n

(* h is g with another node in the place of an operand.                         *)
Redirected(in, old, new) == [k \in DOMAIN in |-> IF in[k] = old THEN new ELSE in[k]]

Replaced(g, h, old, new) ==
  /\ IsGraph(h) /\ Len(h) = Len(g)
  /\ \A id \in 1..Len(g) :
       /\ h[id].in = IF Dead(g, id) THEN g[id].in ELSE Redirected(g[id].in, old, new)
       /\ h[id].flags = g[id].flags /\ h[id].kind = g[id].kind
       /\ h[id].ctrl = g[id].ctrl /\ h[id].eff = g[id].eff
       /\ h[id].type = g[id].type /\ h[id].val = g[id].val
       /\ h[id].cls = g[id].cls /\ h[id].state = g[id].state

LEMMA ReplaceGraph ==
  ASSUME NEW g, IsGraph(g), NEW old, NEW new
  PROVE  Replaced(g, ReplaceAllUses(g, old, new), old, new)
<1> DEFINE h == ReplaceAllUses(g, old, new)
           n == Len(g)
           moved(in) == Redirected(in, old, new)
           changed(m) == [m EXCEPT !.in = moved(@)]
           other(id) == IF Dead(g, id) THEN g[id] ELSE changed(g[id])
<1>1. n \in Nat /\ h = [id \in 1..n |-> other(id)]
  BY GraphFacts DEF ReplaceAllUses, Redirected
<1>2. \A id \in 1..n : GraphNode(g[id])
  BY DEF IsGraph
<1> HIDE DEF h, n, moved, Replaced
<1>3. ASSUME NEW m, GraphNode(m)
      PROVE  /\ GraphNode(changed(m)) /\ changed(m).in = moved(m.in)
             /\ changed(m).flags = m.flags /\ changed(m).kind = m.kind
             /\ changed(m).ctrl = m.ctrl /\ changed(m).eff = m.eff
             /\ changed(m).type = m.type /\ changed(m).val = m.val
             /\ changed(m).cls = m.cls /\ changed(m).state = m.state
  BY <1>3 DEF GraphNode
<1> HIDE DEF changed
<1>4. h = [id \in 1..n |-> h[id]] /\ \A id \in 1..n : h[id] = other(id)
  BY <1>1
<1>5. ASSUME NEW id \in 1..n
      PROVE  /\ GraphNode(h[id])
             /\ h[id].in = IF Dead(g, id) THEN g[id].in ELSE moved(g[id].in)
             /\ h[id].flags = g[id].flags /\ h[id].kind = g[id].kind
             /\ h[id].ctrl = g[id].ctrl /\ h[id].eff = g[id].eff
             /\ h[id].type = g[id].type /\ h[id].val = g[id].val
             /\ h[id].cls = g[id].cls /\ h[id].state = g[id].state
  BY <1>2, <1>3, <1>4
<1>6. IsGraph(h) /\ Len(h) = n
  BY <1>1, <1>4, <1>5, GraphOfNodes
<1> QED BY <1>5, <1>6 DEF h, n, moved, Replaced

LEMMA MarkDeadGraph ==
  ASSUME NEW g, IsGraph(g), NEW id
  PROVE  IsGraph(MarkDead(g, id)) /\ Len(MarkDead(g, id)) = Len(g)
<1>1. "IsDead" \in Flags
  BY DEF Flags
<1> QED BY <1>1, SetFlagMarks DEF MarkDead, Flagged

(* The graph that GVN and CSE are at, beside the table.                         *)
IsAt(s, n) == s = [g |-> s.g, table |-> s.table] /\ IsGraph(s.g) /\ Len(s.g) = n

LEMMA DeduplicateGraph ==
  ASSUME NEW n, NEW s, IsAt(s, n), NEW id
  PROVE  IsAt(Deduplicate(s, id), n) /\ IsAt([s EXCEPT !.table = {}], n)
<1> DEFINE sig == Signature(s.g, id)
           same == {e \in s.table : e.sig = sig}
           kept == (CHOOSE e \in same : TRUE).id
           h == MarkDead(ReplaceAllUses(s.g, id, kept), id)
           more == s.table \cup {[sig |-> sig, id |-> id]}
<1>1. Deduplicate(s, id) = IF same = {} THEN [s EXCEPT !.table = more] ELSE [s EXCEPT !.g = h]
  BY DEF Deduplicate
<1>2. IsGraph(h) /\ Len(h) = n
  BY ReplaceGraph, MarkDeadGraph DEF IsAt, Replaced
<1> HIDE DEF h, more, same
<1>3. \A t : /\ [s EXCEPT !.table = t] = [g |-> s.g, table |-> t]
             /\ [s EXCEPT !.g = h] = [g |-> h, table |-> s.table]
  BY DEF IsAt
<1>4. \A t : IsAt([g |-> s.g, table |-> t], n) /\ IsAt([g |-> h, table |-> s.table], n)
  BY <1>2 DEF IsAt
<1> QED BY <1>1, <1>3, <1>4

(* What holds at the start of a fold and is kept by its steps.                  *)
LEMMA StepsKeep ==
  ASSUME NEW f, NEW pass, NEW base, NEW q, Steps(f, pass, base, q), Len(q) \in Nat,
         NEW S, base \in S,
         \A k \in 1..Len(q) : f[k - 1] \in S => FoldStep(pass, f[k - 1], q[k]) \in S
  PROVE  f[Len(q)] \in S
<1> DEFINE n == Len(q)
           T == {k \in Nat : k \in 0..n => f[k] \in S}
<1>1. n \in Nat
  OBVIOUS
<1>2. f[0] \in S /\ \A k \in 1..n : f[k - 1] \in S => f[k] \in S
  BY DEF Steps
<1> HIDE DEF n
<1>3. 0 \in T
  BY <1>2
<1>4. ASSUME NEW k \in 0..n - 1, k \in T PROVE k + 1 \in T
  <2>1. k \in 0..n /\ k + 1 \in 1..n /\ (k + 1) - 1 = k /\ k + 1 \in Nat
    BY <1>1
  <2>2. f[k] \in S
    BY <1>4, <2>1
  <2> DEFINE j == k + 1
  <2>3. j \in 1..n /\ j - 1 = k /\ j \in Nat
    BY <2>1
  <2> HIDE DEF j
  <2>4. f[j] \in S
    BY <1>2, <2>2, <2>3
  <2>5. j \in T
    BY <2>3, <2>4
  <2> QED BY <2>5 DEF j
<1>5. n \in T
  <2> HIDE DEF T
  <2>1. 0..n \subseteq T
    BY <1>1, <1>3, <1>4, PrefixInduction
  <2> QED BY <1>1, <2>1
<1> QED BY <1>1, <1>5 DEF n

LEMMA FoldStepOf ==
  ASSUME NEW s, NEW id
  PROVE  /\ FoldStep("GVN", s, id) = GvnStep(s, id)
         /\ FoldStep("CSE", s, id) = CseStep(s, id)
         /\ FoldStep("EscapeAnalysis", s, id) = EscapeStep(s, id)
         /\ FoldStep("ICStubEmission", s, id) = StubStep(s, id)
         /\ FoldStep("DeadCodeElimination", s, id) = SweepStep(s)
BY DEF FoldStep, FoldStepIn

LEMMA NumberingGraph ==
  ASSUME NEW g, IsGraph(g)
  PROVE  /\ IsGraph(GVN(g)) /\ Len(GVN(g)) = Len(g)
         /\ IsGraph(CSE(g)) /\ Len(CSE(g)) = Len(g)
<1> DEFINE n == Len(g)
           q == Ascending(g)
           base == NoTable(g)
<1>1. n \in Nat /\ Len(q) = n
  BY GraphFacts, AscendingFacts
<1>2. IsAt(base, n)
  BY DEF IsAt, NoTable
<1>3. ASSUME NEW s, NEW id, IsAt(s, n) PROVE IsAt(GvnStep(s, id), n) /\ IsAt(CseStep(s, id), n)
  BY <1>3, DeduplicateGraph DEF GvnStep, CseStep
<1> HIDE DEF n, base
<1>4. PICK f : Steps(f, "GVN", base, q) /\ f[n].g = GVN(g)
  BY <1>1, GvnSteps DEF n, base
<1>5. PICK h : Steps(h, "CSE", base, q) /\ h[n].g = CSE(g)
  BY <1>1, CseSteps DEF n, base
<1> HIDE DEF q
<1>6. IsAt(f[n], n)
  <2> DEFINE S == {f[k] : k \in {k \in 0..n : IsAt(f[k], n)}}
  <2>1. base \in S
    BY <1>1, <1>2, <1>4 DEF Steps
  <2>2. ASSUME NEW k \in 1..Len(q), f[k - 1] \in S PROVE FoldStep("GVN", f[k - 1], q[k]) \in S
    <3>1. IsAt(f[k - 1], n) /\ k \in 0..n
      BY <1>1, <2>2
    <3>2. f[k] = FoldStep("GVN", f[k - 1], q[k])
      BY <1>4 DEF Steps
    <3>3. IsAt(f[k], n)
      BY <1>3, <3>1, <3>2, FoldStepOf
    <3> QED BY <3>1, <3>2, <3>3
  <2>3. f[Len(q)] \in S
    <3> HIDE DEF S
    <3> QED BY <1>1, <1>4, <2>1, <2>2, StepsKeep
  <2> QED BY <1>1, <2>3
<1>7. IsAt(h[n], n)
  <2> DEFINE S == {h[k] : k \in {k \in 0..n : IsAt(h[k], n)}}
  <2>1. base \in S
    BY <1>1, <1>2, <1>5 DEF Steps
  <2>2. ASSUME NEW k \in 1..Len(q), h[k - 1] \in S PROVE FoldStep("CSE", h[k - 1], q[k]) \in S
    <3>1. IsAt(h[k - 1], n) /\ k \in 0..n
      BY <1>1, <2>2
    <3>2. h[k] = FoldStep("CSE", h[k - 1], q[k])
      BY <1>5 DEF Steps
    <3>3. IsAt(h[k], n)
      BY <1>3, <3>1, <3>2, FoldStepOf
    <3> QED BY <3>1, <3>2, <3>3
  <2>3. h[Len(q)] \in S
    <3> HIDE DEF S
    <3> QED BY <1>1, <1>5, <2>1, <2>2, StepsKeep
  <2> QED BY <1>1, <2>3
<1> QED BY <1>4, <1>5, <1>6, <1>7 DEF IsAt, n

LEMMA EscapeGraph ==
  ASSUME NEW g, IsGraph(g)
  PROVE  IsGraph(EscapeAnalysis(g)) /\ Len(EscapeAnalysis(g)) = Len(g)
<1> DEFINE n == Len(g)
           q == InOrder(OfKind(g, AllocationKinds), n)
           m == Len(q)
<1>1. n \in Nat
  BY GraphFacts
<1>2. m \in Nat /\ DOMAIN q = 1..m
  <2>1. q \in Seq(OfKind(g, AllocationKinds) \cap (1..n))
    BY <1>1, InOrderEnumerates DEF Enumerates
  <2> HIDE DEF q
  <2> QED BY <2>1
<1>3. PICK f : Steps(f, "EscapeAnalysis", g, q) /\ f[m] = EscapeAnalysis(g)
  BY <1>2, EscapeSteps
<1> DEFINE T == {f[k] : k \in {k \in 0..m : IsGraph(f[k]) /\ Len(f[k]) = n}}
<1> HIDE DEF q, n, m
<1>4. g \in T
  BY <1>2, <1>3 DEF Steps, n
<1>5. ASSUME NEW k \in 1..m, f[k - 1] \in T PROVE FoldStep("EscapeAnalysis", f[k - 1], q[k]) \in T
  <2>1. IsGraph(f[k - 1]) /\ Len(f[k - 1]) = n /\ k \in 0..m
    BY <1>2, <1>5
  <2>2. f[k] = EscapeStep(f[k - 1], q[k])
    BY <1>3, FoldStepOf DEF Steps, m
  <2>3. IsGraph(f[k]) /\ Len(f[k]) = n
    BY <2>1, <2>2, MarkDeadGraph DEF EscapeStep
  <2>4. f[k] = FoldStep("EscapeAnalysis", f[k - 1], q[k])
    BY <2>2, FoldStepOf
  <2> QED BY <2>1, <2>3, <2>4
<1>6. f[m] \in T
  <2> HIDE DEF T
  <2> QED BY <1>2, <1>3, <1>4, <1>5, StepsKeep DEF m
<1> QED BY <1>3, <1>6 DEF n

(* A guard that a stub puts in front of a call.                                 *)
LEMMA StubGraph ==
  ASSUME NEW h, IsGraph(h), NEW id \in 1..Len(h)
  PROVE  LET x == StubStep(h, id)
         IN  /\ IsGraph(x) /\ Len(x) = Len(h) + 1
             /\ x[Len(h) + 1] = NewNode("CheckClass", <<h[id].in[1]>>, h[id].ctrl, h[id].eff)
             /\ x[id] = [h[id] EXCEPT !.eff = Len(h) + 1]
             /\ \A k \in 1..Len(h) : k # id => x[k] = h[k]
<1> DEFINE n == Len(h)
           check == NewNode("CheckClass", <<h[id].in[1]>>, h[id].ctrl, h[id].eff)
           e == n + 1
           after == [h[id] EXCEPT !.eff = e]
           a == Append(h, check)
           x == [a EXCEPT ![id] = after]
<1>1. n \in Nat /\ h = [k \in 1..n |-> h[k]] /\ \A k \in 1..n : GraphNode(h[k])
  BY GraphFacts DEF IsGraph
<1>2. GraphNode(check)
  <2>1. "CheckClass" \in Kinds /\ KindFlags("CheckClass") \in SUBSET Flags
    BY DEF Kinds, ControlKinds, Checks, KindFlags, Flags
  <2> DEFINE in == <<h[id].in[1]>>
             ctrl == h[id].ctrl
             eff == h[id].eff
  <2> HIDE DEF in, ctrl, eff
  <2>2. GraphNode(NewNode("CheckClass", in, ctrl, eff))
    BY <2>1 DEF NewNode, GraphNode
  <2> QED BY <2>2 DEF in, ctrl, eff
<1>3. StubStep(h, id) = [a EXCEPT ![id].eff = e]
  BY DEF StubStep
<1> HIDE DEF check
<1>4. /\ IsStack(a) /\ Len(a) = e /\ a[e] = check /\ \A k \in 1..n : a[k] = h[k]
  BY PushStack DEF IsGraph
<1>5. a = [k \in 1..e |-> a[k]] /\ e \in Nat /\ id # e /\ id \in 1..e
  <2>1. e \in Nat /\ id # e /\ id \in 1..e
    BY <1>1
  <2>2. a = [k \in 1..Len(a) |-> a[k]]
    <3> HIDE DEF a
    <3> QED BY <1>4 DEF IsStack
  <2> QED BY <1>4, <2>1, <2>2
<1> HIDE DEF a
<1>6. a[id] = h[id] /\ StubStep(h, id) = [a EXCEPT ![id] = [a[id] EXCEPT !.eff = e]]
  BY <1>3, <1>4
<1>7. StubStep(h, id) = x
  BY <1>6
<1>8. GraphNode(after)
  BY <1>1 DEF GraphNode
<1> HIDE DEF after
<1>9. /\ x = [k \in 1..e |-> x[k]] /\ x[id] = after
      /\ \A k \in 1..e : k # id => x[k] = a[k]
  BY <1>5
<1> HIDE DEF x
<1>10. \A k \in 1..n : k \in 1..e
  BY <1>1
<1>11. \A k \in 1..e : k = e \/ k \in 1..n
  BY <1>1
<1> HIDE DEF e
<1>12. \A k \in 1..e : GraphNode(x[k])
  BY <1>1, <1>2, <1>4, <1>8, <1>9, <1>11
<1>13. IsGraph(x) /\ Len(x) = e
  BY <1>5, <1>9, <1>12, GraphOfNodes
<1>14. x[e] = check /\ \A k \in 1..n : k # id => x[k] = h[k]
  <2>1. e \in 1..e
    BY <1>1 DEF e
  <2> QED BY <1>4, <1>5, <1>9, <1>10, <2>1
<1> QED BY <1>7, <1>9, <1>13, <1>14 DEF e, n, after, check

LEMMA StubsGraph ==
  ASSUME NEW g, IsGraph(g)
  PROVE  IsGraph(ICStubEmission(g)) /\ Len(ICStubEmission(g)) >= Len(g)
<1> DEFINE n == Len(g)
           q == InOrder(Checked(g), n)
           m == Len(q)
<1>1. n \in Nat
  BY GraphFacts
<1>2. m \in Nat /\ DOMAIN q = 1..m /\ \A k \in 1..m : q[k] \in 1..n
  <2>1. q \in Seq(Checked(g) \cap (1..n))
    BY <1>1, InOrderEnumerates DEF Enumerates
  <2> HIDE DEF q
  <2> QED BY <2>1
<1>3. PICK f : Steps(f, "ICStubEmission", g, q) /\ f[m] = ICStubEmission(g)
  BY <1>2, StubSteps
<1> DEFINE T == {f[k] : k \in {k \in 0..m : IsGraph(f[k]) /\ Len(f[k]) >= n}}
<1> HIDE DEF q, n, m
<1>4. g \in T
  BY <1>1, <1>2, <1>3 DEF Steps, n
<1>5. ASSUME NEW k \in 1..m, f[k - 1] \in T PROVE FoldStep("ICStubEmission", f[k - 1], q[k]) \in T
  <2> DEFINE b == f[k - 1]
             l == Len(b)
  <2>1. IsGraph(b) /\ l >= n /\ k \in 0..m /\ l \in Nat
    BY <1>2, <1>5, GraphFacts
  <2>2. f[k] = StubStep(b, q[k])
    BY <1>3, FoldStepOf DEF Steps, m
  <2> HIDE DEF b
  <2>3. q[k] \in 1..Len(b)
    BY <1>1, <1>2, <2>1
  <2> DEFINE x == StubStep(b, q[k])
  <2>4. IsGraph(f[k]) /\ Len(f[k]) = l + 1
    <3>1. IsGraph(x) /\ Len(x) = Len(b) + 1
      BY <2>1, <2>3, StubGraph
    <3> HIDE DEF x
    <3> QED BY <2>2, <3>1 DEF x
  <2>5. Len(f[k]) >= n
    BY <1>1, <2>1, <2>4
  <2>6. f[k] = FoldStep("ICStubEmission", f[k - 1], q[k])
    BY <2>2, FoldStepOf DEF b
  <2> QED BY <2>1, <2>4, <2>5, <2>6
<1>6. f[m] \in T
  <2> HIDE DEF T
  <2> QED BY <1>2, <1>3, <1>4, <1>5, StepsKeep DEF m
<1> QED BY <1>3, <1>6 DEF n

(* Nothing that lives refers to what is swept.                                  *)
LEMMA SweepVerified ==
  ASSUME NEW g, IsGraph(g), Verified(g)
  PROVE  Verified(SetFlag(g, Removable(g), "IsDead"))
<1> DEFINE gone == Removable(g)
           h == SetFlag(g, gone, "IsDead")
<1>1. "IsDead" \in Flags
  BY DEF Flags
<1>2. /\ Ids(h) = Ids(g) /\ Len(h) = Len(g)
      /\ \A id \in Ids(g) :
           /\ h[id].flags = IF id \in gone THEN g[id].flags \cup {"IsDead"} ELSE g[id].flags
           /\ h[id].kind = g[id].kind /\ h[id].in = g[id].in /\ h[id].ctrl = g[id].ctrl
           /\ h[id].eff = g[id].eff /\ h[id].state = g[id].state
  <2> HIDE DEF gone
  <2>1. /\ Len(h) = Len(g)
        /\ \A id \in 1..Len(g) :
             /\ h[id].flags = IF id \in gone THEN g[id].flags \cup {"IsDead"} ELSE g[id].flags
             /\ h[id].kind = g[id].kind /\ h[id].in = g[id].in /\ h[id].ctrl = g[id].ctrl
             /\ h[id].eff = g[id].eff /\ h[id].state = g[id].state
    <3>1. Flagged(g, h, gone, "IsDead")
      BY <1>1, SetFlagMarks
    <3> HIDE DEF h
    <3> QED BY <3>1 DEF Flagged
  <2> HIDE DEF h
  <2> QED BY <2>1 DEF Ids
<1> HIDE DEF h, gone
<1>3. ASSUME NEW id \in Ids(g)
      PROVE  DataInputs(h, id) = DataInputs(g, id) /\ References(h, id) = References(g, id)
  <2>1. DataInputs(h, id) = DataInputs(g, id)
    BY <1>2 DEF DataInputs
  <2> QED BY <1>2, <2>1 DEF References
<1>4. \A id \in Ids(g) : /\ Has(h, id, "Effect") <=> Has(g, id, "Effect")
                         /\ Has(h, id, "Pure") <=> Has(g, id, "Pure")
                         /\ Has(h, id, "IsGuard") <=> Has(g, id, "IsGuard")
                         /\ Dead(h, id) <=> Dead(g, id) \/ id \in gone
  <2> SUFFICES ASSUME NEW id \in Ids(g)
               PROVE  /\ Has(h, id, "Effect") <=> Has(g, id, "Effect")
                      /\ Has(h, id, "Pure") <=> Has(g, id, "Pure")
                      /\ Has(h, id, "IsGuard") <=> Has(g, id, "IsGuard")
                      /\ Dead(h, id) <=> Dead(g, id) \/ id \in gone
    OBVIOUS
  <2> DEFINE old == g[id].flags
             new == h[id].flags
  <2>1. new = IF id \in gone THEN old \cup {"IsDead"} ELSE old
    BY <1>2
  <2> HIDE DEF old, new
  <2>2. /\ "Effect" \in new <=> "Effect" \in old
        /\ "Pure" \in new <=> "Pure" \in old
        /\ "IsGuard" \in new <=> "IsGuard" \in old
        /\ "IsDead" \in new <=> "IsDead" \in old \/ id \in gone
    BY <2>1
  <2> QED BY <2>2 DEF Has, Dead, old, new
<1>5. Dangling(h) = {}
  BY <1>2, <1>3 DEF Verified, Dangling
<1>6. BrokenEffectChain(h) = {}
  BY <1>2, <1>4 DEF Verified, BrokenEffectChain
<1>7. GuardsWithoutState(h) = {}
  BY <1>2, <1>4 DEF Verified, GuardsWithoutState
<1>8. DeadButReferenced(h) = {}
  <2> SUFFICES ASSUME NEW id \in Ids(h) \ Live(h), NEW other \in Live(h) \ {id},
                      id \in References(h, other)
               PROVE  FALSE
    BY DEF DeadButReferenced
  <2>1. other \in Ids(g) /\ id \in Ids(g) /\ ~Dead(h, other) /\ Dead(h, id)
    BY <1>2 DEF Live
  <2>2. other \in Live(g) \ {id} /\ id \in References(g, other)
    BY <1>3, <1>4, <2>1 DEF Live
  <2>3. CASE Dead(g, id)
    <3>1. id \in Ids(g) \ Live(g)
      BY <2>1, <2>3 DEF Live
    <3> QED BY <2>2, <3>1 DEF Verified, DeadButReferenced
  <2>4. CASE id \in gone
    BY <2>2, <2>4 DEF Removable, Unused, gone
  <2> QED BY <1>4, <2>1, <2>3, <2>4
<1> QED BY <1>5, <1>6, <1>7, <1>8 DEF Verified, h, gone

LEMMA SweepsGraph ==
  ASSUME NEW g, IsGraph(g)
  PROVE  /\ IsGraph(DeadCodeElimination(g)) /\ Len(DeadCodeElimination(g)) = Len(g)
         /\ Verified(g) => Verified(DeadCodeElimination(g))
<1> DEFINE n == Len(g)
           q == Ascending(g)
           Kept(h) == IsGraph(h) /\ Len(h) = n /\ (Verified(g) => Verified(h))
<1>1. n \in Nat /\ Len(q) = n
  BY GraphFacts, AscendingFacts
<1>2. PICK f : Steps(f, "DeadCodeElimination", g, q) /\ f[n] = DeadCodeElimination(g)
  BY <1>1, SweepSteps
<1> HIDE DEF q, n
<1>3. ASSUME NEW h, IsGraph(h), Len(h) = n, Verified(g) => Verified(h)
      PROVE  Kept(SweepStep(h))
  <2>1. "IsDead" \in Flags
    BY DEF Flags
  <2>2. Kept(SetFlag(h, Removable(h), "IsDead"))
    BY <1>3, <2>1, SetFlagMarks, SweepVerified DEF Flagged
  <2> QED BY <1>3, <2>2 DEF SweepStep
<1> DEFINE T == {f[k] : k \in {k \in 0..n : Kept(f[k])}}
<1>4. g \in T
  BY <1>1, <1>2 DEF Steps, n
<1>5. ASSUME NEW k \in 1..Len(q), f[k - 1] \in T
      PROVE  FoldStep("DeadCodeElimination", f[k - 1], q[k]) \in T
  <2>1. Kept(f[k - 1]) /\ k \in 0..n
    BY <1>1, <1>5
  <2>2. f[k] = SweepStep(f[k - 1]) /\ f[k] = FoldStep("DeadCodeElimination", f[k - 1], q[k])
    BY <1>2, FoldStepOf DEF Steps
  <2>3. Kept(f[k])
    <3> DEFINE b == f[k - 1]
    <3>1. Kept(b) /\ f[k] = SweepStep(b)
      BY <2>1, <2>2
    <3> HIDE DEF b
    <3>2. Kept(SweepStep(b))
      BY <1>3, <3>1
    <3> QED BY <3>1, <3>2
  <2> QED BY <2>1, <2>2, <2>3
<1>6. f[n] \in T
  <2> HIDE DEF T
  <2> QED BY <1>1, <1>2, <1>4, <1>5, StepsKeep
<1> QED BY <1>2, <1>6 DEF n

(* All nineteen.                                                                *)
LEMMA RubyKeepsGraphs ==
  ASSUME NEW g, IsGraph(g), NEW pass \in {RubyPipeline[k] : k \in 1..Len(RubyPipeline)}
  PROVE  IsGraph(Run(pass, g)) /\ Len(Run(pass, g)) >= Len(g)
<1>1. Len(g) \in Nat
  BY GraphFacts
<1> DEFINE Flagging == {"ControlFlowSimplification", "TypeNarrowing", "LICM", "LoopPeeling", "BCE",
                        "NCE", "GCM", "ProfileGuidedBlockReorder"}
           Marking == {"AlgebraicSimplification", "SCCP", "ConstantFolding", "Peephole"}
           Others == {"CSE", "GVN", "EscapeAnalysis", "Inlining", "TailCallElimination",
                      "ICStubEmission", "DeadCodeElimination"}
<1>2. pass \in Flagging \cup Marking \cup Others
  BY DEF RubyPipeline
<1>3. CASE pass \in Flagging
  <2>1. \E flag \in Flags : \E ids : Run(pass, g) = SetFlag(g, ids, flag)
    <3>1. "IsDead" \in Flags /\ "HasTypeNarrowing" \in Flags /\ "IsScheduled" \in Flags
          /\ "IsCold" \in Flags
      BY DEF Flags
    <3>2. /\ pass = "ControlFlowSimplification" => Run(pass, g) = ControlFlowSimplification(g)
          /\ pass = "TypeNarrowing" => Run(pass, g) = TypeNarrowing(g)
          /\ pass = "LICM" => Run(pass, g) = LICM(g)
          /\ pass = "LoopPeeling" => Run(pass, g) = LoopPeeling(g)
          /\ pass = "BCE" => Run(pass, g) = BCE(g)
          /\ pass = "NCE" => Run(pass, g) = NCE(g)
          /\ pass = "GCM" => Run(pass, g) = GCM(g)
          /\ pass = "ProfileGuidedBlockReorder" => Run(pass, g) = ProfileGuidedBlockReorder(g)
      BY DEF Run
    <3>3. \E ids : ControlFlowSimplification(g) = SetFlag(g, ids, "IsDead")
      BY DEF ControlFlowSimplification
    <3>4. \E ids : TypeNarrowing(g) = SetFlag(g, ids, "HasTypeNarrowing")
      BY DEF TypeNarrowing
    <3>5. \E ids : LICM(g) = SetFlag(g, ids, "IsScheduled")
      BY DEF LICM
    <3>6. \E ids : LoopPeeling(g) = SetFlag(g, ids, "IsScheduled")
      BY DEF LoopPeeling
    <3>7. \E ids : BCE(g) = SetFlag(g, ids, "IsDead")
      BY DEF BCE
    <3>8. \E ids : NCE(g) = SetFlag(g, ids, "IsDead")
      BY DEF NCE
    <3>9. \E ids : GCM(g) = SetFlag(g, ids, "IsCold")
      BY DEF GCM
    <3>10. \E ids : ProfileGuidedBlockReorder(g) = SetFlag(g, ids, "IsCold")
      BY DEF ProfileGuidedBlockReorder
    <3> QED BY <1>3, <3>1, <3>2, <3>3, <3>4, <3>5, <3>6, <3>7, <3>8, <3>9, <3>10
  <2>2. PICK flag \in Flags : \E ids : Run(pass, g) = SetFlag(g, ids, flag)
    BY <2>1
  <2>3. PICK ids : Run(pass, g) = SetFlag(g, ids, flag)
    BY <2>2
  <2>4. IsGraph(SetFlag(g, ids, flag)) /\ Len(SetFlag(g, ids, flag)) = Len(g)
    BY <2>2, SetFlagMarks DEF Flagged
  <2> QED BY <1>1, <2>3, <2>4
<1>4. CASE pass \in Marking
  <2> DEFINE h == Run(pass, g)
             Marks(x) == /\ x = [id \in Ids(g) |-> x[id]]
                         /\ \A id \in Ids(g) : x[id] = g[id] \/ \E v : x[id] \in {Mark(g[id], v), MarkInt(g[id], v)}
  <2>1. /\ pass = "AlgebraicSimplification" => h = AlgebraicSimplification(g)
        /\ pass = "SCCP" => h = SCCP(g)
        /\ pass = "ConstantFolding" => h = ConstantFolding(g)
        /\ pass = "Peephole" => h = Peephole(g)
    BY DEF Run
  <2>2. /\ Marks(AlgebraicSimplification(g)) /\ Marks(SCCP(g)) /\ Marks(ConstantFolding(g))
        /\ Marks(Peephole(g))
    <3>1. Marks(AlgebraicSimplification(g))
      BY SimplificationMarks
    <3>2. Marks(SCCP(g))
      BY SCCPMarks
    <3>3. Marks(ConstantFolding(g))
      BY FoldingMarks
    <3>4. Marks(Peephole(g))
      BY PeepholeMarks
    <3> QED BY <3>1, <3>2, <3>3, <3>4
  <2>3. Marks(h)
    <3> HIDE DEF h, Marks
    <3> QED BY <1>4, <2>1, <2>2
  <2> HIDE DEF h
  <2>4. IsGraph(h) /\ Len(h) = Len(g)
    BY <2>3, MarksAGraph
  <2> QED BY <1>1, <2>4 DEF h
<1>5. CASE pass \in Others
  <2> DEFINE h == Run(pass, g)
  <2>1. /\ pass = "CSE" => h = CSE(g)
        /\ pass = "GVN" => h = GVN(g)
        /\ pass = "EscapeAnalysis" => h = EscapeAnalysis(g)
        /\ pass = "Inlining" => h = g
        /\ pass = "TailCallElimination" => h = TailCallElimination(g)
        /\ pass = "ICStubEmission" => h = ICStubEmission(g)
        /\ pass = "DeadCodeElimination" => h = DeadCodeElimination(g)
    BY DEF Run, Inlining
  <2> DEFINE Keeps(x) == IsGraph(x) /\ Len(x) >= Len(g)
  <2>2. /\ Keeps(CSE(g)) /\ Keeps(GVN(g)) /\ Keeps(EscapeAnalysis(g)) /\ Keeps(g)
        /\ Keeps(TailCallElimination(g)) /\ Keeps(ICStubEmission(g)) /\ Keeps(DeadCodeElimination(g))
    BY <1>1, NumberingGraph, EscapeGraph, TailCallsGraph, StubsGraph, SweepsGraph
  <2> HIDE DEF h
  <2>3. Keeps(h)
    <3> HIDE DEF Keeps
    <3> QED BY <1>5, <2>1, <2>2
  <2> QED BY <2>3 DEF h
<1> QED BY <1>2, <1>3, <1>4, <1>5

-----------------------------------------------------------------------------
(* The verifier takes what a debug build hands on.  A pass other than           *)
(* DeadCodeElimination leaves the graph alone, or has it verified, or fails;    *)
(* ConstantFolding, the third, verifies it in any case; and DeadCodeElimination *)
(* keeps what the verifier looks at.                                            *)

LEMMA PipelineLengths ==
  /\ Len(RubyPipeline) = 19 /\ Len(DiamondPipeline) = 33
  /\ RubyPipeline[3] = "ConstantFolding"
<1> DEFINE r == RubyPipeline
           d == DiamondOnly
           S == {"AlgebraicSimplification", "SCCP", "ConstantFolding", "CSE", "GVN",
                 "ControlFlowSimplification", "TypeNarrowing", "LICM", "LoopPeeling", "BCE", "NCE",
                 "EscapeAnalysis", "Inlining", "TailCallElimination", "ICStubEmission",
                 "DeadCodeElimination", "Peephole", "GCM", "ProfileGuidedBlockReorder",
                 "PEA", "SRA", "LoopUnrolling", "LoopUnswitching", "Devirtualization", "SLP"}
<1>1. Len(r) = 19 /\ r[3] = "ConstantFolding" /\ r \in Seq(S)
  BY DEF RubyPipeline
<1>2. Len(d) = 14 /\ d \in Seq(S)
  BY DEF DiamondOnly
<1>3. DiamondPipeline = r \o d
  BY DEF DiamondPipeline
<1> HIDE DEF r, d, S
<1>4. Len(r \o d) = Len(r) + Len(d)
  BY <1>1, <1>2, ConcatProperties
<1> QED BY <1>1, <1>2, <1>3, <1>4 DEF r

LEMMA LoweredIsGraph ==
  ASSUME NEW g, LoweredGraph(g)
  PROVE  IsGraph(g)
<1>1. g \in Seq(Nodes) /\ \A id \in 1..Len(g) : g[id] \in Nodes
  BY DEF LoweredGraph
<1>2. ASSUME NEW n \in Nodes PROVE GraphNode(n)
  <2>1. LoweredKinds \subseteq Kinds
    BY DEF LoweredKinds, PureLowered, EffectLowered, BranchLowered, IntKinds, BitKinds, EffectOps, ObjectKinds,
       Kinds, PureKinds, CommutativeKinds, Conversions, EffectKinds, LeavingKinds,
       ControlKinds, Checks
  <2> QED BY <2>1 DEF Nodes, GraphNode
<1> QED BY <1>1, <1>2 DEF IsGraph, IsStack

LEMMA GivenIsGraph ==
  ASSUME NEW g \in Graphs
  PROVE  IsGraph(g)
<1>1. g \in Seq(Node) /\ \A id \in 1..Len(g) : g[id] \in Node
  BY GraphsAssumption
<1>2. ASSUME NEW n \in Node PROVE GraphNode(n)
  BY DEF Node, GraphNode
<1> QED BY <1>1, <1>2 DEF IsGraph, IsStack

OptimizerOK ==
  /\ lower.status = "lowered" /\ done <= Len(RubyPipeline) => IsGraph(graph)
  /\ done \in 0..Len(RubyPipeline) \cup {Len(DiamondPipeline)}
  /\ done <= Len(RubyPipeline) => debug = DebugBuild
  /\ debug /\ lower.status = "lowered" /\ done \in 3..Len(RubyPipeline) /\ ~rejected
     => Verified(graph)

LEMMA OptimizerInit ==
  ASSUME Init
  PROVE  OptimizerOK
<1>1. done = 0 /\ debug = DebugBuild
  BY DEF Init
<1>2. lower.status = "lowered" => IsGraph(graph)
  <2>1. CASE \E m \in Methods : LowerInit(m.locals, m.args)
    BY <2>1 DEF LowerInit
  <2>2. CASE graph \in Graphs
    BY <2>2, GivenIsGraph
  <2> QED BY <2>1, <2>2 DEF Init
<1> QED BY <1>1, <1>2, PipelineLengths DEF OptimizerOK

LEMMA OptimizePass ==
  ASSUME OptimizerOK, Optimize
  PROVE  OptimizerOK'
<1> DEFINE pass == RubyPipeline[done + 1]
<1>1. /\ lower.status = "lowered" /\ done < Len(RubyPipeline) /\ ~rejected
      /\ graph' = Run(pass, graph)
      /\ rejected' = (debug /\ Verifies(pass, graph, graph') /\ ~Verified(graph'))
      /\ done' = done + 1 /\ lower' = lower /\ debug' = debug
  BY DEF Optimize
<1>2. done \in 0..18 /\ done' \in 1..19 /\ IsGraph(graph) /\ debug = DebugBuild
      /\ pass \in {RubyPipeline[k] : k \in 1..Len(RubyPipeline)}
  BY <1>1, PipelineLengths DEF OptimizerOK
<1>3. IsGraph(graph')
  BY <1>1, <1>2, RubyKeepsGraphs
<1>4. ASSUME debug, done' \in 3..19, ~rejected' PROVE Verified(graph')
  <2>1. CASE done' = 3
    <3>1. pass = "ConstantFolding"
      BY <1>2, <2>1, <1>1, PipelineLengths
    <3> QED BY <1>1, <1>4, <3>1 DEF Verifies
  <2>2. CASE done' # 3
    <3>1. Verified(graph)
      <4>1. done \in 3..19
        BY <1>1, <1>2, <1>4, <2>2
      <4> QED BY <1>1, <1>4, <4>1, PipelineLengths DEF OptimizerOK
    <3>2. CASE pass = "DeadCodeElimination"
      <4>1. graph' = DeadCodeElimination(graph)
        BY <1>1, <3>2 DEF Run
      <4> QED BY <1>2, <3>1, <4>1, SweepsGraph
    <3>3. CASE pass # "DeadCodeElimination" /\ graph' # graph
      <4>1. Verifies(pass, graph, graph')
        BY <3>3 DEF Verifies
      <4> QED BY <1>1, <1>4, <4>1
    <3> QED BY <3>1, <3>2, <3>3
  <2> QED BY <2>1, <2>2
<1> HIDE DEF pass
<1> QED BY <1>1, <1>2, <1>3, <1>4, PipelineLengths DEF OptimizerOK

LEMMA OptimizerStep ==
  ASSUME LoweringOK, OptimizerOK, [Next]_vars
  PROVE  OptimizerOK'
<1>1. CASE Lower
  <2>1. method \in Seq(Instructions) /\ method' = method /\ done' = done /\ debug' = debug
        /\ (LowerNext \/ CilLowerNext)
    BY <1>1 DEF LoweringOK, Lower
  <2>2. lower.status = "lowering"
    BY <2>1 DEF LowerNext, CilLowerNext, Lowering, LowerConst, LowerLoad, LowerStore, LowerIinc,
       LowerStackOp, LowerPure, LowerEffect, LowerIf, LowerGoto, LowerReturn, LowerSwitch, LowerEnd,
       LowerLdC, LowerLdLoc, LowerStLoc, LowerCilStack, LowerCilPure, LowerObject, LowerBr,
       LowerBrIf, LowerBrCmp, LowerRet, LowerUnsupported
  <2>3. LowererOK(method, graph, lower) /\ done = 0
    BY <2>2 DEF LoweringOK
  <2>4. lower'.status = "lowered" => IsGraph(graph')
    <3>1. CASE Advanced
      BY <3>1 DEF Advanced
    <3>2. CASE Failed
      BY <2>3, <3>2 DEF Failed, LowererOK
    <3>3. CASE LowerEnd
      BY <2>3, <3>3, EndStep, LoweredIsGraph DEF LowererOK
    <3> QED BY <2>1, <2>3, <3>1, <3>2, <3>3, LowerStep
  <2> QED BY <2>1, <2>3, <2>4, PipelineLengths DEF OptimizerOK
<1>2. CASE Optimize
  BY <1>2, OptimizePass
<1>3. CASE CompilePeak
  <2>1. done' = Len(DiamondPipeline)
    BY <1>3 DEF CompilePeak
  <2> QED BY <2>1, PipelineLengths DEF OptimizerOK
<1>4. CASE Call \/ Interpret \/ PassTraps
  <2>1. /\ lower' = lower /\ graph' = graph /\ done' = done /\ debug' = debug
        /\ rejected' = rejected
    BY <1>4 DEF Call, Interpret, PassTraps, lowerVars, pipeVars
  <2> QED BY <2>1 DEF OptimizerOK
<1>5. CASE UNCHANGED vars
  <2>1. /\ lower' = lower /\ graph' = graph /\ done' = done /\ debug' = debug
        /\ rejected' = rejected
    BY <1>5 DEF vars, lowerVars, pipeVars
  <2> QED BY <2>1 DEF OptimizerOK
<1> QED BY <1>1, <1>2, <1>3, <1>4, <1>5 DEF Next

LEMMA OptimizerAlwaysOK == Spec => []OptimizerOK
<1>1. Init => OptimizerOK
  BY OptimizerInit
<1>2. LoweringOK /\ OptimizerOK /\ [Next]_vars => OptimizerOK'
  BY OptimizerStep
<1> QED BY <1>1, <1>2, LoweringAlwaysOK, PTL DEF Spec

(* In a debug build every graph that comes out of the pipeline, of whatever     *)
(* method or built by hand, passes the verifier, although DeadCodeElimination,  *)
(* the last pass that removes nodes, never asks it.                             *)
THEOREM AcceptedGraphsAlwaysVerify ==
  ASSUME DebugBuild = TRUE
  PROVE  Spec => []AcceptedGraphsVerify
<1>1. OptimizerOK => AcceptedGraphsVerify
  BY PipelineLengths DEF OptimizerOK, AcceptedGraphsVerify, Compiled
<1> QED BY <1>1, OptimizerAlwaysOK, PTL

-----------------------------------------------------------------------------
(* What a pass may do to a graph without ways back.                             *)

Special == {"Loop", "Jump", "If", "IfTrue", "IfFalse", "CheckBounds", "CheckNotNull"}
SameRole(a, b) == a = b \/ (a \notin Special /\ b \notin Special)

Tracks(g, h, id) ==
  /\ SameRole(g[id].kind, h[id].kind) /\ h[id].ctrl = g[id].ctrl
  /\ Has(h, id, "Pure") <=> Has(g, id, "Pure")
  /\ Has(h, id, "Control") <=> Has(g, id, "Control")
  /\ Dead(g, id) => Dead(h, id)

LEMMA KeptForward ==
  ASSUME NEW g, Forward(g), NEW h, IsGraph(h), Len(h) = Len(g),
         \A id \in 1..Len(g) : /\ Tracks(g, h, id) /\ h[id].in \in Seq(Nat)
                               /\ g[id].kind \in {"IfTrue", "IfFalse"} => ~Dead(h, id)
                               /\ ~Dead(h, id) => \A k \in 1..Len(h[id].in) : Usable(h, h[id].in[k], id)
  PROVE  Forward(h)
<1>1. Len(g) \in Nat
  BY GraphFacts DEF Forward
<1>2. ASSUME NEW id \in 1..Len(g) PROVE ForwardNode(h, id)
  <2>1. ForwardNode(g, id) /\ Tracks(g, h, id)
    BY DEF Forward
  <2>2. \A kind \in Special : g[id].kind = kind <=> h[id].kind = kind
    BY <2>1 DEF Tracks, SameRole
  <2>3. \A kind \in {"Loop", "Jump", "If", "IfTrue", "IfFalse"} : g[id].kind = kind <=> h[id].kind = kind
    BY <2>2 DEF Special
  <2>4. CASE g[id].kind = "If"
    <3> DEFINE y == id + 1
               z == id + 2
    <3>1. y \in 1..Len(g) /\ z \in 1..Len(g) /\ z <= Len(h) /\ g[y].kind = "IfTrue" /\ g[z].kind = "IfFalse"
      BY <1>1, <2>1, <2>4 DEF ForwardNode
    <3> HIDE DEF y, z
    <3>2. h[y].kind = "IfTrue" /\ h[z].kind = "IfFalse"
      BY <3>1 DEF Tracks, SameRole, Special
    <3>3. h[id].kind = "If"
      BY <2>3, <2>4
    <3> QED BY <3>1, <3>2, <3>3 DEF ForwardNode, y, z
  <2>5. CASE g[id].kind # "If"
    <3>1. h[id].kind # "If"
      BY <2>3, <2>5
    <3>2. h[id].kind = "IfTrue" => g[id].kind = "IfTrue" /\ h[id].ctrl = id - 1
      BY <2>1, <2>3 DEF ForwardNode, Tracks
    <3>3. h[id].kind = "IfFalse" => g[id].kind = "IfFalse" /\ h[id].ctrl = id - 2
      BY <2>1, <2>3 DEF ForwardNode, Tracks
    <3>4. g[id].kind \in {"IfTrue", "IfFalse"} => ~Dead(h, id) /\ Has(h, id, "Control") /\ ~Has(h, id, "Pure")
      BY <2>1 DEF ForwardNode, Tracks
    <3>5. h[id].kind \notin {"Loop", "Jump"}
      BY <2>1, <2>3 DEF ForwardNode
    <3>6. h[id].kind \in {"IfTrue", "IfFalse"} => g[id].kind \in {"IfTrue", "IfFalse"}
      BY <3>2, <3>3
    <3>7. h[id].in \in Seq(Nat) /\ ~Dead(h, id) => \A k \in 1..Len(h[id].in) : Usable(h, h[id].in[k], id)
      OBVIOUS
    <3> QED BY <3>1, <3>2, <3>3, <3>4, <3>5, <3>6 DEF ForwardNode
  <2> QED BY <2>4, <2>5
<1> QED BY <1>2 DEF Forward

(* Nodes die that nothing uses that stays.                                      *)
LEMMA KilledForward ==
  ASSUME NEW g, Forward(g), NEW h, IsGraph(h), Len(h) = Len(g),
         \A id \in 1..Len(g) : Tracks(g, h, id) /\ h[id].in = g[id].in,
         \A id \in 1..Len(g) : Dead(h, id) /\ ~Dead(g, id) =>
            /\ g[id].kind \notin {"IfTrue", "IfFalse"}
            /\ \A y \in 1..Len(g) : ~Dead(h, y) => id \notin DataInputs(g, y)
  PROVE  Forward(h)
<1>1. ASSUME NEW id \in 1..Len(g)
      PROVE  /\ h[id].in \in Seq(Nat)
             /\ g[id].kind \in {"IfTrue", "IfFalse"} => ~Dead(h, id)
             /\ ~Dead(h, id) => \A k \in 1..Len(h[id].in) : Usable(h, h[id].in[k], id)
  <2>1. ForwardNode(g, id) /\ h[id].in = g[id].in /\ (Dead(g, id) => Dead(h, id))
    BY DEF Forward, Tracks
  <2>2. ASSUME ~Dead(h, id), NEW k \in 1..Len(h[id].in) PROVE Usable(h, h[id].in[k], id)
    <3> DEFINE in == g[id].in
               x == in[k]
    <3>1. in \in Seq(Nat) /\ k \in 1..Len(in) /\ h[id].in = in
      BY <2>1 DEF ForwardNode
    <3>2. Usable(g, x, id)
      BY <2>1, <2>2, <3>1 DEF ForwardNode
    <3>3. x \in DataInputs(g, id)
      <4>1. k \in DOMAIN in
        <5> HIDE DEF in
        <5> QED BY <3>1
      <4> QED BY <4>1 DEF DataInputs
    <3> HIDE DEF x, in
    <3>4. x \in 1..Len(g) /\ ~Dead(g, x)
      <4>1. Len(g) \in Nat
        BY GraphFacts DEF Forward
      <4> QED BY <3>2, <4>1 DEF Usable
    <3>5. ~Dead(h, x)
      BY <2>2, <3>3, <3>4
    <3>6. h[x].kind \notin {"If", "CheckBounds", "CheckNotNull"}
      BY <3>2, <3>4 DEF Usable, Tracks, SameRole, Special
    <3> QED BY <3>1, <3>2, <3>5, <3>6 DEF Usable, x
  <2>3. g[id].kind \in {"IfTrue", "IfFalse"} => ~Dead(h, id)
    BY <2>1 DEF ForwardNode
  <2>4. h[id].in \in Seq(Nat)
    BY <2>1 DEF ForwardNode
  <2> QED BY <2>2, <2>3, <2>4
<1> QED BY <1>1, KeptForward

LEMMA MarksForward ==
  ASSUME NEW g, Forward(g), NEW h, h = [id \in Ids(g) |-> h[id]],
         \A id \in Ids(g) : h[id] = g[id] \/ \E v : h[id] \in {Mark(g[id], v), MarkInt(g[id], v)}
  PROVE  Forward(h)
<1>1. IsGraph(h) /\ Len(h) = Len(g)
  BY MarksAGraph DEF Forward
<1>2. Ids(g) = 1..Len(g) /\ \A id \in 1..Len(g) : GraphNode(g[id])
  BY GraphFacts DEF Forward, IsGraph
<1>3. ASSUME NEW id \in 1..Len(g)
      PROVE  Tracks(g, h, id) /\ h[id].in = g[id].in /\ (Dead(h, id) => Dead(g, id))
  <2> DEFINE m == g[id]
             x == h[id]
  <2>1. GraphNode(m) /\ (x = m \/ \E v : x \in {Mark(m, v), MarkInt(m, v)})
    BY <1>2
  <2>2. CASE x = m
    BY <2>2 DEF Tracks, SameRole, Has, Dead
  <2>3. ASSUME NEW v, x \in {Mark(m, v), MarkInt(m, v)}
        PROVE  x.flags = m.flags \cup {"IsConst"} /\ x.kind = m.kind /\ x.in = m.in /\ x.ctrl = m.ctrl
    <3> HIDE DEF x, m
    <3> QED BY <2>1, <2>3, MarkedNode
  <2>4. CASE x.flags = m.flags \cup {"IsConst"} /\ x.kind = m.kind /\ x.in = m.in /\ x.ctrl = m.ctrl
    BY <2>4 DEF Tracks, SameRole, Has, Dead
  <2>5. ASSUME x # m
        PROVE  x.flags = m.flags \cup {"IsConst"} /\ x.kind = m.kind /\ x.in = m.in /\ x.ctrl = m.ctrl
    <3>1. PICK v : x \in {Mark(m, v), MarkInt(m, v)}
      BY <2>1, <2>5
    <3> HIDE DEF x, m
    <3> QED BY <2>3, <3>1
  <2> QED BY <2>2, <2>4, <2>5
<1> QED BY <1>1, <1>3, KilledForward

LEMMA FlagForward ==
  ASSUME NEW g, Forward(g), NEW ids, NEW flag \in {"IsScheduled", "IsCold", "HasTypeNarrowing"}
  PROVE  Forward(SetFlag(g, ids, flag))
<1> DEFINE h == SetFlag(g, ids, flag)
<1>1. Flagged(g, h, ids, flag)
  <2>1. flag \in Flags
    BY DEF Flags
  <2> QED BY <2>1, SetFlagMarks DEF Forward
<1> HIDE DEF h
<1>2. ASSUME NEW id \in 1..Len(g)
      PROVE  Tracks(g, h, id) /\ h[id].in = g[id].in /\ (Dead(h, id) => Dead(g, id))
  <2>1. /\ h[id].flags = g[id].flags \/ h[id].flags = g[id].flags \cup {flag}
        /\ h[id].kind = g[id].kind /\ h[id].in = g[id].in /\ h[id].ctrl = g[id].ctrl
    BY <1>1 DEF Flagged
  <2> QED BY <2>1 DEF Tracks, SameRole, Has, Dead
<1>3. IsGraph(h) /\ Len(h) = Len(g)
  BY <1>1 DEF Flagged
<1> QED BY <1>2, <1>3, KilledForward DEF h

(* Nodes marked dead.                                                           *)
LEMMA DeadForward ==
  ASSUME NEW g, Forward(g), NEW ids,
         \A id \in 1..Len(g) : id \in ids =>
            /\ g[id].kind \notin {"IfTrue", "IfFalse"}
            /\ \A y \in 1..Len(g) : ~Dead(g, y) /\ y \notin ids => id \notin DataInputs(g, y)
  PROVE  /\ Forward(SetFlag(g, ids, "IsDead"))
         /\ Flagged(g, SetFlag(g, ids, "IsDead"), ids, "IsDead")
<1> DEFINE h == SetFlag(g, ids, "IsDead")
<1>1. Flagged(g, h, ids, "IsDead")
  <2>1. "IsDead" \in Flags
    BY DEF Flags
  <2> QED BY <2>1, SetFlagMarks DEF Forward
<1> HIDE DEF h
<1>2. ASSUME NEW id \in 1..Len(g)
      PROVE  /\ Tracks(g, h, id) /\ h[id].in = g[id].in
             /\ Dead(h, id) <=> Dead(g, id) \/ id \in ids
  <2>1. /\ h[id].flags = IF id \in ids THEN g[id].flags \cup {"IsDead"} ELSE g[id].flags
        /\ h[id].kind = g[id].kind /\ h[id].in = g[id].in /\ h[id].ctrl = g[id].ctrl
    BY <1>1 DEF Flagged
  <2> QED BY <2>1 DEF Tracks, SameRole, Has, Dead
<1>3. IsGraph(h) /\ Len(h) = Len(g)
  BY <1>1 DEF Flagged
<1>4. \A id \in 1..Len(g) : Dead(h, id) /\ ~Dead(g, id) =>
            /\ g[id].kind \notin {"IfTrue", "IfFalse"}
            /\ \A y \in 1..Len(g) : ~Dead(h, y) => id \notin DataInputs(g, y)
  BY <1>2
<1> QED BY <1>1, <1>2, <1>3, <1>4, KilledForward DEF h

(* No live node has a branch or one of these checks as an operand.              *)
LEMMA CheckForward ==
  ASSUME NEW g, Forward(g), NEW ids, ids \subseteq OfKind(g, {"If", "CheckBounds", "CheckNotNull"})
  PROVE  Forward(SetFlag(g, ids, "IsDead"))
<1>1. ASSUME NEW id \in 1..Len(g), id \in ids, NEW y \in 1..Len(g), ~Dead(g, y)
      PROVE  g[id].kind \notin {"IfTrue", "IfFalse"} /\ id \notin DataInputs(g, y)
  <2>1. g[id].kind \in {"If", "CheckBounds", "CheckNotNull"}
    BY <1>1 DEF OfKind
  <2>2. ~Usable(g, id, y)
    BY <2>1 DEF Usable
  <2>3. ForwardNode(g, y)
    BY DEF Forward
  <2> DEFINE in == g[y].in
  <2>4. in \in Seq(Nat) /\ \A k \in 1..Len(in) : Usable(g, in[k], y)
    BY <1>1, <2>3 DEF ForwardNode
  <2>5. \A k \in DOMAIN in : in[k] # id
    <3> HIDE DEF in
    <3> QED BY <2>2, <2>4
  <2>6. id \notin DataInputs(g, y)
    BY <2>5 DEF DataInputs
  <2> QED BY <2>1, <2>6
<1>2. \A id \in 1..Len(g) : id \in ids => g[id].kind \notin {"IfTrue", "IfFalse"}
  BY DEF OfKind
<1>3. \A id \in 1..Len(g) : id \in ids =>
            /\ g[id].kind \notin {"IfTrue", "IfFalse"}
            /\ \A y \in 1..Len(g) : ~Dead(g, y) /\ y \notin ids => id \notin DataInputs(g, y)
  BY <1>1, <1>2
<1> QED BY <1>3, DeadForward

(* One round of DeadCodeElimination.                                            *)
LEMMA SweepForward ==
  ASSUME NEW g, Forward(g)
  PROVE  Forward(SweepStep(g))
<1> DEFINE ids == Removable(g)
<1>1. ASSUME NEW id \in 1..Len(g), id \in ids PROVE g[id].kind \notin {"IfTrue", "IfFalse"}
  <2>1. ~Has(g, id, "Control") /\ ForwardNode(g, id)
    BY <1>1 DEF Removable, Forward
  <2> QED BY <2>1 DEF ForwardNode
<1>2. ASSUME NEW id \in 1..Len(g), id \in ids, NEW y \in 1..Len(g), ~Dead(g, y), y \notin ids
      PROVE  id \notin DataInputs(g, y)
  <2>1. y \in Live(g) \ {id}
    BY <1>2 DEF Live, Ids
  <2>2. id \notin References(g, y)
    BY <1>2, <2>1 DEF Removable, Unused
  <2> QED BY <2>2 DEF References
<1> HIDE DEF ids
<1>3. Forward(SetFlag(g, ids, "IsDead"))
  BY <1>1, <1>2, DeadForward
<1> QED BY <1>3 DEF SweepStep, ids

(* One allocation of EscapeAnalysis.                                            *)
LEMMA EscapeForward ==
  ASSUME NEW g, Forward(g), NEW id \in 1..Len(g), g[id].kind \notin {"IfTrue", "IfFalse"}
  PROVE  /\ Forward(EscapeStep(g, id)) /\ Len(EscapeStep(g, id)) = Len(g)
         /\ \A x \in 1..Len(g) : EscapeStep(g, id)[x].kind = g[x].kind
<1>1. CASE \E other \in Live(g) \ {id} : id \in DataInputs(g, other)
  BY <1>1 DEF EscapeStep
<1>2. CASE \A other \in Live(g) \ {id} : id \notin DataInputs(g, other)
  <2> DEFINE ids == {id}
             h == SetFlag(g, ids, "IsDead")
  <2>1. EscapeStep(g, id) = h
    BY <1>2 DEF EscapeStep, MarkDead
  <2>2. \A x \in 1..Len(g) : x \in ids =>
            /\ g[x].kind \notin {"IfTrue", "IfFalse"}
            /\ \A y \in 1..Len(g) : ~Dead(g, y) /\ y \notin ids => x \notin DataInputs(g, y)
    BY <1>2 DEF Live, Ids
  <2> HIDE DEF ids
  <2>3. Forward(h) /\ Flagged(g, h, ids, "IsDead")
    BY <2>2, DeadForward
  <2> HIDE DEF h
  <2> QED BY <2>1, <2>3 DEF Flagged
<1> QED BY <1>1, <1>2

LEMMA EscapesForward ==
  ASSUME NEW g, Forward(g)
  PROVE  Forward(EscapeAnalysis(g))
<1> DEFINE n == Len(g)
           q == InOrder(OfKind(g, AllocationKinds), n)
           m == Len(q)
           Kept(h) == Forward(h) /\ Len(h) = n /\ \A x \in 1..n : h[x].kind = g[x].kind
<1>1. n \in Nat
  BY GraphFacts DEF Forward
<1>2. /\ m \in Nat /\ DOMAIN q = 1..m
      /\ \A k \in 1..m : q[k] \in 1..n /\ g[q[k]].kind \notin {"IfTrue", "IfFalse"}
  <2>1. q \in Seq(OfKind(g, AllocationKinds) \cap (1..n))
    BY <1>1, InOrderEnumerates DEF Enumerates
  <2> HIDE DEF q
  <2>2. m \in Nat /\ DOMAIN q = 1..m /\ \A k \in 1..m : q[k] \in OfKind(g, AllocationKinds) \cap (1..n)
    BY <2>1
  <2>3. \A x \in OfKind(g, AllocationKinds) : g[x].kind \notin {"IfTrue", "IfFalse"}
    BY DEF OfKind, AllocationKinds
  <2> QED BY <2>2, <2>3
<1>3. PICK f : Steps(f, "EscapeAnalysis", g, q) /\ f[m] = EscapeAnalysis(g)
  BY <1>2, EscapeSteps
<1> DEFINE T == {f[k] : k \in {k \in 0..m : Kept(f[k])}}
<1> HIDE DEF q, n, m
<1>4. g \in T
  BY <1>2, <1>3 DEF Steps, n
<1>5. ASSUME NEW k \in 1..m, f[k - 1] \in T PROVE FoldStep("EscapeAnalysis", f[k - 1], q[k]) \in T
  <2> DEFINE b == f[k - 1]
             id == q[k]
  <2>1. Kept(b) /\ k \in 0..m
    BY <1>2, <1>5
  <2>2. f[k] = EscapeStep(b, id) /\ f[k] = FoldStep("EscapeAnalysis", b, id)
    BY <1>3, FoldStepOf DEF Steps, m
  <2>3. id \in 1..Len(b) /\ b[id].kind \notin {"IfTrue", "IfFalse"}
    BY <1>2, <2>1
  <2> HIDE DEF b, id
  <2> DEFINE h == EscapeStep(b, id)
  <2>4. Forward(h) /\ Len(h) = Len(b) /\ \A x \in 1..Len(b) : h[x].kind = b[x].kind
    BY <2>1, <2>3, EscapeForward
  <2> HIDE DEF h
  <2>5. Kept(f[k])
    BY <2>1, <2>2, <2>4 DEF h
  <2> QED BY <2>1, <2>2, <2>5 DEF b, id
<1>6. f[m] \in T
  <2> HIDE DEF T
  <2> QED BY <1>2, <1>3, <1>4, <1>5, StepsKeep DEF m
<1> QED BY <1>3, <1>6

LEMMA SweepsForward ==
  ASSUME NEW g, Forward(g)
  PROVE  Forward(DeadCodeElimination(g))
<1> DEFINE n == Len(g)
           q == Ascending(g)
<1>1. n \in Nat /\ Len(q) = n
  BY GraphFacts, AscendingFacts DEF Forward
<1>2. PICK f : Steps(f, "DeadCodeElimination", g, q) /\ f[n] = DeadCodeElimination(g)
  BY <1>1, SweepSteps
<1> HIDE DEF q, n
<1> DEFINE T == {f[k] : k \in {k \in 0..n : Forward(f[k])}}
<1>4. g \in T
  BY <1>1, <1>2 DEF Steps
<1>5. ASSUME NEW k \in 1..Len(q), f[k - 1] \in T
      PROVE  FoldStep("DeadCodeElimination", f[k - 1], q[k]) \in T
  <2>1. Forward(f[k - 1]) /\ k \in 0..n
    BY <1>1, <1>5
  <2>2. f[k] = SweepStep(f[k - 1]) /\ f[k] = FoldStep("DeadCodeElimination", f[k - 1], q[k])
    BY <1>2, FoldStepOf DEF Steps
  <2>3. Forward(f[k])
    BY <2>1, <2>2, SweepForward
  <2> QED BY <2>1, <2>2, <2>3
<1>6. f[n] \in T
  <2> HIDE DEF T
  <2> QED BY <1>1, <1>2, <1>4, <1>5, StepsKeep
<1> QED BY <1>2, <1>6

(* A node gives way to an earlier one of its kind.                              *)
Stands(g, kept, id) ==
  /\ id \in 1..Len(g) /\ kept \in 1..id - 1 /\ ~Dead(g, kept)
  /\ g[kept].kind = g[id].kind /\ g[id].kind \notin {"IfTrue", "IfFalse"}

LEMMA MovedUse ==
  ASSUME NEW g, Len(g) \in Nat, NEW kept, NEW id, Stands(g, kept, id), NEW y \in 1..Len(g), NEW x,
         Usable(g, x, y)
  PROVE  LET u == IF x = id THEN kept ELSE x
         IN  Usable(g, u, y) /\ u # id /\ u \in Nat
BY DEF Stands, Usable

LEMMA RenamedForward ==
  ASSUME NEW g, Forward(g), NEW kept, NEW id, Stands(g, kept, id)
  PROVE  LET h == MarkDead(ReplaceAllUses(g, id, kept), id)
         IN  /\ Forward(h) /\ Len(h) = Len(g)
             /\ \A x \in 1..Len(g) : h[x].kind = g[x].kind /\ (x # id => (Dead(h, x) <=> Dead(g, x)))
<1> DEFINE n == Len(g)
           moved(in) == Redirected(in, id, kept)
           r == ReplaceAllUses(g, id, kept)
           h == MarkDead(r, id)
<1>1. n \in Nat /\ IsGraph(g) /\ \A x \in 1..n : ForwardNode(g, x)
  BY GraphFacts DEF Forward
<1>2. /\ IsGraph(r) /\ Len(r) = n
      /\ \A x \in 1..n :
           /\ r[x].in = IF Dead(g, x) THEN g[x].in ELSE moved(g[x].in)
           /\ r[x].flags = g[x].flags /\ r[x].kind = g[x].kind /\ r[x].ctrl = g[x].ctrl
  <2>1. Replaced(g, r, id, kept)
    BY <1>1, ReplaceGraph
  <2> HIDE DEF r
  <2> QED BY <2>1 DEF Replaced
<1> HIDE DEF r, moved
<1>3. Flagged(r, h, {id}, "IsDead")
  <2>1. "IsDead" \in Flags
    BY DEF Flags
  <2> QED BY <1>2, <2>1, SetFlagMarks DEF MarkDead
<1> HIDE DEF h
<1>4. /\ IsGraph(h) /\ Len(h) = n
      /\ \A x \in 1..n :
           /\ h[x].in = IF Dead(g, x) THEN g[x].in ELSE moved(g[x].in)
           /\ h[x].flags = IF x = id THEN g[x].flags \cup {"IsDead"} ELSE g[x].flags
           /\ h[x].kind = g[x].kind /\ h[x].ctrl = g[x].ctrl
  BY <1>2, <1>3 DEF Flagged
<1>5. ASSUME NEW x \in 1..n
      PROVE  Tracks(g, h, x) /\ (Dead(h, x) <=> Dead(g, x) \/ x = id)
  <2>1. /\ h[x].flags = IF x = id THEN g[x].flags \cup {"IsDead"} ELSE g[x].flags
        /\ h[x].kind = g[x].kind /\ h[x].ctrl = g[x].ctrl
    BY <1>4
  <2> QED BY <2>1 DEF Tracks, SameRole, Has, Dead
<1>6. ASSUME NEW y \in 1..n
      PROVE  /\ h[y].in \in Seq(Nat)
             /\ ~Dead(h, y) => \A k \in 1..Len(h[y].in) : Usable(h, h[y].in[k], y)
  <2> DEFINE in == g[y].in
             hin == h[y].in
             l == Len(in)
  <2>1. in \in Seq(Nat) /\ (~Dead(g, y) => \A k \in 1..l : Usable(g, in[k], y))
    BY <1>1 DEF ForwardNode
  <2>2. hin = IF Dead(g, y) THEN in ELSE moved(in)
    BY <1>4
  <2>3. l \in Nat /\ DOMAIN in = 1..l
    <3> HIDE DEF in
    <3> QED BY <2>1
  <2> HIDE DEF in, hin, l
  <2>4. CASE Dead(g, y)
    BY <1>5, <2>1, <2>2, <2>4 DEF hin
  <2>5. CASE ~Dead(g, y)
    <3>1. hin = [k \in 1..l |-> IF in[k] = id THEN kept ELSE in[k]]
      BY <2>2, <2>3, <2>5 DEF moved, Redirected
    <3>2. ASSUME NEW k \in 1..l PROVE hin[k] \in Nat /\ Usable(g, hin[k], y) /\ hin[k] # id
      <4>1. Usable(g, in[k], y)
        BY <2>1, <2>5
      <4>2. hin[k] = IF in[k] = id THEN kept ELSE in[k]
        BY <3>1
      <4> QED BY <1>1, <4>1, <4>2, MovedUse
    <3>3. hin \in [1..l -> Nat]
      BY <3>1, <3>2
    <3>4. hin \in Seq(Nat) /\ Len(hin) = l
      BY <2>3, <3>3
    <3>5. ASSUME NEW k \in 1..l PROVE Usable(h, hin[k], y)
      <4> DEFINE u == hin[k]
      <4>1. Usable(g, u, y) /\ u # id
        BY <3>2
      <4> HIDE DEF u
      <4>2. u \in 1..n
        BY <1>1, <4>1 DEF Usable
      <4>3. h[u].kind = g[u].kind /\ (Dead(h, u) <=> Dead(g, u))
        BY <1>4, <1>5, <4>1, <4>2
      <4>4. Usable(h, u, y)
        BY <4>1, <4>3 DEF Usable
      <4> QED BY <4>4 DEF u
    <3> QED BY <3>4, <3>5 DEF hin
  <2> QED BY <2>4, <2>5
<1>7. \A x \in 1..n : g[x].kind \in {"IfTrue", "IfFalse"} => ~Dead(h, x)
  BY <1>1, <1>5 DEF ForwardNode, Stands
<1>8. Forward(h)
  BY <1>1, <1>4, <1>5, <1>6, <1>7, KeptForward
<1> QED BY <1>4, <1>5, <1>8 DEF h, r

(* Where GVN and CSE are before an id: the table has live nodes that come first. *)
Numbered(s, n, id) ==
  /\ IsAt(s, n) /\ Forward(s.g)
  /\ \A e \in s.table : /\ e.id \in 1..n /\ e.id < id /\ ~Dead(s.g, e.id)
                        /\ e.sig.kind = s.g[e.id].kind

LEMMA DeduplicateForward ==
  ASSUME NEW n \in Nat, NEW id \in 1..n, NEW s, Numbered(s, n, id), id \in Pure(s.g)
  PROVE  Numbered(Deduplicate(s, id), n, id + 1)
<1> DEFINE g == s.g
           sig == Signature(g, id)
           same == {e \in s.table : e.sig = sig}
           kept == (CHOOSE e \in same : TRUE).id
           h == MarkDead(ReplaceAllUses(g, id, kept), id)
           new == [sig |-> sig, id |-> id]
           more == s.table \cup {new}
           t == Deduplicate(s, id)
           m == id + 1
<1>1. t = IF same = {} THEN [s EXCEPT !.table = more] ELSE [s EXCEPT !.g = h]
  BY DEF Deduplicate
<1>2. IsAt(t, n)
  BY DeduplicateGraph DEF Numbered
<1>3. /\ s = [g |-> g, table |-> s.table] /\ Forward(g) /\ Len(g) = n
      /\ ~Dead(g, id) /\ Has(g, id, "Pure") /\ sig.kind = g[id].kind
  BY DEF Numbered, IsAt, Pure, Live, Signature
<1>4. new.sig.kind = g[id].kind /\ new.id = id
  BY <1>3
<1>7. \A x \in 1..n : x <= id => x < m
  OBVIOUS
<1> HIDE DEF t, new, h, sig, m
<1>5. ASSUME same = {} PROVE Numbered(t, n, m)
  <2>1. t.g = g /\ t.table = more
    BY <1>1, <1>3, <1>5
  <2>2. ASSUME NEW e \in more
        PROVE  e.id \in 1..n /\ e.id < m /\ ~Dead(g, e.id) /\ e.sig.kind = g[e.id].kind
    <3>1. CASE e = new
      BY <1>3, <1>4, <1>7, <3>1
    <3>2. CASE e \in s.table
      <4>1. e.id \in 1..n /\ e.id < id /\ ~Dead(g, e.id) /\ e.sig.kind = g[e.id].kind
        BY <3>2 DEF Numbered
      <4> QED BY <1>7, <4>1
    <3> QED BY <3>1, <3>2
  <2> HIDE DEF g, more
  <2>3. Forward(t.g) /\ \A e \in t.table : /\ e.id \in 1..n /\ e.id < m /\ ~Dead(t.g, e.id)
                                          /\ e.sig.kind = t.g[e.id].kind
    BY <1>3, <2>1, <2>2
  <2>4. Numbered(t, n, m)
    BY <1>2, <2>3 DEF Numbered
  <2> QED BY <2>4
<1>6. ASSUME same # {} PROVE Numbered(t, n, m)
  <2>1. t.g = h /\ t.table = s.table
    BY <1>1, <1>3, <1>6
  <2>2. PICK d \in s.table : kept = d.id /\ d.sig = sig
    BY <1>6
  <2>3. Stands(g, kept, id)
    <3>1. d.id \in 1..n /\ d.id < id /\ ~Dead(g, d.id) /\ d.sig.kind = g[d.id].kind
      BY DEF Numbered
    <3>2. g[id].kind \notin {"IfTrue", "IfFalse"}
      BY <1>3 DEF Forward, ForwardNode
    <3> HIDE DEF kept, g
    <3> QED BY <1>3, <2>2, <3>1, <3>2 DEF Stands
  <2> HIDE DEF kept, g
  <2>4. /\ Forward(h) /\ Len(h) = Len(g)
        /\ \A x \in 1..Len(g) : h[x].kind = g[x].kind /\ (x # id => (Dead(h, x) <=> Dead(g, x)))
    BY <1>3, <2>3, RenamedForward DEF h
  <2>5. ASSUME NEW e \in s.table
        PROVE  e.id \in 1..n /\ e.id < m /\ ~Dead(h, e.id) /\ e.sig.kind = h[e.id].kind
    <3>1. e.id \in 1..n /\ e.id < id /\ ~Dead(g, e.id) /\ e.sig.kind = g[e.id].kind
      BY DEF Numbered, g
    <3>2. e.id # id /\ e.id < m
      BY <1>7, <3>1
    <3> QED BY <1>3, <2>4, <3>1, <3>2
  <2>6. Numbered(t, n, m)
    BY <1>2, <2>1, <2>4, <2>5 DEF Numbered
  <2> QED BY <2>6
<1>8. Numbered(t, n, m)
  BY <1>5, <1>6
<1> QED BY <1>8 DEF t, m

LEMMA NumberingStep ==
  ASSUME NEW n \in Nat, NEW id \in 1..n, NEW s, Numbered(s, n, id)
  PROVE  /\ Numbered(GvnStep(s, id), n, id + 1)
         /\ Numbered(CseStep(s, id), n, id + 1)
<1>1. Numbered(s, n, id + 1)
  <2>1. \A x \in 1..n : x < id => x < id + 1
    OBVIOUS
  <2> QED BY <2>1 DEF Numbered
<1>2. Numbered([s EXCEPT !.table = {}], n, id + 1)
  <2> DEFINE t == [s EXCEPT !.table = {}]
  <2>1. IsAt(t, n)
    BY DeduplicateGraph DEF Numbered
  <2>2. t.g = s.g /\ t.table = {} /\ Forward(s.g)
    BY DEF Numbered, IsAt
  <2> HIDE DEF t
  <2>3. Numbered(t, n, id + 1)
    BY <2>1, <2>2 DEF Numbered
  <2> QED BY <2>3 DEF t
<1>3. id \in Pure(s.g) => Numbered(Deduplicate(s, id), n, id + 1)
  BY DeduplicateForward
<1>4. ~Dead(s.g, id) /\ Has(s.g, id, "Pure") => id \in Pure(s.g)
  BY DEF Numbered, IsAt, Pure, Live, Ids
<1> DEFINE m == id + 1
<1> HIDE DEF m
<1> QED BY <1>1, <1>2, <1>3, <1>4 DEF GvnStep, CseStep, m

(* Each step of a numbering, at which the table holds nodes that stay.          *)
LEMMA NumberingReaches ==
  ASSUME NEW g, Forward(g), NEW n \in Nat, n = Len(g), NEW pass \in {"GVN", "CSE"},
         NEW f, Steps(f, pass, NoTable(g), Ascending(g))
  PROVE  \A k \in 0..n : Numbered(f[k], n, k + 1)
<1> DEFINE q == Ascending(g)
           base == NoTable(g)
           T == {k \in Nat : k \in 0..n => Numbered(f[k], n, k + 1)}
<1>1. Len(q) = n /\ \A k \in 1..n : q[k] = k
  <2>1. Len(q) = n
    BY AscendingFacts
  <2> QED BY <2>1 DEF Ascending, Ids
<1>2. f[0] = base /\ \A k \in 1..n : f[k] = FoldStep(pass, f[k - 1], q[k])
  BY <1>1 DEF Steps
<1>3. Numbered(base, n, 0 + 1)
  BY DEF Numbered, IsAt, NoTable, Forward
<1> HIDE DEF q, base
<1>4. 0 \in T
  BY <1>2, <1>3
<1>5. ASSUME NEW k \in 0..n - 1, k \in T PROVE k + 1 \in T
  <2> DEFINE j == k + 1
  <2>1. j \in 1..n /\ j - 1 = k /\ j \in Nat /\ k \in 0..n
    OBVIOUS
  <2>2. Numbered(f[k], n, j)
    BY <1>5, <2>1
  <2> HIDE DEF j
  <2>3. f[j] = FoldStep(pass, f[k], j)
    BY <1>1, <1>2, <2>1
  <2>4. Numbered(f[j], n, j + 1)
    <3> DEFINE s == f[k]
    <3>1. Numbered(GvnStep(s, j), n, j + 1) /\ Numbered(CseStep(s, j), n, j + 1)
      <4> HIDE DEF s
      <4> QED BY <2>1, <2>2, NumberingStep DEF s
    <3>2. f[j] = GvnStep(s, j) \/ f[j] = CseStep(s, j)
      BY <2>3, FoldStepOf
    <3> HIDE DEF s
    <3> QED BY <3>1, <3>2
  <2>5. j \in T
    BY <2>1, <2>4
  <2> QED BY <2>5 DEF j
<1>6. 0..n \subseteq T
  <2> HIDE DEF T
  <2> QED BY <1>4, <1>5, PrefixInduction
<1> QED BY <1>6

LEMMA NumberingKeeps ==
  ASSUME NEW g, Forward(g), NEW n \in Nat, n = Len(g), NEW pass \in {"GVN", "CSE"},
         NEW f, Steps(f, pass, NoTable(g), Ascending(g))
  PROVE  Forward(f[n].g)
<1>1. Numbered(f[n], n, n + 1)
  BY NumberingReaches
<1> QED BY <1>1 DEF Numbered

LEMMA NumberingForward ==
  ASSUME NEW g, Forward(g)
  PROVE  Forward(GVN(g)) /\ Forward(CSE(g))
<1> DEFINE n == Len(g)
           q == Ascending(g)
           base == NoTable(g)
<1>1. n \in Nat
  BY GraphFacts DEF Forward
<1> HIDE DEF n
<1>2. PICK f : Steps(f, "GVN", base, q) /\ f[n].g = GVN(g)
  BY <1>1, GvnSteps DEF n
<1>3. PICK h : Steps(h, "CSE", base, q) /\ h[n].g = CSE(g)
  BY <1>1, CseSteps DEF n
<1>4. Forward(f[n].g)
  BY <1>1, <1>2, NumberingKeeps DEF n
<1>5. Forward(h[n].g)
  BY <1>1, <1>3, NumberingKeeps DEF n
<1> QED BY <1>2, <1>3, <1>4, <1>5

(* TailCallElimination gives a node another kind, of the same role.             *)
LEMMA TailCallsForward ==
  ASSUME NEW g, Forward(g)
  PROVE  Forward(TailCallElimination(g))
<1> DEFINE h == TailCallElimination(g)
           calls == TailCalls(g)
           n == Len(g)
<1>1. n \in Nat /\ h = [id \in 1..n |-> IF id \in calls THEN [g[id] EXCEPT !.kind = "TailCall"]
                                                        ELSE g[id]]
  BY GraphFacts DEF TailCallElimination, Forward
<1>2. \A id \in 1..n : GraphNode(g[id])
  BY DEF IsGraph, Forward
<1>3. IsGraph(h) /\ Len(h) = n
  BY TailCallsGraph DEF Forward
<1>4. \A id \in calls : g[id].kind \in {"Call", "CallVirt", "CallKnown"}
  BY DEF TailCalls
<1> HIDE DEF h, calls, n
<1>5. ASSUME NEW m, GraphNode(m)
      PROVE  LET c == [m EXCEPT !.kind = "TailCall"]
             IN  /\ c.kind = "TailCall" /\ c.flags = m.flags /\ c.in = m.in /\ c.ctrl = m.ctrl
  BY <1>5 DEF GraphNode
<1>6. ASSUME NEW id \in 1..n
      PROVE  Tracks(g, h, id) /\ h[id].in = g[id].in /\ (Dead(h, id) => Dead(g, id))
  <2>1. h[id].flags = g[id].flags /\ h[id].in = g[id].in /\ h[id].ctrl = g[id].ctrl
    BY <1>1, <1>2, <1>5
  <2>2. SameRole(g[id].kind, h[id].kind)
    <3>1. CASE id \in calls
      <4>1. h[id].kind = "TailCall"
        BY <1>1, <1>2, <1>5, <3>1
      <4> QED BY <1>4, <3>1, <4>1 DEF SameRole, Special
    <3>2. CASE id \notin calls
      BY <1>1, <3>2 DEF SameRole
    <3> QED BY <3>1, <3>2
  <2> QED BY <2>1, <2>2 DEF Tracks, Has, Dead
<1>7. Forward(h)
  BY <1>3, <1>6, KilledForward DEF n
<1> QED BY <1>7 DEF h

(* A graph with one more node, that uses an earlier one.                        *)
OneMoreCheck(h, x, e, use) ==
  /\ IsGraph(x) /\ Len(x) = e
  /\ \A k \in 1..Len(h) : /\ x[k].in = h[k].in /\ x[k].kind = h[k].kind
                          /\ x[k].flags = h[k].flags /\ x[k].ctrl = h[k].ctrl
  /\ x[e].kind = "CheckClass" /\ x[e].in = <<use>> /\ Usable(h, use, e)

LEMMA GrownForward ==
  ASSUME NEW h, Forward(h), NEW e, e = Len(h) + 1, NEW use, NEW x, OneMoreCheck(h, x, e, use)
  PROVE  Forward(x)
<1> DEFINE n == Len(h)
<1>1. /\ n \in Nat /\ e \in Nat /\ \A k \in 1..n : k \in 1..e /\ k <= e
      /\ \A k \in 1..e : k = e \/ k \in 1..n
  BY GraphFacts DEF Forward
<1>2. \A k \in 1..n : ForwardNode(h, k) /\ (Dead(x, k) <=> Dead(h, k))
  BY DEF Forward, OneMoreCheck, Dead, Has
<1>3. ASSUME NEW u, NEW y \in 1..e, Usable(h, u, y) PROVE Usable(x, u, y)
  <2>1. u \in 1..n
    BY <1>1, <1>3 DEF Usable
  <2>2. (Dead(x, u) <=> Dead(h, u)) /\ x[u].kind = h[u].kind
    BY <1>2, <2>1 DEF OneMoreCheck
  <2> QED BY <1>3, <2>2 DEF Usable
<1>4. ASSUME NEW k \in 1..n PROVE ForwardNode(x, k)
  <2>1. ForwardNode(h, k) /\ (Dead(x, k) <=> Dead(h, k)) /\ k \in 1..e
    BY <1>1, <1>2
  <2>2. x[k].in = h[k].in /\ x[k].kind = h[k].kind /\ x[k].flags = h[k].flags /\ x[k].ctrl = h[k].ctrl
    BY DEF OneMoreCheck
  <2>3. h[k].kind = "If" => /\ k + 2 <= Len(x) /\ x[k + 1].kind = "IfTrue"
                            /\ x[k + 2].kind = "IfFalse"
    <3> SUFFICES ASSUME h[k].kind = "If"
                 PROVE  k + 2 <= Len(x) /\ x[k + 1].kind = "IfTrue" /\ x[k + 2].kind = "IfFalse"
      OBVIOUS
    <3> DEFINE y == k + 1
               z == k + 2
    <3>1. y \in 1..n /\ z \in 1..n /\ h[y].kind = "IfTrue" /\ h[z].kind = "IfFalse"
      BY <1>1, <2>1 DEF ForwardNode
    <3> HIDE DEF y, z
    <3>2. x[y].kind = "IfTrue" /\ x[z].kind = "IfFalse" /\ z <= Len(x)
      BY <1>1, <3>1 DEF OneMoreCheck
    <3> QED BY <3>2 DEF y, z
  <2>4. ~Dead(h, k) => \A j \in 1..Len(h[k].in) : Usable(x, h[k].in[j], k)
    BY <1>3, <2>1 DEF ForwardNode
  <2>5. /\ Has(x, k, "Control") <=> Has(h, k, "Control")
        /\ Has(x, k, "Pure") <=> Has(h, k, "Pure")
    BY <2>2 DEF Has
  <2> QED BY <2>1, <2>2, <2>3, <2>4, <2>5 DEF ForwardNode
<1>5. ForwardNode(x, e)
  <2> DEFINE in == x[e].in
  <2>1. e \in 1..e
    BY <1>1
  <2>2. Usable(x, use, e) /\ use \in Nat
    BY <1>3, <2>1 DEF OneMoreCheck, Usable
  <2>3. in = <<use>>
    BY DEF OneMoreCheck
  <2> HIDE DEF in
  <2>4. in \in Seq(Nat) /\ Len(in) = 1 /\ in[1] = use
    BY <2>2, <2>3
  <2>5. \A k \in 1..Len(in) : Usable(x, in[k], e)
    BY <2>2, <2>4
  <2>6. x[e].kind = "CheckClass"
    BY DEF OneMoreCheck
  <2> QED BY <2>4, <2>5, <2>6 DEF ForwardNode, in
<1>6. \A k \in 1..e : ForwardNode(x, k)
  BY <1>1, <1>4, <1>5
<1> QED BY <1>6 DEF Forward, OneMoreCheck

(* h has the nodes of g, but for their effect inputs, and more after them.      *)
Lengthened(g, h) ==
  /\ Forward(h) /\ Len(h) >= Len(g)
  /\ \A k \in 1..Len(g) : /\ h[k].in = g[k].in /\ h[k].kind = g[k].kind
                          /\ h[k].flags = g[k].flags

LEMMA StubForward ==
  ASSUME NEW g, Len(g) \in Nat, NEW h, Lengthened(g, h), NEW id \in Checked(g), id \in 1..Len(g)
  PROVE  Lengthened(g, StubStep(h, id))
<1> DEFINE n == Len(h)
           e == n + 1
           x == StubStep(h, id)
           use == h[id].in[1]
<1>1. n \in Nat /\ n >= Len(g) /\ IsGraph(h) /\ id \in 1..n
  BY GraphFacts DEF Forward, Lengthened
<1>2. /\ IsGraph(x) /\ Len(x) = e
      /\ x[e] = NewNode("CheckClass", <<use>>, h[id].ctrl, h[id].eff)
      /\ x[id] = [h[id] EXCEPT !.eff = e]
      /\ \A k \in 1..n : k # id => x[k] = h[k]
  BY <1>1, StubGraph
<1> HIDE DEF x
<1>3. ASSUME NEW k \in 1..n
      PROVE  /\ x[k].in = h[k].in /\ x[k].kind = h[k].kind
             /\ x[k].flags = h[k].flags /\ x[k].ctrl = h[k].ctrl
  <2> DEFINE m == h[id]
             after == [m EXCEPT !.eff = e]
  <2>1. GraphNode(m)
    BY <1>1 DEF IsGraph
  <2> HIDE DEF m
  <2>2. after.in = m.in /\ after.kind = m.kind /\ after.flags = m.flags /\ after.ctrl = m.ctrl
    BY <2>1 DEF GraphNode
  <2> HIDE DEF after, e
  <2>3. x[id] = after
    BY <1>2 DEF after, m
  <2> QED BY <1>2, <2>2, <2>3 DEF m
<1>4. Usable(h, use, e)
  <2>1. g[id].in # <<>> /\ ~Dead(g, id) /\ g[id].in = h[id].in /\ g[id].flags = h[id].flags
    BY DEF Checked, OfKind, Live, Lengthened
  <2>2. ~Dead(h, id) /\ ForwardNode(h, id)
    BY <1>1, <2>1 DEF Dead, Has, Lengthened, Forward
  <2> DEFINE in == h[id].in
  <2>3. in \in Seq(Nat) /\ in # <<>> /\ \A k \in 1..Len(in) : Usable(h, in[k], id)
    BY <2>1, <2>2 DEF ForwardNode
  <2> HIDE DEF in
  <2>4. 1 \in 1..Len(in)
    BY <2>3
  <2>5. Usable(h, in[1], id)
    BY <2>3, <2>4
  <2> QED BY <1>1, <2>5 DEF Usable, in
<1>5. x[e].kind = "CheckClass" /\ x[e].in = <<use>>
  BY <1>2 DEF NewNode
<1>6. OneMoreCheck(h, x, e, use)
  <2> HIDE DEF e, use
  <2> QED BY <1>2, <1>3, <1>4, <1>5 DEF OneMoreCheck
<1>7. Forward(x)
  <2>1. Forward(h)
    BY DEF Lengthened
  <2> HIDE DEF use
  <2> QED BY <1>6, <2>1, GrownForward
<1>8. Len(x) >= Len(g)
  BY <1>1, <1>2
<1>9. \A k \in 1..Len(g) : k \in 1..n
  BY <1>1
<1> QED BY <1>3, <1>7, <1>8, <1>9 DEF Lengthened, x

LEMMA StubsForward ==
  ASSUME NEW g, Forward(g)
  PROVE  Forward(ICStubEmission(g))
<1> DEFINE n == Len(g)
           q == InOrder(Checked(g), n)
           m == Len(q)
<1>1. n \in Nat
  BY GraphFacts DEF Forward
<1>2. m \in Nat /\ DOMAIN q = 1..m /\ \A k \in 1..m : q[k] \in Checked(g) /\ q[k] \in 1..n
  <2>1. q \in Seq(Checked(g) \cap (1..n))
    BY <1>1, InOrderEnumerates DEF Enumerates
  <2> HIDE DEF q
  <2> QED BY <2>1
<1>3. PICK f : Steps(f, "ICStubEmission", g, q) /\ f[m] = ICStubEmission(g)
  BY <1>2, StubSteps
<1> DEFINE T == {f[k] : k \in {k \in 0..m : Lengthened(g, f[k])}}
<1> HIDE DEF q, n, m
<1>4. g \in T
  <2>1. Lengthened(g, g)
    BY <1>1 DEF Lengthened, n
  <2> QED BY <1>2, <1>3, <2>1 DEF Steps
<1>5. ASSUME NEW k \in 1..m, f[k - 1] \in T PROVE FoldStep("ICStubEmission", f[k - 1], q[k]) \in T
  <2> DEFINE b == f[k - 1]
             id == q[k]
  <2>1. Lengthened(g, b) /\ k \in 0..m
    BY <1>2, <1>5
  <2>2. f[k] = StubStep(b, id) /\ f[k] = FoldStep("ICStubEmission", b, id)
    BY <1>3, FoldStepOf DEF Steps, m
  <2>3. id \in Checked(g) /\ id \in 1..Len(g)
    BY <1>2 DEF n
  <2> HIDE DEF b, id
  <2>4. Lengthened(g, StubStep(b, id))
    BY <1>1, <2>1, <2>3, StubForward DEF n
  <2> QED BY <2>1, <2>2, <2>4 DEF b, id
<1>6. f[m] \in T
  <2> HIDE DEF T
  <2> QED BY <1>2, <1>3, <1>4, <1>5, StepsKeep DEF m
<1> QED BY <1>3, <1>6 DEF Lengthened

LEMMA RubyKeepsForward ==
  ASSUME NEW g, Forward(g), NEW pass \in {RubyPipeline[k] : k \in 1..Len(RubyPipeline)}
  PROVE  Forward(Run(pass, g))
<1> DEFINE h == Run(pass, g)
           Flagging == {"TypeNarrowing", "LICM", "LoopPeeling", "GCM", "ProfileGuidedBlockReorder"}
           Killing == {"ControlFlowSimplification", "BCE", "NCE"}
           Marking == {"AlgebraicSimplification", "SCCP", "ConstantFolding", "Peephole"}
           Others == {"CSE", "GVN", "EscapeAnalysis", "Inlining", "TailCallElimination",
                      "ICStubEmission", "DeadCodeElimination"}
<1>1. IsGraph(g)
  BY DEF Forward
<1>2. pass \in Flagging \cup Killing \cup Marking \cup Others
  BY DEF RubyPipeline
<1>3. CASE pass \in Flagging
  <2>1. \E flag \in {"IsScheduled", "IsCold", "HasTypeNarrowing"} : \E ids : h = SetFlag(g, ids, flag)
    <3>1. /\ pass = "TypeNarrowing" => h = TypeNarrowing(g)
          /\ pass = "LICM" => h = LICM(g)
          /\ pass = "LoopPeeling" => h = LoopPeeling(g)
          /\ pass = "GCM" => h = GCM(g)
          /\ pass = "ProfileGuidedBlockReorder" => h = ProfileGuidedBlockReorder(g)
      BY DEF Run
    <3>2. \E ids : TypeNarrowing(g) = SetFlag(g, ids, "HasTypeNarrowing")
      BY DEF TypeNarrowing
    <3>3. \E ids : LICM(g) = SetFlag(g, ids, "IsScheduled")
      BY DEF LICM
    <3>4. \E ids : LoopPeeling(g) = SetFlag(g, ids, "IsScheduled")
      BY DEF LoopPeeling
    <3>5. \E ids : GCM(g) = SetFlag(g, ids, "IsCold")
      BY DEF GCM
    <3>6. \E ids : ProfileGuidedBlockReorder(g) = SetFlag(g, ids, "IsCold")
      BY DEF ProfileGuidedBlockReorder
    <3> HIDE DEF h
    <3> QED BY <1>3, <3>1, <3>2, <3>3, <3>4, <3>5, <3>6
  <2>2. PICK flag \in {"IsScheduled", "IsCold", "HasTypeNarrowing"} : \E ids : h = SetFlag(g, ids, flag)
    BY <2>1
  <2>3. PICK ids : h = SetFlag(g, ids, flag)
    BY <2>2
  <2>4. Forward(SetFlag(g, ids, flag))
    BY <2>2, FlagForward
  <2> QED BY <2>3, <2>4
<1>4. CASE pass \in Killing
  <2>1. \E ids : ids \subseteq OfKind(g, {"If", "CheckBounds", "CheckNotNull"}) /\ h = SetFlag(g, ids, "IsDead")
    <3> DEFINE Kills(x) == \E ids : /\ ids \subseteq OfKind(g, {"If", "CheckBounds", "CheckNotNull"})
                                    /\ x = SetFlag(g, ids, "IsDead")
    <3>1. /\ pass = "ControlFlowSimplification" => h = ControlFlowSimplification(g)
          /\ pass = "BCE" => h = BCE(g)
          /\ pass = "NCE" => h = NCE(g)
      BY DEF Run
    <3>2. Kills(ControlFlowSimplification(g))
      <4> DEFINE ids == {id \in OfKind(g, {"If"}) : Len(g[id].in) = 1 /\ Conditions(g, id) # {}}
      <4>1. ids \subseteq OfKind(g, {"If", "CheckBounds", "CheckNotNull"})
        BY DEF OfKind
      <4>2. ControlFlowSimplification(g) = SetFlag(g, ids, "IsDead")
        BY DEF ControlFlowSimplification
      <4> QED BY <4>1, <4>2
    <3>3. Kills(BCE(g))
      <4> DEFINE ids == {id \in OfKind(g, {"CheckBounds"}) :
                           Len(g[id].in) = 2 /\ InBounds(g, g[id].in[1], g[id].in[2])}
      <4>1. ids \subseteq OfKind(g, {"If", "CheckBounds", "CheckNotNull"})
        BY DEF OfKind
      <4>2. BCE(g) = SetFlag(g, ids, "IsDead")
        BY DEF BCE
      <4> QED BY <4>1, <4>2
    <3>4. Kills(NCE(g))
      <4> DEFINE ids == {id \in OfKind(g, {"CheckNotNull"}) :
                           g[id].in # <<>> /\ Valid(g, g[id].in[1])
                           /\ g[g[id].in[1]].kind \in NonNullKinds}
      <4>1. ids \subseteq OfKind(g, {"If", "CheckBounds", "CheckNotNull"})
        BY DEF OfKind
      <4>2. NCE(g) = SetFlag(g, ids, "IsDead")
        BY DEF NCE
      <4> QED BY <4>1, <4>2
    <3> HIDE DEF h, Kills
    <3>5. Kills(h)
      BY <1>4, <3>1, <3>2, <3>3, <3>4
    <3> QED BY <3>5 DEF Kills
  <2> HIDE DEF h
  <2>2. PICK ids : ids \subseteq OfKind(g, {"If", "CheckBounds", "CheckNotNull"}) /\ h = SetFlag(g, ids, "IsDead")
    BY <2>1
  <2>3. Forward(h)
    BY <2>2, CheckForward
  <2> QED BY <2>3 DEF h
<1>5. CASE pass \in Marking
  <2> DEFINE Marks(x) == /\ x = [id \in Ids(g) |-> x[id]]
                         /\ \A id \in Ids(g) : x[id] = g[id] \/ \E v : x[id] \in {Mark(g[id], v), MarkInt(g[id], v)}
  <2>1. /\ pass = "AlgebraicSimplification" => h = AlgebraicSimplification(g)
        /\ pass = "SCCP" => h = SCCP(g)
        /\ pass = "ConstantFolding" => h = ConstantFolding(g)
        /\ pass = "Peephole" => h = Peephole(g)
    BY DEF Run
  <2>2. /\ Marks(AlgebraicSimplification(g)) /\ Marks(SCCP(g)) /\ Marks(ConstantFolding(g))
        /\ Marks(Peephole(g))
    <3>1. Marks(AlgebraicSimplification(g))
      BY <1>1, SimplificationMarks
    <3>2. Marks(SCCP(g))
      BY <1>1, SCCPMarks
    <3>3. Marks(ConstantFolding(g))
      BY <1>1, FoldingMarks
    <3>4. Marks(Peephole(g))
      BY <1>1, PeepholeMarks
    <3> QED BY <3>1, <3>2, <3>3, <3>4
  <2>3. Marks(h)
    <3> HIDE DEF h, Marks
    <3> QED BY <1>5, <2>1, <2>2
  <2> HIDE DEF h
  <2>4. Forward(h)
    BY <2>3, MarksForward
  <2> QED BY <2>4 DEF h
<1>6. CASE pass \in Others
  <2>1. /\ pass = "CSE" => h = CSE(g)
        /\ pass = "GVN" => h = GVN(g)
        /\ pass = "EscapeAnalysis" => h = EscapeAnalysis(g)
        /\ pass = "Inlining" => h = g
        /\ pass = "TailCallElimination" => h = TailCallElimination(g)
        /\ pass = "ICStubEmission" => h = ICStubEmission(g)
        /\ pass = "DeadCodeElimination" => h = DeadCodeElimination(g)
    BY DEF Run, Inlining
  <2> HIDE DEF h
  <2>2. /\ Forward(CSE(g)) /\ Forward(GVN(g)) /\ Forward(EscapeAnalysis(g)) /\ Forward(g)
        /\ Forward(TailCallElimination(g)) /\ Forward(ICStubEmission(g))
        /\ Forward(DeadCodeElimination(g))
    BY NumberingForward, EscapesForward, TailCallsForward, StubsForward, SweepsForward
  <2>3. Forward(h)
    BY <1>6, <2>1, <2>2
  <2> QED BY <2>3 DEF h
<1> QED BY <1>2, <1>3, <1>4, <1>5, <1>6

LEMMA LoweredForward ==
  ASSUME NEW g, LoweredGraph(g), Branches(g)
  PROVE  Forward(g)
<1>1. IsGraph(g) /\ Len(g) \in Nat
  BY LoweredIsGraph, GraphFacts
<1>2. ASSUME NEW id \in 1..Len(g) PROVE ForwardNode(g, id)
  <2>1. LoweredNode(g[id], id) /\ BranchNode(g, id)
    BY DEF LoweredGraph, Branches
  <2>2. g[id].in \in Seq(Nat) /\ g[id].kind \in LoweredKinds
    BY <2>1 DEF LoweredNode, Nodes
  <2>3. \A x \in 1..Len(g) : ~Dead(g, x) /\ g[x].kind \notin {"Loop", "Jump", "CheckBounds", "CheckNotNull"}
    <3>1. \A x \in 1..Len(g) : "IsDead" \notin g[x].flags /\ g[x].kind \in LoweredKinds
      BY DEF LoweredGraph, LoweredNode, Nodes
    <3>2. \A kind \in LoweredKinds : kind \notin {"Loop", "Jump", "CheckBounds", "CheckNotNull"}
      BY DEF LoweredKinds, PureLowered, EffectLowered, BranchLowered, IntKinds, BitKinds, EffectOps,
         ObjectKinds
    <3> QED BY <3>1, <3>2 DEF Dead, Has
  <2>4. \A k \in 1..Len(g[id].in) : Usable(g, g[id].in[k], id)
    <3> DEFINE in == g[id].in
    <3>1. \A k \in 1..Len(in) : in[k] \in Values(g) /\ in[k] \in 1..id - 1
      BY <2>1 DEF BranchNode, LoweredNode
    <3> HIDE DEF in
    <3>2. \A k \in 1..Len(in) : Usable(g, in[k], id)
      BY <2>3, <3>1 DEF Values, Usable
    <3> QED BY <3>2 DEF in
  <2>5. g[id].kind \in {"IfTrue", "IfFalse"} =>
          ~Dead(g, id) /\ Has(g, id, "Control") /\ ~Has(g, id, "Pure")
    <3>1. \A kind \in {"IfTrue", "IfFalse"} : "Control" \in KindFlags(kind) /\ "Pure" \notin KindFlags(kind)
      BY DEF KindFlags, ControlKinds, PureKinds, CommutativeKinds, BitKinds, Conversions, IntKinds
    <3> QED BY <2>1, <2>3, <3>1 DEF BranchNode, Has
  <2>6. g[id].kind \notin {"Loop", "Jump"}
    BY <2>3
  <2> QED BY <2>1, <2>2, <2>4, <2>5, <2>6 DEF BranchNode, ForwardNode
<1> QED BY <1>1, <1>2 DEF Forward

(* A graph built by hand may have ways back; what a lowerer builds never has.   *)
OnlyForward == method = NoCode => Forward(source)

ForwardOK ==
  /\ lower.status = "lowering" => Tidy(graph, lower)
  /\ lower.status = "lowered" /\ done <= Len(RubyPipeline) /\ OnlyForward => Forward(graph)

LEMMA ForwardInit ==
  ASSUME Init
  PROVE  ForwardOK
<1>1. CASE \E m \in Methods : method = m.code /\ LowerInit(m.locals, m.args) /\ source = graph
  <2>1. PICK m \in Methods : method = m.code /\ LowerInit(m.locals, m.args)
    BY <1>1
  <2>2. Tidy(graph, lower)
    BY <2>1, MethodsAreCode, TidyInit
  <2>3. lower.status = "lowering"
    BY <2>1 DEF LowerInit
  <2> QED BY <2>2, <2>3 DEF ForwardOK
<1>2. CASE method = NoCode /\ source = graph /\ lower.status = "lowered"
  BY <1>2 DEF ForwardOK, OnlyForward
<1>3. \/ \E m \in Methods : method = m.code /\ LowerInit(m.locals, m.args) /\ source = graph
      \/ method = NoCode /\ source = graph /\ lower.status = "lowered"
  <2> DEFINE first == \E m \in Methods : method = m.code /\ LowerInit(m.locals, m.args) /\ source = graph
  <2>1. CASE first
    BY <2>1
  <2>2. CASE ~first
    <3> HIDE DEF first
    <3>1. first \/ (/\ method = NoCode /\ source = graph
                   /\ lower = [pc |-> 0, stack |-> <<>>, locals |-> <<>>, ctrl |-> 1, eff |-> 1,
                               status |-> "lowered"])
      BY DEF Init, first
    <3>2. /\ method = NoCode /\ source = graph
          /\ lower = [pc |-> 0, stack |-> <<>>, locals |-> <<>>, ctrl |-> 1, eff |-> 1,
                      status |-> "lowered"]
      BY <2>2, <3>1
    <3>3. lower.status = "lowered"
      BY <3>2
    <3> QED BY <3>2, <3>3
  <2> QED BY <2>1, <2>2
<1> QED BY <1>1, <1>2, <1>3

LEMMA ForwardStep ==
  ASSUME LoweringOK, ForwardOK, OptimizerOK, [Next]_vars
  PROVE  ForwardOK'
<1>1. CASE Lower
  <2>1. method \in Seq(Instructions) /\ (LowerNext \/ CilLowerNext)
    BY <1>1 DEF LoweringOK, Lower
  <2>2. lower.status = "lowering"
    BY <2>1 DEF LowerNext, CilLowerNext, Lowering, LowerConst, LowerLoad, LowerStore, LowerIinc,
       LowerStackOp, LowerPure, LowerEffect, LowerIf, LowerGoto, LowerReturn, LowerSwitch, LowerEnd,
       LowerLdC, LowerLdLoc, LowerStLoc, LowerCilStack, LowerCilPure, LowerObject, LowerBr,
       LowerBrIf, LowerBrCmp, LowerRet, LowerUnsupported
  <2>3. LowererOK(method, graph, lower) /\ Tidy(graph, lower)
    BY <2>2 DEF LoweringOK, ForwardOK
  <2>4. CASE LowerEnd
    <3>1. Forward(graph')
      BY <2>3, <2>4, EndTidy, LoweredForward
    <3>2. lower'.status = "lowered"
      BY <2>3, <2>4, EndStep
    <3> QED BY <3>1, <3>2 DEF ForwardOK
  <2>5. CASE Advanced /\ ~LowerEnd
    <3>1. Tidy(graph', lower') /\ lower'.status = "lowering"
      BY <2>1, <2>3, <2>5, TidyStep DEF Advanced
    <3> QED BY <3>1 DEF ForwardOK
  <2>6. CASE Failed
    <3>1. lower'.status = "failed"
      BY <2>3, <2>6 DEF Failed, LowererOK
    <3> QED BY <3>1 DEF ForwardOK
  <2> QED BY <2>1, <2>3, <2>4, <2>5, <2>6, LowerStep
<1>2. CASE Optimize
  <2> DEFINE pass == RubyPipeline[done + 1]
  <2>1. /\ lower.status = "lowered" /\ done < Len(RubyPipeline) /\ graph' = Run(pass, graph)
        /\ done' = done + 1 /\ lower' = lower /\ method' = method /\ source' = source
    BY <1>2 DEF Optimize
  <2>2. done \in 0..18 /\ pass \in {RubyPipeline[k] : k \in 1..Len(RubyPipeline)}
    BY <2>1, PipelineLengths DEF OptimizerOK
  <2>3. OnlyForward => Forward(graph')
    <3> SUFFICES ASSUME OnlyForward PROVE Forward(graph')
      OBVIOUS
    <3>1. Forward(graph)
      BY <2>1, <2>2, PipelineLengths DEF ForwardOK
    <3> HIDE DEF pass
    <3>2. Forward(Run(pass, graph))
      BY <2>2, <3>1, RubyKeepsForward
    <3> QED BY <2>1, <3>2
  <2>4. OnlyForward' <=> OnlyForward
    BY <2>1 DEF OnlyForward
  <2> QED BY <2>1, <2>3, <2>4 DEF ForwardOK
<1>3. CASE CompilePeak
  <2>1. done' = Len(DiamondPipeline) /\ lower' = lower /\ lower.status = "lowered"
    BY <1>3 DEF CompilePeak
  <2> QED BY <2>1, PipelineLengths DEF ForwardOK
<1>4. CASE Call \/ Interpret \/ PassTraps \/ UNCHANGED vars
  <2>1. /\ lower' = lower /\ graph' = graph /\ done' = done /\ method' = method
        /\ source' = source
    BY <1>4 DEF Call, Interpret, PassTraps, vars, lowerVars, pipeVars
  <2> QED BY <2>1 DEF ForwardOK, OnlyForward
<1> QED BY <1>1, <1>2, <1>3, <1>4 DEF Next

LEMMA AlwaysForward == Spec => []ForwardOK
<1>1. Init => ForwardOK
  BY ForwardInit
<1>2. LoweringOK /\ OptimizerOK /\ ForwardOK /\ [Next]_vars => ForwardOK'
  BY ForwardStep
<1> QED BY <1>1, <1>2, LoweringAlwaysOK, OptimizerAlwaysOK, PTL DEF Spec

LEMMA EmittedIsForward ==
  ASSUME ForwardOK, OnlyForward, Emitted
  PROVE  Forward(graph)
BY PipelineLengths DEF ForwardOK, Emitted, Compiled

(* Whatever method is compiled, as it was lowered or after the RUBY tier, and   *)
(* whichever graph without ways back is given: a block that does not end in a   *)
(* branch is followed by the block that it runs into, where the emitter leaves  *)
(* out the jump.                                                                *)
THEOREM FallThroughIsAlwaysAdjacent ==
  Spec => [](OnlyForward => FallThroughIsAdjacent)
<1>1. ForwardOK => (OnlyForward => FallThroughIsAdjacent)
  <2> SUFFICES ASSUME ForwardOK, OnlyForward, Emitted
               PROVE  FallsToNext(graph)
    BY DEF FallThroughIsAdjacent, FallsToNext
  <2> QED BY EmittedIsForward, ForwardFallsToNext
<1> QED BY <1>1, AlwaysForward, PTL

(* In the same graphs a value is computed, in the order of the emitted code,    *)
(* before it is used.                                                           *)
THEOREM OperandsAlwaysComeFirst ==
  Spec => [](OnlyForward => OperandsComeFirst)
<1>1. ForwardOK => (OnlyForward => OperandsComeFirst)
  <2> SUFFICES ASSUME ForwardOK, OnlyForward, Emitted
               PROVE  OperandsBefore(graph)
    BY DEF OperandsComeFirst, OperandsBefore
  <2> QED BY EmittedIsForward, ForwardOperandsBefore
<1> QED BY <1>1, AlwaysForward, PTL

-----------------------------------------------------------------------------
(* The values of a lowered graph and what it shows.                             *)

LEMMA ValueIsInt ==
  ASSUME NEW n \in Nodes, Shaped(n), NEW e \in Int, NEW in, \A k \in 1..Len(n.in) : in[k] \in Int
  PROVE  NodeValue(n.kind, n.val, e, in) \in Int
<1> DEFINE kind == n.kind
           v == NodeValue(kind, n.val, e, in)
<1>1. n.val \in Int
  BY DEF Nodes
<1>2. CASE kind \in ConstKinds
  BY <1>1, <1>2 DEF NodeValue
<1>3. CASE kind \notin ConstKinds /\ kind \in GivenKinds
  BY <1>3 DEF NodeValue
<1>4. CASE kind \notin ConstKinds /\ kind \notin GivenKinds /\ kind \in BinaryKinds
  <2>1. in[1] \in Int /\ in[2] \in Int
    BY <1>4 DEF Shaped
  <2>2. v = IF Traps(kind, in[1], in[2]) THEN 0 ELSE Arith(kind, in[1], in[2])
    BY <1>4 DEF NodeValue
  <2>3. ~Traps(kind, in[1], in[2]) => Arith(kind, in[1], in[2]) \in Int
    BY <1>4, <2>1, ArithIsInt
  <2> QED BY <2>2, <2>3
<1>5. CASE kind \notin ConstKinds /\ kind \notin GivenKinds /\ kind \notin BinaryKinds
  <2>1. kind \in {"Neg", "ConvI4", "ConvI8"} => in[1] \in Int
    BY DEF Shaped
  <2>2. kind = "Neg" => v = Wrap64(-in[1])
    BY <1>5 DEF NodeValue
  <2>3. kind = "ConvI4" => v = Wrap32(in[1])
    BY <1>5 DEF NodeValue
  <2>6. ASSUME in[1] \in Int PROVE Wrap64(-in[1]) \in Int /\ Wrap32(in[1]) \in Int
    <3>1. -in[1] \in Int
      BY <2>6
    <3> QED BY <2>6, <3>1, WrappedIsInt
  <2>4. kind = "ConvI8" => v = in[1]
    BY <1>5 DEF NodeValue
  <2>5. kind \notin {"Neg", "ConvI4", "ConvI8"} => v = 0
    BY <1>5 DEF NodeValue
  <2> HIDE DEF v, kind
  <2>7. v \in Int
    BY <2>1, <2>2, <2>3, <2>4, <2>5, <2>6
  <2> QED BY <2>7 DEF v, kind
<1> QED BY <1>2, <1>3, <1>4, <1>5

ValueOf(src, env, V, id) == NodeValue(src[id].kind, src[id].val, env[id], Reads(src, V, id))

SeenAt(src, V, O, id) ==
  IF src[id].kind \in ObservableKinds
    THEN Append(O[id - 1], Witnessed(src[id].kind, Reads(src, V, id))) ELSE O[id - 1]

ValuedTo(src, env, V, O, n) ==
  /\ O[0] = <<>>
  /\ \A id \in 1..n : /\ V[id] = ValueOf(src, env, V, id) /\ V[id] \in Int
                      /\ O[id] = SeenAt(src, V, O, id)

Valued(src, env, V, O) == ValuedTo(src, env, V, O, Len(src))

(* Operands come first, so that a node reads the same from two sets of values   *)
(* that agree before it.                                                        *)
LEMMA ReadsBefore ==
  ASSUME NEW src, LoweredGraph(src), NEW id \in 1..Len(src), NEW V, NEW W,
         \A x \in 1..id - 1 : W[x] = V[x]
  PROVE  /\ Reads(src, W, id) = Reads(src, V, id)
         /\ \A k \in 1..Len(src[id].in) : src[id].in[k] \in 1..id - 1 /\ Reads(src, V, id)[k] = V[src[id].in[k]]
<1> DEFINE in == src[id].in
<1>1. LoweredNode(src[id], id)
  BY DEF LoweredGraph
<1>2. in \in Seq(Nat) /\ \A k \in 1..Len(in) : in[k] \in 1..id - 1
  BY <1>1 DEF LoweredNode, Nodes
<1> HIDE DEF in
<1>3. DOMAIN in = 1..Len(in)
  BY <1>2, LenProperties
<1>4. \A k \in DOMAIN in : W[in[k]] = V[in[k]]
  BY <1>2, <1>3
<1>5. Reads(src, W, id) = [k \in DOMAIN in |-> W[in[k]]] /\ Reads(src, V, id) = [k \in DOMAIN in |-> V[in[k]]]
  BY DEF Reads, in
<1> QED BY <1>2, <1>3, <1>4, <1>5 DEF in

LEMMA ValuesFound ==
  ASSUME NEW src, ShapedGraph(src), NEW env, \A id \in 1..Len(src) : env[id] \in Int
  PROVE  \E V, O : Valued(src, env, V, O)
<1> DEFINE n == Len(src)
           T == {m \in Nat : \E V, O : ValuedTo(src, env, V, O, m)}
<1>1. n \in Nat /\ LoweredGraph(src)
  BY LenProperties DEF ShapedGraph, LoweredGraph
<1>2. 0 \in T
  <2> DEFINE O == [x \in Nat |-> <<>>]
  <2>1. O[0] = <<>> /\ 1..0 = {}
    OBVIOUS
  <2>2. ValuedTo(src, env, O, O, 0)
    BY <2>1 DEF ValuedTo
  <2> QED BY <2>2
<1>3. ASSUME NEW m \in 0..n - 1, m \in T PROVE m + 1 \in T
  <2> DEFINE id == m + 1
  <2>1. id \in 1..Len(src) /\ id \in Nat /\ id - 1 = m /\ m \in Nat
    BY <1>1
  <2>2. PICK V, O : ValuedTo(src, env, V, O, m)
    BY <1>3
  <2> HIDE DEF id
  <2> DEFINE v == ValueOf(src, env, V, id)
             o == SeenAt(src, V, O, id)
             W == [x \in Nat |-> IF x = id THEN v ELSE V[x]]
             P == [x \in Nat |-> IF x = id THEN o ELSE O[x]]
  <2>3. /\ W[id] = v /\ P[id] = o /\ P[0] = O[0] /\ P[id - 1] = O[id - 1]
        /\ \A x \in 1..id - 1 : W[x] = V[x] /\ P[x] = O[x] /\ P[x - 1] = O[x - 1]
    <3>1. id # 0 /\ id - 1 # id /\ id - 1 \in Nat
      BY <2>1
    <3>2. \A x \in 1..id - 1 : x \in Nat /\ x # id /\ x - 1 \in Nat /\ x - 1 # id
      BY <2>1
    <3> QED BY <2>1, <3>1, <3>2
  <2> HIDE DEF W, P
  <2>4. ASSUME NEW x \in 1..id PROVE Reads(src, W, x) = Reads(src, V, x)
    <3>1. x \in 1..Len(src) /\ \A y \in 1..x - 1 : y \in 1..id - 1
      BY <2>1
    <3>2. \A y \in 1..x - 1 : W[y] = V[y]
      BY <2>3, <3>1
    <3> QED BY <1>1, <3>1, <3>2, ReadsBefore
  <2>5. ASSUME NEW x \in 1..id - 1
        PROVE  W[x] = ValueOf(src, env, W, x) /\ W[x] \in Int /\ P[x] = SeenAt(src, W, P, x)
    <3>1. x \in 1..m /\ x \in 1..id
      BY <2>1
    <3>2. V[x] = ValueOf(src, env, V, x) /\ V[x] \in Int /\ O[x] = SeenAt(src, V, O, x)
      BY <2>2, <3>1 DEF ValuedTo
    <3>3. Reads(src, W, x) = Reads(src, V, x)
      BY <2>4, <3>1
    <3> QED BY <2>3, <3>2, <3>3 DEF ValueOf, SeenAt
  <2>6. W[id] = ValueOf(src, env, W, id) /\ P[id] = SeenAt(src, W, P, id)
    <3>1. id \in 1..id
      BY <2>1
    <3>2. Reads(src, W, id) = Reads(src, V, id)
      BY <2>4, <3>1
    <3> QED BY <2>3, <3>2 DEF ValueOf, SeenAt
  <2>7. W[id] \in Int
    <3> DEFINE in == Reads(src, V, id)
    <3>1. src[id] \in Nodes /\ Shaped(src[id]) /\ env[id] \in Int
      BY <2>1 DEF ShapedGraph, LoweredGraph, LoweredNode
    <3>2. \A k \in 1..Len(src[id].in) : src[id].in[k] \in 1..id - 1 /\ in[k] = V[src[id].in[k]]
      BY <1>1, <2>1, ReadsBefore
    <3>3. \A x \in 1..id - 1 : V[x] \in Int
      BY <2>1, <2>2 DEF ValuedTo
    <3>4. \A k \in 1..Len(src[id].in) : in[k] \in Int
      BY <3>2, <3>3
    <3> HIDE DEF in
    <3>5. NodeValue(src[id].kind, src[id].val, env[id], in) \in Int
      BY <3>1, <3>4, ValueIsInt
    <3> QED BY <2>3, <3>5 DEF ValueOf, in
  <2>8. \A x \in 1..id : x \in 1..id - 1 \/ x = id
    BY <2>1
  <2>9. P[0] = <<>>
    BY <2>2, <2>3 DEF ValuedTo
  <2>10. ValuedTo(src, env, W, P, id)
    BY <2>5, <2>6, <2>7, <2>8, <2>9 DEF ValuedTo
  <2> QED BY <2>1, <2>10 DEF id
<1>4. n \in T
  <2> HIDE DEF T, n
  <2>1. 0..n \subseteq T
    BY ONLY <1>1, <1>2, <1>3, PrefixInduction
  <2> QED BY <1>1, <2>1
<1> QED BY <1>4 DEF Valued

-----------------------------------------------------------------------------
(* A graph that agrees with the one it was made of: each node is of its kind,   *)
(* or the tail call of it, and reads the same values; what has no effect may be *)
(* dead; more checks may follow; and every effect but the last has another one  *)
(* after it on the chain.                                                       *)
Marks == {"IsConst", "IsDead", "IsScheduled", "IsCold", "HasTypeNarrowing"}

Kindred(s, n, V) ==
  /\ n.kind = s.kind \/ (s.kind = "CallVirt" /\ n.kind = "TailCall")
  /\ s.flags \subseteq n.flags /\ n.flags \subseteq s.flags \cup Marks
  /\ s.kind \in ConstKinds => n.val = s.val
  /\ s.kind = "Return" => "IsDead" \notin n.flags
  /\ DOMAIN n.in = DOMAIN s.in /\ Len(n.in) = Len(s.in)
  /\ \A k \in DOMAIN s.in : V[n.in[k]] = V[s.in[k]]

Added(n) ==
  n.kind = "CheckClass" /\ "Control" \in n.flags /\ "Pure" \notin n.flags /\ "IsDead" \notin n.flags

Agrees(src, g, V) ==
  /\ Len(src) <= Len(g)
  /\ \A id \in 1..Len(src) : Kindred(src[id], g[id], V)
  /\ \A id \in Len(src) + 1..Len(g) : Added(g[id])
  /\ Linked(src, g)

(* In a graph that the verifier takes, no effect of the source is dead.         *)
LEMMA EffectsLive ==
  ASSUME NEW src, Len(src) \in Nat, NEW g, Len(g) \in Nat, NEW V, Agrees(src, g, V), Verified(g)
  PROVE  \A x \in 1..Len(src) : Has(src, x, "Effect") => ~Dead(g, x)
<1> DEFINE T == {x \in 1..Len(src) : Has(src, x, "Effect") /\ Dead(g, x)}
<1> SUFFICES ASSUME T # {} PROVE FALSE
  OBVIOUS
<1>1. PICK x \in T : \A y \in T : y <= x
  <2>1. T \subseteq 0..Len(src)
    OBVIOUS
  <2> HIDE DEF T
  <2> QED BY <2>1, GreatestNat
<1>2. x \in 1..Len(src) /\ Has(src, x, "Effect") /\ Dead(g, x) /\ Len(src) <= Len(g) /\ x \in 1..Len(g)
  BY DEF Agrees
<1>3. Kindred(src[x], g[x], V)
  BY <1>2 DEF Agrees
<1>4. src[x].kind # "Return"
  BY <1>2, <1>3 DEF Kindred, Dead, Has
<1>5. PICK y \in 1..Len(g) : Chains(src, g, x, y)
  BY <1>2, <1>4 DEF Agrees, Linked
<1>6. x < y /\ g[y].eff = x /\ (y > Len(src) \/ Has(src, y, "Effect"))
  BY <1>5 DEF Chains
<1>7. ~Dead(g, y)
  <2>1. CASE y > Len(src)
    <3>1. y \in Len(src) + 1..Len(g)
      BY <2>1
    <3> QED BY <3>1 DEF Agrees, Added, Dead, Has
  <2>2. CASE y <= Len(src) /\ Has(src, y, "Effect")
    <3>1. ~(y <= x)
      BY <1>2, <1>6
    <3>2. y \notin T
      BY <1>1, <3>1
    <3> QED BY <2>2, <3>2
  <2> QED BY <1>2, <1>6, <2>1, <2>2
<1>8. x \in References(g, y)
  BY <1>2, <1>6 DEF References, NoId
<1>9. x \in DeadButReferenced(g)
  BY <1>2, <1>6, <1>7, <1>8 DEF DeadButReferenced, Live, Ids
<1> QED BY <1>9 DEF Verified

LEMMA KindOfEffects ==
  ASSUME NEW n, Shaped(n)
  PROVE  n.kind \in ObservableKinds \cup {"Throw"} => "Effect" \in n.flags
BY DEF Shaped, KindFlags, ObservableKinds, EffectKinds, LeavingKinds

(* Such a graph computes the same.                                              *)
LEMMA AgreeingMeans ==
  ASSUME NEW src, ShapedGraph(src), NEW env, NEW V, NEW O, Valued(src, env, V, O),
         NEW g, Forward(g), Agrees(src, g, V),
         \A x \in 1..Len(src) : Has(src, x, "Effect") => ~Dead(g, x),
         NEW f \in 1..Len(src), ~Dead(g, f), Leaves(src[f].kind, Reads(src, V, f)),
         \A id \in 1..f - 1 : ~Dead(g, id) => ~Leaves(src[id].kind, Reads(src, V, id))
  PROVE  /\ Means(g, env, V, O, f)
         /\ EndValue(g[f].kind, Reads(g, V, f)) = EndValue(src[f].kind, Reads(src, V, f))
<1>1. Len(src) \in Nat /\ Len(g) \in Nat /\ Len(src) <= Len(g) /\ LoweredGraph(src)
  BY LenProperties, GraphFacts DEF ShapedGraph, LoweredGraph, Forward, Agrees
<1>2. ASSUME NEW id \in 1..Len(src)
      PROVE  /\ g[id].kind = src[id].kind \/ (src[id].kind = "CallVirt" /\ g[id].kind = "TailCall")
             /\ src[id].kind \in ConstKinds => g[id].val = src[id].val
             /\ Reads(g, V, id) = Reads(src, V, id)
  <2>1. Kindred(src[id], g[id], V)
    BY DEF Agrees
  <2>2. [k \in DOMAIN g[id].in |-> V[g[id].in[k]]] = [k \in DOMAIN src[id].in |-> V[src[id].in[k]]]
    BY <2>1 DEF Kindred
  <2> QED BY <2>1, <2>2 DEF Kindred, Reads
<1>3. "CallVirt" \in ObservableKinds /\ "TailCall" \in ObservableKinds
      /\ Observed("CallVirt") = "CallVirt" /\ Observed("TailCall") = "CallVirt"
      /\ "CallVirt" \notin ConstKinds \cup EndKinds \cup LocalKinds \cup BinaryKinds
      /\ "TailCall" \notin ConstKinds \cup EndKinds \cup LocalKinds \cup BinaryKinds
      /\ {"Div", "Mod"} \subseteq BinaryKinds
  BY DEF ObservableKinds, Observed, ConstKinds, EndKinds, LocalKinds, BinaryKinds
<1>4. ASSUME NEW id \in 1..f - 1 PROVE Plain(g, env, V, O, id)
  <2>1. id \in 1..Len(src) /\ id \in 1..Len(g)
    BY <1>1
  <2> DEFINE in == Reads(src, V, id)
             a == src[id].kind
             b == g[id].kind
  <2>2. /\ V[id] = NodeValue(a, src[id].val, env[id], in)
        /\ O[id] = IF a \in ObservableKinds THEN Append(O[id - 1], Witnessed(a, in)) ELSE O[id - 1]
    BY <2>1 DEF Valued, ValuedTo, ValueOf, SeenAt
  <2>3. /\ b = a \/ (a = "CallVirt" /\ b = "TailCall")
        /\ a \in ConstKinds => g[id].val = src[id].val
        /\ Reads(g, V, id) = in
    BY <1>2, <2>1
  <2>5. CASE Dead(g, id)
    <3>1. ~Has(src, id, "Effect") /\ Shaped(src[id])
      BY <2>1, <2>5 DEF ShapedGraph
    <3>2. a \notin ObservableKinds
      BY <3>1, KindOfEffects DEF Has
    <3> QED BY <2>2, <2>5, <3>2 DEF Plain
  <2>6. CASE ~Dead(g, id)
    <3>0. ~Leaves(a, in)
      BY <2>6
    <3>1. a \notin LocalKinds \cup {"Jump"}
      <4>1. src[id].kind \in LoweredKinds
        BY <1>1, <2>1 DEF LoweredGraph, LoweredNode, Nodes
      <4> QED BY <4>1 DEF LoweredKinds, PureLowered, EffectLowered, EffectOps, ObjectKinds, BranchLowered,
                          IntKinds, LocalKinds
    <3>2. NodeValue(b, g[id].val, env[id], in) = NodeValue(a, src[id].val, env[id], in)
      <4>1. CASE a \in ConstKinds
        BY <1>3, <2>3, <4>1
      <4>2. CASE a \notin ConstKinds
        <5>1. b \notin ConstKinds
          BY <1>3, <2>3, <4>2
        <5>2. CASE b = a
          BY <4>2, <5>2 DEF NodeValue
        <5>3. CASE a = "CallVirt" /\ b = "TailCall"
          BY <1>3, <5>3 DEF NodeValue, GivenKinds
        <5> QED BY <2>3, <5>2, <5>3
      <4> QED BY <4>1, <4>2
    <3>3. Witnessed(b, in) = Witnessed(a, in) /\ (b \in ObservableKinds <=> a \in ObservableKinds)
      BY <1>3, <2>3 DEF Witnessed
    <3>4. ~Leaves(b, in) /\ b \notin LocalKinds \cup {"Jump"}
      BY <1>3, <2>3, <3>0, <3>1 DEF Leaves, Traps
    <3> HIDE DEF in, a, b
    <3>5. /\ V[id] = NodeValue(b, g[id].val, env[id], in)
          /\ O[id] = IF b \in ObservableKinds THEN Append(O[id - 1], Witnessed(b, in)) ELSE O[id - 1]
      BY <2>2, <3>2, <3>3
    <3> QED BY <2>3, <2>6, <3>4, <3>5 DEF Plain, b
  <2> QED BY <2>5, <2>6
<1>5. f \in 1..Len(src) /\ f \in Live(g)
  BY <1>1 DEF Live, Ids
<1>6. g[f].kind = src[f].kind /\ Reads(g, V, f) = Reads(src, V, f)
  BY <1>2, <1>3 DEF Leaves, Traps
<1>7. O[0] = <<>>
  BY DEF Valued, ValuedTo
<1>8. Leaves(g[f].kind, Reads(g, V, f))
  BY <1>6
<1> QED BY <1>4, <1>5, <1>6, <1>7, <1>8 DEF Means

LEMMA AgreesWithItself ==
  ASSUME NEW src, ShapedGraph(src), Linked(src, src), NEW V
  PROVE  Agrees(src, src, V)
<1>1. Len(src) \in Nat /\ \A id \in 1..Len(src) : LoweredNode(src[id], id)
  BY LenProperties DEF ShapedGraph, LoweredGraph
<1>2. \A id \in 1..Len(src) : Kindred(src[id], src[id], V)
  BY <1>1 DEF Kindred, LoweredNode
<1>3. \A id \in Len(src) + 1..Len(src) : FALSE
  BY <1>1
<1> QED BY <1>1, <1>2, <1>3 DEF Agrees

LEMMA SameMeaning ==
  ASSUME NEW src, ShapedGraph(src), Forward(src), Linked(src, src),
         \E r \in 1..Len(src) : src[r].kind = "Return",
         NEW env, NEW V, NEW O, Valued(src, env, V, O),
         NEW g, Forward(g), Verified(g), Agrees(src, g, V), NEW fuel \in Nat, Len(src) <= fuel
  PROVE  LET before == MachineRun(src, env, fuel)
             after == MachineRun(g, env, fuel)
         IN  before.result # <<"trap">> => after.result = before.result /\ after.obs = before.obs
<1> DEFINE before == MachineRun(src, env, fuel)
           after == MachineRun(g, env, fuel)
           T == {x \in 1..Len(src) : Leaves(src[x].kind, Reads(src, V, x))}
<1>1. Len(src) \in Nat /\ Len(g) \in Nat /\ \A id \in 1..Len(src) : LoweredNode(src[id], id)
  BY LenProperties, GraphFacts DEF ShapedGraph, LoweredGraph, Forward
<1>2. PICK f \in T : \A x \in T : f <= x
  <2>1. PICK r \in 1..Len(src) : src[r].kind = "Return"
    OBVIOUS
  <2>2. r \in T
    BY <2>1 DEF Leaves, EndKinds
  <2>3. T \subseteq Nat /\ T # {}
    BY <2>2
  <2> HIDE DEF T
  <2> QED BY <2>3, LeastNat
<1>3. f \in 1..Len(src) /\ f <= fuel /\ f \in Nat /\ Leaves(src[f].kind, Reads(src, V, f))
  BY <1>1
<1>4. \A id \in 1..f - 1 : ~Leaves(src[id].kind, Reads(src, V, id))
  <2> SUFFICES ASSUME NEW id \in 1..f - 1, Leaves(src[id].kind, Reads(src, V, id)) PROVE FALSE
    OBVIOUS
  <2>1. id \in 1..Len(src) /\ ~(f <= id)
    BY <1>1, <1>3
  <2>2. id \in T
    BY <2>1
  <2> QED BY <1>2, <2>1, <2>2
<1> HIDE DEF T
<1>5. Agrees(src, src, V) /\ \A x \in 1..Len(src) : ~Dead(src, x)
  BY <1>1, AgreesWithItself DEF LoweredNode, Dead, Has
<1>6. Means(src, env, V, O, f)
  BY <1>3, <1>4, <1>5, AgreeingMeans
<1>7. before.result = EndValue(src[f].kind, Reads(src, V, f)) /\ before.obs = O[f - 1]
  BY <1>3, <1>6, MeansRun
<1>8. \A x \in 1..Len(src) : Has(src, x, "Effect") => ~Dead(g, x)
  BY <1>1, EffectsLive
<1> HIDE DEF before, after
<1>9. ASSUME before.result # <<"trap">> PROVE after.result = before.result /\ after.obs = before.obs
  <2>1. src[f].kind \in EndKinds
    BY <1>7, <1>9 DEF EndValue, EndKinds
  <2>2. ~Dead(g, f)
    <3>1. CASE src[f].kind = "Return"
      <4>1. Kindred(src[f], g[f], V)
        BY <1>3 DEF Agrees
      <4> QED BY <3>1, <4>1 DEF Kindred, Dead, Has
    <3>2. CASE src[f].kind = "Throw"
      <4>1. Shaped(src[f])
        BY <1>3 DEF ShapedGraph
      <4>2. Has(src, f, "Effect")
        BY <3>2, <4>1, KindOfEffects DEF Has
      <4> QED BY <1>3, <1>8, <4>2
    <3> QED BY <2>1, <3>1, <3>2 DEF EndKinds
  <2>3. Means(g, env, V, O, f) /\ EndValue(g[f].kind, Reads(g, V, f)) = EndValue(src[f].kind, Reads(src, V, f))
    BY <1>3, <1>4, <1>8, <2>2, AgreeingMeans
  <2>4. after.result = EndValue(g[f].kind, Reads(g, V, f)) /\ after.obs = O[f - 1]
    BY <1>3, <2>3, MeansRun DEF after
  <2> QED BY <1>7, <2>3, <2>4
<1> QED BY <1>9 DEF before, after

-----------------------------------------------------------------------------
(* The passes keep the agreement.  Most of them leave a node's kind and inputs  *)
(* as they are.                                                                 *)
Keeps(n, m) ==
  /\ m.kind = n.kind /\ m.in = n.in /\ m.eff = n.eff
  /\ n.kind \in ConstKinds => m.val = n.val
  /\ n.flags \subseteq m.flags /\ m.flags \subseteq n.flags \cup Marks
  /\ "IsDead" \in m.flags => "IsDead" \in n.flags \/ n.kind \notin {"Return", "CheckClass"}

KeepsAll(g, h) == IsGraph(h) /\ Len(h) = Len(g) /\ \A id \in 1..Len(g) : Keeps(g[id], h[id])

LEMMA KeptOfKept ==
  ASSUME NEW g, NEW h, KeepsAll(g, h), NEW x, KeepsAll(h, x)
  PROVE  KeepsAll(g, x)
<1>1. ASSUME NEW id \in 1..Len(g) PROVE Keeps(g[id], x[id])
  <2>1. Keeps(g[id], h[id]) /\ Keeps(h[id], x[id])
    BY DEF KeepsAll
  <2> QED BY <2>1 DEF Keeps
<1> QED BY <1>1 DEF KeepsAll

LEMMA KeptByItself ==
  ASSUME NEW g, IsGraph(g)
  PROVE  KeepsAll(g, g)
BY DEF KeepsAll, Keeps

LEMMA KeptAgrees ==
  ASSUME NEW src, NEW g, NEW V, Agrees(src, g, V), NEW h, KeepsAll(g, h),
         Len(src) \in Nat, Len(g) \in Nat
  PROVE  Agrees(src, h, V)
<1>1. Len(src) <= Len(g) /\ Len(h) = Len(g) /\ \A id \in 1..Len(g) : Keeps(g[id], h[id])
  BY DEF Agrees, KeepsAll
<1>2. ASSUME NEW id \in 1..Len(src) PROVE Kindred(src[id], h[id], V)
  <2>1. id \in 1..Len(g) /\ Kindred(src[id], g[id], V)
    BY <1>1 DEF Agrees
  <2>2. Keeps(g[id], h[id])
    BY <1>1, <2>1
  <2> DEFINE s == src[id]
             n == g[id]
             m == h[id]
  <2> HIDE DEF s, n, m
  <2>3. Kindred(s, n, V) /\ Keeps(n, m)
    BY <2>1, <2>2 DEF s, n, m
  <2>4. s.kind \in ConstKinds => n.kind = s.kind /\ m.val = s.val
    BY <2>3 DEF Kindred, Keeps, ConstKinds
  <2>5. s.kind = "Return" => n.kind = "Return" /\ "IsDead" \notin m.flags
    BY <2>3 DEF Kindred, Keeps
  <2>6. s.flags \subseteq m.flags /\ m.flags \subseteq s.flags \cup Marks
    BY <2>3 DEF Kindred, Keeps
  <2>7. m.in = n.in /\ m.kind = n.kind
    BY <2>3 DEF Keeps
  <2>8. Kindred(s, m, V)
    BY <2>3, <2>4, <2>5, <2>6, <2>7 DEF Kindred
  <2> QED BY <2>8 DEF s, m
<1>3. ASSUME NEW id \in Len(src) + 1..Len(h) PROVE Added(h[id])
  <2>1. id \in 1..Len(g) /\ id \in Len(src) + 1..Len(g)
    BY <1>1
  <2>2. Keeps(g[id], h[id]) /\ Added(g[id])
    BY <1>1, <2>1 DEF Agrees
  <2> QED BY <2>2 DEF Keeps, Added, Marks
<1>4. Linked(src, h)
  <2> SUFFICES ASSUME NEW x \in 1..Len(src), Has(src, x, "Effect"), src[x].kind # "Return"
               PROVE  \E y \in 1..Len(h) : Chains(src, h, x, y)
    BY DEF Linked
  <2>1. PICK y \in 1..Len(g) : Chains(src, g, x, y)
    BY DEF Agrees, Linked
  <2>2. h[y].eff = g[y].eff /\ y \in 1..Len(h)
    BY <1>1 DEF Keeps
  <2> QED BY <2>1, <2>2 DEF Chains
<1> QED BY <1>1, <1>2, <1>3, <1>4 DEF Agrees

(* A flag on some nodes.                                                        *)
LEMMA FlaggedKept ==
  ASSUME NEW g, IsGraph(g), NEW ids, NEW flag \in Marks,
         flag = "IsDead" => \A id \in ids : g[id].kind \notin {"Return", "CheckClass"}
  PROVE  KeepsAll(g, SetFlag(g, ids, flag))
<1> DEFINE h == SetFlag(g, ids, flag)
<1>1. flag \in Flags
  BY DEF Marks, Flags
<1>2. Flagged(g, h, ids, flag)
  BY <1>1, SetFlagMarks
<1> HIDE DEF h
<1>3. ASSUME NEW id \in 1..Len(g) PROVE Keeps(g[id], h[id])
  <2>1. h[id].flags = IF id \in ids THEN g[id].flags \cup {flag} ELSE g[id].flags
    BY <1>2 DEF Flagged
  <2>2. h[id].kind = g[id].kind /\ h[id].in = g[id].in /\ h[id].eff = g[id].eff /\ h[id].val = g[id].val
    BY <1>2 DEF Flagged
  <2>3. "IsDead" \in h[id].flags => "IsDead" \in g[id].flags \/ g[id].kind \notin {"Return", "CheckClass"}
    BY <2>1
  <2>4. g[id].flags \subseteq h[id].flags /\ h[id].flags \subseteq g[id].flags \cup Marks
    BY <2>1
  <2> QED BY <2>2, <2>3, <2>4 DEF Keeps
<1> QED BY <1>2, <1>3 DEF KeepsAll, Flagged, h

(* A constant beside some nodes, none of which is one.                          *)
MarksOthers(g, h) ==
  /\ h = [id \in Ids(g) |-> h[id]]
  /\ \A id \in Ids(g) : \/ h[id] = g[id]
                        \/ g[id].kind \notin ConstKinds /\ \E v : h[id] \in {Mark(g[id], v), MarkInt(g[id], v)}

LEMMA MarkedKept ==
  ASSUME NEW g, IsGraph(g), NEW h, MarksOthers(g, h)
  PROVE  KeepsAll(g, h)
<1>1. Ids(g) = 1..Len(g) /\ \A id \in 1..Len(g) : GraphNode(g[id])
  BY GraphFacts DEF IsGraph
<1>2. IsGraph(h) /\ Len(h) = Len(g)
  <2>1. h = [id \in Ids(g) |-> h[id]]
    BY DEF MarksOthers
  <2>2. \A id \in Ids(g) : h[id] = g[id] \/ \E v : h[id] \in {Mark(g[id], v), MarkInt(g[id], v)}
    BY DEF MarksOthers
  <2> QED BY ONLY <2>1, <2>2, MarksAGraph, IsGraph(g)
<1>3. ASSUME NEW id \in 1..Len(g) PROVE Keeps(g[id], h[id])
  <2>1. CASE h[id] = g[id]
    BY <2>1 DEF Keeps
  <2>2. ASSUME g[id].kind \notin ConstKinds, NEW v, h[id] \in {Mark(g[id], v), MarkInt(g[id], v)}
        PROVE  Keeps(g[id], h[id])
    <3>1. GraphNode(g[id])
      BY <1>1
    <3>2. /\ h[id].flags = g[id].flags \cup {"IsConst"} /\ h[id].kind = g[id].kind
          /\ h[id].in = g[id].in /\ h[id].eff = g[id].eff
      BY <2>2, <3>1, MarkedNode
    <3>3. "IsDead" \in h[id].flags => "IsDead" \in g[id].flags
      BY <3>2
    <3> QED BY <2>2, <3>2, <3>3 DEF Keeps, Marks
  <2> QED BY <1>1, <2>1, <2>2 DEF MarksOthers
<1> QED BY <1>2, <1>3 DEF KeepsAll

LEMMA SimplificationMarksOthers ==
  ASSUME NEW g
  PROVE  MarksOthers(g, AlgebraicSimplification(g))
<1> DEFINE h == AlgebraicSimplification(g)
<1>1. h = [id \in Ids(g) |-> IF id \in Pure(g) /\ Len(g[id].in) = 2
                               THEN Simplified(g, g[id]) ELSE g[id]]
  BY DEF AlgebraicSimplification
<1>2. ASSUME NEW n, n.kind \in ConstKinds PROVE Simplified(g, n) = n
  BY <1>2 DEF Simplified, ConstKinds
<1>3. ASSUME NEW id \in Ids(g), g[id].kind \in ConstKinds PROVE h[id] = g[id]
  BY <1>1, <1>2, <1>3
<1> HIDE DEF h
<1> QED BY <1>3, SimplificationMarks DEF MarksOthers, h

LEMMA SCCPMarksOthers ==
  ASSUME NEW g, \A id \in 1..Len(g) : g[id].kind \in ConstKinds => Has(g, id, "IsConst")
  PROVE  MarksOthers(g, SCCP(g))
<1> DEFINE h == SCCP(g)
           value == Lattice(g)
           found == {id \in Pure(g) : value[id][1] = "const" /\ ~Has(g, id, "IsConst")}
<1>1. h = [id \in Ids(g) |-> IF id \in found THEN MarkInt(g[id], value[id][2]) ELSE g[id]]
  BY DEF SCCP
<1>2. ASSUME NEW id \in Ids(g), g[id].kind \in ConstKinds PROVE h[id] = g[id]
  <2>1. id \notin found
    BY <1>2 DEF Ids
  <2> HIDE DEF h, found, value
  <2> QED BY <1>1, <2>1
<1> HIDE DEF h
<1> QED BY <1>2, SCCPMarks DEF MarksOthers, h

LEMMA FoldingMarksOthers ==
  ASSUME NEW g
  PROVE  MarksOthers(g, ConstantFolding(g))
<1> DEFINE h == ConstantFolding(g)
           folded == CHOOSE folded : folded = [id \in Ids(g) |-> FoldNode(g, folded, id)]
<1>1. h = [id \in Ids(g) |-> FoldNode(g, folded, id)]
  BY DEF ConstantFolding
<1> HIDE DEF h, folded
<1>2. ASSUME NEW id, g[id].kind \in ConstKinds PROVE FoldNode(g, folded, id) = g[id]
  BY <1>2 DEF FoldNode, ConstKinds, BinaryKinds
<1> QED BY <1>1, <1>2, FoldingMarks DEF MarksOthers, h

LEMMA PeepholeMarksOthers ==
  ASSUME NEW g
  PROVE  MarksOthers(g, Peephole(g))
<1> DEFINE h == Peephole(g)
           shifts == {id \in OfKind(g, {"Mul"}) :
                        /\ Len(g[id].in) = 2
                        /\ Valid(g, g[id].in[2]) /\ g[g[id].in[2]].kind = "ConstInt"
                        /\ IsPowerOfTwo(g[g[id].in[2]].val)}
           value(id) == Log2(g[g[id].in[2]].val)
<1>1. h = [id \in Ids(g) |-> IF id \in shifts THEN Mark(g[id], value(id)) ELSE g[id]]
  BY DEF Peephole, ShiftsInstead
<1>2. ASSUME NEW id \in Ids(g), g[id].kind \in ConstKinds PROVE h[id] = g[id]
  <2>1. id \notin shifts
    BY <1>2 DEF OfKind, ConstKinds
  <2> HIDE DEF h, shifts, value
  <2> QED BY <1>1, <2>1
<1> HIDE DEF h
<1> QED BY <1>2, PeepholeMarks DEF MarksOthers, h

(* The passes that set a flag.                                                  *)
FlagPasses == {"ControlFlowSimplification", "TypeNarrowing", "LICM", "LoopPeeling", "BCE", "NCE", "GCM",
               "ProfileGuidedBlockReorder"}

Flaggable(g, ids, flag) ==
  flag \in Marks \ {"IsConst"} /\ (flag = "IsDead" => \A id \in ids : g[id].kind \notin {"Return", "CheckClass"})

LEMMA FlagPassesFlag ==
  ASSUME NEW g, NEW pass \in FlagPasses
  PROVE  \E ids, flag : Run(pass, g) = SetFlag(g, ids, flag) /\ Flaggable(g, ids, flag)
<1>1. {"IsDead", "HasTypeNarrowing", "IsScheduled", "IsCold"} \subseteq Marks \ {"IsConst"}
  BY DEF Marks
<1>2. ASSUME NEW ids, NEW flag \in {"HasTypeNarrowing", "IsScheduled", "IsCold"}
      PROVE  Flaggable(g, ids, flag)
  BY <1>1 DEF Flaggable
<1>3. ASSUME NEW ids, NEW kinds, \A id \in ids : id \in OfKind(g, kinds),
             kinds \cap {"Return", "CheckClass"} = {}
      PROVE  Flaggable(g, ids, "IsDead")
  BY <1>1, <1>3 DEF Flaggable, OfKind
<1>4. CASE pass = "ControlFlowSimplification"
  <2> DEFINE ids == {id \in OfKind(g, {"If"}) : Len(g[id].in) = 1 /\ Conditions(g, id) # {}}
  <2>1. Run(pass, g) = SetFlag(g, ids, "IsDead")
    BY <1>4 DEF Run, ControlFlowSimplification
  <2>2. \A id \in ids : id \in OfKind(g, {"If"})
    OBVIOUS
  <2> HIDE DEF ids
  <2> QED BY <1>3, <2>1, <2>2
<1>5. CASE pass = "TypeNarrowing"
  <2>1. \E ids : Run(pass, g) = SetFlag(g, ids, "HasTypeNarrowing")
    BY <1>5 DEF Run, TypeNarrowing
  <2> QED BY <1>2, <2>1
<1>6. CASE pass = "LICM"
  <2>1. Run(pass, g) = LICM(g)
    BY <1>6 DEF Run
  <2>2. \E ids : LICM(g) = SetFlag(g, ids, "IsScheduled")
    BY DEF LICM
  <2> QED BY <1>2, <2>1, <2>2
<1>7. CASE pass = "LoopPeeling"
  <2>1. Run(pass, g) = LoopPeeling(g)
    BY <1>7 DEF Run
  <2>2. \E ids : LoopPeeling(g) = SetFlag(g, ids, "IsScheduled")
    BY DEF LoopPeeling
  <2> QED BY <1>2, <2>1, <2>2
<1>8. CASE pass = "BCE"
  <2> DEFINE ids == {id \in OfKind(g, {"CheckBounds"}) :
                       Len(g[id].in) = 2 /\ InBounds(g, g[id].in[1], g[id].in[2])}
  <2>1. Run(pass, g) = SetFlag(g, ids, "IsDead")
    BY <1>8 DEF Run, BCE
  <2>2. \A id \in ids : id \in OfKind(g, {"CheckBounds"})
    OBVIOUS
  <2> HIDE DEF ids
  <2> QED BY <1>3, <2>1, <2>2
<1>9. CASE pass = "NCE"
  <2> DEFINE ids == {id \in OfKind(g, {"CheckNotNull"}) :
                       g[id].in # <<>> /\ Valid(g, g[id].in[1])
                       /\ g[g[id].in[1]].kind \in NonNullKinds}
  <2>1. Run(pass, g) = SetFlag(g, ids, "IsDead")
    BY <1>9 DEF Run, NCE
  <2>2. \A id \in ids : id \in OfKind(g, {"CheckNotNull"})
    OBVIOUS
  <2> HIDE DEF ids
  <2> QED BY <1>3, <2>1, <2>2
<1>10. CASE pass = "GCM"
  <2>1. Run(pass, g) = GCM(g)
    BY <1>10 DEF Run
  <2>2. \E ids : GCM(g) = SetFlag(g, ids, "IsCold")
    BY DEF GCM
  <2> QED BY <1>2, <2>1, <2>2
<1>11. CASE pass = "ProfileGuidedBlockReorder"
  <2>1. Run(pass, g) = ProfileGuidedBlockReorder(g)
    BY <1>11 DEF Run
  <2>2. \E ids : ProfileGuidedBlockReorder(g) = SetFlag(g, ids, "IsCold")
    BY DEF ProfileGuidedBlockReorder
  <2> QED BY <1>2, <2>1, <2>2
<1> QED BY <1>4, <1>5, <1>6, <1>7, <1>8, <1>9, <1>10, <1>11 DEF FlagPasses

LEMMA FlagPassesKeep ==
  ASSUME NEW g, IsGraph(g), NEW pass \in FlagPasses
  PROVE  KeepsAll(g, Run(pass, g))
<1>1. PICK ids, flag : Run(pass, g) = SetFlag(g, ids, flag) /\ Flaggable(g, ids, flag)
  BY FlagPassesFlag
<1>2. KeepsAll(g, SetFlag(g, ids, flag))
  BY <1>1, FlaggedKept DEF Flaggable
<1> QED BY <1>1, <1>2

(* EscapeAnalysis: allocations.                                                 *)
LEMMA EscapeKeeps ==
  ASSUME NEW g, IsGraph(g)
  PROVE  KeepsAll(g, EscapeAnalysis(g))
<1> DEFINE n == Len(g)
           A == OfKind(g, AllocationKinds)
           q == InOrder(A, n)
           m == Len(q)
<1>1. n \in Nat
  BY GraphFacts
<1>2. m \in Nat /\ DOMAIN q = 1..m /\ \A k \in 1..m : q[k] \in A
  <2>1. q \in Seq(A \cap (1..n))
    BY <1>1, InOrderEnumerates DEF Enumerates
  <2> HIDE DEF q, A
  <2> QED BY <2>1
<1>3. PICK f : Steps(f, "EscapeAnalysis", g, q) /\ f[m] = EscapeAnalysis(g)
  BY <1>2, EscapeSteps
<1>4. \A id \in A : id \in 1..n /\ g[id].kind \notin {"Return", "CheckClass"}
  BY DEF OfKind, AllocationKinds, Live, Ids
<1> DEFINE T == {f[k] : k \in {k \in 0..m : KeepsAll(g, f[k])}}
<1> HIDE DEF q, n, m, A
<1>5. g \in T
  BY <1>2, <1>3, KeptByItself DEF Steps
<1>6. ASSUME NEW h, KeepsAll(g, h), NEW id \in A PROVE KeepsAll(g, MarkDead(h, id))
  <2>1. "IsDead" \in Marks
    BY DEF Marks
  <2>2. Keeps(g[id], h[id]) /\ IsGraph(h)
    BY <1>4, <1>6 DEF KeepsAll, n
  <2>3. \A i \in {id} : h[i].kind \notin {"Return", "CheckClass"}
    BY <1>4, <2>2 DEF Keeps
  <2>4. KeepsAll(h, MarkDead(h, id))
    BY <2>1, <2>2, <2>3, FlaggedKept DEF MarkDead
  <2> QED BY <1>6, <2>4, KeptOfKept
<1>7. ASSUME NEW k \in 1..m, f[k - 1] \in T PROVE FoldStep("EscapeAnalysis", f[k - 1], q[k]) \in T
  <2>1. KeepsAll(g, f[k - 1]) /\ k \in 0..m /\ q[k] \in A
    BY <1>2, <1>7
  <2>2. f[k] = EscapeStep(f[k - 1], q[k])
    BY <1>3, FoldStepOf DEF Steps, m
  <2>3. KeepsAll(g, f[k])
    BY <1>6, <2>1, <2>2 DEF EscapeStep
  <2>4. f[k] = FoldStep("EscapeAnalysis", f[k - 1], q[k])
    BY <2>2, FoldStepOf
  <2> QED BY <2>1, <2>3, <2>4
<1>8. f[m] \in T
  <2> HIDE DEF T
  <2> QED BY <1>2, <1>3, <1>5, <1>7, StepsKeep DEF m
<1> QED BY <1>3, <1>8

(* DeadCodeElimination: neither a Return nor a check.                           *)
SparesChecks(g) == \A id \in 1..Len(g) : g[id].kind = "CheckClass" => Has(g, id, "Control")

LEMMA SweepStepKeeps ==
  ASSUME NEW h, IsGraph(h), SparesChecks(h)
  PROVE  KeepsAll(h, SweepStep(h))
<1>1. "IsDead" \in Marks
  BY DEF Marks
<1>2. \A id \in Removable(h) : h[id].kind \notin {"Return", "CheckClass"}
  BY DEF Removable, Live, Ids, SparesChecks, HasExternalSideEffects
<1>3. KeepsAll(h, SetFlag(h, Removable(h), "IsDead"))
  BY <1>1, <1>2, FlaggedKept
<1> QED BY <1>3, KeptByItself DEF SweepStep

LEMMA SweepKeeps ==
  ASSUME NEW g, IsGraph(g), SparesChecks(g)
  PROVE  KeepsAll(g, DeadCodeElimination(g))
<1> DEFINE n == Len(g)
           q == Ascending(g)
<1>1. n \in Nat /\ Len(q) = n
  BY GraphFacts, AscendingFacts
<1>2. PICK f : Steps(f, "DeadCodeElimination", g, q) /\ f[n] = DeadCodeElimination(g)
  BY <1>1, SweepSteps
<1> HIDE DEF q, n
<1>3. ASSUME NEW h, KeepsAll(g, h) PROVE KeepsAll(g, SweepStep(h))
  <2>1. IsGraph(h) /\ SparesChecks(h)
    BY <1>3 DEF KeepsAll, Keeps, SparesChecks, Has
  <2>2. KeepsAll(h, SweepStep(h))
    BY <2>1, SweepStepKeeps
  <2> QED BY <1>3, <2>2, KeptOfKept
<1> DEFINE T == {f[k] : k \in {k \in 0..n : KeepsAll(g, f[k])}}
<1>4. g \in T
  BY <1>1, <1>2, KeptByItself DEF Steps
<1>5. ASSUME NEW k \in 1..Len(q), f[k - 1] \in T
      PROVE  FoldStep("DeadCodeElimination", f[k - 1], q[k]) \in T
  <2>1. KeepsAll(g, f[k - 1]) /\ k \in 0..n
    BY <1>1, <1>5
  <2>2. f[k] = SweepStep(f[k - 1]) /\ f[k] = FoldStep("DeadCodeElimination", f[k - 1], q[k])
    BY <1>2, FoldStepOf DEF Steps
  <2>3. KeepsAll(g, f[k])
    BY <1>3, <2>1, <2>2
  <2> QED BY <2>1, <2>2, <2>3
<1>6. f[n] \in T
  <2> HIDE DEF T
  <2> QED BY <1>1, <1>2, <1>4, <1>5, StepsKeep
<1> QED BY <1>2, <1>6

(* TailCallElimination: of the calls, a lowered graph has CallVirt alone.       *)
LEMMA TailCallsAgree ==
  ASSUME NEW src, LoweredGraph(src), NEW g, IsGraph(g), NEW V, Agrees(src, g, V)
  PROVE  Agrees(src, TailCallElimination(g), V)
<1> DEFINE h == TailCallElimination(g)
           calls == TailCalls(g)
<1>1. Len(g) \in Nat /\ Ids(g) = 1..Len(g) /\ Len(src) <= Len(g) /\ Len(src) \in Nat
  BY GraphFacts, LenProperties DEF Agrees, LoweredGraph
<1>2. Len(h) = Len(g)
  BY TailCallsGraph
<1>3. \A id \in 1..Len(g) : h[id] = IF id \in calls THEN [g[id] EXCEPT !.kind = "TailCall"] ELSE g[id]
  BY <1>1 DEF TailCallElimination
<1>4. \A id \in calls : g[id].kind \in {"Call", "CallVirt", "CallKnown"}
  BY DEF TailCalls
<1> HIDE DEF h, calls
<1>5. \A id \in 1..Len(g) : GraphNode(g[id])
  BY DEF IsGraph
<1>6. ASSUME NEW id \in 1..Len(g)
      PROVE  /\ h[id].in = g[id].in /\ h[id].flags = g[id].flags /\ h[id].val = g[id].val
             /\ h[id].eff = g[id].eff
             /\ h[id].kind = IF id \in calls THEN "TailCall" ELSE g[id].kind
  <2> DEFINE m == g[id]
             x == [m EXCEPT !.kind = "TailCall"]
  <2>1. GraphNode(m) /\ h[id] = IF id \in calls THEN x ELSE m
    BY <1>3, <1>5
  <2> HIDE DEF m
  <2>2. /\ x.in = m.in /\ x.flags = m.flags /\ x.val = m.val /\ x.eff = m.eff
        /\ x.kind = "TailCall"
    BY <2>1 DEF GraphNode
  <2> HIDE DEF x
  <2>3. /\ h[id].in = m.in /\ h[id].flags = m.flags /\ h[id].val = m.val /\ h[id].eff = m.eff
        /\ h[id].kind = IF id \in calls THEN "TailCall" ELSE m.kind
    BY <2>1, <2>2
  <2> QED BY <2>3 DEF m
<1>7. ASSUME NEW id \in 1..Len(src) PROVE Kindred(src[id], h[id], V)
  <2>1. id \in 1..Len(g) /\ Kindred(src[id], g[id], V)
    BY <1>1 DEF Agrees
  <2>2. src[id].kind \in LoweredKinds
    BY DEF LoweredGraph, LoweredNode, Nodes
  <2>3. src[id].kind \notin {"Call", "CallKnown", "TailCall"}
    BY <2>2 DEF LoweredKinds, PureLowered, EffectLowered, EffectOps, ObjectKinds, BranchLowered, IntKinds
  <2>4. id \in calls => src[id].kind = "CallVirt"
    BY <1>4, <2>1, <2>3 DEF Kindred
  <2> DEFINE s == src[id]
             n == g[id]
             m == h[id]
  <2>5. /\ m.in = n.in /\ m.flags = n.flags /\ m.val = n.val
        /\ m.kind = n.kind \/ (s.kind = "CallVirt" /\ m.kind = "TailCall")
    BY <1>6, <2>1, <2>4
  <2> HIDE DEF s, n, m
  <2>6. Kindred(s, n, V)
    BY <2>1 DEF s, n
  <2>7. Kindred(s, m, V)
    BY <2>5, <2>6 DEF Kindred
  <2> QED BY <2>7 DEF s, m
<1>8. ASSUME NEW id \in Len(src) + 1..Len(h) PROVE Added(h[id])
  <2>1. id \in 1..Len(g) /\ id \in Len(src) + 1..Len(g)
    BY <1>1, <1>2
  <2>2. Added(g[id])
    BY <2>1 DEF Agrees
  <2> QED BY <1>4, <1>6, <2>1, <2>2 DEF Added
<1>9. Linked(src, h)
  <2> SUFFICES ASSUME NEW x \in 1..Len(src), Has(src, x, "Effect"), src[x].kind # "Return"
               PROVE  \E y \in 1..Len(h) : Chains(src, h, x, y)
    BY DEF Linked
  <2>1. PICK y \in 1..Len(g) : Chains(src, g, x, y)
    BY DEF Agrees, Linked
  <2>2. h[y].eff = g[y].eff /\ y \in 1..Len(h)
    BY <1>2, <1>6
  <2> QED BY <2>1, <2>2 DEF Chains
<1> QED BY <1>1, <1>2, <1>7, <1>8, <1>9 DEF Agrees, h

(* ICStubEmission: the check takes the place of the call on the chain.          *)
LEMMA StubAgrees ==
  ASSUME NEW src, Len(src) \in Nat, NEW h, IsGraph(h), NEW V, Agrees(src, h, V), NEW id \in 1..Len(h)
  PROVE  Agrees(src, StubStep(h, id), V)
<1> DEFINE n == Len(h)
           e == n + 1
           check == NewNode("CheckClass", <<h[id].in[1]>>, h[id].ctrl, h[id].eff)
           x == StubStep(h, id)
<1>1. /\ IsGraph(x) /\ Len(x) = e /\ x[e] = check /\ x[id] = [h[id] EXCEPT !.eff = e]
      /\ \A k \in 1..n : k # id => x[k] = h[k]
  BY StubGraph
<1>2. n \in Nat /\ Len(src) <= n /\ \A k \in 1..n : GraphNode(h[k])
  BY GraphFacts DEF IsGraph, Agrees
<1>3. check.eff = h[id].eff /\ check.kind = "CheckClass" /\ check.flags = KindFlags("CheckClass")
  BY NewNodeFields
<1> HIDE DEF x, check
<1>4. ASSUME NEW k \in 1..n
      PROVE  /\ x[k].in = h[k].in /\ x[k].flags = h[k].flags /\ x[k].val = h[k].val
             /\ x[k].kind = h[k].kind /\ (k # id => x[k].eff = h[k].eff)
  <2>1. CASE k = id
    <3> DEFINE m == h[id]
               a == [m EXCEPT !.eff = e]
    <3>1. GraphNode(m) /\ x[id] = a
      BY <1>1, <1>2
    <3> HIDE DEF m, e
    <3>2. a.in = m.in /\ a.flags = m.flags /\ a.val = m.val /\ a.kind = m.kind
      BY <3>1 DEF GraphNode
    <3> QED BY <2>1, <3>1, <3>2 DEF m
  <2> QED BY <1>1, <2>1
<1>5. e \in Nat /\ n < e /\ e \in 1..e /\ \A k \in 1..n : k \in 1..e /\ k < e
  BY <1>2
<1>6. \A k \in 1..e : k = e \/ k \in 1..n
  BY <1>2
<1> HIDE DEF e
<1>7. ASSUME NEW k \in 1..Len(src) PROVE Kindred(src[k], x[k], V)
  <2>1. k \in 1..n /\ Kindred(src[k], h[k], V)
    BY <1>2 DEF Agrees
  <2> DEFINE a == h[k]
             b == x[k]
             s == src[k]
  <2>2. b.in = a.in /\ b.flags = a.flags /\ b.val = a.val /\ b.kind = a.kind
    BY <1>4, <2>1
  <2> HIDE DEF a, b, s
  <2>3. Kindred(s, a, V)
    BY <2>1 DEF s, a
  <2>4. Kindred(s, b, V)
    BY <2>2, <2>3 DEF Kindred
  <2> QED BY <2>4 DEF s, b
<1>8. ASSUME NEW k \in Len(src) + 1..Len(x) PROVE Added(x[k])
  <2>1. k \in 1..e /\ k \in Len(src) + 1..e
    BY <1>1, <1>2
  <2>2. CASE k = e
    BY <1>1, <1>3, <2>2 DEF Added, KindFlags, ControlKinds, Checks, PureKinds, CommutativeKinds, Conversions
  <2>3. CASE k \in 1..n
    <3>1. k \in Len(src) + 1..n
      BY <1>2, <2>1, <2>3
    <3>2. Added(h[k])
      BY <3>1 DEF Agrees
    <3> QED BY <1>4, <2>3, <3>2 DEF Added
  <2> QED BY <1>6, <2>1, <2>2, <2>3
<1>9. Linked(src, x)
  <2> SUFFICES ASSUME NEW y \in 1..Len(src), Has(src, y, "Effect"), src[y].kind # "Return"
               PROVE  \E z \in 1..Len(x) : Chains(src, x, y, z)
    BY DEF Linked
  <2>1. PICK z \in 1..n : Chains(src, h, y, z)
    BY DEF Agrees, Linked
  <2>2. CASE z # id
    <3>1. x[z].eff = h[z].eff /\ z \in 1..Len(x)
      BY <1>1, <1>4, <1>5, <2>1, <2>2
    <3> QED BY <2>1, <3>1 DEF Chains
  <2>3. CASE z = id
    <3>1. x[e].eff = y /\ y < e /\ e > Len(src)
      <4>1. h[id].eff = y
        BY <2>1, <2>3 DEF Chains
      <4> QED BY <1>1, <1>2, <1>3, <1>5, <4>1
    <3>2. e \in 1..Len(x) /\ Chains(src, x, y, e)
      BY <1>1, <1>5, <3>1 DEF Chains
    <3> QED BY <3>2
  <2> QED BY <2>2, <2>3
<1>10. Len(src) <= Len(x)
  BY <1>1, <1>2, <1>5
<1> QED BY <1>7, <1>8, <1>9, <1>10 DEF Agrees, x

LEMMA StubsAgree ==
  ASSUME NEW src, Len(src) \in Nat, NEW g, IsGraph(g), NEW V, Agrees(src, g, V)
  PROVE  Agrees(src, ICStubEmission(g), V)
<1> DEFINE n == Len(g)
           q == InOrder(Checked(g), n)
           m == Len(q)
<1>1. n \in Nat
  BY GraphFacts
<1>2. m \in Nat /\ DOMAIN q = 1..m /\ \A k \in 1..m : q[k] \in 1..n
  <2>1. q \in Seq(Checked(g) \cap (1..n))
    BY <1>1, InOrderEnumerates DEF Enumerates
  <2> HIDE DEF q
  <2> QED BY <2>1
<1>3. PICK f : Steps(f, "ICStubEmission", g, q) /\ f[m] = ICStubEmission(g)
  BY <1>2, StubSteps
<1> DEFINE Fine(h) == IsGraph(h) /\ Len(h) >= n /\ Agrees(src, h, V)
           T == {f[k] : k \in {k \in 0..m : Fine(f[k])}}
<1> HIDE DEF q, n, m
<1>4. g \in T
  BY <1>1, <1>2, <1>3 DEF Steps, n
<1>5. ASSUME NEW k \in 1..m, f[k - 1] \in T PROVE FoldStep("ICStubEmission", f[k - 1], q[k]) \in T
  <2> DEFINE b == f[k - 1]
             l == Len(b)
  <2>1. IsGraph(b) /\ l >= n /\ k \in 0..m /\ l \in Nat /\ Agrees(src, b, V)
    BY <1>2, <1>5, GraphFacts
  <2>2. f[k] = StubStep(b, q[k])
    BY <1>3, FoldStepOf DEF Steps, m
  <2> HIDE DEF b
  <2>3. q[k] \in 1..Len(b)
    BY <1>1, <1>2, <2>1
  <2> DEFINE x == StubStep(b, q[k])
  <2>4. IsGraph(x) /\ Len(x) = l + 1
    BY <2>1, <2>3, StubGraph
  <2>5. Agrees(src, x, V)
    BY <2>1, <2>3, StubAgrees
  <2> HIDE DEF x
  <2>6. Len(x) >= n
    BY <1>1, <2>1, <2>4
  <2>7. Fine(f[k])
    BY <2>2, <2>4, <2>5, <2>6 DEF x
  <2>8. f[k] = FoldStep("ICStubEmission", f[k - 1], q[k])
    BY <2>2, FoldStepOf DEF b
  <2> HIDE DEF Fine
  <2> QED BY <2>1, <2>7, <2>8
<1>6. f[m] \in T
  <2> HIDE DEF T
  <2> QED BY <1>2, <1>3, <1>4, <1>5, StepsKeep DEF m
<1> QED BY <1>3, <1>6

(* CSE and GVN.  A signature tells the value of a pure node, if all incoming    *)
(* locals have the value p and all constants that are no integers the value c,  *)
(* of which it says nothing.                                                    *)
Uniform(src, env, p, c) ==
  \A id \in 1..Len(src) : /\ src[id].kind = "Phi" => env[id] = p
                          /\ src[id].kind = "ConstFloat" => src[id].val = c

SigValue(V, p, c, sig) ==
  NodeValue(sig.kind, IF sig.kind = "ConstFloat" THEN c ELSE sig.val, p, [k \in DOMAIN sig.in |-> V[sig.in[k]]])

LEMMA PureLoweredKinds ==
  ASSUME NEW kind \in PureLowered
  PROVE  /\ kind \in GivenKinds => kind = "Phi"
         /\ kind \notin {"CallVirt", "Return", "CheckClass"}
         /\ "Commutative" \in KindFlags(kind) => kind \in CommutativeKinds /\ kind \in BinaryKinds \ {"Div", "Mod"}
<1>1. kind \notin EffectKinds
  BY DEF PureLowered, IntKinds, EffectKinds, LeavingKinds, CheckedConversions
<1>2. kind \notin ObservableKinds
  BY DEF PureLowered, IntKinds, ObservableKinds
<1>3. kind \notin {"CallVirt", "Return", "CheckClass"}
  BY DEF PureLowered, IntKinds
<1>4. "Commutative" \in KindFlags(kind) => kind \in CommutativeKinds
  BY DEF KindFlags
<1>5. kind \in CommutativeKinds => kind \in BinaryKinds \ {"Div", "Mod"}
  BY DEF CommutativeKinds, BinaryKinds
<1> QED BY <1>1, <1>2, <1>3, <1>4, <1>5 DEF GivenKinds, UnknownKinds

(* Pure nodes of a graph that agrees are pure nodes of the source.              *)
LEMMA PureInSource ==
  ASSUME NEW src, ShapedGraph(src), NEW g, Len(g) \in Nat, NEW V, Agrees(src, g, V),
         NEW id \in 1..Len(g), Has(g, id, "Pure")
  PROVE  /\ id \in 1..Len(src) /\ Kindred(src[id], g[id], V) /\ Shaped(src[id])
         /\ src[id].kind \in PureLowered /\ g[id].kind = src[id].kind
         /\ "Commutative" \in g[id].flags <=> "Commutative" \in KindFlags(src[id].kind)
         /\ src[id].kind = "ConstInt" => "IsConst" \in g[id].flags
<1>1. Len(src) \in Nat /\ Len(src) <= Len(g)
  BY LenProperties DEF ShapedGraph, LoweredGraph, Agrees
<1>2. id \in 1..Len(src)
  <2> SUFFICES ASSUME id \notin 1..Len(src) PROVE FALSE
    OBVIOUS
  <2>1. id \in Len(src) + 1..Len(g)
    BY <1>1
  <2> QED BY <2>1 DEF Agrees, Added, Has
<1>3. Kindred(src[id], g[id], V) /\ Shaped(src[id]) /\ src[id] \in Nodes
  BY <1>2 DEF Agrees, ShapedGraph, LoweredGraph, LoweredNode
<1> DEFINE s == src[id]
           n == g[id]
<1>4. "Pure" \in n.flags
  BY DEF Has
<1> HIDE DEF s, n
<1>5. Kindred(s, n, V) /\ Shaped(s) /\ s.kind \in LoweredKinds
  BY <1>3 DEF s, n, Nodes
<1>6. n.flags \subseteq s.flags \cup Marks /\ s.flags \subseteq n.flags
      /\ s.flags = KindFlags(s.kind) \cup (IF s.kind \in ConstKinds THEN {"IsConst"} ELSE {})
  BY <1>5 DEF Kindred, Shaped
<1>7. "Pure" \notin Marks /\ "Commutative" \notin Marks
  BY DEF Marks
<1>8. "Pure" \in KindFlags(s.kind)
  BY <1>4, <1>6, <1>7
<1>9. s.kind \in PureLowered
  BY <1>5, <1>8, FlagsOfKinds DEF LoweredKinds
<1>10. n.kind = s.kind
  BY <1>5, <1>9, PureLoweredKinds DEF Kindred
<1>11. "Commutative" \in n.flags <=> "Commutative" \in KindFlags(s.kind)
  BY <1>6, <1>7
<1>12. s.kind = "ConstInt" => "IsConst" \in n.flags
  BY <1>6 DEF ConstKinds
<1> QED BY <1>2, <1>3, <1>9, <1>10, <1>11, <1>12 DEF s, n

LEMMA SignatureTells ==
  ASSUME NEW src, ShapedGraph(src), NEW env, NEW V, NEW O, Valued(src, env, V, O),
         NEW p, NEW c, Uniform(src, env, p, c), NEW g, Len(g) \in Nat, Agrees(src, g, V),
         NEW id \in 1..Len(g), Has(g, id, "Pure")
  PROVE  V[id] = SigValue(V, p, c, Signature(g, id))
<1> DEFINE s == src[id]
           n == g[id]
           sig == Signature(g, id)
           kind == s.kind
           in == Reads(src, V, id)
           at == [k \in DOMAIN sig.in |-> V[sig.in[k]]]
           val == IF sig.kind = "ConstFloat" THEN c ELSE sig.val
<1>1. /\ id \in 1..Len(src) /\ Kindred(s, n, V) /\ Shaped(s) /\ kind \in PureLowered /\ n.kind = kind
      /\ "Commutative" \in n.flags <=> "Commutative" \in KindFlags(kind)
      /\ kind = "ConstInt" => "IsConst" \in n.flags
  BY PureInSource
<1>2. V[id] = NodeValue(kind, s.val, env[id], in)
  BY <1>1 DEF Valued, ValuedTo, ValueOf
<1>3. /\ sig.kind = kind
      /\ sig.in = IF "Commutative" \in n.flags THEN MinMax(n.in) ELSE n.in
      /\ sig.val = IF kind = "ConstInt" THEN n.val ELSE 0
  BY <1>1 DEF Signature
<1>4. kind \in ConstKinds => n.val = s.val
  BY <1>1 DEF Kindred
<1>5. kind \in ConstKinds => val = s.val
  <2>1. kind = "ConstFloat" => s.val = c
    BY <1>1 DEF Uniform
  <2> QED BY <1>3, <1>4, <2>1 DEF ConstKinds
<1>6. kind \in GivenKinds => env[id] = p
  BY <1>1, PureLoweredKinds DEF Uniform
<1>7. DOMAIN n.in = DOMAIN s.in /\ \A k \in DOMAIN n.in : V[n.in[k]] = in[k]
  BY <1>1 DEF Kindred, Reads
<1>8. in = [k \in DOMAIN n.in |-> V[n.in[k]]]
  BY <1>7 DEF Reads
<1>9. CASE "Commutative" \notin n.flags \/ MinMax(n.in) = n.in
  <2>1. at = in
    BY <1>3, <1>8, <1>9
  <2> HIDE DEF at, in, val, kind
  <2>2. NodeValue(kind, s.val, env[id], in) = NodeValue(kind, val, p, at)
    BY <1>5, <1>6, <2>1 DEF NodeValue
  <2> QED BY <1>2, <1>3, <2>2 DEF SigValue, at, val
<1>10. CASE "Commutative" \in n.flags /\ MinMax(n.in) # n.in
  <2>1. MinMax(n.in) = <<n.in[2], n.in[1]>> /\ kind \in CommutativeKinds /\ kind \in BinaryKinds \ {"Div", "Mod"}
    BY <1>1, <1>10, PureLoweredKinds DEF MinMax
  <2>2. sig.in = <<n.in[2], n.in[1]>>
    BY <1>3, <1>10, <2>1
  <2>3. at[1] = V[n.in[2]] /\ at[2] = V[n.in[1]]
    BY <2>2
  <2>4. Len(s.in) = 2 /\ DOMAIN s.in = 1..Len(s.in)
    <3>1. s.in \in Seq(Nat)
      BY <1>1 DEF ShapedGraph, LoweredGraph, LoweredNode, Nodes
    <3> QED BY <1>1, <2>1, <3>1, LenProperties DEF Shaped
  <2>5. 1 \in DOMAIN n.in /\ 2 \in DOMAIN n.in
    BY <1>7, <2>4
  <2>6. at[1] = in[2] /\ at[2] = in[1]
    BY <1>7, <2>3, <2>5
  <2>7. in[1] \in Int /\ in[2] \in Int
    <3>1. LoweredGraph(src) /\ \A x \in 1..id - 1 : V[x] = V[x]
      BY DEF ShapedGraph
    <3>2. \A k \in 1..Len(s.in) : s.in[k] \in 1..id - 1 /\ in[k] = V[s.in[k]]
      BY <1>1, <3>1, ReadsBefore
    <3>3. Len(src) \in Nat
      BY <3>1, LenProperties DEF LoweredGraph
    <3>4. \A x \in 1..id - 1 : V[x] \in Int
      <4>1. \A x \in 1..id - 1 : x \in 1..Len(src)
        BY <1>1, <3>3
      <4> QED BY <4>1 DEF Valued, ValuedTo
    <3>5. s.in[1] \in 1..id - 1 /\ in[1] = V[s.in[1]] /\ s.in[2] \in 1..id - 1 /\ in[2] = V[s.in[2]]
      BY <2>4, <3>2
    <3> QED BY <3>4, <3>5
  <2> HIDE DEF in, kind
  <2>8. Arith(kind, in[1], in[2]) = Arith(kind, in[2], in[1])
    BY <2>1, <2>7, ArithCommutes
  <2> HIDE DEF at
  <2>9. kind \notin ConstKinds /\ kind # "Phi" /\ kind \notin GivenKinds
    <3>1. kind \notin ConstKinds /\ kind # "Phi"
      BY <2>1 DEF CommutativeKinds, ConstKinds
    <3> QED BY <1>1, <3>1, PureLoweredKinds
  <2>10. ~Traps(kind, at[1], at[2]) /\ ~Traps(kind, in[1], in[2])
    BY <2>1 DEF Traps
  <2>11. NodeValue(kind, s.val, env[id], in) = Arith(kind, in[1], in[2])
    BY <2>1, <2>9, <2>10 DEF NodeValue
  <2>12. NodeValue(kind, val, p, at) = Arith(kind, in[2], in[1])
    BY <2>1, <2>6, <2>9, <2>10 DEF NodeValue
  <2> QED BY <1>2, <1>3, <2>8, <2>11, <2>12 DEF SigValue, at
<1> QED BY <1>9, <1>10

LEMMA ReplacedAgrees ==
  ASSUME NEW src, LoweredGraph(src), NEW g, IsGraph(g), NEW V, Agrees(src, g, V), NEW old, NEW new, V[old] = V[new]
  PROVE  Agrees(src, ReplaceAllUses(g, old, new), V)
<1> DEFINE h == ReplaceAllUses(g, old, new)
<1>1. Replaced(g, h, old, new)
  BY ReplaceGraph
<1> HIDE DEF h
<1>2. Len(h) = Len(g) /\ Len(src) \in Nat /\ Len(g) \in Nat /\ Len(src) <= Len(g)
  BY <1>1, LenProperties, GraphFacts DEF Replaced, LoweredGraph, Agrees
<1>3. ASSUME NEW id \in 1..Len(src) PROVE Kindred(src[id], h[id], V)
  <2>1. id \in 1..Len(g) /\ Kindred(src[id], g[id], V)
    BY <1>2 DEF Agrees
  <2>2. src[id].in \in Seq(Nat)
    BY DEF LoweredGraph, LoweredNode, Nodes
  <2> DEFINE s == src[id]
             n == g[id]
             m == h[id]
  <2>3. /\ m.in = n.in \/ m.in = Redirected(n.in, old, new)
        /\ m.flags = n.flags /\ m.val = n.val /\ m.kind = n.kind
    BY <1>1, <2>1 DEF Replaced
  <2> HIDE DEF s, n, m
  <2>4. Kindred(s, n, V) /\ s.in \in Seq(Nat)
    BY <2>1, <2>2 DEF s, n
  <2>5. DOMAIN n.in = 1..Len(s.in) /\ DOMAIN s.in = 1..Len(s.in) /\ Len(s.in) \in Nat /\ Len(n.in) = Len(s.in)
    BY <2>4, LenProperties DEF Kindred
  <2> DEFINE r == Redirected(n.in, old, new)
             l == Len(s.in)
  <2>6. r = [k \in 1..l |-> IF n.in[k] = old THEN new ELSE n.in[k]]
    BY <2>5 DEF Redirected
  <2>7. DOMAIN r = 1..l /\ Len(r) = l
    <3>1. l \in Nat
      BY <2>5
    <3> HIDE DEF l, r
    <3> QED BY <2>6, <3>1
  <2>8. \A k \in 1..l : V[r[k]] = V[n.in[k]]
    <3> HIDE DEF l, r
    <3> QED BY <2>6
  <2>12. m.in = n.in \/ m.in = r
    BY <2>3
  <2> HIDE DEF r
  <2>9. DOMAIN m.in = DOMAIN s.in /\ Len(m.in) = Len(s.in)
    BY <2>5, <2>7, <2>12
  <2>10. \A k \in DOMAIN s.in : V[m.in[k]] = V[s.in[k]]
    <3>1. \A k \in DOMAIN s.in : V[n.in[k]] = V[s.in[k]]
      BY <2>4 DEF Kindred
    <3> QED BY <2>5, <2>8, <2>12, <3>1
  <2>11. Kindred(s, m, V)
    BY <2>3, <2>4, <2>9, <2>10 DEF Kindred
  <2> QED BY <2>11 DEF s, m
<1>4. ASSUME NEW id \in Len(src) + 1..Len(h) PROVE Added(h[id])
  <2>1. id \in 1..Len(g) /\ id \in Len(src) + 1..Len(g)
    BY <1>2
  <2>2. Added(g[id])
    BY <2>1 DEF Agrees
  <2>3. h[id].flags = g[id].flags /\ h[id].kind = g[id].kind
    BY <1>1, <2>1 DEF Replaced
  <2> QED BY <2>2, <2>3 DEF Added
<1>5. Linked(src, h)
  <2> SUFFICES ASSUME NEW x \in 1..Len(src), Has(src, x, "Effect"), src[x].kind # "Return"
               PROVE  \E y \in 1..Len(h) : Chains(src, h, x, y)
    BY DEF Linked
  <2>1. PICK y \in 1..Len(g) : Chains(src, g, x, y)
    BY DEF Agrees, Linked
  <2>2. h[y].eff = g[y].eff /\ y \in 1..Len(h)
    BY <1>1, <1>2 DEF Replaced
  <2> QED BY <2>1, <2>2 DEF Chains
<1> QED BY <1>2, <1>3, <1>4, <1>5 DEF Agrees, h

(* The table has signatures of nodes that stay.                                 *)
(* A pure node that goes for another one of the same value.                     *)
LEMMA MergedAgrees ==
  ASSUME NEW src, ShapedGraph(src), NEW g, IsGraph(g), NEW V, Agrees(src, g, V),
         NEW id \in 1..Len(g), Has(g, id, "Pure"), NEW kept, V[id] = V[kept]
  PROVE  Agrees(src, MarkDead(ReplaceAllUses(g, id, kept), id), V)
<1> DEFINE x == ReplaceAllUses(g, id, kept)
           h == MarkDead(x, id)
<1>1. LoweredGraph(src) /\ Len(src) \in Nat
  BY LenProperties DEF ShapedGraph, LoweredGraph
<1>2. Agrees(src, x, V)
  BY <1>1, ReplacedAgrees
<1>3. Replaced(g, x, id, kept)
  BY ReplaceGraph
<1> HIDE DEF x
<1>4. IsGraph(x) /\ Len(x) = Len(g) /\ Len(g) \in Nat /\ x[id].kind = g[id].kind
  BY <1>3, GraphFacts DEF Replaced
<1>5. x[id].kind \notin {"Return", "CheckClass"}
  BY <1>4, PureInSource, PureLoweredKinds
<1>6. "IsDead" \in Marks
  BY DEF Marks
<1>7. \A i \in {id} : x[i].kind \notin {"Return", "CheckClass"}
  BY <1>5
<1>8. KeepsAll(x, h)
  BY <1>4, <1>6, <1>7, FlaggedKept DEF MarkDead
<1> HIDE DEF h
<1>9. Agrees(src, h, V)
  BY <1>1, <1>2, <1>4, <1>8, KeptAgrees
<1> QED BY <1>9 DEF h, x

Tabled(src, V, p, c, s, n) ==
  /\ IsAt(s, n) /\ Agrees(src, s.g, V)
  /\ \A e \in s.table : V[e.id] = SigValue(V, p, c, e.sig)

LEMMA DeduplicateAgrees ==
  ASSUME NEW src, ShapedGraph(src), NEW env, NEW V, NEW O, Valued(src, env, V, O),
         NEW p, NEW c, Uniform(src, env, p, c), NEW s, NEW n \in Nat, Tabled(src, V, p, c, s, n),
         NEW id \in 1..n, Has(s.g, id, "Pure")
  PROVE  Tabled(src, V, p, c, Deduplicate(s, id), n)
<1> DEFINE sig == Signature(s.g, id)
           same == {e \in s.table : e.sig = sig}
           kept == CHOOSE e \in same : TRUE
           x == ReplaceAllUses(s.g, id, kept.id)
           h == MarkDead(x, id)
           entry == [sig |-> sig, id |-> id]
           more == s.table \cup {entry}
<1>1. Deduplicate(s, id) = IF same = {} THEN [s EXCEPT !.table = more] ELSE [s EXCEPT !.g = h]
  BY DEF Deduplicate
<1>2. IsAt(s, n) /\ Agrees(src, s.g, V) /\ IsGraph(s.g) /\ Len(s.g) = n
      /\ s = [g |-> s.g, table |-> s.table]
  BY DEF Tabled, IsAt
<1>3. V[id] = SigValue(V, p, c, sig)
  BY <1>2, SignatureTells
<1>4. IsAt(Deduplicate(s, id), n)
  BY <1>2, DeduplicateGraph
<1>5. CASE same = {}
  <2> HIDE DEF sig, same
  <2>1. Deduplicate(s, id) = [g |-> s.g, table |-> more]
    <3> HIDE DEF more
    <3>1. [s EXCEPT !.table = more] = [g |-> s.g, table |-> more]
      BY <1>2
    <3> QED BY <1>1, <1>5, <3>1
  <2>2. \A e \in more : V[e.id] = SigValue(V, p, c, e.sig)
    <3>1. entry.sig = sig /\ entry.id = id
      OBVIOUS
    <3> HIDE DEF entry
    <3> QED BY <1>3, <3>1 DEF Tabled
  <2> DEFINE d == Deduplicate(s, id)
  <2> HIDE DEF more, d
  <2>3. d.g = s.g /\ d.table = more
    BY <2>1 DEF d
  <2>4. Tabled(src, V, p, c, d, n)
    BY <1>2, <1>4, <2>2, <2>3 DEF Tabled, d
  <2> QED BY <2>4 DEF d
<1>6. CASE same # {}
  <2>1. kept \in same
    BY <1>6
  <2>2. V[kept.id] = V[id]
    <3>1. kept \in s.table /\ kept.sig = sig
      BY <2>1
    <3> HIDE DEF kept, sig
    <3> QED BY <1>3, <3>1 DEF Tabled
  <2> HIDE DEF kept, sig, same
  <2>3. Agrees(src, h, V)
    BY <1>2, <2>2, MergedAgrees
  <2> HIDE DEF h
  <2>4. [s EXCEPT !.g = h] = [g |-> h, table |-> s.table]
    BY <1>2
  <2> DEFINE d == Deduplicate(s, id)
  <2>5. d = [g |-> h, table |-> s.table]
    BY <1>1, <1>6, <2>4
  <2> HIDE DEF d
  <2>6. d.g = h /\ d.table = s.table
    BY <2>5
  <2>7. Tabled(src, V, p, c, d, n)
    BY <1>4, <2>3, <2>6 DEF Tabled, d
  <2> QED BY <2>7 DEF d
<1> QED BY <1>5, <1>6

LEMMA NumberingAgrees ==
  ASSUME NEW src, ShapedGraph(src), NEW env, NEW V, NEW O, Valued(src, env, V, O),
         NEW p, NEW c, Uniform(src, env, p, c), NEW g, IsGraph(g), Agrees(src, g, V)
  PROVE  Agrees(src, GVN(g), V) /\ Agrees(src, CSE(g), V)
<1> DEFINE n == Len(g)
           q == Ascending(g)
           base == NoTable(g)
           Fine(s) == Tabled(src, V, p, c, s, n)
<1>1. n \in Nat /\ Len(q) = n /\ \A k \in 1..n : q[k] = k
  BY GraphFacts, AscendingFacts
<1>2. Fine(base)
  BY DEF Tabled, IsAt, NoTable
<1> HIDE DEF n, base
<1>3. ASSUME NEW s, NEW id \in 1..n, Fine(s) PROVE Fine(GvnStep(s, id)) /\ Fine(CseStep(s, id))
  <2>1. Has(s.g, id, "Pure") => Fine(Deduplicate(s, id))
    BY <1>1, <1>3, DeduplicateAgrees
  <2>2. id \in Pure(s.g) => Has(s.g, id, "Pure")
    BY DEF Pure
  <2> DEFINE t == [s EXCEPT !.table = {}]
  <2>3. Fine(t)
    <3>1. IsAt(s, n) /\ s = [g |-> s.g, table |-> s.table] /\ Agrees(src, s.g, V)
      BY <1>3 DEF Tabled, IsAt
    <3>2. IsAt(t, n)
      BY <3>1, DeduplicateGraph
    <3>3. t.g = s.g /\ t.table = {}
      BY <3>1
    <3> HIDE DEF t
    <3> QED BY <3>1, <3>2, <3>3 DEF Tabled
  <2> HIDE DEF Fine
  <2> QED BY <1>3, <2>1, <2>2, <2>3 DEF GvnStep, CseStep
<1>4. PICK f : Steps(f, "GVN", base, q) /\ f[n].g = GVN(g)
  BY <1>1, GvnSteps DEF n, base
<1>5. PICK h : Steps(h, "CSE", base, q) /\ h[n].g = CSE(g)
  BY <1>1, CseSteps DEF n, base
<1> HIDE DEF q, Fine
<1>6. Fine(f[n])
  <2> DEFINE S == {f[k] : k \in {k \in 0..n : Fine(f[k])}}
  <2>1. base \in S
    BY <1>1, <1>2, <1>4 DEF Steps
  <2>2. ASSUME NEW k \in 1..Len(q), f[k - 1] \in S PROVE FoldStep("GVN", f[k - 1], q[k]) \in S
    <3>1. Fine(f[k - 1]) /\ k \in 0..n /\ q[k] \in 1..n
      BY <1>1, <2>2
    <3>2. f[k] = FoldStep("GVN", f[k - 1], q[k])
      BY <1>4 DEF Steps
    <3>3. Fine(f[k])
      BY <1>3, <3>1, <3>2, FoldStepOf
    <3> QED BY <3>1, <3>2, <3>3
  <2>3. f[Len(q)] \in S
    <3> HIDE DEF S
    <3> QED BY <1>1, <1>4, <2>1, <2>2, StepsKeep
  <2> QED BY <1>1, <2>3
<1>7. Fine(h[n])
  <2> DEFINE S == {h[k] : k \in {k \in 0..n : Fine(h[k])}}
  <2>1. base \in S
    BY <1>1, <1>2, <1>5 DEF Steps
  <2>2. ASSUME NEW k \in 1..Len(q), h[k - 1] \in S PROVE FoldStep("CSE", h[k - 1], q[k]) \in S
    <3>1. Fine(h[k - 1]) /\ k \in 0..n /\ q[k] \in 1..n
      BY <1>1, <2>2
    <3>2. h[k] = FoldStep("CSE", h[k - 1], q[k])
      BY <1>5 DEF Steps
    <3>3. Fine(h[k])
      BY <1>3, <3>1, <3>2, FoldStepOf
    <3> QED BY <3>1, <3>2, <3>3
  <2>3. h[Len(q)] \in S
    <3> HIDE DEF S
    <3> QED BY <1>1, <1>5, <2>1, <2>2, StepsKeep
  <2> QED BY <1>1, <2>3
<1> QED BY <1>4, <1>5, <1>6, <1>7 DEF Fine, Tabled

(* The passes other than the two value numberings, whatever the values are.     *)
LEMMA PlainPassesAgree ==
  ASSUME NEW src, ShapedGraph(src), NEW V, NEW g, IsGraph(g), Agrees(src, g, V),
         NEW pass \in {RubyPipeline[k] : k \in 1..Len(RubyPipeline)} \ {"CSE", "GVN"}
  PROVE  Agrees(src, Run(pass, g), V)
<1> DEFINE Marking == {"AlgebraicSimplification", "SCCP", "ConstantFolding", "Peephole"}
           Others == {"EscapeAnalysis", "Inlining", "TailCallElimination",
                      "ICStubEmission", "DeadCodeElimination"}
           h == Run(pass, g)
<1>1. pass \in FlagPasses \cup Marking \cup Others
  BY DEF RubyPipeline, FlagPasses
<1>2. /\ Len(g) \in Nat /\ Len(src) \in Nat /\ Len(src) <= Len(g) /\ LoweredGraph(src)
  BY GraphFacts, LenProperties DEF ShapedGraph, LoweredGraph, Agrees
<1>3. ASSUME NEW id \in 1..Len(g)
      PROVE  /\ g[id].kind \in ConstKinds => Has(g, id, "IsConst")
             /\ g[id].kind = "CheckClass" => Has(g, id, "Control")
  <2>1. CASE id \in 1..Len(src)
    <3>1. Kindred(src[id], g[id], V) /\ Shaped(src[id])
      BY <2>1 DEF Agrees, ShapedGraph
    <3>2. src[id].kind \in LoweredKinds
      BY <1>2, <2>1 DEF LoweredGraph, LoweredNode, Nodes
    <3>3. src[id].kind # "CheckClass"
      BY <3>2 DEF LoweredKinds, PureLowered, EffectLowered, EffectOps, ObjectKinds, BranchLowered, IntKinds
    <3>4. g[id].kind # "CheckClass"
      BY <3>1, <3>3 DEF Kindred
    <3>5. g[id].kind \in ConstKinds => src[id].kind \in ConstKinds
      BY <3>1 DEF Kindred, ConstKinds
    <3>6. src[id].kind \in ConstKinds => "IsConst" \in src[id].flags
      BY <3>1 DEF Shaped
    <3> QED BY <3>1, <3>4, <3>5, <3>6 DEF Kindred, Has
  <2>2. CASE id \notin 1..Len(src)
    <3>1. id \in Len(src) + 1..Len(g)
      BY <1>2, <2>2
    <3> QED BY <3>1 DEF Agrees, Added, Has, ConstKinds
  <2> QED BY <2>1, <2>2
<1> HIDE DEF h
<1>4. CASE pass \in FlagPasses
  <2>1. KeepsAll(g, h)
    BY <1>4, FlagPassesKeep DEF h
  <2> QED BY <1>2, <2>1, KeptAgrees DEF h
<1>5. CASE pass \in Marking
  <2>1. /\ pass = "AlgebraicSimplification" => h = AlgebraicSimplification(g)
        /\ pass = "SCCP" => h = SCCP(g)
        /\ pass = "ConstantFolding" => h = ConstantFolding(g)
        /\ pass = "Peephole" => h = Peephole(g)
    BY DEF Run, h
  <2>2. MarksOthers(g, SCCP(g))
    BY <1>3, SCCPMarksOthers
  <2>3. MarksOthers(g, h)
    BY <1>5, <2>1, <2>2, SimplificationMarksOthers, FoldingMarksOthers, PeepholeMarksOthers
  <2>4. KeepsAll(g, h)
    BY <2>3, MarkedKept
  <2> QED BY <1>2, <2>4, KeptAgrees DEF h
<1>6. CASE pass \in Others
  <2>1. /\ pass = "EscapeAnalysis" => h = EscapeAnalysis(g)
        /\ pass = "Inlining" => h = g
        /\ pass = "TailCallElimination" => h = TailCallElimination(g)
        /\ pass = "ICStubEmission" => h = ICStubEmission(g)
        /\ pass = "DeadCodeElimination" => h = DeadCodeElimination(g)
    BY DEF Run, Inlining, h
  <2>2. Agrees(src, EscapeAnalysis(g), V)
    BY <1>2, EscapeKeeps, KeptAgrees
  <2>3. Agrees(src, DeadCodeElimination(g), V)
    <3>1. SparesChecks(g)
      BY <1>3 DEF SparesChecks
    <3> QED BY <1>2, <3>1, SweepKeeps, KeptAgrees
  <2>4. Agrees(src, TailCallElimination(g), V) /\ Agrees(src, ICStubEmission(g), V)
    BY <1>2, TailCallsAgree, StubsAgree
  <2>5. Agrees(src, h, V)
    BY <1>6, <2>1, <2>2, <2>3, <2>4
  <2> QED BY <2>5 DEF h
<1> QED BY <1>1, <1>4, <1>5, <1>6

(* All nineteen.                                                                *)
LEMMA RubyAgrees ==
  ASSUME NEW src, ShapedGraph(src), NEW env, NEW V, NEW O, Valued(src, env, V, O),
         NEW p, NEW c, Uniform(src, env, p, c), NEW g, IsGraph(g), Agrees(src, g, V),
         NEW pass \in {RubyPipeline[k] : k \in 1..Len(RubyPipeline)}
  PROVE  Agrees(src, Run(pass, g), V)
<1>1. Agrees(src, GVN(g), V) /\ Agrees(src, CSE(g), V)
  BY NumberingAgrees
<1>2. /\ pass = "CSE" => Run(pass, g) = CSE(g)
      /\ pass = "GVN" => Run(pass, g) = GVN(g)
  BY DEF Run
<1>3. pass \notin {"CSE", "GVN"} => Agrees(src, Run(pass, g), V)
  BY PlainPassesAgree
<1> QED BY <1>1, <1>2, <1>3

-----------------------------------------------------------------------------
(* What the whole tier keeps, for a graph as the lowerers build it: a graph     *)
(* built by hand has to be of the same form.                                    *)
Sound(src) ==
  /\ ShapedGraph(src) /\ Linked(src, src) /\ Forward(src)
  /\ \E r \in 1..Len(src) : src[r].kind = "Return"

KeepsMeaning(src, g) ==
  \A env, V, O, p, c : Valued(src, env, V, O) /\ Uniform(src, env, p, c) => Agrees(src, g, V)

MeaningOK ==
  /\ lower.status = "lowering" => Built(graph, lower.eff)
  /\ lower.status = "lowered" /\ method # NoCode => Sound(source)
  /\ lower.status = "lowered" /\ done <= Len(RubyPipeline) /\ Sound(source) => KeepsMeaning(source, graph)

LEMMA SoundKeepsItself ==
  ASSUME NEW src, Sound(src)
  PROVE  KeepsMeaning(src, src)
BY AgreesWithItself DEF KeepsMeaning, Sound

LEMMA RubyKeeps ==
  ASSUME NEW src, Sound(src), NEW g, IsGraph(g), KeepsMeaning(src, g),
         NEW pass \in {RubyPipeline[k] : k \in 1..Len(RubyPipeline)}
  PROVE  KeepsMeaning(src, Run(pass, g))
<1> SUFFICES ASSUME NEW env, NEW V, NEW O, NEW p, NEW c, Valued(src, env, V, O), Uniform(src, env, p, c)
             PROVE  Agrees(src, Run(pass, g), V)
  BY DEF KeepsMeaning
<1>1. Agrees(src, g, V) /\ ShapedGraph(src)
  BY DEF KeepsMeaning, Sound
<1> QED BY <1>1, RubyAgrees

LEMMA MeaningInit ==
  ASSUME Init
  PROVE  MeaningOK
<1> DEFINE first == \E m \in Methods : method = m.code /\ LowerInit(m.locals, m.args) /\ source = graph
<1>1. CASE first
  <2>1. PICK m \in Methods : method = m.code /\ LowerInit(m.locals, m.args)
    BY <1>1
  <2>2. Built(graph, lower.eff)
    BY <2>1, MethodsAreCode, BuiltInit
  <2>3. lower.status = "lowering"
    BY <2>1 DEF LowerInit
  <2> QED BY <2>2, <2>3 DEF MeaningOK
<1>2. CASE ~first
  <2> HIDE DEF first
  <2>1. first \/ (/\ method = NoCode /\ source = graph
                 /\ lower = [pc |-> 0, stack |-> <<>>, locals |-> <<>>, ctrl |-> 1, eff |-> 1,
                             status |-> "lowered"])
    BY DEF Init, first
  <2>2. /\ method = NoCode /\ source = graph
        /\ lower = [pc |-> 0, stack |-> <<>>, locals |-> <<>>, ctrl |-> 1, eff |-> 1,
                    status |-> "lowered"]
    BY <1>2, <2>1
  <2>3. lower.status = "lowered"
    BY <2>2
  <2>4. Sound(source) => KeepsMeaning(source, graph)
    BY <2>2, SoundKeepsItself
  <2> QED BY <2>2, <2>3, <2>4 DEF MeaningOK
<1> QED BY <1>1, <1>2

LEMMA MeaningLower ==
  ASSUME LoweringOK, ForwardOK, MeaningOK, Lower
  PROVE  MeaningOK'
<1>1. method \in Seq(Instructions) /\ (LowerNext \/ CilLowerNext) /\ source' = graph' /\ done' = done
  BY DEF LoweringOK, Lower
<1>2. lower.status = "lowering"
  BY <1>1 DEF LowerNext, CilLowerNext, Lowering, LowerConst, LowerLoad, LowerStore, LowerIinc,
     LowerStackOp, LowerPure, LowerEffect, LowerIf, LowerGoto, LowerReturn, LowerSwitch, LowerEnd,
     LowerLdC, LowerLdLoc, LowerStLoc, LowerCilStack, LowerCilPure, LowerObject, LowerBr,
     LowerBrIf, LowerBrCmp, LowerRet, LowerUnsupported
<1>3. LowererOK(method, graph, lower) /\ Tidy(graph, lower) /\ Built(graph, lower.eff)
  BY <1>2 DEF LoweringOK, ForwardOK, MeaningOK
<1>4. CASE LowerEnd
  <2>1. /\ ShapedGraph(graph') /\ Linked(graph', graph')
        /\ \E r \in 1..Len(graph') : graph'[r].kind = "Return"
    BY <1>3, <1>4, EndBuilds
  <2>2. Forward(graph')
    BY <1>3, <1>4, EndTidy, LoweredForward
  <2>3. lower'.status = "lowered"
    BY <1>3, <1>4, EndStep
  <2>4. Sound(source')
    BY <1>1, <2>1, <2>2 DEF Sound
  <2>5. KeepsMeaning(source', graph')
    BY <1>1, <2>4, SoundKeepsItself
  <2> QED BY <2>3, <2>4, <2>5 DEF MeaningOK
<1>5. CASE Advanced /\ ~LowerEnd
  <2>1. Built(graph', lower'.eff) /\ lower'.status = "lowering"
    BY <1>1, <1>3, <1>5, BuiltStep DEF Advanced
  <2> QED BY <2>1 DEF MeaningOK
<1>6. CASE Failed
  <2>1. lower'.status = "failed"
    BY <1>3, <1>6 DEF Failed, LowererOK
  <2> QED BY <2>1 DEF MeaningOK
<1> QED BY <1>1, <1>3, <1>4, <1>5, <1>6, LowerStep

LEMMA MeaningStep ==
  ASSUME LoweringOK, ForwardOK, OptimizerOK, MeaningOK, [Next]_vars
  PROVE  MeaningOK'
<1>1. CASE Lower
  BY <1>1, MeaningLower
<1>2. CASE Optimize
  <2> DEFINE pass == RubyPipeline[done + 1]
  <2>1. /\ lower.status = "lowered" /\ done < Len(RubyPipeline) /\ graph' = Run(pass, graph)
        /\ done' = done + 1 /\ lower' = lower /\ method' = method /\ source' = source
    BY <1>2 DEF Optimize
  <2>2. done \in 0..18 /\ pass \in {RubyPipeline[k] : k \in 1..Len(RubyPipeline)}
    BY <2>1, PipelineLengths DEF OptimizerOK
  <2>3. IsGraph(graph) /\ (Sound(source) => KeepsMeaning(source, graph))
    BY <2>1, <2>2, PipelineLengths DEF OptimizerOK, MeaningOK
  <2> HIDE DEF pass
  <2>4. Sound(source) => KeepsMeaning(source, Run(pass, graph))
    BY <2>2, <2>3, RubyKeeps
  <2>5. Sound(source') => KeepsMeaning(source', graph')
    BY <2>1, <2>4
  <2>6. lower'.status = "lowered" /\ (method' # NoCode => Sound(source'))
    BY <2>1 DEF MeaningOK
  <2> QED BY <2>5, <2>6 DEF MeaningOK
<1>3. CASE CompilePeak
  <2>1. /\ done' = Len(DiamondPipeline) /\ lower' = lower /\ lower.status = "lowered"
        /\ method' = method /\ source' = source
    BY <1>3 DEF CompilePeak
  <2> QED BY <2>1, PipelineLengths DEF MeaningOK
<1>4. CASE Call \/ Interpret \/ PassTraps \/ UNCHANGED vars
  <2>1. /\ lower' = lower /\ graph' = graph /\ done' = done /\ method' = method
        /\ source' = source
    BY <1>4 DEF Call, Interpret, PassTraps, vars, lowerVars, pipeVars
  <2> QED BY <2>1 DEF MeaningOK
<1> QED BY <1>1, <1>2, <1>3, <1>4 DEF Next

LEMMA MeaningAlwaysOK == Spec => []MeaningOK
<1>1. Init => MeaningOK
  BY MeaningInit
<1>2. LoweringOK /\ OptimizerOK /\ ForwardOK /\ MeaningOK /\ [Next]_vars => MeaningOK'
  BY MeaningStep
<1> QED BY <1>1, <1>2, LoweringAlwaysOK, OptimizerAlwaysOK, AlwaysForward, PTL DEF Spec

(* The runs that the two value numberings keep: they take all incoming locals   *)
(* for one, and all constants that are no integers.                             *)
Alike(src, env) ==
  /\ \A id \in 1..Len(src) : env[id] \in Int
  /\ \A x, y \in 1..Len(src) :
       /\ src[x].kind = "Phi" /\ src[y].kind = "Phi" => env[x] = env[y]
       /\ src[x].kind = "ConstFloat" /\ src[y].kind = "ConstFloat" => src[x].val = src[y].val

(* The fuel is enough for every node.                                           *)
Comparable(src, env) == Len(src) <= Fuel /\ Alike(src, env)

LikeLowered == method = NoCode => Sound(source)

MeansAsBefore(src, g, env) ==
  LET before == MachineRun(src, env, Fuel)
      after == MachineRun(g, env, Fuel)
  IN  before.result # <<"trap">> => after.result = before.result /\ after.obs = before.obs

LEMMA AlikeUniform ==
  ASSUME NEW src, NEW env, Alike(src, env)
  PROVE  \E p, c : Uniform(src, env, p, c)
<1>1. \E p : \A id \in 1..Len(src) : src[id].kind = "Phi" => env[id] = p
  <2>1. CASE \E x \in 1..Len(src) : src[x].kind = "Phi"
    BY <2>1 DEF Alike
  <2>2. CASE \A x \in 1..Len(src) : src[x].kind # "Phi"
    BY <2>2
  <2> QED BY <2>1, <2>2
<1>2. \E c : \A id \in 1..Len(src) : src[id].kind = "ConstFloat" => src[id].val = c
  <2>1. CASE \E x \in 1..Len(src) : src[x].kind = "ConstFloat"
    BY <2>1 DEF Alike
  <2>2. CASE \A x \in 1..Len(src) : src[x].kind # "ConstFloat"
    BY <2>2
  <2> QED BY <2>1, <2>2
<1> QED BY <1>1, <1>2 DEF Uniform

LEMMA CompiledMeansAsBefore ==
  ASSUME DebugBuild = TRUE, ForwardOK, OptimizerOK, MeaningOK, Compiled, LikeLowered,
         NEW env, Comparable(source, env)
  PROVE  MeansAsBefore(source, graph, env)
<1>1. Sound(source) /\ lower.status = "lowered" /\ done = 19 /\ ~rejected
  BY PipelineLengths DEF MeaningOK, Compiled, LikeLowered
<1>2. KeepsMeaning(source, graph) /\ Verified(graph) /\ Forward(graph)
  <2>1. OnlyForward
    BY <1>1 DEF OnlyForward, Sound
  <2> QED BY <1>1, <2>1, PipelineLengths DEF MeaningOK, OptimizerOK, ForwardOK
<1>3. PICK V, O : Valued(source, env, V, O)
  BY <1>1, ValuesFound DEF Comparable, Alike, Sound
<1>4. PICK p, c : Uniform(source, env, p, c)
  BY AlikeUniform DEF Comparable
<1>5. Agrees(source, graph, V)
  BY <1>2, <1>3, <1>4 DEF KeepsMeaning
<1>6. Fuel \in Nat /\ Len(source) <= Fuel
  BY FuelAssumption DEF Comparable
<1>7. /\ ShapedGraph(source) /\ Forward(source) /\ Linked(source, source)
      /\ \E r \in 1..Len(source) : source[r].kind = "Return"
  BY <1>1 DEF Sound
<1> QED BY <1>2, <1>3, <1>5, <1>6, <1>7, SameMeaning DEF MeansAsBefore

(* Whatever method is compiled by a debug build, the graph that the RUBY        *)
(* pipeline hands on returns what the graph as lowered returns, and calls,      *)
(* stores, allocations and monitors are seen with the same operands in the same *)
(* order, in each environment that does not tell incoming locals apart, unless  *)
(* the method has different float constants.                                    *)
THEOREM RubyMeansAsBefore ==
  ASSUME DebugBuild = TRUE
  PROVE  Spec => [](Compiled /\ LikeLowered =>
                      \A env : Comparable(source, env) => MeansAsBefore(source, graph, env))
<1>1. ForwardOK /\ OptimizerOK /\ MeaningOK =>
        (Compiled /\ LikeLowered =>
           \A env : Comparable(source, env) => MeansAsBefore(source, graph, env))
  BY CompiledMeansAsBefore
<1> QED BY <1>1, AlwaysForward, OptimizerAlwaysOK, MeaningAlwaysOK, PTL

(* So the optimizer keeps the meaning of a method if that is so of every        *)
(* environment that is tried: of a method with a single slot, for one.          *)
THEOREM OptimizedAlwaysMeansTheSame ==
  ASSUME DebugBuild = TRUE
  PROVE  Spec => [](LikeLowered /\ (\A env \in Environments : Comparable(source, env))
                    => OptimizedMeansTheSame)
<1>1. (Compiled /\ LikeLowered =>
         \A env : Comparable(source, env) => MeansAsBefore(source, graph, env))
      => (LikeLowered /\ (\A env \in Environments : Comparable(source, env)) => OptimizedMeansTheSame)
  BY DEF OptimizedMeansTheSame, MeansAsBefore
<1> QED BY <1>1, RubyMeansAsBefore, PTL

LEMMA BaselineAlwaysOK == Spec => []BaselineOK
<1>1. Init => BaselineOK
  BY BaselineInit
<1>2. BaselineOK /\ [Next]_vars => BaselineOK'
  BY BaselineStep
<1> QED BY <1>1, <1>2, PTL DEF Spec

(* Tier 2 means what granit means: for every method without branches the graph  *)
(* that the RUBY pipeline of a debug build hands on returns the int or long     *)
(* that granit returns, if all arguments of the call have the same value: the   *)
(* numberings take them for one.                                                *)
THEOREM CompiledAlwaysAgrees ==
  ASSUME DebugBuild = TRUE
  PROVE  Spec => [](Comparable(source, EnvOfCall) => CompiledAgrees)
<1>1. ForwardOK /\ OptimizerOK /\ MeaningOK /\ BaselineOK /\ BaselineAgrees
        => (Comparable(source, EnvOfCall) => CompiledAgrees)
  <2> SUFFICES ASSUME ForwardOK, OptimizerOK, MeaningOK, BaselineOK, BaselineAgrees,
                      Comparable(source, EnvOfCall), Compiled, outcome.status = "returned",
                      outcome.value.t \in {"int", "long"}, StraightLine, ~narrow
               PROVE  MachineRun(graph, EnvOfCall, Fuel).result = <<"value", outcome.value.v>>
    BY DEF CompiledAgrees, TiersAgree
  <2>1. method # NoCode
    BY DEF BaselineOK, Idle
  <2>2. LikeLowered
    BY <2>1 DEF LikeLowered
  <2> DEFINE env == EnvOfCall
             v == outcome.value.v
  <2>3. MachineRun(source, env, Fuel).result = <<"value", v>>
    BY DEF BaselineAgrees, Compiled, Comparable
  <2> HIDE DEF env
  <2>4. MeansAsBefore(source, graph, env)
    BY <2>2, CompiledMeansAsBefore DEF env
  <2>5. <<"value", v>> # <<"trap">>
    BY DEF v
  <2> QED BY <2>3, <2>4, <2>5 DEF MeansAsBefore, env
<1> QED BY <1>1, AlwaysForward, OptimizerAlwaysOK, MeaningAlwaysOK, BaselineAlwaysOK,
           BaselineAlwaysAgrees, PTL

-----------------------------------------------------------------------------
(* The values that a run has when it stops, wherever that is.                   *)

(* A step adds the node it was at, at most, to those that ran.                  *)
LEMMA RanFields ==
  ASSUME NEW s, IsState(s), NEW id
  PROVE  /\ Passed(s, id).ran = s.ran \cup {id}
         /\ \A v : Computed(s, id, v).ran = s.ran \cup {id}
         /\ \A v, what : Shown(s, id, v, what).ran = s.ran \cup {id}
<1>1. Passed(s, id).ran = s.ran \cup {id}
  BY PassedFields DEF IsState
<1>2. ASSUME NEW v
      PROVE  Computed(s, id, v).ran = s.ran \cup {id} /\ \A what : Shown(s, id, v, what).ran = s.ran \cup {id}
  <2> DEFINE p == Computed(s, id, v)
  <2>1. p = [pos |-> s.pos + 1, vals |-> [s.vals EXCEPT ![id] = v], locals |-> s.locals,
             obs |-> s.obs, ran |-> s.ran \cup {id}, result |-> s.result]
    BY ComputedFields DEF IsState
  <2>2. \A what : Shown(s, id, v, what) = [p EXCEPT !.obs = Append(@, what)]
    BY DEF Shown
  <2> HIDE DEF p
  <2>3. p.ran = s.ran \cup {id} /\ \A o : [p EXCEPT !.obs = o].ran = s.ran \cup {id}
    BY <2>1
  <2> QED BY <2>2, <2>3 DEF p
<1> QED BY <1>1, <1>2

LEMMA MovedRan ==
  ASSUME NEW s, IsState(s), NEW L, NEW targets
  PROVE  Moved(L, s, targets).ran = s.ran
<1> DEFINE q == MaxOf({p \in DOMAIN L : L[p] \in targets})
<1>1. Moved(L, s, targets) \in {[s EXCEPT !.result = <<"junk">>], [s EXCEPT !.pos = q]}
  BY DEF Moved, Ended
<1> HIDE DEF q
<1>2. s = [pos |-> s.pos, vals |-> s.vals, locals |-> s.locals, obs |-> s.obs, ran |-> s.ran,
           result |-> s.result]
  BY DEF IsState
<1>3. [s EXCEPT !.result = <<"junk">>].ran = s.ran /\ [s EXCEPT !.pos = q].ran = s.ran
  BY ONLY <1>2
<1> QED BY <1>1, <1>3

LEMMA EndedFields ==
  ASSUME NEW s, IsState(s), NEW r
  PROVE  LET c == Ended(s, r)
         IN  c.result = r /\ c.pos = s.pos /\ c.vals = s.vals /\ c.ran = s.ran
<1>1. s = [pos |-> s.pos, vals |-> s.vals, locals |-> s.locals, obs |-> s.obs, ran |-> s.ran,
           result |-> s.result]
  BY DEF IsState
<1> DEFINE c == [s EXCEPT !.result = r]
<1>2. c.result = r /\ c.pos = s.pos /\ c.vals = s.vals /\ c.ran = s.ran
  BY ONLY <1>1
<1> QED BY <1>2 DEF Ended

LEMMA StepRan ==
  ASSUME NEW g, NEW env, NEW V, NEW O, NEW f, Means(g, env, V, O, f), NEW L, Reached(g, L, f),
         NEW s, NEW id \in Live(g), id < f, RunsAt(s, g, L, V, O, id)
  PROVE  MachineStep(g, L, env, s).ran \subseteq s.ran \cup {id}
<1> DEFINE kind == g[id].kind
           in == InputsAt(g, s, id)
           next == MachineStep(g, L, env, s)
           v == NodeValue(kind, g[id].val, env[id], in)
<1>1. id \in 1..f - 1 /\ ~Dead(g, id) /\ Forward(g)
  <2>1. Len(g) \in Nat /\ f \in Live(g) /\ Forward(g)
    BY GraphFacts DEF Means, Forward
  <2> QED BY <2>1 DEF Live, Ids
<1>2. kind \notin LocalKinds \cup {"Jump"} /\ ~Leaves(kind, in)
  <2>1. Plain(g, env, V, O, id)
    BY <1>1 DEF Means
  <2>2. in = Reads(g, V, id)
    BY <1>1, ReadsAt
  <2> QED BY <1>1, <2>1, <2>2 DEF Plain
<1>3. IsState(s) /\ s.result = <<"running">> /\ ~(s.pos > Len(L)) /\ id = L[s.pos]
  BY DEF RunsAt, Reached
<1>4. LET k == g[id].kind
          i == InputsAt(g, s, id)
          n == MachineStep(g, L, env, s)
          w == NodeValue(k, g[id].val, env[id], i)
      IN  /\ Leaves(k, i) => n = Ended(s, EndValue(k, i))
          /\ k = "If" => n = Moved(L, s, BranchTarget(g, id, i[1]))
          /\ k \in ObservableKinds => n = Shown(s, id, w, Witnessed(k, i))
          /\ ~Leaves(k, i) /\ k # "If" /\ k \notin ObservableKinds =>
               n = Computed(s, id, w) \/ (w = 0 /\ n = Passed(s, id))
  BY <1>2, <1>3, NodeStep
<1>5. \/ next = Moved(L, s, BranchTarget(g, id, in[1])) \/ next = Shown(s, id, v, Witnessed(kind, in))
      \/ next = Computed(s, id, v) \/ next = Passed(s, id)
  BY <1>2, <1>4
<1> DEFINE targets == BranchTarget(g, id, in[1])
           what == Witnessed(kind, in)
<1> HIDE DEF kind, in, v, targets, what
<1>6. /\ Moved(L, s, targets).ran = s.ran /\ Passed(s, id).ran = s.ran \cup {id}
      /\ Computed(s, id, v).ran = s.ran \cup {id} /\ Shown(s, id, v, what).ran = s.ran \cup {id}
  <2>1. IsState(s)
    BY <1>3
  <2>2. Moved(L, s, targets).ran = s.ran
    BY ONLY <2>1, MovedRan
  <2>3. /\ Passed(s, id).ran = s.ran \cup {id}
        /\ \A w : Computed(s, id, w).ran = s.ran \cup {id}
        /\ \A w, o : Shown(s, id, w, o).ran = s.ran \cup {id}
    BY ONLY <2>1, RanFields
  <2> QED BY ONLY <2>2, <2>3
<1>7. next \in {Moved(L, s, targets), Shown(s, id, v, what), Computed(s, id, v), Passed(s, id)}
  BY <1>5 DEF targets, what
<1> HIDE DEF next
<1>8. next.ran = s.ran \/ next.ran = s.ran \cup {id}
  BY <1>6, <1>7
<1> QED BY <1>8 DEF next

(* V gives the nodes that ran their values.                                     *)
Ran(s, g, V) == \A x \in s.ran : x \in Live(g) /\ s.vals[x] = V[x]

LEMMA RunKnows ==
  ASSUME NEW g, NEW env, NEW V, NEW O, NEW f, Means(g, env, V, O, f), NEW fuel \in Nat
  PROVE  Ran(MachineRun(g, env, fuel), g, V)
<1> DEFINE L == Layout(g)
<1>1. f \in Live(g) /\ f \in Nat /\ Forward(g) /\ Live(g) \subseteq Ids(g) /\ Ids(g) \subseteq Nat
  <2>1. f \in Live(g) /\ Len(g) \in Nat
    BY GraphFacts DEF Means, Forward
  <2> QED BY <2>1 DEF Live, Ids, Means
<1>2. Reached(g, L, f)
  BY MeansReached
<1>3. PICK run : IsRun(run, g, L, env, fuel) /\ RunInOrder(g, L, env, fuel) = run[fuel]
  BY RunIsRun
<1>4. MachineRun(g, env, fuel) = run[fuel]
  BY <1>3 DEF MachineRun
<1> HIDE DEF L
<1>5. run[0] = Start0(g) /\ \A k \in 1..fuel : run[k] = MachineStep(g, L, env, run[k - 1])
  BY <1>3 DEF IsRun
<1> DEFINE Before(s, id) == \A x \in s.ran : x \in Live(g) /\ x < id
           AtNode(s) == \E id \in Live(g) : id <= f /\ RunsAt(s, g, L, V, O, id) /\ Before(s, id)
           Over(s) == s.result # <<"running">> /\ ~(s.pos > Len(L)) /\ Ran(s, g, V)
           T == {k \in 0..fuel : AtNode(run[k]) \/ Over(run[k])}
<1>6. ASSUME NEW s, AtNode(s) PROVE Ran(s, g, V)
  <2>1. PICK id \in Live(g) : RunsAt(s, g, L, V, O, id) /\ Before(s, id)
    BY <1>6
  <2>2. \A x \in Ids(g) : s.vals[x] = IF x < id /\ ~Dead(g, x) THEN V[x] ELSE 0
    BY <2>1 DEF RunsAt
  <2> QED BY <1>1, <2>1, <2>2 DEF Ran, Live
<1>7. AtNode(run[0])
  <2>1. PICK id \in Live(g) : id <= f /\ RunsAt(Start0(g), g, L, V, O, id)
    BY <1>2, StartRuns
  <2>2. Start0(g).ran = {}
    BY DEF Start0
  <2> QED BY <1>5, <2>1, <2>2
<1>8. ASSUME NEW s, AtNode(s) PROVE AtNode(MachineStep(g, L, env, s)) \/ Over(MachineStep(g, L, env, s))
  <2> DEFINE next == MachineStep(g, L, env, s)
  <2>1. PICK id \in Live(g) : id <= f /\ RunsAt(s, g, L, V, O, id) /\ Before(s, id)
    BY <1>8
  <2>2. CASE id < f
    <3>1. PICK y \in Live(g) : id < y /\ y <= f /\ RunsAt(next, g, L, V, O, y)
      BY <1>2, <2>1, <2>2, StepLands
    <3>2. next.ran \subseteq s.ran \cup {id}
      BY <1>2, <2>1, <2>2, StepRan
    <3> HIDE DEF next
    <3>3. Before(next, y)
      BY <1>1, <2>1, <3>1, <3>2
    <3>4. AtNode(next)
      BY <3>1, <3>3
    <3> QED BY <3>4 DEF next
  <2>3. CASE id = f
    <3> DEFINE value == EndValue(g[f].kind, Reads(g, V, f))
    <3>1. next = Ended(s, value)
      BY <1>2, <2>1, <2>3, LastStep
    <3>2. IsState(s) /\ s.pos \in 1..Len(L) /\ Len(L) \in Nat
      BY <1>2, <2>1 DEF RunsAt, Reached
    <3>3. value # <<"running">>
      BY DEF EndValue
    <3> HIDE DEF value, next
    <3>4. next.result = value /\ next.pos = s.pos /\ next.vals = s.vals /\ next.ran = s.ran
      BY <3>1, <3>2, EndedFields
    <3>5. Ran(next, g, V)
      BY <1>6, <1>8, <3>4 DEF Ran
    <3>6. Over(next)
      BY <3>2, <3>3, <3>4, <3>5
    <3> QED BY <3>6 DEF next
  <2> QED BY <1>1, <2>1, <2>2, <2>3
<1>9. ASSUME NEW s, Over(s) PROVE MachineStep(g, L, env, s) = s
  BY <1>9 DEF MachineStep
<1> HIDE DEF At, Over
<1>10. 0 \in T
  BY <1>7
<1>11. ASSUME NEW k \in 0..fuel - 1, k \in T PROVE k + 1 \in T
  <2>1. k + 1 \in 0..fuel /\ k + 1 \in 1..fuel /\ (k + 1) - 1 = k
    OBVIOUS
  <2>2. run[k + 1] = MachineStep(g, L, env, run[k])
    BY <1>5, <2>1
  <2> QED BY <1>8, <1>9, <1>11, <2>1, <2>2
<1>12. fuel \in T
  <2> HIDE DEF T
  <2>1. 0..fuel \subseteq T
    BY <1>10, <1>11, PrefixInduction
  <2> QED BY <2>1
<1>13. Ran(run[fuel], g, V)
  BY <1>6, <1>12 DEF Over
<1> QED BY <1>4, <1>13

-----------------------------------------------------------------------------
(* The results that are constant whatever the other operand is.                 *)

LEMMA PowerGrows ==
  ASSUME NEW n \in Nat, n > 0
  PROVE  2 ^ (n - 1) < 2 ^ n
<1> DEFINE m == n - 1
           A == SUBSET (1..m)
           B == SUBSET (1..n)
<1>1. m \in Nat /\ m < n /\ 1..m \subseteq 1..n /\ n \in 1..n /\ n \notin 1..m
  OBVIOUS
<1>2. A \subseteq B /\ 1..n \in B /\ 1..n \notin A
  BY <1>1
<1>3. IsFiniteSet(1..m) /\ IsFiniteSet(1..n) /\ Cardinality(1..m) = m /\ Cardinality(1..n) = n
  <2>1. ASSUME NEW k \in Nat PROVE IsFiniteSet(1..k) /\ Cardinality(1..k) = k
    <3>1. IsFiniteSet(1..k) /\ Cardinality(1..k) = IF 1 > k THEN 0 ELSE k - 1 + 1
      BY FS_Interval
    <3> DEFINE c == Cardinality(1..k)
    <3>2. c = IF 1 > k THEN 0 ELSE k - 1 + 1
      BY <3>1
    <3> HIDE DEF c
    <3>3. c = k
      BY <3>2
    <3> QED BY <3>1, <3>3 DEF c
  <2> QED BY <1>1, <2>1
<1> HIDE DEF m
<1>4. /\ IsFiniteSet(A) /\ IsFiniteSet(B)
      /\ Cardinality(A) = 2 ^ m /\ Cardinality(B) = 2 ^ n
  BY <1>3, FS_SUBSET
<1> HIDE DEF A, B
<1>5. Cardinality(A) <= Cardinality(B) /\ (Cardinality(B) = Cardinality(A) => B = A)
  BY <1>2, <1>4, FS_Subset
<1>6. 2 ^ m \in Nat /\ 2 ^ n \in Nat
  BY <1>1, PowerOfTwo
<1>7. 2 ^ m <= 2 ^ n /\ 2 ^ m # 2 ^ n
  BY <1>2, <1>4, <1>5
<1> DEFINE x == 2 ^ m
           y == 2 ^ n
<1>8. x \in Nat /\ y \in Nat /\ x <= y /\ x # y
  BY <1>6, <1>7
<1> HIDE DEF x, y
<1>9. x < y
  BY <1>8
<1> QED BY <1>9 DEF x, y, m

LEMMA WrappedZero == Wrap64(0) = 0
<1> DEFINE p == 2 ^ LongBits
           h == 2 ^ (LongBits - 1)
<1>1. p \in Nat /\ h \in Nat /\ h < p
  <2>1. LongBits \in Nat /\ LongBits > 0 /\ LongBits - 1 \in Nat
    BY WidthAssumption
  <2> QED BY <2>1, PowerOfTwo, PowerGrows
<1> HIDE DEF p, h
<1>2. ((0 + h) % p) - h = 0
  BY <1>1
<1> QED BY <1>2 DEF Wrap64, Signed, p, h

LEMMA BitTermZero ==
  ASSUME NEW a \in Int, NEW b \in Int, NEW i \in Nat
  PROVE  /\ a = 0 => BitTerm("And", a, b, i) = 0
         /\ BitTerm("Xor", a, a, i) = 0
<1> DEFINE p == 2 ^ i
           x == BitAt(a, i)
           y == BitAt(b, i)
<1>1. p \in Nat /\ p > 0
  BY PowerOfTwo
<1>2. x \in {0, 1} /\ y \in {0, 1} /\ (a = 0 => x = 0)
  <2> DEFINE u == a \div p
             v == b \div p
  <2>1. u \in Int /\ v \in Int /\ (a = 0 => u = 0)
    <3> HIDE DEF p
    <3> QED BY <1>1
  <2>2. x = u % 2 /\ y = v % 2
    BY DEF BitAt
  <2> HIDE DEF u, v
  <2> QED BY <2>1, <2>2
<1> HIDE DEF x, y, p
<1>3. p * 0 = 0
  BY <1>1
<1>4. (a = 0 => x * y = 0) /\ (x + x) % 2 = 0
  BY <1>2
<1>5. BitOf("And", x, y) = x * y /\ BitOf("Xor", x, x) = (x + x) % 2
  BY DEF BitOf
<1>6. BitTerm("And", a, b, i) = p * BitOf("And", x, y) /\ BitTerm("Xor", a, a, i) = p * BitOf("Xor", x, x)
  BY DEF BitTerm, p, x, y
<1> QED BY <1>3, <1>4, <1>5, <1>6

LEMMA BitSumZero ==
  ASSUME NEW kind, NEW a \in Int, NEW b \in Int, \A i \in Nat : BitTerm(kind, a, b, i) = 0
  PROVE  BitSum(kind, a, b) = 0
<1>1. PICK f : /\ f[0] = 0
               /\ \A k \in 1..LongBits : f[k] = f[k - 1] + BitTerm(kind, a, b, k - 1)
               /\ f[LongBits] = BitSum(kind, a, b)
  BY BitSumSteps
<1> DEFINE n == LongBits
           T == {k \in Nat : f[k] = 0}
<1>2. n \in Nat
  BY WidthAssumption
<1> HIDE DEF n
<1>3. 0 \in T
  BY <1>1
<1>4. ASSUME NEW k \in 0..n - 1, k \in T PROVE k + 1 \in T
  <2> DEFINE j == k + 1
  <2>1. j \in 1..n /\ j - 1 = k /\ k \in Nat /\ j \in Nat
    BY <1>2
  <2> HIDE DEF j
  <2>2. f[j] = f[k] + BitTerm(kind, a, b, k) /\ BitTerm(kind, a, b, k) = 0
    BY <1>1, <2>1 DEF n
  <2>3. j \in T
    BY <1>4, <2>1, <2>2
  <2> QED BY <2>3 DEF j
<1>5. n \in T
  <2> HIDE DEF T
  <2> QED BY <1>2, <1>3, <1>4, PrefixInduction
<1> QED BY <1>1, <1>5 DEF n

(* A product or a conjunction with 0, and the exclusive or of a value and       *)
(* itself.                                                                      *)
LEMMA ZeroResults ==
  ASSUME NEW a \in Int, NEW b \in Int
  PROVE  /\ a = 0 \/ b = 0 => Arith("Mul", a, b) = 0 /\ Arith("And", a, b) = 0
         /\ Arith("Xor", a, a) = 0
<1>1. Arith("Mul", a, b) = Wrap64(a * b)
  BY DEF Arith
<1>2. /\ Arith("And", a, b) = Bitwise2("And", a, b)
      /\ Arith("Xor", a, a) = Bitwise2("Xor", a, a)
  BY DEF Arith
<1>3. Bitwise2("And", a, b) = Wrap64(BitSum("And", a, b)) /\ Bitwise2("Xor", a, a) = Wrap64(BitSum("Xor", a, a))
  BY DEF Bitwise2, BitSum
<1>4. a = 0 \/ b = 0 => a * b = 0
  OBVIOUS
<1>5. a = 0 \/ b = 0 => BitSum("And", a, b) = 0
  <2>1. a = 0 => BitSum("And", a, b) = 0
    BY BitTermZero, BitSumZero
  <2>2. b = 0 => BitSum("And", b, a) = 0
    BY BitTermZero, BitSumZero
  <2>3. BitSum("And", a, b) = BitSum("And", b, a)
    BY BitSumIsInt DEF BitKindsOf
  <2> QED BY <2>1, <2>2, <2>3
<1>6. BitSum("Xor", a, a) = 0
  BY BitTermZero, BitSumZero
<1> QED BY <1>1, <1>2, <1>3, <1>4, <1>5, <1>6, WrappedZero

-----------------------------------------------------------------------------
(* The integers put beside nodes, and whether they are those that V has.        *)
Stated(g) ==
  {[id |-> id, val |-> g[id].val] :
     id \in {x \in 1..Len(g) : Has(g, x, "IsConst") /\ g[x].type = "Int"}}

Right(g, V) == \A e \in Stated(g) : V[e.id] = e.val

LEMMA RightAt ==
  ASSUME NEW g, NEW V
  PROVE  Right(g, V) <=> \A id \in 1..Len(g) : Has(g, id, "IsConst") /\ g[id].type = "Int" => V[id] = g[id].val
<1>1. ASSUME Right(g, V), NEW id \in 1..Len(g), Has(g, id, "IsConst"), g[id].type = "Int"
      PROVE  V[id] = g[id].val
  <2> DEFINE e == [id |-> id, val |-> g[id].val]
  <2>1. e \in Stated(g)
    BY <1>1 DEF Stated
  <2>2. e.id = id /\ e.val = g[id].val
    OBVIOUS
  <2> HIDE DEF e
  <2> QED BY <1>1, <2>1, <2>2 DEF Right
<1>2. ASSUME \A id \in 1..Len(g) : Has(g, id, "IsConst") /\ g[id].type = "Int" => V[id] = g[id].val
      PROVE  Right(g, V)
  BY <1>2 DEF Right, Stated
<1> QED BY <1>1, <1>2

(* The operands of a node with two.                                             *)
TwoBefore(g) ==
  \A id \in 1..Len(g) : g[id].kind \in BinaryKinds =>
    /\ Len(g[id].in) = 2
    /\ g[id].in[1] \in 1..id - 1 /\ g[id].in[2] \in 1..id - 1

(* What V has for a node with two operands and for an integer constant.         *)
Computes(g, V) ==
  \A id \in 1..Len(g) :
    LET a == V[g[id].in[1]]
        b == V[g[id].in[2]]
    IN  /\ V[id] \in Int
        /\ g[id].kind = "ConstInt" => V[id] = g[id].val
        /\ g[id].kind \in BinaryKinds /\ ~Traps(g[id].kind, a, b) => V[id] = Arith(g[id].kind, a, b)

LEMMA SourceComputes ==
  ASSUME NEW src, ShapedGraph(src), NEW env, NEW V, NEW O, Valued(src, env, V, O)
  PROVE  TwoBefore(src) /\ Computes(src, V) /\ Right(src, V)
<1>1. Len(src) \in Nat /\ LoweredGraph(src)
  BY LenProperties DEF ShapedGraph, LoweredGraph
<1>2. ASSUME NEW id \in 1..Len(src)
      PROVE  /\ src[id].kind \in BinaryKinds =>
                  /\ Len(src[id].in) = 2
                  /\ src[id].in[1] \in 1..id - 1 /\ src[id].in[2] \in 1..id - 1
                  /\ Reads(src, V, id)[1] = V[src[id].in[1]] /\ Reads(src, V, id)[2] = V[src[id].in[2]]
             /\ V[id] \in Int /\ V[id] = NodeValue(src[id].kind, src[id].val, env[id], Reads(src, V, id))
             /\ src[id].type = "Int" => src[id].kind = "ConstInt"
  <2>1. \A k \in 1..Len(src[id].in) : src[id].in[k] \in 1..id - 1 /\ Reads(src, V, id)[k] = V[src[id].in[k]]
    BY <1>1, ReadsBefore
  <2>2. Shaped(src[id])
    BY DEF ShapedGraph
  <2>3. V[id] \in Int /\ V[id] = NodeValue(src[id].kind, src[id].val, env[id], Reads(src, V, id))
    BY DEF Valued, ValuedTo, ValueOf
  <2> QED BY <2>1, <2>2, <2>3 DEF Shaped
<1>3. TwoBefore(src)
  BY <1>2 DEF TwoBefore
<1>4. ASSUME NEW id \in 1..Len(src)
      PROVE  /\ src[id].kind = "ConstInt" => V[id] = src[id].val
             /\ src[id].kind \in BinaryKinds /\ ~Traps(src[id].kind, V[src[id].in[1]], V[src[id].in[2]])
                => V[id] = Arith(src[id].kind, V[src[id].in[1]], V[src[id].in[2]])
  <2> DEFINE kind == src[id].kind
             in == Reads(src, V, id)
  <2>1. V[id] = NodeValue(kind, src[id].val, env[id], in)
    BY <1>2
  <2>2. kind \in BinaryKinds => kind \notin ConstKinds /\ kind \notin GivenKinds
    BY KindsOfSteps
  <2>3. kind \in BinaryKinds => in[1] = V[src[id].in[1]] /\ in[2] = V[src[id].in[2]]
    BY <1>2
  <2> HIDE DEF in, kind
  <2>4. kind = "ConstInt" => V[id] = src[id].val
    BY <2>1 DEF NodeValue, ConstKinds
  <2>5. kind \in BinaryKinds /\ ~Traps(kind, in[1], in[2]) => V[id] = Arith(kind, in[1], in[2])
    BY <2>1, <2>2 DEF NodeValue
  <2> QED BY <2>3, <2>4, <2>5 DEF kind
<1>5. Computes(src, V)
  BY <1>2, <1>4 DEF Computes
<1>6. Right(src, V)
  BY <1>2, <1>4, RightAt
<1> QED BY <1>3, <1>5, <1>6

(* A node that keeps its kind and its operands has the value it had.            *)
LEMMA KeptComputes ==
  ASSUME NEW g, NEW h, KeepsAll(g, h), NEW V
  PROVE  (TwoBefore(g) => TwoBefore(h)) /\ (Computes(g, V) => Computes(h, V))
<1>1. /\ Len(h) = Len(g)
      /\ \A id \in 1..Len(g) : /\ h[id].kind = g[id].kind /\ h[id].in = g[id].in
                               /\ g[id].kind = "ConstInt" => h[id].val = g[id].val
  BY DEF KeepsAll, Keeps, ConstKinds
<1>2. TwoBefore(g) => TwoBefore(h)
  BY <1>1 DEF TwoBefore
<1>3. Computes(g, V) => Computes(h, V)
  BY <1>1 DEF Computes
<1> QED BY <1>2, <1>3

(* AlgebraicSimplification states only zeros.                                   *)
LEMMA SimplifiedStates ==
  ASSUME NEW g, NEW n
  PROVE  LET m == Simplified(g, n)
             either == IsConstInt(g, n.in[1], 0) \/ IsConstInt(g, n.in[2], 0)
         IN  \/ m = n
             \/ \E v : m = Mark(n, v)
             \/ m = MarkInt(n, 0) /\ n.kind \in {"Mul", "And"} /\ either
             \/ m = MarkInt(n, 0) /\ n.kind = "Xor" /\ n.in[1] = n.in[2]
BY DEF Simplified

LEMMA MarkedFields ==
  ASSUME NEW n, GraphNode(n), NEW v
  PROVE  Mark(n, v).type = n.type /\ MarkInt(n, v).type = "Int" /\ MarkInt(n, v).val = v
         /\ "IsConst" \in MarkInt(n, v).flags
BY DEF GraphNode, Mark, MarkInt

LEMMA SimplificationRight ==
  ASSUME NEW g, IsGraph(g), \A id \in 1..Len(g) : g[id].type = "Int" => g[id].kind = "ConstInt",
         NEW V, TwoBefore(g), Computes(g, V), Right(g, V)
  PROVE  Right(AlgebraicSimplification(g), V)
<1> DEFINE h == AlgebraicSimplification(g)
<1>1. /\ Ids(g) = 1..Len(g) /\ Len(g) \in Nat /\ \A id \in 1..Len(g) : GraphNode(g[id])
  BY GraphFacts DEF IsGraph
<1>2. Len(h) = Len(g)
  BY SimplificationMarks, MarksAGraph
<1>3. \A id \in 1..Len(g) : h[id] = g[id] \/ h[id] = Simplified(g, g[id])
  BY <1>1 DEF AlgebraicSimplification
<1> HIDE DEF h
<1> SUFFICES ASSUME NEW id \in 1..Len(g), Has(h, id, "IsConst"), h[id].type = "Int"
             PROVE  V[id] = h[id].val
  BY <1>2, RightAt DEF h
<1> DEFINE n == g[id]
           a == n.in[1]
           b == n.in[2]
<1>4. CASE h[id] = n
  BY <1>4, RightAt DEF Has
<1>5. ASSUME NEW v, h[id] = Mark(n, v), h[id] # n PROVE FALSE
  <2>1. n.type = "Int"
    BY <1>1, <1>5, MarkedFields
  <2>2. n.kind = "ConstInt"
    BY <2>1
  <2>3. Simplified(g, n) = n
    BY <2>2 DEF Simplified
  <2> QED BY <1>3, <1>5, <2>3
<1>6. ASSUME n.kind \in {"Mul", "And", "Xor"}
      PROVE  V[id] = Arith(n.kind, V[a], V[b]) /\ V[a] \in Int /\ V[b] \in Int
  <2>1. n.kind \in BinaryKinds /\ ~Traps(n.kind, V[a], V[b])
    BY <1>6 DEF BinaryKinds, Traps
  <2>2. a \in 1..Len(g) /\ b \in 1..Len(g)
    BY <1>1, <2>1 DEF TwoBefore
  <2> QED BY <2>1, <2>2 DEF Computes
<1>7. \A x : IsConstInt(g, x, 0) => V[x] = 0
  BY <1>1 DEF IsConstInt, Valid, Computes
<1>8. CASE h[id] = MarkInt(n, 0) /\ n.kind \in {"Mul", "And"} /\ (IsConstInt(g, a, 0) \/ IsConstInt(g, b, 0))
  <2>1. h[id].val = 0
    BY <1>1, <1>8, MarkedFields
  <2>2. V[a] = 0 \/ V[b] = 0
    BY <1>7, <1>8
  <2>3. Arith("Mul", V[a], V[b]) = 0 /\ Arith("And", V[a], V[b]) = 0
    BY <1>6, <1>8, <2>2, ZeroResults
  <2> QED BY <1>6, <1>8, <2>1, <2>3
<1>9. CASE h[id] = MarkInt(n, 0) /\ n.kind = "Xor" /\ a = b
  <2>1. h[id].val = 0
    BY <1>1, <1>9, MarkedFields
  <2>2. Arith("Xor", V[a], V[a]) = 0
    BY <1>6, <1>9, ZeroResults
  <2> QED BY <1>6, <1>9, <2>1, <2>2
<1>10. \/ Simplified(g, n) = n \/ \E v : Simplified(g, n) = Mark(n, v)
       \/ Simplified(g, n) = MarkInt(n, 0) /\ n.kind \in {"Mul", "And"} /\ (IsConstInt(g, a, 0) \/ IsConstInt(g, b, 0))
       \/ Simplified(g, n) = MarkInt(n, 0) /\ n.kind = "Xor" /\ a = b
  BY SimplifiedStates
<1> QED BY <1>3, <1>4, <1>5, <1>8, <1>9, <1>10

-----------------------------------------------------------------------------
(* SCCP: the lattice value of a node from those of its operands.                *)
LatticeAt(f, g, id) ==
  LET n == g[id]
      operand(k) == IF Valid(g, n.in[k]) THEN f[n.in[k]] ELSE TOP
  IN  CASE Dead(g, id) -> TOP
        [] n.kind = "ConstInt" /\ ~Dead(g, id) -> Known(n.val)
        [] n.kind \in BinaryKinds /\ Len(n.in) = 2 /\ ~Dead(g, id) ->
             EvalBinary(n.kind, operand(1), operand(2))
        [] OTHER -> BOTTOM

IsLattice(f, g) == f = [id \in Ids(g) |-> LatticeAt(f, g, id)]

LEMMA LatticeChosen ==
  ASSUME NEW g
  PROVE  Lattice(g) = CHOOSE f : IsLattice(f, g)
BY DEF Lattice, IsLattice, LatticeAt

LEMMA LatticeLooksBack ==
  ASSUME NEW g, TwoBefore(g), NEW id \in 1..Len(g), NEW f, NEW h, \A x \in 1..id - 1 : f[x] = h[x]
  PROVE  LatticeAt(f, g, id) = LatticeAt(h, g, id)
<1>1. g[id].kind \in BinaryKinds => f[g[id].in[1]] = h[g[id].in[1]] /\ f[g[id].in[2]] = h[g[id].in[2]]
  BY DEF TwoBefore
<1> QED BY <1>1 DEF LatticeAt

LEMMA LatticeExists ==
  ASSUME NEW g, Len(g) \in Nat, TwoBefore(g)
  PROVE  \E f : IsLattice(f, g)
<1> DEFINE n == Len(g)
           Upto(f, m) == \A id \in 1..m : f[id] = LatticeAt(f, g, id)
           T == {m \in 0..n : \E f : Upto(f, m)}
<1>1. 0 \in T
  OBVIOUS
<1>2. ASSUME NEW m \in 0..n - 1, m \in T PROVE m + 1 \in T
  <2> DEFINE id == m + 1
  <2>1. id \in 1..n /\ id \in 0..n /\ id - 1 = m
    OBVIOUS
  <2>2. PICK f : Upto(f, m)
    BY <1>2
  <2> HIDE DEF id
  <2> DEFINE h == [x \in 1..n |-> IF x = id THEN LatticeAt(f, g, id) ELSE f[x]]
  <2>3. h[id] = LatticeAt(f, g, id) /\ \A x \in 1..id - 1 : h[x] = f[x]
    BY <2>1
  <2> HIDE DEF h
  <2>4. ASSUME NEW x \in 1..id PROVE h[x] = LatticeAt(h, g, x)
    <3>1. x \in 1..Len(g) /\ \A y \in 1..x - 1 : f[y] = h[y]
      BY <2>1, <2>3
    <3>2. LatticeAt(f, g, x) = LatticeAt(h, g, x)
      BY <3>1, LatticeLooksBack
    <3>3. CASE x = id
      BY <2>3, <3>2, <3>3
    <3>4. CASE x # id
      <4>1. x \in 1..m /\ x \in 1..id - 1
        BY <2>1, <3>4
      <4> QED BY <2>2, <2>3, <3>2, <4>1
    <3> QED BY <3>3, <3>4
  <2>5. Upto(h, id)
    BY <2>4
  <2> QED BY <2>1, <2>5 DEF id
<1>3. n \in T
  <2> HIDE DEF T, n
  <2>0. n \in Nat
    BY DEF n
  <2>1. 0..n \subseteq T
    BY <1>1, <1>2, <2>0, PrefixInduction
  <2> QED BY <2>0, <2>1
<1>4. PICK f : Upto(f, n)
  BY <1>3
<1> DEFINE h == [id \in 1..n |-> f[id]]
<1>5. \A id \in 1..n : h[id] = LatticeAt(h, g, id)
  <2> SUFFICES ASSUME NEW id \in 1..n PROVE h[id] = LatticeAt(h, g, id)
    OBVIOUS
  <2>1. h[id] = f[id] /\ \A x \in 1..id - 1 : f[x] = h[x]
    OBVIOUS
  <2> HIDE DEF h
  <2>2. LatticeAt(f, g, id) = LatticeAt(h, g, id)
    BY <2>1, LatticeLooksBack
  <2> QED BY <1>4, <2>1, <2>2
<1>6. h = [id \in 1..n |-> h[id]]
  OBVIOUS
<1> HIDE DEF h
<1>7. IsLattice(h, g)
  BY <1>5, <1>6 DEF IsLattice, Ids
<1> QED BY <1>7

LEMMA KnownFacts ==
  ASSUME NEW v
  PROVE  /\ Known(v) # TOP /\ Known(v) # BOTTOM /\ TOP # BOTTOM
         /\ Known(v)[1] = "const" /\ Known(v)[2] = v /\ TOP[1] # "const" /\ BOTTOM[1] # "const"
BY DEF Known, TOP, BOTTOM

(* The constant that the lattice has for a node is its value.                   *)
LEMMA LatticeRight ==
  ASSUME NEW g, Len(g) \in Nat, TwoBefore(g), NEW V, Computes(g, V)
  PROVE  \A id \in 1..Len(g) : Lattice(g)[id] \in {TOP, BOTTOM, Known(V[id])}
<1> DEFINE f == Lattice(g)
           n == Len(g)
           Fine(id) == f[id] \in {TOP, BOTTOM, Known(V[id])}
           T == {m \in 0..n : \A id \in 1..m : Fine(id)}
<1>1. \A id \in 1..n : f[id] = LatticeAt(f, g, id)
  <2>1. IsLattice(f, g)
    <3>1. \E h : IsLattice(h, g)
      BY LatticeExists
    <3> QED BY <3>1, LatticeChosen
  <2> HIDE DEF f
  <2> QED BY <2>1 DEF IsLattice, Ids
<1> HIDE DEF f
<1>2. ASSUME NEW id \in 1..n, \A x \in 1..id - 1 : Fine(x) PROVE Fine(id)
  <2> DEFINE a == g[id].in[1]
             b == g[id].in[2]
             kind == g[id].kind
  <2>1. CASE Dead(g, id)
    BY <1>1, <2>1 DEF LatticeAt
  <2>2. CASE ~Dead(g, id) /\ kind = "ConstInt"
    <3>1. LatticeAt(f, g, id) = Known(g[id].val)
      <4>1. "ConstInt" \notin BinaryKinds
        BY DEF BinaryKinds
      <4> QED BY <2>2, <4>1, Zenon DEF LatticeAt
    <3>2. V[id] = g[id].val
      BY <2>2 DEF Computes
    <3> QED BY <1>1, <3>1, <3>2
  <2>3. CASE ~Dead(g, id) /\ kind # "ConstInt" /\ kind \in BinaryKinds
    <3>1. Len(g[id].in) = 2 /\ a \in 1..id - 1 /\ b \in 1..id - 1 /\ Valid(g, a) /\ Valid(g, b)
      BY <2>3 DEF TwoBefore, Valid, Ids
    <3> DEFINE x == f[a]
               y == f[b]
    <3>2. f[id] = EvalBinary(kind, x, y)
      BY <1>1, <2>3, <3>1 DEF LatticeAt
    <3>3. x \in {TOP, BOTTOM, Known(V[a])} /\ y \in {TOP, BOTTOM, Known(V[b])}
      BY <1>2, <3>1
    <3>4. ~Traps(kind, V[a], V[b]) => V[id] = Arith(kind, V[a], V[b])
      BY <2>3 DEF Computes
    <3> HIDE DEF x, y, kind
    <3>5. CASE x \in {TOP, BOTTOM} \/ y \in {TOP, BOTTOM}
      BY <3>2, <3>5 DEF EvalBinary
    <3>6. CASE x = Known(V[a]) /\ y = Known(V[b])
      <4>1. x[2] = V[a] /\ y[2] = V[b] /\ x \notin {TOP, BOTTOM} /\ y \notin {TOP, BOTTOM}
        BY <3>6, KnownFacts
      <4>2. f[id] = IF Traps(kind, V[a], V[b]) THEN TOP ELSE Known(Arith(kind, V[a], V[b]))
        BY <3>2, <4>1 DEF EvalBinary
      <4> QED BY <3>4, <4>2
    <3> QED BY <3>3, <3>5, <3>6
  <2>4. CASE ~Dead(g, id) /\ kind # "ConstInt" /\ kind \notin BinaryKinds
    BY <1>1, <2>4 DEF LatticeAt
  <2> QED BY <2>1, <2>2, <2>3, <2>4
<1> HIDE DEF Fine
<1>3. 0 \in T
  OBVIOUS
<1>4. ASSUME NEW m \in 0..n - 1, m \in T PROVE m + 1 \in T
  <2>1. m + 1 \in 1..n /\ m + 1 \in 0..n /\ (m + 1) - 1 = m /\ 1..m + 1 = 1..m \cup {m + 1}
    OBVIOUS
  <2>2. \A x \in 1..(m + 1) - 1 : Fine(x)
    BY <1>4, <2>1
  <2>3. Fine(m + 1)
    BY <1>2, <2>1, <2>2
  <2> QED BY <1>4, <2>1, <2>3
<1>5. n \in T
  <2> HIDE DEF T, n
  <2>0. n \in Nat
    BY DEF n
  <2>1. 0..n \subseteq T
    BY <1>3, <1>4, <2>0, PrefixInduction
  <2> QED BY <2>0, <2>1
<1> QED BY <1>5 DEF Fine, f

LEMMA SCCPRight ==
  ASSUME NEW g, IsGraph(g), NEW V, TwoBefore(g), Computes(g, V), Right(g, V)
  PROVE  Right(SCCP(g), V)
<1> DEFINE h == SCCP(g)
           value == Lattice(g)
           found == {id \in Pure(g) : value[id][1] = "const" /\ ~Has(g, id, "IsConst")}
<1>1. /\ Ids(g) = 1..Len(g) /\ Len(g) \in Nat /\ \A id \in 1..Len(g) : GraphNode(g[id])
  BY GraphFacts DEF IsGraph
<1>2. Len(h) = Len(g)
  BY SCCPMarks, MarksAGraph
<1>3. \A id \in 1..Len(g) : h[id] = IF id \in found THEN MarkInt(g[id], value[id][2]) ELSE g[id]
  BY <1>1 DEF SCCP
<1>4. \A id \in 1..Len(g) : value[id] \in {TOP, BOTTOM, Known(V[id])}
  BY <1>1, LatticeRight
<1>5. \A id \in found : value[id][1] = "const"
  OBVIOUS
<1> HIDE DEF h, found, value
<1> SUFFICES ASSUME NEW id \in 1..Len(g), Has(h, id, "IsConst"), h[id].type = "Int"
             PROVE  V[id] = h[id].val
  BY <1>2, RightAt DEF h
<1>6. CASE id \in found
  <2>1. value[id] = Known(V[id])
    BY <1>4, <1>5, <1>6, KnownFacts
  <2>2. h[id].val = value[id][2]
    BY <1>1, <1>3, <1>6, MarkedFields
  <2> QED BY <2>1, <2>2, KnownFacts
<1>7. CASE id \notin found
  <2>1. h[id] = g[id]
    BY <1>3, <1>7
  <2> QED BY <2>1, RightAt DEF Has
<1> QED BY <1>6, <1>7

-----------------------------------------------------------------------------
(* ConstantFolding: each node folded after those before it.                     *)
IsFolded(f, g) == f = [id \in Ids(g) |-> FoldNode(g, f, id)]

LEMMA FoldedChosen ==
  ASSUME NEW g
  PROVE  ConstantFolding(g) = LET f == CHOOSE f : IsFolded(f, g) IN [id \in Ids(g) |-> FoldNode(g, f, id)]
BY DEF ConstantFolding, IsFolded

LEMMA FoldLooksBack ==
  ASSUME NEW g, TwoBefore(g), NEW id \in 1..Len(g), NEW f, NEW h, \A x \in 1..id - 1 : f[x] = h[x]
  PROVE  FoldNode(g, f, id) = FoldNode(g, h, id)
<1>1. g[id].kind \in BinaryKinds => f[g[id].in[1]] = h[g[id].in[1]] /\ f[g[id].in[2]] = h[g[id].in[2]]
  BY DEF TwoBefore
<1> QED BY <1>1 DEF FoldNode

LEMMA FoldedExists ==
  ASSUME NEW g, Len(g) \in Nat, TwoBefore(g)
  PROVE  \E f : IsFolded(f, g)
<1> DEFINE n == Len(g)
           Upto(f, m) == \A id \in 1..m : f[id] = FoldNode(g, f, id)
           T == {m \in 0..n : \E f : Upto(f, m)}
<1>1. 0 \in T
  OBVIOUS
<1>2. ASSUME NEW m \in 0..n - 1, m \in T PROVE m + 1 \in T
  <2> DEFINE id == m + 1
  <2>1. id \in 1..n /\ id \in 0..n /\ id - 1 = m
    OBVIOUS
  <2>2. PICK f : Upto(f, m)
    BY <1>2
  <2> HIDE DEF id
  <2> DEFINE h == [x \in 1..n |-> IF x = id THEN FoldNode(g, f, id) ELSE f[x]]
  <2>3. h[id] = FoldNode(g, f, id) /\ \A x \in 1..id - 1 : h[x] = f[x]
    BY <2>1
  <2> HIDE DEF h
  <2>4. ASSUME NEW x \in 1..id PROVE h[x] = FoldNode(g, h, x)
    <3>1. x \in 1..Len(g) /\ \A y \in 1..x - 1 : f[y] = h[y]
      BY <2>1, <2>3
    <3>2. FoldNode(g, f, x) = FoldNode(g, h, x)
      BY <3>1, FoldLooksBack
    <3>3. CASE x = id
      BY <2>3, <3>2, <3>3
    <3>4. CASE x # id
      <4>1. x \in 1..m /\ x \in 1..id - 1
        BY <2>1, <3>4
      <4> QED BY <2>2, <2>3, <3>2, <4>1
    <3> QED BY <3>3, <3>4
  <2>5. Upto(h, id)
    BY <2>4
  <2> QED BY <2>1, <2>5 DEF id
<1>3. n \in T
  <2> HIDE DEF T, n
  <2>0. n \in Nat
    BY DEF n
  <2>1. 0..n \subseteq T
    BY <1>1, <1>2, <2>0, PrefixInduction
  <2> QED BY <2>0, <2>1
<1>4. PICK f : Upto(f, n)
  BY <1>3
<1> DEFINE h == [id \in 1..n |-> f[id]]
<1>5. \A id \in 1..n : h[id] = FoldNode(g, h, id)
  <2> SUFFICES ASSUME NEW id \in 1..n PROVE h[id] = FoldNode(g, h, id)
    OBVIOUS
  <2>1. h[id] = f[id] /\ \A x \in 1..id - 1 : f[x] = h[x]
    OBVIOUS
  <2> HIDE DEF h
  <2>2. FoldNode(g, f, id) = FoldNode(g, h, id)
    BY <2>1, FoldLooksBack
  <2> QED BY <1>4, <2>1, <2>2
<1>6. h = [id \in 1..n |-> h[id]]
  OBVIOUS
<1> HIDE DEF h
<1>7. IsFolded(h, g)
  BY <1>5, <1>6 DEF IsFolded, Ids
<1> QED BY <1>7

(* What folding does to one node.                                               *)
LEMMA FoldNodeStates ==
  ASSUME NEW g, NEW f, NEW id
  PROVE  LET n == g[id]
             m == FoldNode(g, f, id)
             a == f[n.in[1]]
             b == f[n.in[2]]
         IN  \/ m = n
             \/ /\ m = MarkInt(n, Arith(n.kind, a.val, b.val))
                /\ n.kind \in BinaryKinds /\ IsInt(a) /\ IsInt(b) /\ ~Traps(n.kind, a.val, b.val)
BY DEF FoldNode, TryFoldBinary

(* A folded constant is the value of its node.                                  *)
LEMMA FoldedRight ==
  ASSUME NEW g, IsGraph(g), NEW V, TwoBefore(g), Computes(g, V), Right(g, V)
  PROVE  /\ Len(ConstantFolding(g)) = Len(g)
         /\ \A id \in 1..Len(g) : IsInt(ConstantFolding(g)[id]) => V[id] = ConstantFolding(g)[id].val
<1> DEFINE f == ConstantFolding(g)
           n == Len(g)
           Fine(id) == IsInt(f[id]) => V[id] = f[id].val
           T == {m \in 0..n : \A id \in 1..m : Fine(id)}
<1>0. /\ Ids(g) = 1..n /\ n \in Nat /\ \A id \in 1..n : GraphNode(g[id])
  BY GraphFacts DEF IsGraph
<1>1. Len(f) = n /\ \A id \in 1..n : f[id] = FoldNode(g, f, id)
  <2> DEFINE h == CHOOSE h : IsFolded(h, g)
  <2>1. IsFolded(h, g)
    BY <1>0, FoldedExists
  <2>2. f = [id \in Ids(g) |-> FoldNode(g, h, id)]
    BY FoldedChosen
  <2> HIDE DEF h, f
  <2>3. f = h
    BY <2>1, <2>2 DEF IsFolded
  <2>4. f = [id \in 1..n |-> FoldNode(g, f, id)]
    BY <1>0, <2>2, <2>3
  <2>5. Len(f) = n
    BY FoldingMarks, MarksAGraph DEF f
  <2> HIDE DEF n
  <2> QED BY <2>4, <2>5
<1> HIDE DEF f
<1>2. ASSUME NEW id \in 1..n, \A x \in 1..id - 1 : Fine(x) PROVE Fine(id)
  <2> DEFINE s == g[id]
             a == s.in[1]
             b == s.in[2]
  <2>1. CASE f[id] = s
    <3>1. s.kind = "ConstInt" => V[id] = s.val
      BY DEF Computes
    <3>2. "IsConst" \in s.flags /\ s.type = "Int" => V[id] = s.val
      BY RightAt DEF Has
    <3> QED BY <2>1, <3>1, <3>2 DEF IsInt
  <2>2. CASE /\ f[id] = MarkInt(s, Arith(s.kind, f[a].val, f[b].val))
             /\ s.kind \in BinaryKinds /\ IsInt(f[a]) /\ IsInt(f[b]) /\ ~Traps(s.kind, f[a].val, f[b].val)
    <3>1. a \in 1..id - 1 /\ b \in 1..id - 1
      BY <2>2 DEF TwoBefore
    <3>2. V[a] = f[a].val /\ V[b] = f[b].val
      BY <1>2, <2>2, <3>1
    <3>3. V[id] = Arith(s.kind, V[a], V[b])
      BY <2>2, <3>2 DEF Computes
    <3>4. f[id].val = Arith(s.kind, f[a].val, f[b].val)
      BY <1>0, <2>2, MarkedFields
    <3> QED BY <3>2, <3>3, <3>4
  <2>3. \/ FoldNode(g, f, id) = s
        \/ /\ FoldNode(g, f, id) = MarkInt(s, Arith(s.kind, f[a].val, f[b].val))
           /\ s.kind \in BinaryKinds /\ IsInt(f[a]) /\ IsInt(f[b]) /\ ~Traps(s.kind, f[a].val, f[b].val)
    BY FoldNodeStates
  <2>4. f[id] = FoldNode(g, f, id)
    BY <1>1
  <2> HIDE DEF s, a, b, Fine
  <2> QED BY <2>1, <2>2, <2>3, <2>4
<1> HIDE DEF Fine
<1>3. 0 \in T
  BY <1>0
<1>4. ASSUME NEW m \in 0..n - 1, m \in T PROVE m + 1 \in T
  <2>1. m + 1 \in 1..n /\ m + 1 \in 0..n /\ (m + 1) - 1 = m /\ 1..m + 1 = 1..m \cup {m + 1}
    BY <1>0
  <2>2. \A x \in 1..(m + 1) - 1 : Fine(x)
    BY <1>4, <2>1
  <2>3. Fine(m + 1)
    BY <1>2, <2>1, <2>2
  <2> QED BY <1>4, <2>1, <2>3
<1>5. n \in T
  <2> HIDE DEF T, n
  <2>0. n \in Nat
    BY <1>0
  <2>1. 0..n \subseteq T
    BY <1>3, <1>4, <2>0, PrefixInduction
  <2> QED BY <2>0, <2>1
<1> QED BY <1>1, <1>5 DEF Fine, f

LEMMA FoldingRight ==
  ASSUME NEW g, IsGraph(g), NEW V, TwoBefore(g), Computes(g, V), Right(g, V)
  PROVE  Right(ConstantFolding(g), V)
<1> DEFINE h == ConstantFolding(g)
<1>1. Len(h) = Len(g) /\ \A id \in 1..Len(g) : IsInt(h[id]) => V[id] = h[id].val
  BY FoldedRight
<1> HIDE DEF h
<1>2. \A id \in 1..Len(h) : Has(h, id, "IsConst") /\ h[id].type = "Int" => V[id] = h[id].val
  BY <1>1 DEF IsInt, Has
<1>3. Right(h, V)
  BY <1>2, RightAt
<1> QED BY <1>3 DEF h

-----------------------------------------------------------------------------
(* The later passes state no more than they found.                              *)
LEMMA StatesNoMore ==
  ASSUME NEW g, NEW h,
         \A id \in 1..Len(h) : Has(h, id, "IsConst") /\ h[id].type = "Int"
           => /\ id \in 1..Len(g) /\ Has(g, id, "IsConst")
              /\ g[id].type = "Int" /\ g[id].val = h[id].val
  PROVE  Stated(h) \subseteq Stated(g)
BY DEF Stated

LEMMA RightWithLess ==
  ASSUME NEW g, NEW V, Right(g, V), NEW h, Stated(h) \subseteq Stated(g)
  PROVE  Right(h, V)
BY DEF Right

LEMMA FlagStates ==
  ASSUME NEW g, IsGraph(g), NEW ids, NEW flag \in Marks \ {"IsConst"}
  PROVE  IsGraph(SetFlag(g, ids, flag)) /\ Stated(SetFlag(g, ids, flag)) \subseteq Stated(g)
<1> DEFINE h == SetFlag(g, ids, flag)
<1>1. flag \in Flags /\ flag # "IsConst"
  BY DEF Marks, Flags
<1>2. Flagged(g, h, ids, flag)
  BY <1>1, SetFlagMarks
<1> HIDE DEF h
<1>3. \A id \in 1..Len(h) :
        /\ id \in 1..Len(g) /\ h[id].type = g[id].type /\ h[id].val = g[id].val
        /\ "IsConst" \in h[id].flags => "IsConst" \in g[id].flags
  BY <1>1, <1>2 DEF Flagged
<1>4. Stated(h) \subseteq Stated(g)
  BY <1>3, StatesNoMore DEF Has
<1> QED BY <1>2, <1>4 DEF Flagged, h

LEMMA FlagPassesState ==
  ASSUME NEW g, IsGraph(g), NEW pass \in FlagPasses
  PROVE  Stated(Run(pass, g)) \subseteq Stated(g)
<1>1. PICK ids, flag : Run(pass, g) = SetFlag(g, ids, flag) /\ Flaggable(g, ids, flag)
  BY FlagPassesFlag
<1>2. flag \in Marks \ {"IsConst"}
  BY <1>1 DEF Flaggable
<1> QED BY <1>1, <1>2, FlagStates

LEMMA DeadStates ==
  ASSUME NEW g, IsGraph(g), NEW ids
  PROVE  IsGraph(SetFlag(g, ids, "IsDead")) /\ Stated(SetFlag(g, ids, "IsDead")) \subseteq Stated(g)
<1>1. "IsDead" \in Marks \ {"IsConst"}
  BY DEF Marks
<1> QED BY <1>1, FlagStates

LEMMA ReplaceStates ==
  ASSUME NEW g, IsGraph(g), NEW old, NEW new
  PROVE  LET h == ReplaceAllUses(g, old, new) IN IsGraph(h) /\ Stated(h) \subseteq Stated(g)
<1> DEFINE h == ReplaceAllUses(g, old, new)
<1>1. Replaced(g, h, old, new)
  BY ReplaceGraph
<1> HIDE DEF h
<1>2. IsGraph(h) /\ \A id \in 1..Len(h) :
        /\ id \in 1..Len(g) /\ h[id].type = g[id].type /\ h[id].val = g[id].val
        /\ h[id].flags = g[id].flags
  BY <1>1 DEF Replaced
<1>3. Stated(h) \subseteq Stated(g)
  BY <1>2, StatesNoMore DEF Has
<1> QED BY <1>2, <1>3 DEF h

(* The graph that GVN and CSE are at.                                           *)
StatesAt(s, n, g) == IsAt(s, n) /\ Stated(s.g) \subseteq Stated(g)

LEMMA DeduplicateStates ==
  ASSUME NEW n, NEW g, NEW s, StatesAt(s, n, g), NEW id
  PROVE  StatesAt(Deduplicate(s, id), n, g) /\ StatesAt([s EXCEPT !.table = {}], n, g)
<1> DEFINE sig == Signature(s.g, id)
           same == {e \in s.table : e.sig = sig}
           kept == (CHOOSE e \in same : TRUE).id
           x == ReplaceAllUses(s.g, id, kept)
           h == MarkDead(x, id)
           more == s.table \cup {[sig |-> sig, id |-> id]}
<1>1. Deduplicate(s, id) = IF same = {} THEN [s EXCEPT !.table = more] ELSE [s EXCEPT !.g = h]
  BY DEF Deduplicate
<1>2. s = [g |-> s.g, table |-> s.table] /\ IsGraph(s.g) /\ Stated(s.g) \subseteq Stated(g)
  BY DEF StatesAt, IsAt
<1>3. IsGraph(x) /\ Stated(x) \subseteq Stated(s.g)
  BY <1>2, ReplaceStates
<1> HIDE DEF x
<1>4. Stated(h) \subseteq Stated(x)
  BY <1>3, DeadStates DEF MarkDead
<1> HIDE DEF h, more, same
<1>5. \A t : [s EXCEPT !.table = t] = [g |-> s.g, table |-> t]
  BY <1>2
<1>6. [s EXCEPT !.g = h] = [g |-> h, table |-> s.table]
  BY <1>2
<1>7. \A t : Stated([g |-> s.g, table |-> t].g) \subseteq Stated(g)
  BY <1>2
<1>8. Stated([g |-> h, table |-> s.table].g) \subseteq Stated(g)
  BY <1>2, <1>3, <1>4
<1>9. Stated(Deduplicate(s, id).g) \subseteq Stated(g) /\ Stated([s EXCEPT !.table = {}].g) \subseteq Stated(g)
  BY <1>1, <1>5, <1>6, <1>7, <1>8
<1>10. IsAt(Deduplicate(s, id), n) /\ IsAt([s EXCEPT !.table = {}], n)
  BY DeduplicateGraph DEF StatesAt
<1> QED BY <1>9, <1>10 DEF StatesAt

LEMMA NumberingStates ==
  ASSUME NEW g, IsGraph(g)
  PROVE  Stated(GVN(g)) \subseteq Stated(g) /\ Stated(CSE(g)) \subseteq Stated(g)
<1> DEFINE n == Len(g)
           q == Ascending(g)
           base == NoTable(g)
<1>1. n \in Nat /\ Len(q) = n
  BY GraphFacts, AscendingFacts
<1>2. StatesAt(base, n, g)
  BY DEF StatesAt, IsAt, NoTable
<1>3. ASSUME NEW s, NEW id, StatesAt(s, n, g)
      PROVE  StatesAt(GvnStep(s, id), n, g) /\ StatesAt(CseStep(s, id), n, g)
  BY <1>3, DeduplicateStates DEF GvnStep, CseStep
<1> HIDE DEF n, base
<1>4. PICK f : Steps(f, "GVN", base, q) /\ f[n].g = GVN(g)
  BY <1>1, GvnSteps DEF n, base
<1>5. PICK h : Steps(h, "CSE", base, q) /\ h[n].g = CSE(g)
  BY <1>1, CseSteps DEF n, base
<1> HIDE DEF q
<1>6. StatesAt(f[n], n, g)
  <2> DEFINE S == {f[k] : k \in {k \in 0..n : StatesAt(f[k], n, g)}}
  <2>1. base \in S
    BY <1>1, <1>2, <1>4 DEF Steps
  <2>2. ASSUME NEW k \in 1..Len(q), f[k - 1] \in S PROVE FoldStep("GVN", f[k - 1], q[k]) \in S
    <3>1. StatesAt(f[k - 1], n, g) /\ k \in 0..n
      BY <1>1, <2>2
    <3>2. f[k] = FoldStep("GVN", f[k - 1], q[k])
      BY <1>4 DEF Steps
    <3>3. StatesAt(f[k], n, g)
      BY <1>3, <3>1, <3>2, FoldStepOf
    <3> QED BY <3>1, <3>2, <3>3
  <2>3. f[Len(q)] \in S
    <3> HIDE DEF S
    <3> QED BY <1>1, <1>4, <2>1, <2>2, StepsKeep
  <2> QED BY <1>1, <2>3
<1>7. StatesAt(h[n], n, g)
  <2> DEFINE S == {h[k] : k \in {k \in 0..n : StatesAt(h[k], n, g)}}
  <2>1. base \in S
    BY <1>1, <1>2, <1>5 DEF Steps
  <2>2. ASSUME NEW k \in 1..Len(q), h[k - 1] \in S PROVE FoldStep("CSE", h[k - 1], q[k]) \in S
    <3>1. StatesAt(h[k - 1], n, g) /\ k \in 0..n
      BY <1>1, <2>2
    <3>2. h[k] = FoldStep("CSE", h[k - 1], q[k])
      BY <1>5 DEF Steps
    <3>3. StatesAt(h[k], n, g)
      BY <1>3, <3>1, <3>2, FoldStepOf
    <3> QED BY <3>1, <3>2, <3>3
  <2>3. h[Len(q)] \in S
    <3> HIDE DEF S
    <3> QED BY <1>1, <1>5, <2>1, <2>2, StepsKeep
  <2> QED BY <1>1, <2>3
<1> QED BY <1>4, <1>5, <1>6, <1>7 DEF StatesAt

(* The folds over a graph.                                                      *)
StatesOf(h, g) == IsGraph(h) /\ Stated(h) \subseteq Stated(g)

LEMMA StepsState ==
  ASSUME NEW g, IsGraph(g), NEW f, NEW pass, NEW q, Steps(f, pass, g, q), Len(q) \in Nat,
         \A k \in 1..Len(q) : StatesOf(f[k - 1], g) => StatesOf(FoldStep(pass, f[k - 1], q[k]), g)
  PROVE  StatesOf(f[Len(q)], g)
<1> DEFINE m == Len(q)
           T == {f[k] : k \in {k \in 0..m : StatesOf(f[k], g)}}
<1>1. g \in T
  BY DEF Steps, StatesOf
<1>2. ASSUME NEW k \in 1..m, f[k - 1] \in T PROVE FoldStep(pass, f[k - 1], q[k]) \in T
  <2>1. StatesOf(f[k - 1], g) /\ k \in 0..m
    BY <1>2
  <2>2. f[k] = FoldStep(pass, f[k - 1], q[k])
    BY DEF Steps
  <2> QED BY <2>1, <2>2
<1>3. f[m] \in T
  <2> HIDE DEF T
  <2> QED BY <1>1, <1>2, StepsKeep
<1> QED BY <1>3

LEMMA EscapeStates ==
  ASSUME NEW g, IsGraph(g)
  PROVE  Stated(EscapeAnalysis(g)) \subseteq Stated(g)
<1> DEFINE q == InOrder(OfKind(g, AllocationKinds), Len(g))
<1>1. Len(q) \in Nat /\ DOMAIN q = 1..Len(q)
  <2>1. Len(g) \in Nat
    BY GraphFacts
  <2>2. q \in Seq(OfKind(g, AllocationKinds) \cap (1..Len(g)))
    BY <2>1, InOrderEnumerates DEF Enumerates
  <2> HIDE DEF q
  <2> QED BY <2>2
<1>2. PICK f : Steps(f, "EscapeAnalysis", g, q) /\ f[Len(q)] = EscapeAnalysis(g)
  BY <1>1, EscapeSteps
<1> HIDE DEF q
<1>3. ASSUME NEW h, NEW id, StatesOf(h, g) PROVE StatesOf(EscapeStep(h, id), g)
  <2>1. StatesOf(MarkDead(h, id), g)
    BY <1>3, DeadStates DEF MarkDead, StatesOf
  <2> QED BY <1>3, <2>1 DEF EscapeStep
<1>4. StatesOf(f[Len(q)], g)
  BY <1>1, <1>2, <1>3, StepsState, FoldStepOf
<1> QED BY <1>2, <1>4 DEF StatesOf

LEMMA SweepStates ==
  ASSUME NEW g, IsGraph(g)
  PROVE  Stated(DeadCodeElimination(g)) \subseteq Stated(g)
<1> DEFINE q == Ascending(g)
<1>1. Len(g) \in Nat /\ Len(q) = Len(g)
  BY GraphFacts, AscendingFacts
<1>2. PICK f : Steps(f, "DeadCodeElimination", g, q) /\ f[Len(g)] = DeadCodeElimination(g)
  BY <1>1, SweepSteps
<1> HIDE DEF q
<1>3. ASSUME NEW h, StatesOf(h, g) PROVE StatesOf(SweepStep(h), g)
  <2>1. StatesOf(SetFlag(h, Removable(h), "IsDead"), g)
    BY <1>3, DeadStates DEF StatesOf
  <2> QED BY <1>3, <2>1 DEF SweepStep
<1>4. StatesOf(f[Len(q)], g)
  BY <1>1, <1>2, <1>3, StepsState, FoldStepOf
<1> QED BY <1>1, <1>2, <1>4 DEF StatesOf

LEMMA TailCallsState ==
  ASSUME NEW g, IsGraph(g)
  PROVE  Stated(TailCallElimination(g)) \subseteq Stated(g)
<1> DEFINE h == TailCallElimination(g)
           calls == TailCalls(g)
<1>1. Ids(g) = 1..Len(g) /\ Len(h) = Len(g)
  BY GraphFacts, TailCallsGraph
<1>2. \A id \in 1..Len(g) : h[id] = IF id \in calls THEN [g[id] EXCEPT !.kind = "TailCall"] ELSE g[id]
  BY <1>1 DEF TailCallElimination
<1>3. \A id \in 1..Len(g) : GraphNode(g[id])
  BY DEF IsGraph
<1> HIDE DEF h, calls
<1>4. ASSUME NEW m, GraphNode(m)
      PROVE  LET x == [m EXCEPT !.kind = "TailCall"]
             IN  x.flags = m.flags /\ x.val = m.val /\ x.type = m.type
  BY <1>4 DEF GraphNode
<1>5. ASSUME NEW id \in 1..Len(g)
      PROVE  h[id].flags = g[id].flags /\ h[id].val = g[id].val /\ h[id].type = g[id].type
  <2> DEFINE m == g[id]
             x == [m EXCEPT !.kind = "TailCall"]
  <2>1. GraphNode(m) /\ h[id] = IF id \in calls THEN x ELSE m
    BY <1>2, <1>3
  <2> HIDE DEF m
  <2>2. x.flags = m.flags /\ x.val = m.val /\ x.type = m.type
    BY <1>4, <2>1
  <2> HIDE DEF x
  <2>3. h[id].flags = m.flags /\ h[id].val = m.val /\ h[id].type = m.type
    BY <2>1, <2>2
  <2> QED BY <2>3 DEF m
<1>6. Stated(h) \subseteq Stated(g)
  BY <1>1, <1>5, StatesNoMore DEF Has
<1> QED BY <1>6 DEF h

LEMMA StubStates ==
  ASSUME NEW h, IsGraph(h), NEW id \in 1..Len(h)
  PROVE  Stated(StubStep(h, id)) \subseteq Stated(h)
<1> DEFINE n == Len(h)
           e == n + 1
           check == NewNode("CheckClass", <<h[id].in[1]>>, h[id].ctrl, h[id].eff)
           x == StubStep(h, id)
<1>1. /\ IsGraph(x) /\ Len(x) = e /\ x[e] = check /\ x[id] = [h[id] EXCEPT !.eff = e]
      /\ \A k \in 1..n : k # id => x[k] = h[k]
  BY StubGraph
<1>2. n \in Nat /\ \A k \in 1..n : GraphNode(h[k])
  BY GraphFacts DEF IsGraph
<1>3. "IsConst" \notin check.flags
  BY NewNodeFields DEF KindFlags, ControlKinds, Checks, PureKinds, CommutativeKinds, Conversions
<1> HIDE DEF x, check
<1>4. ASSUME NEW k \in 1..n
      PROVE  x[k].flags = h[k].flags /\ x[k].val = h[k].val /\ x[k].type = h[k].type
  <2>1. CASE k = id
    <3> DEFINE m == h[id]
               a == [m EXCEPT !.eff = e]
    <3>1. GraphNode(m) /\ x[id] = a
      BY <1>1, <1>2
    <3> HIDE DEF m, e
    <3>2. a.flags = m.flags /\ a.val = m.val /\ a.type = m.type
      BY <3>1 DEF GraphNode
    <3> QED BY <2>1, <3>1, <3>2 DEF m
  <2> QED BY <1>1, <2>1
<1>5. \A k \in 1..e : k = e \/ k \in 1..n
  BY <1>2
<1> HIDE DEF e
<1>6. Stated(x) \subseteq Stated(h)
  BY <1>1, <1>3, <1>4, <1>5, StatesNoMore DEF Has
<1> QED BY <1>6 DEF x

LEMMA StubsState ==
  ASSUME NEW g, IsGraph(g)
  PROVE  Stated(ICStubEmission(g)) \subseteq Stated(g)
<1> DEFINE n == Len(g)
           q == InOrder(Checked(g), n)
           m == Len(q)
           Fine(h) == IsGraph(h) /\ Len(h) >= n /\ Stated(h) \subseteq Stated(g)
<1>1. n \in Nat
  BY GraphFacts
<1>2. m \in Nat /\ DOMAIN q = 1..m /\ \A k \in 1..m : q[k] \in 1..n
  <2>1. q \in Seq(Checked(g) \cap (1..n))
    BY <1>1, InOrderEnumerates DEF Enumerates
  <2> HIDE DEF q
  <2> QED BY <2>1
<1>3. PICK f : Steps(f, "ICStubEmission", g, q) /\ f[m] = ICStubEmission(g)
  BY <1>2, StubSteps
<1> DEFINE T == {f[k] : k \in {k \in 0..m : Fine(f[k])}}
<1> HIDE DEF q, n, m
<1>4. g \in T
  BY <1>1, <1>2, <1>3 DEF Steps, n
<1>5. ASSUME NEW k \in 1..m, f[k - 1] \in T PROVE FoldStep("ICStubEmission", f[k - 1], q[k]) \in T
  <2> DEFINE b == f[k - 1]
             l == Len(b)
  <2>1. Fine(b) /\ k \in 0..m
    BY <1>2, <1>5
  <2>2. IsGraph(b) /\ l >= n /\ l \in Nat /\ Stated(b) \subseteq Stated(g)
    BY <2>1, GraphFacts
  <2>3. f[k] = StubStep(b, q[k])
    BY <1>3, FoldStepOf DEF Steps, m
  <2> HIDE DEF b
  <2>4. q[k] \in 1..Len(b)
    BY <1>1, <1>2, <2>2
  <2> DEFINE x == StubStep(b, q[k])
  <2>5. IsGraph(x) /\ Len(x) = l + 1
    BY <2>2, <2>4, StubGraph
  <2>6. Stated(x) \subseteq Stated(b)
    BY <2>2, <2>4, StubStates
  <2> HIDE DEF x
  <2>7. Len(x) >= n
    BY <1>1, <2>2, <2>5
  <2>8. Fine(f[k])
    BY <2>2, <2>3, <2>5, <2>6, <2>7 DEF x
  <2>9. f[k] = FoldStep("ICStubEmission", f[k - 1], q[k])
    BY <2>3, FoldStepOf DEF b
  <2> HIDE DEF Fine
  <2> QED BY <2>1, <2>8, <2>9
<1>6. f[m] \in T
  <2> HIDE DEF T
  <2> QED BY <1>2, <1>3, <1>4, <1>5, StepsKeep DEF m
<1> QED BY <1>3, <1>6

LEMMA LaterPassesState ==
  ASSUME NEW g, IsGraph(g), NEW k \in 4..16
  PROVE  Stated(Run(RubyPipeline[k], g)) \subseteq Stated(g)
<1> DEFINE pass == RubyPipeline[k]
           h == Run(pass, g)
           Others == {"CSE", "GVN", "EscapeAnalysis", "Inlining", "TailCallElimination",
                      "ICStubEmission", "DeadCodeElimination"}
<1>1. pass \in FlagPasses \cup Others
  BY DEF RubyPipeline, FlagPasses
<1> HIDE DEF pass
<1>2. CASE pass \in FlagPasses
  BY <1>2, FlagPassesState DEF pass
<1>3. CASE pass \in Others
  <2>1. /\ pass = "CSE" => h = CSE(g)
        /\ pass = "GVN" => h = GVN(g)
        /\ pass = "EscapeAnalysis" => h = EscapeAnalysis(g)
        /\ pass = "Inlining" => h = g
        /\ pass = "TailCallElimination" => h = TailCallElimination(g)
        /\ pass = "ICStubEmission" => h = ICStubEmission(g)
        /\ pass = "DeadCodeElimination" => h = DeadCodeElimination(g)
    BY DEF Run, Inlining
  <2> HIDE DEF h
  <2>2. Stated(h) \subseteq Stated(g)
    BY <1>3, <2>1, NumberingStates, EscapeStates, SweepStates, TailCallsState, StubsState
  <2> QED BY <2>2 DEF h, pass
<1> QED BY <1>1, <1>2, <1>3

-----------------------------------------------------------------------------
(* Until Peephole, which puts shift counts there, the integers beside nodes are *)
(* those of the source's values.  The first three passes kill nothing.          *)
FoldOK ==
  lower.status = "lowered" /\ done < PeepholeAt /\ Sound(source) =>
    /\ done = 0 => graph = source
    /\ done <= 2 => KeepsAll(source, graph) /\ \A id \in 1..Len(graph) : ~Dead(graph, id)
    /\ \A env, V, O : Valued(source, env, V, O) => Right(graph, V)

LEMMA PeepholeIsLate == PeepholeAt = 17
<1>1. 17 \in DOMAIN RubyPipeline /\ RubyPipeline[17] = "Peephole"
  BY DEF RubyPipeline
<1>2. \A k \in DOMAIN RubyPipeline : RubyPipeline[k] = "Peephole" => k = 17
  BY DEF RubyPipeline
<1> HIDE DEF RubyPipeline
<1> QED BY <1>1, <1>2 DEF PeepholeAt

LEMMA SourceFolds ==
  ASSUME NEW src, IsGraph(src), Sound(src)
  PROVE  /\ KeepsAll(src, src) /\ \A id \in 1..Len(src) : ~Dead(src, id)
         /\ \A env, V, O : Valued(src, env, V, O) => Right(src, V)
<1>1. \A id \in 1..Len(src) : LoweredNode(src[id], id)
  BY DEF Sound, ShapedGraph, LoweredGraph
<1>2. \A id \in 1..Len(src) : ~Dead(src, id)
  BY <1>1 DEF LoweredNode, Dead, Has
<1>3. \A env, V, O : Valued(src, env, V, O) => Right(src, V)
  BY SourceComputes DEF Sound
<1> QED BY <1>2, <1>3, KeptByItself

LEMMA FoldInit ==
  ASSUME Init
  PROVE  FoldOK
<1>1. done = 0 /\ graph = source
  <2> DEFINE first == \E m \in Methods : method = m.code /\ LowerInit(m.locals, m.args) /\ source = graph
  <2>1. first \/ source = graph
    BY DEF Init
  <2>2. first => source = graph
    OBVIOUS
  <2> HIDE DEF first
  <2>3. source = graph
    BY <2>1, <2>2
  <2> QED BY <2>3 DEF Init
<1>2. lower.status = "lowered" => IsGraph(source)
  BY <1>1, OptimizerInit, PipelineLengths DEF OptimizerOK
<1> QED BY <1>1, <1>2, SourceFolds DEF FoldOK

(* A pass that marks kills nothing.                                             *)
LEMMA MarkedLives ==
  ASSUME NEW g, IsGraph(g), \A id \in 1..Len(g) : ~Dead(g, id), NEW h, MarksOthers(g, h)
  PROVE  KeepsAll(g, h) /\ \A id \in 1..Len(h) : ~Dead(h, id)
<1>1. KeepsAll(g, h)
  BY MarkedKept
<1>2. Ids(g) = 1..Len(g) /\ Len(h) = Len(g) /\ \A id \in 1..Len(g) : GraphNode(g[id])
  BY <1>1, GraphFacts DEF IsGraph, KeepsAll
<1>3. ASSUME NEW id \in 1..Len(g) PROVE ~Dead(h, id)
  <2>1. CASE h[id] = g[id]
    BY <2>1 DEF Dead, Has
  <2>2. ASSUME NEW v, h[id] \in {Mark(g[id], v), MarkInt(g[id], v)} PROVE ~Dead(h, id)
    <3>1. h[id].flags = g[id].flags \cup {"IsConst"}
      BY <1>2, <2>2, MarkedNode
    <3> QED BY <3>1 DEF Dead, Has
  <2> QED BY <1>2, <2>1, <2>2 DEF MarksOthers
<1> QED BY <1>1, <1>2, <1>3

(* The first three passes.                                                      *)
LEMMA FirstPassesFold ==
  ASSUME NEW src, Sound(src), NEW g, KeepsAll(src, g), \A id \in 1..Len(g) : ~Dead(g, id),
         \A env, V, O : Valued(src, env, V, O) => Right(g, V),
         NEW k \in 1..3, k = 1 => g = src
  PROVE  LET h == Run(RubyPipeline[k], g)
         IN  /\ KeepsAll(src, h) /\ \A id \in 1..Len(h) : ~Dead(h, id)
             /\ \A env, V, O : Valued(src, env, V, O) => Right(h, V)
<1> DEFINE h == Run(RubyPipeline[k], g)
<1>1. /\ k = 1 => h = AlgebraicSimplification(g)
      /\ k = 2 => h = SCCP(g)
      /\ k = 3 => h = ConstantFolding(g)
  BY DEF Run, RubyPipeline
<1> HIDE DEF h
<1>2. k = 1 \/ k = 2 \/ k = 3
  OBVIOUS
<1>3. IsGraph(g) /\ Len(g) = Len(src) /\ ShapedGraph(src)
  BY DEF KeepsAll, Sound
<1>4. ASSUME NEW id \in 1..Len(g)
      PROVE  /\ g[id].kind \in ConstKinds => Has(g, id, "IsConst")
             /\ src[id].type = "Int" => src[id].kind = "ConstInt"
  <2>1. Shaped(src[id]) /\ Keeps(src[id], g[id])
    BY <1>3 DEF ShapedGraph, KeepsAll
  <2> QED BY <2>1 DEF Shaped, Keeps, Has
<1>5. MarksOthers(g, SCCP(g))
  BY <1>4, SCCPMarksOthers
<1>6. MarksOthers(g, h)
  BY <1>1, <1>2, <1>5, SimplificationMarksOthers, FoldingMarksOthers
<1>7. KeepsAll(g, h) /\ \A id \in 1..Len(h) : ~Dead(h, id)
  BY <1>3, <1>6, MarkedLives
<1>8. KeepsAll(src, h)
  BY <1>7, KeptOfKept
<1>9. ASSUME NEW env, NEW V, NEW O, Valued(src, env, V, O) PROVE Right(h, V)
  <2>1. TwoBefore(src) /\ Computes(src, V)
    BY <1>3, <1>9, SourceComputes
  <2>2. TwoBefore(g) /\ Computes(g, V) /\ Right(g, V)
    BY <1>9, <2>1, KeptComputes
  <2>3. k = 1 => Right(AlgebraicSimplification(g), V)
    BY <1>3, <1>4, <2>2, SimplificationRight
  <2>4. Right(SCCP(g), V) /\ Right(ConstantFolding(g), V)
    BY <1>3, <2>2, SCCPRight, FoldingRight
  <2> QED BY <1>1, <1>2, <2>3, <2>4
<1> QED BY <1>7, <1>8, <1>9 DEF h

LEMMA FoldStepOK ==
  ASSUME LoweringOK, OptimizerOK, FoldOK, [Next]_vars
  PROVE  FoldOK'
<1>1. CASE Lower
  <2>1. source' = graph' /\ done' = done
    BY <1>1 DEF Lower
  <2>2. lower.status = "lowering"
    <3>1. LowerNext \/ CilLowerNext
      BY <1>1 DEF Lower
    <3> QED BY <3>1 DEF LowerNext, CilLowerNext, Lowering, LowerConst, LowerLoad, LowerStore, LowerIinc,
       LowerStackOp, LowerPure, LowerEffect, LowerIf, LowerGoto, LowerReturn, LowerSwitch, LowerEnd,
       LowerLdC, LowerLdLoc, LowerStLoc, LowerCilStack, LowerCilPure, LowerObject, LowerBr,
       LowerBrIf, LowerBrCmp, LowerRet, LowerUnsupported
  <2>3. Sound(source') => IsGraph(source')
    BY LoweredIsGraph DEF Sound, ShapedGraph
  <2> QED BY <2>1, <2>3, SourceFolds DEF FoldOK
<1>2. CASE Optimize
  <2> DEFINE pass == RubyPipeline[done + 1]
  <2>1. /\ lower.status = "lowered" /\ done < Len(RubyPipeline) /\ graph' = Run(pass, graph)
        /\ done' = done + 1 /\ lower' = lower /\ source' = source
    BY <1>2 DEF Optimize
  <2>2. done \in 0..18 /\ IsGraph(graph)
    BY <2>1, PipelineLengths DEF OptimizerOK
  <2> SUFFICES ASSUME Sound(source), done' < PeepholeAt
               PROVE  /\ done' <= 2 => KeepsAll(source, graph') /\ \A id \in 1..Len(graph') : ~Dead(graph', id)
                      /\ \A env, V, O : Valued(source, env, V, O) => Right(graph', V)
    <3>1. done' # 0
      BY <2>1, <2>2
    <3> QED BY <2>1, <3>1 DEF FoldOK, PeepholeAt
  <2>3. done < PeepholeAt /\ done \in 0..15
    BY <2>1, <2>2, PeepholeIsLate
  <2>4. \A env, V, O : Valued(source, env, V, O) => Right(graph, V)
    BY <2>1, <2>3 DEF FoldOK
  <2> DEFINE k == done + 1
  <2>5. CASE done <= 2
    <3>1. KeepsAll(source, graph) /\ (\A id \in 1..Len(graph) : ~Dead(graph, id)) /\ (done = 0 => graph = source)
      BY <2>1, <2>3, <2>5 DEF FoldOK
    <3>2. k \in 1..3 /\ (k = 1 => graph = source)
      BY <2>3, <2>5, <3>1
    <3> HIDE DEF k
    <3>3. LET h == Run(RubyPipeline[k], graph)
          IN  /\ KeepsAll(source, h) /\ \A id \in 1..Len(h) : ~Dead(h, id)
              /\ \A env, V, O : Valued(source, env, V, O) => Right(h, V)
      BY <2>4, <3>1, <3>2, FirstPassesFold
    <3> QED BY <2>1, <3>3 DEF k
  <2>6. CASE done > 2
    <3>1. k \in 4..16 /\ ~(done' <= 2)
      BY <2>1, <2>3, <2>6
    <3> HIDE DEF k
    <3>2. Stated(Run(RubyPipeline[k], graph)) \subseteq Stated(graph)
      BY <2>2, <3>1, LaterPassesState
    <3>3. Stated(graph') \subseteq Stated(graph)
      BY <2>1, <3>2 DEF k
    <3> QED BY <2>4, <3>1, <3>3, RightWithLess
  <2> QED BY <2>3, <2>5, <2>6
<1>3. CASE CompilePeak
  <2>1. done' = Len(DiamondPipeline)
    BY <1>3 DEF CompilePeak
  <2>2. ~(done' < 17)
    BY <2>1, PipelineLengths
  <2> QED BY <2>2, PeepholeIsLate DEF FoldOK, PeepholeAt
<1>4. CASE Call \/ Interpret \/ PassTraps \/ UNCHANGED vars
  <2>1. /\ lower' = lower /\ graph' = graph /\ done' = done /\ source' = source
    BY <1>4 DEF Call, Interpret, PassTraps, vars, lowerVars, pipeVars
  <2> QED BY <2>1 DEF FoldOK, PeepholeAt
<1> QED BY <1>1, <1>2, <1>3, <1>4 DEF Next

LEMMA FoldAlwaysOK == Spec => []FoldOK
<1>1. Init => FoldOK
  BY FoldInit
<1>2. LoweringOK /\ OptimizerOK /\ FoldOK /\ [Next]_vars => FoldOK'
  BY FoldStepOK
<1> QED BY <1>1, <1>2, LoweringAlwaysOK, OptimizerAlwaysOK, PTL DEF Spec

(* What a run knows of the nodes it was at are the source's values.             *)
LEMMA AgreeingRunKnows ==
  ASSUME NEW src, Sound(src), NEW env, NEW V, NEW O, Valued(src, env, V, O),
         NEW g, Forward(g), Agrees(src, g, V),
         \A x \in 1..Len(src) : Has(src, x, "Effect") => ~Dead(g, x), NEW fuel \in Nat
  PROVE  Ran(MachineRun(g, env, fuel), g, V)
<1> DEFINE T == {x \in 1..Len(src) : ~Dead(g, x) /\ Leaves(src[x].kind, Reads(src, V, x))}
<1>1. Len(src) \in Nat /\ ShapedGraph(src)
  BY LenProperties DEF Sound, ShapedGraph, LoweredGraph
<1>2. PICK f \in T : \A x \in T : f <= x
  <2>1. PICK r \in 1..Len(src) : src[r].kind = "Return"
    BY DEF Sound
  <2>2. Kindred(src[r], g[r], V)
    BY DEF Agrees
  <2>3. ~Dead(g, r)
    BY <2>1, <2>2 DEF Kindred, Dead, Has
  <2>4. r \in T
    BY <2>1, <2>3 DEF Leaves, EndKinds
  <2>5. T \subseteq Nat /\ T # {}
    BY <2>4
  <2> HIDE DEF T
  <2> QED BY <2>5, LeastNat
<1>3. f \in 1..Len(src) /\ ~Dead(g, f) /\ Leaves(src[f].kind, Reads(src, V, f))
  OBVIOUS
<1>4. \A id \in 1..f - 1 : ~Dead(g, id) => ~Leaves(src[id].kind, Reads(src, V, id))
  <2> SUFFICES ASSUME NEW id \in 1..f - 1, ~Dead(g, id), Leaves(src[id].kind, Reads(src, V, id)) PROVE FALSE
    OBVIOUS
  <2>1. id \in 1..Len(src) /\ ~(f <= id)
    BY <1>1, <1>3
  <2>2. id \in T
    BY <2>1
  <2> QED BY <1>2, <2>1, <2>2
<1> HIDE DEF T
<1>5. Means(g, env, V, O, f)
  BY <1>1, <1>3, <1>4, AgreeingMeans
<1> QED BY <1>5, RunKnows

LEMMA FoldedRunsRight ==
  ASSUME DebugBuild = TRUE, ForwardOK, OptimizerOK, MeaningOK, FoldOK, Sound(source),
         lower.status = "lowered", done < PeepholeAt, ~rejected,
         NEW env, Alike(source, env), NEW id \in MachineRun(graph, env, Fuel).ran,
         Has(graph, id, "IsConst"), graph[id].type = "Int"
  PROVE  MachineRun(graph, env, Fuel).vals[id] = graph[id].val
<1>1. done \in 0..16 /\ done <= Len(RubyPipeline)
  <2>1. done \in 0..19 \cup {Len(DiamondPipeline)}
    BY PipelineLengths DEF OptimizerOK
  <2> QED BY <2>1, PipelineLengths, PeepholeIsLate
<1>2. KeepsMeaning(source, graph) /\ Forward(graph) /\ IsGraph(graph)
  <2>1. OnlyForward
    BY DEF OnlyForward, Sound
  <2> QED BY <1>1, <2>1 DEF MeaningOK, OptimizerOK, ForwardOK
<1>3. PICK V, O : Valued(source, env, V, O)
  BY ValuesFound DEF Alike, Sound
<1>4. PICK p, c : Uniform(source, env, p, c)
  BY AlikeUniform
<1>5. Agrees(source, graph, V)
  BY <1>2, <1>3, <1>4 DEF KeepsMeaning
<1>6. Len(source) \in Nat /\ Len(graph) \in Nat /\ Len(source) <= Len(graph)
  BY <1>2, <1>5, GraphFacts, LenProperties DEF Sound, ShapedGraph, LoweredGraph, Agrees
<1>7. \A x \in 1..Len(source) : Has(source, x, "Effect") => ~Dead(graph, x)
  <2>1. CASE done <= 2
    <3>1. \A x \in 1..Len(graph) : ~Dead(graph, x)
      BY <2>1 DEF FoldOK
    <3> QED BY <1>6, <3>1
  <2>2. CASE done > 2
    <3>1. Verified(graph)
      BY <1>1, <2>2, PipelineLengths DEF OptimizerOK
    <3> QED BY <1>5, <1>6, <3>1, EffectsLive
  <2> QED BY <1>1, <2>1, <2>2
<1>8. Ran(MachineRun(graph, env, Fuel), graph, V)
  BY <1>2, <1>3, <1>5, <1>7, FuelAssumption, AgreeingRunKnows
<1>9. id \in 1..Len(graph) /\ MachineRun(graph, env, Fuel).vals[id] = V[id]
  BY <1>8 DEF Ran, Live, Ids
<1>10. Right(graph, V)
  BY <1>3 DEF FoldOK
<1> QED BY <1>9, <1>10, RightAt

(* Whatever a debug build folds is right: until Peephole, an integer that       *)
(* AlgebraicSimplification, SCCP or ConstantFolding puts beside a node is what  *)
(* the node computes when a run comes to it.  This is so of every method, and   *)
(* of every environment that does not tell incoming locals apart, since the     *)
(* numberings that run in between take them for one.  The quotient of the least *)
(* value by -1 is the one operation with known operands that has no result: the *)
(* pass that comes to it faults (PassTraps of JvmPipeline) and folds nothing,   *)
(* so there is no graph of which the theorem would have to say anything.        *)
THEOREM FoldedValuesAreAlwaysRight ==
  ASSUME DebugBuild = TRUE
  PROVE  Spec => [](LikeLowered /\ (\A env \in Environments : Alike(source, env))
                    => FoldedValuesAreRight)
<1>1. ForwardOK /\ OptimizerOK /\ MeaningOK /\ FoldOK
        => (LikeLowered /\ (\A env \in Environments : Alike(source, env)) => FoldedValuesAreRight)
  <2> SUFFICES ASSUME ForwardOK, OptimizerOK, MeaningOK, FoldOK, LikeLowered,
                      lower.status = "lowered", 0 < done, done < PeepholeAt, ~rejected,
                      NEW env \in Environments, Alike(source, env),
                      NEW id \in MachineRun(graph, env, Fuel).ran,
                      Has(graph, id, "IsConst"), graph[id].type = "Int"
               PROVE  MachineRun(graph, env, Fuel).vals[id] = graph[id].val
    BY DEF FoldedValuesAreRight
  <2>1. Sound(source)
    BY DEF MeaningOK, LikeLowered
  <2> QED BY <2>1, FoldedRunsRight
<1> QED BY <1>1, AlwaysForward, OptimizerAlwaysOK, MeaningAlwaysOK, FoldAlwaysOK, PTL

=============================================================================
