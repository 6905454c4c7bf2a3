---------------------------- MODULE Passes_proofs -----------------------------
(*******************************************************************************)
(* Two results about every pass, whether or not the graph can be run.          *)
(*                                                                             *)
(* Types: what the two lowerings build, and every pass of DIAMOND and RUBY     *)
(* makes of it, is a graph whose operands are its own nodes, or none; and      *)
(* granit stays within its stack.  Every pass is a fold over a graph, or over  *)
(* a list of its nodes; each step of each fold keeps the operands nodes of the *)
(* graph and never makes the graph shorter.                                    *)
(*                                                                             *)
(* Idempotence: a RUBY pass run again leaves the graph as it is.  Of most      *)
(* passes that is shown for every graph, by what a pass looks at being what it *)
(* leaves alone; of constant folding and the value numberings for graphs whose *)
(* operands come first; of the two passes that may do more in a second run, by *)
(* the verifier refusing what their first run made.                            *)
(*******************************************************************************)
EXTENDS Optimizer_proofs

-----------------------------------------------------------------------------
(* Types.  The operands of a node are nodes of the graph, or none, whatever the *)
(* passes of both tiers do; and granit's stack stays within its capacity.       *)

TypedNode(x, n) == GraphNode(x) /\ x.in \in Seq(0..n) /\ x.cls \in Nat

Typed(g) == IsGraph(g) /\ \A id \in 1..Len(g) : TypedNode(g[id], Len(g))

(* At least n nodes.                                                            *)
Grown0(n, g) == Typed(g) /\ n <= Len(g)

(* The states of folds: graphs, alone or with the copies made of some nodes,    *)
(* with a table of some, or with the verdict of the verifier; nodes of a pack;  *)
(* the graph n with class checks in front of some of its calls.                 *)
Fine(what, n, s) ==
  CASE what = "graph" -> Grown0(n, s)
    [] what = "copies" -> /\ s = [g |-> s.g, copies |-> s.copies] /\ Grown0(n, s.g)
                          /\ \A x \in DOMAIN s.copies : s.copies[x] \in 1..Len(s.g)
    [] what = "table" -> IsAt(s, n) /\ Typed(s.g) /\ \A e \in s.table : e.id \in 1..n
    [] what = "calls" -> Grown0(Len(n), s) /\ \A id \in 1..Len(n) : s[id].in = n[id].in
    [] what = "verdict" -> s = [g |-> s.g, rejected |-> s.rejected] /\ Grown0(n, s.g)
    [] what = "pack" -> IsStack(s) /\ \A k \in 1..Len(s) : s[k] \in 1..n

FoldIn(fold, a, b, c, d, base, q) ==
  (CHOOSE f : IsFoldIn(f, fold, a, b, c, d, base, q, Len(q)))[1..Len(q)]

LEMMA FoldFine ==
  ASSUME NEW fold, NEW a, NEW b, NEW c, NEW d, NEW base, NEW q, Len(q) \in Nat,
         DOMAIN q = 1..Len(q), NEW what, NEW n, Fine(what, n, base),
         \A k \in 1..Len(q) : \A s : Fine(what, n, s) => Fine(what, n, FoldStepIn(fold, a, b, c, d, s, q[k]))
  PROVE  Fine(what, n, FoldIn(fold, a, b, c, d, base, q))
<1> DEFINE m == Len(q)
           w == CHOOSE f : IsFoldIn(f, fold, a, b, c, d, base, q, m)
<1>1. IsFoldIn(w, fold, a, b, c, d, base, q, m)
  BY FoldInExists
<1>7. FoldIn(fold, a, b, c, d, base, q) = w[1..m]
  BY DEF FoldIn
<1> HIDE DEF w
<1> DEFINE V == {w[s] : s \in {s \in SUBSET (1..m) : Fine(what, n, w[s])}}
<1>2. w[{}] = base /\ {} \in SUBSET (1..m)
  BY <1>1 DEF IsFoldIn
<1>3. w[{}] \in V
  BY <1>2
<1>4. ASSUME NEW k \in 1..m, w[1..k - 1] \in V PROVE w[1..k] \in V
  <2>1. Fine(what, n, w[1..k - 1])
    BY <1>4
  <2>2. k - 1 \in Nat /\ (k - 1) + 1 = k /\ 1..k \in SUBSET (1..m) /\ 1..k # {} /\ k \in 1..k
        /\ (1..k) \ {k} = 1..k - 1
    <3>1. m \in Nat
      OBVIOUS
    <3> HIDE DEF m
    <3> QED BY <3>1, PrefixOfPrefix
  <2>3. Max(1..k) = k
    <3> DEFINE j == k - 1
    <3>1. j \in Nat /\ j + 1 = k
      BY <2>2
    <3> HIDE DEF j
    <3>2. 1..k \in SUBSET (1..j + 1) /\ j + 1 \in 1..k
      BY <2>2, <3>1
    <3>3. Max(1..k) = j + 1
      BY <3>1, <3>2, MaxOfPrefix
    <3> QED BY <3>1, <3>3
  <2> DEFINE t == 1..k
             p == 1..k - 1
  <2>4. t \in SUBSET (1..m) /\ t # {} /\ t \ {k} = p /\ Max(t) = k
    BY <2>2, <2>3
  <2> HIDE DEF t, p
  <2>5. w[t] = FoldStepIn(fold, a, b, c, d, w[p], q[k])
    BY <1>1, <2>4 DEF IsFoldIn
  <2>6. Fine(what, n, w[t])
    BY <2>1, <2>5 DEF p
  <2>7. w[t] \in V
    BY <2>4, <2>6
  <2> QED BY <2>7 DEF t
<1>5. w[1..m] \in V
  <2> HIDE DEF V
  <2>1. m \in Nat
    OBVIOUS
  <2> HIDE DEF m
  <2> QED BY <1>3, <1>4, <2>1, FoldStays
<1>6. Fine(what, n, w[1..m])
  BY <1>5
<1> QED BY <1>6, <1>7

IsList(q) == Len(q) \in Nat /\ DOMAIN q = 1..Len(q)

LEMMA ForwardLoadsFold ==
  ASSUME NEW g, NEW u, NEW o, NEW q, IsList(q),
         q = InOrder({id \in Users(LiveUses(g, u, o)) : g[id].kind \in LoadKinds}, Len(g))
  PROVE  ForwardLoads(g, u, o) = FoldIn("ForwardLoads", g, u, o, 0, g, q)
<1> DEFINE step(s, id) == LoadForwarded(g, u, o, s, id)
<1>1. ForwardLoads(g, u, o) = FoldLeft(step, g, q)
  BY DEF ForwardLoads, LoadForwarded
<1>2. FoldLeft(step, g, q) = FoldIn("ForwardLoads", g, u, o, 0, g, q)
  BY DEF IsList, FoldLeft, MapThenFoldSet, FoldIn, IsFoldIn, FoldStepIn
<1> HIDE DEF step
<1> QED BY <1>1, <1>2

LEMMA InsertMaterializeFold ==
  ASSUME NEW g, NEW u, NEW o, NEW values, NEW e, e = Escaping(g, LiveUses(g, u, o)),
         NEW q, IsList(q), q = InOrder(Users(e), Len(g))
  PROVE  InsertMaterialize(g, u, o, values) = FoldIn("InsertMaterialize", g, e, o, values, g, q)
<1> DEFINE step(s, id) == UserMaterialized(g, e, o, values, s, id)
<1>1. InsertMaterialize(g, u, o, values) = FoldLeft(step, g, q)
  BY DEF InsertMaterialize, UserMaterialized, UseMaterialized
<1>2. FoldLeft(step, g, q) = FoldIn("InsertMaterialize", g, e, o, values, g, q)
  BY DEF IsList, FoldLeft, MapThenFoldSet, FoldIn, IsFoldIn, FoldStepIn
<1> HIDE DEF step
<1> QED BY <1>1, <1>2

LEMMA UserMaterializedFold ==
  ASSUME NEW g, NEW e, NEW o, NEW values, NEW h, NEW user, NEW q, IsList(q),
         q = [k \in DOMAIN g[user].in |-> k]
  PROVE  UserMaterialized(g, e, o, values, h, user) = FoldIn("MaterializeAt", e, o, values, user, h, q)
<1> DEFINE step(s, id) == UseMaterialized(e, o, values, user, s, id)
<1>1. UserMaterialized(g, e, o, values, h, user) = FoldLeft(step, h, q)
  BY DEF UserMaterialized
<1>2. FoldLeft(step, h, q) = FoldIn("MaterializeAt", e, o, values, user, h, q)
  BY DEF IsList, FoldLeft, MapThenFoldSet, FoldIn, IsFoldIn, FoldStepIn
<1> HIDE DEF step
<1> QED BY <1>1, <1>2

LEMMA RemoveStoresFold ==
  ASSUME NEW g, NEW u, NEW o, NEW q, IsList(q),
         q = InOrder(Users(Stores(g, u, o)), Len(g))
  PROVE  RemoveStores(g, u, o) = FoldIn("RemoveStores", 0, 0, 0, 0, g, q)
<1>1. RemoveStores(g, u, o) = FoldLeft(Bypass, g, q)
  BY DEF RemoveStores
<1>2. FoldLeft(Bypass, g, q) = FoldIn("RemoveStores", 0, 0, 0, 0, g, q)
  BY DEF IsList, FoldLeft, MapThenFoldSet, FoldIn, IsFoldIn, FoldStepIn
<1> QED BY <1>1, <1>2

LEMMA UserUnboxedFold ==
  ASSUME NEW g, NEW e, NEW box, NEW value, NEW h, NEW user, NEW q, IsList(q),
         q = [k \in DOMAIN g[user].in |-> k]
  PROVE  UserUnboxed(g, e, box, value, h, user) = FoldIn("UnboxUse", e, box, value, user, h, q)
<1> DEFINE step(s, id) == UseUnboxed(e, box, value, user, s, id)
<1>1. UserUnboxed(g, e, box, value, h, user) = FoldLeft(step, h, q)
  BY DEF UserUnboxed
<1>2. FoldLeft(step, h, q) = FoldIn("UnboxUse", e, box, value, user, h, q)
  BY DEF IsList, FoldLeft, MapThenFoldSet, FoldIn, IsFoldIn, FoldStepIn
<1> HIDE DEF step
<1> QED BY <1>1, <1>2

LEMMA UnboxUsesFold ==
  ASSUME NEW g, NEW u, NEW box, NEW value, NEW e, NEW q, IsList(q),
         e = LiveUses(g, u, box), q = InOrder(Users(e), Len(g))
  PROVE  UnboxUses(g, u, box, value) = FoldIn("UnboxUses", g, e, box, value, g, q)
<1> DEFINE step(s, id) == UserUnboxed(g, e, box, value, s, id)
<1>1. UnboxUses(g, u, box, value) = FoldLeft(step, g, q)
  BY DEF UnboxUses, UserUnboxed, UseUnboxed
<1>2. FoldLeft(step, g, q) = FoldIn("UnboxUses", g, e, box, value, g, q)
  BY DEF IsList, FoldLeft, MapThenFoldSet, FoldIn, IsFoldIn, FoldStepIn
<1> HIDE DEF step
<1> QED BY <1>1, <1>2

LEMMA RoundTripsFold ==
  ASSUME NEW g, NEW q, IsList(q),
         q = InOrder({id \in OfKind(g, {"Unbox", "UnboxAny"}) : g[id].in # <<>>}, Len(g))
  PROVE  RoundTrips(g) = FoldIn("RoundTrips", 0, 0, 0, 0, g, q)
<1> DEFINE step(s, id) == TripRemoved(s, id)
<1>1. RoundTrips(g) = FoldLeft(step, g, q)
  BY DEF RoundTrips, TripRemoved
<1>2. FoldLeft(step, g, q) = FoldIn("RoundTrips", 0, 0, 0, 0, g, q)
  BY DEF IsList, FoldLeft, MapThenFoldSet, FoldIn, IsFoldIn, FoldStepIn
<1> HIDE DEF step
<1> QED BY <1>1, <1>2

LEMMA PEARoundFold ==
  ASSUME NEW g, NEW q, IsList(q),
         q = InOrder(OfKind(g, AllocationKinds), Len(g))
  PROVE  PEARound(g) = FoldIn("PEARound", g, 0, 0, 0, g, q)
<1> DEFINE step(s, id) == ProcessBoth(s, g, id)
<1>1. PEARound(g) = FoldLeft(step, g, q)
  BY DEF PEARound
<1>2. FoldLeft(step, g, q) = FoldIn("PEARound", g, 0, 0, 0, g, q)
  BY DEF IsList, FoldLeft, MapThenFoldSet, FoldIn, IsFoldIn, FoldStepIn
<1> HIDE DEF step
<1> QED BY <1>1, <1>2

LEMMA ProcessBoxesFold ==
  ASSUME NEW g, NEW q, IsList(q),
         q = InOrder(OfKind(g, {"Box"}), Len(g))
  PROVE  ProcessBoxes(g) = FoldIn("ProcessBoxes", g, 0, 0, 0, g, q)
<1> DEFINE step(s, id) == ProcessBox(s, g, id)
<1>1. ProcessBoxes(g) = FoldLeft(step, g, q)
  BY DEF ProcessBoxes
<1>2. FoldLeft(step, g, q) = FoldIn("ProcessBoxes", g, 0, 0, 0, g, q)
  BY DEF IsList, FoldLeft, MapThenFoldSet, FoldIn, IsFoldIn, FoldStepIn
<1> HIDE DEF step
<1> QED BY <1>1, <1>2

LEMMA ProcessAllocationsFold ==
  ASSUME NEW g, NEW q, IsList(q),
         q = InOrder(OfKind(g, AllocationKinds \ {"Box"}), Len(g))
  PROVE  ProcessAllocations(g) = FoldIn("ProcessAllocations", g, 0, 0, 0, g, q)
<1> DEFINE step(s, id) == ProcessAllocation(s, g, id)
<1>1. ProcessAllocations(g) = FoldLeft(step, g, q)
  BY DEF ProcessAllocations
<1>2. FoldLeft(step, g, q) = FoldIn("ProcessAllocations", g, 0, 0, 0, g, q)
  BY DEF IsList, FoldLeft, MapThenFoldSet, FoldIn, IsFoldIn, FoldStepIn
<1> HIDE DEF step
<1> QED BY <1>1, <1>2

LEMMA SRAFold ==
  ASSUME NEW g, NEW q, IsList(q),
         q = InOrder({o \in OfKind(g, AllocationKinds \ {"Box"}) :
                        ~HasGuardRefs(g, g, o) /\ Escaping(g, LiveUses(g, g, o)) = {}}, Len(g))
  PROVE  SRA(g) = FoldIn("SRA", g, 0, 0, 0, g, q)
<1> DEFINE step(s, id) == SRAObject(s, g, id)
<1>1. SRA(g) = FoldLeft(step, g, q)
  BY DEF SRA
<1>2. FoldLeft(step, g, q) = FoldIn("SRA", g, 0, 0, 0, g, q)
  BY DEF IsList, FoldLeft, MapThenFoldSet, FoldIn, IsFoldIn, FoldStepIn
<1> HIDE DEF step
<1> QED BY <1>1, <1>2

LEMMA PackFold ==
  ASSUME NEW g, NEW kind, NEW q, IsList(q),
         q = InOrder({id \in OfKind(g, {kind}) : Has(g, id, "Pure") /\ Len(g[id].in) = 2}, Len(g))
  PROVE  Pack(g, kind) = FoldIn("Pack", g, 0, 0, 0, <<>>, q)
<1> DEFINE step(s, id) == PackedWith(g, s, id)
<1>1. Pack(g, kind) = FoldLeft(step, <<>>, q)
  BY DEF Pack, PackedWith
<1>2. FoldLeft(step, <<>>, q) = FoldIn("Pack", g, 0, 0, 0, <<>>, q)
  BY DEF IsList, FoldLeft, MapThenFoldSet, FoldIn, IsFoldIn, FoldStepIn
<1> HIDE DEF step
<1> QED BY <1>1, <1>2

LEMMA SLPFold ==
  ASSUME NEW g, NEW q, IsList(q),
         q = [k \in DOMAIN PackableKinds |-> k]
  PROVE  SLP(g) = FoldIn("SLP", 0, 0, 0, 0, g, q)
<1>1. SLP(g) = FoldLeft(PackKind, g, q)
  BY DEF SLP
<1>2. FoldLeft(PackKind, g, q) = FoldIn("SLP", 0, 0, 0, 0, g, q)
  BY DEF IsList, FoldLeft, MapThenFoldSet, FoldIn, IsFoldIn, FoldStepIn
<1> QED BY <1>1, <1>2

LEMMA RunPipelineFold ==
  ASSUME NEW g, NEW build, NEW q, IsList(q)
  PROVE  RunPipeline(q, g, build) = FoldIn("Pipeline", build, 0, 0, 0, [g |-> g, rejected |-> FALSE], q)
<1> DEFINE step(s, id) == PassRun(build, s, id)
<1>1. RunPipeline(q, g, build) = FoldLeft(step, [g |-> g, rejected |-> FALSE], q)
  BY DEF RunPipeline, PassRun
<1>2. FoldLeft(step, [g |-> g, rejected |-> FALSE], q) = FoldIn("Pipeline", build, 0, 0, 0, [g |-> g, rejected |-> FALSE], q)
  BY DEF IsList, FoldLeft, MapThenFoldSet, FoldIn, IsFoldIn, FoldStepIn
<1> HIDE DEF step
<1> QED BY <1>1, <1>2

LEMMA RoundsFold ==
  ASSUME NEW g, NEW h, NEW q, IsList(q), q = [k \in 1..PEARounds |-> k], h # g
  PROVE  RoundsWhileChanged(g, h) = FoldIn("PEARounds", 0, 0, 0, 0, h, q)
<1> DEFINE step(s, id) == PEARound(s)
<1>1. RoundsWhileChanged(g, h) = FoldLeft(step, h, q)
  BY DEF RoundsWhileChanged
<1>2. FoldLeft(step, h, q) = FoldIn("PEARounds", 0, 0, 0, 0, h, q)
  BY ONLY IsList(q) DEF IsList, FoldLeft, MapThenFoldSet, FoldIn, IsFoldIn, FoldStepIn
<1> HIDE DEF step
<1> QED BY <1>1, <1>2

LEMMA SRAObjectFolds ==
  ASSUME NEW g, NEW u, NEW o, NEW q, IsList(q), NEW p, IsList(p),
         q = InOrder({id \in Users(LiveUses(g, u, o)) : g[id].kind \in LoadKinds}, Len(g)),
         p = InOrder(Users(Stores(g, u, o)), Len(g))
  PROVE  LET loaded == FoldIn("SRALoads", g, u, o, 0, g, q)
             dropped == FoldIn("SRAStores", u, 0, 0, 0, loaded, p)
         IN  SRAObject(g, u, o) \in {dropped, MarkDead(dropped, o)}
<1> DEFINE known(s, id) == LoadKnown(g, u, o, s, id)
           drop(s, id) == StoreDropped(u, s, id)
           loaded == FoldLeft(known, g, q)
           dropped == FoldLeft(drop, loaded, p)
<1>1. SRAObject(g, u, o) \in {dropped, MarkDead(dropped, o)}
  BY DEF SRAObject, LoadKnown, StoreDropped
<1>2. loaded = FoldIn("SRALoads", g, u, o, 0, g, q)
  BY DEF IsList, FoldLeft, MapThenFoldSet, FoldIn, IsFoldIn, FoldStepIn
<1> HIDE DEF known, loaded
<1>3. dropped = FoldIn("SRAStores", u, 0, 0, 0, loaded, p)
  BY DEF IsList, FoldLeft, MapThenFoldSet, FoldIn, IsFoldIn, FoldStepIn
<1> HIDE DEF drop, dropped
<1> QED BY <1>1, <1>2, <1>3

LEMMA LoopUnrolledFold ==
  ASSUME NEW g, NEW bs, NEW x, NEW h, NEW q, IsList(q), q = Copied(g, bs, h - 1)
  PROVE  LoopUnrolled(g, bs, x, h) = FoldIn("CopyNode", 0, 0, 0, 0, [g |-> x, copies |-> <<>>], q).g
<1> DEFINE base == [g |-> x, copies |-> <<>>]
<1>1. LoopUnrolled(g, bs, x, h) = FoldLeft(CopyNode, base, q).g
  BY DEF LoopUnrolled
<1> HIDE DEF base
<1>2. FoldLeft(CopyNode, base, q) = FoldIn("CopyNode", 0, 0, 0, 0, base, q)
  BY DEF IsList, FoldLeft, MapThenFoldSet, FoldIn, IsFoldIn, FoldStepIn
<1> QED BY <1>1, <1>2 DEF base

LEMMA LoopUnrollingFold ==
  ASSUME NEW g, NEW bs, bs = BlockStructure(g), NEW L,
         L = {h + 1 : h \in {h \in Blocks(bs) :
                 IsLoopHeader(g, bs, h)
                 /\ Cardinality(LoopNodes(g, bs, h)) \in MinBodySize..MaxBodySize}},
         NEW q, IsList(q), q = InOrder(L, Len(bs))
  PROVE  LoopUnrolling(g) = FoldIn("LoopUnrolling", g, bs, 0, 0, g, q)
<1> DEFINE step(s, id) == LoopUnrolled(g, bs, s, id)
<1>1. LoopUnrolling(g) = FoldLeft(step, g, q)
  BY DEF LoopUnrolling, LoopUnrolled, Copied
<1>2. FoldLeft(step, g, q) = FoldIn("LoopUnrolling", g, bs, 0, 0, g, q)
  BY DEF IsList, FoldLeft, MapThenFoldSet, FoldIn, IsFoldIn, FoldStepIn
<1> HIDE DEF step
<1> QED BY <1>1, <1>2

PackBase(g, k, pack) ==
  Append(g, [NewNode("VectorOp", FlattenSeq([lane \in DOMAIN pack |-> g[pack[lane]].in]), NoId, NoId)
               EXCEPT !.cls = k])

LEMMA PackKindFold ==
  ASSUME NEW g, NEW k, NEW pack, pack = Pack(g, PackableKinds[k]), ~(Len(pack) < 2), NEW n, n = Len(g) + 1,
         NEW base, base = PackBase(g, k, pack), NEW q, IsList(q), q = [lane \in DOMAIN pack |-> lane]
  PROVE  PackKind(g, k) = FoldIn("Lanes", pack, n, 0, 0, base, q)
<1> DEFINE step(s, id) == LaneExtracted(pack, n, s, id)
<1>1. PackKind(g, k) = FoldLeft(step, base, q)
  BY DEF PackKind, LaneExtracted, PackBase
<1>2. FoldLeft(step, base, q) = FoldIn("Lanes", pack, n, 0, 0, base, q)
  BY DEF IsList, FoldLeft, MapThenFoldSet, FoldIn, IsFoldIn, FoldStepIn
<1> HIDE DEF step
<1> QED BY <1>1, <1>2

LEMMA IdsWithin ==
  ASSUME NEW n \in Nat, NEW m \in Nat, n <= m
  PROVE  0..n \subseteq 0..m
OBVIOUS

LEMMA TypedMore ==
  ASSUME NEW n \in Nat, NEW m \in Nat, n <= m, NEW x, TypedNode(x, n)
  PROVE  TypedNode(x, m)
<1>1. x.in \in Seq(0..m)
  BY IdsWithin, SeqMonotonic DEF TypedNode
<1> QED BY <1>1 DEF TypedNode

LEMMA TypedFacts ==
  ASSUME NEW g, Typed(g)
  PROVE  /\ IsGraph(g) /\ Len(g) \in Nat /\ Ids(g) = 1..Len(g) /\ DOMAIN g = 1..Len(g)
         /\ IsStack(g) /\ \A id \in 1..Len(g) : GraphNode(g[id]) /\ TypedNode(g[id], Len(g))
BY GraphFacts DEF Typed, IsGraph

(* A graph whose nodes are typed, one by one.                                   *)
LEMMA TypedPoints ==
  ASSUME NEW n \in Nat, NEW h, h = [id \in 1..n |-> h[id]], \A id \in 1..n : TypedNode(h[id], n)
  PROVE  Typed(h) /\ Len(h) = n
<1>1. \A id \in 1..n : GraphNode(h[id])
  BY DEF TypedNode
<1>2. IsGraph(h) /\ Len(h) = n
  BY <1>1, GraphOfNodes
<1> QED BY <1>2 DEF Typed

(* The same nodes with the same operands.                                       *)
LEMMA TypedAlike ==
  ASSUME NEW g, Typed(g), NEW h, IsGraph(h), Len(h) = Len(g),
         \A id \in 1..Len(g) : h[id].in = g[id].in /\ h[id].cls = g[id].cls
  PROVE  Typed(h)
<1>1. ASSUME NEW id \in 1..Len(g) PROVE TypedNode(h[id], Len(g))
  <2>1. GraphNode(h[id])
    BY DEF IsGraph
  <2> QED BY <2>1, TypedFacts DEF TypedNode
<1> QED BY <1>1 DEF Typed

LEMMA TypedFlag ==
  ASSUME NEW g, Typed(g), NEW ids, NEW flag \in Flags
  PROVE  Typed(SetFlag(g, ids, flag)) /\ Len(SetFlag(g, ids, flag)) = Len(g)
<1>1. Flagged(g, SetFlag(g, ids, flag), ids, flag)
  BY TypedFacts, SetFlagMarks
<1> QED BY <1>1, TypedAlike DEF Flagged

LEMMA TypedDead ==
  ASSUME NEW g, Typed(g), NEW id
  PROVE  Typed(MarkDead(g, id)) /\ Len(MarkDead(g, id)) = Len(g)
<1>1. "IsDead" \in Flags
  BY DEF Flags
<1> QED BY <1>1, TypedFlag DEF MarkDead

LEMMA TypedOperands ==
  ASSUME NEW n \in Nat, NEW in \in Seq(0..n), NEW old, NEW new \in 0..n
  PROVE  Redirected(in, old, new) \in Seq(0..n)
<1> DEFINE m == Len(in)
           f == Redirected(in, old, new)
<1>1. m \in Nat /\ DOMAIN in = 1..m /\ \A k \in 1..m : in[k] \in 0..n
  OBVIOUS
<1> HIDE DEF m
<1>2. f \in [1..m -> 0..n]
  BY <1>1 DEF Redirected
<1> QED BY <1>1, <1>2

LEMMA TypedReplace ==
  ASSUME NEW g, Typed(g), NEW old, NEW new \in 0..Len(g)
  PROVE  Typed(ReplaceAllUses(g, old, new)) /\ Len(ReplaceAllUses(g, old, new)) = Len(g)
<1> DEFINE h == ReplaceAllUses(g, old, new)
           n == Len(g)
<1>1. Replaced(g, h, old, new) /\ n \in Nat
  BY TypedFacts, ReplaceGraph
<1> HIDE DEF h
<1>2. IsGraph(h) /\ Len(h) = n
  BY <1>1 DEF Replaced
<1>3. ASSUME NEW id \in 1..n PROVE TypedNode(h[id], n)
  <2>1. GraphNode(h[id])
    BY <1>2 DEF IsGraph
  <2>2. g[id].in \in Seq(0..n) /\ g[id].cls \in Nat
    BY TypedFacts DEF TypedNode
  <2>3. Redirected(g[id].in, old, new) \in Seq(0..n)
    BY <1>1, <2>2, TypedOperands
  <2>4. h[id].in \in {g[id].in, Redirected(g[id].in, old, new)} /\ h[id].cls = g[id].cls
    BY <1>1 DEF Replaced
  <2> QED BY <2>1, <2>2, <2>3, <2>4 DEF TypedNode
<1> QED BY <1>2, <1>3 DEF Typed, h

(* A use is replaced and the old node goes.                                     *)
LEMMA TypedMoved ==
  ASSUME NEW g, Typed(g), NEW old, NEW new \in 0..Len(g), NEW id
  PROVE  LET h == MarkDead(ReplaceAllUses(g, old, new), id)
         IN  Typed(h) /\ Len(h) = Len(g)
<1> DEFINE x == ReplaceAllUses(g, old, new)
<1>1. Typed(x) /\ Len(x) = Len(g)
  BY TypedReplace
<1> HIDE DEF x
<1> QED BY <1>1, TypedDead DEF x

LEMMA TypedAppend ==
  ASSUME NEW g, Typed(g), NEW x, TypedNode(x, Len(g) + 1)
  PROVE  Typed(Append(g, x)) /\ Len(Append(g, x)) = Len(g) + 1
<1> DEFINE h == Append(g, x)
           n == Len(g)
           e == n + 1
<1>1. n \in Nat /\ e \in Nat /\ n <= e
  BY TypedFacts
<1>2. IsStack(h) /\ Len(h) = e /\ (\A k \in 1..n : h[k] = g[k]) /\ h[e] = x
  BY TypedFacts, PushStack
<1> HIDE DEF h
<1>3. h = [k \in 1..e |-> h[k]]
  BY <1>2 DEF IsStack
<1>4. ASSUME NEW k \in 1..e PROVE TypedNode(h[k], e)
  <2>1. CASE k \in 1..n
    <3>1. TypedNode(h[k], n)
      BY <1>2, <2>1, TypedFacts
    <3> HIDE DEF e
    <3> QED BY <1>1, <3>1, TypedMore
  <2>2. CASE k = e
    BY <1>2, <2>2
  <2> QED BY <1>1, <2>1, <2>2
<1> HIDE DEF e
<1>5. Typed(h) /\ Len(h) = e
  BY <1>1, <1>3, <1>4, TypedPoints
<1> QED BY <1>5 DEF h, e

LEMMA TypedRewire ==
  ASSUME NEW g, Typed(g), NEW id, NEW x, TypedNode(x, Len(g))
  PROVE  Typed(Rewire(g, id, x)) /\ Len(Rewire(g, id, x)) = Len(g)
<1> DEFINE h == Rewire(g, id, x)
           n == Len(g)
<1>1. n \in Nat /\ h = [k \in 1..n |-> IF k = id THEN x ELSE g[k]]
      /\ \A k \in 1..n : TypedNode(g[k], n)
  BY TypedFacts DEF Rewire
<1> HIDE DEF h, n
<1>2. h = [k \in 1..n |-> h[k]] /\ \A k \in 1..n : TypedNode(h[k], n)
  <2>1. TypedNode(x, n)
    BY DEF n
  <2> QED BY <1>1, <2>1
<1>3. Typed(h) /\ Len(h) = n
  BY <1>1, <1>2, TypedPoints
<1> QED BY <1>3 DEF h, n

(* New nodes.                                                                   *)
LEMMA NewIsNode ==
  ASSUME NEW kind \in Kinds, NEW in, NEW ctrl, NEW eff
  PROVE  LET x == NewNode(kind, in, ctrl, eff)
         IN  GraphNode(x) /\ x.in = in /\ x.cls = 0
<1>1. KindFlags(kind) \in SUBSET Flags
  BY DEF KindFlags, Flags
<1> QED BY <1>1 DEF NewNode, GraphNode

LEMMA NodeWith ==
  ASSUME NEW x, GraphNode(x), NEW v, NEW c
  PROVE  /\ GraphNode([x EXCEPT !.cls = c])
         /\ [x EXCEPT !.cls = c].in = x.in /\ [x EXCEPT !.cls = c].cls = c
         /\ GraphNode([x EXCEPT !.val = v])
         /\ [x EXCEPT !.val = v].in = x.in /\ [x EXCEPT !.val = v].cls = x.cls
BY DEF GraphNode

WithBoth(x, v, c) == [x EXCEPT !.val = v, !.cls = c]

LEMMA NodeWithBoth ==
  ASSUME NEW x, GraphNode(x), NEW v, NEW c
  PROVE  /\ GraphNode(WithBoth(x, v, c))
         /\ WithBoth(x, v, c).in = x.in /\ WithBoth(x, v, c).cls = c
BY DEF GraphNode, WithBoth

(* A node as Graph::create makes it, with the side data it then gets.           *)
TypedNews(x, n) ==
  /\ TypedNode(x, n)
  /\ \A c \in Nat : TypedNode([x EXCEPT !.cls = c], n)
  /\ \A v : TypedNode([x EXCEPT !.val = v], n)
  /\ \A c \in Nat : \A v : TypedNode([x EXCEPT !.val = v, !.cls = c], n)

LEMMA TypedNew ==
  ASSUME NEW n \in Nat, NEW kind \in Kinds, NEW in \in Seq(0..n), NEW ctrl, NEW eff
  PROVE  TypedNews(NewNode(kind, in, ctrl, eff), n)
<1> DEFINE x == NewNode(kind, in, ctrl, eff)
<1>1. GraphNode(x) /\ x.in = in /\ x.cls = 0
  BY NewIsNode
<1> HIDE DEF x
<1>2. TypedNode(x, n)
  BY <1>1 DEF TypedNode
<1>3. ASSUME NEW c \in Nat PROVE TypedNode([x EXCEPT !.cls = c], n)
  <2> DEFINE y == [x EXCEPT !.cls = c]
  <2>1. GraphNode(y) /\ y.in = in /\ y.cls = c
    BY <1>1, NodeWith
  <2> HIDE DEF y
  <2>2. TypedNode(y, n)
    BY <2>1 DEF TypedNode
  <2> QED BY <2>2 DEF y
<1>4. ASSUME NEW v PROVE TypedNode([x EXCEPT !.val = v], n)
  <2> DEFINE y == [x EXCEPT !.val = v]
  <2>1. GraphNode(y) /\ y.in = in /\ y.cls = 0
    BY <1>1, NodeWith
  <2> HIDE DEF y
  <2>2. TypedNode(y, n)
    BY <2>1 DEF TypedNode
  <2> QED BY <2>2 DEF y
<1>5. ASSUME NEW c \in Nat, NEW v PROVE TypedNode([x EXCEPT !.val = v, !.cls = c], n)
  <2> DEFINE y == WithBoth(x, v, c)
  <2>1. GraphNode(y) /\ y.in = in /\ y.cls = c
    BY <1>1, NodeWithBoth
  <2> HIDE DEF y
  <2>2. TypedNode(y, n)
    BY <2>1 DEF TypedNode
  <2> QED BY <2>2 DEF y, WithBoth
<1>6. TypedNews(x, n)
  BY <1>2, <1>3, <1>4, <1>5 DEF TypedNews
<1> QED BY <1>6 DEF x

LEMMA TypedConst ==
  ASSUME NEW n \in Nat, NEW v
  PROVE  TypedNode(ConstInt(v), n)
<1> DEFINE x == NewNode("ConstInt", <<>>, NoId, NoId)
           fl == KindFlags("ConstInt")
<1>1. "ConstInt" \in Kinds /\ fl \in SUBSET Flags /\ "IsConst" \in Flags
  BY DEF Kinds, PureKinds, KindFlags, Flags
<1>2. x = [kind |-> "ConstInt", in |-> <<>>, ctrl |-> NoId, eff |-> NoId, flags |-> fl,
           type |-> "Top", val |-> 0, cls |-> 0, state |-> FALSE]
  BY DEF NewNode
<1>3. ConstInt(v) = [x EXCEPT !.flags = @ \cup {"IsConst"}, !.type = "Int", !.val = v]
  BY DEF ConstInt, Const
<1> HIDE DEF x, fl
<1>4. ConstInt(v) = [kind |-> "ConstInt", in |-> <<>>, ctrl |-> NoId, eff |-> NoId,
                     flags |-> fl \cup {"IsConst"}, type |-> "Int", val |-> v, cls |-> 0, state |-> FALSE]
  BY <1>2, <1>3
<1>5. <<>> \in Seq(0..n)
  OBVIOUS
<1> QED BY <1>1, <1>4, <1>5 DEF TypedNode, GraphNode

(* Lists of ids.                                                                *)
LEMMA InOrderList ==
  ASSUME NEW S, NEW n \in Nat
  PROVE  /\ IsList(InOrder(S, n))
         /\ \A k \in 1..Len(InOrder(S, n)) : InOrder(S, n)[k] \in S /\ InOrder(S, n)[k] \in 1..n
<1> DEFINE q == InOrder(S, n)
<1>1. q \in Seq(S \cap (1..n))
  BY InOrderEnumerates DEF Enumerates
<1> HIDE DEF q
<1>2. IsList(q) /\ \A k \in 1..Len(q) : q[k] \in S /\ q[k] \in 1..n
  BY <1>1 DEF IsList
<1> QED BY <1>2 DEF q

LEMMA NumbersList ==
  ASSUME NEW m \in Nat, NEW s, DOMAIN s = 1..m
  PROVE  LET q == [k \in DOMAIN s |-> k]
         IN  IsList(q) /\ Len(q) = m /\ \A k \in 1..m : q[k] = k
BY DEF IsList

LEMMA FineIs ==
  ASSUME NEW n, NEW s
  PROVE  /\ Fine("graph", n, s) <=> Grown0(n, s)
         /\ Fine("copies", n, s) <=> /\ s = [g |-> s.g, copies |-> s.copies] /\ Grown0(n, s.g)
                                     /\ \A x \in DOMAIN s.copies : s.copies[x] \in 1..Len(s.g)
         /\ Fine("verdict", n, s) <=> s = [g |-> s.g, rejected |-> s.rejected] /\ Grown0(n, s.g)
         /\ Fine("pack", n, s) <=> IsStack(s) /\ \A k \in 1..Len(s) : s[k] \in 1..n
BY DEF Fine

(* A fold whose steps keep graphs typed.                                        *)
LEMMA FoldTyped ==
  ASSUME NEW fold, NEW a, NEW b, NEW c, NEW d, NEW base, NEW q, IsList(q), NEW n, Grown0(n, base),
         \A k \in 1..Len(q) : \A s : Grown0(n, s) => Grown0(n, FoldStepIn(fold, a, b, c, d, s, q[k]))
  PROVE  Grown0(n, FoldIn(fold, a, b, c, d, base, q))
<1>1. Fine("graph", n, base)
  BY FineIs
<1>2. \A k \in 1..Len(q) : \A s : Fine("graph", n, s)
                                    => Fine("graph", n, FoldStepIn(fold, a, b, c, d, s, q[k]))
  BY FineIs
<1>3. Fine("graph", n, FoldIn(fold, a, b, c, d, base, q))
  BY <1>1, <1>2, FoldFine DEF IsList
<1> QED BY <1>3, FineIs

LEMMA GrownMore ==
  ASSUME NEW n \in Nat, NEW m \in Nat, n <= m, NEW h, Grown0(m, h)
  PROVE  Grown0(n, h)
BY TypedFacts DEF Grown0

LEMMA GrownItself ==
  ASSUME NEW g, Typed(g)
  PROVE  Grown0(Len(g), g) /\ Len(g) \in Nat
BY TypedFacts DEF Grown0

LEMMA GrownBy ==
  ASSUME NEW n \in Nat, NEW h, Grown0(n, h), NEW x, Typed(x), Len(x) = Len(h) \/ Len(x) = Len(h) + 1
  PROVE  Grown0(n, x)
BY TypedFacts DEF Grown0

(* A node rewired and another put at the end.                                   *)
LEMMA TypedRewiredMore ==
  ASSUME NEW g, Typed(g), NEW id, NEW x, TypedNode(x, Len(g) + 1), NEW y, TypedNode(y, Len(g) + 1)
  PROVE  LET h == Append(Rewire(g, id, x), y)
         IN  Typed(h) /\ Len(h) = Len(g) + 1
<1> DEFINE r == Rewire(g, id, x)
           h == Append(r, y)
           n == Len(g)
           e == n + 1
<1>1. n \in Nat /\ e \in Nat /\ n <= e /\ r = [k \in 1..n |-> IF k = id THEN x ELSE g[k]]
      /\ \A k \in 1..n : TypedNode(g[k], n)
  BY TypedFacts DEF Rewire
<1>2. IsStack(r) /\ Len(r) = n /\ \A k \in 1..n : r[k] = x \/ r[k] = g[k]
  <2> DEFINE S == {r[k] : k \in 1..n}
  <2> HIDE DEF r, n
  <2>1. r \in [1..n -> S]
    BY <1>1
  <2>2. r \in Seq(S)
    BY <1>1, <2>1
  <2>3. Len(r) = n
    BY <1>1, <2>1, <2>2
  <2>4. \A k \in 1..n : r[k] = x \/ r[k] = g[k]
    BY <1>1
  <2> QED BY <2>2, <2>3, <2>4 DEF IsStack
<1> HIDE DEF r
<1>3. IsStack(h) /\ Len(h) = e /\ (\A k \in 1..n : h[k] = r[k]) /\ h[e] = y
  BY <1>2, PushStack
<1> HIDE DEF h
<1>4. h = [k \in 1..e |-> h[k]]
  BY <1>3 DEF IsStack
<1>5. ASSUME NEW k \in 1..e PROVE TypedNode(h[k], e)
  <2>1. CASE k \in 1..n
    <3>1. h[k] = x \/ h[k] = g[k]
      BY <1>2, <1>3, <2>1
    <3>2. TypedNode(g[k], n)
      BY <1>1, <2>1
    <3>3. TypedNode(g[k], e)
      <4> HIDE DEF e
      <4> QED BY <1>1, <3>2, TypedMore
    <3> QED BY <3>1, <3>3
  <2>2. CASE k = e
    BY <1>3, <2>2
  <2> QED BY <1>1, <2>1, <2>2
<1> HIDE DEF e
<1>6. Typed(h) /\ Len(h) = e
  BY <1>1, <1>4, <1>5, TypedPoints
<1> QED BY <1>6 DEF h, r, e

(* An operand of a node replaced.                                               *)
LEMMA OperandSet ==
  ASSUME NEW n \in Nat, NEW in \in Seq(0..n), NEW k, NEW v, k \in DOMAIN in => v \in 0..n
  PROVE  [in EXCEPT ![k] = v] \in Seq(0..n)
<1> DEFINE m == Len(in)
           h == [in EXCEPT ![k] = v]
<1>1. m \in Nat /\ in \in [1..m -> 0..n] /\ DOMAIN in = 1..m
  OBVIOUS
<1> HIDE DEF m
<1>2. h \in [1..m -> 0..n]
  BY <1>1
<1> QED BY <1>1, <1>2

LEMMA NodeRewired ==
  ASSUME NEW x, GraphNode(x), NEW in
  PROVE  /\ GraphNode([x EXCEPT !.in = in]) /\ [x EXCEPT !.in = in].in = in
         /\ [x EXCEPT !.in = in].cls = x.cls /\ [x EXCEPT !.in = in].eff = x.eff
BY DEF GraphNode

LEMMA NodeLinked ==
  ASSUME NEW x, GraphNode(x), NEW eff
  PROVE  /\ GraphNode([x EXCEPT !.eff = eff]) /\ [x EXCEPT !.eff = eff].eff = eff
         /\ [x EXCEPT !.eff = eff].cls = x.cls /\ [x EXCEPT !.eff = eff].in = x.in
BY DEF GraphNode

LEMMA TypedOperandSet ==
  ASSUME NEW n \in Nat, NEW x, TypedNode(x, n), NEW k, NEW v, k \in DOMAIN x.in => v \in 0..n
  PROVE  TypedNode([x EXCEPT !.in[k] = v], n)
<1> DEFINE in == [x.in EXCEPT ![k] = v]
           y == [x EXCEPT !.in = in]
<1>1. in \in Seq(0..n)
  BY OperandSet DEF TypedNode
<1>2. [x EXCEPT !.in[k] = v] = y
  OBVIOUS
<1>0. GraphNode(x) /\ x.cls \in Nat
  BY DEF TypedNode
<1> HIDE DEF in
<1>3. GraphNode(y) /\ y.in = in /\ y.cls = x.cls
  BY ONLY <1>0, NodeRewired
<1> HIDE DEF y
<1>4. TypedNode(y, n)
  BY <1>0, <1>1, <1>3 DEF TypedNode
<1> QED BY <1>2, <1>4

LEMMA TypedEff ==
  ASSUME NEW n \in Nat, NEW x, TypedNode(x, n), NEW v
  PROVE  TypedNode([x EXCEPT !.eff = v], n)
<1> DEFINE y == [x EXCEPT !.eff = v]
<1>1. GraphNode(y) /\ y.in = x.in /\ y.cls = x.cls
  BY NodeLinked DEF TypedNode
<1> HIDE DEF y
<1>2. TypedNode(y, n)
  BY <1>1 DEF TypedNode
<1> QED BY <1>2 DEF y

LEMMA OperandIn ==
  ASSUME NEW n \in Nat, NEW in \in Seq(0..n)
  PROVE  /\ \A k \in DOMAIN in : in[k] \in 0..n
         /\ in # <<>> => 1 \in DOMAIN in
         /\ Len(in) > 1 => 2 \in DOMAIN in
         /\ DOMAIN in = 1..Len(in) /\ Len(in) \in Nat
BY EmptySeq

(* The use of an object gets what is made of it.                                *)
LEMMA UseRewired ==
  ASSUME NEW n \in Nat, NEW x, TypedNode(x, n), NEW slot, NEW old, NEW new \in 0..n
  PROVE  TypedNode([x EXCEPT !.in[slot] = IF @ = old THEN new ELSE @,
                             !.eff = IF @ = NoId THEN @ ELSE new], n)
<1> DEFINE v == IF x.in[slot] = old THEN new ELSE x.in[slot]
           y == [x EXCEPT !.in[slot] = v]
           z == [x EXCEPT !.in[slot] = IF @ = old THEN new ELSE @,
                          !.eff = IF @ = NoId THEN @ ELSE new]
           e == IF y.eff = NoId THEN y.eff ELSE new
<1>1. slot \in DOMAIN x.in => v \in 0..n
  BY OperandIn DEF TypedNode
<1>2. z = [y EXCEPT !.eff = e]
  OBVIOUS
<1> HIDE DEF v
<1>3. TypedNode(y, n)
  BY <1>1, TypedOperandSet
<1> HIDE DEF y, e, z
<1>4. TypedNode([y EXCEPT !.eff = e], n)
  BY <1>3, TypedEff
<1> QED BY <1>2, <1>4 DEF z

LEMMA MaterializeTyped ==
  ASSUME NEW n \in Nat, NEW g, Grown0(n, g), NEW o \in 1..n, NEW user \in 1..n, NEW slot,
         NEW values \in Seq(0..n)
  PROVE  Grown0(n, MaterializeAt(g, o, values, user, slot))
<1> DEFINE zero == values = <<>> /\ g[o].in = <<>>
           h == IF zero THEN Append(g, ConstInt(0)) ELSE g
           in == IF values # <<>> THEN values ELSE IF zero THEN <<Len(h)>> ELSE <<g[o].in[1]>>
           m == g[user]
           ctrl == IF m.ctrl # NoId THEN m.ctrl ELSE g[o].ctrl
           eff == IF m.eff # NoId THEN m.eff ELSE g[o].eff
           mat == [NewNode("Materialize", in, ctrl, eff) EXCEPT !.cls = o]
           id == Len(h) + 1
           rewired == [m EXCEPT !.in[slot] = IF @ = o THEN id ELSE @,
                                !.eff = IF @ = NoId THEN @ ELSE id]
           r == Append(Rewire(h, user, rewired), mat)
<1>1. MaterializeAt(g, o, values, user, slot) = r
  BY DEF MaterializeAt
<1>2. Typed(g) /\ Len(g) \in Nat /\ n <= Len(g)
  BY TypedFacts DEF Grown0
<1>3. o \in 1..Len(g) /\ user \in 1..Len(g) /\ values \in Seq(0..Len(g))
  <2> DEFINE l == Len(g)
  <2>1. l \in Nat /\ n <= l
    BY <1>2
  <2> HIDE DEF l
  <2>2. o \in 1..l /\ user \in 1..l /\ 0..n \subseteq 0..l
    BY <2>1
  <2>3. values \in Seq(0..l)
    BY <2>2, SeqMonotonic
  <2> QED BY <2>2, <2>3 DEF l
<1>4. TypedNode(m, Len(g)) /\ TypedNode(g[o], Len(g))
  BY <1>2, <1>3, TypedFacts
<1>5. Typed(h) /\ Len(h) \in {Len(g), Len(g) + 1}
  <2> DEFINE x == ConstInt(0)
             a == Append(g, x)
             e == Len(g) + 1
  <2>1. e \in Nat
    BY <1>2
  <2>2. TypedNode(x, e)
    <3> HIDE DEF e
    <3> QED BY <2>1, TypedConst
  <2> HIDE DEF x
  <2>3. Typed(a) /\ Len(a) = Len(g) + 1
    BY <1>2, <2>2, TypedAppend
  <2> HIDE DEF a
  <2>4. h = a \/ h = g
    BY DEF a, x
  <2> HIDE DEF h
  <2> QED BY <1>2, <2>3, <2>4
<1>6. in \in Seq(0..Len(h))
  <2>1. CASE values # <<>>
    <3>1. in = values
      BY <2>1
    <3>2. 0..Len(g) \subseteq 0..Len(h)
      <4> HIDE DEF h
      <4> QED BY <1>2, <1>5
    <3> HIDE DEF h, in
    <3> QED BY <1>3, <3>1, <3>2, SeqMonotonic
  <2>2. CASE values = <<>> /\ zero
    <3>1. in = <<Len(h)>> /\ h = Append(g, ConstInt(0))
      BY <2>2
    <3>2. Len(h) \in 0..Len(h)
      <4> HIDE DEF h
      <4> QED BY <1>2, <1>5
    <3> HIDE DEF h, in
    <3> QED BY <3>1, <3>2
  <2>3. CASE values = <<>> /\ ~zero
    <3> DEFINE oi == g[o].in
    <3>1. in = <<oi[1]>> /\ oi # <<>> /\ h = g
      BY <2>3
    <3>2. oi \in Seq(0..Len(g))
      BY <1>4 DEF TypedNode
    <3> HIDE DEF oi
    <3>3. oi[1] \in 0..Len(g)
      BY <1>2, <3>1, <3>2, OperandIn
    <3> HIDE DEF h, in
    <3> QED BY <3>1, <3>3
  <2> QED BY <2>1, <2>2, <2>3
<1>7. id \in Nat /\ id \in 0..id /\ Len(h) \in Nat /\ Len(h) <= id /\ Len(g) <= id
  <2> HIDE DEF h
  <2> QED BY <1>2, <1>5
<1> HIDE DEF h, in, ctrl, eff
<1>8. TypedNode(mat, id)
  <2>1. "Materialize" \in Kinds
    BY DEF Kinds, EffectKinds
  <2> DEFINE x == NewNode("Materialize", in, ctrl, eff)
  <2>2. in \in Seq(0..id)
    <3> DEFINE l == Len(h)
    <3> HIDE DEF id
    <3>1. 0..l \subseteq 0..id
      BY <1>7
    <3> QED BY <1>6, <3>1, SeqMonotonic
  <2> HIDE DEF id
  <2>3. TypedNews(x, id)
    BY <1>7, <2>1, <2>2, TypedNew
  <2> HIDE DEF x
  <2>4. o \in Nat
    OBVIOUS
  <2>5. TypedNode([x EXCEPT !.cls = o], id)
    BY <2>3, <2>4 DEF TypedNews
  <2> QED BY <2>5 DEF x
<1>9. TypedNode(rewired, id)
  <2> HIDE DEF id, m
  <2>1. TypedNode(m, id)
    BY <1>2, <1>4, <1>7, TypedMore
  <2> QED BY <1>7, <2>1, UseRewired
<1> HIDE DEF mat, rewired
<1>10. Typed(r) /\ Len(r) = Len(h) + 1
  BY <1>5, <1>8, <1>9, TypedRewiredMore
<1> HIDE DEF r
<1>11. n <= Len(r)
  BY <1>2, <1>5, <1>10
<1> QED BY <1>1, <1>10, <1>11 DEF Grown0

LEMMA FoldStepInOf ==
  ASSUME NEW a, NEW b, NEW c, NEW d, NEW s, NEW id
  PROVE  /\ FoldStepIn("ForwardLoads", a, b, c, d, s, id) = LoadForwarded(a, b, c, s, id)
         /\ FoldStepIn("MaterializeAt", a, b, c, d, s, id) = UseMaterialized(a, b, c, d, s, id)
         /\ FoldStepIn("InsertMaterialize", a, b, c, d, s, id) = UserMaterialized(a, b, c, d, s, id)
         /\ FoldStepIn("RemoveStores", a, b, c, d, s, id) = Bypass(s, id)
         /\ FoldStepIn("UnboxUse", a, b, c, d, s, id) = UseUnboxed(a, b, c, d, s, id)
         /\ FoldStepIn("UnboxUses", a, b, c, d, s, id) = UserUnboxed(a, b, c, d, s, id)
         /\ FoldStepIn("RoundTrips", a, b, c, d, s, id) = TripRemoved(s, id)
BY DEF FoldStepIn

LEMMA FoldStepInOfPasses ==
  ASSUME NEW a, NEW b, NEW c, NEW d, NEW s, NEW id
  PROVE  /\ FoldStepIn("PEARound", a, b, c, d, s, id) = ProcessBoth(s, a, id)
         /\ FoldStepIn("PEARounds", a, b, c, d, s, id) = PEARound(s)
         /\ FoldStepIn("ProcessBoxes", a, b, c, d, s, id) = ProcessBox(s, a, id)
         /\ FoldStepIn("ProcessAllocations", a, b, c, d, s, id) = ProcessAllocation(s, a, id)
         /\ FoldStepIn("SRALoads", a, b, c, d, s, id) = LoadKnown(a, b, c, s, id)
         /\ FoldStepIn("SRAStores", a, b, c, d, s, id) = StoreDropped(a, s, id)
         /\ FoldStepIn("SRA", a, b, c, d, s, id) = SRAObject(s, a, id)
BY DEF FoldStepIn

LEMMA FoldStepInOfCopies ==
  ASSUME NEW a, NEW b, NEW c, NEW d, NEW s, NEW id
  PROVE  /\ FoldStepIn("CopyNode", a, b, c, d, s, id) = CopyNode(s, id)
         /\ FoldStepIn("LoopUnrolling", a, b, c, d, s, id) = LoopUnrolled(a, b, s, id)
         /\ FoldStepIn("Pack", a, b, c, d, s, id) = PackedWith(a, s, id)
         /\ FoldStepIn("Lanes", a, b, c, d, s, id) = LaneExtracted(a, b, s, id)
         /\ FoldStepIn("SLP", a, b, c, d, s, id) = PackKind(s, id)
         /\ FoldStepIn("Pipeline", a, b, c, d, s, id) = PassRun(a, s, id)
BY DEF FoldStepIn

(* The operands of a node, numbered.                                            *)
LEMMA OperandNumbers ==
  ASSUME NEW g, Typed(g), NEW user \in 1..Len(g)
  PROVE  IsList([k \in DOMAIN g[user].in |-> k])
<1> DEFINE in == g[user].in
           n == Len(g)
<1>1. n \in Nat /\ in \in Seq(0..n)
  BY TypedFacts DEF TypedNode
<1> HIDE DEF in, n
<1>2. DOMAIN in = 1..Len(in) /\ Len(in) \in Nat
  BY <1>1, OperandIn
<1> DEFINE m == Len(in)
<1> HIDE DEF m
<1>3. IsList([k \in DOMAIN in |-> k])
  BY <1>2, NumbersList DEF m
<1> QED BY <1>3 DEF in

LEMMA UserMaterializedTyped ==
  ASSUME NEW g, Typed(g), NEW n, n = Len(g), NEW h, Grown0(n, h), NEW o \in 1..n, NEW user \in 1..n,
         NEW e, NEW values \in Seq(0..n)
  PROVE  Grown0(n, UserMaterialized(g, e, o, values, h, user))
<1> DEFINE q == [k \in DOMAIN g[user].in |-> k]
<1>1. IsList(q)
  BY OperandNumbers
<1>2. n \in Nat
  BY TypedFacts
<1>3. UserMaterialized(g, e, o, values, h, user) = FoldIn("MaterializeAt", e, o, values, user, h, q)
  BY <1>1, UserMaterializedFold
<1> HIDE DEF q
<1>4. ASSUME NEW k \in 1..Len(q), NEW s, Grown0(n, s)
      PROVE  Grown0(n, FoldStepIn("MaterializeAt", e, o, values, user, s, q[k]))
  <2>1. Grown0(n, MaterializeAt(s, o, values, user, q[k]))
    BY <1>2, <1>4, MaterializeTyped
  <2>2. Grown0(n, UseMaterialized(e, o, values, user, s, q[k]))
    BY <1>4, <2>1 DEF UseMaterialized
  <2> QED BY <2>2, FoldStepInOf
<1> QED BY <1>1, <1>3, <1>4, FoldTyped

LEMMA InsertMaterializeTyped ==
  ASSUME NEW n, NEW g, Grown0(n, g), n \in Nat, NEW u, NEW o \in 1..Len(g), NEW values \in Seq(0..Len(g))
  PROVE  Grown0(n, InsertMaterialize(g, u, o, values))
<1> DEFINE e == Escaping(g, LiveUses(g, u, o))
           m == Len(g)
           q == InOrder(Users(e), m)
<1>1. Typed(g) /\ m \in Nat /\ n <= m /\ Grown0(m, g)
  BY TypedFacts DEF Grown0
<1>2. IsList(q) /\ \A k \in 1..Len(q) : q[k] \in 1..m
  <2> HIDE DEF m, e
  <2> QED BY <1>1, InOrderList
<1>3. InsertMaterialize(g, u, o, values) = FoldIn("InsertMaterialize", g, e, o, values, g, q)
  <2>1. IsList(q)
    BY <1>2
  <2> HIDE DEF e
  <2> QED BY <2>1, InsertMaterializeFold DEF e
<1> HIDE DEF e, q, m
<1>4. ASSUME NEW k \in 1..Len(q), NEW s, Grown0(m, s)
      PROVE  Grown0(m, FoldStepIn("InsertMaterialize", g, e, o, values, s, q[k]))
  <2>1. q[k] \in 1..m /\ o \in 1..m /\ values \in Seq(0..m) /\ m = Len(g)
    BY <1>2 DEF m
  <2>2. Grown0(m, UserMaterialized(g, e, o, values, s, q[k]))
    BY <1>1, <1>4, <2>1, UserMaterializedTyped
  <2> QED BY <2>2, FoldStepInOf
<1>5. Grown0(m, InsertMaterialize(g, u, o, values))
  BY <1>1, <1>2, <1>3, <1>4, FoldTyped
<1> QED BY <1>1, <1>5, GrownMore

(* Classes have a bound.                                                        *)
LEMMA ClassesBounded ==
  ASSUME NEW g, Typed(g)
  PROVE  \E b \in Nat : \A id \in 1..Len(g) : g[id].cls <= b
<1> DEFINE n == Len(g)
           T == {m \in Nat : m <= n => \E b \in Nat : \A id \in 1..m : g[id].cls <= b}
<1>1. n \in Nat /\ \A id \in 1..n : g[id].cls \in Nat
  BY TypedFacts DEF TypedNode
<1> HIDE DEF n
<1>2. 0 \in T
  OBVIOUS
<1>3. ASSUME NEW m \in 0..n - 1, m \in T PROVE m + 1 \in T
  <2>1. PICK b \in Nat : \A id \in 1..m : g[id].cls <= b
    BY <1>1, <1>3
  <2> DEFINE c == g[m + 1].cls
             d == IF c <= b THEN b ELSE c
  <2>2. m + 1 \in 1..n /\ m + 1 \in Nat
    BY <1>1
  <2>3. c \in Nat
    BY <1>1, <2>2
  <2>4. d \in Nat /\ b <= d /\ c <= d
    <3> HIDE DEF c
    <3> QED BY <2>3
  <2>5. ASSUME NEW id \in 1..m + 1 PROVE g[id].cls <= d
    <3>1. CASE id = m + 1
      BY <2>4, <3>1
    <3>2. CASE id # m + 1
      <4>1. id \in 1..m /\ id \in 1..n
        BY <1>1, <3>2
      <4>2. g[id].cls <= b /\ g[id].cls \in Nat
        BY <1>1, <2>1, <4>1
      <4> HIDE DEF d
      <4> QED BY <2>4, <4>2
    <3> QED BY <3>1, <3>2
  <2> HIDE DEF d
  <2> QED BY <2>2, <2>4, <2>5
<1>4. n \in T
  <2> HIDE DEF T
  <2>1. 0..n \subseteq T
    BY <1>1, <1>2, <1>3, PrefixInduction
  <2> QED BY <1>1, <2>1
<1> QED BY <1>1, <1>4 DEF n

(* What a store stores.                                                         *)
LEMMA StoredTyped ==
  ASSUME NEW g, Typed(g), NEW store \in 1..Len(g)
  PROVE  StoredBy(g, store) \in 0..Len(g)
<1> DEFINE in == g[store].in
           n == Len(g)
<1>1. n \in Nat /\ in \in Seq(0..n)
  BY TypedFacts DEF TypedNode
<1> HIDE DEF n
<1>2. StoredBy(g, store) = IF Len(in) > 1 THEN in[2] ELSE 0
  BY DEF StoredBy, NoId
<1> HIDE DEF in
<1>3. Len(in) > 1 => in[2] \in 0..n
  BY <1>1, OperandIn
<1> QED BY <1>1, <1>2, <1>3 DEF n

(* The users of an object are nodes of the graph the lists were built for.      *)
LEMMA UsersWithin ==
  ASSUME NEW g, NEW u, NEW o, Typed(u), NEW offset
  PROVE  /\ Users(LiveUses(g, u, o)) \subseteq 1..Len(u)
         /\ Users(Stores(g, u, o)) \subseteq 1..Len(u)
         /\ Users(StoresAt(g, u, o, offset)) \subseteq 1..Len(u)
         /\ StoresAt(g, u, o, offset) # {} => Users(StoresAt(g, u, o, offset)) # {}
<1>1. \A use \in DataUses(u, o) : use[1] \in Live(u)
  BY DEF DataUses
<1>2. Live(u) \subseteq 1..Len(u)
  BY TypedFacts DEF Live
<1>3. \A use \in LiveUses(g, u, o) : use[1] \in 1..Len(u)
  BY <1>1, <1>2 DEF LiveUses
<1>4. Stores(g, u, o) \subseteq LiveUses(g, u, o) /\ StoresAt(g, u, o, offset) \subseteq Stores(g, u, o)
  BY DEF Stores, StoresAt
<1> QED BY <1>3, <1>4 DEF Users

LEMMA LastStoreWithin ==
  ASSUME NEW g, NEW u, NEW o, Typed(u), NEW offset, StoresAt(g, u, o, offset) # {}
  PROVE  MaxOf(Users(StoresAt(g, u, o, offset))) \in 1..Len(u)
<1> DEFINE T == Users(StoresAt(g, u, o, offset))
           n == Len(u)
<1>1. T \subseteq 1..n /\ T # {} /\ n \in Nat
  BY UsersWithin, TypedFacts
<1> HIDE DEF T, n
<1>2. T \subseteq 0..n
  BY <1>1
<1>3. MaxOf(T) \in T
  BY <1>1, <1>2, MaxOfFacts
<1> QED BY <1>1, <1>3 DEF T, n

LEMMA FieldValuesTyped ==
  ASSUME NEW g, NEW u, Typed(u), Grown0(Len(u), g), NEW o
  PROVE  FieldValues(g, u, o) \in Seq(0..Len(g))
<1> DEFINE offsets == {g[use[1]].cls + 1 : use \in Stores(g, u, o)}
           last(offset) == MaxOf(Users(StoresAt(g, u, o, offset - 1)))
           m == IF offsets = {} THEN 0 ELSE MaxOf(offsets)
           q == InOrder(offsets, m)
           n == Len(g)
           l == Len(u)
<1>1. Typed(g) /\ n \in Nat /\ l \in Nat /\ l <= n
  BY TypedFacts DEF Grown0
<1>2. PICK b \in Nat : \A id \in 1..n : g[id].cls <= b
  BY <1>1, ClassesBounded
<1>3. \A use \in Stores(g, u, o) : use[1] \in 1..n
  <2>1. Users(Stores(g, u, o)) \subseteq 1..l
    BY UsersWithin
  <2> HIDE DEF l, n
  <2> QED BY <1>1, <2>1 DEF Users
<1>4. \A id \in 1..n : g[id].cls \in Nat
  BY <1>1, TypedFacts DEF TypedNode
<1>5. offsets \subseteq 0..b + 1
  <2> HIDE DEF n
  <2>1. ASSUME NEW use \in Stores(g, u, o) PROVE g[use[1]].cls + 1 \in 0..b + 1
    <3> DEFINE c == g[use[1]].cls
    <3>1. c \in Nat /\ c <= b
      BY <1>2, <1>3, <1>4
    <3> HIDE DEF c
    <3>2. c + 1 \in 0..b + 1
      BY <3>1
    <3> QED BY <3>2 DEF c
  <2> QED BY <2>1
<1>6. m \in Nat
  <2>1. CASE offsets = {}
    BY <2>1
  <2>2. CASE offsets # {}
    <3> HIDE DEF offsets
    <3> DEFINE e == b + 1
    <3>0. e \in Nat /\ offsets \subseteq 0..e
      BY <1>5
    <3> HIDE DEF e
    <3>1. MaxOf(offsets) \in offsets
      BY <3>0, <2>2, MaxOfFacts
    <3>2. MaxOf(offsets) \in Nat
      <4> DEFINE x == MaxOf(offsets)
      <4>1. x \in offsets
        BY <3>1
      <4> HIDE DEF x
      <4>2. x \in 0..e
        BY <3>0, <4>1
      <4>3. x \in Nat
        BY <3>0, <4>2
      <4> QED BY <4>3 DEF x
    <3>3. m = MaxOf(offsets)
      BY <2>2
    <3> HIDE DEF m
    <3> QED BY <3>2, <3>3
  <2> QED BY <2>1, <2>2
<1> HIDE DEF m
<1>7. IsList(q) /\ \A k \in 1..Len(q) : q[k] \in offsets
  <2> HIDE DEF offsets
  <2> QED BY <1>6, InOrderList
<1> HIDE DEF q
<1>8. ASSUME NEW k \in DOMAIN q PROVE StoredBy(g, last(q[k])) \in 0..n
  <2>1. PICK use \in Stores(g, u, o) : q[k] = g[use[1]].cls + 1
    BY <1>7 DEF IsList
  <2> DEFINE c == g[use[1]].cls
             at == StoresAt(g, u, o, c)
  <2>2. c \in Nat /\ q[k] = c + 1
    BY <1>3, <1>4, <2>1
  <2>3. use \in at
    BY DEF StoresAt
  <2> HIDE DEF c
  <2>4. q[k] - 1 = c
    BY <2>2
  <2> DEFINE x == MaxOf(Users(at))
  <2>5. x \in 1..l
    BY <2>3, LastStoreWithin
  <2>6. last(q[k]) = x
    BY <2>4
  <2> HIDE DEF x
  <2>7. x \in 1..n
    <3> HIDE DEF n, l
    <3> QED BY <1>1, <2>5
  <2>8. StoredBy(g, x) \in 0..n
    BY <1>1, <2>7, StoredTyped
  <2> QED BY <2>6, <2>8
<1>9. FieldValues(g, u, o) = [k \in DOMAIN q |-> StoredBy(g, last(q[k]))]
  BY DEF FieldValues, q, m
<1> HIDE DEF last, n
<1>10. DOMAIN q = 1..Len(q) /\ Len(q) \in Nat
  BY <1>7 DEF IsList
<1> DEFINE v == [k \in DOMAIN q |-> StoredBy(g, last(q[k]))]
           j == Len(q)
<1>11. v \in [1..j -> 0..n] /\ j \in Nat
  BY <1>8, <1>10
<1> DEFINE S == 0..n
<1> HIDE DEF v, j, S
<1>12. v \in [1..j -> S]
  BY <1>11 DEF S
<1>13. v \in Seq(S)
  BY <1>11, <1>12
<1> QED BY <1>9, <1>13 DEF v, n, S

(* A change that keeps the graph as long as it is.                              *)
LEMMA GrownMoved ==
  ASSUME NEW n \in Nat, NEW h, Grown0(n, h), NEW old, NEW new \in 0..Len(h), NEW id
  PROVE  Grown0(n, MarkDead(ReplaceAllUses(h, old, new), id))
<1> DEFINE x == MarkDead(ReplaceAllUses(h, old, new), id)
<1>1. Typed(h)
  BY DEF Grown0
<1>2. Typed(x) /\ Len(x) = Len(h)
  BY <1>1, TypedMoved
<1> HIDE DEF x
<1> QED BY <1>2, GrownBy DEF x

LEMMA GrownDead ==
  ASSUME NEW n \in Nat, NEW h, Grown0(n, h), NEW id
  PROVE  Grown0(n, MarkDead(h, id))
<1> DEFINE x == MarkDead(h, id)
<1>2. Typed(x) /\ Len(x) = Len(h)
  BY TypedDead DEF Grown0
<1> HIDE DEF x
<1> QED BY <1>2, GrownBy DEF x

LEMMA ForwardLoadTyped ==
  ASSUME NEW n \in Nat, NEW h, Grown0(n, h), NEW load, NEW value \in 0..n
  PROVE  Grown0(n, ForwardLoad(h, load, value))
<1> DEFINE c == ConstInt(h[value].val)
           a == Append(h, c)
           e == Len(h) + 1
           x == MarkDead(ReplaceAllUses(a, load, e), load)
           y == MarkDead(ReplaceAllUses(h, load, value), load)
<1>1. Typed(h) /\ Len(h) \in Nat /\ n <= Len(h) /\ e \in Nat /\ e \in 0..e /\ value \in 0..Len(h)
  BY TypedFacts DEF Grown0
<1>2. TypedNode(c, e)
  <2> DEFINE v == h[value].val
  <2> HIDE DEF e, v
  <2> QED BY <1>1, TypedConst
<1> HIDE DEF c
<1>3. Typed(a) /\ Len(a) = e
  BY <1>1, <1>2, TypedAppend
<1> HIDE DEF a
<1>4. Grown0(n, a)
  BY <1>1, <1>3 DEF Grown0
<1> HIDE DEF e
<1>5. Grown0(n, x)
  BY <1>1, <1>3, <1>4, GrownMoved
<1>6. Grown0(n, y)
  BY <1>1, GrownMoved
<1>7. ForwardLoad(h, load, value) = IF Has(h, value, "IsConst") THEN x ELSE y
  BY DEF ForwardLoad, a, c, e
<1> HIDE DEF x, y
<1> QED BY <1>5, <1>6, <1>7

LEMMA ForwardLoadsTyped ==
  ASSUME NEW n \in Nat, NEW g, Grown0(n, g), NEW u, Typed(u), Len(u) <= Len(g), NEW o
  PROVE  Grown0(n, ForwardLoads(g, u, o))
<1> DEFINE m == Len(g)
           S == {id \in Users(LiveUses(g, u, o)) : g[id].kind \in LoadKinds}
           q == InOrder(S, m)
<1>1. Typed(g) /\ m \in Nat /\ n <= m /\ Grown0(m, g) /\ Len(u) \in Nat
  BY TypedFacts DEF Grown0
<1>2. IsList(q)
  <2> HIDE DEF m, S
  <2> QED BY <1>1, InOrderList
<1>3. ForwardLoads(g, u, o) = FoldIn("ForwardLoads", g, u, o, 0, g, q)
  BY <1>2, ForwardLoadsFold
<1> HIDE DEF q
<1>4. ASSUME NEW k \in 1..Len(q), NEW s, Grown0(m, s)
      PROVE  Grown0(m, FoldStepIn("ForwardLoads", g, u, o, 0, s, q[k]))
  <2> DEFINE load == q[k]
             at == StoresAt(g, u, o, g[load].cls)
             last == MaxOf(Users(at))
             value == StoredBy(g, last)
  <2>1. CASE ForwardableFrom(s, g, u, o, load)
    <3>1. at # {}
      BY <2>1 DEF ForwardableFrom
    <3>2. last \in 1..Len(u)
      BY <3>1, LastStoreWithin
    <3>3. last \in 1..m
      <4> HIDE DEF last, m
      <4> QED BY <1>1, <3>2 DEF m
    <3>4. value \in 0..m
      <4> HIDE DEF last
      <4> QED BY <1>1, <3>3, StoredTyped
    <3>5. LoadForwarded(g, u, o, s, load) = ForwardLoad(s, load, value)
      BY <2>1 DEF LoadForwarded
    <3> HIDE DEF value, m, load
    <3>6. Grown0(m, ForwardLoad(s, load, value))
      BY <1>1, <1>4, <3>4, ForwardLoadTyped
    <3> QED BY <3>5, <3>6, FoldStepInOf DEF load
  <2>2. CASE ~ForwardableFrom(s, g, u, o, load)
    <3>1. LoadForwarded(g, u, o, s, load) = s
      BY <2>2 DEF LoadForwarded
    <3> QED BY <1>4, <3>1, FoldStepInOf
  <2> QED BY <2>1, <2>2
<1> HIDE DEF m
<1>5. Grown0(m, ForwardLoads(g, u, o))
  BY <1>1, <1>2, <1>3, <1>4, FoldTyped
<1> QED BY <1>1, <1>5, GrownMore

LEMMA BypassTyped ==
  ASSUME NEW n \in Nat, NEW g, Grown0(n, g), NEW id
  PROVE  Grown0(n, Bypass(g, id))
<1> DEFINE m == Len(g)
           past(x) == [x EXCEPT !.eff = g[id].eff]
           skips(x) == ~Dead(g, x) /\ g[x].eff = id /\ g[id].eff # NoId
           h == [x \in Ids(g) |-> IF skips(x) THEN past(g[x]) ELSE g[x]]
<1>1. Bypass(g, id) = MarkDead(h, id)
  BY DEF Bypass
<1>2. Typed(g) /\ m \in Nat /\ n <= m /\ Ids(g) = 1..m /\ \A x \in 1..m : TypedNode(g[x], m)
  BY TypedFacts DEF Grown0
<1>3. \A x \in 1..m : TypedNode(past(g[x]), m)
  BY <1>2, TypedEff
<1> HIDE DEF past, skips
<1>4. h = [x \in 1..m |-> h[x]] /\ \A x \in 1..m : TypedNode(h[x], m)
  BY <1>2, <1>3
<1> HIDE DEF h, m
<1>5. Typed(h) /\ Len(h) = m
  BY <1>2, <1>4, TypedPoints
<1>6. Grown0(n, h)
  BY <1>2, <1>5 DEF Grown0
<1> QED BY <1>1, <1>6, GrownDead

LEMMA RemoveStoresTyped ==
  ASSUME NEW n \in Nat, NEW g, Grown0(n, g), NEW u, NEW o
  PROVE  Grown0(n, RemoveStores(g, u, o))
<1> DEFINE m == Len(g)
           S == Users(Stores(g, u, o))
           q == InOrder(S, m)
<1>1. m \in Nat
  BY TypedFacts DEF Grown0
<1>2. IsList(q)
  <2> HIDE DEF m, S
  <2> QED BY <1>1, InOrderList
<1>3. RemoveStores(g, u, o) = FoldIn("RemoveStores", 0, 0, 0, 0, g, q)
  BY <1>2, RemoveStoresFold
<1> HIDE DEF q
<1>4. ASSUME NEW k \in 1..Len(q), NEW s, Grown0(n, s)
      PROVE  Grown0(n, FoldStepIn("RemoveStores", 0, 0, 0, 0, s, q[k]))
  BY <1>4, BypassTyped, FoldStepInOf
<1> QED BY <1>2, <1>3, <1>4, FoldTyped

LEMMA ProcessAllocationTyped ==
  ASSUME NEW n \in Nat, NEW g, Grown0(n, g), NEW u, Typed(u), Len(u) = n, NEW o \in 1..n
  PROVE  Grown0(n, ProcessAllocation(g, u, o))
<1> DEFINE f == ForwardLoads(g, u, o)
           values == FieldValues(g, u, o)
           m == InsertMaterialize(f, u, o, values)
           h == IF Escape(g, u, o) = "partial" THEN m ELSE f
           r == RemoveStores(h, u, o)
           x == RemoveUnused(r, u, o)
           l == Len(g)
<1>1. Typed(g) /\ l \in Nat /\ n <= l /\ Grown0(l, g) /\ Len(u) <= l
  BY TypedFacts DEF Grown0
<1>2. Grown0(l, f)
  BY <1>1, ForwardLoadsTyped
<1>3. values \in Seq(0..l)
  BY <1>1, FieldValuesTyped
<1> HIDE DEF f, values, l
<1>4. Typed(f) /\ Len(f) \in Nat /\ l <= Len(f) /\ Grown0(n, f)
  BY <1>1, <1>2, TypedFacts, GrownMore DEF Grown0
<1>5. Grown0(n, m)
  <2> DEFINE e == Len(f)
  <2>1. e \in Nat /\ l <= e
    BY <1>4
  <2> HIDE DEF e
  <2>2. 0..l \subseteq 0..e /\ o \in 1..e
    BY <1>1, <2>1
  <2>3. values \in Seq(0..e)
    BY <1>3, <2>2, SeqMonotonic
  <2> QED BY <1>4, <2>2, <2>3, InsertMaterializeTyped DEF e
<1> HIDE DEF m
<1>6. Grown0(n, h)
  BY <1>4, <1>5
<1> HIDE DEF h
<1>7. Grown0(n, r)
  BY <1>6, RemoveStoresTyped
<1> HIDE DEF r
<1>8. Grown0(n, x)
  BY <1>7, BypassTyped DEF RemoveUnused
<1> HIDE DEF x
<1>9. ProcessAllocation(g, u, o) \in {g, x}
  BY DEF ProcessAllocation, x, r, h, m, f, values
<1> QED BY <1>8, <1>9

(* Boxes.                                                                       *)
LEMMA UnboxUseTyped ==
  ASSUME NEW n \in Nat, NEW g, Grown0(n, g), NEW box, NEW value \in 0..n, NEW user \in 1..n, NEW slot
  PROVE  Grown0(n, UnboxUse(g, box, value, user, slot))
<1> DEFINE x == [g[user] EXCEPT !.in[slot] = IF @ = box THEN value ELSE @]
           v == IF g[user].in[slot] = box THEN value ELSE g[user].in[slot]
           m == Len(g)
<1>1. Typed(g) /\ m \in Nat /\ n <= m /\ value \in 0..m /\ user \in 1..m
  BY TypedFacts DEF Grown0
<1>2. TypedNode(g[user], m)
  BY <1>1, TypedFacts
<1>3. slot \in DOMAIN g[user].in => v \in 0..m
  <2> DEFINE in == g[user].in
  <2>1. in \in Seq(0..m)
    BY <1>2 DEF TypedNode
  <2> HIDE DEF in, m
  <2>2. slot \in DOMAIN in => in[slot] \in 0..m
    BY <1>1, <2>1, OperandIn
  <2> QED BY <1>1, <2>2 DEF in
<1>4. x = [g[user] EXCEPT !.in[slot] = v]
  OBVIOUS
<1> HIDE DEF v, m, x
<1>5. TypedNode(x, m)
  BY <1>1, <1>2, <1>3, <1>4, TypedOperandSet
<1> DEFINE r == Rewire(g, user, x)
<1>6. Typed(r) /\ Len(r) = m
  BY <1>1, <1>5, TypedRewire DEF m
<1> HIDE DEF r
<1>7. Grown0(n, r)
  BY <1>1, <1>6 DEF Grown0
<1> DEFINE d == MarkDead(ReplaceAllUses(g, user, value), user)
<1>8. Grown0(n, d)
  BY <1>1, GrownMoved DEF m
<1>9. UnboxUse(g, box, value, user, slot) \in {g, d, r}
  BY DEF UnboxUse, r, x
<1> QED BY <1>7, <1>8, <1>9

LEMMA UserUnboxedTyped ==
  ASSUME NEW g, Typed(g), NEW n, n = Len(g), NEW h, Grown0(n, h), NEW box, NEW user \in 1..n,
         NEW e, NEW value \in 0..n
  PROVE  Grown0(n, UserUnboxed(g, e, box, value, h, user))
<1> DEFINE q == [k \in DOMAIN g[user].in |-> k]
<1>1. IsList(q)
  BY OperandNumbers
<1>2. n \in Nat
  BY TypedFacts
<1>3. UserUnboxed(g, e, box, value, h, user) = FoldIn("UnboxUse", e, box, value, user, h, q)
  BY <1>1, UserUnboxedFold
<1> HIDE DEF q
<1>4. ASSUME NEW k \in 1..Len(q), NEW s, Grown0(n, s)
      PROVE  Grown0(n, FoldStepIn("UnboxUse", e, box, value, user, s, q[k]))
  <2>1. Grown0(n, UnboxUse(s, box, value, user, q[k]))
    BY <1>2, <1>4, UnboxUseTyped
  <2>2. Grown0(n, UseUnboxed(e, box, value, user, s, q[k]))
    BY <1>4, <2>1 DEF UseUnboxed
  <2> QED BY <2>2, FoldStepInOf
<1> QED BY <1>1, <1>3, <1>4, FoldTyped

LEMMA UnboxUsesTyped ==
  ASSUME NEW n \in Nat, NEW g, Grown0(n, g), NEW u, NEW box, NEW value \in 0..Len(g)
  PROVE  Grown0(n, UnboxUses(g, u, box, value))
<1> DEFINE e == LiveUses(g, u, box)
           m == Len(g)
           q == InOrder(Users(e), m)
<1>1. Typed(g) /\ m \in Nat /\ n <= m /\ Grown0(m, g)
  BY TypedFacts DEF Grown0
<1>2. IsList(q) /\ \A k \in 1..Len(q) : q[k] \in 1..m
  <2> HIDE DEF m, e
  <2> QED BY <1>1, InOrderList
<1>3. UnboxUses(g, u, box, value) = FoldIn("UnboxUses", g, e, box, value, g, q)
  <2>1. IsList(q)
    BY <1>2
  <2> HIDE DEF e
  <2> QED BY <2>1, UnboxUsesFold DEF e
<1> HIDE DEF e, q, m
<1>4. ASSUME NEW k \in 1..Len(q), NEW s, Grown0(m, s)
      PROVE  Grown0(m, FoldStepIn("UnboxUses", g, e, box, value, s, q[k]))
  <2>1. q[k] \in 1..m /\ value \in 0..m /\ m = Len(g)
    BY <1>2 DEF m
  <2>2. Grown0(m, UserUnboxed(g, e, box, value, s, q[k]))
    BY <1>1, <1>4, <2>1, UserUnboxedTyped
  <2> QED BY <2>2, FoldStepInOf
<1>5. Grown0(m, UnboxUses(g, u, box, value))
  BY <1>1, <1>2, <1>3, <1>4, FoldTyped
<1> QED BY <1>1, <1>5, GrownMore

LEMMA ProcessBoxTyped ==
  ASSUME NEW n \in Nat, NEW g, Grown0(n, g), NEW u, NEW box \in 1..n
  PROVE  Grown0(n, ProcessBox(g, u, box))
<1> DEFINE in == g[box].in
           value == in[1]
           l == Len(g)
           a == UnboxUses(g, u, box, value)
           b == InsertMaterialize(a, u, box, <<value>>)
           c == RemoveUnusedBox(b, u, box)
           d == MarkDead(ReplaceAllUses(g, box, value), box)
<1>1. Typed(g) /\ l \in Nat /\ n <= l /\ Grown0(l, g) /\ box \in 1..l
  BY TypedFacts DEF Grown0
<1>2. ProcessBox(g, u, box) = g \/ (in # <<>> /\ ProcessBox(g, u, box) \in {c, d})
  BY DEF ProcessBox
<1>3. in \in Seq(0..l)
  BY <1>1, TypedFacts DEF TypedNode
<1>4. CASE in = <<>>
  BY <1>2, <1>4
<1>5. CASE in # <<>>
  <2> HIDE DEF in, c, d
  <2>1. value \in 0..l
    BY <1>1, <1>3, <1>5, OperandIn
  <2> HIDE DEF value
  <2>2. Grown0(l, a)
    BY <1>1, <2>1, UnboxUsesTyped
  <2> HIDE DEF a, l
  <2>3. Len(a) \in Nat /\ l <= Len(a) /\ Grown0(n, a)
    BY <1>1, <2>2, TypedFacts, GrownMore DEF Grown0
  <2>4. <<value>> \in Seq(0..Len(a)) /\ box \in 1..Len(a)
    <3> DEFINE e == Len(a)
    <3>1. e \in Nat /\ l <= e
      BY <2>3
    <3> HIDE DEF e
    <3>2. value \in 0..e /\ box \in 1..e
      BY <1>1, <2>1, <3>1
    <3>3. <<value>> \in Seq(0..e)
      BY <3>2
    <3> QED BY <3>2, <3>3 DEF e
  <2>5. Grown0(n, b)
    BY <2>3, <2>4, InsertMaterializeTyped
  <2> HIDE DEF b
  <2>6. Grown0(n, c)
    BY <2>5, GrownDead DEF RemoveUnusedBox, c
  <2>7. Grown0(n, d)
    BY <2>1, GrownMoved DEF d, l
  <2> QED BY <1>2, <2>6, <2>7
<1> QED BY <1>4, <1>5

LEMMA TripTyped ==
  ASSUME NEW n \in Nat, NEW g, Grown0(n, g), NEW id
  PROVE  Grown0(n, TripRemoved(g, id))
<1> DEFINE box == g[id].in[1]
           in == g[box].in
           l == Len(g)
           d == MarkDead(ReplaceAllUses(g, id, in[1]), id)
<1>1. Typed(g) /\ l \in Nat /\ n <= l /\ Ids(g) = 1..l
  BY TypedFacts DEF Grown0
<1>2. TripRemoved(g, id) = g \/ (TripRemoved(g, id) = d /\ Valid(g, box) /\ in # <<>>)
  BY DEF TripRemoved
<1>3. ASSUME Valid(g, box), in # <<>> PROVE Grown0(n, d)
  <2>1. box \in 1..l
    BY <1>1, <1>3 DEF Valid
  <2>2. in \in Seq(0..l)
    <3> HIDE DEF box
    <3> QED BY <1>1, <2>1, TypedFacts DEF TypedNode
  <2> HIDE DEF in
  <2>3. in[1] \in 0..l
    BY <1>1, <1>3, <2>2, OperandIn
  <2> QED BY <2>3, GrownMoved
<1> HIDE DEF d
<1> QED BY <1>2, <1>3

LEMMA RoundTripsTyped ==
  ASSUME NEW n \in Nat, NEW g, Grown0(n, g)
  PROVE  Grown0(n, RoundTrips(g))
<1> DEFINE m == Len(g)
           S == {id \in OfKind(g, {"Unbox", "UnboxAny"}) : g[id].in # <<>>}
           q == InOrder(S, m)
<1>1. m \in Nat
  BY TypedFacts DEF Grown0
<1>2. IsList(q)
  <2> HIDE DEF m, S
  <2> QED BY <1>1, InOrderList
<1>3. RoundTrips(g) = FoldIn("RoundTrips", 0, 0, 0, 0, g, q)
  BY <1>2, RoundTripsFold
<1> HIDE DEF q
<1>4. ASSUME NEW k \in 1..Len(q), NEW s, Grown0(n, s)
      PROVE  Grown0(n, FoldStepIn("RoundTrips", 0, 0, 0, 0, s, q[k]))
  BY <1>4, TripTyped, FoldStepInOf
<1> QED BY <1>2, <1>3, <1>4, FoldTyped

LEMMA OneStepTyped ==
  ASSUME NEW n \in Nat, NEW g, Grown0(n, g), NEW u, Typed(u), Len(u) = n, NEW id \in 1..n
  PROVE  Grown0(n, ProcessBoth(g, u, id))
<1> DEFINE b == IF g[id].kind = "Box" THEN ProcessBox(g, u, id) ELSE g
           a == ProcessAllocation(g, u, id)
<1>1. Grown0(n, b)
  BY ProcessBoxTyped
<1>2. Grown0(n, a)
  BY ProcessAllocationTyped
<1>3. ProcessBoth(g, u, id) \in {a, b}
  BY DEF ProcessBoth, Continue
<1> QED BY <1>1, <1>2, <1>3

(* A pass over nodes of the graph, with use lists built at its beginning.       *)
LEMMA PassOver ==
  ASSUME NEW g, Typed(g), NEW fold, fold \in {"PEARound", "ProcessBoxes", "ProcessAllocations"},
         NEW S
  PROVE  /\ IsList(InOrder(S, Len(g)))
         /\ Grown0(Len(g), FoldIn(fold, g, 0, 0, 0, g, InOrder(S, Len(g))))
<1> DEFINE n == Len(g)
           q == InOrder(S, n)
<1>1. n \in Nat /\ Grown0(n, g)
  BY GrownItself
<1> HIDE DEF n
<1>2. IsList(q) /\ \A k \in 1..Len(q) : q[k] \in 1..n
  BY <1>1, InOrderList
<1> HIDE DEF q
<1>3. ASSUME NEW k \in 1..Len(q), NEW s, Grown0(n, s)
      PROVE  Grown0(n, FoldStepIn(fold, g, 0, 0, 0, s, q[k]))
  <2> DEFINE id == q[k]
  <2>1. id \in 1..n /\ Len(g) = n
    BY <1>2 DEF n
  <2> HIDE DEF id
  <2>2. Grown0(n, ProcessBoth(s, g, id))
    BY <1>1, <1>3, <2>1, OneStepTyped
  <2>3. Grown0(n, ProcessBox(s, g, id))
    BY <1>1, <1>3, <2>1, ProcessBoxTyped
  <2>4. Grown0(n, ProcessAllocation(s, g, id))
    BY <1>1, <1>3, <2>1, ProcessAllocationTyped
  <2> QED BY <2>2, <2>3, <2>4, FoldStepInOfPasses DEF id
<1>4. Grown0(n, FoldIn(fold, g, 0, 0, 0, g, q))
  BY <1>1, <1>2, <1>3, FoldTyped
<1> QED BY <1>2, <1>4 DEF n, q

LEMMA GrownThrough ==
  ASSUME NEW n \in Nat, NEW g, Grown0(n, g), NEW x, Grown0(Len(g), x)
  PROVE  Grown0(n, x)
BY TypedFacts, GrownMore DEF Grown0

LEMMA RoundTyped ==
  ASSUME NEW n \in Nat, NEW g, Grown0(n, g)
  PROVE  /\ Grown0(n, PEARound(g)) /\ Grown0(n, ProcessBoxes(g)) /\ Grown0(n, ProcessAllocations(g))
<1> DEFINE l == Len(g)
           S1 == OfKind(g, AllocationKinds)
           S2 == OfKind(g, {"Box"})
           S3 == OfKind(g, AllocationKinds \ {"Box"})
           q1 == InOrder(S1, l)
           q2 == InOrder(S2, l)
           q3 == InOrder(S3, l)
<1>1. Typed(g)
  BY DEF Grown0
<1>2. IsList(q1) /\ Grown0(l, FoldIn("PEARound", g, 0, 0, 0, g, q1))
  <2> HIDE DEF S1
  <2> QED BY <1>1, PassOver
<1>3. IsList(q2) /\ Grown0(l, FoldIn("ProcessBoxes", g, 0, 0, 0, g, q2))
  <2> HIDE DEF S2
  <2> QED BY <1>1, PassOver
<1>4. IsList(q3) /\ Grown0(l, FoldIn("ProcessAllocations", g, 0, 0, 0, g, q3))
  <2> HIDE DEF S3
  <2> QED BY <1>1, PassOver
<1>5. PEARound(g) = FoldIn("PEARound", g, 0, 0, 0, g, q1)
  BY <1>2, PEARoundFold
<1>6. ProcessBoxes(g) = FoldIn("ProcessBoxes", g, 0, 0, 0, g, q2)
  BY <1>3, ProcessBoxesFold
<1>7. ProcessAllocations(g) = FoldIn("ProcessAllocations", g, 0, 0, 0, g, q3)
  BY <1>4, ProcessAllocationsFold
<1> HIDE DEF q1, q2, q3
<1>8. Grown0(l, PEARound(g)) /\ Grown0(l, ProcessBoxes(g)) /\ Grown0(l, ProcessAllocations(g))
  BY <1>2, <1>3, <1>4, <1>5, <1>6, <1>7
<1> QED BY <1>8, GrownThrough

LEMMA PEATyped ==
  ASSUME NEW n \in Nat, NEW g, Grown0(n, g)
  PROVE  Grown0(n, PEA(g))
<1> DEFINE a == RoundTrips(g)
           b == ProcessBoxes(a)
           c == ProcessAllocations(b)
           d == RoundsWhileChanged(b, c)
           q == [k \in 1..PEARounds |-> k]
<1>1. Grown0(n, a)
  BY RoundTripsTyped
<1> HIDE DEF a
<1>2. Grown0(n, b)
  BY <1>1, RoundTyped
<1> HIDE DEF b
<1>3. Grown0(n, c)
  BY <1>2, RoundTyped
<1> HIDE DEF c
<1>4. Grown0(n, d)
  <2>1. CASE c = b
    BY <1>3, <2>1 DEF RoundsWhileChanged
  <2>2. CASE c # b
    <3>1. IsList(q)
      BY DEF PEARounds, IsList
    <3>2. d = FoldIn("PEARounds", 0, 0, 0, 0, c, q)
      BY <2>2, <3>1, RoundsFold
    <3> HIDE DEF q, d
    <3>3. ASSUME NEW k \in 1..Len(q), NEW s, Grown0(n, s)
          PROVE  Grown0(n, FoldStepIn("PEARounds", 0, 0, 0, 0, s, q[k]))
      BY <3>3, RoundTyped, FoldStepInOfPasses
    <3> QED BY <1>3, <3>1, <3>2, <3>3, FoldTyped
  <2> QED BY <2>1, <2>2
<1>5. PEA(g) = d
  BY DEF PEA, AfterBoxes, d, c, b, a
<1> QED BY <1>4, <1>5

-----------------------------------------------------------------------------
(* SRA.                                                                         *)
LEMMA NotedNode ==
  ASSUME NEW x, GraphNode(x), NEW v, NEW t
  PROVE  LET y == [Mark(x, v) EXCEPT !.type = t]
         IN  GraphNode(y) /\ y.in = x.in /\ y.cls = x.cls
<1> DEFINE m == Mark(x, v)
<1>1. GraphNode(m) /\ m.in = x.in /\ m.cls = x.cls
  BY MarkedNode
<1> HIDE DEF m
<1>2. GraphNode([m EXCEPT !.type = t]) /\ [m EXCEPT !.type = t].in = m.in
      /\ [m EXCEPT !.type = t].cls = m.cls
  BY <1>1 DEF GraphNode
<1> QED BY <1>1, <1>2 DEF m

LEMMA NoteTyped ==
  ASSUME NEW n \in Nat, NEW g, Grown0(n, g), NEW load \in 1..n, NEW value
  PROVE  Grown0(n, NoteConstant(g, load, value))
<1> DEFINE l == Len(g)
           v == g[value].val
           t == g[value].type
           x == [Mark(g[load], v) EXCEPT !.type = t]
           r == Rewire(g, load, x)
<1>1. Typed(g) /\ l \in Nat /\ n <= l /\ load \in 1..l /\ TypedNode(g[load], l)
  BY TypedFacts DEF Grown0
<1>2. TypedNode(x, l)
  <2> HIDE DEF v, t, l
  <2>1. GraphNode(g[load])
    BY <1>1 DEF TypedNode
  <2>2. GraphNode(x) /\ x.in = g[load].in /\ x.cls = g[load].cls
    BY <2>1, NotedNode
  <2> HIDE DEF x
  <2> QED BY <1>1, <2>2 DEF TypedNode
<1>3. NoteConstant(g, load, value) = r
  BY DEF NoteConstant
<1> HIDE DEF x
<1>4. Typed(r) /\ Len(r) = l
  BY <1>1, <1>2, TypedRewire
<1> HIDE DEF r
<1> QED BY <1>1, <1>3, <1>4 DEF Grown0

LEMMA LoadKnownTyped ==
  ASSUME NEW n \in Nat, NEW h, Grown0(n, h), NEW g, Typed(g), Len(g) = n, NEW u, Typed(u), Len(u) <= n,
         NEW o, NEW load \in 1..n
  PROVE  Grown0(n, LoadKnown(g, u, o, h, load))
<1> DEFINE at == StoresAt(g, u, o, g[load].cls)
           last == MaxOf(Users(at))
           value == StoredBy(g, last)
           a == NoteConstant(h, load, value)
           b == MarkDead(ReplaceAllUses(h, load, value), load)
<1>1. CASE ForwardableFrom(h, g, u, o, load)
  <2>1. at # {}
    BY <1>1 DEF ForwardableFrom
  <2>2. last \in 1..Len(u)
    BY <2>1, LastStoreWithin
  <2>3. last \in 1..n
    <3>1. Len(u) \in Nat
      BY TypedFacts
    <3> HIDE DEF last
    <3> QED BY <2>2, <3>1
  <2>4. value \in 0..n
    <3> HIDE DEF last
    <3> QED BY <2>3, StoredTyped
  <2>5. LoadKnown(g, u, o, h, load) \in {a, b}
    BY <1>1 DEF LoadKnown
  <2> HIDE DEF value
  <2>6. value \in 0..Len(h)
    BY <2>4, TypedFacts DEF Grown0
  <2>7. Grown0(n, a) /\ Grown0(n, b)
    BY <2>6, NoteTyped, GrownMoved
  <2> HIDE DEF a, b
  <2> QED BY <2>5, <2>7
<1>2. CASE ~ForwardableFrom(h, g, u, o, load)
  <2>1. LoadKnown(g, u, o, h, load) = h
    BY <1>2 DEF LoadKnown
  <2> QED BY <2>1
<1> QED BY <1>1, <1>2

LEMMA SRAObjectTyped ==
  ASSUME NEW n \in Nat, NEW g, Grown0(n, g), NEW u, Typed(u), Len(u) <= n, NEW o
  PROVE  Grown0(n, SRAObject(g, u, o))
<1> DEFINE l == Len(g)
           S == {id \in Users(LiveUses(g, u, o)) : g[id].kind \in LoadKinds}
           T == Users(Stores(g, u, o))
           q == InOrder(S, l)
           p == InOrder(T, l)
           loaded == FoldIn("SRALoads", g, u, o, 0, g, q)
           dropped == FoldIn("SRAStores", u, 0, 0, 0, loaded, p)
<1>1. Typed(g) /\ l \in Nat /\ n <= l /\ Grown0(l, g) /\ Len(u) \in Nat
  BY TypedFacts DEF Grown0
<1>2. IsList(q) /\ \A k \in 1..Len(q) : q[k] \in 1..l
  <2> HIDE DEF l, S
  <2> QED BY <1>1, InOrderList
<1>3. IsList(p)
  <2> HIDE DEF l, T
  <2> QED BY <1>1, InOrderList
<1>4. SRAObject(g, u, o) \in {dropped, MarkDead(dropped, o)}
  BY <1>2, <1>3, SRAObjectFolds
<1> HIDE DEF q, p
<1>5. ASSUME NEW k \in 1..Len(q), NEW s, Grown0(l, s)
      PROVE  Grown0(l, FoldStepIn("SRALoads", g, u, o, 0, s, q[k]))
  <2>1. q[k] \in 1..l /\ Len(u) <= l
    <3> HIDE DEF l
    <3> QED BY <1>1, <1>2
  <2>2. Grown0(l, LoadKnown(g, u, o, s, q[k]))
    BY <1>1, <1>5, <2>1, LoadKnownTyped
  <2> QED BY <2>2, FoldStepInOfPasses
<1>6. Grown0(l, loaded)
  <2> HIDE DEF l
  <2> QED BY <1>1, <1>2, <1>5, FoldTyped
<1>7. Grown0(n, loaded)
  BY <1>1, <1>6, GrownMore
<1> HIDE DEF loaded
<1>8. ASSUME NEW k \in 1..Len(p), NEW s, Grown0(n, s)
      PROVE  Grown0(n, FoldStepIn("SRAStores", u, 0, 0, 0, s, p[k]))
  <2>1. Grown0(n, StoreDropped(u, s, p[k]))
    BY <1>8, GrownDead DEF StoreDropped
  <2> QED BY <2>1, FoldStepInOfPasses
<1>9. Grown0(n, dropped)
  BY <1>3, <1>7, <1>8, FoldTyped
<1> HIDE DEF dropped
<1> QED BY <1>4, <1>9, GrownDead

LEMMA SRATyped ==
  ASSUME NEW n \in Nat, NEW g, Grown0(n, g)
  PROVE  Grown0(n, SRA(g))
<1> DEFINE m == Len(g)
           S == {o \in OfKind(g, AllocationKinds \ {"Box"}) :
                   ~HasGuardRefs(g, g, o) /\ Escaping(g, LiveUses(g, g, o)) = {}}
           q == InOrder(S, m)
<1>1. Typed(g) /\ m \in Nat /\ n <= m /\ Grown0(m, g)
  BY TypedFacts DEF Grown0
<1>2. IsList(q)
  <2> HIDE DEF m, S
  <2> QED BY <1>1, InOrderList
<1>3. SRA(g) = FoldIn("SRA", g, 0, 0, 0, g, q)
  BY <1>2, SRAFold
<1> HIDE DEF q
<1>4. ASSUME NEW k \in 1..Len(q), NEW s, Grown0(m, s)
      PROVE  Grown0(m, FoldStepIn("SRA", g, 0, 0, 0, s, q[k]))
  <2>1. Len(g) <= m
    BY <1>1
  <2>2. Grown0(m, SRAObject(s, g, q[k]))
    BY <1>1, <1>4, <2>1, SRAObjectTyped
  <2> QED BY <2>2, FoldStepInOfPasses
<1> HIDE DEF m
<1>5. Grown0(m, SRA(g))
  BY <1>1, <1>2, <1>3, <1>4, FoldTyped
<1> QED BY <1>1, <1>5, GrownMore

LEMMA CopiesAppended ==
  ASSUME NEW f, NEW n \in Nat, \A x \in DOMAIN f : f[x] \in 1..n, NEW id
  PROVE  LET h == [x \in DOMAIN f \cup {id} |-> IF x = id THEN n + 1 ELSE f[x]]
         IN  \A x \in DOMAIN h : h[x] \in 1..n + 1
OBVIOUS

(* Operands copied.                                                             *)
LEMMA OperandsMapped ==
  ASSUME NEW n \in Nat, NEW in \in Seq(0..n), NEW f, \A x \in DOMAIN f : f[x] \in 1..n
  PROVE  [k \in DOMAIN in |-> IF in[k] \in DOMAIN f THEN f[in[k]] ELSE in[k]] \in Seq(0..n)
<1> DEFINE m == Len(in)
           h == [k \in DOMAIN in |-> IF in[k] \in DOMAIN f THEN f[in[k]] ELSE in[k]]
<1>1. m \in Nat /\ DOMAIN in = 1..m /\ \A k \in 1..m : in[k] \in 0..n
  OBVIOUS
<1>2. 1..n \subseteq 0..n
  OBVIOUS
<1> DEFINE S == 0..n
<1> HIDE DEF m, S
<1>3. h \in [1..m -> S]
  BY <1>1, <1>2 DEF S
<1> HIDE DEF h
<1>4. h \in Seq(S)
  BY <1>1, <1>3
<1> QED BY <1>4 DEF h, S

LEMMA CopyTyped ==
  ASSUME NEW n \in Nat, NEW s, Fine("copies", n, s), NEW id \in 1..n
  PROVE  Fine("copies", n, CopyNode(s, id))
<1> DEFINE g == s.g
           f == s.copies
           l == Len(g)
           e == l + 1
           m == g[id]
           copy(x) == IF x \in DOMAIN f THEN f[x] ELSE x
           in == [k \in DOMAIN m.in |-> copy(m.in[k])]
           ctrl == copy(m.ctrl)
           eff == copy(m.eff)
           new == NewNode(m.kind, in, ctrl, eff)
           x == [new EXCEPT !.val = m.val, !.cls = m.cls]
           a == Append(g, x)
           c == [y \in DOMAIN f \cup {id} |-> IF y = id THEN e ELSE f[y]]
<1>1. CopyNode(s, id) = [g |-> a, copies |-> c]
  BY DEF CopyNode
<1>2. Grown0(n, g) /\ \A y \in DOMAIN f : f[y] \in 1..l
  BY FineIs
<1>3. Typed(g) /\ l \in Nat /\ e \in Nat /\ n <= l /\ id \in 1..l /\ TypedNode(m, l)
  BY <1>2, TypedFacts DEF Grown0
<1>4. m.kind \in Kinds /\ m.in \in Seq(0..l) /\ m.cls \in Nat
  BY <1>3 DEF TypedNode, GraphNode
<1>5. in \in Seq(0..l)
  <2> DEFINE old == m.in
  <2>1. old \in Seq(0..l)
    BY <1>4
  <2> HIDE DEF old, f, l
  <2>2. [k \in DOMAIN old |-> IF old[k] \in DOMAIN f THEN f[old[k]] ELSE old[k]] \in Seq(0..l)
    BY <1>2, <1>3, <2>1, OperandsMapped
  <2> QED BY <2>2 DEF old
<1>6. in \in Seq(0..e)
  <2> HIDE DEF in, l
  <2>1. 0..l \subseteq 0..e
    BY <1>3
  <2> QED BY <1>5, <2>1, SeqMonotonic
<1> HIDE DEF in, ctrl, eff
<1>7. TypedNode(x, e)
  <2> DEFINE kind == m.kind
             val == m.val
             cls == m.cls
  <2>1. kind \in Kinds /\ cls \in Nat
    BY <1>4
  <2> HIDE DEF kind, val, cls, e
  <2> DEFINE z == NewNode(kind, in, ctrl, eff)
  <2>2. TypedNews(z, e)
    BY <1>3, <1>6, <2>1, TypedNew
  <2> HIDE DEF z
  <2>3. TypedNode([z EXCEPT !.val = val, !.cls = cls], e)
    BY <2>1, <2>2 DEF TypedNews
  <2> QED BY <2>3 DEF z, kind, val, cls
<1> HIDE DEF x
<1>8. Typed(a) /\ Len(a) = e
  BY <1>3, <1>7, TypedAppend
<1>9. \A y \in DOMAIN c : c[y] \in 1..e
  <2> HIDE DEF f, l
  <2> QED BY <1>2, <1>3, CopiesAppended
<1> HIDE DEF a, c
<1> DEFINE t == [g |-> a, copies |-> c]
<1>10. t.g = a /\ t.copies = c
  OBVIOUS
<1>11. Grown0(n, a)
  <2> HIDE DEF l
  <2> QED BY <1>3, <1>8 DEF Grown0
<1>12. \A y \in DOMAIN t.copies : t.copies[y] \in 1..Len(t.g)
  <2> HIDE DEF e
  <2> QED BY <1>8, <1>9, <1>10
<1>13. t = [g |-> t.g, copies |-> t.copies]
  BY <1>10
<1> HIDE DEF t
<1>14. Fine("copies", n, t)
  BY <1>10, <1>11, <1>12, <1>13, FineIs
<1> QED BY <1>1, <1>14 DEF t

LEMMA LoopUnrolledTyped ==
  ASSUME NEW g, Typed(g), NEW bs, NEW x, Grown0(Len(g), x), NEW h
  PROVE  Grown0(Len(g), LoopUnrolled(g, bs, x, h))
<1> DEFINE n == Len(g)
           S == {id \in LoopNodes(g, bs, h - 1) : g[id].kind \notin {"Loop", "Jump"}}
           q == InOrder(S, n)
           base == [g |-> x, copies |-> <<>>]
           end == FoldIn("CopyNode", 0, 0, 0, 0, base, q)
<1>1. n \in Nat
  BY TypedFacts
<1>2. IsList(q) /\ \A k \in 1..Len(q) : q[k] \in 1..n
  <2> HIDE DEF n, S
  <2> QED BY <1>1, InOrderList
<1>3. q = Copied(g, bs, h - 1)
  BY DEF Copied
<1> HIDE DEF q
<1>4. LoopUnrolled(g, bs, x, h) = end.g
  BY <1>2, <1>3, LoopUnrolledFold
<1>5. Fine("copies", n, base)
  <2>1. base.g = x /\ base.copies = <<>> /\ base = [g |-> base.g, copies |-> base.copies]
    OBVIOUS
  <2>2. DOMAIN base.copies = {}
    BY <2>1
  <2> HIDE DEF base
  <2> QED BY <2>1, <2>2, FineIs
<1> HIDE DEF base, n
<1>6. ASSUME NEW k \in 1..Len(q), NEW s, Fine("copies", n, s)
      PROVE  Fine("copies", n, FoldStepIn("CopyNode", 0, 0, 0, 0, s, q[k]))
  BY <1>1, <1>2, <1>6, CopyTyped, FoldStepInOfCopies
<1>7. Fine("copies", n, end)
  BY <1>2, <1>5, <1>6, FoldFine DEF IsList
<1> HIDE DEF end
<1>8. Grown0(n, end.g)
  BY <1>7, FineIs
<1> QED BY <1>4, <1>8 DEF n

LEMMA LoopUnrollingTyped ==
  ASSUME NEW n \in Nat, NEW g, Grown0(n, g)
  PROVE  Grown0(n, LoopUnrolling(g))
<1> DEFINE bs == BlockStructure(g)
           L == {h + 1 : h \in {h \in Blocks(bs) :
                   IsLoopHeader(g, bs, h)
                   /\ Cardinality(LoopNodes(g, bs, h)) \in MinBodySize..MaxBodySize}}
           q == InOrder(L, Len(bs))
           m == Len(g)
<1>1. Typed(g) /\ m \in Nat /\ n <= m /\ Grown0(m, g)
  BY TypedFacts DEF Grown0
<1>2. IsList(bs)
  <2> DEFINE S == {id \in Live(g) : IsLeader(g, id)}
  <2>1. bs = InOrder(S, m)
    BY DEF BlockStructure
  <2> HIDE DEF S, bs, m
  <2> QED BY <1>1, <2>1, InOrderList
<1> HIDE DEF bs
<1>3. IsList(q)
  <2> HIDE DEF L
  <2> QED BY <1>2, InOrderList DEF IsList
<1>4. LoopUnrolling(g) = FoldIn("LoopUnrolling", g, bs, 0, 0, g, q)
  BY <1>3, LoopUnrollingFold DEF bs
<1> HIDE DEF q
<1>5. ASSUME NEW k \in 1..Len(q), NEW s, Grown0(m, s)
      PROVE  Grown0(m, FoldStepIn("LoopUnrolling", g, bs, 0, 0, s, q[k]))
  BY <1>1, <1>5, LoopUnrolledTyped, FoldStepInOfCopies
<1> HIDE DEF m
<1>6. Grown0(m, LoopUnrolling(g))
  BY <1>1, <1>3, <1>4, <1>5, FoldTyped
<1> QED BY <1>1, <1>6, GrownMore

LEMMA LoopUnswitchingTyped ==
  ASSUME NEW n \in Nat, NEW g, Grown0(n, g)
  PROVE  Grown0(n, LoopUnswitching(g))
<1>1. \E ids : LoopUnswitching(g) = SetFlag(g, ids, "IsScheduled")
  BY DEF LoopUnswitching
<1>2. PICK ids : LoopUnswitching(g) = SetFlag(g, ids, "IsScheduled")
  BY <1>1
<1>3. "IsScheduled" \in Flags
  BY DEF Flags
<1> DEFINE x == SetFlag(g, ids, "IsScheduled")
<1>4. Typed(x) /\ Len(x) = Len(g)
  BY <1>3, TypedFlag DEF Grown0
<1> HIDE DEF x
<1>5. Grown0(n, x)
  BY <1>4, GrownBy
<1> QED BY <1>2, <1>5 DEF x

LEMMA DevirtualizationTyped ==
  ASSUME NEW n \in Nat, NEW g, Grown0(n, g)
  PROVE  Grown0(n, Devirtualization(g))
<1> DEFINE m == Len(g)
           known(x) == [x EXCEPT !.kind = "CallKnown"]
           S == {id \in OfKind(g, {"CallVirt"}) : g[id].in # <<>>
                   /\ g[id].in[1] \in OfKind(g, {"NewObj", "Allocate"})}
           h == Devirtualization(g)
<1>1. Typed(g) /\ m \in Nat /\ n <= m /\ Ids(g) = 1..m /\ \A x \in 1..m : TypedNode(g[x], m)
  BY TypedFacts DEF Grown0
<1>2. h = [id \in 1..m |-> IF id \in S THEN known(g[id]) ELSE g[id]]
  BY <1>1 DEF Devirtualization
<1>3. ASSUME NEW x, TypedNode(x, m) PROVE TypedNode(known(x), m)
  <2>1. GraphNode(known(x)) /\ known(x).in = x.in /\ known(x).cls = x.cls
    BY <1>3 DEF TypedNode, GraphNode, Kinds, EffectKinds
  <2> HIDE DEF known
  <2> QED BY <1>3, <2>1 DEF TypedNode
<1> HIDE DEF known, S, h
<1>4. h = [x \in 1..m |-> h[x]] /\ \A x \in 1..m : TypedNode(h[x], m)
  BY <1>1, <1>2, <1>3
<1> HIDE DEF m
<1>5. Typed(h) /\ Len(h) = m
  BY <1>1, <1>4, TypedPoints
<1>6. Grown0(n, h)
  BY <1>1, <1>5 DEF Grown0
<1> QED BY <1>6 DEF h

(* SLP.                                                                         *)
IsFlat(f, seqs, n) == f = [i \in 1..n |-> IF i = 1 THEN seqs[i] ELSE f[i - 1] \o seqs[i]]

LEMMA FlatExists ==
  ASSUME NEW seqs, NEW n \in Nat
  PROVE  \E f : IsFlat(f, seqs, n)
<1> DEFINE T == {m \in Nat : \E f : IsFlat(f, seqs, m)}
<1>1. 0 \in T
  <2> DEFINE f == [i \in 1..0 |-> 0]
  <2>1. f = [i \in 1..0 |-> IF i = 1 THEN seqs[i] ELSE f[i - 1] \o seqs[i]]
    OBVIOUS
  <2> QED BY <2>1 DEF IsFlat
<1>2. ASSUME NEW m \in 0..n - 1, m \in T PROVE m + 1 \in T
  <2>1. PICK f : IsFlat(f, seqs, m)
    BY <1>2
  <2> DEFINE r(i, before) == IF i = 1 THEN seqs[i] ELSE before \o seqs[i]
             h == [i \in 1..m + 1 |-> IF i <= m THEN f[i] ELSE r(i, f[m])]
  <2>2. ASSUME NEW i \in 1..m + 1 PROVE h[i] = r(i, h[i - 1])
    <3>1. CASE i \in 1..m
      <4>1. h[i] = f[i]
        <5>1. i <= m
          BY <3>1
        <5> HIDE DEF r
        <5> QED BY <5>1
      <4>1b. f[i] = r(i, f[i - 1])
        BY <2>1, <3>1 DEF IsFlat
      <4>2. i # 1 => h[i - 1] = f[i - 1]
        <5>1. i # 1 => i - 1 \in 1..m + 1 /\ i - 1 <= m
          BY <3>1
        <5> HIDE DEF r
        <5> QED BY <5>1
      <4>3. h[i] = r(i, h[i - 1])
        <5> HIDE DEF h
        <5>1. f[i] = r(i, h[i - 1])
          BY <4>1b, <4>2
        <5> HIDE DEF r
        <5> QED BY <4>1, <5>1
      <4> QED BY <4>3
    <3>2. CASE i = m + 1
      <4>1. ~(i <= m) /\ i - 1 = m
        BY <3>2
      <4>2. h[i] = r(i, f[m])
        <5> HIDE DEF r
        <5> QED BY <4>1
      <4>3. i # 1 => h[i - 1] = f[m]
        <5>1. i # 1 => m \in 1..m + 1 /\ m <= m
          BY <3>2
        <5> HIDE DEF r
        <5> QED BY <4>1, <5>1
      <4> HIDE DEF h
      <4> QED BY <4>2, <4>3
    <3> QED BY <3>1, <3>2
  <2>3. h = [i \in 1..m + 1 |-> r(i, h[i - 1])]
    <3>1. h = [i \in 1..m + 1 |-> h[i]]
      OBVIOUS
    <3> HIDE DEF h, r
    <3> QED BY <2>2, <3>1
  <2>4. IsFlat(h, seqs, m + 1)
    BY <2>3 DEF IsFlat
  <2> HIDE DEF h
  <2> QED BY <1>2, <2>4
<1>3. n \in T
  <2> HIDE DEF T
  <2> QED BY <1>1, <1>2, PrefixInduction
<1> QED BY <1>3

LEMMA FlatSeq ==
  ASSUME NEW S, NEW n \in Nat \ {0}, NEW seqs, Len(seqs) = n, \A i \in 1..n : seqs[i] \in Seq(S)
  PROVE  FlattenSeq(seqs) \in Seq(S)
<1> DEFINE f == CHOOSE f : IsFlat(f, seqs, n)
           T == {m \in Nat : m \in 1..n => f[m] \in Seq(S)}
<1>1. IsFlat(f, seqs, n)
  BY FlatExists
<1>2. FlattenSeq(seqs) = f[n]
  BY DEF FlattenSeq, IsFlat
<1> HIDE DEF f
<1>3. 0 \in T
  OBVIOUS
<1>4. ASSUME NEW m \in 0..n - 1, m \in T PROVE m + 1 \in T
  <2>1. m + 1 \in 1..n /\ (m + 1) - 1 = m /\ m + 1 \in Nat
    OBVIOUS
  <2> DEFINE j == m + 1
  <2>2. j \in 1..n /\ j - 1 = m /\ j \in Nat /\ (j # 1 => m \in 1..n)
    BY <2>1
  <2>3. f[j] = IF j = 1 THEN seqs[j] ELSE f[m] \o seqs[j]
    <3> HIDE DEF j
    <3> QED BY <1>1, <2>2 DEF IsFlat
  <2> HIDE DEF j
  <2>4. seqs[j] \in Seq(S) /\ (j # 1 => f[m] \in Seq(S))
    BY <1>4, <2>2
  <2>5. f[j] \in Seq(S)
    <3>1. CASE j = 1
      BY <2>3, <2>4, <3>1
    <3>2. CASE j # 1
      <4> DEFINE a == f[m]
                 b == seqs[j]
      <4>1. a \in Seq(S) /\ b \in Seq(S) /\ f[j] = a \o b
        BY <2>3, <2>4, <3>2
      <4> HIDE DEF a, b
      <4> QED BY <4>1, ConcatProperties
    <3> QED BY <3>1, <3>2
  <2>6. j \in T
    BY <2>2, <2>5
  <2> QED BY <2>6 DEF j
<1>5. f[n] \in Seq(S)
  <2> HIDE DEF T
  <2>1. 0..n \subseteq T
    BY <1>3, <1>4, PrefixInduction
  <2>2. n \in 0..n /\ n \in 1..n
    OBVIOUS
  <2>3. n \in T
    BY <2>1, <2>2
  <2> QED BY <2>2, <2>3 DEF T
<1> QED BY <1>2, <1>5

LEMMA PackTyped ==
  ASSUME NEW g, Typed(g), NEW kind
  PROVE  Fine("pack", Len(g), Pack(g, kind))
<1> DEFINE n == Len(g)
           S == {id \in OfKind(g, {kind}) : Has(g, id, "Pure") /\ Len(g[id].in) = 2}
           q == InOrder(S, n)
<1>1. n \in Nat
  BY TypedFacts
<1>2. IsList(q) /\ \A k \in 1..Len(q) : q[k] \in 1..n
  <2> HIDE DEF n, S
  <2> QED BY <1>1, InOrderList
<1>3. Pack(g, kind) = FoldIn("Pack", g, 0, 0, 0, <<>>, q)
  BY <1>2, PackFold
<1> HIDE DEF q, n
<1>4. Fine("pack", n, <<>>)
  <2> DEFINE s == <<>>
  <2>1. s \in Seq({}) /\ Len(s) = 0
    OBVIOUS
  <2> HIDE DEF s
  <2>2. IsStack(s) /\ \A k \in 1..Len(s) : s[k] \in 1..n
    BY <2>1 DEF IsStack
  <2>3. Fine("pack", n, s)
    BY <2>2, FineIs
  <2> QED BY <2>3 DEF s
<1>5. ASSUME NEW k \in 1..Len(q), NEW s, Fine("pack", n, s)
      PROVE  Fine("pack", n, FoldStepIn("Pack", g, 0, 0, 0, s, q[k]))
  <2> DEFINE id == q[k]
             a == Append(s, id)
             l == Len(s)
  <2>1. IsStack(s) /\ (\A j \in 1..l : s[j] \in 1..n) /\ id \in 1..n
    BY <1>2, <1>5, FineIs
  <2> HIDE DEF id
  <2>2. IsStack(a) /\ Len(a) = l + 1 /\ (\A j \in 1..l : a[j] = s[j]) /\ a[l + 1] = id /\ l \in Nat
    BY <2>1, PushStack
  <2> HIDE DEF a, l
  <2>3. \A j \in 1..Len(a) : a[j] \in 1..n
    <3> SUFFICES ASSUME NEW j \in 1..l + 1 PROVE a[j] \in 1..n
      BY <2>2
    <3>1. CASE j \in 1..l
      BY <2>1, <2>2, <3>1
    <3>2. CASE j = l + 1
      BY <2>1, <2>2, <3>2
    <3> QED BY <2>2, <3>1, <3>2
  <2>4. Fine("pack", n, a)
    BY <2>2, <2>3, FineIs
  <2>5. PackedWith(g, s, id) \in {s, a}
    BY DEF PackedWith, a
  <2>6. Fine("pack", n, PackedWith(g, s, id))
    BY <1>5, <2>4, <2>5
  <2> QED BY <2>6, FoldStepInOfCopies DEF id
<1>6. Fine("pack", n, Pack(g, kind))
  BY <1>2, <1>3, <1>4, <1>5, FoldFine DEF IsList
<1> QED BY <1>6 DEF n

LEMMA LaneTyped ==
  ASSUME NEW n \in Nat, NEW g, Grown0(n, g), NEW pack, NEW vector \in 0..n, NEW lane
  PROVE  Grown0(n, LaneExtracted(pack, vector, g, lane))
<1> DEFINE l == Len(g)
           e == l + 1
           in == <<vector>>
           new == NewNode("VectorExtract", in, NoId, NoId)
           v == lane - 1
           x == [new EXCEPT !.val = v]
           a == Append(g, x)
           old == pack[lane]
           r == MarkDead(ReplaceAllUses(a, old, e), old)
<1>1. LaneExtracted(pack, vector, g, lane) = r
  BY DEF LaneExtracted, ExtractLane
<1>2. Typed(g) /\ l \in Nat /\ e \in Nat /\ n <= l /\ n <= e /\ e \in 0..e
  BY TypedFacts DEF Grown0
<1>3. in \in Seq(0..e)
  <2> HIDE DEF e, l
  <2>1. vector \in 0..e
    BY <1>2
  <2> QED BY <2>1
<1>4. "VectorExtract" \in Kinds
  BY DEF Kinds, PureKinds
<1>5. TypedNode(x, e)
  <2> HIDE DEF e, in, v
  <2>1. TypedNews(new, e)
    BY <1>2, <1>3, <1>4, TypedNew
  <2> HIDE DEF new
  <2> QED BY <2>1 DEF TypedNews
<1> HIDE DEF x
<1>6. Typed(a) /\ Len(a) = e
  BY <1>2, <1>5, TypedAppend
<1> HIDE DEF a, e, old
<1>7. Grown0(n, a)
  BY <1>2, <1>6 DEF Grown0
<1>8. Grown0(n, r)
  BY <1>2, <1>6, <1>7, GrownMoved
<1> QED BY <1>1, <1>8

LEMMA PackKindTyped ==
  ASSUME NEW n \in Nat, NEW g, Grown0(n, g), NEW k \in Nat
  PROVE  Grown0(n, PackKind(g, k))
<1> DEFINE l == Len(g)
           e == l + 1
           pack == Pack(g, PackableKinds[k])
           m == Len(pack)
           seqs == [lane \in DOMAIN pack |-> g[pack[lane]].in]
           in == FlattenSeq(seqs)
           new == NewNode("VectorOp", in, NoId, NoId)
           x == [new EXCEPT !.cls = k]
           base == Append(g, x)
           q == [lane \in DOMAIN pack |-> lane]
<1>1. Typed(g) /\ l \in Nat /\ e \in Nat /\ n <= l /\ n <= e /\ e \in 0..e /\ l <= e
  BY TypedFacts DEF Grown0
<1>2. IsStack(pack) /\ \A lane \in 1..m : pack[lane] \in 1..l
  <2> DEFINE kind == PackableKinds[k]
  <2> HIDE DEF kind
  <2>1. Fine("pack", l, Pack(g, kind))
    BY <1>1, PackTyped
  <2> QED BY <2>1, FineIs DEF kind
<1>3. PackKind(g, k) = g \/ ~(Len(pack) < 2)
  BY DEF PackKind
<1>4. CASE ~(Len(pack) < 2)
  <2> HIDE DEF pack
  <2>1. DOMAIN pack = 1..m /\ m \in Nat
    BY <1>2 DEF IsStack
  <2>2. m \in Nat \ {0}
    BY <1>4, <2>1
  <2> HIDE DEF m
  <2>3. IsList(q)
    BY <2>1, NumbersList
  <2>4. \A lane \in 1..m : g[pack[lane]].in \in Seq(0..l)
    BY <1>1, <1>2, TypedFacts DEF TypedNode
  <2> DEFINE S == 0..l
  <2>5. \A lane \in 1..m : seqs[lane] \in Seq(S)
    BY <2>1, <2>4
  <2>6. Len(seqs) = m
    <3>1. seqs = [lane \in 1..m |-> seqs[lane]]
      BY <2>1
    <3> HIDE DEF seqs, S
    <3>2. seqs \in [1..m -> Seq(S)]
      BY <2>5, <3>1
    <3>3. seqs \in Seq(Seq(S))
      BY <2>1, <3>2
    <3> QED BY <2>1, <3>2, <3>3
  <2> HIDE DEF seqs, S
  <2>7. in \in Seq(S)
    BY <2>2, <2>5, <2>6, FlatSeq
  <2> HIDE DEF in
  <2>8. in \in Seq(0..e)
    <3> HIDE DEF l, e
    <3>1. 0..l \subseteq 0..e
      BY <1>1
    <3> QED BY <2>7, <3>1, SeqMonotonic DEF S
  <2>9. "VectorOp" \in Kinds
    BY DEF Kinds, PureKinds
  <2>10. TypedNode(x, e)
    <3> HIDE DEF e
    <3>1. TypedNews(new, e)
      BY <1>1, <2>8, <2>9, TypedNew
    <3> HIDE DEF new
    <3> QED BY <3>1 DEF TypedNews
  <2>11. PackKind(g, k) = FoldIn("Lanes", pack, e, 0, 0, base, q)
    <3> DEFINE b == base
               p == q
    <3>1. b = PackBase(g, k, pack)
      BY DEF in, seqs, PackBase
    <3>2. pack = Pack(g, PackableKinds[k])
      BY DEF pack
    <3>3. p = [lane \in DOMAIN pack |-> lane] /\ e = Len(g) + 1
      OBVIOUS
    <3>4. IsList(p) /\ ~(Len(pack) < 2)
      BY <1>4, <2>3
    <3> HIDE DEF b, p, e
    <3>5. PackKind(g, k) = FoldIn("Lanes", pack, e, 0, 0, b, p)
      BY <3>1, <3>2, <3>3, <3>4, PackKindFold
    <3> QED BY <3>5 DEF b, p
  <2> HIDE DEF x
  <2>12. Typed(base) /\ Len(base) = e
    BY <1>1, <2>10, TypedAppend
  <2> HIDE DEF base, q, e
  <2>13. Grown0(e, base)
    BY <1>1, <2>12 DEF Grown0
  <2>14. ASSUME NEW j \in 1..Len(q), NEW s, Grown0(e, s)
         PROVE  Grown0(e, FoldStepIn("Lanes", pack, e, 0, 0, s, q[j]))
    BY <1>1, <2>14, LaneTyped, FoldStepInOfCopies
  <2>15. Grown0(e, FoldIn("Lanes", pack, e, 0, 0, base, q))
    BY <2>3, <2>13, <2>14, FoldTyped
  <2> QED BY <1>1, <2>11, <2>15, GrownMore
<1> QED BY <1>3, <1>4

LEMMA SLPTyped ==
  ASSUME NEW n \in Nat, NEW g, Grown0(n, g)
  PROVE  Grown0(n, SLP(g))
<1> DEFINE q == [k \in DOMAIN PackableKinds |-> k]
<1>1. IsList(q) /\ \A k \in 1..Len(q) : q[k] \in Nat
  <2>1. DOMAIN PackableKinds = 1..6
    BY DEF PackableKinds
  <2> DEFINE m == 6
             s == PackableKinds
  <2>2. DOMAIN s = 1..m /\ m \in Nat
    BY <2>1
  <2> HIDE DEF m, s
  <2>3. IsList([k \in DOMAIN s |-> k]) /\ Len([k \in DOMAIN s |-> k]) = m
        /\ \A k \in 1..m : [j \in DOMAIN s |-> j][k] = k
    BY <2>2, NumbersList
  <2>4. q = [k \in DOMAIN s |-> k]
    BY DEF s
  <2> HIDE DEF q
  <2> QED BY <2>2, <2>3, <2>4
<1>2. SLP(g) = FoldIn("SLP", 0, 0, 0, 0, g, q)
  BY <1>1, SLPFold
<1> HIDE DEF q
<1>3. ASSUME NEW k \in 1..Len(q), NEW s, Grown0(n, s)
      PROVE  Grown0(n, FoldStepIn("SLP", 0, 0, 0, 0, s, q[k]))
  BY <1>1, <1>3, PackKindTyped, FoldStepInOfCopies
<1> QED BY <1>1, <1>2, <1>3, FoldTyped

(* The passes of the RUBY tier.                                                 *)
LEMMA TableIs ==
  ASSUME NEW n, NEW s
  PROVE  Fine("table", n, s) <=> IsAt(s, n) /\ Typed(s.g) /\ \A e \in s.table : e.id \in 1..n
BY DEF Fine

LEMMA TabledAt ==
  ASSUME NEW n, NEW s, s = [g |-> s.g, table |-> s.table], Typed(s.g), Len(s.g) = n,
         \A e \in s.table : e.id \in 1..n
  PROVE  Fine("table", n, s)
BY TypedFacts, TableIs DEF IsAt

LEMMA DeduplicateTyped ==
  ASSUME NEW n \in Nat, NEW s, Fine("table", n, s), NEW id \in 1..n
  PROVE  Fine("table", n, Deduplicate(s, id)) /\ Fine("table", n, [s EXCEPT !.table = {}])
<1> DEFINE sig == Signature(s.g, id)
           same == {e \in s.table : e.sig = sig}
           kept == (CHOOSE e \in same : TRUE).id
           h == MarkDead(ReplaceAllUses(s.g, id, kept), id)
           entry == [sig |-> sig, id |-> id]
           more == s.table \cup {entry}
<1>1. Deduplicate(s, id) = IF same = {} THEN [s EXCEPT !.table = more] ELSE [s EXCEPT !.g = h]
  BY DEF Deduplicate
<1>2. s = [g |-> s.g, table |-> s.table] /\ Typed(s.g) /\ Len(s.g) = n /\ \A e \in s.table : e.id \in 1..n
  BY TableIs DEF IsAt
<1>3. same # {} => kept \in 0..n
  <2>1. same # {} => (CHOOSE e \in same : TRUE) \in same
    <3> HIDE DEF same
    <3> QED OBVIOUS
  <2> DEFINE e == CHOOSE e \in same : TRUE
  <2>2. same # {} => e \in s.table
    BY <2>1
  <2> HIDE DEF e
  <2>3. same # {} => e.id \in 1..n
    BY <1>2, <2>2
  <2>4. 1..n \subseteq 0..n
    OBVIOUS
  <2> QED BY <2>3, <2>4 DEF e
<1>4. same # {} => Typed(h) /\ Len(h) = n
  <2> HIDE DEF same, kept
  <2> QED BY <1>2, <1>3, TypedMoved
<1>5. \A e \in more : e.id \in 1..n
  <2>1. entry.id = id
    OBVIOUS
  <2> HIDE DEF entry
  <2> QED BY <1>2, <2>1
<1> HIDE DEF h, more, same
<1>6. \A t : /\ [s EXCEPT !.table = t] = [g |-> s.g, table |-> t]
             /\ [s EXCEPT !.g = h] = [g |-> h, table |-> s.table]
  BY <1>2
<1>7. \A t : (\A e \in t : e.id \in 1..n) => Fine("table", n, [s EXCEPT !.table = t])
  BY <1>2, <1>6, TabledAt
<1>8. same # {} => Fine("table", n, [s EXCEPT !.g = h])
  <2> DEFINE x == [g |-> h, table |-> s.table]
  <2>1. x = [g |-> x.g, table |-> x.table] /\ x.g = h /\ x.table = s.table
    OBVIOUS
  <2> HIDE DEF x
  <2>2. same # {} => Fine("table", n, x)
    BY <1>2, <1>4, <2>1, TabledAt
  <2> QED BY <1>6, <2>2 DEF x
<1>9. Fine("table", n, [s EXCEPT !.table = {}])
  BY <1>7
<1>10. Fine("table", n, [s EXCEPT !.table = more])
  BY <1>5, <1>7
<1> QED BY <1>1, <1>8, <1>9, <1>10

LEMMA NumberingFolds ==
  ASSUME NEW g, NEW q, IsList(q), q = Ascending(g), NEW base, base = NoTable(g)
  PROVE  /\ GVN(g) = FoldIn("GVN", 0, 0, 0, 0, base, q).g
         /\ CSE(g) = FoldIn("CSE", 0, 0, 0, 0, base, q).g
<1> DEFINE one(s, id) == GvnStep(s, id)
           other(s, id) == CseStep(s, id)
<1>1. GVN(g) = FoldLeft(one, base, q).g
  BY DEF GVN, GvnStep
<1>2. FoldLeft(one, base, q) = FoldIn("GVN", 0, 0, 0, 0, base, q)
  BY ONLY IsList(q) DEF IsList, FoldLeft, MapThenFoldSet, FoldIn, IsFoldIn, FoldStepIn
<1>3. CSE(g) = FoldLeft(other, base, q).g
  BY DEF CSE, CseStep
<1>4. FoldLeft(other, base, q) = FoldIn("CSE", 0, 0, 0, 0, base, q)
  BY ONLY IsList(q) DEF IsList, FoldLeft, MapThenFoldSet, FoldIn, IsFoldIn, FoldStepIn
<1> HIDE DEF one, other
<1> QED BY <1>1, <1>2, <1>3, <1>4

LEMMA EscapeFold ==
  ASSUME NEW g, NEW q, IsList(q), q = InOrder(OfKind(g, AllocationKinds), Len(g))
  PROVE  EscapeAnalysis(g) = FoldIn("EscapeAnalysis", 0, 0, 0, 0, g, q)
<1> DEFINE step(s, id) == EscapeStep(s, id)
<1>1. EscapeAnalysis(g) = FoldLeft(step, g, q)
  BY DEF EscapeAnalysis, EscapeStep
<1>2. FoldLeft(step, g, q) = FoldIn("EscapeAnalysis", 0, 0, 0, 0, g, q)
  BY ONLY IsList(q) DEF IsList, FoldLeft, MapThenFoldSet, FoldIn, IsFoldIn, FoldStepIn
<1> HIDE DEF step
<1> QED BY <1>1, <1>2

LEMMA SweepFold ==
  ASSUME NEW g, NEW q, IsList(q), q = Ascending(g)
  PROVE  DeadCodeElimination(g) = FoldIn("DeadCodeElimination", 0, 0, 0, 0, g, q)
<1> DEFINE step(s, id) == SweepStep(s)
<1>1. DeadCodeElimination(g) = FoldLeft(step, g, q)
  BY DEF DeadCodeElimination, SweepStep
<1>2. FoldLeft(step, g, q) = FoldIn("DeadCodeElimination", 0, 0, 0, 0, g, q)
  BY ONLY IsList(q) DEF IsList, FoldLeft, MapThenFoldSet, FoldIn, IsFoldIn, FoldStepIn
<1> HIDE DEF step
<1> QED BY <1>1, <1>2

LEMMA StubFold ==
  ASSUME NEW g, NEW q, IsList(q), q = InOrder(Checked(g), Len(g))
  PROVE  ICStubEmission(g) = FoldIn("ICStubEmission", 0, 0, 0, 0, g, q)
<1> DEFINE step(s, id) == StubStep(s, id)
<1>1. ICStubEmission(g) = FoldLeft(step, g, q)
  BY DEF ICStubEmission, StubStep, Checked
<1>2. FoldLeft(step, g, q) = FoldIn("ICStubEmission", 0, 0, 0, 0, g, q)
  BY ONLY IsList(q) DEF IsList, FoldLeft, MapThenFoldSet, FoldIn, IsFoldIn, FoldStepIn
<1> HIDE DEF step
<1> QED BY <1>1, <1>2

LEMMA FoldStepInOfRuby ==
  ASSUME NEW s, NEW id
  PROVE  /\ FoldStepIn("GVN", 0, 0, 0, 0, s, id) = GvnStep(s, id)
         /\ FoldStepIn("CSE", 0, 0, 0, 0, s, id) = CseStep(s, id)
         /\ FoldStepIn("EscapeAnalysis", 0, 0, 0, 0, s, id) = EscapeStep(s, id)
         /\ FoldStepIn("ICStubEmission", 0, 0, 0, 0, s, id) = StubStep(s, id)
         /\ FoldStepIn("DeadCodeElimination", 0, 0, 0, 0, s, id) = SweepStep(s)
BY FoldStepOf DEF FoldStep

LEMMA NumberingTyped ==
  ASSUME NEW g, Typed(g)
  PROVE  /\ Typed(GVN(g)) /\ Len(GVN(g)) = Len(g)
         /\ Typed(CSE(g)) /\ Len(CSE(g)) = Len(g)
<1> DEFINE n == Len(g)
           q == Ascending(g)
           base == NoTable(g)
<1>1. n \in Nat /\ IsList(q) /\ Len(q) = n /\ \A k \in 1..n : q[k] = k
  BY TypedFacts, AscendingFacts DEF IsList
<1>2. Fine("table", n, base)
  <2>1. base.g = g /\ base.table = {} /\ base = [g |-> base.g, table |-> base.table]
    BY DEF NoTable
  <2> HIDE DEF base
  <2> QED BY <2>1, TabledAt
<1>3. /\ GVN(g) = FoldIn("GVN", 0, 0, 0, 0, base, q).g
      /\ CSE(g) = FoldIn("CSE", 0, 0, 0, 0, base, q).g
  <2> HIDE DEF base, q
  <2>1. q = Ascending(g) /\ base = NoTable(g)
    BY DEF base, q
  <2> QED BY <1>1, <2>1, NumberingFolds
<1> HIDE DEF n, q, base
<1>4. ASSUME NEW s, Fine("table", n, s), NEW k \in 1..Len(q)
      PROVE  Fine("table", n, GvnStep(s, q[k])) /\ Fine("table", n, CseStep(s, q[k]))
  <2> DEFINE id == q[k]
  <2>1. id \in 1..n
    BY <1>1
  <2> HIDE DEF id
  <2>2. Fine("table", n, Deduplicate(s, id)) /\ Fine("table", n, [s EXCEPT !.table = {}])
    BY <1>1, <1>4, <2>1, DeduplicateTyped
  <2>3. Fine("table", n, GvnStep(s, id)) /\ Fine("table", n, CseStep(s, id))
    BY <1>4, <2>2 DEF GvnStep, CseStep
  <2> QED BY <2>3 DEF id
<1>5. Fine("table", n, FoldIn("GVN", 0, 0, 0, 0, base, q))
  <2>1. \A k \in 1..Len(q) : \A s : Fine("table", n, s) => Fine("table", n, FoldStepIn("GVN", 0, 0, 0, 0, s, q[k]))
    BY <1>4, FoldStepInOfRuby
  <2> QED BY <1>1, <1>2, <2>1, FoldFine DEF IsList
<1>6. Fine("table", n, FoldIn("CSE", 0, 0, 0, 0, base, q))
  <2>1. \A k \in 1..Len(q) : \A s : Fine("table", n, s) => Fine("table", n, FoldStepIn("CSE", 0, 0, 0, 0, s, q[k]))
    BY <1>4, FoldStepInOfRuby
  <2> QED BY <1>1, <1>2, <2>1, FoldFine DEF IsList
<1> QED BY <1>3, <1>5, <1>6, TableIs DEF IsAt, n

LEMMA EscapeTyped ==
  ASSUME NEW g, Typed(g)
  PROVE  Grown0(Len(g), EscapeAnalysis(g))
<1> DEFINE n == Len(g)
           q == InOrder(OfKind(g, AllocationKinds), n)
<1>1. n \in Nat /\ Grown0(n, g)
  BY GrownItself
<1>2. IsList(q)
  <2> HIDE DEF n
  <2> QED BY <1>1, InOrderList
<1>3. EscapeAnalysis(g) = FoldIn("EscapeAnalysis", 0, 0, 0, 0, g, q)
  BY <1>2, EscapeFold
<1> HIDE DEF q, n
<1>4. \A k \in 1..Len(q) : \A s : Grown0(n, s) => Grown0(n, FoldStepIn("EscapeAnalysis", 0, 0, 0, 0, s, q[k]))
  <2> SUFFICES ASSUME NEW k \in 1..Len(q), NEW s, Grown0(n, s) PROVE Grown0(n, EscapeStep(s, q[k]))
    BY FoldStepInOfRuby
  <2>1. Grown0(n, MarkDead(s, q[k]))
    BY <1>1, GrownDead
  <2> QED BY <2>1 DEF EscapeStep
<1>5. Grown0(n, FoldIn("EscapeAnalysis", 0, 0, 0, 0, g, q))
  BY <1>1, <1>2, <1>4, FoldTyped
<1> QED BY <1>3, <1>5 DEF n

LEMMA SweepTyped ==
  ASSUME NEW g, Typed(g)
  PROVE  Grown0(Len(g), DeadCodeElimination(g))
<1> DEFINE n == Len(g)
           q == Ascending(g)
<1>1. n \in Nat /\ Grown0(n, g)
  BY GrownItself
<1>2. IsList(q)
  BY <1>1, AscendingFacts DEF IsList
<1>3. DeadCodeElimination(g) = FoldIn("DeadCodeElimination", 0, 0, 0, 0, g, q)
  BY <1>2, SweepFold
<1> HIDE DEF q, n
<1>4. \A k \in 1..Len(q) : \A s : Grown0(n, s) => Grown0(n, FoldStepIn("DeadCodeElimination", 0, 0, 0, 0, s, q[k]))
  <2> SUFFICES ASSUME NEW s, Grown0(n, s) PROVE Grown0(n, SweepStep(s))
    BY FoldStepInOfRuby
  <2> DEFINE x == SetFlag(s, Removable(s), "IsDead")
  <2>1. Typed(x) /\ Len(x) = Len(s)
    <3>1. "IsDead" \in Flags
      BY DEF Flags
    <3> QED BY <3>1, TypedFlag DEF Grown0
  <2>2. Grown0(n, x)
    <3> HIDE DEF x
    <3> QED BY <2>1 DEF Grown0
  <2> QED BY <2>2 DEF SweepStep
<1>5. Grown0(n, FoldIn("DeadCodeElimination", 0, 0, 0, 0, g, q))
  BY <1>1, <1>2, <1>4, FoldTyped
<1> QED BY <1>3, <1>5 DEF n

LEMMA CallsIs ==
  ASSUME NEW g, NEW s
  PROVE  Fine("calls", g, s) <=> Grown0(Len(g), s) /\ \A id \in 1..Len(g) : s[id].in = g[id].in
BY DEF Fine

LEMMA StubTyped ==
  ASSUME NEW g, Typed(g), NEW h, Fine("calls", g, h), NEW id \in 1..Len(g), g[id].in # <<>>
  PROVE  Fine("calls", g, StubStep(h, id))
<1> DEFINE n == Len(g)
           l == Len(h)
           e == l + 1
           x == StubStep(h, id)
           in == <<h[id].in[1]>>
           check == NewNode("CheckClass", in, h[id].ctrl, h[id].eff)
<1>0. Grown0(n, h) /\ n \in Nat /\ \A k \in 1..n : h[k].in = g[k].in
  BY CallsIs, TypedFacts
<1>1. Typed(h) /\ IsGraph(h) /\ l \in Nat /\ n <= l /\ e \in Nat /\ l <= e /\ n <= e /\ e \in 1..e
  BY <1>0, TypedFacts DEF Grown0
<1>2. id \in 1..l /\ \A k \in 1..n : k \in 1..l
  BY <1>0, <1>1
<1>3. IsGraph(x) /\ Len(x) = e /\ x[e] = check /\ x[id] = [h[id] EXCEPT !.eff = e]
      /\ \A k \in 1..l : k # id => x[k] = h[k]
  BY <1>1, <1>2, StubGraph
<1> HIDE DEF x, check
<1>4. ASSUME NEW k \in 1..l PROVE x[k].in = h[k].in /\ x[k].cls = h[k].cls
  <2>1. CASE k = id
    <3> DEFINE y == h[id]
    <3>1. GraphNode(y)
      BY <1>1, <1>2, TypedFacts
    <3> HIDE DEF y
    <3>2. [y EXCEPT !.eff = e].in = y.in /\ [y EXCEPT !.eff = e].cls = y.cls
      BY <3>1, NodeLinked
    <3> QED BY <1>3, <2>1, <3>2 DEF y
  <2>2. CASE k # id
    BY <1>3, <2>2
  <2> QED BY <2>1, <2>2
<1>5. ASSUME NEW k \in 1..l PROVE TypedNode(x[k], e)
  <2>1. h[k].in \in Seq(0..l) /\ h[k].cls \in Nat
    BY <1>1, TypedFacts DEF TypedNode
  <2>2. h[k].in \in Seq(0..e)
    <3> HIDE DEF l, e
    <3> QED BY <1>1, <2>1, IdsWithin, SeqMonotonic
  <2>3. GraphNode(x[k])
    <3>1. k \in 1..e
      BY <1>1
    <3> QED BY <1>3, <3>1 DEF IsGraph
  <2> QED BY <1>4, <2>1, <2>2, <2>3 DEF TypedNode
<1>6. x[e].cls = 0 /\ x[e].in = in
  <2>1. "CheckClass" \in Kinds
    BY DEF Kinds, ControlKinds, Checks
  <2> DEFINE c == h[id].ctrl
             f == h[id].eff
  <2> HIDE DEF in, c, f
  <2>2. NewNode("CheckClass", in, c, f).in = in /\ NewNode("CheckClass", in, c, f).cls = 0
    BY <2>1, NewIsNode
  <2> QED BY <1>3, <2>2 DEF check, c, f
<1>7. in \in Seq(0..e)
  <2> DEFINE v == h[id].in
  <2>1. v \in Seq(0..l) /\ v # <<>>
    BY <1>0, <1>1, <1>2, TypedFacts DEF TypedNode
  <2> DEFINE S == 0..l
  <2>2. v[1] \in S
    <3>1. v \in Seq(S) /\ v # <<>>
      BY <2>1
    <3> HIDE DEF v, S
    <3> QED BY <3>1
  <2> HIDE DEF v, l
  <2> HIDE DEF e
  <2>3. v[1] \in 0..e
    BY <1>1, <2>2, IdsWithin
  <2> QED BY <2>3 DEF v
<1>8. TypedNode(x[e], e)
  <2>1. GraphNode(x[e])
    BY <1>1, <1>3 DEF IsGraph
  <2> HIDE DEF in, e
  <2> QED BY <1>6, <1>7, <2>1 DEF TypedNode
<1>9. \A k \in 1..e : k = e \/ k \in 1..l
  BY <1>1
<1> HIDE DEF in, e
<1>10. Grown0(n, x)
  BY <1>1, <1>3, <1>5, <1>8, <1>9 DEF Grown0, Typed
<1>11. \A k \in 1..n : x[k].in = g[k].in
  BY <1>0, <1>2, <1>4
<1> QED BY <1>10, <1>11, CallsIs DEF x

LEMMA StubsTyped ==
  ASSUME NEW g, Typed(g)
  PROVE  Grown0(Len(g), ICStubEmission(g))
<1> DEFINE n == Len(g)
           q == InOrder(Checked(g), n)
<1>1. n \in Nat /\ Grown0(n, g)
  BY GrownItself
<1>2. IsList(q) /\ \A k \in 1..Len(q) : q[k] \in Checked(g) /\ q[k] \in 1..n
  <2> DEFINE S == Checked(g)
  <2> HIDE DEF n, S
  <2> QED BY <1>1, InOrderList
<1>3. ICStubEmission(g) = FoldIn("ICStubEmission", 0, 0, 0, 0, g, q)
  BY <1>2, StubFold
<1> HIDE DEF q
<1>4. \A k \in 1..Len(q) : \A s : Fine("calls", g, s)
                                  => Fine("calls", g, FoldStepIn("ICStubEmission", 0, 0, 0, 0, s, q[k]))
  <2> SUFFICES ASSUME NEW k \in 1..Len(q), NEW s, Fine("calls", g, s) PROVE Fine("calls", g, StubStep(s, q[k]))
    BY FoldStepInOfRuby
  <2> DEFINE id == q[k]
  <2>1. id \in 1..n /\ g[id].in # <<>>
    BY <1>2 DEF Checked
  <2> HIDE DEF id
  <2>2. Fine("calls", g, StubStep(s, id))
    BY <2>1, StubTyped
  <2> QED BY <2>2 DEF id
<1>5. Fine("calls", g, g)
  BY <1>1, CallsIs
<1>6. Fine("calls", g, FoldIn("ICStubEmission", 0, 0, 0, 0, g, q))
  BY <1>2, <1>4, <1>5, FoldFine DEF IsList
<1> QED BY <1>3, <1>6, CallsIs

LEMMA MarksTyped ==
  ASSUME NEW g, Typed(g), NEW h, h = [id \in Ids(g) |-> h[id]],
         \A id \in Ids(g) : h[id] = g[id] \/ \E v : h[id] \in {Mark(g[id], v), MarkInt(g[id], v)}
  PROVE  Grown0(Len(g), h)
<1>1. IsGraph(h) /\ Len(h) = Len(g)
  BY TypedFacts, MarksAGraph
<1>2. ASSUME NEW id \in 1..Len(g) PROVE h[id].in = g[id].in /\ h[id].cls = g[id].cls
  BY TypedFacts, MarkedNode
<1> QED BY <1>1, <1>2, TypedAlike, TypedFacts DEF Grown0

LEMMA TailCallsTyped ==
  ASSUME NEW g, Typed(g)
  PROVE  Grown0(Len(g), TailCallElimination(g))
<1> DEFINE h == TailCallElimination(g)
           calls == TailCalls(g)
           tail(m) == [m EXCEPT !.kind = "TailCall"]
<1>1. h = [id \in 1..Len(g) |-> IF id \in calls THEN tail(g[id]) ELSE g[id]]
  BY TypedFacts DEF TailCallElimination
<1>2. IsGraph(h) /\ Len(h) = Len(g)
  BY TypedFacts, TailCallsGraph
<1> HIDE DEF h, calls
<1>3. ASSUME NEW m, GraphNode(m) PROVE tail(m).in = m.in /\ tail(m).cls = m.cls
  BY <1>3 DEF GraphNode
<1> HIDE DEF tail
<1>4. ASSUME NEW id \in 1..Len(g) PROVE h[id].in = g[id].in /\ h[id].cls = g[id].cls
  BY <1>1, <1>3, TypedFacts
<1>5. Grown0(Len(g), h)
  BY <1>2, <1>4, TypedAlike, TypedFacts DEF Grown0
<1> QED BY <1>5 DEF h

RubyNames ==
  {"AlgebraicSimplification", "SCCP", "ConstantFolding", "CSE", "GVN",
   "ControlFlowSimplification", "TypeNarrowing", "LICM", "LoopPeeling", "BCE", "NCE",
   "EscapeAnalysis", "Inlining", "TailCallElimination", "ICStubEmission",
   "DeadCodeElimination", "Peephole", "GCM", "ProfileGuidedBlockReorder"}

LEMMA RubyTyped ==
  ASSUME NEW g, Typed(g), NEW pass \in RubyNames
  PROVE  Grown0(Len(g), Run(pass, g))
<1> DEFINE Marking == {"AlgebraicSimplification", "SCCP", "ConstantFolding", "Peephole"}
           Others == {"CSE", "GVN", "EscapeAnalysis", "Inlining", "TailCallElimination",
                      "ICStubEmission", "DeadCodeElimination"}
<1>1. pass \in FlagPasses \cup Marking \cup Others
  BY DEF RubyNames, FlagPasses
<1>2. Len(g) \in Nat
  BY TypedFacts
<1>3. CASE pass \in FlagPasses
  <2>1. PICK ids, flag : Run(pass, g) = SetFlag(g, ids, flag) /\ Flaggable(g, ids, flag)
    BY <1>3, FlagPassesFlag
  <2>2. flag \in Flags
    BY <2>1 DEF Flaggable, Marks, Flags
  <2>3. Typed(SetFlag(g, ids, flag)) /\ Len(SetFlag(g, ids, flag)) = Len(g)
    BY <2>2, TypedFlag
  <2> QED BY <1>2, <2>1, <2>3 DEF Grown0
<1>4. CASE pass \in Marking
  <2>1. /\ Grown0(Len(g), AlgebraicSimplification(g)) /\ Grown0(Len(g), SCCP(g))
        /\ Grown0(Len(g), ConstantFolding(g)) /\ Grown0(Len(g), Peephole(g))
    <3>1. Grown0(Len(g), AlgebraicSimplification(g))
      BY SimplificationMarks, MarksTyped
    <3>2. Grown0(Len(g), SCCP(g))
      BY SCCPMarks, MarksTyped
    <3>3. Grown0(Len(g), ConstantFolding(g))
      BY FoldingMarks, MarksTyped
    <3>4. Grown0(Len(g), Peephole(g))
      BY PeepholeMarks, MarksTyped
    <3> QED BY <3>1, <3>2, <3>3, <3>4
  <2> QED BY <1>4, <2>1 DEF Run
<1>5. CASE pass \in Others
  <2>1. /\ Grown0(Len(g), CSE(g)) /\ Grown0(Len(g), GVN(g)) /\ Grown0(Len(g), EscapeAnalysis(g))
        /\ Grown0(Len(g), g) /\ Grown0(Len(g), TailCallElimination(g))
        /\ Grown0(Len(g), ICStubEmission(g)) /\ Grown0(Len(g), DeadCodeElimination(g))
    BY <1>2, NumberingTyped, EscapeTyped, TailCallsTyped, StubsTyped, SweepTyped DEF Grown0
  <2>2. Inlining(g) = g
    BY DEF Inlining
  <2> QED BY <1>5, <2>1, <2>2 DEF Run
<1> QED BY <1>1, <1>3, <1>4, <1>5

LEMMA DiamondTyped ==
  ASSUME NEW n \in Nat, NEW g, Grown0(n, g),
         NEW pass \in RubyNames \cup {"PEA", "SRA", "LoopUnrolling", "LoopUnswitching", "Devirtualization", "SLP"}
  PROVE  Grown0(n, RunDiamond(pass, g))
<1> DEFINE Peaks == {"PEA", "SRA", "LoopUnrolling", "LoopUnswitching", "Devirtualization", "SLP"}
<1>1. CASE pass \in RubyNames
  <2>1. RunDiamond(pass, g) = Run(pass, g)
    BY <1>1 DEF RunDiamond, RubyNames
  <2>2. Typed(g) /\ Len(g) \in Nat /\ n <= Len(g)
    BY TypedFacts DEF Grown0
  <2>3. Grown0(Len(g), Run(pass, g))
    BY <1>1, <2>2, RubyTyped
  <2> QED BY <2>1, <2>2, <2>3, GrownMore
<1>2. CASE pass \in Peaks
  <2>1. /\ Grown0(n, PEA(g)) /\ Grown0(n, SRA(g)) /\ Grown0(n, LoopUnrolling(g))
        /\ Grown0(n, LoopUnswitching(g)) /\ Grown0(n, Devirtualization(g)) /\ Grown0(n, SLP(g))
    BY PEATyped, SRATyped, LoopUnrollingTyped, LoopUnswitchingTyped, DevirtualizationTyped, SLPTyped
  <2> QED BY <1>2, <2>1 DEF RunDiamond
<1> QED BY <1>1, <1>2

LEMMA PipelineNames ==
  /\ \A k \in 1..19 : RubyPipeline[k] \in RubyNames
  /\ DOMAIN DiamondPipeline = 1..33
  /\ \A k \in 1..33 : DiamondPipeline[k]
       \in RubyNames \cup {"PEA", "SRA", "LoopUnrolling", "LoopUnswitching", "Devirtualization", "SLP"}
<1> DEFINE r == RubyPipeline
           d == DiamondOnly
           Peaks == {"PEA", "SRA", "LoopUnrolling", "LoopUnswitching", "Devirtualization", "SLP"}
           S == RubyNames \cup Peaks
<1>1. Len(r) = 19 /\ r \in Seq(RubyNames)
  BY DEF RubyPipeline, RubyNames
<1>2. Len(d) = 14 /\ d \in Seq(S)
  BY DEF DiamondOnly, RubyNames
<1>3. DiamondPipeline = r \o d
  BY DEF DiamondPipeline
<1> HIDE DEF r, d, Peaks
<1>4. r \in Seq(S)
  <2>1. RubyNames \subseteq S
    OBVIOUS
  <2> HIDE DEF S
  <2> QED BY <1>1, <2>1, SeqMonotonic
<1> HIDE DEF S
<1>5. r \o d \in Seq(S) /\ Len(r \o d) = Len(r) + Len(d)
  BY <1>2, <1>4, ConcatProperties
<1> DEFINE p == r \o d
<1>6. p \in Seq(S) /\ Len(p) = 33
  BY <1>1, <1>2, <1>5
<1> HIDE DEF p
<1>7. DOMAIN p = 1..33 /\ \A k \in 1..33 : p[k] \in S
  BY <1>6, LenProperties, ElementOfSeq
<1>8. \A k \in 1..19 : r[k] \in RubyNames
  BY <1>1, ElementOfSeq
<1> QED BY <1>3, <1>7, <1>8 DEF r, p, S, Peaks

LEMMA PeakTyped ==
  ASSUME NEW g, Typed(g), NEW build
  PROVE  Grown0(Len(g), RunPipeline(DiamondPipeline, g, build).g)
<1> DEFINE n == Len(g)
           q == DiamondPipeline
           base == [g |-> g, rejected |-> FALSE]
           Names == RubyNames \cup {"PEA", "SRA", "LoopUnrolling", "LoopUnswitching", "Devirtualization", "SLP"}
<1>1. n \in Nat /\ Grown0(n, g)
  BY GrownItself
<1>2. IsList(q) /\ \A k \in 1..Len(q) : q[k] \in Names
  <2> HIDE DEF Names
  <2> QED BY PipelineNames, PipelineLengths DEF IsList, Names
<1>3. RunPipeline(q, g, build) = FoldIn("Pipeline", build, 0, 0, 0, base, q)
  <2> HIDE DEF q
  <2> QED BY <1>2, RunPipelineFold
<1>4. Fine("verdict", n, base)
  <2>1. base.g = g /\ base = [g |-> base.g, rejected |-> base.rejected]
    OBVIOUS
  <2> HIDE DEF base
  <2> QED BY <1>1, <2>1, FineIs
<1> HIDE DEF n, q, base
<1>5. ASSUME NEW s, Fine("verdict", n, s), NEW pass \in Names
      PROVE  Fine("verdict", n, PassRun(build, s, pass))
  <2> DEFINE h == RunDiamond(pass, s.g)
             x == Examined(build, pass, s.g, h)
  <2>1. Grown0(n, s.g)
    BY <1>5, FineIs
  <2>2. Grown0(n, h)
    BY <1>1, <2>1, DiamondTyped
  <2> HIDE DEF h
  <2>3. x.g = h /\ x = [g |-> x.g, rejected |-> x.rejected]
    <3> DEFINE v == build /\ DiamondVerifies(pass, s.g, h) /\ ~Verified(h)
    <3>1. x = [g |-> h, rejected |-> v]
      BY DEF Examined
    <3> HIDE DEF v, x
    <3> QED BY <3>1
  <2> HIDE DEF x
  <2>4. Fine("verdict", n, x)
    BY <2>2, <2>3, FineIs
  <2> QED BY <1>5, <2>4 DEF PassRun, x, h
<1>6. \A k \in 1..Len(q) : \A s : Fine("verdict", n, s)
                                  => Fine("verdict", n, FoldStepIn("Pipeline", build, 0, 0, 0, s, q[k]))
  <2> SUFFICES ASSUME NEW k \in 1..Len(q), NEW s, Fine("verdict", n, s)
               PROVE  Fine("verdict", n, PassRun(build, s, q[k]))
    BY FoldStepInOfCopies
  <2> QED BY <1>2, <1>5
<1>7. Fine("verdict", n, FoldIn("Pipeline", build, 0, 0, 0, base, q))
  BY <1>2, <1>4, <1>6, FoldFine DEF IsList
<1> QED BY <1>3, <1>7, FineIs DEF q, n

(* granit's stack has room for KMaxJvmStack values.                             *)
HasRoom(f) == IsFrame(f) /\ IsStack(f.stack) /\ Len(f.stack) <= KMaxJvmStack

LEMMA RoomPush ==
  ASSUME NEW f, HasRoom(f), NEW v
  PROVE  HasRoom(Push(f, v))
<1> DEFINE s == Append(f.stack, v)
           h == [f EXCEPT !.stack = s]
           r == [f EXCEPT !.error = TRUE]
<1>1. IsFrame(f) /\ IsStack(f.stack) /\ Len(f.stack) <= KMaxJvmStack /\ KMaxJvmStack \in Nat
  BY StackAssumption DEF HasRoom
<1>2. IsStack(s) /\ Len(s) = Len(f.stack) + 1 /\ Len(f.stack) \in Nat
  BY <1>1, PushStack
<1> HIDE DEF s
<1>3. IsFrame(h) /\ h.stack = s
  BY ONLY <1>1, StackSet
<1> HIDE DEF h
<1>4. Len(f.stack) < KMaxJvmStack => HasRoom(h)
  BY <1>1, <1>2, <1>3 DEF HasRoom
<1>5. HasRoom(Raise(f, TRUE))
  BY <1>1, RaiseFacts DEF HasRoom
<1> QED BY <1>4, <1>5 DEF Push, h, s

LEMMA RoomPop ==
  ASSUME NEW f, HasRoom(f)
  PROVE  HasRoom(Pop(f))
<1> DEFINE s == Front(f.stack)
           h == [f EXCEPT !.stack = s]
<1>1. IsFrame(f) /\ IsStack(f.stack) /\ Len(f.stack) <= KMaxJvmStack /\ KMaxJvmStack \in Nat
  BY StackAssumption DEF HasRoom
<1>2. f.stack # <<>> => IsStack(s) /\ Len(s) = Len(f.stack) - 1 /\ Len(f.stack) \in Nat
  BY <1>1, PopStack
<1> HIDE DEF s
<1>3. IsFrame(h) /\ h.stack = s
  BY ONLY <1>1, StackSet
<1> HIDE DEF h
<1>4. f.stack # <<>> => HasRoom(h)
  BY <1>1, <1>2, <1>3 DEF HasRoom
<1>5. HasRoom(Raise(f, TRUE))
  BY <1>1, RaiseFacts DEF HasRoom
<1> QED BY <1>4, <1>5 DEF Pop, h, s

LEMMA RoomRaise ==
  ASSUME NEW f, HasRoom(f), NEW p
  PROVE  HasRoom(Raise(f, p))
BY RaiseFacts DEF HasRoom

LEMMA RoomElse ==
  ASSUME NEW f, HasRoom(f), NEW n, NEW v
  PROVE  /\ HasRoom([f EXCEPT !.pc = v]) /\ HasRoom([f EXCEPT !.pc = @ + 1])
         /\ HasRoom([f EXCEPT !.locals[n] = v])
<1>1. f = [pc |-> f.pc, stack |-> f.stack, locals |-> f.locals, error |-> f.error]
  BY DEF HasRoom, IsFrame
<1>2. ASSUME NEW h, NEW a, NEW b, h = [f EXCEPT !.pc = a, !.locals = b] PROVE HasRoom(h)
  <2>1. h = [pc |-> a, stack |-> f.stack, locals |-> b, error |-> f.error]
    BY <1>1, <1>2
  <2>2. h.pc = a /\ h.stack = f.stack /\ h.locals = b /\ h.error = f.error
    BY <2>1
  <2> QED BY <2>1, <2>2 DEF HasRoom, IsFrame
<1> DEFINE q == f.pc + 1
           l == [f.locals EXCEPT ![n] = v]
<1>3. [f EXCEPT !.pc = v] = [f EXCEPT !.pc = v, !.locals = f.locals]
  BY <1>1
<1>4. [f EXCEPT !.pc = @ + 1] = [f EXCEPT !.pc = q, !.locals = f.locals]
  BY <1>1
<1>5. [f EXCEPT !.locals[n] = v] = [f EXCEPT !.pc = f.pc, !.locals = l]
  BY <1>1
<1> QED BY <1>2, <1>3, <1>4, <1>5

LEMMA RoomAt ==
  ASSUME NEW f, HasRoom(f), NEW v
  PROVE  HasRoom([f EXCEPT !.pc = v])
BY RoomElse

LEMMA RoomBreak ==
  ASSUME HasRoom(frame), NEW f, HasRoom(f), Break(f)
  PROVE  HasRoom(frame')
BY RoomElse DEF Break

LEMMA RoomJvm ==
  ASSUME HasRoom(frame), InterpNext
  PROVE  HasRoom(frame')
<1>1. CASE Constant
  BY <1>1, RoomPush, RoomBreak DEF Constant
<1>2. CASE LoadLocal
  BY <1>2, RoomPush, RoomBreak DEF LoadLocal
<1>3. CASE StoreLocal
  <2> DEFINE n == Instr.n
             v == Top(frame)
             f == [Pop(frame) EXCEPT !.locals[n] = v]
  <2>1. Break(f)
    BY <1>3 DEF StoreLocal
  <2> HIDE DEF n, v
  <2>2. HasRoom(f)
    BY RoomPop, RoomElse
  <2> HIDE DEF f
  <2> QED BY <2>1, <2>2, RoomBreak
<1>4. CASE Increment
  <2> DEFINE n == Instr.n
             cur == frame.locals[n]
             v == Int32(Wrap32(As("int", cur) + Instr.d))
             wrong == cur.t \notin Accepts("int")
             f == [frame EXCEPT !.locals[n] = v]
             h == Raise(f, wrong)
  <2>1. Break(h)
    BY <1>4 DEF Increment
  <2> HIDE DEF n, v, wrong
  <2>2. HasRoom(f)
    BY RoomElse
  <2> HIDE DEF f
  <2>3. HasRoom(h)
    BY <2>2, RoomRaise
  <2> HIDE DEF h
  <2> QED BY <2>1, <2>3, RoomBreak
<1>5. CASE StackOperation
  BY <1>5, RoomPush, RoomPop, RoomRaise, RoomBreak DEF StackOperation
<1>6. CASE BinaryOperation
  <2>1. frame' = frame \/ \E f, p, v : f = Push(Raise(Pop(Pop(frame)), p), v) /\ Break(f)
    BY <1>6 DEF BinaryOperation
  <2> QED BY <2>1, RoomPush, RoomPop, RoomRaise, RoomBreak
<1>7. CASE Negate
  <2>1. frame' = frame \/ \E f, p, v : f = Push(Raise(Pop(frame), p), v) /\ Break(f)
    BY <1>7 DEF Negate
  <2> QED BY <2>1, RoomPush, RoomPop, RoomRaise, RoomBreak
<1>8. CASE Convert
  <2>1. \E f, p, v : f = Push(Raise(Pop(frame), p), v) /\ Break(f)
    BY <1>8 DEF Convert
  <2> QED BY <2>1, RoomPush, RoomPop, RoomRaise, RoomBreak
<1>9. CASE CompareValues
  <2>1. \E f, p, v : f = Push(Raise(Pop(Pop(frame)), p), v) /\ Break(f)
    BY <1>9 DEF CompareValues
  <2> QED BY <2>1, RoomPush, RoomPop, RoomRaise, RoomBreak
<1>10. CASE Branch
  <2> DEFINE Popped == {Pop(frame), Pop(Pop(frame))}
  <2>1. \E f : /\ (f \in Popped \/ \E p : \E x \in Popped : f = Raise(x, p))
               /\ (Break(f) \/ \E v : frame' = [f EXCEPT !.pc = v])
    BY <1>10 DEF Branch
  <2>2. PICK f : /\ (f \in Popped \/ \E p : \E x \in Popped : f = Raise(x, p))
                 /\ (Break(f) \/ \E v : frame' = [f EXCEPT !.pc = v])
    BY <2>1
  <2>3. \A x \in Popped : HasRoom(x)
    BY RoomPop
  <2>4. HasRoom(f)
    BY <2>2, <2>3, RoomRaise
  <2> HIDE DEF Popped
  <2> QED BY <2>2, <2>4, RoomBreak, RoomAt
<1>11. CASE GotoTarget
  <2> DEFINE d == Instr.d
  <2>1. frame' = [frame EXCEPT !.pc = d]
    BY <1>11 DEF GotoTarget
  <2> HIDE DEF d
  <2> QED BY <2>1, RoomElse
<1>12. CASE ReturnVoid \/ ReturnTop \/ Unsupported \/ RunsOff
  BY <1>12 DEF ReturnVoid, ReturnTop, Unsupported, RunsOff
<1> QED BY <1>1, <1>2, <1>3, <1>4, <1>5, <1>6, <1>7, <1>8, <1>9, <1>10, <1>11, <1>12 DEF InterpNext

LEMMA RoomTo ==
  ASSUME HasRoom(frame), NEW f, HasRoom(f), NEW taken, BranchTo(f, taken)
  PROVE  HasRoom(frame')
<1> DEFINE d == Instr.d
<1>1. Break(f) \/ frame' = [f EXCEPT !.pc = d]
  BY DEF BranchTo
<1> HIDE DEF d
<1> QED BY <1>1, RoomBreak, RoomAt

LEMMA RoomCil ==
  ASSUME HasRoom(frame), CilNext
  PROVE  HasRoom(frame')
<1>1. CASE CilConstant
  BY <1>1, RoomPush, RoomBreak DEF CilConstant
<1>2. CASE LoadSlot
  BY <1>2, RoomPush, RoomBreak DEF LoadSlot
<1>3. CASE StoreSlot
  <2> DEFINE n == Instr.n
             v == Top(frame)
             f == [Pop(frame) EXCEPT !.locals[n] = v]
  <2>1. Break(f)
    BY <1>3 DEF StoreSlot
  <2> HIDE DEF n, v
  <2>2. HasRoom(f)
    BY RoomPop, RoomElse
  <2> HIDE DEF f
  <2> QED BY <2>1, <2>2, RoomBreak
<1>4. CASE CilStack
  <2>1. Break(Pop(frame)) \/ \E f, p, v : f = Push(Raise(frame, p), v) /\ Break(f)
    BY <1>4 DEF CilStack
  <2> QED BY <2>1, RoomPush, RoomPop, RoomRaise, RoomBreak
<1>5. CASE CilArithmetic
  <2>1. \/ frame' = frame
        \/ \E f, v : f = Push(BothPopped, v) /\ Break(f)
        \/ \E f, v : f = Push(Raise(BothPopped, TRUE), v) /\ Break(f)
    BY <1>5 DEF CilArithmetic
  <2> QED BY <2>1, RoomPush, RoomPop, RoomRaise, RoomBreak DEF BothPopped
<1>6. CASE CilBits
  <2>1. \E f, p, v : f = Push(Raise(BothPopped, p), v) /\ Break(f)
    BY <1>6 DEF CilBits
  <2> QED BY <2>1, RoomPush, RoomPop, RoomRaise, RoomBreak DEF BothPopped
<1>7. CASE CilUnaryOperation
  <2>1. \/ Break(Raise(Pop(frame), TRUE))
        \/ \E f, v : f = Push(Pop(frame), v) /\ Break(f)
        \/ \E f, p, v : f = Push(Raise(Pop(frame), p), v) /\ Break(f)
    BY <1>7 DEF CilUnaryOperation
  <2> QED BY <2>1, RoomPush, RoomPop, RoomRaise, RoomBreak
<1>8. CASE ConvertTo
  <2>1. \E f, p, v : f = Push(Raise(Pop(frame), p), v) /\ Break(f)
    BY <1>8 DEF ConvertTo
  <2> QED BY <2>1, RoomPush, RoomPop, RoomRaise, RoomBreak
<1>9. CASE CompareOperands
  <2>1. \E f, p, v : f = Push(Raise(BothPopped, p), v) /\ Break(f)
    BY <1>9 DEF CompareOperands
  <2> QED BY <2>1, RoomPush, RoomPop, RoomRaise, RoomBreak DEF BothPopped
<1>10. CASE CilBranch
  <2>1. \E f, taken : BranchTo(f, taken) /\ (f \in {frame, Pop(frame)} \/ \E p : f = Raise(BothPopped, p))
    BY <1>10 DEF CilBranch
  <2> QED BY <2>1, RoomPop, RoomRaise, RoomTo DEF BothPopped
<1>11. CASE CilReturn \/ CilUnsupported
  BY <1>11 DEF CilReturn, CilUnsupported
<1> QED BY <1>1, <1>2, <1>3, <1>4, <1>5, <1>6, <1>7, <1>8, <1>9, <1>10, <1>11 DEF CilNext

(* The graph, the lowerer's stack and granit's, whatever step is taken.         *)
TypedOK ==
  /\ Typed(graph) /\ Len(graph) >= 1
  /\ IsStack(lower.stack) /\ \A k \in 1..Len(lower.stack) : lower.stack[k] \in 1..Len(graph)
  /\ HasRoom(frame)

LEMMA WithinGraph ==
  ASSUME NEW in, NEW n \in Nat, NEW m, in \in Seq(m), \A k \in 1..Len(in) : in[k] \in 0..n
  PROVE  in \in Seq(0..n)
<1> DEFINE l == Len(in)
           S == 0..n
<1>1. l \in Nat /\ in \in [1..l -> m]
  OBVIOUS
<1>2. \A k \in 1..l : in[k] \in S
  OBVIOUS
<1> HIDE DEF l, S
<1>3. in \in [1..l -> S]
  BY <1>1, <1>2
<1> QED BY <1>1, <1>3 DEF S

LEMMA LoweredTyped ==
  ASSUME NEW g, LoweredGraph(g)
  PROVE  Typed(g)
<1> DEFINE n == Len(g)
<1>1. IsGraph(g) /\ n \in Nat
  BY LoweredIsGraph, GraphFacts
<1> HIDE DEF n
<1>2. ASSUME NEW id \in 1..n PROVE TypedNode(g[id], n)
  <2> DEFINE x == g[id]
  <2>1. x.in \in Seq(Nat) /\ x.cls = 0 /\ \A k \in 1..Len(x.in) : x.in[k] \in 1..id - 1
    BY DEF LoweredGraph, LoweredNode, Nodes, n
  <2>2. GraphNode(x)
    BY <1>1 DEF IsGraph, n
  <2> HIDE DEF x
  <2>3. \A k \in 1..Len(x.in) : x.in[k] \in 0..n
    <3>1. \A j \in 1..id - 1 : j \in 0..n
      BY <1>1
    <3> QED BY <2>1, <3>1
  <2>4. x.in \in Seq(0..n)
    BY <1>1, <2>1, <2>3, WithinGraph
  <2> QED BY <2>1, <2>2, <2>4 DEF TypedNode, x
<1> QED BY <1>1, <1>2 DEF Typed, n

LEMMA GivenTyped ==
  ASSUME NEW g \in Graphs
  PROVE  Typed(g) /\ Len(g) >= 1
<1> DEFINE n == Len(g)
<1>1. g \in Seq(Node) /\ g # <<>> /\ \A id \in Ids(g) : DataInputs(g, id) \subseteq Ids(g) \cup {NoId}
  BY GraphsAssumption
<1>2. IsGraph(g) /\ n \in Nat /\ Ids(g) = 1..n
  BY GivenIsGraph, GraphFacts
<1>3. n >= 1 /\ \A id \in 1..n : g[id] \in Node
  BY <1>1, <1>2
<1> HIDE DEF n
<1>4. ASSUME NEW id \in 1..n PROVE TypedNode(g[id], n)
  <2> DEFINE x == g[id]
  <2>1. x.in \in Seq(Nat) /\ x.cls \in Nat
    BY <1>3 DEF Node
  <2>2. GraphNode(x)
    BY <1>2 DEF IsGraph, n
  <2>3. \A k \in 1..Len(x.in) : x.in[k] \in 0..n
    <3>1. {x.in[k] : k \in DOMAIN x.in} \subseteq 1..n \cup {0}
      BY <1>1, <1>2 DEF DataInputs, NoId
    <3> HIDE DEF x
    <3>2. \A k \in 1..Len(x.in) : x.in[k] \in 1..n \cup {0}
      BY <2>1, <3>1
    <3>3. \A j \in 1..n \cup {0} : j \in 0..n
      BY <1>2
    <3> QED BY <3>2, <3>3
  <2> HIDE DEF x
  <2>4. x.in \in Seq(0..n)
    BY <1>2, <2>1, <2>3, WithinGraph
  <2> QED BY <2>1, <2>2, <2>4 DEF TypedNode, x
<1> QED BY <1>2, <1>3, <1>4 DEF Typed, n

LEMMA RoomAtFirst ==
  ASSUME NEW slots
  PROVE  HasRoom(Frame(slots))
<1> DEFINE f == Frame(slots)
           s == <<>>
<1>1. f = [pc |-> 0, stack |-> s, locals |-> slots, error |-> FALSE]
  BY DEF Frame
<1>2. s \in Seq({}) /\ Len(s) = 0
  OBVIOUS
<1> HIDE DEF f, s
<1>3. f.pc = 0 /\ f.stack = s /\ f.locals = slots /\ f.error = FALSE
  BY <1>1
<1>4. IsFrame(f) /\ IsStack(s)
  BY <1>1, <1>2, <1>3 DEF IsFrame, IsStack
<1>5. HasRoom(f)
  BY <1>2, <1>3, <1>4, StackAssumption DEF HasRoom
<1> QED BY <1>5 DEF f

LEMMA LowererTyped ==
  ASSUME NEW m, NEW g, NEW l, LowererOK(m, g, l)
  PROVE  Typed(g) /\ IsStack(l.stack) /\ \A k \in 1..Len(l.stack) : l.stack[k] \in 1..Len(g)
<1>1. l.stack \in Seq(1..Len(g)) /\ LoweredGraph(g)
  BY DEF LowererOK
<1> DEFINE S == 1..Len(g)
           s == l.stack
<1>2. s \in Seq(S)
  BY <1>1
<1> HIDE DEF S, s
<1>3. IsStack(s) /\ \A k \in 1..Len(s) : s[k] \in S
  BY <1>2, ElementOfSeq DEF IsStack
<1> QED BY <1>1, <1>3, LoweredTyped DEF S, s

LEMMA TypedInit ==
  ASSUME Init
  PROVE  TypedOK
<1>1. HasRoom(frame)
  BY RoomAtFirst DEF Init
<1>2. CASE \E m \in Methods : method = m.code /\ LowerInit(m.locals, m.args)
  <2>1. PICK m \in Methods : method = m.code /\ LowerInit(m.locals, m.args)
    BY <1>2
  <2>2. method \in Seq(Instructions) /\ m.locals \in Nat /\ m.args \in Nat
    BY <2>1, MethodsAreCode
  <2>3. LowererOK(method, graph, lower) /\ Len(graph) = m.locals + m.args + 1
    BY <2>1, <2>2, LowerInitOK
  <2>4. Len(graph) >= 1
    BY <2>2, <2>3
  <2> QED BY <1>1, <2>3, <2>4, LowererTyped DEF TypedOK
<1>3. CASE graph \in Graphs /\ lower = [pc |-> 0, stack |-> <<>>, locals |-> <<>>, ctrl |-> 1, eff |-> 1,
                                        status |-> "lowered"]
  <2> DEFINE s == <<>>
  <2>1. s \in Seq({}) /\ Len(s) = 0 /\ lower.stack = s
    BY <1>3
  <2> HIDE DEF s
  <2>2. IsStack(s) /\ \A k \in 1..Len(s) : s[k] \in 1..Len(graph)
    BY <2>1 DEF IsStack
  <2> QED BY <1>1, <1>3, <2>1, <2>2, GivenTyped DEF TypedOK
<1> QED BY <1>2, <1>3 DEF Init

LEMMA TypedLower ==
  ASSUME LoweringOK, TypedOK, Lower
  PROVE  TypedOK'
<1>1. method \in Seq(Instructions) /\ method' = method /\ frame' = frame
      /\ (LowerNext \/ CilLowerNext)
  BY DEF LoweringOK, Lower, interpVars
<1>2. lower.status = "lowering"
  BY <1>1 DEF LowerNext, CilLowerNext, Lowering, LowerConst, LowerLoad, LowerStore, LowerIinc,
     LowerStackOp, LowerPure, LowerEffect, LowerIf, LowerGoto, LowerReturn, LowerSwitch, LowerEnd,
     LowerLdC, LowerLdLoc, LowerStLoc, LowerCilStack, LowerCilPure, LowerObject, LowerBr,
     LowerBrIf, LowerBrCmp, LowerRet, LowerUnsupported
<1>3. LowererOK(method, graph, lower)
  BY <1>2 DEF LoweringOK
<1>4. Len(graph) \in Nat /\ Len(graph) >= 1
  BY TypedFacts DEF TypedOK
<1>5. CASE LowererOK(method, graph', lower') /\ Len(graph') >= Len(graph)
  <2>1. Typed(graph') /\ IsStack(lower'.stack)
        /\ \A k \in 1..Len(lower'.stack) : lower'.stack[k] \in 1..Len(graph')
    BY <1>5, LowererTyped
  <2>2. Len(graph') >= 1
    <3>1. Len(graph') \in Nat
      BY <2>1, TypedFacts
    <3> QED BY <1>4, <1>5, <3>1
  <2>3. HasRoom(frame')
    BY <1>1 DEF TypedOK
  <2> QED BY <2>1, <2>2, <2>3 DEF TypedOK
<1>6. CASE Failed
  <2> DEFINE s == lower.stack
             l == [lower EXCEPT !.status = "failed"]
  <2>1. graph' = graph /\ lower' = l
    BY <1>6 DEF Failed
  <2>2. l.stack = s
    BY <1>3 DEF LowererOK
  <2> HIDE DEF l
  <2> QED BY <1>1, <2>1, <2>2 DEF TypedOK
<1>7. Advanced \/ Failed \/ LowerEnd
  BY <1>1, <1>3, LowerStep
<1>8. Advanced => LowererOK(method, graph', lower') /\ Len(graph') >= Len(graph)
  BY DEF Advanced
<1>9. LowerEnd => LowererOK(method, graph', lower') /\ Len(graph') >= Len(graph)
  BY <1>3, EndStep
<1> QED BY <1>5, <1>6, <1>7, <1>8, <1>9

LEMMA TypedGrown ==
  ASSUME TypedOK, Grown0(Len(graph), graph'), lower' = lower, frame' = frame
  PROVE  TypedOK'
<1>1. Typed(graph') /\ Len(graph') \in Nat /\ Len(graph) \in Nat /\ Len(graph) <= Len(graph') /\ Len(graph) >= 1
  BY TypedFacts DEF Grown0, TypedOK
<1>2. Len(graph') >= 1 /\ \A k \in 1..Len(graph) : k \in 1..Len(graph')
  BY <1>1
<1> QED BY <1>1, <1>2 DEF TypedOK

LEMMA TypedStep ==
  ASSUME LoweringOK, OptimizerOK, TypedOK, [Next]_vars
  PROVE  TypedOK'
<1>1. CASE Lower
  BY <1>1, TypedLower
<1>2. CASE Optimize
  <2> DEFINE pass == RubyPipeline[done + 1]
  <2>1. graph' = Run(pass, graph) /\ lower' = lower /\ frame' = frame /\ done < Len(RubyPipeline)
    BY <1>2 DEF Optimize, interpVars
  <2>2. done + 1 \in 1..19
    BY <2>1, PipelineLengths DEF OptimizerOK
  <2>3. pass \in RubyNames
    BY <2>2, PipelineNames
  <2> HIDE DEF pass
  <2>4. Grown0(Len(graph), graph')
    BY <2>1, <2>3, RubyTyped DEF TypedOK
  <2> QED BY <2>1, <2>4, TypedGrown
<1>3. CASE CompilePeak
  <2>1. graph' = RunPipeline(DiamondPipeline, graph, debug').g /\ lower' = lower /\ frame' = frame
    BY <1>3 DEF CompilePeak, interpVars
  <2>2. Grown0(Len(graph), graph')
    BY <2>1, PeakTyped DEF TypedOK
  <2> QED BY <2>1, <2>2, TypedGrown
<1>4. CASE Call
  <2>1. lower' = lower /\ graph' = graph /\ frame' = Frame(CallSlots(args'))
    BY <1>4 DEF Call, lowerVars, pipeVars
  <2>2. HasRoom(frame')
    BY <2>1, RoomAtFirst
  <2> QED BY <2>1, <2>2 DEF TypedOK
<1>5. CASE Interpret
  <2>1. lower' = lower /\ graph' = graph /\ (InterpNext \/ CilNext)
    BY <1>5 DEF Interpret, lowerVars, pipeVars
  <2>2. HasRoom(frame')
    BY <2>1, RoomJvm, RoomCil DEF TypedOK
  <2> QED BY <2>1, <2>2 DEF TypedOK
<1>6. CASE PassTraps \/ UNCHANGED vars
  <2>1. lower' = lower /\ graph' = graph /\ frame' = frame
    BY <1>6 DEF PassTraps, vars, lowerVars, pipeVars, interpVars
  <2> QED BY <2>1 DEF TypedOK
<1> QED BY <1>1, <1>2, <1>3, <1>4, <1>5, <1>6 DEF Next

(* Whatever is compiled, by either tier, and whatever graph built by hand goes  *)
(* in: the nodes of the graph keep their kinds and flags, their operands are    *)
(* nodes of the graph though passes append, replace and copy nodes, what the    *)
(* lowerer has on its stack are nodes of it too, and granit's stack stays       *)
(* within kMaxJvmStack.                                                         *)
THEOREM TypesAreAlwaysOK == Spec => []TypeOK
<1>1. Init => TypedOK
  BY TypedInit
<1>2. LoweringOK /\ OptimizerOK /\ TypedOK /\ [Next]_vars => TypedOK'
  BY TypedStep
<1>3. OptimizerOK /\ TypedOK => TypeOK
  <2> SUFFICES ASSUME OptimizerOK, TypedOK PROVE TypeOK
    OBVIOUS
  <2> DEFINE n == Len(graph)
  <2>1. n \in Nat \ {0} /\ Ids(graph) = 1..n /\ \A id \in 1..n : TypedNode(graph[id], n)
    BY TypedFacts DEF TypedOK
  <2>2. \A id \in 1..n : graph[id].kind \in Kinds /\ graph[id].flags \subseteq Flags
    BY <2>1 DEF TypedNode, GraphNode
  <2>3. ASSUME NEW id \in 1..n PROVE DataInputs(graph, id) \subseteq 1..n \cup {NoId}
    <3> DEFINE in == graph[id].in
               S == 0..n
    <3>1. in \in Seq(S)
      BY <2>1 DEF TypedNode
    <3>2. DataInputs(graph, id) = {in[k] : k \in DOMAIN in}
      BY DEF DataInputs
    <3>3. S \subseteq 1..n \cup {NoId}
      BY <2>1 DEF NoId
    <3> HIDE DEF in, S
    <3>4. {in[k] : k \in DOMAIN in} \subseteq S
      BY <3>1
    <3> QED BY <3>2, <3>3, <3>4
  <2>4. \A k \in DOMAIN lower.stack : lower.stack[k] \in 1..n
    BY DEF TypedOK, IsStack
  <2>5. Len(frame.stack) <= KMaxJvmStack
    BY DEF TypedOK, HasRoom
  <2> HIDE DEF n
  <2> QED BY <2>1, <2>2, <2>3, <2>4, <2>5 DEF TypeOK, OptimizerOK, n
<1> QED BY <1>1, <1>2, <1>3, LoweringAlwaysOK, OptimizerAlwaysOK, PTL DEF Spec

-----------------------------------------------------------------------------
(* A second run of a pass.  First the passes that flag nodes: the nodes they    *)
(* choose do not depend on the flag they set.                                   *)

(* The nodes that the flag passes flag, and with what.                          *)
FlaggedBy(pass, g) ==
  LET bs == BlockStructure(g)
  IN  CASE pass = "ControlFlowSimplification" ->
             {id \in OfKind(g, {"If"}) : Len(g[id].in) = 1 /\ Conditions(g, id) # {}}
        [] pass = "TypeNarrowing" -> OfKind(g, {"CheckInt"})
        [] pass = "LICM" ->
             LET headers == {b \in Blocks(bs) : IsLoopHeader(g, bs, b)}
             IN  {id \in Live(g) : Hoistable(g, id)
                    /\ \E h \in headers : h <= BlockOf(g, bs, id) /\ Invariant(g, bs, id, h)}
        [] pass = "LoopPeeling" ->
             {bs[h + 1] : h \in {h \in Blocks(bs) : IsLoopHeader(g, bs, h)
                                   /\ Cardinality(LoopNodes(g, bs, h)) < PeelLimit}}
        [] pass = "BCE" ->
             {id \in OfKind(g, {"CheckBounds"}) :
                Len(g[id].in) = 2 /\ InBounds(g, g[id].in[1], g[id].in[2])}
        [] pass = "NCE" ->
             {id \in OfKind(g, {"CheckNotNull"}) :
                g[id].in # <<>> /\ Valid(g, g[id].in[1])
                /\ g[g[id].in[1]].kind \in NonNullKinds}
        [] pass = "GCM" ->
             LET placed == {id \in Pure(g) : BlockOf(g, bs, id) # 0}
                 early == {id \in placed : BlockOf(g, bs, id) < EarliestBlock(g, bs, id)}
                 hoisted == {id \in Live(g) : Has(g, id, "IsScheduled")}
                 late == {id \in placed : ~Has(g, id, "IsConst") /\ ~Has(g, id, "Control")
                                          /\ ~Has(g, id, "Effect")
                                          /\ BlockOf(g, bs, id) > LatestBlock(g, bs, id)}
             IN  early \cup hoisted \cup late
        [] pass = "ProfileGuidedBlockReorder" ->
             {bs[BlockOf(g, bs, id) + 1] : id \in OfKind(g, ColdKinds)}

FlagOf(pass) ==
  CASE pass \in {"ControlFlowSimplification", "BCE", "NCE"} -> "IsDead"
    [] pass = "TypeNarrowing" -> "HasTypeNarrowing"
    [] pass \in {"LICM", "LoopPeeling"} -> "IsScheduled"
    [] pass \in {"GCM", "ProfileGuidedBlockReorder"} -> "IsCold"

LEMMA FlagPassIs ==
  ASSUME NEW g, NEW pass \in FlagPasses
  PROVE  Run(pass, g) = SetFlag(g, FlaggedBy(pass, g), FlagOf(pass)) /\ FlagOf(pass) \in Flags
<1>1. CASE pass = "ControlFlowSimplification"
  BY <1>1 DEF Run, ControlFlowSimplification, FlaggedBy, FlagOf, Flags
<1>2. CASE pass = "TypeNarrowing"
  BY <1>2 DEF Run, TypeNarrowing, FlaggedBy, FlagOf, Flags
<1>3. CASE pass = "LICM"
  BY <1>3 DEF Run, LICM, FlaggedBy, FlagOf, Flags
<1>4. CASE pass = "LoopPeeling"
  BY <1>4 DEF Run, LoopPeeling, FlaggedBy, FlagOf, Flags
<1>5. CASE pass = "BCE"
  BY <1>5 DEF Run, BCE, FlaggedBy, FlagOf, Flags
<1>6. CASE pass = "NCE"
  BY <1>6 DEF Run, NCE, FlaggedBy, FlagOf, Flags
<1>7. CASE pass = "GCM"
  BY <1>7 DEF Run, GCM, FlaggedBy, FlagOf, Flags
<1>8. CASE pass = "ProfileGuidedBlockReorder"
  BY <1>8 DEF Run, ProfileGuidedBlockReorder, FlaggedBy, FlagOf, Flags
<1> QED BY <1>1, <1>2, <1>3, <1>4, <1>5, <1>6, <1>7, <1>8 DEF FlagPasses

(* Flagging nodes that have the flag changes nothing.                           *)
LEMMA FlagTwice ==
  ASSUME NEW g, IsGraph(g), NEW ids, NEW flag \in Flags, NEW more, more \subseteq ids
  PROVE  SetFlag(SetFlag(g, ids, flag), more, flag) = SetFlag(g, ids, flag)
<1> DEFINE h == SetFlag(g, ids, flag)
           n == Len(h)
           marked(m) == [m EXCEPT !.flags = @ \cup {flag}]
<1>1. Flagged(g, h, ids, flag)
  BY SetFlagMarks
<1> HIDE DEF h
<1>2. n \in Nat /\ Ids(h) = 1..n /\ h = [id \in 1..n |-> h[id]]
  BY <1>1, GraphFacts DEF Flagged
<1>3. ASSUME NEW id \in 1..n, id \in more PROVE marked(h[id]) = h[id]
  <2> DEFINE m == h[id]
  <2>1. GraphNode(m) /\ flag \in m.flags
    BY <1>1, <1>3 DEF Flagged, IsGraph
  <2> HIDE DEF m
  <2> QED BY <2>1 DEF GraphNode, m
<1> HIDE DEF marked, n
<1>4. SetFlag(h, more, flag) = [id \in 1..n |-> IF id \in more THEN marked(h[id]) ELSE h[id]]
  BY <1>2 DEF SetFlag, marked
<1>5. [id \in 1..n |-> IF id \in more THEN marked(h[id]) ELSE h[id]] = [id \in 1..n |-> h[id]]
  BY <1>3
<1> QED BY <1>2, <1>4, <1>5 DEF h

(* h is g up to one flag of its nodes.                                          *)
SameBut(g, h, flag) ==
  /\ Len(g) \in Nat /\ Len(h) = Len(g)
  /\ \A id \in 1..Len(g) :
       /\ h[id].kind = g[id].kind /\ h[id].in = g[id].in /\ h[id].ctrl = g[id].ctrl
       /\ h[id].val = g[id].val
       /\ \A f : f # flag => (Has(h, id, f) <=> Has(g, id, f))

LEMMA FlaggedSame ==
  ASSUME NEW g, IsGraph(g), NEW ids, NEW flag \in Flags
  PROVE  SameBut(g, SetFlag(g, ids, flag), flag)
<1> DEFINE h == SetFlag(g, ids, flag)
<1>1. Flagged(g, h, ids, flag) /\ Len(g) \in Nat
  BY SetFlagMarks, GraphFacts
<1> HIDE DEF h
<1>2. ASSUME NEW id \in 1..Len(g), NEW f, f # flag PROVE Has(h, id, f) <=> Has(g, id, f)
  <2>1. h[id].flags = IF id \in ids THEN g[id].flags \cup {flag} ELSE g[id].flags
    BY <1>1 DEF Flagged
  <2> QED BY <1>2, <2>1 DEF Has
<1> QED BY <1>1, <1>2 DEF SameBut, Flagged, h

(* A flag that is not IsDead: the same nodes are live, in the same blocks.      *)
SameBlocks(g, h) ==
  /\ Len(g) \in Nat /\ Len(h) = Len(g) /\ Ids(h) = Ids(g) /\ Live(h) = Live(g)
  /\ Live(g) \subseteq 1..Len(g)
  /\ \A id \in 1..Len(g) : /\ h[id].kind = g[id].kind /\ h[id].in = g[id].in
                           /\ h[id].ctrl = g[id].ctrl

LEMMA SameLive ==
  ASSUME NEW g, NEW h, NEW flag, flag # "IsDead", SameBut(g, h, flag)
  PROVE  SameBlocks(g, h)
<1>1. Ids(h) = Ids(g) /\ Ids(g) = 1..Len(g)
  BY DEF SameBut, Ids
<1>2. \A id \in 1..Len(g) : Dead(h, id) <=> Dead(g, id)
  BY DEF SameBut, Dead
<1>3. Live(h) = Live(g) /\ Live(g) \subseteq 1..Len(g)
  BY <1>1, <1>2 DEF Live
<1> QED BY <1>1, <1>3 DEF SameBlocks, SameBut

LEMMA SameStructure ==
  ASSUME NEW g, NEW h, SameBlocks(g, h)
  PROVE  /\ BlockStructure(h) = BlockStructure(g)
         /\ \A kinds : OfKind(h, kinds) = OfKind(g, kinds)
         /\ \A bs, id : BlockOf(h, bs, id) = BlockOf(g, bs, id)
<1>1. ASSUME NEW id \in Live(g) PROVE IsLeader(h, id) <=> IsLeader(g, id)
  <2>1. id \in 1..Len(g) /\ Len(g) \in Nat /\ h[id].kind = g[id].kind
    BY DEF SameBlocks
  <2>2. ASSUME id > 1 PROVE h[id - 1].kind = g[id - 1].kind /\ (Dead(h, id - 1) <=> Dead(g, id - 1))
    <3> DEFINE x == id - 1
    <3>1. x \in 1..Len(g)
      BY <2>1, <2>2
    <3> HIDE DEF x
    <3>2. h[x].kind = g[x].kind
      BY <3>1 DEF SameBlocks
    <3>3. (x \in Live(h) <=> ~Dead(h, x)) /\ (x \in Live(g) <=> ~Dead(g, x))
      BY <3>1 DEF SameBlocks, Live, Ids
    <3>4. Live(h) = Live(g)
      BY DEF SameBlocks
    <3> QED BY <3>2, <3>3, <3>4 DEF x
  <2>3. Live(h) = Live(g)
    BY DEF SameBlocks
  <2> QED BY <2>1, <2>2, <2>3 DEF IsLeader
<1>2. {id \in Live(h) : IsLeader(h, id)} = {id \in Live(g) : IsLeader(g, id)}
  <2>1. Live(h) = Live(g)
    BY DEF SameBlocks
  <2> QED BY <1>1, <2>1
<1>3. BlockStructure(h) = BlockStructure(g)
  BY <1>2 DEF BlockStructure, SameBlocks
<1>4. \A kinds : OfKind(h, kinds) = OfKind(g, kinds)
  BY DEF OfKind, SameBlocks
<1>5. \A bs, id : BlockOf(h, bs, id) = BlockOf(g, bs, id)
  BY DEF BlockOf, SameBlocks
<1> QED BY <1>3, <1>4, <1>5

LEMMA SameSuccessors ==
  ASSUME NEW g, IsGraph(g), NEW h, SameBlocks(g, h), NEW bs, bs = BlockStructure(g),
         NEW b \in Blocks(bs)
  PROVE  Successors(h, bs, b) = Successors(g, bs, b)
<1> DEFINE last == LastOf(g, bs, b)
           n == Len(g)
<1>1. /\ n \in Nat /\ Len(h) = n /\ Live(h) = Live(g) /\ Live(g) \subseteq 1..n
      /\ \A id \in 1..n : h[id].kind = g[id].kind /\ h[id].ctrl = g[id].ctrl
  BY DEF SameBlocks
<1>2. \A i, id : BlockOf(h, bs, id) = BlockOf(g, bs, id)
  BY SameStructure
<1>3. LastOf(h, bs, b) = last
  <2>1. NodesIn(h, bs, b) = NodesIn(g, bs, b)
    BY <1>1, <1>2 DEF NodesIn
  <2> QED BY <2>1 DEF LastOf
<1>4. last \in 1..n
  <2>1. CASE Live(g) = {}
    <3>1. \A id \in 1..n : id \notin Live(g)
      BY <2>1
    <3>2. {id \in Live(g) : IsLeader(g, id)} \cap (1..n) = {}
      BY <2>1
    <3>3. Enumerates(bs, {})
      BY <1>1, <3>2, InOrderEnumerates DEF BlockStructure
    <3>4. Len(bs) = 0
      BY <3>3, EmptySeq DEF Enumerates
    <3> QED BY <3>4 DEF Blocks
  <2>2. CASE Live(g) # {}
    <3>1. LeadersAt(g, bs)
      BY <2>2, LeadersFound
    <3> DEFINE m == b + 1
    <3>2. m \in 1..Len(bs) /\ b = m - 1
      BY <3>1 DEF Blocks, LeadersAt
    <3> HIDE DEF m
    <3>3. InBlock(g, bs, LastOf(g, bs, m - 1), m)
      BY <1>1, <3>1, <3>2, LastFound
    <3> QED BY <1>1, <3>2, <3>3 DEF InBlock
  <2> QED BY <2>1, <2>2
<1> HIDE DEF last
<1>5. h[last].kind = g[last].kind
  BY <1>1, <1>4
<1>6. Projections(h, last) = Projections(g, last)
  <2>1. {id \in Live(h) : h[id].ctrl = last /\ h[id].kind \in {"IfTrue", "IfFalse"}}
        = {id \in Live(g) : g[id].ctrl = last /\ g[id].kind \in {"IfTrue", "IfFalse"}}
    BY <1>1
  <2> QED BY <1>1, <2>1 DEF Projections
<1>7. JumpTarget(h, last) = JumpTarget(g, last)
  BY <1>1 DEF JumpTarget
<1> HIDE DEF n
<1> QED BY <1>2, <1>3, <1>5, <1>6, <1>7 DEF Successors, last

(* Loops, their nodes and the blocks of operands and users.                     *)
LEMMA SameLoops ==
  ASSUME NEW g, IsGraph(g), NEW h, SameBlocks(g, h), NEW bs, bs = BlockStructure(g)
  PROVE  /\ \A b : IsLoopHeader(h, bs, b) <=> IsLoopHeader(g, bs, b)
         /\ \A b : LoopNodes(h, bs, b) = LoopNodes(g, bs, b)
         /\ \A id \in 1..Len(g) : DataInputs(h, id) = DataInputs(g, id)
         /\ \A id \in 1..Len(g) : EarliestBlock(h, bs, id) = EarliestBlock(g, bs, id)
         /\ \A id \in 1..Len(g) : LatestBlock(h, bs, id) = LatestBlock(g, bs, id)
<1>1. \A b \in Blocks(bs) : SuccSet(h, bs, b) = SuccSet(g, bs, b)
  BY SameSuccessors DEF SuccSet
<1>2. \A id : BlockOf(h, bs, id) = BlockOf(g, bs, id)
  BY SameStructure
<1>3. /\ Ids(h) = Ids(g) /\ Live(h) = Live(g) /\ Live(g) \subseteq 1..Len(g)
      /\ \A id \in 1..Len(g) : h[id].in = g[id].in
  BY DEF SameBlocks
<1>4. \A b : IsLoopHeader(h, bs, b) <=> IsLoopHeader(g, bs, b)
  BY <1>1 DEF IsLoopHeader
<1>5. ASSUME NEW b PROVE LoopNodes(h, bs, b) = LoopNodes(g, bs, b)
  <2>1. {a \in Blocks(bs) : b <= a /\ b \in SuccSet(h, bs, a)}
        = {a \in Blocks(bs) : b <= a /\ b \in SuccSet(g, bs, a)}
    BY <1>1
  <2>2. \A end : {id \in Live(h) : BlockOf(h, bs, id) \in b..end}
                = {id \in Live(g) : BlockOf(g, bs, id) \in b..end}
    BY <1>2, <1>3
  <2> DEFINE back == {a \in Blocks(bs) : b <= a /\ b \in SuccSet(g, bs, a)}
             end == CHOOSE a \in back : \A other \in back : a <= other
  <2>3. LoopNodes(g, bs, b) = {id \in Live(g) : BlockOf(g, bs, id) \in b..end}
    BY DEF LoopNodes
  <2>4. LoopNodes(h, bs, b) = {id \in Live(h) : BlockOf(h, bs, id) \in b..end}
    BY <2>1 DEF LoopNodes
  <2> HIDE DEF end
  <2> QED BY <2>2, <2>3, <2>4
<1>6. ASSUME NEW id \in 1..Len(g) PROVE DataInputs(h, id) = DataInputs(g, id)
  BY <1>3 DEF DataInputs
<1>7. ASSUME NEW S PROVE BlocksOf(h, bs, S) = BlocksOf(g, bs, S)
  <2>1. \A x : Valid(h, x) <=> Valid(g, x)
    BY <1>3 DEF Valid
  <2> QED BY <1>2, <2>1 DEF BlocksOf
<1>8. ASSUME NEW id \in 1..Len(g) PROVE EarliestBlock(h, bs, id) = EarliestBlock(g, bs, id)
  BY <1>6, <1>7 DEF EarliestBlock
<1>9. ASSUME NEW id \in 1..Len(g) PROVE LatestBlock(h, bs, id) = LatestBlock(g, bs, id)
  <2>1. {x \in Live(h) : id \in DataInputs(h, x)} = {x \in Live(g) : id \in DataInputs(g, x)}
    BY <1>3, <1>6
  <2>2. BlocksOf(h, bs, {x \in Live(h) : id \in DataInputs(h, x)})
        = BlocksOf(g, bs, {x \in Live(g) : id \in DataInputs(g, x)})
    BY <1>7, <2>1
  <2> DEFINE U == {x \in Live(g) : id \in DataInputs(g, x)}
             UU == {x \in Live(h) : id \in DataInputs(h, x)}
             Of(S, B, e) == IF S = {} THEN e ELSE CHOOSE b \in B : \A other \in B : b <= other
  <2>3. LatestBlock(g, bs, id) = Of(U, BlocksOf(g, bs, U), EarliestBlock(g, bs, id))
    BY DEF LatestBlock
  <2>4. LatestBlock(h, bs, id) = Of(UU, BlocksOf(h, bs, UU), EarliestBlock(h, bs, id))
    BY DEF LatestBlock
  <2>5. UU = U /\ BlocksOf(h, bs, UU) = BlocksOf(g, bs, U)
    BY <2>1, <2>2
  <2> HIDE DEF Of, U, UU
  <2> QED BY <1>8, <2>3, <2>4, <2>5
<1> QED BY <1>4, <1>5, <1>6, <1>8, <1>9

LEMMA FlagPassTwice ==
  ASSUME NEW g, IsGraph(g), NEW pass \in FlagPasses
  PROVE  Run(pass, Run(pass, g)) = Run(pass, g)
<1> DEFINE ids == FlaggedBy(pass, g)
           flag == FlagOf(pass)
           h == SetFlag(g, ids, flag)
           bs == BlockStructure(g)
           n == Len(g)
<1>1. Run(pass, g) = h /\ Run(pass, h) = SetFlag(h, FlaggedBy(pass, h), flag) /\ flag \in Flags
  BY FlagPassIs
<1>2. SameBut(g, h, flag)
  BY <1>1, FlaggedSame
<1> HIDE DEF h, ids
<1>3. /\ n \in Nat /\ Len(h) = n /\ Ids(h) = 1..n /\ Ids(g) = 1..n
      /\ \A id \in 1..n : /\ h[id].kind = g[id].kind /\ h[id].in = g[id].in
                           /\ h[id].val = g[id].val
                           /\ \A f : f # flag => (Has(h, id, f) <=> Has(g, id, f))
  BY <1>2 DEF SameBut, Ids
<1> HIDE DEF n
<1>4. CASE flag = "IsDead"
  <2>1. \A x : Valid(h, x) <=> Valid(g, x)
    BY <1>3 DEF Valid
  <2>2. ASSUME NEW kinds PROVE OfKind(h, kinds) \subseteq OfKind(g, kinds)
    <3>1. Live(h) \subseteq Live(g)
      <4>1. \A id \in 1..n : Dead(g, id) => Dead(h, id)
        <5>1. Flagged(g, h, ids, flag)
          BY <1>1, SetFlagMarks DEF h
        <5> QED BY <5>1 DEF Flagged, Dead, Has, n
      <4> QED BY <1>3, <4>1 DEF Live
    <3> QED BY <1>3, <3>1 DEF OfKind, Live
  <2>3. \A x : Valid(g, x) => (Has(h, x, "IsConst") <=> Has(g, x, "IsConst"))
    BY <1>3, <1>4 DEF Valid
  <2>4. \A kinds : OfKind(g, kinds) \subseteq 1..n
    BY <1>3 DEF OfKind, Live
  <2>5. FlaggedBy(pass, h) \subseteq ids
    <3>1. CASE pass = "ControlFlowSimplification"
      <4>1. ASSUME NEW id \in 1..n PROVE Conditions(h, id) = Conditions(g, id)
        <5>1. DataInputs(h, id) = DataInputs(g, id)
          BY <1>3 DEF DataInputs
        <5> QED BY <2>1, <2>3, <5>1 DEF Conditions
      <4> QED BY <1>3, <2>2, <2>4, <3>1, <4>1 DEF FlaggedBy, ids
    <3>2. CASE pass = "BCE"
      <4>1. \A x : ConstIntOf(h, x) <=> ConstIntOf(g, x)
        BY <1>3, <2>1, <2>3 DEF ConstIntOf, Valid
      <4>2. \A x : Valid(g, x) => h[x].val = g[x].val /\ h[x].in = g[x].in /\ h[x].kind = g[x].kind
        BY <1>3 DEF Valid
      <4>3. \A x : ConstIntOf(g, x) => h[x].val = g[x].val
        BY <4>2 DEF ConstIntOf
      <4>4. \A x : CountsFromZero(h, x) <=> CountsFromZero(g, x)
        <5> TAKE x
        <5> DEFINE a == g[x].in[1]
                   next == g[x].in[2]
        <5>1. CASE ~Valid(g, x)
          BY <2>1, <5>1 DEF CountsFromZero
        <5>2. CASE Valid(g, x)
          <6>1. h[x].in = g[x].in /\ h[x].kind = g[x].kind
            BY <4>2, <5>2
          <6>2. (ConstIntOf(h, a) /\ h[a].val = 0) <=> (ConstIntOf(g, a) /\ g[a].val = 0)
            BY <4>1, <4>3
          <6>3. ASSUME Valid(g, next) PROVE h[next].in = g[next].in /\ h[next].kind = g[next].kind
            BY <4>2, <6>3
          <6>4. \A y : (ConstIntOf(h, y) /\ h[y].val = 1) <=> (ConstIntOf(g, y) /\ g[y].val = 1)
            BY <4>1, <4>3
          <6> DEFINE Counts(k, in) == in[k] = x /\ ConstIntOf(g, in[3 - k]) /\ g[in[3 - k]].val = 1
          <6>5. CountsFromZero(g, x) <=>
                  /\ g[x].kind = "Phi" /\ Len(g[x].in) >= 2 /\ ConstIntOf(g, a) /\ g[a].val = 0
                  /\ Valid(g, next) /\ g[next].kind = "Add" /\ Len(g[next].in) = 2
                  /\ \E k \in {1, 2} : Counts(k, g[next].in)
            BY <5>2 DEF CountsFromZero
          <6>6. CountsFromZero(h, x) <=>
                  /\ g[x].kind = "Phi" /\ Len(g[x].in) >= 2 /\ ConstIntOf(g, a) /\ g[a].val = 0
                  /\ Valid(g, next) /\ g[next].kind = "Add" /\ Len(g[next].in) = 2
                  /\ \E k \in {1, 2} : Counts(k, g[next].in)
            <7>1. CountsFromZero(h, x) <=>
                    /\ h[x].kind = "Phi" /\ Len(h[x].in) >= 2
                    /\ ConstIntOf(h, h[x].in[1]) /\ h[h[x].in[1]].val = 0
                    /\ Valid(h, h[x].in[2]) /\ h[h[x].in[2]].kind = "Add" /\ Len(h[h[x].in[2]].in) = 2
                    /\ \E k \in {1, 2} :
                         /\ h[h[x].in[2]].in[k] = x
                         /\ ConstIntOf(h, h[h[x].in[2]].in[3 - k]) /\ h[h[h[x].in[2]].in[3 - k]].val = 1
              BY <2>1, <5>2 DEF CountsFromZero
            <7>2. h[x].in[1] = a /\ h[x].in[2] = next
              BY <6>1
            <7> HIDE DEF a, next
            <7>3. CountsFromZero(h, x) <=>
                    /\ g[x].kind = "Phi" /\ Len(g[x].in) >= 2 /\ ConstIntOf(g, a) /\ g[a].val = 0
                    /\ Valid(g, next) /\ h[next].kind = "Add" /\ Len(h[next].in) = 2
                    /\ \E k \in {1, 2} :
                         h[next].in[k] = x /\ ConstIntOf(h, h[next].in[3 - k]) /\ h[h[next].in[3 - k]].val = 1
              BY <2>1, <6>1, <6>2, <7>1, <7>2
            <7>4. Valid(g, next) =>
                   ((\E k \in {1, 2} :
                      h[next].in[k] = x /\ ConstIntOf(h, h[next].in[3 - k]) /\ h[h[next].in[3 - k]].val = 1)
                    <=> \E k \in {1, 2} : Counts(k, g[next].in))
              BY <6>3, <6>4
            <7> QED BY <6>3, <7>3, <7>4
          <6> QED BY <6>5, <6>6
        <5> QED BY <5>1, <5>2
      <4>5. \A x, y : InBounds(h, x, y) <=> InBounds(g, x, y)
        BY <4>1, <4>3, <4>4 DEF InBounds
      <4> QED BY <1>3, <2>2, <2>4, <3>2, <4>5 DEF FlaggedBy, ids
    <3>3. CASE pass = "NCE"
      <4>1. \A x : Valid(g, x) => h[x].kind = g[x].kind
        BY <1>3 DEF Valid
      <4> QED BY <1>3, <2>1, <2>2, <2>4, <3>3, <4>1 DEF FlaggedBy, ids
    <3> QED BY <1>4, <3>1, <3>2, <3>3 DEF FlagOf, FlagPasses
  <2> QED BY <1>1, <2>5, FlagTwice DEF h
<1>5. CASE flag # "IsDead"
  <2>1. SameBlocks(g, h)
    BY <1>2, <1>5, SameLive
  <2>2. /\ BlockStructure(h) = bs /\ Live(h) = Live(g) /\ Live(g) \subseteq 1..n
        /\ \A kinds : OfKind(h, kinds) = OfKind(g, kinds)
        /\ \A id : BlockOf(h, bs, id) = BlockOf(g, bs, id)
    BY <2>1, SameStructure DEF SameBlocks, n
  <2>3. /\ \A b : IsLoopHeader(h, bs, b) <=> IsLoopHeader(g, bs, b)
        /\ \A b : LoopNodes(h, bs, b) = LoopNodes(g, bs, b)
        /\ \A id \in 1..n : /\ DataInputs(h, id) = DataInputs(g, id)
                             /\ EarliestBlock(h, bs, id) = EarliestBlock(g, bs, id)
                             /\ LatestBlock(h, bs, id) = LatestBlock(g, bs, id)
    BY <2>1, SameLoops DEF n
  <2> HIDE DEF bs
  <2>4. \A x : Valid(h, x) <=> Valid(g, x)
    BY <1>3 DEF Valid
  <2>5. FlaggedBy(pass, h) = ids
    <3>1. CASE pass = "TypeNarrowing"
      BY <2>2, <3>1 DEF FlaggedBy, ids
    <3>2. CASE pass = "LICM"
      <4>1. flag = "IsScheduled"
        BY <3>2 DEF FlagOf
      <4>2. \A id \in 1..n : Hoistable(h, id) <=> Hoistable(g, id)
        BY <1>3, <4>1 DEF Hoistable
      <4>3. \A id \in 1..n : \A b : Invariant(h, bs, id, b) <=> Invariant(g, bs, id, b)
        BY <2>2, <2>3, <2>4 DEF Invariant
      <4> QED BY <2>2, <2>3, <3>2, <4>2, <4>3 DEF FlaggedBy, ids, bs
    <3>3. CASE pass = "LoopPeeling"
      BY <2>2, <2>3, <3>3 DEF FlaggedBy, ids, bs
    <3>4. CASE pass = "GCM"
      <4>1. flag = "IsCold"
        BY <3>4 DEF FlagOf
      <4>2. \A id \in Live(g) : \A f \in {"Pure", "IsScheduled", "IsConst", "Control", "Effect"} :
              Has(h, id, f) <=> Has(g, id, f)
        BY <1>3, <2>2, <4>1
      <4>3. Pure(h) = Pure(g) /\ Pure(g) \subseteq Live(g)
        BY <2>2, <4>2 DEF Pure
      <4> QED BY <2>2, <2>3, <3>4, <4>2, <4>3 DEF FlaggedBy, ids, bs
    <3>5. CASE pass = "ProfileGuidedBlockReorder"
      BY <2>2, <3>5 DEF FlaggedBy, ids, bs
    <3> QED BY <1>5, <3>1, <3>2, <3>3, <3>4, <3>5 DEF FlagOf, FlagPasses
  <2> QED BY <1>1, <2>5, FlagTwice DEF h
<1> QED BY <1>1, <1>4, <1>5

(* A constant put beside a node twice.                                          *)
LEMMA MarkTwice ==
  ASSUME NEW n, GraphNode(n), NEW v
  PROVE  Mark(Mark(n, v), v) = Mark(n, v) /\ MarkInt(MarkInt(n, v), v) = MarkInt(n, v)
<1>1. (n.flags \cup {"IsConst"}) \cup {"IsConst"} = n.flags \cup {"IsConst"}
  OBVIOUS
<1> QED BY <1>1 DEF GraphNode, Mark, MarkInt

(* What the second run sees after a pass that marks nodes.                      *)
SameConstants(g, h) ==
  /\ IsGraph(h) /\ Len(h) = Len(g) /\ Ids(h) = 1..Len(g) /\ Ids(g) = 1..Len(g) /\ Len(g) \in Nat
  /\ \A id : Valid(h, id) <=> Valid(g, id)
  /\ \A id \in 1..Len(g) :
       /\ h[id].kind = g[id].kind /\ h[id].in = g[id].in
       /\ g[id].kind = "ConstInt" => h[id] = g[id]
       /\ \A f : f # "IsConst" => (Has(h, id, f) <=> Has(g, id, f))
  /\ Live(h) = Live(g) /\ Pure(h) = Pure(g)

LEMMA MarkedConstants ==
  ASSUME NEW g, IsGraph(g), NEW h, MarksOthers(g, h)
  PROVE  SameConstants(g, h)
<1>1. Ids(g) = 1..Len(g) /\ Len(g) \in Nat /\ \A id \in 1..Len(g) : GraphNode(g[id])
  BY GraphFacts DEF IsGraph
<1>2. IsGraph(h) /\ Len(h) = Len(g) /\ Ids(h) = 1..Len(g)
  BY <1>1, MarkedKept DEF KeepsAll, Ids
<1>3. ASSUME NEW id \in 1..Len(g)
      PROVE  /\ h[id].kind = g[id].kind /\ h[id].in = g[id].in
             /\ g[id].kind = "ConstInt" => h[id] = g[id]
             /\ \A f : f # "IsConst" => (Has(h, id, f) <=> Has(g, id, f))
  <2>1. CASE h[id] = g[id]
    BY <2>1 DEF Has
  <2>2. ASSUME g[id].kind \notin ConstKinds, NEW v, h[id] \in {Mark(g[id], v), MarkInt(g[id], v)}
        PROVE  /\ h[id].kind = g[id].kind /\ h[id].in = g[id].in
               /\ g[id].kind = "ConstInt" => h[id] = g[id]
               /\ \A f : f # "IsConst" => (Has(h, id, f) <=> Has(g, id, f))
    <3>1. GraphNode(g[id])
      BY <1>1
    <3>2. h[id].flags = g[id].flags \cup {"IsConst"} /\ h[id].kind = g[id].kind /\ h[id].in = g[id].in
      BY <2>2, <3>1, MarkedNode
    <3> QED BY <2>2, <3>2 DEF Has, ConstKinds
  <2> QED BY <1>1, <2>1, <2>2 DEF MarksOthers
<1>4. \A id : Valid(h, id) <=> Valid(g, id)
  BY <1>1, <1>2 DEF Valid
<1>5. Live(h) = Live(g)
  BY <1>1, <1>2, <1>3 DEF Live, Dead
<1>6. Pure(h) = Pure(g)
  <2>1. Live(g) \subseteq 1..Len(g)
    BY <1>1 DEF Live
  <2> QED BY <1>3, <1>5, <2>1 DEF Pure
<1> QED BY <1>1, <1>2, <1>3, <1>4, <1>5, <1>6 DEF SameConstants

LEMMA SimplifiedAlike ==
  ASSUME NEW g, NEW n, NEW m, m.kind = n.kind, m.in = n.in
  PROVE  \/ Simplified(g, n) = n /\ Simplified(g, m) = m
         \/ Simplified(g, n) = Mark(n, 0) /\ Simplified(g, m) = Mark(m, 0)
         \/ Simplified(g, n) = Mark(n, 1) /\ Simplified(g, m) = Mark(m, 1)
         \/ Simplified(g, n) = MarkInt(n, 0) /\ Simplified(g, m) = MarkInt(m, 0)
BY DEF Simplified

LEMMA SimplificationTwice ==
  ASSUME NEW g, IsGraph(g)
  PROVE  AlgebraicSimplification(AlgebraicSimplification(g)) = AlgebraicSimplification(g)
<1> DEFINE h == AlgebraicSimplification(g)
           n == Len(g)
<1>1. SameConstants(g, h)
  BY SimplificationMarksOthers, MarkedConstants
<1>2. Ids(g) = 1..n /\ n \in Nat /\ \A id \in 1..n : GraphNode(g[id])
  BY GraphFacts DEF IsGraph
<1>3. h = [id \in 1..n |-> IF id \in Pure(g) /\ Len(g[id].in) = 2 THEN Simplified(g, g[id]) ELSE g[id]]
  BY <1>2 DEF AlgebraicSimplification
<1> HIDE DEF h
<1>4. h = [id \in 1..n |-> h[id]]
      /\ \A id \in 1..n : h[id] = IF id \in Pure(g) /\ Len(g[id].in) = 2 THEN Simplified(g, g[id]) ELSE g[id]
  BY <1>3
<1>5. AlgebraicSimplification(h)
      = [id \in 1..n |-> IF id \in Pure(h) /\ Len(h[id].in) = 2 THEN Simplified(h, h[id]) ELSE h[id]]
  BY <1>1 DEF SameConstants, AlgebraicSimplification
<1>6. \A id, v : IsConstInt(h, id, v) <=> IsConstInt(g, id, v)
  <2> TAKE id, v
  <2>1. CASE Valid(g, id)
    <3>1. id \in 1..Len(g) /\ Valid(h, id)
      BY <1>1, <2>1 DEF Valid, SameConstants
    <3>2. h[id].kind = g[id].kind /\ (g[id].kind = "ConstInt" => h[id] = g[id])
      BY <1>1, <3>1 DEF SameConstants
    <3> QED BY <2>1, <3>1, <3>2 DEF IsConstInt
  <2>2. CASE ~Valid(g, id)
    <3>1. ~Valid(h, id)
      BY <1>1, <2>2 DEF SameConstants
    <3> QED BY <2>2, <3>1 DEF IsConstInt
  <2> QED BY <2>1, <2>2
<1>7. \A m : Simplified(h, m) = Simplified(g, m)
  BY <1>6 DEF Simplified
<1>8. ASSUME NEW id \in 1..n, id \in Pure(h), Len(h[id].in) = 2 PROVE Simplified(h, h[id]) = h[id]
  <2> DEFINE x == g[id]
             y == h[id]
  <2>1. GraphNode(x) /\ id \in Pure(g) /\ y.in = x.in /\ y.kind = x.kind
    BY <1>1, <1>2, <1>8 DEF SameConstants
  <2>2. y = Simplified(g, x)
    BY <1>4, <1>8, <2>1
  <2> HIDE DEF x, y
  <2>3. Simplified(g, y) = y
    BY <2>1, <2>2, SimplifiedAlike, MarkTwice
  <2> QED BY <1>7, <2>3 DEF y
<1>9. [id \in 1..n |-> IF id \in Pure(h) /\ Len(h[id].in) = 2 THEN Simplified(h, h[id]) ELSE h[id]]
      = [id \in 1..n |-> h[id]]
  BY <1>8
<1> QED BY <1>4, <1>5, <1>9 DEF h

LEMMA PeepholeTwice ==
  ASSUME NEW g, IsGraph(g)
  PROVE  Peephole(Peephole(g)) = Peephole(g)
<1> DEFINE h == Peephole(g)
           n == Len(g)
           Shift(q, id) == /\ id \in OfKind(q, {"Mul"}) /\ Len(q[id].in) = 2
                           /\ Valid(q, q[id].in[2]) /\ q[q[id].in[2]].kind = "ConstInt"
                           /\ IsPowerOfTwo(q[q[id].in[2]].val)
           Of(q, id) == IF Shift(q, id) THEN Mark(q[id], Log2(q[q[id].in[2]].val)) ELSE q[id]
<1>1. SameConstants(g, h)
  BY PeepholeMarksOthers, MarkedConstants
<1>2. Ids(g) = 1..n /\ n \in Nat /\ \A id \in 1..n : GraphNode(g[id])
  BY GraphFacts DEF IsGraph
<1>3. ASSUME NEW q, Ids(q) = 1..n PROVE Peephole(q) = [id \in 1..n |-> Of(q, id)]
  BY <1>3 DEF Peephole, ShiftsInstead
<1>4. Ids(h) = 1..n
  BY <1>1 DEF SameConstants
<1>5. h = [id \in 1..n |-> Of(g, id)] /\ Peephole(h) = [id \in 1..n |-> Of(h, id)]
  BY <1>2, <1>3, <1>4
<1> HIDE DEF h, Of
<1>6. h = [id \in 1..n |-> h[id]] /\ \A id \in 1..n : h[id] = Of(g, id)
  BY <1>5
<1>7. ASSUME NEW id \in 1..n PROVE Of(h, id) = h[id]
  <2> DEFINE b == g[id].in[2]
  <2>1. h[id].in = g[id].in /\ (id \in OfKind(h, {"Mul"}) <=> id \in OfKind(g, {"Mul"}))
    BY <1>1 DEF SameConstants, OfKind
  <2>2. Valid(h, b) <=> Valid(g, b)
    BY <1>1 DEF SameConstants
  <2>3. ASSUME Valid(g, b)
        PROVE  h[b].kind = g[b].kind /\ (g[b].kind = "ConstInt" => h[b].val = g[b].val)
    <3>1. b \in 1..Len(g)
      BY <1>2, <2>3 DEF Valid
    <3> HIDE DEF b
    <3> QED BY <1>1, <3>1 DEF SameConstants
  <2>4. h[id].in[2] = b
    BY <2>1
  <2> HIDE DEF b
  <2>5. Shift(h, id) <=> Shift(g, id)
    <3>1. g[id].in[2] = b
      BY DEF b
    <3> QED BY <2>1, <2>2, <2>3, <2>4, <3>1
  <2>6. CASE Shift(g, id)
    <3>1. g[id].in[2] = b /\ Valid(g, b) /\ g[b].kind = "ConstInt"
      BY <2>6 DEF b
    <3> DEFINE v == Log2(g[b].val)
    <3>2. h[id] = Mark(g[id], v)
      BY <1>6, <2>6, <3>1 DEF Of
    <3>3. Of(h, id) = Mark(h[id], v)
      BY <2>3, <2>4, <2>5, <2>6, <3>1 DEF Of
    <3> HIDE DEF v
    <3> QED BY <1>2, <3>2, <3>3, MarkTwice
  <2>7. CASE ~Shift(g, id)
    BY <2>5, <2>7 DEF Of
  <2> QED BY <2>6, <2>7
<1>8. [id \in 1..n |-> Of(h, id)] = [id \in 1..n |-> h[id]]
  BY <1>7
<1> QED BY <1>5, <1>6, <1>8 DEF h

(* SCCP finds in the second run what it found in the first.                     *)
LEMMA SCCPTwice ==
  ASSUME NEW g, IsGraph(g), \A id \in 1..Len(g) : g[id].kind \in ConstKinds => Has(g, id, "IsConst")
  PROVE  SCCP(SCCP(g)) = SCCP(g)
<1> DEFINE h == SCCP(g)
           n == Len(g)
           Found(q) == {id \in Pure(q) : Lattice(q)[id][1] = "const" /\ ~Has(q, id, "IsConst")}
           Of(q) == [id \in 1..n |-> IF id \in Found(q) THEN MarkInt(q[id], Lattice(q)[id][2]) ELSE q[id]]
<1>1. SameConstants(g, h)
  BY SCCPMarksOthers, MarkedConstants
<1>2. Ids(g) = 1..n /\ n \in Nat /\ \A id \in 1..n : GraphNode(g[id])
  BY GraphFacts DEF IsGraph
<1>3. ASSUME NEW q, Ids(q) = 1..n PROVE SCCP(q) = Of(q)
  BY <1>3 DEF SCCP
<1>4. Ids(h) = 1..n
  BY <1>1 DEF SameConstants
<1>5. h = Of(g) /\ SCCP(h) = Of(h)
  BY <1>2, <1>3, <1>4
<1> HIDE DEF h
<1>6. ASSUME NEW f, NEW id \in 1..n PROVE LatticeAt(f, h, id) = LatticeAt(f, g, id)
  <2>1. /\ \A x : Valid(h, x) <=> Valid(g, x)
        /\ h[id].kind = g[id].kind /\ h[id].in = g[id].in
        /\ g[id].kind = "ConstInt" => h[id].val = g[id].val
        /\ Dead(h, id) <=> Dead(g, id)
    BY <1>1 DEF SameConstants, Dead
  <2> QED BY <2>1 DEF LatticeAt
<1>7. Lattice(h) = Lattice(g)
  <2>1. ASSUME NEW f PROVE IsLattice(f, h) <=> IsLattice(f, g)
    <3>1. [id \in 1..n |-> LatticeAt(f, h, id)] = [id \in 1..n |-> LatticeAt(f, g, id)]
      BY <1>6
    <3> QED BY <1>2, <1>4, <3>1 DEF IsLattice
  <2>2. Lattice(h) = (CHOOSE f : IsLattice(f, h)) /\ Lattice(g) = CHOOSE f : IsLattice(f, g)
    BY LatticeChosen
  <2> QED BY <2>1, <2>2
<1>8. Found(h) = {}
  <2> SUFFICES ASSUME NEW id \in Found(h) PROVE FALSE
    OBVIOUS
  <2>1. id \in Pure(g) /\ Lattice(g)[id][1] = "const" /\ ~Has(h, id, "IsConst") /\ id \in 1..n
    <3>1. Pure(g) \subseteq 1..n
      BY <1>2 DEF Pure, Live
    <3> QED BY <1>1, <1>7, <3>1 DEF SameConstants
  <2>2. CASE Has(g, id, "IsConst")
    <3>1. id \notin Found(g)
      BY <2>2
    <3> HIDE DEF Found
    <3>2. h[id] = g[id]
      BY <1>5, <2>1, <3>1
    <3> QED BY <2>1, <2>2, <3>2 DEF Has
  <2>3. CASE ~Has(g, id, "IsConst")
    <3>1. id \in Found(g)
      BY <2>1, <2>3
    <3> HIDE DEF Found
    <3>2. h[id] = MarkInt(g[id], Lattice(g)[id][2])
      BY <1>5, <2>1, <3>1
    <3>3. "IsConst" \in h[id].flags
      BY <1>2, <2>1, <3>2, MarkedNode
    <3> QED BY <2>1, <3>3 DEF Has
  <2> QED BY <2>2, <2>3
<1>9. Of(h) = [id \in 1..n |-> h[id]]
  BY <1>8
<1>10. h = [id \in 1..n |-> h[id]]
  BY <1>5
<1> HIDE DEF Of
<1> QED BY <1>5, <1>9, <1>10 DEF h

LEMMA FoldedOnce ==
  ASSUME NEW g, Len(g) \in Nat, TwoBefore(g), NEW f, NEW h, IsFolded(f, g), IsFolded(h, g)
  PROVE  f = h
<1> DEFINE n == Len(g)
           T == {m \in 0..n : \A id \in 1..m : f[id] = h[id]}
<1>1. /\ f = [id \in 1..n |-> FoldNode(g, f, id)]
      /\ h = [id \in 1..n |-> FoldNode(g, h, id)]
  BY DEF IsFolded, Ids
<1>2. \A id \in 1..n : f[id] = FoldNode(g, f, id) /\ h[id] = FoldNode(g, h, id)
  BY <1>1
<1>3. 0 \in T
  OBVIOUS
<1>4. ASSUME NEW m \in 0..n - 1, m \in T PROVE m + 1 \in T
  <2>1. m + 1 \in 1..n /\ m + 1 \in 0..n /\ (m + 1) - 1 = m /\ 1..m + 1 = 1..m \cup {m + 1}
    OBVIOUS
  <2>2. \A x \in 1..(m + 1) - 1 : f[x] = h[x]
    BY <1>4, <2>1
  <2>3. FoldNode(g, f, m + 1) = FoldNode(g, h, m + 1)
    BY <2>1, <2>2, FoldLooksBack
  <2>4. f[m + 1] = h[m + 1]
    BY <1>2, <2>1, <2>3
  <2> QED BY <1>4, <2>1, <2>4
<1>5. n \in T
  <2> HIDE DEF T, n
  <2>0. n \in Nat
    BY DEF n
  <2>1. 0..n \subseteq T
    BY <1>3, <1>4, <2>0, PrefixInduction
  <2> QED BY <2>0, <2>1
<1>6. \A id \in 1..n : f[id] = h[id]
  BY <1>5
<1>7. f = [id \in 1..n |-> f[id]] /\ h = [id \in 1..n |-> h[id]]
  BY <1>1
<1> HIDE DEF n
<1> QED BY <1>6, <1>7

LEMMA FoldingIs ==
  ASSUME NEW g, Len(g) \in Nat, TwoBefore(g), NEW f
  PROVE  /\ IsFolded(ConstantFolding(g), g)
         /\ IsFolded(f, g) => ConstantFolding(g) = f
<1> DEFINE h == CHOOSE h : IsFolded(h, g)
<1>1. IsFolded(h, g)
  BY FoldedExists
<1>2. ConstantFolding(g) = [id \in Ids(g) |-> FoldNode(g, h, id)]
  BY FoldedChosen
<1> HIDE DEF h
<1>3. ConstantFolding(g) = h
  BY <1>1, <1>2 DEF IsFolded
<1> QED BY <1>1, <1>3, FoldedOnce

(* What is folded stays as it is, and what is not is not folded later.          *)
LEMMA FoldingTwice ==
  ASSUME NEW g, IsGraph(g), TwoBefore(g)
  PROVE  ConstantFolding(ConstantFolding(g)) = ConstantFolding(g)
<1> DEFINE h == ConstantFolding(g)
           n == Len(g)
<1>1. SameConstants(g, h)
  BY FoldingMarksOthers, MarkedConstants
<1>2. Ids(g) = 1..n /\ n \in Nat /\ \A id \in 1..n : GraphNode(g[id])
  BY GraphFacts DEF IsGraph
<1>3. h = [id \in 1..n |-> FoldNode(g, h, id)]
  BY <1>2, FoldingIs DEF IsFolded
<1>4. KeepsAll(g, h)
  BY FoldingMarksOthers, MarkedKept
<1> HIDE DEF h
<1>5. Len(h) = n /\ Ids(h) = 1..n /\ TwoBefore(h)
  BY <1>1, <1>4, KeptComputes DEF SameConstants
<1>6. ASSUME NEW id \in 1..n PROVE FoldNode(h, h, id) = h[id]
  <2> DEFINE x == g[id]
             y == h[id]
             a == h[x.in[1]]
             b == h[x.in[2]]
  <2>1. y = FoldNode(g, h, id) /\ GraphNode(x) /\ y.in = x.in /\ y.kind = x.kind
    BY <1>1, <1>2, <1>3 DEF SameConstants
  <2>2. FoldNode(g, h, id) = IF Len(x.in) = 2 /\ x.kind \in BinaryKinds THEN TryFoldBinary(x, a, b) ELSE x
    BY DEF FoldNode
  <2>3. FoldNode(h, h, id) = IF Len(x.in) = 2 /\ x.kind \in BinaryKinds THEN TryFoldBinary(y, a, b) ELSE y
    BY <2>1 DEF FoldNode
  <2> HIDE DEF a, b, x, y
  <2>4. FoldNode(h, h, id) = y
    <3>1. CASE y = x
      BY <2>1, <2>2, <2>3, <3>1
    <3>2. CASE y # x
      <4>1. y = TryFoldBinary(x, a, b)
        BY <2>1, <2>2, <3>2
      <4>2. PICK v : y = MarkInt(x, v)
        BY <3>2, <4>1 DEF TryFoldBinary
      <4>3. "IsConst" \in y.flags
        BY <2>1, <4>2, MarkedNode
      <4>4. TryFoldBinary(y, a, b) = y
        BY <4>3 DEF TryFoldBinary
      <4> QED BY <2>3, <4>4
    <3> QED BY <3>1, <3>2
  <2> QED BY <2>4 DEF y
<1>7. [id \in 1..n |-> FoldNode(h, h, id)] = [id \in 1..n |-> h[id]]
  BY <1>6
<1>8. h = [id \in 1..n |-> h[id]]
  BY <1>3
<1>9. IsFolded(h, h)
  BY <1>5, <1>7, <1>8 DEF IsFolded
<1>10. ConstantFolding(h) = h
  BY <1>2, <1>5, <1>9, FoldingIs
<1> QED BY <1>10 DEF h

LEMMA TailCallsTwice ==
  ASSUME NEW g, IsGraph(g)
  PROVE  TailCallElimination(TailCallElimination(g)) = TailCallElimination(g)
<1> DEFINE h == TailCallElimination(g)
           n == Len(g)
           after(m) == [m EXCEPT !.kind = "TailCall"]
           calls == TailCalls(g)
<1>1. Ids(g) = 1..n /\ n \in Nat /\ \A id \in 1..n : GraphNode(g[id])
  BY GraphFacts DEF IsGraph
<1>2. h = [id \in 1..n |-> IF id \in calls THEN after(g[id]) ELSE g[id]]
  BY <1>1 DEF TailCallElimination
<1>3. Len(h) = n
  BY TailCallsGraph
<1> HIDE DEF h
<1>4. Ids(h) = 1..n
  BY <1>3 DEF Ids
<1>5. \A m : GraphNode(m) => after(m).kind = "TailCall" /\ after(m).flags = m.flags
  BY DEF GraphNode
<1>6. TailCallElimination(h) = [id \in 1..n |-> IF id \in TailCalls(h) THEN after(h[id]) ELSE h[id]]
  BY <1>4 DEF TailCallElimination
<1> HIDE DEF after, calls
<1>7. \A id \in 1..n : h[id] = IF id \in calls THEN after(g[id]) ELSE g[id]
  BY <1>2
<1>8. TailCalls(h) = {}
  <2> SUFFICES ASSUME NEW id \in TailCalls(h) PROVE FALSE
    OBVIOUS
  <2>1. PICK ret \in OfKind(h, {"Return"}) : h[ret].in = <<id>> /\ h[ret].eff = id
    BY DEF TailCalls
  <2>2. id \in 1..n /\ h[id].kind \in {"Call", "CallVirt", "CallKnown"}
    BY <1>4 DEF TailCalls
  <2>3. ret \in 1..n /\ h[ret].kind = "Return" /\ ~Dead(h, ret)
    BY <1>4 DEF OfKind, Live
  <2>4. h[id] = g[id] /\ id \notin calls
    <3>1. id \in calls => h[id].kind = "TailCall"
      BY <1>1, <1>5, <1>7, <2>2
    <3> QED BY <1>7, <2>2, <3>1
  <2>5. h[ret] = g[ret]
    <3>1. ret \in calls => h[ret].kind = "TailCall"
      BY <1>1, <1>5, <1>7, <2>3
    <3> QED BY <1>7, <2>3, <3>1
  <2>6. ret \in OfKind(g, {"Return"})
    BY <1>1, <2>3, <2>5 DEF OfKind, Live, Dead, Has
  <2>7. id \in calls
    BY <1>1, <2>1, <2>2, <2>4, <2>5, <2>6 DEF TailCalls, calls
  <2> QED BY <2>4, <2>7
<1>9. [id \in 1..n |-> IF id \in TailCalls(h) THEN after(h[id]) ELSE h[id]] = [id \in 1..n |-> h[id]]
  BY <1>8
<1>10. h = [id \in 1..n |-> h[id]]
  BY <1>2
<1> QED BY <1>6, <1>9, <1>10 DEF h

-----------------------------------------------------------------------------
(* GVN and CSE.  A step leaves the nodes before its own as they are, so the     *)
(* second run builds the table of the first from the graph that the first left. *)

(* What a node decides: whether it is numbered, and whether it empties the      *)
(* table.                                                                       *)
Countable(pass, m) ==
  "IsDead" \notin m.flags /\ "Pure" \in m.flags /\ (pass = "CSE" => "Effect" \notin m.flags)
Empties(pass, m) == pass = "CSE" /\ "IsDead" \notin m.flags /\ "Effect" \in m.flags

LEMMA NumberingDecides ==
  ASSUME NEW pass \in {"GVN", "CSE"}, NEW s, NEW n \in Nat, IsAt(s, n), NEW id \in 1..n
  PROVE  FoldStep(pass, s, id)
         = IF Countable(pass, s.g[id]) THEN Deduplicate(s, id)
           ELSE IF Empties(pass, s.g[id]) THEN [s EXCEPT !.table = {}] ELSE s
<1>1. id \in Ids(s.g)
  BY DEF IsAt, Ids
<1>2. CASE pass = "GVN"
  <2>1. FoldStep(pass, s, id) = GvnStep(s, id)
    BY <1>2, FoldStepOf
  <2>2. id \in Pure(s.g) <=> Countable(pass, s.g[id])
    BY <1>1, <1>2 DEF Pure, Live, Dead, Has, Countable
  <2> QED BY <1>2, <2>1, <2>2 DEF GvnStep, Empties
<1>3. CASE pass = "CSE"
  <2>1. FoldStep(pass, s, id) = CseStep(s, id)
    BY <1>3, FoldStepOf
  <2> QED BY <1>3, <2>1 DEF CseStep, Dead, Has, Countable, Empties
<1> QED BY <1>2, <1>3

LEMMA SignatureOfNode ==
  ASSUME NEW g, NEW h, NEW id, h[id] = g[id]
  PROVE  Signature(h, id) = Signature(g, id)
BY DEF Signature

(* The table of a second run, in which the node is as the first run left it.    *)
LEMMA NumberedAgain ==
  ASSUME NEW pass \in {"GVN", "CSE"}, NEW s, NEW n \in Nat, IsAt(s, n), NEW id \in 1..n,
         NEW t, t = FoldStep(pass, s, id), NEW G, IsGraph(G), Len(G) = n, G[id] = t.g[id]
  PROVE  FoldStep(pass, [g |-> G, table |-> s.table], id) = [g |-> G, table |-> t.table]
<1> DEFINE u == [g |-> G, table |-> s.table]
           sig == Signature(s.g, id)
           same == {e \in s.table : e.sig = sig}
           kept == (CHOOSE e \in same : TRUE).id
           x == ReplaceAllUses(s.g, id, kept)
           h == MarkDead(x, id)
           more == s.table \cup {[sig |-> sig, id |-> id]}
           m == s.g[id]
<1>1. IsAt(u, n) /\ u.g = G /\ u.table = s.table
  BY DEF IsAt
<1>2. s = [g |-> s.g, table |-> s.table] /\ IsGraph(s.g) /\ Len(s.g) = n
  BY DEF IsAt
<1>3. t = IF Countable(pass, m) THEN Deduplicate(s, id)
          ELSE IF Empties(pass, m) THEN [s EXCEPT !.table = {}] ELSE s
  BY NumberingDecides
<1>4. FoldStep(pass, u, id) = IF Countable(pass, G[id]) THEN Deduplicate(u, id)
          ELSE IF Empties(pass, G[id]) THEN [u EXCEPT !.table = {}] ELSE u
  <2> HIDE DEF u
  <2> QED BY <1>1, NumberingDecides
<1>5. CASE ~Countable(pass, m) /\ Empties(pass, m)
  <2>1. t = [g |-> s.g, table |-> {}]
    <3> HIDE DEF m
    <3> QED BY <1>2, <1>3, <1>5
  <2>2. t.g = s.g /\ t.table = {}
    BY <2>1
  <2>3. G[id] = m
    BY <2>2
  <2> HIDE DEF m
  <2>4. FoldStep(pass, u, id) = [u EXCEPT !.table = {}]
    BY <1>4, <1>5, <2>3
  <2> QED BY <2>2, <2>4
<1>6. CASE ~Countable(pass, m) /\ ~Empties(pass, m)
  <2>1. t = s /\ G[id] = m
    BY <1>3, <1>6
  <2> HIDE DEF m
  <2> QED BY <1>4, <1>6, <2>1
<1>7. CASE Countable(pass, m) /\ same = {}
  <2>1. Deduplicate(s, id) = [s EXCEPT !.table = more]
    BY <1>7 DEF Deduplicate
  <2>2. t = [g |-> s.g, table |-> more]
    <3> HIDE DEF more, m
    <3> QED BY <1>2, <1>3, <1>7, <2>1
  <2>3. t.g = s.g /\ t.table = more
    BY <2>2
  <2>4. G[id] = m
    BY <2>3
  <2>5. Signature(u.g, id) = sig
    BY <1>1, <2>4, SignatureOfNode
  <2>6. Deduplicate(u, id) = [u EXCEPT !.table = more]
    BY <1>1, <1>7, <2>5 DEF Deduplicate
  <2> HIDE DEF m, more
  <2>7. FoldStep(pass, u, id) = [u EXCEPT !.table = more]
    BY <1>4, <1>7, <2>4, <2>6
  <2> QED BY <2>3, <2>7
<1>8. CASE Countable(pass, m) /\ same # {}
  <2>1. Deduplicate(s, id) = [s EXCEPT !.g = h]
    BY <1>8 DEF Deduplicate
  <2> HIDE DEF same, kept
  <2>2. t = [g |-> h, table |-> s.table]
    <3> HIDE DEF h, m
    <3> QED BY <1>2, <1>3, <1>8, <2>1
  <2>3. t.g = h /\ t.table = s.table
    BY <2>2
  <2>4. "IsDead" \in h[id].flags
    <3>1. IsGraph(x) /\ Len(x) = n
      BY <1>2, ReplaceGraph DEF Replaced
    <3>2. "IsDead" \in Flags
      BY DEF Flags
    <3> HIDE DEF x
    <3>3. Flagged(x, h, {id}, "IsDead")
      BY <3>1, <3>2, SetFlagMarks DEF MarkDead
    <3> QED BY <3>1, <3>3 DEF Flagged
  <2>5. "IsDead" \in G[id].flags
    BY <2>3, <2>4
  <2>6. ~Countable(pass, G[id]) /\ ~Empties(pass, G[id])
    BY <2>5 DEF Countable, Empties
  <2> HIDE DEF h
  <2> QED BY <1>4, <2>3, <2>6
<1> QED BY <1>5, <1>6, <1>7, <1>8

(* A node that has not an operand that moves is as it was.                      *)
LEMMA NumberedBefore ==
  ASSUME NEW pass \in {"GVN", "CSE"}, NEW s, NEW n \in Nat, NEW id \in 1..n, Numbered(s, n, id),
         NEW t, t = FoldStep(pass, s, id), NEW j \in 1..n, j < id
  PROVE  t.g[j] = s.g[j]
<1> DEFINE sig == Signature(s.g, id)
           same == {e \in s.table : e.sig = sig}
           kept == (CHOOSE e \in same : TRUE).id
           g == s.g
           x == ReplaceAllUses(g, id, kept)
           h == MarkDead(x, id)
           more == s.table \cup {[sig |-> sig, id |-> id]}
<1>1. IsAt(s, n) /\ Forward(g) /\ s = [g |-> s.g, table |-> s.table] /\ Len(g) = n
  BY DEF Numbered, IsAt
<1>2. t \in {Deduplicate(s, id), [s EXCEPT !.table = {}], s}
  BY <1>1, NumberingDecides
<1>3. [s EXCEPT !.table = {}].g = g
  BY <1>1
<1>4. Deduplicate(s, id) \in {[s EXCEPT !.table = more], [s EXCEPT !.g = h]}
  BY DEF Deduplicate
<1>5. [s EXCEPT !.table = more].g = g
  <2> HIDE DEF more
  <2> QED BY <1>1
<1>6. [s EXCEPT !.g = h].g = h
  <2> HIDE DEF h
  <2> QED BY <1>1
<1>7. j \in 1..n /\ j # id
  OBVIOUS
<1>8. x[j] = g[j]
  <2>1. j \in Ids(g) /\ ForwardNode(g, j)
    BY <1>1, <1>7 DEF Ids, Forward
  <2>2. x[j] = IF Dead(g, j) THEN g[j]
               ELSE [g[j] EXCEPT !.in = [k \in DOMAIN @ |-> IF @[k] = id THEN kept ELSE @[k]]]
    <3> HIDE DEF kept
    <3> QED BY <2>1 DEF ReplaceAllUses
  <2> HIDE DEF kept, x
  <2>3. CASE ~Dead(g, j)
    <3> DEFINE m == g[j]
               in == m.in
    <3>1. GraphNode(m) /\ in \in Seq(Nat)
      BY <1>1, <1>7, <2>1 DEF Forward, IsGraph, ForwardNode
    <3>2. \A k \in 1..Len(in) : in[k] # id
      BY <2>1, <2>3 DEF ForwardNode, Usable
    <3>3. x[j] = [m EXCEPT !.in = [k \in DOMAIN @ |-> IF @[k] = id THEN kept ELSE @[k]]]
      BY <2>2, <2>3
    <3>4. [k \in DOMAIN in |-> IF in[k] = id THEN kept ELSE in[k]] = in
      <4> HIDE DEF in
      <4> QED BY <3>1, <3>2
    <3> HIDE DEF m
    <3>5. x[j] = [m EXCEPT !.in = in]
      BY <3>3, <3>4
    <3>6. [m EXCEPT !.in = m.in] = m
      BY <3>1 DEF GraphNode
    <3> QED BY <3>5, <3>6 DEF m
  <2> QED BY <2>2, <2>3
<1>9. h[j] = x[j]
  <2>1. IsGraph(x) /\ Len(x) = n
    BY <1>1, ReplaceGraph DEF Replaced, Forward
  <2>2. "IsDead" \in Flags
    BY DEF Flags
  <2> HIDE DEF x
  <2>3. Flagged(x, h, {id}, "IsDead")
    BY <2>1, <2>2, SetFlagMarks DEF MarkDead
  <2> QED BY <1>7, <2>1, <2>3 DEF Flagged
<1> HIDE DEF h, x, g, more
<1>10. t.g[j] = g[j]
  BY <1>2, <1>3, <1>4, <1>5, <1>6, <1>8, <1>9 DEF g
<1> QED BY <1>10 DEF g

SameBefore(s, t, id) == \A j \in Nat \ {0} : j < id => t.g[j] = s.g[j]

LEMMA NumberedBefores ==
  ASSUME NEW pass \in {"GVN", "CSE"}, NEW n \in Nat, NEW id \in 1..n, NEW s, Numbered(s, n, id)
  PROVE  SameBefore(s, FoldStep(pass, s, id), id)
<1> DEFINE t == FoldStep(pass, s, id)
<1> SUFFICES ASSUME NEW j \in Nat \ {0}, j < id PROVE t.g[j] = s.g[j]
  BY DEF SameBefore
<1>1. j \in 1..n /\ t = FoldStep(pass, s, id)
  OBVIOUS
<1> HIDE DEF t
<1> QED BY <1>1, NumberedBefore

(* A node is as the step that came to it left it.                               *)
LEMMA NumberedStays ==
  ASSUME NEW pass \in {"GVN", "CSE"}, NEW n \in Nat, NEW f,
         \A k \in 1..n : Numbered(f[k - 1], n, k) /\ f[k] = FoldStep(pass, f[k - 1], k),
         NEW j \in 1..n
  PROVE  f[n].g[j] = f[j].g[j]
<1>0. ASSUME NEW k \in 1..n, j < k PROVE f[k].g[j] = f[k - 1].g[j]
  <2>1. Numbered(f[k - 1], n, k) /\ f[k] = FoldStep(pass, f[k - 1], k)
    OBVIOUS
  <2>2. SameBefore(f[k - 1], f[k], k)
    BY <2>1, NumberedBefores
  <2> QED BY <1>0, <2>2 DEF SameBefore
<1> DEFINE T == {k \in Nat : k \in j..n => f[k].g[j] = f[j].g[j]}
<1>1. 0 \in T
  OBVIOUS
<1>2. ASSUME NEW k \in 0..n - 1, k \in T PROVE k + 1 \in T
  <2> DEFINE m == k + 1
  <2>1. m \in 1..n /\ m - 1 = k /\ m \in Nat /\ (m \in j..n => m = j \/ (k \in j..n /\ j < m))
    OBVIOUS
  <2> HIDE DEF m
  <2>2. CASE m \in j..n /\ m # j
    <3>1. f[m].g[j] = f[k].g[j]
      BY <1>0, <2>1, <2>2
    <3> QED BY <1>2, <2>1, <2>2, <3>1 DEF m
  <2>3. CASE m \notin j..n \/ m = j
    BY <2>1, <2>3 DEF m
  <2> QED BY <2>2, <2>3
<1>3. 0..n \subseteq T
  <2> HIDE DEF T
  <2> QED BY <1>1, <1>2, PrefixInduction
<1> QED BY <1>3

LEMMA NumberingTwice ==
  ASSUME NEW g, Forward(g), NEW n \in Nat, n = Len(g), NEW pass \in {"GVN", "CSE"},
         NEW f, Steps(f, pass, NoTable(g), Ascending(g)), NEW G, G = f[n].g,
         NEW h, Steps(h, pass, NoTable(G), Ascending(G))
  PROVE  h[n].g = G
<1> DEFINE q == Ascending(g)
<1>1. \A k \in 0..n : Numbered(f[k], n, k + 1)
  BY NumberingReaches
<1>2. \A k \in 0..n : IsAt(f[k], n)
  BY <1>1 DEF Numbered
<1>3. IsGraph(G) /\ Len(G) = n
  <2>1. IsAt(f[n], n)
    BY <1>2
  <2> QED BY <2>1 DEF IsAt
<1>4. /\ Len(q) = n /\ \A k \in 1..n : q[k] = k
      /\ Len(Ascending(G)) = n /\ \A k \in 1..n : Ascending(G)[k] = k
  BY <1>3, AscendingFacts
<1>5. /\ f[0] = NoTable(g) /\ \A k \in 1..n : f[k] = FoldStep(pass, f[k - 1], k)
      /\ h[0] = NoTable(G) /\ \A k \in 1..n : h[k] = FoldStep(pass, h[k - 1], k)
  BY <1>4 DEF Steps
<1> HIDE DEF q
<1>6. ASSUME NEW j \in 1..n PROVE f[n].g[j] = f[j].g[j]
  <2>1. \A k \in 1..n : k - 1 \in 0..n /\ k - 1 + 1 = k
    OBVIOUS
  <2>2. \A k \in 1..n : Numbered(f[k - 1], n, k) /\ f[k] = FoldStep(pass, f[k - 1], k)
    BY <1>1, <1>5, <2>1
  <2> QED BY <2>2, NumberedStays
<1> DEFINE S == {k \in Nat : k \in 0..n => h[k] = [g |-> G, table |-> f[k].table]}
<1>7. 0 \in S
  <2>1. f[0].table = {} /\ h[0] = [g |-> G, table |-> {}]
    BY <1>5 DEF NoTable
  <2> QED BY <2>1
<1>8. ASSUME NEW k \in 0..n - 1, k \in S PROVE k + 1 \in S
  <2> DEFINE m == k + 1
  <2>1. m \in 1..n /\ m - 1 = k /\ m \in Nat /\ k \in 0..n
    OBVIOUS
  <2> HIDE DEF m
  <2>2. /\ f[m] = FoldStep(pass, f[k], m) /\ h[m] = FoldStep(pass, h[k], m)
        /\ h[k] = [g |-> G, table |-> f[k].table] /\ IsAt(f[k], n) /\ G[m] = f[m].g[m]
    BY <1>2, <1>5, <1>6, <1>8, <2>1
  <2>3. h[m] = [g |-> G, table |-> f[m].table]
    BY <1>3, <2>1, <2>2, NumberedAgain
  <2> QED BY <2>1, <2>3 DEF m
<1>9. 0..n \subseteq S
  <2> HIDE DEF S
  <2> QED BY <1>7, <1>8, PrefixInduction
<1>10. h[n] = [g |-> G, table |-> f[n].table]
  BY <1>9
<1> QED BY <1>10

LEMMA NumberingsTwice ==
  ASSUME NEW g, Forward(g)
  PROVE  GVN(GVN(g)) = GVN(g) /\ CSE(CSE(g)) = CSE(g)
<1> DEFINE n == Len(g)
<1>1. n \in Nat /\ IsGraph(g)
  BY GraphFacts DEF Forward
<1>2. Len(GVN(g)) = n /\ Len(CSE(g)) = n
  BY <1>1, NumberingGraph
<1>3. PICK f : Steps(f, "GVN", NoTable(g), Ascending(g)) /\ f[n].g = GVN(g)
  BY <1>1, GvnSteps
<1>4. PICK h : Steps(h, "GVN", NoTable(GVN(g)), Ascending(GVN(g))) /\ h[n].g = GVN(GVN(g))
  BY <1>1, <1>2, GvnSteps
<1>5. PICK p : Steps(p, "CSE", NoTable(g), Ascending(g)) /\ p[n].g = CSE(g)
  BY <1>1, CseSteps
<1>6. PICK r : Steps(r, "CSE", NoTable(CSE(g)), Ascending(CSE(g))) /\ r[n].g = CSE(CSE(g))
  BY <1>1, <1>2, CseSteps
<1>7. h[n].g = GVN(g)
  BY <1>1, <1>3, <1>4, NumberingTwice
<1>8. r[n].g = CSE(g)
  BY <1>1, <1>5, <1>6, NumberingTwice
<1> QED BY <1>4, <1>6, <1>7, <1>8

(* DeadCodeElimination: a round that removes something leaves fewer live nodes, *)
(* so after as many rounds as there are nodes there is nothing left to remove.  *)
Swept(h, n, k) ==
  IsGraph(h) /\ Len(h) = n /\ (Removable(h) = {} \/ Cardinality(Live(h)) + k <= n)

LEMMA LiveNodes ==
  ASSUME NEW g, Len(g) \in Nat
  PROVE  IsFiniteSet(Live(g)) /\ Cardinality(Live(g)) \in Nat /\ Cardinality(Live(g)) <= Len(g)
<1> DEFINE n == Len(g)
<1>1. IsFiniteSet(1..n) /\ Cardinality(1..n) = n
  BY FS_Interval
<1>2. Live(g) \in SUBSET (1..n)
  BY DEF Live, Ids
<1> HIDE DEF n
<1>3. IsFiniteSet(Live(g)) /\ Cardinality(Live(g)) <= n
  BY <1>1, <1>2, FS_Subset
<1>4. Cardinality(Live(g)) \in Nat
  BY <1>3, FS_CardinalityType
<1> QED BY <1>3, <1>4 DEF n

LEMMA SweepShrinks ==
  ASSUME NEW h, IsGraph(h), Removable(h) # {}
  PROVE  /\ IsGraph(SweepStep(h)) /\ Len(SweepStep(h)) = Len(h)
         /\ Cardinality(Live(SweepStep(h))) < Cardinality(Live(h))
<1> DEFINE x == SweepStep(h)
<1>1. Flagged(h, x, Removable(h), "IsDead")
  <2>1. "IsDead" \in Flags
    BY DEF Flags
  <2> QED BY <2>1, SetFlagMarks DEF SweepStep
<1> HIDE DEF x
<1>2. IsGraph(x) /\ Len(x) = Len(h) /\ Len(h) \in Nat
  BY <1>1, GraphFacts DEF Flagged
<1>3. Live(x) \subseteq Live(h)
  BY <1>1, <1>2 DEF Flagged, Live, Ids, Dead, Has
<1>4. PICK id \in Removable(h) : TRUE
  OBVIOUS
<1>5. id \in Live(h) /\ id \notin Live(x)
  <2>1. id \in Live(h) /\ id \in 1..Len(h)
    BY DEF Removable, Live, Ids
  <2>2. "IsDead" \in x[id].flags
    BY <1>1, <2>1 DEF Flagged
  <2> QED BY <2>1, <2>2 DEF Live, Dead, Has
<1>6. IsFiniteSet(Live(h)) /\ Cardinality(Live(h)) \in Nat /\ Cardinality(Live(x)) \in Nat
  BY <1>2, LiveNodes
<1>7. Cardinality(Live(x)) <= Cardinality(Live(h)) /\ (Cardinality(Live(h)) = Cardinality(Live(x)) => Live(h) = Live(x))
  BY <1>3, <1>6, FS_Subset
<1>8. Cardinality(Live(x)) # Cardinality(Live(h))
  BY <1>5, <1>7
<1> QED BY <1>2, <1>6, <1>7, <1>8 DEF x

LEMMA SweptStep ==
  ASSUME NEW h, NEW n \in Nat, NEW k \in Nat, Swept(h, n, k)
  PROVE  Swept(SweepStep(h), n, k + 1)
<1>1. CASE Removable(h) = {}
  BY <1>1 DEF SweepStep, Swept
<1>2. CASE Removable(h) # {}
  <2> DEFINE x == SweepStep(h)
             a == Cardinality(Live(h))
             b == Cardinality(Live(x))
  <2>1. IsGraph(h) /\ Len(h) = n /\ a + k <= n
    BY <1>2 DEF Swept
  <2>2. IsGraph(x) /\ Len(x) = n /\ b < a
    BY <1>2, <2>1, SweepShrinks
  <2>3. a \in Nat /\ b \in Nat
    BY <2>1, <2>2, LiveNodes
  <2> HIDE DEF x, a, b
  <2>4. b + (k + 1) <= n
    BY <2>1, <2>2, <2>3
  <2>5. Cardinality(Live(x)) + (k + 1) <= n
    BY <2>4 DEF b
  <2> QED BY <2>2, <2>5 DEF Swept, x
<1> QED BY <1>1, <1>2

LEMMA SweptClean ==
  ASSUME NEW h, NEW n \in Nat, Swept(h, n, n)
  PROVE  Removable(h) = {} /\ SweepStep(h) = h
<1>1. Removable(h) = {}
  <2> SUFFICES ASSUME Removable(h) # {} PROVE FALSE
    OBVIOUS
  <2>1. IsGraph(h) /\ Len(h) = n /\ Cardinality(Live(h)) + n <= n
    BY DEF Swept
  <2>2. IsFiniteSet(Live(h)) /\ Cardinality(Live(h)) \in Nat
    BY <2>1, LiveNodes
  <2>3. Cardinality(Live(h)) = 0
    BY <2>1, <2>2
  <2>4. Live(h) = {}
    BY <2>2, <2>3, FS_EmptySet
  <2> QED BY <2>4 DEF Removable
<1> QED BY <1>1 DEF SweepStep

LEMMA SweepsTwice ==
  ASSUME NEW g, IsGraph(g)
  PROVE  DeadCodeElimination(DeadCodeElimination(g)) = DeadCodeElimination(g)
<1> DEFINE n == Len(g)
           q == Ascending(g)
           h == DeadCodeElimination(g)
           r == Ascending(h)
<1>1. n \in Nat /\ Len(q) = n /\ IsGraph(h) /\ Len(h) = n /\ Len(r) = n
  BY GraphFacts, AscendingFacts, SweepsGraph
<1>2. PICK f : Steps(f, "DeadCodeElimination", g, q) /\ f[n] = h
  BY <1>1, SweepSteps
<1>3. PICK p : Steps(p, "DeadCodeElimination", h, r) /\ p[n] = DeadCodeElimination(h)
  BY <1>1, SweepSteps
<1>4. Swept(g, n, 0)
  BY <1>1, LiveNodes DEF Swept
<1> HIDE DEF q, r, h, n
<1>5. /\ f[0] = g /\ \A k \in 1..n : f[k] = SweepStep(f[k - 1])
      /\ p[0] = h /\ \A k \in 1..n : p[k] = SweepStep(p[k - 1])
  BY <1>1, <1>2, <1>3, FoldStepOf DEF Steps
<1> DEFINE T == {k \in Nat : k \in 0..n => Swept(f[k], n, k)}
<1>6. 0 \in T
  BY <1>4, <1>5
<1>7. ASSUME NEW k \in 0..n - 1, k \in T PROVE k + 1 \in T
  <2>1. k + 1 \in 1..n /\ (k + 1) - 1 = k /\ k \in Nat /\ k \in 0..n
    BY <1>1
  <2>2. f[k + 1] = SweepStep(f[k]) /\ Swept(f[k], n, k)
    BY <1>5, <1>7, <2>1
  <2>3. Swept(SweepStep(f[k]), n, k + 1)
    BY <1>1, <2>1, <2>2, SweptStep
  <2> QED BY <2>1, <2>2, <2>3
<1>8. 0..n \subseteq T
  <2> HIDE DEF T
  <2> QED BY <1>1, <1>6, <1>7, PrefixInduction
<1>9. Swept(h, n, n)
  BY <1>1, <1>2, <1>8
<1>10. SweepStep(h) = h
  BY <1>1, <1>9, SweptClean
<1> DEFINE S == {k \in Nat : k \in 0..n => p[k] = h}
<1>11. 0 \in S
  BY <1>5
<1>12. ASSUME NEW k \in 0..n - 1, k \in S PROVE k + 1 \in S
  <2>1. k + 1 \in 1..n /\ (k + 1) - 1 = k /\ k \in 0..n
    BY <1>1
  <2> QED BY <1>5, <1>10, <1>12, <2>1
<1>13. 0..n \subseteq S
  <2> HIDE DEF S
  <2> QED BY <1>1, <1>11, <1>12, PrefixInduction
<1>14. p[n] = h
  BY <1>1, <1>13
<1> QED BY <1>3, <1>14 DEF h

(* ICStubEmission: each stub is a guard without a frame state, so the graph is  *)
(* either as it was or one that the verifier does not take.                     *)
LEMMA StubUnguarded ==
  ASSUME NEW h, IsGraph(h), NEW id \in 1..Len(h)
  PROVE  /\ IsGraph(StubStep(h, id)) /\ Len(StubStep(h, id)) = Len(h) + 1
         /\ ~Verified(StubStep(h, id))
<1> DEFINE x == StubStep(h, id)
           check == NewNode("CheckClass", <<h[id].in[1]>>, h[id].ctrl, h[id].eff)
           e == Len(h) + 1
<1>1. IsGraph(x) /\ Len(x) = e /\ x[e] = check
  BY StubGraph
<1>2. check.flags = KindFlags("CheckClass") /\ check.state = FALSE
  BY DEF NewNode
<1>3. "IsGuard" \in KindFlags("CheckClass")
  BY DEF KindFlags, GuardKinds, Checks
<1>4. e \in 1..e
  BY GraphFacts
<1> HIDE DEF x, check, e
<1>5. e \in GuardsWithoutState(x)
  BY <1>1, <1>2, <1>3, <1>4 DEF GuardsWithoutState, Ids, Has
<1>6. ~Verified(x)
  BY <1>5 DEF Verified
<1> QED BY <1>1, <1>6 DEF x, e

LEMMA StubsTwice ==
  ASSUME NEW g, IsGraph(g), ICStubEmission(g) # g
  PROVE  ~Verified(ICStubEmission(g))
<1> DEFINE n == Len(g)
           q == InOrder(Checked(g), n)
           m == Len(q)
<1>1. n \in Nat
  BY GraphFacts
<1>2. m \in Nat /\ DOMAIN q = 1..m /\ \A k \in 1..m : q[k] \in 1..n
  <2>1. q \in Seq(Checked(g) \cap (1..n))
    BY <1>1, InOrderEnumerates DEF Enumerates
  <2> HIDE DEF q
  <2> QED BY <2>1
<1>3. PICK f : Steps(f, "ICStubEmission", g, q) /\ f[m] = ICStubEmission(g)
  BY <1>2, StubSteps
<1> HIDE DEF q, n, m
<1>4. f[0] = g /\ \A k \in 1..m : f[k] = StubStep(f[k - 1], q[k])
  BY <1>3, FoldStepOf DEF Steps, m
<1> DEFINE T == {k \in Nat : k \in 0..m => /\ IsGraph(f[k]) /\ Len(f[k]) \in Nat /\ Len(f[k]) >= n
                                           /\ (k > 0 => ~Verified(f[k]))}
<1>5. 0 \in T
  BY <1>1, <1>4 DEF n
<1>6. ASSUME NEW k \in 0..m - 1, k \in T PROVE k + 1 \in T
  <2> DEFINE b == f[k]
             x == f[k + 1]
             id == q[k + 1]
             l == Len(b)
  <2>1. k + 1 \in 1..m /\ (k + 1) - 1 = k /\ k \in 0..m
    BY <1>2
  <2>2. x = StubStep(b, id) /\ id \in 1..n /\ IsGraph(b) /\ l \in Nat /\ l >= n
    BY <1>2, <1>4, <1>6, <2>1
  <2> HIDE DEF x, b, id
  <2>3. id \in 1..Len(b)
    BY <1>1, <2>2
  <2>4. IsGraph(x) /\ Len(x) = l + 1 /\ ~Verified(x)
    BY <2>2, <2>3, StubUnguarded
  <2>5. Len(x) \in Nat /\ Len(x) >= n
    BY <1>1, <2>2, <2>4
  <2> QED BY <2>1, <2>4, <2>5 DEF x
<1>7. 0..m \subseteq T
  <2> HIDE DEF T
  <2> QED BY <1>2, <1>5, <1>6, PrefixInduction
<1>8. m # 0
  BY <1>3, <1>4
<1>9. m \in 0..m /\ m > 0
  BY <1>2, <1>8
<1>10. ~Verified(f[m])
  BY <1>7, <1>9
<1> QED BY <1>3, <1>10

(* EscapeAnalysis: an allocation is an effect, so a graph of which one goes is  *)
(* not taken either.                                                            *)
LEMMA DeadStays ==
  ASSUME NEW h, IsGraph(h), NEW id, NEW x \in 1..Len(h)
  PROVE  /\ Dead(h, x) => Dead(MarkDead(h, id), x)
         /\ x = id => Dead(MarkDead(h, id), x)
<1>1. "IsDead" \in Flags
  BY DEF Flags
<1>2. Flagged(h, MarkDead(h, id), {id}, "IsDead")
  BY <1>1, SetFlagMarks DEF MarkDead
<1> QED BY <1>2 DEF Flagged, Dead, Has

LEMMA EscapeKills ==
  ASSUME NEW g, IsGraph(g), EscapeAnalysis(g) # g
  PROVE  \E x \in OfKind(g, AllocationKinds) : Dead(EscapeAnalysis(g), x)
<1> DEFINE n == Len(g)
           A == OfKind(g, AllocationKinds)
           q == InOrder(A, n)
           m == Len(q)
           Kills(h) == IsGraph(h) /\ Len(h) = n /\ (h = g \/ \E x \in A : Dead(h, x))
<1>1. n \in Nat
  BY GraphFacts
<1>2. m \in Nat /\ DOMAIN q = 1..m /\ \A k \in 1..m : q[k] \in A
  <2>1. q \in Seq(A \cap (1..n))
    BY <1>1, InOrderEnumerates DEF Enumerates
  <2> HIDE DEF q, A
  <2> QED BY <2>1
<1>3. PICK f : Steps(f, "EscapeAnalysis", g, q) /\ f[m] = EscapeAnalysis(g)
  BY <1>2, EscapeSteps
<1>4. A \subseteq 1..n
  BY DEF OfKind, Live, Ids
<1> DEFINE T == {f[k] : k \in {k \in 0..m : Kills(f[k])}}
<1> HIDE DEF q, n, m, A
<1>5. g \in T
  BY <1>2, <1>3 DEF Steps, n
<1>6. ASSUME NEW h, Kills(h), NEW id \in A PROVE Kills(MarkDead(h, id))
  <2>1. IsGraph(MarkDead(h, id)) /\ Len(MarkDead(h, id)) = n
    BY <1>6, MarkDeadGraph
  <2>2. Dead(MarkDead(h, id), id)
    BY <1>4, <1>6, DeadStays
  <2> QED BY <2>1, <2>2
<1>7. ASSUME NEW k \in 1..m, f[k - 1] \in T PROVE FoldStep("EscapeAnalysis", f[k - 1], q[k]) \in T
  <2>1. Kills(f[k - 1]) /\ k \in 0..m /\ q[k] \in A
    BY <1>2, <1>7
  <2>2. f[k] = EscapeStep(f[k - 1], q[k])
    BY <1>3, FoldStepOf DEF Steps, m
  <2>3. Kills(f[k])
    <3> HIDE DEF Kills
    <3> QED BY <1>6, <2>1, <2>2 DEF EscapeStep
  <2>4. f[k] = FoldStep("EscapeAnalysis", f[k - 1], q[k])
    BY <2>2, FoldStepOf
  <2> QED BY <2>1, <2>3, <2>4
<1>8. f[m] \in T
  <2> HIDE DEF T
  <2> QED BY <1>2, <1>3, <1>5, <1>7, StepsKeep DEF m
<1> QED BY <1>3, <1>8 DEF A

LEMMA AllocationsAreEffects ==
  ASSUME NEW kind \in AllocationKinds
  PROVE  "Effect" \in KindFlags(kind) /\ kind # "CheckClass"
BY DEF AllocationKinds, KindFlags, EffectKinds

LEMMA EscapeTwice ==
  ASSUME NEW src, ShapedGraph(src), NEW V, NEW g, IsGraph(g), Agrees(src, EscapeAnalysis(g), V),
         EscapeAnalysis(g) # g
  PROVE  ~Verified(EscapeAnalysis(g))
<1> DEFINE h == EscapeAnalysis(g)
<1>1. PICK x \in OfKind(g, AllocationKinds) : Dead(h, x)
  BY EscapeKills
<1>2. KeepsAll(g, h)
  BY EscapeKeeps
<1> HIDE DEF h
<1>3. Len(h) = Len(g) /\ Len(g) \in Nat /\ Len(src) \in Nat /\ IsGraph(h) /\ Agrees(src, h, V)
  BY <1>2, GraphFacts, LenProperties DEF KeepsAll, ShapedGraph, LoweredGraph, h
<1>4. x \in 1..Len(h) /\ h[x].kind \in AllocationKinds
  <2>1. x \in 1..Len(g) /\ g[x].kind \in AllocationKinds
    BY DEF OfKind, Live, Ids
  <2> QED BY <1>2, <1>3, <2>1 DEF KeepsAll, Keeps
<1>5. x \in 1..Len(src)
  <2> SUFFICES ASSUME x \notin 1..Len(src) PROVE FALSE
    OBVIOUS
  <2>1. x \in Len(src) + 1..Len(h)
    BY <1>3, <1>4
  <2>2. Added(h[x])
    BY <1>3, <2>1 DEF Agrees
  <2> QED BY <1>4, <2>2, AllocationsAreEffects DEF Added
<1>6. Has(src, x, "Effect")
  <2>1. Kindred(src[x], h[x], V) /\ Shaped(src[x])
    BY <1>3, <1>5 DEF Agrees, ShapedGraph
  <2>2. h[x].kind # "TailCall"
    BY <1>4 DEF AllocationKinds
  <2>3. src[x].kind = h[x].kind
    BY <2>1, <2>2 DEF Kindred
  <2>4. "Effect" \in KindFlags(src[x].kind)
    BY <1>4, <2>3, AllocationsAreEffects
  <2> QED BY <2>1, <2>4 DEF Shaped, Has
<1>7. ASSUME Verified(h) PROVE FALSE
  BY <1>1, <1>3, <1>5, <1>6, <1>7, EffectsLive
<1> QED BY <1>7 DEF h

(* The form of the source is kept, whatever its nodes compute: to this end the  *)
(* value of every node is taken to be the same.                                 *)
NoValues == [x \in Nat |-> 0]

LEMMA NumberingKeepsForm ==
  ASSUME NEW src, ShapedGraph(src), NEW s, NEW n \in Nat, NEW id \in 1..n, Numbered(s, n, id),
         Agrees(src, s.g, NoValues), NEW pass \in {"GVN", "CSE"}, NEW t, t = FoldStep(pass, s, id)
  PROVE  Agrees(src, t.g, NoValues)
<1> DEFINE sig == Signature(s.g, id)
           same == {e \in s.table : e.sig = sig}
           kept == (CHOOSE e \in same : TRUE).id
           h == MarkDead(ReplaceAllUses(s.g, id, kept), id)
           more == s.table \cup {[sig |-> sig, id |-> id]}
<1>1. IsAt(s, n) /\ s = [g |-> s.g, table |-> s.table] /\ IsGraph(s.g) /\ Len(s.g) = n
  BY DEF Numbered, IsAt
<1>2. t = IF Countable(pass, s.g[id]) THEN Deduplicate(s, id)
          ELSE IF Empties(pass, s.g[id]) THEN [s EXCEPT !.table = {}] ELSE s
  BY <1>1, NumberingDecides
<1>3. [s EXCEPT !.table = {}].g = s.g
  BY <1>1
<1>4. CASE ~Countable(pass, s.g[id])
  BY <1>2, <1>3, <1>4
<1>5. CASE Countable(pass, s.g[id]) /\ same = {}
  <2>1. t = [s EXCEPT !.table = more]
    BY <1>2, <1>5 DEF Deduplicate
  <2>2. [s EXCEPT !.table = more].g = s.g
    <3> HIDE DEF more
    <3> QED BY <1>1
  <2> QED BY <2>1, <2>2
<1>6. CASE Countable(pass, s.g[id]) /\ same # {}
  <2>1. t = [s EXCEPT !.g = h]
    BY <1>2, <1>6 DEF Deduplicate
  <2>2. [s EXCEPT !.g = h].g = h
    <3> HIDE DEF h
    <3> QED BY <1>1
  <2>3. NoValues[id] = NoValues[kept]
    <3>1. \A e \in same : e.id \in Nat
      BY DEF Numbered
    <3>2. kept \in Nat /\ id \in Nat
      BY <1>6, <3>1
    <3> HIDE DEF kept
    <3> QED BY <3>2 DEF NoValues
  <2>4. id \in 1..Len(s.g) /\ Has(s.g, id, "Pure")
    BY <1>1, <1>6 DEF Countable, Has
  <2> HIDE DEF kept, same
  <2>5. Agrees(src, h, NoValues)
    BY <1>1, <2>3, <2>4, MergedAgrees
  <2> QED BY <2>1, <2>2, <2>5
<1> QED BY <1>4, <1>5, <1>6

LEMMA NumberingsKeepForm ==
  ASSUME NEW src, ShapedGraph(src), NEW g, Forward(g), NEW n \in Nat, n = Len(g),
         Agrees(src, g, NoValues), NEW pass \in {"GVN", "CSE"},
         NEW f, Steps(f, pass, NoTable(g), Ascending(g))
  PROVE  Agrees(src, f[n].g, NoValues)
<1>1. \A k \in 0..n : Numbered(f[k], n, k + 1)
  BY NumberingReaches
<1>2. Len(Ascending(g)) = n /\ \A k \in 1..n : Ascending(g)[k] = k
  BY AscendingFacts
<1>3. f[0] = NoTable(g) /\ \A k \in 1..n : f[k] = FoldStep(pass, f[k - 1], k)
  BY <1>2 DEF Steps
<1> DEFINE T == {k \in Nat : k \in 0..n => Agrees(src, f[k].g, NoValues)}
<1>4. 0 \in T
  BY <1>3 DEF NoTable
<1>5. ASSUME NEW k \in 0..n - 1, k \in T PROVE k + 1 \in T
  <2> DEFINE m == k + 1
             s == f[k]
             t == f[m]
  <2>1. m \in 1..n /\ m - 1 = k /\ k \in 0..n
    OBVIOUS
  <2>2. Numbered(s, n, m) /\ Agrees(src, s.g, NoValues) /\ t = FoldStep(pass, s, m)
    BY <1>1, <1>3, <1>5, <2>1
  <2> HIDE DEF m, s, t
  <2>3. Agrees(src, t.g, NoValues)
    BY <2>1, <2>2, NumberingKeepsForm
  <2> QED BY <2>1, <2>3 DEF m, t
<1>6. 0..n \subseteq T
  <2> HIDE DEF T
  <2> QED BY <1>4, <1>5, PrefixInduction
<1> QED BY <1>6

LEMMA RubyKeepsForm ==
  ASSUME NEW src, ShapedGraph(src), NEW g, Forward(g), Agrees(src, g, NoValues),
         NEW pass \in {RubyPipeline[k] : k \in 1..Len(RubyPipeline)}
  PROVE  Agrees(src, Run(pass, g), NoValues)
<1>1. IsGraph(g) /\ Len(g) \in Nat
  BY GraphFacts DEF Forward
<1>2. Agrees(src, GVN(g), NoValues)
  <2>1. PICK f : Steps(f, "GVN", NoTable(g), Ascending(g)) /\ f[Len(g)].g = GVN(g)
    BY <1>1, GvnSteps
  <2>2. Agrees(src, f[Len(g)].g, NoValues)
    BY <1>1, <2>1, NumberingsKeepForm
  <2> QED BY <2>1, <2>2
<1>3. Agrees(src, CSE(g), NoValues)
  <2>1. PICK f : Steps(f, "CSE", NoTable(g), Ascending(g)) /\ f[Len(g)].g = CSE(g)
    BY <1>1, CseSteps
  <2>2. Agrees(src, f[Len(g)].g, NoValues)
    BY <1>1, <2>1, NumberingsKeepForm
  <2> QED BY <2>1, <2>2
<1>4. /\ pass = "CSE" => Run(pass, g) = CSE(g)
      /\ pass = "GVN" => Run(pass, g) = GVN(g)
  BY DEF Run
<1>5. pass \notin {"CSE", "GVN"} => Agrees(src, Run(pass, g), NoValues)
  BY <1>1, PlainPassesAgree
<1> QED BY <1>2, <1>3, <1>4, <1>5

(* All nineteen.  The two passes of which a second run may do more are those    *)
(* that take nodes off the chain of effects, or add them.                       *)
Repeatable(pass) == pass \notin {"EscapeAnalysis", "ICStubEmission"}

(* What constant folding and SCCP rely on.                                      *)
LEMMA ConstantsStay ==
  ASSUME NEW src, ShapedGraph(src), NEW g, Len(g) \in Nat, NEW V, Agrees(src, g, V),
         NEW id \in 1..Len(g), g[id].kind \in ConstKinds
  PROVE  Has(g, id, "IsConst")
<1>1. Len(src) \in Nat
  BY LenProperties DEF ShapedGraph, LoweredGraph
<1>2. id \in 1..Len(src)
  <2> SUFFICES ASSUME id \notin 1..Len(src) PROVE FALSE
    OBVIOUS
  <2>1. id \in Len(src) + 1..Len(g)
    BY <1>1
  <2> QED BY <2>1 DEF Agrees, Added, ConstKinds
<1>3. Kindred(src[id], g[id], V) /\ Shaped(src[id])
  BY <1>2 DEF Agrees, ShapedGraph
<1>4. src[id].kind \in ConstKinds
  BY <1>3 DEF Kindred, ConstKinds
<1> QED BY <1>3, <1>4 DEF Shaped, Kindred, Has

LEMMA KeptTwoBefore ==
  ASSUME NEW src, ShapedGraph(src), NEW g, KeepsAll(src, g)
  PROVE  TwoBefore(g)
<1> SUFFICES ASSUME NEW id \in 1..Len(g), g[id].kind \in BinaryKinds
             PROVE  /\ Len(g[id].in) = 2
                    /\ g[id].in[1] \in 1..id - 1 /\ g[id].in[2] \in 1..id - 1
  BY DEF TwoBefore
<1>1. id \in 1..Len(src) /\ g[id].kind = src[id].kind /\ g[id].in = src[id].in
  BY DEF KeepsAll, Keeps
<1>2. Len(src[id].in) = 2 /\ \A k \in 1..Len(src[id].in) : src[id].in[k] \in 1..id - 1
  BY <1>1 DEF ShapedGraph, Shaped, LoweredGraph, LoweredNode
<1> QED BY <1>1, <1>2

LEMMA PassTwice ==
  ASSUME NEW src, ShapedGraph(src), NEW g, Forward(g), Agrees(src, g, NoValues),
         NEW k \in 1..Len(RubyPipeline), k = 3 => TwoBefore(g),
         NEW pass, pass = RubyPipeline[k], NEW h, h = Run(pass, g),
         Repeatable(pass) \/ (Verifies(pass, g, h) => Verified(h))
  PROVE  Run(pass, h) = h
<1> DEFINE Others == {"AlgebraicSimplification", "SCCP", "Peephole", "CSE", "GVN", "Inlining", "TailCallElimination",
                      "DeadCodeElimination"}
<1>1. pass \in FlagPasses \cup Others \cup {"ConstantFolding", "EscapeAnalysis", "ICStubEmission"}
  BY DEF RubyPipeline, FlagPasses
<1>2. IsGraph(g)
  BY DEF Forward
<1>3. CASE pass \in FlagPasses
  BY <1>2, <1>3, FlagPassTwice
<1>4. CASE pass = "ConstantFolding"
  <2>1. k = 3
    <3>1. \A i \in DOMAIN RubyPipeline : RubyPipeline[i] = "ConstantFolding" => i = 3
      BY DEF RubyPipeline
    <3>2. k \in DOMAIN RubyPipeline
      BY DEF RubyPipeline
    <3> QED BY <1>4, <3>1, <3>2
  <2>2. ConstantFolding(ConstantFolding(g)) = ConstantFolding(g)
    BY <1>2, <2>1, FoldingTwice
  <2> QED BY <1>4, <2>2 DEF Run
<1>5. CASE pass = "EscapeAnalysis"
  <2>1. h = EscapeAnalysis(g) /\ Run(pass, h) = EscapeAnalysis(h)
    BY <1>5 DEF Run
  <2>2. Agrees(src, h, NoValues)
    <3>1. pass \in {RubyPipeline[i] : i \in 1..Len(RubyPipeline)}
      OBVIOUS
    <3> QED BY <3>1, RubyKeepsForm
  <2>3. h # g => ~Verified(h)
    BY <1>2, <2>1, <2>2, EscapeTwice
  <2>4. h # g => Verified(h)
    BY <1>5 DEF Verifies, Repeatable
  <2> QED BY <2>1, <2>3, <2>4
<1>6. CASE pass = "ICStubEmission"
  <2>1. h = ICStubEmission(g) /\ Run(pass, h) = ICStubEmission(h)
    BY <1>6 DEF Run
  <2>2. h # g => ~Verified(h)
    BY <1>2, <2>1, StubsTwice
  <2>3. h # g => Verified(h)
    BY <1>6 DEF Verifies, Repeatable
  <2> QED BY <2>1, <2>2, <2>3
<1>7. CASE pass \in Others
  <2>1. ASSUME NEW id \in 1..Len(g), g[id].kind \in ConstKinds PROVE Has(g, id, "IsConst")
    BY <1>2, <2>1, GraphFacts, ConstantsStay
  <2>2. /\ AlgebraicSimplification(AlgebraicSimplification(g)) = AlgebraicSimplification(g)
        /\ Peephole(Peephole(g)) = Peephole(g)
        /\ SCCP(SCCP(g)) = SCCP(g)
    BY <1>2, <2>1, SimplificationTwice, PeepholeTwice, SCCPTwice
  <2>3. GVN(GVN(g)) = GVN(g) /\ CSE(CSE(g)) = CSE(g)
    BY NumberingsTwice
  <2>4. /\ TailCallElimination(TailCallElimination(g)) = TailCallElimination(g)
        /\ DeadCodeElimination(DeadCodeElimination(g)) = DeadCodeElimination(g)
    BY <1>2, TailCallsTwice, SweepsTwice
  <2> QED BY <1>7, <2>2, <2>3, <2>4 DEF Run, Inlining
<1> QED BY <1>1, <1>3, <1>4, <1>5, <1>6, <1>7

(* What a pass leaves, the same pass leaves as it is; and the graph keeps the   *)
(* form of the source.                                                          *)
RepeatOK ==
  lower.status = "lowered" /\ done <= Len(RubyPipeline) /\ Sound(source) =>
    /\ Agrees(source, graph, NoValues)
    /\ 0 < done /\ ~rejected /\ (DebugBuild = TRUE \/ Repeatable(RubyPipeline[done]))
       => Run(RubyPipeline[done], graph) = graph

LEMMA RepeatInit ==
  ASSUME Init
  PROVE  RepeatOK
<1>1. done = 0 /\ source = graph
  BY DEF Init
<1>2. Sound(source) => Agrees(source, graph, NoValues)
  BY <1>1, AgreesWithItself DEF Sound
<1> QED BY <1>1, <1>2 DEF RepeatOK

LEMMA RepeatOptimize ==
  ASSUME OptimizerOK, ForwardOK, FoldOK, RepeatOK, Optimize
  PROVE  RepeatOK'
<1> DEFINE k == done + 1
           pass == RubyPipeline[k]
           g == graph
           h == graph'
           src == source
<1>1. /\ lower.status = "lowered" /\ done < Len(RubyPipeline) /\ h = Run(pass, g)
      /\ done' = k /\ lower' = lower /\ source' = source /\ method' = method
      /\ rejected' = (debug /\ Verifies(pass, g, h) /\ ~Verified(h))
  BY DEF Optimize
<1>2. done \in 0..18 /\ Len(RubyPipeline) = 19 /\ k \in 1..Len(RubyPipeline) /\ debug = DebugBuild
  BY <1>1, PipelineLengths DEF OptimizerOK
<1> SUFFICES ASSUME Sound(src)
             PROVE  /\ Agrees(src, h, NoValues)
                    /\ ~rejected' /\ (DebugBuild = TRUE \/ Repeatable(pass)) => Run(pass, h) = h
  BY <1>1, <1>2 DEF RepeatOK
<1>3. Forward(g) /\ Agrees(src, g, NoValues) /\ ShapedGraph(src)
  BY <1>1, <1>2 DEF ForwardOK, OnlyForward, RepeatOK, Sound
<1>4. k = 3 => TwoBefore(g)
  <2> SUFFICES ASSUME k = 3 PROVE TwoBefore(g)
    OBVIOUS
  <2>1. done <= 2 /\ done < PeepholeAt
    BY <1>2, PeepholeIsLate
  <2>2. KeepsAll(src, g)
    BY <1>1, <2>1 DEF FoldOK
  <2> QED BY <1>3, <2>2, KeptTwoBefore
<1>5. pass \in {RubyPipeline[i] : i \in 1..Len(RubyPipeline)}
  BY <1>2
<1> HIDE DEF pass, g, h, k, src
<1>6. Agrees(src, h, NoValues)
  BY <1>1, <1>3, <1>5, RubyKeepsForm
<1>7. ASSUME ~rejected', DebugBuild = TRUE \/ Repeatable(pass) PROVE Run(pass, h) = h
  <2>1. Repeatable(pass) \/ (Verifies(pass, g, h) => Verified(h))
    BY <1>1, <1>2, <1>7
  <2>2. pass = RubyPipeline[k] /\ h = Run(pass, g)
    BY <1>1 DEF pass
  <2> QED BY <1>2, <1>3, <1>4, <2>1, <2>2, PassTwice
<1> QED BY <1>6, <1>7

LEMMA RepeatStep ==
  ASSUME LoweringOK, OptimizerOK, ForwardOK, FoldOK, RepeatOK, [Next]_vars
  PROVE  RepeatOK'
<1>1. CASE Lower
  <2>1. source' = graph' /\ done' = done
    BY <1>1 DEF Lower
  <2>2. lower.status = "lowering"
    <3>1. LowerNext \/ CilLowerNext
      BY <1>1 DEF Lower
    <3> QED BY <3>1 DEF LowerNext, CilLowerNext, Lowering, LowerConst, LowerLoad, LowerStore, LowerIinc,
       LowerStackOp, LowerPure, LowerEffect, LowerIf, LowerGoto, LowerReturn, LowerSwitch, LowerEnd,
       LowerLdC, LowerLdLoc, LowerStLoc, LowerCilStack, LowerCilPure, LowerObject, LowerBr,
       LowerBrIf, LowerBrCmp, LowerRet, LowerUnsupported
  <2>3. done = 0
    BY <2>2 DEF LoweringOK
  <2>4. Sound(source') => Agrees(source', graph', NoValues)
    BY <2>1, AgreesWithItself DEF Sound
  <2> QED BY <2>1, <2>3, <2>4 DEF RepeatOK
<1>2. CASE Optimize
  BY <1>2, RepeatOptimize
<1>3. CASE CompilePeak
  <2>1. done' = Len(DiamondPipeline) /\ lower.status = "lowered" /\ lower' = lower
    BY <1>3 DEF CompilePeak
  <2> QED BY <2>1, PipelineLengths DEF RepeatOK
<1>4. CASE Call \/ Interpret \/ PassTraps \/ UNCHANGED vars
  <2>1. /\ lower' = lower /\ graph' = graph /\ done' = done /\ source' = source /\ rejected' = rejected
    BY <1>4 DEF Call, Interpret, PassTraps, vars, lowerVars, pipeVars
  <2> QED BY <2>1 DEF RepeatOK
<1> QED BY <1>1, <1>2, <1>3, <1>4 DEF Next

LEMMA RepeatAlwaysOK == Spec => []RepeatOK
<1>1. Init => RepeatOK
  BY RepeatInit
<1>2. LoweringOK /\ OptimizerOK /\ ForwardOK /\ FoldOK /\ RepeatOK /\ [Next]_vars => RepeatOK'
  BY RepeatStep
<1> QED BY <1>1, <1>2, LoweringAlwaysOK, OptimizerAlwaysOK, AlwaysForward, FoldAlwaysOK, PTL DEF Spec

(* Rule B.5: whatever method is lowered, in a debug build each of the nineteen  *)
(* passes that was not refused leaves a graph that the same pass keeps as it    *)
(* is; in a release build that is so of all but EscapeAnalysis, which may free  *)
(* what only a dead allocation held, and ICStubEmission, which adds its checks  *)
(* again.                                                                       *)
THEOREM PassesAreAlwaysIdempotent ==
  Spec => [](LikeLowered /\ (DebugBuild = TRUE \/ Repeatable(RubyPipeline[done])) => PassesAreIdempotent)
<1>1. MeaningOK /\ RepeatOK
      => (LikeLowered /\ (DebugBuild = TRUE \/ Repeatable(RubyPipeline[done])) => PassesAreIdempotent)
  BY DEF MeaningOK, RepeatOK, LikeLowered, PassesAreIdempotent
<1> QED BY <1>1, RepeatAlwaysOK, MeaningAlwaysOK, PTL
================================================================================
