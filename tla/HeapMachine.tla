----------------------------- MODULE HeapMachine ------------------------------
(* What a graph without branches computes when only its data inputs and its     *)
(* effect chain order the nodes, with objects on a heap: the meaning that the   *)
(* passes of the DIAMOND tier must keep.  The code has no such evaluator.       *)
EXTENDS DiamondPasses

(* A node waits for its live operands and for the nearest live node before it   *)
(* on the effect chain, of which passes leave dead nodes.                       *)
EffectBefore(g, id) ==
  FoldLeft(LAMBDA e, k : IF e # NoId /\ Dead(g, e) THEN g[e].eff ELSE e, g[id].eff, Ascending(g))

WaitsFor(g, id) == ((DataInputs(g, id) \cup {EffectBefore(g, id)}) \cap Live(g))

(* The live nodes, each when it need no longer wait; those on a cycle never.    *)
Schedule(g) ==
  LET waits == [id \in Live(g) |-> WaitsFor(g, id)]
      next(order) == {id \in Live(g) \ ToSet(order) : waits[id] \subseteq ToSet(order)}
      add(order, k) == IF next(order) = {} THEN order ELSE Append(order, Min(next(order)))
  IN  FoldLeft(add, <<>>, Ascending(g))

Acyclic(g) == ToSet(Schedule(g)) = Live(g)

-----------------------------------------------------------------------------
Num(n) == <<"number", n>>
Ref(id) == <<"ref", id>>
Vector(lanes) == <<"vector", lanes>>
NoValue == <<"undefined", 0>>
IsRef(v) == v[1] = "ref"

(* A state: the values, the fields of the objects made so far (under -1 what    *)
(* the object was made from), what others saw, what each Return returns, the    *)
(* objects that others have, and what the run did that PEA gets wrong.          *)
HeapStart(g) == [vals |-> [id \in Ids(g) |-> NoValue], heap |-> <<>>, obs |-> <<>>,
                 returned |-> {}, out |-> {}, odd |-> {}]

(* What is in an object, by field; an object in it is just that.                *)
Shallow(v) == IF IsRef(v) THEN <<"object", 0>> ELSE v
Content(heap, v) ==
  LET fields == heap[v[2]]
      order == SelectSeq([k \in 1..3 |-> k - 1], LAMBDA offset : offset \in DOMAIN fields)
  IN  IF order = <<>> THEN <<Shallow(fields[-1])>>
      ELSE [k \in DOMAIN order |-> Shallow(fields[order[k]])]
Snapshot(heap, v) == IF IsRef(v) THEN <<"object", Content(heap, v)>> ELSE v

Makes(s, id, fields) == [s EXCEPT !.vals[id] = Ref(id), !.heap = (id :> fields) @@ @]
Gives(s, id, v) == [s EXCEPT !.vals[id] = v]
Sees(s, kind, in) ==
  [s EXCEPT !.obs = Append(@, <<kind, [k \in DOMAIN in |-> Snapshot(s.heap, in[k])]>>),
            !.out = @ \cup ToSet(in)]
Seen(kind) == IF kind = "CallKnown" THEN "CallVirt" ELSE Observed(kind)
Oddly(s, what, p) == IF p THEN [s EXCEPT !.odd = @ \cup {what}] ELSE s

HeapStep(g, env, s, id) ==
  LET n == g[id]
      in == [k \in DOMAIN n.in |-> IF Valid(g, n.in[k]) THEN s.vals[n.in[k]] ELSE NoValue]
      unknown == Num(env[id])
      onRef == in # <<>> /\ IsRef(in[1])
      numbers == \A k \in DOMAIN in : in[k][1] = "number"
      binary(kind, x, y) == Num(Arith(kind, x[2], y[2]))
  IN  CASE n.kind \in {"ConstInt", "ConstFloat"} -> Gives(s, id, Num(n.val))
        [] n.kind = "Phi" -> Gives(s, id, unknown)
        [] n.kind \in BinaryKinds ->
             IF ~numbers THEN Oddly(s, "arithmetic", TRUE)
             ELSE IF Traps(n.kind, in[1][2], in[2][2]) THEN Oddly(s, "trap", TRUE)
             ELSE Gives(s, id, binary(n.kind, in[1], in[2]))
        [] n.kind = "Neg" /\ numbers -> Gives(s, id, Num(Wrap64(-in[1][2])))
        [] n.kind = "ConvI4" /\ numbers -> Gives(s, id, Num(Wrap32(in[1][2])))
        [] n.kind = "ConvI8" /\ numbers -> Gives(s, id, in[1])
        [] n.kind = "VectorOp" ->
             Gives(s, id, Vector([k \in 1..Len(in) \div 2 |->
                                    binary(PackableKinds[n.cls], in[2 * k - 1], in[2 * k])]))
        [] n.kind = "VectorExtract" -> Gives(s, id, in[1][2][n.val + 1])
        [] n.kind \in {"NewObj", "Allocate"} -> Makes(s, id, (-1 :> Num(0)))
        [] n.kind \in {"NewArr", "Box"} -> Oddly(Makes(s, id, (-1 :> in[1])), "box", onRef)
        [] n.kind = "Materialize" -> Makes(s, id, [k \in 0..Len(in) - 1 |-> in[k + 1]])
        [] n.kind \in StoreKinds /\ Len(in) = 2 /\ onRef ->
             LET again == n.cls \in DOMAIN s.heap[in[1][2]]
             IN  Oddly(Oddly(Oddly([s EXCEPT !.heap[in[1][2]] = (n.cls :> in[2]) @@ @], "again", again),
                       "link", IsRef(in[2])), "late", in[1] \in s.out)
        [] n.kind \in LoadKinds /\ onRef ->
             LET fields == s.heap[in[1][2]]
             IN  Gives(s, id, IF n.cls \in DOMAIN fields THEN fields[n.cls] ELSE fields[-1])
        [] n.kind \in {"Unbox", "UnboxAny"} /\ onRef -> Gives(s, id, s.heap[in[1][2]][-1])
        [] n.kind \in {"IsInst", "CastClass"} /\ onRef -> Oddly(Gives(s, id, unknown), "cast", TRUE)
        [] n.kind = "Return" ->
             [s EXCEPT !.returned = @ \cup {<<id, Snapshot(s.heap, in[1])>>}]
        [] n.kind \in ObservableKinds \cup {"Throw"} ->
             Oddly(Gives(Sees(s, Seen(n.kind), in), id, unknown), "link",
                   n.kind \in StoreKinds /\ \E k \in DOMAIN in : IsRef(in[k]))
        [] n.kind \in EffectKinds -> Gives(s, id, unknown)
        [] OTHER -> Gives(s, id, Num(0))

HeapRun(g, env) == FoldLeft(LAMBDA s, id : HeapStep(g, env, s, id), HeapStart(g), Schedule(g))
==============================================================================
