---------------------------- MODULE DiamondPasses -----------------------------
(* The passes that the DIAMOND tier adds to those of RUBY: tier3_diamond/*.cpp. *)
(* u is the graph as it was when the use lists were last built: the users of a  *)
(* node are those it had in u and that are alive in g.  The side data the       *)
(* passes add: the class of a field load or store is the field's offset, that   *)
(* of a VectorOp the index of its scalar kind; the value of a VectorExtract is  *)
(* its lane.                                                                    *)
EXTENDS RubyPasses

(* UseLists: pairs of a user and a slot.                                        *)
DataUses(u, o) ==
  UNION {{<<user, k>> : k \in {k \in DOMAIN u[user].in : u[user].in[k] = o}} : user \in Live(u)}
EffectUsers(u, o) == {user \in Live(u) : u[user].eff = o}
LiveUses(g, u, o) == {use \in DataUses(u, o) : ~Dead(g, use[1])}
Users(uses) == {use[1] : use \in uses}

StoreKinds == {"StFld", "StoreField"}
LoadKinds == {"LdFld", "LoadField"}

(* escapes_in_slot; slot 1 is SLOT_OBJ.                                         *)
EscapesInSlot(kind, slot) ==
  CASE kind \in StoreKinds \cup {"StElem", "StoreElement", "CheckClass", "IsInst", "CastClass"} ->
         slot # 1
    [] kind \in LoadKinds \cup {"LdElem", "LoadElement", "LdFlda", "LdElemA", "ArrayLength"} -> FALSE
    [] kind \in {"Unbox", "UnboxAny"} -> slot = 1
    [] OTHER -> TRUE

Escaping(g, uses) == {use \in uses : EscapesInSlot(g[use[1]].kind, use[2])}

EffectsBefore(g, id) ==
  FoldLeft(LAMBDA back, k : back \cup {g[e].eff : e \in back \ {NoId}}, {g[id].eff},
           Ascending(g)) \ {NoId}

EffectDominates(g, store, load) ==
  store \in EffectsBefore(g, load) \/ (g[store].eff = g[load].eff /\ store < load)

HasGuardRefs(g, u, o) == \E use \in LiveUses(g, u, o) : Has(g, use[1], "IsGuard")

(* A use may have been rewired since the lists were built.                      *)
StillUsed(g, u, o) == \E use \in LiveUses(g, u, o) : g[use[1]].in[use[2]] = o

HasLiveUse(g, u, o) == StillUsed(g, u, o) \/ \E user \in EffectUsers(u, o) : ~Dead(g, user)

(* classify_escape.                                                             *)
Escape(g, u, o) ==
  LET uses == LiveUses(g, u, o)
  IN  CASE Escaping(g, uses) = {} -> "no"
        [] Escaping(g, uses) = uses /\ uses # {} -> "global"
        [] OTHER -> "partial"

Rewire(g, id, node) == [x \in Ids(g) |-> IF x = id THEN node ELSE g[x]]

(* A removed node is skipped on the effect chain.                               *)
Bypass(g, id) ==
  MarkDead([x \in Ids(g) |-> IF ~Dead(g, x) /\ g[x].eff = id /\ g[id].eff # NoId
                               THEN [g[x] EXCEPT !.eff = g[id].eff] ELSE g[x]], id)

-----------------------------------------------------------------------------
(* insert_materialize_for_partial_escape: before an escaping use a node that    *)
(* makes the object from the values of its fields, and which the use gets.      *)
MaterializeAt(g, o, values, user, slot) ==
  LET zero == values = <<>> /\ g[o].in = <<>>
      h == IF zero THEN Append(g, ConstInt(0)) ELSE g
      in == IF values # <<>> THEN values ELSE IF zero THEN <<Len(h)>> ELSE <<g[o].in[1]>>
      n == g[user]
      mat == [NewNode("Materialize", in, IF n.ctrl # NoId THEN n.ctrl ELSE g[o].ctrl,
                      IF n.eff # NoId THEN n.eff ELSE g[o].eff) EXCEPT !.cls = o]
      id == Len(h) + 1
      rewired == [n EXCEPT !.in[slot] = IF @ = o THEN id ELSE @,
                           !.eff = IF @ = NoId THEN @ ELSE id]
  IN  Append(Rewire(h, user, rewired), mat)

InsertMaterialize(g, u, o, values) ==
  LET escaping == Escaping(g, LiveUses(g, u, o))
      at(h, user) == FoldLeft(LAMBDA x, k : IF <<user, k>> \in escaping
                                              THEN MaterializeAt(x, o, values, user, k) ELSE x,
                              h, [k \in DOMAIN g[user].in |-> k])
  IN  FoldLeft(at, g, InOrder(Users(escaping), Len(g)))

(* The FieldState of an object: the stores that use it, in whatever slot, and   *)
(* what the last of them stores, nothing if that store has one operand.         *)
Stores(g, u, o) == {use \in LiveUses(g, u, o) : g[use[1]].kind \in StoreKinds}
StoresAt(g, u, o, offset) == {use \in Stores(g, u, o) : g[use[1]].cls = offset}
StoredBy(g, store) == IF Len(g[store].in) > 1 THEN g[store].in[2] ELSE NoId

FieldValues(g, u, o) ==
  LET offsets == {g[use[1]].cls + 1 : use \in Stores(g, u, o)}
      last(offset) == MaxOf(Users(StoresAt(g, u, o, offset - 1)))
      order == InOrder(offsets, IF offsets = {} THEN 0 ELSE MaxOf(offsets))
  IN  [k \in DOMAIN order |-> StoredBy(g, last(order[k]))]

(* A load of the object after the one store to its offset is replaced: by a new *)
(* constant if the stored value is constant, else by the value.                 *)
ForwardLoad(g, load, value) ==
  IF Has(g, value, "IsConst")
    THEN MarkDead(ReplaceAllUses(Append(g, ConstInt(g[value].val)), load, Len(g) + 1), load)
    ELSE MarkDead(ReplaceAllUses(g, load, value), load)

(* Mutant of ForwardableFrom: the store may come after the load.                *)
ForwardableAnywhere(g, fields, u, o, load) ==
  LET stores == StoresAt(fields, u, o, fields[load].cls)
  IN  Cardinality(stores) = 1 /\ \E use \in stores : StoredBy(fields, use[1]) # NoId

ForwardableFrom(g, fields, u, o, load) ==
  LET stores == StoresAt(fields, u, o, fields[load].cls)
  IN  /\ Cardinality(stores) = 1
      /\ \E use \in stores : StoredBy(fields, use[1]) # NoId /\ EffectDominates(g, use[1], load)

ForwardLoads(g, u, o) ==
  LET loads == {id \in Users(LiveUses(g, u, o)) : g[id].kind \in LoadKinds}
      stored(load) == StoredBy(g, MaxOf(Users(StoresAt(g, u, o, g[load].cls))))
  IN  FoldLeft(LAMBDA h, load : IF ForwardableFrom(h, g, u, o, load)
                                  THEN ForwardLoad(h, load, stored(load)) ELSE h,
               g, InOrder(loads, Len(g)))

(* Every store that used the object goes, whether or not it still does.         *)
RemoveStores(g, u, o) == FoldLeft(Bypass, g, InOrder(Users(Stores(g, u, o)), Len(g)))

RemoveUnused(g, u, o) == IF StillUsed(g, u, o) THEN g ELSE Bypass(g, o)

ProcessAllocation(g, u, o) ==
  LET escape == Escape(g, u, o)
      materialized(h) == IF escape = "partial"
                           THEN InsertMaterialize(h, u, o, FieldValues(g, u, o)) ELSE h
  IN  IF Dead(g, o) \/ HasGuardRefs(g, u, o) \/ escape = "global" THEN g
      ELSE RemoveUnused(RemoveStores(materialized(ForwardLoads(g, u, o)), u, o), u, o)

(* process_box.  The value replaces a box that does not escape; else its loads  *)
(* and, use by use, what does not escape.                                       *)
UnboxUse(g, box, value, user, slot) ==
  CASE EscapesInSlot(g[user].kind, slot) -> g
    [] g[user].kind \in LoadKinds /\ slot = 1 -> MarkDead(ReplaceAllUses(g, user, value), user)
    [] OTHER -> Rewire(g, user, [g[user] EXCEPT !.in[slot] = IF @ = box THEN value ELSE @])

UnboxUses(g, u, box, value) ==
  LET uses == LiveUses(g, u, box)
      at(h, user) == FoldLeft(LAMBDA x, k : IF <<user, k>> \in uses
                                              THEN UnboxUse(x, box, value, user, k) ELSE x,
                              h, [k \in DOMAIN g[user].in |-> k])
  IN  FoldLeft(at, g, InOrder(Users(uses), Len(g)))

RemoveUnusedBox(g, u, box) == IF HasLiveUse(g, u, box) THEN g ELSE MarkDead(g, box)

ProcessBox(g, u, box) ==
  LET escape == Escape(g, u, box)
      value == g[box].in[1]
  IN  CASE Dead(g, box) \/ HasGuardRefs(g, u, box) \/ escape = "global" \/ g[box].in = <<>> -> g
        [] OTHER -> IF escape = "no" THEN MarkDead(ReplaceAllUses(g, box, value), box)
                    ELSE RemoveUnusedBox(InsertMaterialize(UnboxUses(g, u, box, value),
                                                           u, box, <<value>>), u, box)

(* eliminate_box_unbox_roundtrips.                                              *)
RoundTrips(g) ==
  FoldLeft(LAMBDA h, id :
             LET box == h[id].in[1]
             IN  IF Valid(h, box) /\ ~Dead(h, box) /\ h[box].kind = "Box" /\ h[box].in # <<>>
                   THEN MarkDead(ReplaceAllUses(h, id, h[box].in[1]), id) ELSE h,
           g, InOrder({id \in OfKind(g, {"Unbox", "UnboxAny"}) : g[id].in # <<>>}, Len(g)))

(* PEAPass::run: boxes first, then the others, then rounds over both while      *)
(* there is a change.  A changed box is not looked at again in its round.       *)
PEARounds == 10

Continue(g, u, id, unboxed) ==
  IF unboxed # g \/ Dead(g, id) THEN unboxed ELSE ProcessAllocation(g, u, id)

ProcessBoth(g, u, id) ==
  Continue(g, u, id, IF g[id].kind = "Box" THEN ProcessBox(g, u, id) ELSE g)

PEARound(g) ==
  FoldLeft(LAMBDA h, id : ProcessBoth(h, g, id), g, InOrder(OfKind(g, AllocationKinds), Len(g)))

RoundsWhileChanged(before, once) ==
  IF once = before THEN once
  ELSE FoldLeft(LAMBDA h, k : PEARound(h), once, [k \in 1..PEARounds |-> k])

ProcessBoxes(g) ==
  FoldLeft(LAMBDA h, id : ProcessBox(h, g, id), g, InOrder(OfKind(g, {"Box"}), Len(g)))

ProcessAllocations(g) ==
  FoldLeft(LAMBDA h, id : ProcessAllocation(h, g, id), g,
           InOrder(OfKind(g, AllocationKinds \ {"Box"}), Len(g)))

AfterBoxes(g) == RoundsWhileChanged(g, ProcessAllocations(g))

PEA(g) == AfterBoxes(ProcessBoxes(RoundTrips(g)))

-----------------------------------------------------------------------------
(* SRA: as PEA on objects that do not escape, without moving anything on the    *)
(* effect chain; the use lists are built once.                                  *)
NoteConstant(g, load, value) ==
  Rewire(g, load, [Mark(g[load], g[value].val) EXCEPT !.type = g[value].type])

SRAObject(g, u, o) ==
  LET uses == LiveUses(g, u, o)
      stored(load) == StoredBy(g, MaxOf(Users(StoresAt(g, u, o, g[load].cls))))
      forward(h, load) ==
        CASE ~ForwardableFrom(h, g, u, o, load) -> h
          [] ForwardableFrom(h, g, u, o, load) ->
               IF Has(h, stored(load), "IsConst") THEN NoteConstant(h, load, stored(load))
               ELSE MarkDead(ReplaceAllUses(h, load, stored(load)), load)
      loads == InOrder({id \in Users(uses) : g[id].kind \in LoadKinds}, Len(g))
      unused(h, store) == \A user \in EffectUsers(u, store) : Dead(h, user)
      drop(h, store) == IF unused(h, store) THEN MarkDead(h, store) ELSE h
      dropped == FoldLeft(drop, FoldLeft(forward, g, loads), InOrder(Users(Stores(g, u, o)), Len(g)))
  IN  IF LiveUses(dropped, u, o) = {} /\ unused(dropped, o) THEN MarkDead(dropped, o) ELSE dropped

SRA(g) ==
  FoldLeft(LAMBDA h, o : SRAObject(h, g, o), g,
           InOrder({o \in OfKind(g, AllocationKinds \ {"Box"}) :
                      ~HasGuardRefs(g, g, o) /\ Escaping(g, LiveUses(g, g, o)) = {}}, Len(g)))

-----------------------------------------------------------------------------
(* LoopUnrolling: a copy of the body of each small loop, which nothing enters.  *)
MinBodySize == 3
MaxBodySize == 20

(* Mutant of CopyNode: the copy keeps the control and the effect of its node.   *)
CopyWithin(s, id) ==
  LET n == s.g[id]
      copy(x) == IF x \in DOMAIN s.copies THEN s.copies[x] ELSE x
      new == NewNode(n.kind, [k \in DOMAIN n.in |-> copy(n.in[k])], n.ctrl, n.eff)
  IN  [g |-> Append(s.g, [new EXCEPT !.val = n.val, !.cls = n.cls]),
       copies |-> [x \in DOMAIN s.copies \cup {id} |->
                     IF x = id THEN Len(s.g) + 1 ELSE s.copies[x]]]

CopyNode(s, id) ==
  LET n == s.g[id]
      copy(x) == IF x \in DOMAIN s.copies THEN s.copies[x] ELSE x
      new == NewNode(n.kind, [k \in DOMAIN n.in |-> copy(n.in[k])], copy(n.ctrl), copy(n.eff))
  IN  [g |-> Append(s.g, [new EXCEPT !.val = n.val, !.cls = n.cls]),
       copies |-> [x \in DOMAIN s.copies \cup {id} |->
                     IF x = id THEN Len(s.g) + 1 ELSE s.copies[x]]]

LoopUnrolling(g) ==
  LET bs == BlockStructure(g)
      body(h) == LoopNodes(g, bs, h)
      loops == {h \in Blocks(bs) : IsLoopHeader(g, bs, h)
                                   /\ Cardinality(body(h)) \in MinBodySize..MaxBodySize}
      copied(h) == InOrder({id \in body(h) : g[id].kind \notin {"Loop", "Jump"}}, Len(g))
      unroll(x, h) == FoldLeft(CopyNode, [g |-> x, copies |-> <<>>], copied(h - 1)).g
  IN  FoldLeft(unroll, g, InOrder({h + 1 : h \in loops}, Len(bs)))

(* LoopUnswitching marks the Ifs whose condition comes before the loop.         *)
LoopUnswitching(g) ==
  LET bs == BlockStructure(g)
  IN  SetFlag(g, {id \in OfKind(g, {"If"}) :
                    /\ g[id].in # <<>> /\ Valid(g, g[id].in[1])
                    /\ \E h \in Blocks(bs) : /\ IsLoopHeader(g, bs, h)
                                             /\ BlockOf(g, bs, g[id].in[1]) < h
                                             /\ h <= BlockOf(g, bs, id)}, "IsScheduled")

(* Devirtualization.                                                            *)
Devirtualization(g) ==
  [id \in Ids(g) |->
     IF id \in OfKind(g, {"CallVirt"}) /\ g[id].in # <<>>
        /\ g[id].in[1] \in OfKind(g, {"NewObj", "Allocate"})
       THEN [g[id] EXCEPT !.kind = "CallKnown"] ELSE g[id]]

-----------------------------------------------------------------------------
(* SLP: up to four nodes of a kind, none an input of another, become one vector *)
(* node and a lane each.  The kinds come in the order of a hash table.          *)
PackableKinds == <<"Add", "Sub", "Mul", "And", "Or", "Xor">>
MaxLanes == 4

(* Mutant of AreIndependent: an operand counts only one way.                    *)
LaterOperand(g, a, b) == a # b /\ a \notin DataInputs(g, b)

AreIndependent(g, a, b) == a # b /\ a \notin DataInputs(g, b) /\ b \notin DataInputs(g, a)

Pack(g, kind) ==
  FoldLeft(LAMBDA pack, id :
             IF Len(pack) < MaxLanes /\ \A k \in DOMAIN pack : AreIndependent(g, id, pack[k])
               THEN Append(pack, id) ELSE pack,
           <<>>, InOrder({id \in OfKind(g, {kind}) : Has(g, id, "Pure") /\ Len(g[id].in) = 2}, Len(g)))

ExtractLane(g, pack, vector, lane) ==
  LET extract == [NewNode("VectorExtract", <<vector>>, NoId, NoId) EXCEPT !.val = lane - 1]
  IN  MarkDead(ReplaceAllUses(Append(g, extract), pack[lane], Len(g) + 1), pack[lane])

PackKind(g, k) ==
  LET pack == Pack(g, PackableKinds[k])
      inputs == FlattenSeq([lane \in DOMAIN pack |-> g[pack[lane]].in])
      vector == [NewNode("VectorOp", inputs, NoId, NoId) EXCEPT !.cls = k]
  IN  IF Len(pack) < 2 THEN g
      ELSE FoldLeft(LAMBDA h, lane : ExtractLane(h, pack, Len(g) + 1, lane),
                    Append(g, vector), [lane \in DOMAIN pack |-> lane])

SLP(g) == FoldLeft(PackKind, g, [k \in DOMAIN PackableKinds |-> k])

-----------------------------------------------------------------------------
(* build_diamond_pipeline, without the passes of RUBY it begins with.           *)
DiamondOnly ==
  <<"PEA", "DeadCodeElimination", "SRA", "DeadCodeElimination", "LoopUnrolling",
    "DeadCodeElimination", "LoopUnswitching", "DeadCodeElimination", "Devirtualization",
    "DeadCodeElimination", "SLP", "DeadCodeElimination", "GCM", "DeadCodeElimination">>
DiamondPipeline == RubyPipeline \o DiamondOnly

RunDiamond(pass, g) ==
  CASE pass = "PEA" -> PEA(g)
    [] pass = "SRA" -> SRA(g)
    [] pass = "LoopUnrolling" -> LoopUnrolling(g)
    [] pass = "LoopUnswitching" -> LoopUnswitching(g)
    [] pass = "Devirtualization" -> Devirtualization(g)
    [] pass = "SLP" -> SLP(g)
    [] OTHER -> Run(pass, g)

(* PEA looks at the graph only when its rounds ran out, LoopUnswitching never.  *)
DiamondVerifies(pass, g, h) == pass \notin {"PEA", "LoopUnswitching"} /\ Verifies(pass, g, h)

(* PassPipeline::run.                                                           *)
Examined(debug, pass, g, h) ==
  [g |-> h, rejected |-> debug /\ DiamondVerifies(pass, g, h) /\ ~Verified(h)]

RunPipeline(passes, g, debug) ==
  FoldLeft(LAMBDA s, pass : IF s.rejected THEN s
                            ELSE Examined(debug, pass, s.g, RunDiamond(pass, s.g)),
           [g |-> g, rejected |-> FALSE], passes)
==============================================================================
