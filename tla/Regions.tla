------------------------------ MODULE Regions -------------------------------
(* Basic blocks of a graph: ir/passes/BuildRegions.cpp.  A block is a number    *)
(* from 0 in the order of the node ids; bs is the sequence of the blocks'       *)
(* leaders, so block b starts at bs[b + 1].                                     *)
EXTENDS SonGraph, FiniteSetsExt, SequencesExt

(* The ids of S, at most n, in ascending order.                                *)
InOrder(S, n) ==
  LET upTo[k \in 0..n] ==
        IF k = 0 THEN <<>> ELSE IF k \in S THEN Append(upTo[k - 1], k) ELSE upTo[k - 1]
  IN  upTo[n]

MaxOf(S) == CHOOSE m \in S : \A x \in S : x <= m

Starters == {"Start", "IfTrue", "IfFalse", "Region", "Loop"}
Enders == {"Return", "Throw", "Jump"}

(* identify_blocks: dead nodes neither lead nor end a block, but the node after *)
(* a live ender leads one only if it is live itself.                            *)
IsLeader(g, id) ==
  \/ g[id].kind \in Starters
  \/ id > 1 /\ g[id - 1].kind \in Enders /\ ~Dead(g, id - 1)
  \/ \A other \in Live(g) : id <= other

BlockStructure(g) == InOrder({id \in Live(g) : IsLeader(g, id)}, Len(g))

NumBlocks(bs) == Len(bs)
Blocks(bs) == 0..Len(bs) - 1

(* block_of: 0 for a dead or invalid node.                                     *)
BlockOf(g, bs, id) ==
  IF id \in Live(g) THEN Cardinality({k \in DOMAIN bs : bs[k] <= id}) - 1 ELSE 0

NodesIn(g, bs, b) == {id \in Live(g) : BlockOf(g, bs, id) = b}
LastOf(g, bs, b) == MaxOf(NodesIn(g, bs, b))

(* connect_edges.                                                              *)
Projections(g, if) ==
  InOrder({id \in Live(g) : g[id].ctrl = if /\ g[id].kind \in {"IfTrue", "IfFalse"}},
          Len(g))

(* The innermost loop header before the jump.                                  *)
JumpTarget(g, jump) == {id \in Live(g) : id < jump /\ g[id].kind = "Loop"}

Successors(g, bs, b) ==
  LET last == LastOf(g, bs, b)
      kind == g[last].kind
  IN  CASE kind = "If" ->
             LET ps == Projections(g, last)
             IN  [k \in DOMAIN ps |-> BlockOf(g, bs, ps[k])]
        [] kind = "Jump" ->
             IF JumpTarget(g, last) = {} THEN <<>>
             ELSE <<BlockOf(g, bs, MaxOf(JumpTarget(g, last)))>>
        [] kind \in {"Return", "Throw"} -> <<>>
        [] OTHER -> IF b + 1 \in Blocks(bs) THEN <<b + 1>> ELSE <<>>

SuccSet(g, bs, b) == ToSet(Successors(g, bs, b))

(* detect_loops.                                                               *)
IsLoopHeader(g, bs, b) == \E a \in Blocks(bs) : b <= a /\ b \in SuccSet(g, bs, a)

(* reverse_post_order: a depth-first walk with an explicit stack of frames      *)
(* <<block, index of the next successor>>.                                      *)
Descend(s, top, succs) ==
  IF top[2] > Len(succs)
    THEN [s EXCEPT !.post = Append(@, top[1]), !.stack = Front(@)]
    ELSE LET next == succs[top[2]]
             rest == Append(Front(s.stack), <<top[1], top[2] + 1>>)
         IN  IF next \in s.visited
               THEN [s EXCEPT !.stack = rest]
               ELSE [s EXCEPT !.stack = Append(rest, <<next, 1>>),
                              !.visited = @ \cup {next}]

DfsStep(g, bs, s) ==
  IF s.stack = <<>> THEN s
  ELSE Descend(s, Last(s.stack), Successors(g, bs, Last(s.stack)[1]))

(* A block is pushed and popped once and has at most two successors.           *)
Visited(g, bs) ==
  FoldLeft(LAMBDA s, k : DfsStep(g, bs, s),
           [stack |-> <<<<0, 1>>>>, visited |-> {0}, post |-> <<>>],
           [k \in 1..4 * Len(bs) |-> k])

(* Mutant of ReversePostOrder: the post-order, not reversed.                    *)
PostOrder(g, bs) == IF bs = <<>> THEN <<>> ELSE Visited(g, bs).post

ReversePostOrder(g, bs) == IF bs = <<>> THEN <<>> ELSE Reverse(Visited(g, bs).post)
=============================================================================
