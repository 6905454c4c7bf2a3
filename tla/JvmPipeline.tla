----------------------------- MODULE JvmPipeline -----------------------------
(* A Java or CIL method from bytecode to the graph that is handed to the        *)
(* emitter: JvmLowerer::lower or CilLowerer::lower, the passes of the RUBY      *)
(* pipeline as PassPipeline::run runs them (compile_at_tier of                  *)
(* runtime/TieredDispatch.hpp), and then a call of the same method by granit,   *)
(* to compare with, or because the method could not be compiled.                *)
EXTENDS CilInterpreter, CilLowerer, HeapMachine

CONSTANTS
  DebugBuild,   \* verifier_enabled(): not NDEBUG
  Methods,      \* the methods compiled: code, number of locals, of arguments (CIL)
  HotMethods,   \* those of them that are also compiled on the DIAMOND tier
  Graphs,       \* graphs built by hand that enter the pipeline as they are
  Arguments,    \* the values a slot can have at the call
  Environments, \* values of the unknowns of a graph, by node
  Fuel          \* bound of the runs of a graph

(* Methods come from the decoders, and an environment has a value for each slot.*)
ASSUME MethodsAssumption ==
  \A m \in Methods : /\ m.code \in Seq(JvmInstructions \cup CilInstructions)
                      /\ m.locals \in Nat /\ m.args \in Nat

(* Graphs with nodes whose operands, ids that creating a node gave, are in them.*)
ASSUME GraphsAssumption ==
  \A g \in Graphs : /\ g \in Seq(Node) /\ g # <<>>
                     /\ \A id \in Ids(g) : DataInputs(g, id) \subseteq Ids(g) \cup {NoId}

ASSUME FuelAssumption == Fuel \in Nat

ASSUME EnvironmentsAssumption ==
  /\ Environments # {}
  /\ \A e \in Environments : \A m \in Methods : 1..m.locals + m.args + 1 \subseteq DOMAIN e

VARIABLES
  source,    \* history: the graph as it was lowered
  done,      \* passes run so far
  rejected,  \* a pass returned an error
  debug,     \* verifier_enabled() of the build whose passes ran
  args       \* the slots set at the call

pipeVars == <<source, done, rejected, debug>>
vars == <<method, interpVars, lowerVars, pipeVars, args>>

Method(code, l, a) == [code |-> code, locals |-> l, args |-> a]
NoCode == <<>>
Idle == [status |-> "idle", value |-> Uninit]

Init ==
  /\ \/ \E m \in Methods :
          method = m.code /\ LowerInit(m.locals, m.args) /\ source = graph
     \/ /\ method = NoCode
        /\ graph \in Graphs
        /\ source = graph
        /\ lower = [pc |-> 0, stack |-> <<>>, locals |-> <<>>, ctrl |-> 1, eff |-> 1,
                    status |-> "lowered"]
  /\ done = 0 /\ rejected = FALSE /\ debug = DebugBuild
  /\ frame = Frame(<<>>) /\ outcome = Idle /\ narrow = FALSE /\ args = <<>>

Lower ==
  /\ LowerNext \/ CilLowerNext
  /\ source' = graph'
  /\ UNCHANGED <<method, interpVars, done, rejected, debug, args>>

Compiled == lower.status = "lowered" /\ done = Len(RubyPipeline) /\ ~rejected

(* PassPipeline::run: the next pass, or the error of the last.  A pass that     *)
(* faults does not return (PassTraps).                                          *)
Optimize ==
  /\ lower.status = "lowered" /\ done < Len(RubyPipeline) /\ ~rejected /\ outcome = Idle
  /\ LET pass == RubyPipeline[done + 1]
     IN  /\ ~Faults(pass, graph)
         /\ graph' = Run(pass, graph)
         /\ rejected' = (debug /\ Verifies(pass, graph, graph') /\ ~Verified(graph'))
  /\ done' = done + 1
  /\ UNCHANGED <<method, interpVars, lower, source, debug, args>>

(* The same for the DIAMOND tier, whose pipeline begins with that of RUBY; also *)
(* in a release build, where no pass looks at its graph.                        *)
Peak == lower.status = "lowered" /\ done = Len(DiamondPipeline) /\ ~rejected

HotCodes == {NoCode} \cup {m.code : m \in HotMethods}

(* A pass of it faults.                                                         *)
PeakFaults(d) ==
  \E k \in DOMAIN DiamondPipeline :
    /\ DiamondPipeline[k] \in {"SCCP", "ConstantFolding"}
    /\ LET before == RunPipeline(SubSeq(DiamondPipeline, 1, k - 1), graph, d)
       IN  ~before.rejected /\ Faults(DiamondPipeline[k], before.g)

CompilePeak ==
  /\ lower.status = "lowered" /\ done = 0 /\ ~rejected /\ outcome = Idle
  /\ method \in HotCodes
  /\ debug' \in {DebugBuild, FALSE} /\ ~PeakFaults(debug')
  /\ \E end \in {RunPipeline(DiamondPipeline, graph, debug')} :
       graph' = end.g /\ rejected' = end.rejected
  /\ done' = Len(DiamondPipeline)
  /\ UNCHANGED <<method, interpVars, lower, source, args>>

(* A division of the compiler that overflows: no error is returned, the process *)
(* that compiles is gone, and the program it runs with it.                      *)
PassTraps ==
  /\ lower.status = "lowered" /\ ~rejected /\ outcome = Idle
  /\ \/ done < Len(RubyPipeline) /\ Faults(RubyPipeline[done + 1], graph)
     \/ done = 0 /\ method \in HotCodes /\ \E d \in {DebugBuild, FALSE} : PeakFaults(d)
  /\ outcome' = [status |-> "trapped", value |-> Uninit]
  /\ UNCHANGED <<method, frame, narrow, lowerVars, pipeVars, args>>

(* Slots that the call sets: a Java method finds its arguments in its locals.   *)
Given == {l \in DOMAIN lower.locals :
            (\E k \in DOMAIN method : method[k].op \in CilOps) => l < 0}

CallSlots(given) == [l \in DOMAIN lower.locals |-> IF l \in DOMAIN given THEN given[l] ELSE Uninit]

(* granit does not check the index of a local, and reads past the vector.       *)
SlotsExist ==
  \A k \in DOMAIN method :
    method[k].op \in {"load", "store", "iinc", "ldloc", "stloc", "starg"}
    => method[k].n \in DOMAIN lower.locals

Call ==
  /\ Compiled \/ lower.status = "failed" \/ rejected
  /\ done <= Len(RubyPipeline)
  /\ method # NoCode /\ SlotsExist /\ outcome = Idle
  /\ args' \in [Given -> Arguments]
  /\ frame' = Frame(CallSlots(args'))
  /\ outcome' = Running
  /\ UNCHANGED <<method, narrow, lowerVars, pipeVars>>

Interpret == (InterpNext \/ CilNext) /\ UNCHANGED <<method, lowerVars, pipeVars, args>>

Next == Lower \/ Optimize \/ CompilePeak \/ PassTraps \/ Call \/ Interpret

Spec == Init /\ [][Next]_vars

-----------------------------------------------------------------------------
TypeOK ==
  /\ \A id \in Ids(graph) : /\ graph[id].kind \in Kinds /\ graph[id].flags \subseteq Flags
                             /\ DataInputs(graph, id) \subseteq Ids(graph) \cup {NoId}
  /\ \A k \in DOMAIN lower.stack : lower.stack[k] \in Ids(graph)
  /\ Len(frame.stack) <= KMaxJvmStack
  /\ done \in 0..Len(RubyPipeline) \cup {Len(DiamondPipeline)}

(* Methods that the two tiers should agree on: no branches, which the lowerers  *)
(* do not follow, no lcmp and fcmp, which become Lt, and no floats, which the   *)
(* emitter does not take.                                                       *)
StraightLine ==
  \A k \in DOMAIN method :
    /\ method[k].op \notin {"if", "goto", "cmp", "br", "br_if", "br_cmp"}
    /\ method[k].op \in {"const", "ldc", "binary"} => method[k].t # "float"
    /\ method[k].op \in {"conv", "conv_to"} => method[k].to # "float"

EnvOfCall ==
  LET locals == Cardinality({l \in DOMAIN lower.locals : l >= 0})
  IN  [id \in DOMAIN (CHOOSE e \in Environments : TRUE) |->
         LET slot == {l \in DOMAIN args : SlotNode(locals, l) = id}
         IN  IF slot = {} THEN 0 ELSE args[CHOOSE l \in slot : TRUE].v]

(* Neither tier ends the process for what a program divides: a method that      *)
(* cannot be compiled is interpreted, and an exception is thrown there.         *)
HostSurvives == outcome.status # "trapped"

(* Rule 38, Differential testing: when granit returns an int or a long, the     *)
(* optimized graph returns the same.                                            *)
TiersAgree ==
  (Compiled /\ outcome.status = "returned" /\ outcome.value.t \in {"int", "long"} /\ StraightLine)
  => MachineRun(graph, EnvOfCall, Fuel).result = <<"value", outcome.value.v>>

(* They agree where neither an int operation lost bits that 64-bit code keeps   *)
(* nor a tag or a rounding decided a comparison.                                *)
CompiledAgrees == ~narrow => TiersAgree

(* The same for the graph as it was lowered, which is what Tier 1 compiles, if  *)
(* the run is given as many steps as the graph has nodes.                       *)
BaselineAgrees ==
  (/\ lower.status = "lowered" /\ outcome.status = "returned"
   /\ outcome.value.t \in {"int", "long"} /\ StraightLine /\ ~narrow
   /\ Len(source) <= Fuel)
  => MachineRun(source, EnvOfCall, Fuel).result = <<"value", outcome.value.v>>

(* lower ends with verify_graph: what it builds from whatever method passes, so *)
(* a method is refused at one of its instructions or not at all.                *)
LoweringIsVerified == lower.status = "failed" => lower.pc < Len(method)

(* A pipeline that succeeds hands on a graph with the result and the effects of *)
(* the graph it was given, if that runs without a trap.                         *)
OptimizedMeansTheSame ==
  Compiled /\ outcome = Idle =>
    \A env \in Environments :
      LET before == MachineRun(source, env, Fuel)
          after == MachineRun(graph, env, Fuel)
      IN  before.result # <<"trap">>
          => after.result = before.result /\ after.obs = before.obs

PeepholeAt == CHOOSE k \in DOMAIN RubyPipeline : RubyPipeline[k] = "Peephole"

(* What SCCP, folding and simplification put beside a node typed Int is what    *)
(* the node computes, until Peephole puts shift counts there.                   *)
FoldedValuesAreRight ==
  (lower.status = "lowered" /\ 0 < done /\ done < PeepholeAt /\ ~rejected) =>
    \A env \in Environments :
      LET run == MachineRun(graph, env, Fuel)
      IN  \A id \in run.ran :
            Has(graph, id, "IsConst") /\ graph[id].type = "Int" => run.vals[id] = graph[id].val

(* Rule B.5, every pass must be idempotent.                                     *)
PassesAreIdempotent ==
  (lower.status = "lowered" /\ 0 < done /\ done <= Len(RubyPipeline) /\ ~rejected) =>
    Run(RubyPipeline[done], graph) = graph

(* The graph handed on is one the verifier takes, though the last pass that     *)
(* removes nodes does not ask it.                                               *)
AcceptedGraphsVerify == Compiled => Verified(graph)

(* Graphs as they reach the emitter: after lowering alone or after the passes.  *)
Emitted == (lower.status = "lowered" /\ done = 0) \/ Compiled

(* Graphs without branches, on which HeapMachine is defined.                    *)
IsStraight(g) == OfKind(g, {"If", "Loop", "Jump", "LdLoc", "StLoc"}) = {}

(* Rule 38, Differential testing, on the DIAMOND tier, as data and effects      *)
(* flow: escape analysis, forwarding of loads, materialization, unboxing,       *)
(* devirtualization and packing into vectors keep what is returned, and in a    *)
(* graph that the emitter takes also what calls, stores and monitors see.  Left *)
(* out are methods of which PEA is known to lose a store, and packs that make   *)
(* a cycle.                                                                     *)
PeakAgrees ==
  (/\ Peak /\ outcome = Idle /\ (debug \/ Verified(graph))
   /\ IsStraight(source) /\ Acyclic(graph)) =>
    \A env \in Environments :
      LET before == HeapRun(source, env)
          after == HeapRun(graph, env)
      IN  before.odd = {} => /\ after.returned = before.returned
                             /\ Verified(graph) => after.obs = before.obs

(* What AlgebraicSimplification and Peephole put beside a node that they would  *)
(* replace, a 0, a 1 or a shift count, is not what the node computes.           *)
StandsIn(g, id) ==
  /\ Valid(g, id) /\ Has(g, id, "IsConst") /\ g[id].kind \in BinaryKinds
  /\ g[id].type # "Int" \/ ShiftsInstead(g, id)

StoresStandIn(g) ==
  \E id \in OfKind(g, StoreKinds) : Len(g[id].in) > 1 /\ StandsIn(g, g[id].in[2])

(* PEA forwards it from a field all the same; where none is stored in a field,  *)
(* the tier computes what the program does.                                     *)
PeakMeansTheSame ==
  \/ OfKind(source, StoreKinds) # {} /\ StoresStandIn(RunPipeline(RubyPipeline, source, debug).g)
  \/ PeakAgrees

(* What a node is computed from, near and far.                                  *)
ComputedFrom(g, id) ==
  FoldLeft(LAMBDA back, k : back \cup UNION {DataInputs(g, x) : x \in back \ {NoId}},
           DataInputs(g, id), Ascending(g))

(* Sums of sums, at most: operations that SLP packs depend on one another only  *)
(* as a node on its operand, and on one of their own kind.                      *)
OnlyNearDependences(g) ==
  LET packable == OfKind(g, ToSet(PackableKinds))
  IN  \A a, b \in packable :
        a \in ComputedFrom(g, b) => a \in DataInputs(g, b) /\ g[a].kind = g[b].kind

(* SLP looks at operands alone to tell what may be packed, so through a third   *)
(* node a pack can come to depend on itself; where dependences are near, the    *)
(* graph handed on can be computed in some order.                               *)
PacksAreComputable ==
  Peak /\ outcome = Idle /\ Acyclic(source) /\ OnlyNearDependences(source) => Acyclic(graph)

(* Graphs with branches, loops included, but without objects and vectors: the   *)
(* copies that LoopUnrolling makes are never entered.                           *)
PeakKeepsControl ==
  (Peak /\ outcome = Idle /\ OfKind(source, AllocationKinds) = {}
   /\ OfKind(graph, {"VectorOp"}) = {}) =>
    \A env \in Environments :
      LET before == MachineRun(source, env, Fuel)
          after == MachineRun(graph, env, Fuel)
      IN  before.result # <<"trap">>
          => after.result = before.result /\ after.obs = before.obs

(* The emitter binds labels in reverse post-order and emits nothing at the end  *)
(* of a block without a branch: the block it runs into must come right after.   *)
FallThroughIsAdjacent ==
  Emitted /\ outcome = Idle =>
    LET bs == BlockStructure(graph)
        order == ReversePostOrder(graph, bs)
    IN  \A k \in DOMAIN order :
          LET b == order[k]
          IN  /\ graph[LastOf(graph, bs, b)].kind \notin {"If"} \cup Enders
              /\ b + 1 \in Blocks(bs)
              => k < Len(order) /\ order[k + 1] = b + 1

(* In the same order, a value is computed before it is used.                    *)
OperandsComeFirst ==
  Emitted /\ outcome = Idle =>
    LET layout == Layout(graph)
    IN  \A k \in DOMAIN layout :
          graph[layout[k]].kind # "Phi"
          => DataInputs(graph, layout[k]) \subseteq {layout[j] : j \in 1..k - 1}
==============================================================================
