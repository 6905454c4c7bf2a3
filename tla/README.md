# A formal model of .JADE

.JADE is a compiler for CIL and JVM bytecode with four tiers: an interpreter (Tier 0,
granit), a baseline JIT (Tier 1), an optimizing JIT on a sea-of-nodes IR (Tier 2) and a peak
tier with partial escape analysis and loop transformations (Tier 3). This directory holds
TLA+ modules for its core logic, the TLC configurations that check them, and TLAPS proofs.
Paths below are relative to the repository (`src/src/jade` here is its `src/jade`).

## Inventory

| Component | State | Operations | What is hard | What makes it correct |
|---|---|---|---|---|
| `runtime/Epoch.hpp` EpochGC | global epoch, one announcement per thread, list of retired nodes | register_thread, enter, exit, retire, try_reclaim | announcements are read one at a time, relaxed and release orders, the stamp is old, slot overflow | no use after free; everything retired is freed |
| `runtime/Safepoint.hpp` SafepointManager, `tier1_jade/SafepointEmitter.cpp` | two atomic flags per mutator | register_thread, request, release, poll, enter_safepoint | late answers, timeouts, back-to-back requests, two requesters | counted mutators stay stopped; requests are granted; mutators resume |
| `runtime/TierManager.hpp`, `TieredDispatch.hpp` | per method: count, tier, entry points, owner of the code | invoke, compile_at_tier, mark_compiled, set_thresholds | failed compilations, lifetime of replaced code, 32-bit count | the entry in use is alive; the tier follows the count |
| `tier1_jade/LinearScanRegAlloc.cpp` | live intervals, active list, spill slots | allocate: intervals, loop extension, walk, slots | expiry that keeps dead intervals, an unsorted list searched with lower_bound, victims | overlapping values never share a register; each value has one home |
| `tier1_jade/CodeEmitter.cpp`, `FrameLayout.cpp`, `JadeJit.cpp` | machine code for each node | compile, emit | scratch registers that are also allocatable, operands in fixed registers, back edges | every node finds its operands |
| `ir/Graph.cpp`, `ir/Verifier.cpp` | nodes with data, control and effect inputs | create, set inputs, replace_all_uses, mark_dead, verify_graph | stale references after a rewrite | no live node refers to a dead one |
| `ir/passes/*` (Tier 2) | the graph | a rewrite per pass, in a pipeline | side data, dominance, effect order, fixpoints | the graph computes what it computed before |
| `tier3_diamond/*` (Tier 3) | the graph, use lists built once and read after rewrites | escape analysis and scalar replacement, unrolling, devirtualization, packing | uses that have changed since the lists were built, stores that are lost, packs that depend on themselves | objects, results and effects are kept; control is kept; packs can be computed |
| `ir/passes/BuildRegions.cpp`, `GCM.cpp` | blocks, edges, dominators | build_block_structure, reverse_post_order | loops, unreachable blocks | dominators dominate; inputs come before uses |
| `tier0_granit/*` | operand stack, locals, pc | run, one case per opcode | wrap-around, error sentinel, empty stack | same results as the compiled code |
| `cil/Lowerer.cpp`, `jvm/Lowerer.cpp` | abstract stack, graph under construction | lower a method | branches, empty stacks, unknown locals, merges | the graph means what the bytecode means |
| `jvm/ClassFile.cpp`, `core/*`, `driver/*` | none that outlives a call | parsing, allocation, command line | | |

How they interact: a method is interpreted until TierManager's thresholds ask for a tier;
TieredDispatch then lowers it, runs a pass pipeline, and JadeJit verifies the graph,
allocates registers and emits code. Interpreters and compiled code poll the safepoint flags.
EpochGC is meant to protect IR nodes the compiler threads share; it has no caller in the
source yet. Compilation is synchronous: the job scheduler of `docs/ARCHITECTURE.md` is not
in the source.

## The modules

| Module | Models | Extended by |
|---|---|---|
| `Reclamation` | what safe memory reclamation promises, without epochs | `EpochGC` (`INSTANCE`) |
| `EpochGC` | `runtime/Epoch.hpp` | `MCEpochGC` (TLC), `EpochGC_proofs` |
| `Safepoint` | `runtime/Safepoint.hpp` and the polls | `MCSafepoint`, `Safepoint_proofs` |
| `TieredDispatch` | `runtime/TieredDispatch.hpp`, `TierManager.hpp` | `MCTieredDispatch`, `TieredDispatch_proofs` |
| `LinearScan` | `tier1_jade/LinearScanRegAlloc.cpp` | `CodeEmitter` |
| `CodeEmitter` | `tier1_jade/CodeEmitter.cpp` with `LinearScan`: JadeJit::compile and the run of the code | `MCCodeEmitter`, `CodeEmitter_proofs` |
| `SonGraph` | `ir/Graph.cpp`, `NodeKind.cpp`, `Verifier.cpp`: nodes, use replacement, verify_graph | `Regions`, `JvmLowerer` |
| `Regions` | `ir/passes/BuildRegions.cpp`: blocks, edges, loop headers, reverse post-order | `SonMachine` |
| `SonMachine` | what a graph computes, as `CodeEmitter.cpp` emits it: order of blocks, 64-bit arithmetic | `RubyPasses`, `JvmInterpreter` |
| `RubyPasses` | the nineteen passes of `ir/passes/PassPipeline.cpp`, operators on graphs | `DiamondPasses` |
| `DiamondPasses` | the passes of `tier3_diamond/*.cpp` and both pipelines | `HeapMachine` |
| `HeapMachine` | what a graph without branches computes, with objects on a heap | `JvmPipeline` |
| `JvmCode`, `CilCode` | decoded instructions of `jvm/Opcode.hpp` and `cil/Opcode.hpp` | the lowerers and interpreters |
| `JvmInterpreter`, `CilInterpreter` | `tier0_granit/JvmInterpreter.cpp`, `CilInterpreter.cpp` | `JvmPipeline` |
| `JvmLowerer`, `CilLowerer` | `jvm/Lowerer.cpp`, `cil/Lowerer.cpp` | `JvmPipeline` |
| `JvmPipeline` | one method through lowering and the passes of either tier, then a call of it by granit | `MCJvmPipeline`, `Lowering_proofs`, then `Baseline_proofs`, `Optimizer_proofs` and `Passes_proofs` |

Each operator whose comment starts with "Mutant" is a plausible bug: replacing the
definition that follows it by this one makes TLC report the property named in
`PROJECT.json`. They play no part in the specifications.

### EpochGC

One step per atomic access. `Register`, `EnterLoad`/`EnterStore`, `Exit` are the calls of a
thread; `ReclaimStart`, `Scan` (one announcement), `Sweep`, `Advance` are try_reclaim. The
vector `retired_` is not synchronized: as its comment asks, one thread (`Owner`) retires
and sweeps. `Acquire` and `Unlink` are the clients, which are not in the repository: a
thread between enter and exit may read any linked node, and Owner unlinks a node before it
retires it. `StampPolicy` is what Owner passes to retire: the epoch enter returned ("entered"), as the
comment of retire says, or `current_epoch()` ("current").

`LateStores` names the threads whose release store of enter may become visible late.
`FreedPastContemporaries` is about the case in which nodes are freed while someone holds them, so it
is checked with the stamp of enter, in `epoch_live`: with `current_epoch()` it would follow from
`NoUseAfterFree`. One of the readers there has late stores, and the property is about the others.

`Reclamation` is the abstract specification: a node is linked, then unlinked, then freed, and
only what nobody holds and nobody can obtain is freed. `EpochGC` implements it with the
pointers a thread holds (`refs`) as `held`; announcements, epochs, the retired list and the
scan are the implementation's own.

### Safepoint

One step per atomic load that decides something and per atomic store. A requester walks
`states_` twice (raise the polls, wait for each mutator), may time out, retries or
releases; a mutator polls, announces, spins, and retracts. `Pace` says how long a requester
pauses between a release and its next request. `safepoint_safety` has one requester that lets
late answers arrive first; `Safepoint_late_answer.cfg` and `Safepoint_two_requesters.cfg` show
what happens otherwise. Growing `states_` under one of the loops is
undefined behaviour in C++ (the loops do not take `states_mutex_`) and is left out.

### TieredDispatch

A step is one `invoke`: count, ask for the tier, compile, install. Lowering, passes, verifier,
allocation and emission look at nothing but the bytecode, so a method that a tier refuses once it
refuses at every retry: which tiers refuse which method is chosen in `Init` (`refused`) and stays.
Only the executable memory for the code may be there one day and not the next
(`ShortOfMemory`). Code is numbered per method, so an entry is alive when it is the code whose
JadeJit `compiled_` holds.

The header (`TierManager.hpp:10`) and `docs/ARCHITECTURE.md:72` make the step to DIAMOND depend on
a stable profile too. The code keeps no profile and takes the step by the count alone, and so does
the model: `TierFollowsCount` is what the code does, and less than those lines say.

### LinearScan and CodeEmitter

A graph is the sequence of its nodes' kinds and their data inputs. A step of `LinearScan`
handles one node, as the loops of the code do: `AddUses`, `ExtendOverLoop`, then
`TakeFreeReg`, `SpillItself` or `SpillVictim`, then `AssignSlot`. std::sort may order equal
ends in any way and std::lower_bound on the list a removed victim leaves unsorted may stop
anywhere a binary search can: both are nondeterministic.

`CodeEmitter` gives each kind of node the register moves it emits and runs them, written with
four instructions (`Put`, `Mov`, `Load`, `Store`). The machine is symbolic: a register or a
stack cell holds the number of the node whose value it is, an argument, or junk; an
instruction whose registers do not hold its node's operands makes junk. What an operation
computes is left out, where values are is not. The stack frame is that of build_frame_layout:
spill slots first, then two locals. A conditional branch and a switch may go any way. `Rejected` is where emit returns
an error: an unsupported kind, a wrong number of operands, an `Add` whose second operand is
overwritten and has no slot to come back from. The history variable `stored` remembers the
node stored last in each local, so that `LdLoc` can be told right from wrong.

### SonGraph, Regions, SonMachine

A graph is a sequence of nodes; ids count from 1, as in the code, and 0 is NodeId::none. A
node has its kind, flags, data inputs, control and effect inputs, type and the value of its
side data. `Verified` is verify_graph. The number of an edge in the edge pool, use counts and
names are left out: count_uses of the passes walks the nodes, and so does the model.

`SonMachine` gives a graph its meaning, which the source states only through the emitted code:
blocks in reverse post-order, inside a block the order of the ids, `If` and `Jump` to the
leader of a block, everything else falls through. A Phi of the lowerer has no inputs and stands
for an incoming local; its value, and what calls and loads return, come from an environment.
The observable effects are the calls and stores in their order with the values they got.
Falling off the end of the code is the result "junk". `idiv` faults on a divisor 0 and on the
least long divided by -1, for the remainder too: the result "trap" (`Traps`, `Overflows`).

### RubyPasses

One operator per pass, in the order of build_ruby_pipeline. Some passes only set flags that a
later pass or the emitter reads (`IsConst`, `IsScheduled`, `IsCold`), some only look. SCCP's
worklist is replaced by its fixpoint, which ascending ids reach in one sweep, since Phis
are overdefined at once. The signature of a node is the source's, so what it does not
distinguish is not distinguished here.

SCCP and ConstantFolding divide constants with the `/` and `%` of C++ and look for a divisor 0
only. The least int64_t divided by -1 is undefined there and an `idiv` that faults on the
x86-64 this code generator is for: `Faults` says of which graphs a pass does so, and such a pass
does not return a graph (`PassTraps` of `JvmPipeline`). Sums, differences and products of SCCP that
overflow are undefined too; they are modelled as the wrapped value that a build without
`JADE_ENABLE_SANITIZERS` computes, and ConstantFolding wraps by functions of its own.

### DiamondPasses, HeapMachine

One operator per pass of Tier 3, over the same graphs. `u` is the graph as it was when the use
lists were built: PEA, SRA and the others go on reading those lists after they have
rewritten the graph, so a use may be one that is no longer there. `HeapMachine` is the meaning
these passes are compared by: `SonMachine` knows no heap, and these passes move what is on it.
It runs the nodes of a graph without branches in any order their operands and the effect chain
allow (the chain through dead nodes, which passes leave on it), and keeps objects with their
fields, what escaped, and what calls, stores and monitors have seen.

### The lowerers, the interpreters and JvmPipeline

`JvmLowerer` and `CilLowerer` have one action per group of opcodes. They do not follow branches:
a method is lowered from the first to the last instruction, with one abstract stack.
`JvmInterpreter` and `CilInterpreter` have one action per group of cases of the loop of `run`,
and keep where the error flag is looked at: after the switch, which a taken branch and a
return never reach. In CIL the tags of the operands choose the operation, and comparisons go
through double (`Rounded`), so two longs may compare as equal that are not.

`JvmPipeline` starts with a method or with one of the unit tests' graphs; `Lower`, then
`Optimize` once per pass of RUBY (with the verification of debug builds, whose failure stops
the pipeline) or `CompilePeak`, the whole DIAMOND pipeline, in a debug or in a release build;
then `Call` and `Interpret`. `PassTraps` is a pass that divides the least long by -1, of either
pipeline: the process is gone, and nothing of the rest happens.

## What is checked

| Run | Result | What it shows |
|---|---|---|
| `epoch_safety` | holds | EpochGC implements Reclamation (`ImplementsReclamation`); with a slot per thread, visible announcements and `current_epoch()` as the stamp, no thread holds a freed node (`NoUseAfterFree`) |
| `epoch_live` | holds | stamped with the epoch enter returned, nodes are freed under threads that hold them, but never under one that entered no later than the stamp and announced it in time (`FreedPastContemporaries`); a retired node is eventually freed, also with delayed announcements |
| `epoch_stale_stamp` | violated | with the epoch enter returned as the stamp, a thread that entered later keeps a freed node |
| `safepoint_safety` | holds | who was counted stays in enter_safepoint until the release, through timeouts and retries, when no late answer is on its way at the next request |
| `safepoint_live` | holds | when every mutator has left the safepoint before the next request, requests are granted and mutators resume |
| `safepoint_back_to_back` | violated | a request made before a released mutator has seen the release is never granted |
| `dispatch_safety` | holds | the entry of the current tier, which is the best one, is alive; a method is compiled once per tier; an undisturbed method is in the tier of its count; a method that stays hot climbs to the tier below the first that refuses it and stays there, unless memory is short again and again (`HotMethodsSettle`) |
| `dispatch_dangling` | violated | the entry of a lower tier is left pointing to destroyed code |
| `codegen_safety` | holds | overlapping intervals have different registers; each value is in one register or one slot, slots do not overlap; when no node takes a register in use for itself, every node executed finds its operands and every local what was stored in it |
| `codegen_division` | violated | a division whose dividend is in a register other than RAX divides what RAX holds |
| `jvm_pipeline` | holds | what is lowered verifies (`LoweringIsVerified`); what granit returns, the lowered graph (`BaselineAgrees`) and the optimized graph return, for Java and CIL (`CompiledAgrees`); the passes of RUBY keep result and effects (`OptimizedMeansTheSame`), fold to the right values, change nothing when run again, and leave a graph the verifier takes and the emitter can lay out; those of DIAMOND keep results, objects and effects (`PeakMeansTheSame`) and control (`PeakKeepsControl`), and make no pack that waits for itself (`PacksAreComputable`) |
| `jvm_two_locals` | violated | CSE takes the Phis of two locals for one: `iload_0; iload_1; isub` gives 0 |

The violated runs are disagreements between the code and its documents or comments; the
lines are quoted in `PROJECT.json`, "findings". Each is one disagreement of one part. Others of the
same parts have a configuration but no run; TLC finds each of these violated too, and they show
what the conditions of the runs leave out:

| Configuration | Violated | What it shows |
|---|---|---|
| `EpochGC_late_store.cfg` | `NoUseAfterFree` | a thread reads a node before its announcement is visible (Epoch.hpp:76, a release store without a fence), and the sweep frees the node |
| `EpochGC_shared_slot.cfg` | `NoUseAfterFree` | with one thread more than slots two share slot 0 (Epoch.hpp:67); when one exits, the nodes of the other are freed |
| `Safepoint_late_answer.cfg` | `CountedStayStopped` | the answer to a request that timed out and was released is counted for the next request, while the mutator leaves |
| `Safepoint_two_requesters.cfg` | `CountedStayStopped` | of two requesters the release of one lets run the mutators the other has counted |
| `CodeEmitter_scratch.cfg` | `CodeIsRight` | a sum without a register is computed in RAX (CodeEmitter.cpp:375), which holds a value used later |
| `JvmPipeline_fold_overflow.cfg` | `HostSurvives` | of a product of int constants divided by -1, 0 for granit, SCCP divides the least long by -1 itself (SCCP.cpp:54): the compiler gets the fault, although docs/STRICT_ERROR_HANDLING.md:22 has .JADE "never crash the host process" |
| `JvmPipeline_least_int.cfg` | `HostSurvives` | granit divides the least int by -1 (JvmInterpreter.cpp:174) and gets the fault too |
| `JvmPipeline_int_overflow.cfg` | `TiersAgree` | `(x * x) / 7` of ints: granit wraps the product at 32 bits, the compiled code does not |
| `JvmPipeline_long_compare.cfg` | `TiersAgree` | two longs that round to one double: granit (CilInterpreter.cpp:212) takes neither for the greater, the compiled code does |
| `JvmPipeline_doubled_field.cfg` | `PeakAgrees` | `p.f = x * 2; return p.f` returns 1 on the DIAMOND tier, the shift count that Peephole left and PEA.cpp:365 takes for the value |

`CodeIsRight` says that every node executed finds its operands, and is violated (`codegen_division`,
`CodeEmitter_scratch.cfg`). `UndisturbedCodeIsRight` has the condition `Disturbs`, for the emitter does disturb values:
RAX, RCX, RDX, RDI and R11 are both allocatable and used as scratch, idiv and the shifts
read a fixed register in which nothing has put the operand, `LdArg` reads an argument
register that may have been given away, a spilled `ConstNull` and `ConvI8` emit nothing, a
spilled `IsInt` is not saved, and operations whose destination is the register of the second
operand overwrite it (`Add` loads that operand again, but into RCX, which is the
destination itself when the destination is RCX). The condition speaks of one node and the
intervals around it; the property, of whole runs of the code through loops and spills, so it
rests on the allocator, the loop extension, the slots and the frame layout. Every kind of
node that emits code and does not always disturb is executed undisturbed in some graph of
`codegen_safety`, spilled operands included.

`CompiledAgrees` has the conditions `StraightLine` and `~narrow`. The first leaves out methods
in which the lowerer gives up the meaning: branches (both arms are lowered one after the other
on one stack), `lcmp` and `fcmp` (lowered as Lt), and floats. The second leaves out runs in
which an int operation lost bits (granit computes ints in 32 bits, the emitted code in 64), or
in which a tag or the rounding to double decided a CIL comparison; without that condition
the statement is `TiersAgree`, and `JvmPipeline_int_overflow.cfg` and `JvmPipeline_long_compare.cfg` violate it.
`OptimizedMeansTheSame` has no such condition, so branches, effects, calls and allocations are
in it; what it leaves out is a source that traps, for CSE may keep the earlier of two divisions
and dead code elimination may remove one. `jvm_pipeline` gives methods one local; with a
second one the finding of `jvm_two_locals` is everywhere.

`PeakMeansTheSame` is about graphs without branches that JadeJit may be given: those a debug
build accepts, and those of a release build that the verification at the start of
JadeJit::compile accepts. What others see is compared only where the final graph verifies, for
else no code is emitted. It leaves out (`odd`) the runs in which PEA is known to lose a
store, listed below, and graphs with a pack that waits for itself (`PeakAgrees`). It also leaves out
methods that store a stand-in in a field (`StoresStandIn`): AlgebraicSimplification and Peephole put
a 0, a 1 or a shift count beside a node that they do not replace, and PEA takes that number for the
value of the field (`JvmPipeline_doubled_field.cfg`). Only where the DIAMOND pipeline forwards from fields is
this harmful, so the condition is about what the RUBY part of it has put beside the values
stored. Methods of the run store constants, sums, and products that are and that are
not turned into shifts. `PeakKeepsControl` is about
graphs with branches and loops, without objects and without vectors, whose nodes come after
the Return in the order of emission. `PacksAreComputable` is about sources in which the nodes SLP
looks at depend on one another directly or not at all, which is all that SLP checks.

What the model showed on the way, kept here because no run states it:

* `ICStubEmission` makes CheckClass nodes without a frame state. In a debug build
  verify_if_enabled rejects the graph, so a method with a virtual call is not compiled by RUBY or
  DIAMOND; in a release build it goes on, a second run of the pass adds a second check, and
  JadeJit refuses the graph. `Devirtualization` therefore never takes effect.
* `EscapeAnalysis` (EscapeAnalysis.cpp:89-91) calls an allocation unused by its data uses alone.
  Killing it leaves the next effect with a dead effect input, which the debug build
  rejects and the release build does not.
* `ControlFlowSimplification` kills an If on a constant and leaves both projections; control
  then falls into whichever comes first, IfTrue as the lowerer orders them, also when the
  constant is 0. In the debug build the dead If is still the control input of its projections
  and the verifier rejects the graph; in the release build it goes on.
* PEA forwards a load from a field, unboxes a round trip and removes a NoEscape box, and leaves
  the dead node on the effect chain: the graph does not verify and JadeJit does not compile it.
* PEA forwards the first store to a field only: after `p.f = x; p.f = 3`, `return p.f` is not
  forwarded, all stores are removed, the graph verifies and the field is never written.
  A store of an object into a static field or another object is removed as well, a store after
  the object escaped is moved before the escape, and a stored value that is itself a
  forwarded load may be forwarded after it is dead.
* `Materialize` loses the offsets of fields (their order is that of a hash table), and the
  emitter refuses the node (CodeEmitter.cpp:794).
* SLP looks at the operands of two nodes to tell whether they depend on each other; through a
  third node, as in `(x + y) * 2 + z`, it packs nodes into a vector that waits for itself.
* A VectorOp stores its lanes below its own slot, over other slots; a VectorExtract emits nothing
  unless the vector is spilled.
* The copies that LoopUnrolling makes are never entered.
* GVN numbers LdLoc, flagged pure, across StLoc; the lowerer makes neither.
* The signatures of CSE and GVN have no value for a ConstFloat (CSE.cpp:52, GVN.cpp:55), so two
  float constants of a method become one. `jvm_pipeline` has one value for all of them.
* BCE's second phase accepts an index that counts from 0 without looking at a loop test.
* granit skips `frame.error` on a taken branch and on a return (`ReturnTop` gives uninit for an
  empty stack); `if_acmp` pops one operand in the lowerer.
* Dominators are computed by BuildRegions and read by nobody but its tests.

### Bounds, and why they are enough

* EpochGC: two readers and the owner, two nodes (one in `epoch_live`), 3 slots, epochs to 3
  (4 in `epoch_live`). A reader two epochs behind, the grace period of the algorithm, exists
  from epoch 3 on. `EpochGC_shared_slot.cfg` has 2 slots for the three threads. Symmetry over readers and nodes is used for safety only.
* Safepoint: one requester; three mutators, two of them
  registered at the start in `safepoint_safety`. Races are between a requester and one mutator, with another at a
  different point of its loops.
* TieredDispatch: two methods with any set of tiers that refuse them, thresholds 2/4/6 (those of the tests) and 1/3/4, a count that
  wraps at 8 instead of 2^32, so every tier is reached before and after the wrap.
* LinearScan and CodeEmitter: twelve shapes of graph with every data flow that respects
  definitions (`Available`), two divisions of a spilled dividend and an `Add` with one operand;
  12,306 graphs and 633,662 distinct states. Three registers in `codegen_safety`: the first
  of the code's list and two scratch registers of the emitter, so that spilling, victims,
  re-use and interference all happen with six live values; the three scratch registers alone
  in `codegen_division`.
* JvmPipeline: ints of 4 bits, longs of 8, doubles of 6 significant bits, so that both widths wrap,
  shift counts are reduced and a long loses bits as a double; an operand stack of 3, so that it
  overflows. Methods: every Java method of up to three opcodes of each of four families
  (arithmetic, effects, control, rarer opcodes over a filled stack), and a return; four opcodes
  over smaller families; `x - 2 - (2 - x)`; the same for CIL with three opcodes over an argument,
  a local, and a filled stack; and methods that make an object or a box and do up to three
  things with it; methods that store an operation on two operands in a field and read the
  field; and divisions of the least long, by -1 and by others, of which one is known to
  ConstantFolding but not to SCCP. The shorter ones and those with objects or divisions by -1 are
  compiled by DIAMOND too. Twenty-one graphs of the unit tests with loops, branches, guards, fields
  and sums. 14,781 initial and 340,462 distinct states. Passes look at a node, its inputs and its
  users, so most of what they confuse needs two nodes and their inputs. The runs that are
  violated have one method or a few, named in `MCJvmPipeline`. Two environments, each with different values for
  the nodes that matter. `Fuel`, 70 machine steps, is enough for the longest loop here. One value
  stands for all float constants.

### Fairness

Only where liveness is checked. EpochGC: compilations end, stores reach memory, the owner
retires what it unlinked and the sweep runs again, as `docs/ARCHITECTURE.md` says it does at
the end of every compilation; nobody has to start a compilation. Safepoint: a mutator that runs
polls ("every loop back-edge and return") and carries enter_safepoint through; a requester
carries its calls through and releases; nobody has to request, and no timeout is assumed.
TieredDispatch: every method is invoked again and again (weak fairness of its invocations, which
are always possible); which of them compile, and which fail, is not assumed. A method that a tier
refuses is refused for ever, so it need not reach the top, and one for whose code memory is short
again and again is left out of `HotMethodsSettle`.

## What is proved

The theorems hold for every value of the constants that satisfies the named assumptions.

* `EpochGC_proofs`: `TypeCorrect`; `SweepIsSafe` (any stamp: what a sweep frees is older than
  every thread that holds it and whose announcements are not late, whatever those of others are)
  and `CurrentStampIsSafe` (no use after free with `current_epoch()` when no announcement is
  late), both when every thread has its own slot. The invariant: slots are distinct (`SlotInv`);
  the announcement of an active thread that is not late is its local epoch and an inactive
  thread holds nothing (`AnnounceInv`);
  a node is linked, retired once or freed (`PhaseInv`); and during the scan and the sweep,
  every such thread of an already scanned slot that holds a retired node has been counted, that is
  `anyActive` is set and `minEpoch` is no larger than its epoch (`ScanInv`).
  `EpochsImplementReclamation`, under the same assumptions: every step of EpochGC is a step of
  Reclamation or a stutter; the sweep is its `Free`, by the invariant.
* `Safepoint_proofs`: `SafepointTypes`; `SingleRequesterIsSafe`: one requester that does not
  time out holds everyone it counted, however close its requests. The invariant ties the two
  flags of a mutator to where it and the requester are.
* `TieredDispatch_proofs`: `DispatchTypes`; `LiveEntries`, from the invariant that entries are
  installed from the lowest tier up, the last one being the one `compiled_` owns;
  `CompiledOnce`, where code is generated at all, since nothing has been compiled for a tier
  above the method's; `TiersFollowCounts`, with ascending thresholds too, since an undisturbed
  count has reached a threshold exactly when the tier has.
* `CodeEmitter_proofs`, of the allocator: `AllocTypes`; `RegistersAreExclusive`, for any graph and any pools. The
  invariant (`WalkInv`): every earlier interval that has a register and has not ended is in the
  active list. It is kept although expire_active sweeps only from the front and the list may be
  out of order: lemmas on lists show that sweeping, sorting, removing a victim and inserting
  lose nothing that is live.
  In the same module `HomesAreUnique` (one register or one slot, `spills` lists each spilled value
  once) and `SlotsAreApart`. The invariants: a value the walk has passed has a register or is
  marked as spilled, only intervals with registers are active (`HomeInv`), and a slot is
  numbered past every slot before it (`SlotsInv`).
  In the same module, of the emitted code, `CodeTypesHold`, for any graph and any pools: the code reads and
  writes only cells of its frame, although the emitter lays the frame out by the number of
  spilled values and addresses slots by the allocator's offsets. The invariant (`Allocation`)
  joins those above with two more: slots are numbered from one on (`CountInv`), and an
  interval ends after each use and after the back edges of the loops that use it (`EndInv`).
  `RunKeeps` says what the code of one node can change at all.
  Then `UndisturbedCode`, that `UndisturbedCodeIsRight` holds for every graph in
  which values are defined on every path to their uses and no node has more than three
  operands (`WellFormed`; the graphs of `codegen_safety` are such, with `Available` as the
  witness), and for any pools. The inductive invariant (`RightInv`): a value that a later
  node, or a node of the loop around, uses is at home. It is inductive because what is wanted
  after a node was wanted before it and its interval goes on past it (`WantedStays`, where
  the extension over loops is needed), and because the node then has neither its register
  nor its slot (`HomeStays`, where `RegistersAreExclusive` and `SlotsAreApart` are needed). The
  wider statement without `WellFormed` is false: a value can be used where it was never computed.
* `Lowering_proofs`: `LoweringAlwaysVerifies`, for every Java and CIL method of decoded instructions
  (`MethodsAssumption`). The invariant (`LoweringOK`): every node of the graph under construction
  points back at nodes that are there, hangs on the effect chain exactly when it has an effect,
  and is neither a guard nor dead (`LoweredGraph`); slots, stack, `current_ctrl_` and
  `current_effect_` name nodes of the graph. Two more facts of what is lowered, for the optimizer:
  branches come in order (`Tidy`), and of the effects only the last has none after it on the
  chain (`Built`).
* `Baseline_proofs`: `BaselineAlwaysAgrees`, `BaselineAgrees` for every method without branches and
  floats, all arguments, all widths. The invariant (`BaselineOK`) keeps the trace of the lowering:
  stack and slots before each instruction and the nodes it appended (`TracedAs`); granit's frame at
  an instruction holds the values of the nodes that the trace has there (`Coupled`). What the
  machine does with the graph is computed once: the layout of a graph whose first ender is a
  Return is the identity up to it (`LayoutIsFirstBlock`), and the run returns its operand
  (`RunReturns`). Recursive functions and folds are CHOOSEn; that there is one to choose is proved
  for each by induction over prefixes (`PrefixInduction`), the rest by their equations.
* `Optimizer_proofs`: `AcceptedGraphsAlwaysVerify`, for any methods and any graphs of nodes
  (`GraphsAssumption`), in a debug build (a release build verifies nothing after lowering). The
  invariant (`OptimizerOK`): from ConstantFolding on, which verifies in any case, an accepted graph
  is `Verified`. Every other pass leaves the graph alone, or has it verified, or fails;
  DeadCodeElimination, which changes graphs and never asks, keeps what the verifier looks at,
  since nothing alive refers to what it sweeps (`SweepVerified`).
  In the same module, in any build, `FallThroughIsAlwaysAdjacent` and `OperandsAlwaysComeFirst`:
  the layout of the code of every method, branches included, before and after the RUBY tier, and
  of each graph built by hand that is `Forward` (`OnlyForward`; a graph with a Loop or a Jump is
  not, and is left to the run). `Forward` is the invariant (`ForwardOK`): the operands of a live
  node are earlier live nodes, none of them a branch or a check; If, IfTrue and IfFalse come one
  after the other, and the two projections stay alive. The lowerers build such graphs (`Tidy`,
  in `Lowering_proofs`), and each of the 19 passes keeps them so (`RubyKeepsForward`): what GVN
  and CSE put in the place of a node comes before it and has its kind (`Numbered`), what
  dies has no live user, and the branches and checks that ControlFlowSimplification, BCE and NCE
  kill without asking are nobody's operands. In such a graph each block leads to the next, or to
  the next two, up to one that ends the code: the depth-first search goes down that line and
  finds every other successor visited on its way back (`WalkDown`, `WalkUp`), so the reverse
  post-order is ascending (`OrderOfLine`; these lemmas on graphs and their layout are at the end of
  `Baseline_proofs`, and so are those on the machine).
  In the same module, in a debug build, `RubyMeansAsBefore`: for every method, branches, objects and
  floats included, and every environment that is `Comparable`, the graph after the 19 passes
  returns or throws what the lowered graph does, and calls, stores, allocations and monitors
  are seen with the same operands in the same order, unless the lowered graph traps. Hence
  `OptimizedAlwaysMeansTheSame`, the property that `jvm_pipeline` checks, and with
  `BaselineAlwaysAgrees` also `CompiledAlwaysAgrees`: the compiled method returns the int or long that
  granit returns. The invariant (`MeaningOK`, over all environments at once): each node of the
  source is still there with its kind, its constant and operands of the same values (`Kindred`);
  what was added are checks; and every effect still has the next one after it (`Linked`).
  Each pass keeps that (`RubyAgrees`), two of them for a reason: what CSE and GVN put in the place
  of a node has its signature, and a signature tells a value (`SignatureTells`). Dead effects
  are possible in such a graph, but not in one that the verifier takes, since the next effect refers
  to them (`EffectsLive`); that is where the debug build is needed: a release build loses a store
  before an unused `new`. What the machine does with a forward graph up to the first node
  that leaves it is computed once (`MeansRun`). `Comparable` has the limits of the passes, not of
  the proof: incoming locals have one value and float constants too, because CSE and GVN merge
  them (`jvm_two_locals` shows what goes wrong otherwise), and there is as much fuel as nodes.
  In the same module, in a debug build, `FoldedValuesAreAlwaysRight`: before Peephole, the integer
  that AlgebraicSimplification, SCCP or ConstantFolding puts beside a node is what the node computes
  in every run that reaches it, for every method and every width, if incoming locals and
  float constants have one value each (`Alike`; here without a bound on the fuel). Of the least long
  divided by -1 nothing is folded: the pass faults, and no graph comes of it. The invariant
  (`FoldOK`): each integer beside a node is the value the node has in the source (`Right`). Three
  passes write such integers, and each writes the node's value: `SimplificationRight` (only zeros, and
  an integer is written only where the type becomes Int: what the other rules put there is a
  placeholder), `SCCPRight` (a known value of the lattice is the node's, by induction over the nodes,
  since operands come first) and `FoldingRight` (a folded operand has its own value). The thirteen
  after them state nothing new (`LaterPassesState`). A run then knows of each node it was at the
  value the source has (`RunKnows`); that takes live effects, which the verifier gives from
  ConstantFolding on, and before it nothing is dead yet.

* `Passes_proofs`: `TypesAreAlwaysOK`, for every method and every graph built by hand, of whatever
  form (loops included), in any build: through lowering and all 33 passes of both tiers the
  operands of every node are nodes of the graph or none, although passes append nodes, copy
  bodies of loops, replace uses and kill what they replaced; what the lowerer has on its stack are
  nodes of the graph; and granit never writes past its stack, since each push checks
  kMaxJvmStack and sets the error flag instead (`Push`), whatever the loop then does with the
  frame. The invariant (`TypedOK`): all operands, the optional ones too, are ids of the graph
  (`Typed`), the graph has a node, and the frame has room (`HasRoom`). A pass is a
  fold, often a fold of folds, over a graph, or a graph with the copies or the table made so far
  (`Fine`); `FoldFine` is the induction over the length that all of them share, and what is
  left of a pass is that one step keeps the operands in the graph and never shortens it
  (`RubyTyped`, `DiamondTyped`).
  In the same module `PassesAreAlwaysIdempotent`, rule B.5 for every method and every hand-built
  graph of the form the lowerers give one (`Sound`). docs/PASS_LIST.md §5 has a proof pattern and
  three worked examples; here all nineteen are done, and what they need differs. Eight passes set
  a flag on nodes chosen by what the flag does not touch: the blocks, the loops, the kinds
  (`FlagPassTwice`). AlgebraicSimplification, Peephole and SCCP read constants and write beside
  other nodes, the constants of a lowered graph being marked as such already
  (`SimplificationTwice`, `PeepholeTwice`, `SCCPTwice`). Constant folding finds its own values
  beside the operands, because operands come first (`FoldingTwice`). A numbering leaves each node,
  once it has passed, as it is (`NumberedStays`), so that the second run builds the same table
  from the graph that the first left (`NumberingsTwice`, for graphs whose operands come first).
  Each round of DeadCodeElimination but the last has fewer live nodes, so there is nothing left to
  remove after as many rounds as nodes (`SweptStep`). The two left are not idempotent: an
  allocation that only a later, dead one used goes in the second run, and ICStubEmission adds its
  checks again. A debug build refuses both: a dead allocation is still on the chain of effects
  (`EscapeTwice`), a stub is a guard without a frame state (`StubsTwice`), so what passes is a
  graph that the pass has not changed. In a release build, where nothing is refused, the theorem
  leaves these two out, and docs/01-laws.md:57 does not hold of them. The invariant (`RepeatOK`)
  has beside the property that the graph keeps the form of its source (`Agrees`, with the same
  value for every node), whatever the float constants are.

The assumptions on constants are the named `ASSUME`s of the modules: sequences of graphs and
registers of the right shape, that no register is the pseudo-register `Out`, methods of decoded
instructions, hand-built graphs that have nodes and whose operands are in them, a bound of
granit's stack that is a number, and environments that have a value for each slot.

Only model-checked: the liveness properties (their fairness and ENABLED are outside the prover's
reach); of `JvmPipeline`, the meaning of graphs built by hand that are not of the form the
lowerers give them (`Sound`) and what their passes do in a second run, what the DIAMOND passes
keep (`PeakMeansTheSame`, `PeakKeepsControl`, `PacksAreComputable`), and the layout of graphs
built by hand that loop. To prove what the DIAMOND passes keep, one would have to relate the heap
of `HeapMachine` across copies of whole bodies.

## What is not modelled, and why

* granit's own bytecode (`tier0_granit/Interpreter.cpp`): no lowerer takes it, so there is no other
  tier to compare it with. Its poll is in `Safepoint`, the call to it in `TieredDispatch`.
* In the JVM and CIL modules: wide forms, constant-pool values, conversions to byte, char and
  short, remainder and division of floats, multianewarray, exception tables, the short forms of
  branches; a hand-built graph is not called through granit. Deoptimization and inline caches
  are documented, not in the source.
* In `SonMachine`: registers and slots, which are `CodeEmitter`'s; the heap, so a load returns
  what the environment says, in each of the two graphs compared. `HeapMachine` has a heap
  and no branches.
* In `CodeEmitter`: calls, vector operations, exceptions, stack arguments, the addresses of
  locals and fields, more than two locals. Floats appear only as values that live in the other
  register file and make the emitter fall back. Blocks are in the order of their nodes.
* Dominators, which BuildRegions computes and nobody but its tests reads.
* A second `allocate` on one LinearScanRegAlloc, whose active list is not cleared: no caller
  does it.
* Two threads in TieredDispatch, and two that retire into one EpochGC: neither has a lock nor a
  concurrent caller, and what they would do is undefined behaviour. TieredDispatch does not claim
  to be safe for threads; EpochGC does, so its race is among the hazards of `PROJECT.json`, without
  a property.
* Parsing of class files, opcode tables, printing, the command line, value types.

## Plan

1. *(done)* `EpochGC`, `Safepoint`, `TieredDispatch`: the concurrent runtime, with type
   correctness and the main safety invariants of each proved, and `Reclamation` implemented.
2. *(done)* `LinearScan` and `CodeEmitter`: the baseline JIT, from the allocator's invariants to
   the correctness of undisturbed code, all proved.
3. *(done)* `SonGraph` and `RubyPasses` with `SonMachine` as the reference.
4. *(done, without dominators)* `Regions`, composed into the same run.
5. *(done)* The Java and CIL interpreters and lowerers, composed by `JvmPipeline`.
6. *(done)* The Tier 3 passes, with `HeapMachine` as the reference.
7. What is left: calls and their stack arguments in `CodeEmitter`; dominators; methods with
   several locals once CSE tells their Phis apart; and the proof of what the DIAMOND passes keep.
