--------------------------- MODULE TieredDispatch ---------------------------
(***************************************************************************)
(* Tier escalation: TieredDispatch::invoke with the TierManager and the    *)
(* MethodHandles it keeps (src/src/jade/runtime/TieredDispatch.hpp and     *)
(* TierManager.hpp).                                                       *)
(*                                                                         *)
(* Every invocation counts, asks which tier the method should be in,       *)
(* compiles it there when that is not its tier, and runs it (always in the *)
(* interpreter for now).  A compilation that succeeds installs an entry    *)
(* point in the handle and moves the JadeJit that owns the code into       *)
(* compiled_, destroying the JadeJit, and so the code, that was there.     *)
(*                                                                         *)
(* The maps are not protected by a lock: invoke is one step.  Code is a    *)
(* number, new for every compilation of a method.  Lowering, the pipeline, *)
(* the verifier, register allocation and emission either succeed or fail   *)
(* and leave everything as it was.  All but the last step look at nothing  *)
(* but the bytecode, so what they refuse once they refuse again; only the  *)
(* executable memory for the code may be there one day and not the next.   *)
(***************************************************************************)
EXTENDS Integers, FiniteSets

CONSTANTS
  Methods,           \* method keys
  ThresholdChoices,  \* TierThresholds: <<N, M, K>>
  CountModulus,      \* 2^32: invocation_count is a uint32_t
  HaveAsmjit,        \* whether JADE_HAVE_ASMJIT is defined
  ShortOfMemory      \* whether JitRuntime may fail to get executable memory

ASSUME CountAssumption == CountModulus \in Nat \ {0}
ASSUME ThresholdsAssumption ==
  ThresholdChoices # {} /\ ThresholdChoices \subseteq [1 .. 3 -> Nat]
ASSUME AsmjitAssumption == HaveAsmjit \in BOOLEAN
ASSUME MemoryAssumption == ShortOfMemory \in BOOLEAN

Interpreter == 0
Baseline    == 1
Optimizing  == 2
Peak        == 3

Tier     == Interpreter .. Peak
JitTiers == Baseline .. Peak

VARIABLES
  refused,     \* the tiers at which the bytecode of each method does not compile
  thresholds,  \* the TierManager's thresholds_
  count,       \* MethodHandle::invocation_count of each method
  tier,        \* MethodHandle::current_tier
  entries,     \* baseline_entry, optimizing_entry, peak_entry; 0 is null
  jit,         \* the code owned by the JadeJit in compiled_; 0 is none
  minted,      \* how many codes the method has had: the last one's number
  compiles,    \* history: successful compilations of a method at a tier, up
               \* to two
  disturbed    \* history: the methods that met a failed compilation, a new
               \* threshold or a wrapped count

vars ==
  <<refused, thresholds, count, tier, entries, jit, minted, compiles, disturbed>>

TypeOK ==
  /\ refused \in [Methods -> SUBSET JitTiers]
  /\ thresholds \in ThresholdChoices
  /\ count \in [Methods -> 0 .. CountModulus - 1]
  /\ tier \in [Methods -> Tier]
  /\ entries \in [Methods -> [JitTiers -> Nat]]
  /\ jit \in [Methods -> Nat]
  /\ minted \in [Methods -> Nat]
  /\ compiles \in [Methods -> [JitTiers -> 0 .. 2]]
  /\ disturbed \subseteq Methods

(* A handle is created by the first invocation; before that, its fields    *)
(* are those of a new one.                                                 *)
Init ==
  /\ refused \in [Methods -> SUBSET JitTiers]
  /\ thresholds \in ThresholdChoices
  /\ count = [m \in Methods |-> 0]
  /\ tier = [m \in Methods |-> Interpreter]
  /\ entries = [m \in Methods |-> [t \in JitTiers |-> 0]]
  /\ jit = [m \in Methods |-> 0]
  /\ minted = [m \in Methods |-> 0]
  /\ compiles = [m \in Methods |-> [t \in JitTiers |-> 0]]
  /\ disturbed = {}

-----------------------------------------------------------------------------
(* Entry points.                                                           *)

(* current_entry_fallback: the "next-lower" tier's.                        *)
Fallback(m) ==
  IF entries[m][Optimizing] # 0 THEN entries[m][Optimizing]
                                ELSE entries[m][Baseline]

(* current_entry: the current tier's.                                      *)
CurrentEntry(m) ==
  CASE tier[m] = Interpreter -> 0
    [] tier[m] # Interpreter /\ entries[m][tier[m]] # 0 -> entries[m][tier[m]]
    [] OTHER -> Fallback(m)

(* entry: the best available.                                              *)
BestEntry(m) == IF entries[m][Peak] # 0 THEN entries[m][Peak] ELSE Fallback(m)

-----------------------------------------------------------------------------
(* Invocations.                                                            *)

(* Mutant: the threshold is compared before the increment.                 *)
DesiredLate(t, c) == IF t < Peak /\ c > thresholds[t + 1] THEN t + 1 ELSE t

(* Mutant: escalation stops at the baseline tier.                          *)
DesiredBaselineOnly(t, c) ==
  IF t < Baseline /\ c >= thresholds[t + 1] THEN t + 1 ELSE t

(* The tier on_invocation asks for in tier t at the count c: the next one  *)
(* when its threshold is reached.                                          *)
Desired(t, c) == IF t < Peak /\ c >= thresholds[t + 1] THEN t + 1 ELSE t

(* Mutant: a count that does not wrap.                                     *)
CountedForever(m) == count[m] + 1

(* invocation_count is incremented, modulo 2^32.                           *)
Counted(m) == (count[m] + 1) % CountModulus

Count(m) ==
  /\ count' = [count EXCEPT ![m] = Counted(m)]
  /\ UNCHANGED <<refused, thresholds>>

(* The history of m after an invocation in which nothing fails.            *)
Undisturbed(m) ==
  disturbed' = IF Counted(m) < count[m] THEN disturbed \cup {m} ELSE disturbed

(* The desired tier is the current one: run.                               *)
InvokeStays(m) ==
  /\ Desired(tier[m], Counted(m)) = tier[m]
  /\ Count(m) /\ Undisturbed(m)
  /\ UNCHANGED <<tier, entries, jit, minted, compiles>>

(* Mutant: mark_compiled forgets the entry of the optimizing tier.         *)
MarkCompiledNoEntry(m, t, code) ==
  /\ entries' = IF t = Optimizing THEN entries
                                  ELSE [entries EXCEPT ![m][t] = code]
  /\ tier' = [tier EXCEPT ![m] = t]

(* Mutant: mark_compiled forgets current_tier.                             *)
MarkCompiledNoTier(m, t, code) ==
  /\ entries' = [entries EXCEPT ![m][t] = code]
  /\ UNCHANGED tier

(* mark_compiled.                                                          *)
MarkCompiled(m, t, code) ==
  /\ entries' = [entries EXCEPT ![m][t] = code]
  /\ tier' = [tier EXCEPT ![m] = t]

CountCompile(m, t) ==
  compiles' = [compiles EXCEPT ![m][t] = IF @ < 2 THEN @ + 1 ELSE @]

(* compile_at_tier succeeds: mark_compiled, then the assignment to         *)
(* compiled_[key].  Without asmjit it returns before either.               *)
InvokeCompiles(m) ==
  LET t == Desired(tier[m], Counted(m))
      code == minted[m] + 1
  IN /\ t # tier[m] /\ t \notin refused[m]
     /\ Count(m) /\ Undisturbed(m)
     /\ CountCompile(m, t)
     /\ IF HaveAsmjit
        THEN /\ MarkCompiled(m, t, code)
             /\ jit' = [jit EXCEPT ![m] = code]
             /\ minted' = [minted EXCEPT ![m] = code]
        ELSE UNCHANGED <<tier, entries, jit, minted>>

(* compile_at_tier fails; invoke goes on in the interpreter.               *)
InvokeFails(m) ==
  /\ Desired(tier[m], Counted(m)) # tier[m]
  /\ Desired(tier[m], Counted(m)) \in refused[m] \/ ShortOfMemory
  /\ Count(m)
  /\ disturbed' = disturbed \cup {m}
  /\ UNCHANGED <<tier, entries, jit, minted, compiles>>

SetThresholds ==
  /\ thresholds' \in ThresholdChoices
  /\ disturbed' = Methods
  /\ UNCHANGED <<refused, count, tier, entries, jit, minted, compiles>>

Next ==
  \/ \E m \in Methods : InvokeStays(m) \/ InvokeCompiles(m) \/ InvokeFails(m)
  \/ SetThresholds

Spec == Init /\ [][Next]_vars

(* Every method is invoked again and again, whatever becomes of it: which  *)
(* of the three an invocation is, the bytecode and the count decide.       *)
Fairness ==
  \A m \in Methods : WF_vars(InvokeStays(m) \/ InvokeCompiles(m) \/ InvokeFails(m))

FairSpec == Spec /\ Fairness

-----------------------------------------------------------------------------
(* Properties.                                                             *)

(* The code an invocation would run is alive: the entry of the current     *)
(* tier, which is also the best one, is the one whose JadeJit is in        *)
(* compiled_ ("keeps the JIT runtime alive", TieredDispatch.hpp).          *)
EntryIsLive ==
  \A m \in Methods : CurrentEntry(m) = jit[m] /\ BestEntry(m) = jit[m]

(* The escalation policy of the code: as long as compilations succeed, the *)
(* thresholds stay and the count does not wrap, a method is in the tier    *)
(* whose threshold its count has reached, neither late nor early, however  *)
(* it got there.  That is all of "granit -> JADE at N=100 invocations" and *)
(* of "JADE -> RUBY at M=1000 invocations" (TierManager.hpp:8-9), and the  *)
(* part of line 10 that the code keeps: "RUBY -> DIAMOND at K=10000        *)
(* invocations + profile stability", for on_invocation has no profile to   *)
(* look at and escalates to DIAMOND by the count alone.                    *)
TierFollowsCount ==
  \A m \in Methods \ disturbed :
    tier[m] = Cardinality({t \in JitTiers : count[m] >= thresholds[t]})

(* No method is compiled twice for the same tier.                          *)
CompiledOncePerTier == \A m \in Methods, t \in JitTiers : compiles[m][t] <= 1

(* The tier below the first one that refuses the method.                   *)
Reachable(m) ==
  CHOOSE t \in Tier : /\ \A s \in 1 .. t : s \notin refused[m]
                      /\ t < Peak => t + 1 \in refused[m]

(* A compilation that only fails for want of executable memory.            *)
RunsShort(m) ==
  InvokeFails(m) /\ Desired(tier[m], Counted(m)) \notin refused[m]

(* A method that stays hot climbs to the tier below the first one that     *)
(* refuses it and stays there, although compilations fail for want of      *)
(* memory, its count wraps, its thresholds change and every further        *)
(* invocation tries the refused tier again: unless memory is short again   *)
(* and again.                                                              *)
HotMethodsSettle ==
  \A m \in Methods : []<><<RunsShort(m)>>_vars \/ <>[](tier[m] = Reachable(m))

(* "Entry points for each tier.  nullptr = not compiled" (TierManager.hpp):*)
(* an entry that is not null is compiled code, which is alive.             *)
EntriesAreCompiled ==
  \A m \in Methods, t \in JitTiers : entries[m][t] \in {0, jit[m]}
=============================================================================
