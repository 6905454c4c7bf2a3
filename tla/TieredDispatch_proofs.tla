------------------------ MODULE TieredDispatch_proofs ------------------------
(* Theorems about TieredDispatch: type correctness, and that the entry an  *)
(* invocation would use is alive, for any thresholds and any number of     *)
(* methods, whatever tiers refuse them and whether memory runs short.      *)
EXTENDS TieredDispatch, FiniteSetTheorems, TLAPS

(* Entries are installed from the lowest tier up, so the one of the        *)
(* current tier is the last one installed and the best.                    *)
EntriesInv ==
  \A m \in Methods :
    /\ \A t \in JitTiers : t > tier[m] => entries[m][t] = 0
    /\ tier[m] = Interpreter => jit[m] = 0
    /\ tier[m] # Interpreter => entries[m][tier[m]] = jit[m] /\ jit[m] # 0

Inv == TypeOK /\ EntriesInv

LEMMA DesiredIsNext ==
  ASSUME TypeOK, NEW m \in Methods, NEW c \in Nat, Desired(tier[m], c) # tier[m]
  PROVE  Desired(tier[m], c) = tier[m] + 1 /\ tier[m] + 1 \in JitTiers
BY DEF TypeOK, Desired, Tier, JitTiers, Interpreter, Baseline, Peak

LEMMA CountType ==
  ASSUME TypeOK, NEW m \in Methods
  PROVE  /\ Counted(m) \in 0 .. CountModulus - 1
         /\ Count(m) => /\ count' \in [Methods -> 0 .. CountModulus - 1]
                        /\ thresholds' = thresholds /\ refused' = refused
<1>1. count[m] + 1 \in Nat
  BY CountAssumption DEF TypeOK
<1>2. Counted(m) \in 0 .. CountModulus - 1
  BY <1>1, CountAssumption DEF Counted
<1> QED
  BY <1>2, Zenon DEF Count, TypeOK

LEMMA DisturbedType ==
  ASSUME TypeOK, NEW m \in Methods, Undisturbed(m)
  PROVE  disturbed' \subseteq Methods
<1>1. disturbed' \in {disturbed, disturbed \cup {m}}
  BY Zenon DEF Undisturbed
<1> QED
  BY <1>1 DEF TypeOK

LEMMA CompileKeepsInv ==
  ASSUME Inv, NEW m \in Methods, InvokeCompiles(m)
  PROVE  Inv'
<1> DEFINE t == Desired(tier[m], Counted(m))
           code == minted[m] + 1
<1>1. t = tier[m] + 1 /\ t \in JitTiers
  BY CountType, DesiredIsNext DEF Inv, InvokeCompiles
<1>2. /\ count' \in [Methods -> 0 .. CountModulus - 1]
      /\ thresholds' = thresholds /\ refused' = refused
  BY CountType DEF Inv, InvokeCompiles
<1>0. disturbed' \subseteq Methods
  BY DisturbedType DEF Inv, InvokeCompiles
<1>3. compiles' \in [Methods -> [JitTiers -> 0 .. 2]]
  <2>1. CountCompile(m, t)
    BY DEF InvokeCompiles
  <2> HIDE DEF t
  <2> QED
    BY <1>1, <2>1 DEF Inv, TypeOK, CountCompile
<1>4. CASE HaveAsmjit
  <2>1. /\ entries' = [entries EXCEPT ![m][t] = code]
        /\ tier' = [tier EXCEPT ![m] = t]
        /\ jit' = [jit EXCEPT ![m] = code]
        /\ minted' = [minted EXCEPT ![m] = code]
    BY <1>4, Zenon DEF InvokeCompiles, MarkCompiled
  <2> HIDE DEF t
  <2>2. code \in Nat /\ code # 0
    BY DEF Inv, TypeOK
  <2> HIDE DEF code
  <2>3. TypeOK'
    BY <1>0, <1>1, <1>2, <1>3, <2>1, <2>2
       DEF Inv, TypeOK, Tier, JitTiers, Interpreter, Baseline, Peak
  <2>4. EntriesInv'
    BY <1>1, <2>1, <2>2
       DEF Inv, TypeOK, EntriesInv, Tier, JitTiers, Interpreter, Baseline, Peak
  <2> QED
    BY <2>3, <2>4 DEF Inv
<1>5. CASE ~HaveAsmjit
  <2>1. UNCHANGED <<tier, entries, jit, minted>>
    BY <1>5, Zenon DEF InvokeCompiles
  <2> QED
    BY <1>0, <1>2, <1>3, <2>1 DEF Inv, TypeOK, EntriesInv
<1> QED
  BY <1>4, <1>5

LEMMA InvInvariant == Spec => []Inv
<1>1. Init => Inv
  BY CountAssumption, ThresholdsAssumption
     DEF Init, Inv, TypeOK, EntriesInv, Tier, JitTiers, Interpreter, Baseline,
         Peak
<1>2. Inv /\ [Next]_vars => Inv'
  <2> SUFFICES ASSUME Inv, [Next]_vars PROVE Inv'
    OBVIOUS
  <2>1. ASSUME NEW m \in Methods, InvokeStays(m) \/ InvokeFails(m)
        PROVE  Inv'
    <3>1. Count(m) /\ UNCHANGED <<tier, entries, jit, minted, compiles>>
      BY <2>1, Zenon DEF InvokeStays, InvokeFails
    <3>2. /\ count' \in [Methods -> 0 .. CountModulus - 1]
          /\ thresholds' = thresholds /\ refused' = refused
      BY <3>1, CountType DEF Inv
    <3>3. disturbed' \subseteq Methods
      <4>1. CASE InvokeStays(m)
        BY <4>1, DisturbedType DEF Inv, InvokeStays
      <4>2. CASE InvokeFails(m)
        BY <4>2 DEF Inv, TypeOK, InvokeFails
      <4> QED
        BY <2>1, <4>1, <4>2
    <3> QED
      BY <3>1, <3>2, <3>3 DEF Inv, TypeOK, EntriesInv
  <2>2. CASE SetThresholds
    BY <2>2 DEF SetThresholds, Inv, TypeOK, EntriesInv
  <2>3. CASE UNCHANGED vars
    BY <2>3 DEF vars, Inv, TypeOK, EntriesInv
  <2> QED
    BY <2>1, <2>2, <2>3, CompileKeepsInv DEF Next
<1> QED
  BY <1>1, <1>2, PTL DEF Spec

(* Every variable of TieredDispatch keeps its type.                        *)
THEOREM DispatchTypes == Spec => []TypeOK
<1>1. Inv => TypeOK
  BY DEF Inv
<1> QED
  BY <1>1, InvInvariant, PTL

(* The entry of the current tier and the best entry are the code that      *)
(* compiled_ keeps alive: for any methods, thresholds that may change at   *)
(* any time, any width of the count, any refusals and any lack of memory.  *)
THEOREM LiveEntries == Spec => []EntryIsLive
<1>1. Inv => EntryIsLive
  <2> SUFFICES ASSUME Inv, NEW m \in Methods
               PROVE  CurrentEntry(m) = jit[m] /\ BestEntry(m) = jit[m]
    BY DEF EntryIsLive
  <2>1. tier[m] \in Tier
    BY DEF Inv, TypeOK
  <2>2. CASE tier[m] = Interpreter
    BY <2>2 DEF Inv, EntriesInv, CurrentEntry, BestEntry, Fallback, JitTiers,
                Interpreter, Baseline, Optimizing, Peak
  <2>3. CASE tier[m] # Interpreter
    BY <2>1, <2>3 DEF Inv, EntriesInv, CurrentEntry, BestEntry, Fallback, Tier,
                      JitTiers, Interpreter, Baseline, Optimizing, Peak
  <2> QED
    BY <2>2, <2>3
<1> QED
  BY <1>1, InvInvariant, PTL

-----------------------------------------------------------------------------
(* A tier above the current one has never been compiled.                   *)
CompilesInv ==
  \A m \in Methods, t \in JitTiers :
    /\ compiles[m][t] <= 1
    /\ t > tier[m] => compiles[m][t] = 0

LEMMA CompileCountsOnce ==
  ASSUME HaveAsmjit, Inv, CompilesInv, NEW m \in Methods, InvokeCompiles(m)
  PROVE  CompilesInv'
<1> DEFINE t == Desired(tier[m], Counted(m))
<1>1. t = tier[m] + 1 /\ t \in JitTiers
  BY CountType, DesiredIsNext DEF Inv, InvokeCompiles
<1>2. /\ tier' = [tier EXCEPT ![m] = t]
      /\ compiles' = [compiles EXCEPT ![m][t] = IF @ < 2 THEN @ + 1 ELSE @]
  BY Zenon DEF InvokeCompiles, MarkCompiled, CountCompile
<1> HIDE DEF t
<1>3. compiles[m][t] = 0
  BY <1>1 DEF CompilesInv, Inv, TypeOK, Tier, JitTiers, Interpreter, Baseline, Peak
<1>4. compiles'[m][t] = 1 /\ tier'[m] = t
  BY <1>1, <1>2, <1>3 DEF Inv, TypeOK
<1> SUFFICES ASSUME NEW n \in Methods, NEW s \in JitTiers
             PROVE  compiles'[n][s] <= 1 /\ (s > tier'[n] => compiles'[n][s] = 0)
  BY DEF CompilesInv
<1>5. CASE n = m /\ s = t
  BY <1>4, <1>5 DEF JitTiers, Baseline, Peak
<1>6. CASE n # m \/ s # t
  <2>1. compiles'[n][s] = compiles[n][s]
    BY <1>2, <1>6 DEF Inv, TypeOK
  <2>2. s > tier'[n] => s > tier[n]
    BY <1>1, <1>2 DEF Inv, TypeOK, Tier, JitTiers, Interpreter, Baseline, Peak
  <2> QED
    BY <2>1, <2>2 DEF CompilesInv
<1> QED
  BY <1>5, <1>6

(* Where code is generated at all (JADE_HAVE_ASMJIT), no method is         *)
(* compiled twice for a tier, however often it is invoked, whatever the    *)
(* thresholds become and although its count wraps.                         *)
THEOREM CompiledOnce ==
  ASSUME HaveAsmjit
  PROVE  Spec => []CompiledOncePerTier
<1>1. Init => CompilesInv
  BY DEF Init, CompilesInv
<1>2. Inv /\ CompilesInv /\ [Next]_vars => CompilesInv'
  <2> SUFFICES ASSUME Inv, CompilesInv, [Next]_vars PROVE CompilesInv'
    OBVIOUS
  <2>1. ASSUME NEW m \in Methods, InvokeCompiles(m) PROVE CompilesInv'
    BY <2>1, CompileCountsOnce
  <2>2. CASE UNCHANGED <<tier, compiles>>
    BY <2>2 DEF CompilesInv
  <2> QED
    BY <2>1, <2>2, Zenon DEF Next, InvokeStays, InvokeFails, SetThresholds, vars
<1>3. CompilesInv => CompiledOncePerTier
  BY DEF CompilesInv, CompiledOncePerTier
<1> QED
  BY <1>1, <1>2, <1>3, InvInvariant, PTL DEF Spec

-----------------------------------------------------------------------------
(* Thresholds that can be told apart, as those of TierThresholds can.      *)
Ascending ==
  \A th \in ThresholdChoices : 0 < th[1] /\ th[1] < th[2] /\ th[2] < th[3]

Reached(m, t) == count[m] >= thresholds[t] <=> t <= tier[m]

(* A method to which nothing happened has passed the thresholds of its     *)
(* tier and of those below it, and no other.                               *)
ReachedInv == \A m \in Methods \ disturbed, t \in JitTiers : Reached(m, t)

LEMMA CountGrows ==
  ASSUME TypeOK, NEW m \in Methods, Counted(m) >= count[m]
  PROVE  Counted(m) \in {count[m], count[m] + 1}
<1>1. count[m] \in 0 .. CountModulus - 1
  BY DEF TypeOK
<1>2. CASE count[m] + 1 < CountModulus
  BY <1>1, <1>2, CountAssumption DEF Counted
<1>3. CASE count[m] + 1 = CountModulus
  <2>1. Counted(m) = 0
    BY <1>3, CountAssumption DEF Counted
  <2> QED
    BY <1>1, <2>1
<1> QED
  BY <1>1, <1>2, <1>3, CountAssumption

LEMMA StepReaches ==
  ASSUME Ascending, Inv, ReachedInv, NEW m \in Methods \ disturbed, NEW t \in JitTiers,
         Counted(m) >= count[m]
  PROVE  Counted(m) >= thresholds[t] <=> t <= Desired(tier[m], Counted(m))
<1>1. Counted(m) \in {count[m], count[m] + 1} /\ count[m] \in Nat
  BY CountGrows DEF Inv, TypeOK
<1>2. /\ thresholds[1] \in Nat /\ thresholds[2] \in Nat /\ thresholds[3] \in Nat
      /\ 0 < thresholds[1] /\ thresholds[1] < thresholds[2] /\ thresholds[2] < thresholds[3]
  BY ThresholdsAssumption DEF Ascending, Inv, TypeOK
<1>3. /\ count[m] >= thresholds[1] <=> 1 <= tier[m]
      /\ count[m] >= thresholds[2] <=> 2 <= tier[m]
      /\ count[m] >= thresholds[3] <=> 3 <= tier[m]
  BY DEF ReachedInv, Reached, JitTiers, Baseline, Peak
<1>4. tier[m] \in {0, 1, 2, 3} /\ t \in {1, 2, 3}
  BY DEF Inv, TypeOK, Tier, JitTiers, Interpreter, Baseline, Peak
<1>5. Desired(tier[m], Counted(m)) =
        IF tier[m] < 3 /\ Counted(m) >= thresholds[tier[m] + 1] THEN tier[m] + 1 ELSE tier[m]
  BY DEF Desired, Peak
<1> DEFINE c == Counted(m)
           r == tier[m]
           d == Desired(r, c)
           n == count[m]
           a1 == thresholds[1]
           a2 == thresholds[2]
           a3 == thresholds[3]
<1>6. CASE r = 0
  <2>1. d = IF c >= a1 THEN 1 ELSE 0
    BY <1>5, <1>6
  <2> QED
    BY <1>1, <1>2, <1>3, <1>4, <1>6, <2>1
<1>7. CASE r = 1
  <2>1. d = IF c >= a2 THEN 2 ELSE 1
    BY <1>5, <1>7
  <2> QED
    BY <1>1, <1>2, <1>3, <1>4, <1>7, <2>1
<1>8. CASE r = 2
  <2>1. d = IF c >= a3 THEN 3 ELSE 2
    BY <1>5, <1>8
  <2> QED
    BY <1>1, <1>2, <1>3, <1>4, <1>8, <2>1
<1>9. CASE r = 3
  <2>1. d = 3
    BY <1>5, <1>9
  <2> QED
    BY <1>1, <1>2, <1>3, <1>4, <1>9, <2>1
<1> QED
  BY <1>4, <1>6, <1>7, <1>8, <1>9

(* An invocation that does not fail leaves the method in the tier asked    *)
(* for.                                                                    *)
LEMMA InvocationReaches ==
  ASSUME HaveAsmjit, Ascending, Inv, ReachedInv, NEW m \in Methods,
         InvokeStays(m) \/ InvokeCompiles(m)
  PROVE  ReachedInv'
<1>1. /\ thresholds' = thresholds
      /\ count' = [count EXCEPT ![m] = Counted(m)]
      /\ Undisturbed(m)
  BY Zenon DEF InvokeStays, InvokeCompiles, Count
<1>2. tier' = [tier EXCEPT ![m] = Desired(tier[m], Counted(m))]
  <2>1. CASE InvokeStays(m)
    BY <2>1 DEF InvokeStays, Inv, TypeOK
  <2>2. CASE InvokeCompiles(m)
    BY <2>2, Zenon DEF InvokeCompiles, MarkCompiled
  <2> QED
    BY <2>1, <2>2
<1> SUFFICES ASSUME NEW n \in Methods \ disturbed', NEW t \in JitTiers
             PROVE  count'[n] >= thresholds'[t] <=> t <= tier'[n]
  BY DEF ReachedInv, Reached
<1>3. n \in Methods \ disturbed
  BY <1>1, Zenon DEF Undisturbed
<1>4. CASE n # m
  <2>1. count'[n] = count[n] /\ tier'[n] = tier[n]
    BY <1>1, <1>2, <1>4 DEF Inv, TypeOK
  <2> QED
    BY <1>1, <1>3, <2>1 DEF ReachedInv, Reached
<1>5. CASE n = m
  <2>1. ~(Counted(m) < count[m])
    BY <1>1, <1>5, Zenon DEF Undisturbed
  <2>2. Counted(m) >= count[m]
    BY <2>1, CountType DEF Inv, TypeOK
  <2>3. count'[m] = Counted(m) /\ tier'[m] = Desired(tier[m], Counted(m))
    BY <1>1, <1>2 DEF Inv, TypeOK
  <2> QED
    BY <1>1, <1>3, <1>5, <2>2, <2>3, StepReaches
<1> QED
  BY <1>4, <1>5

(* With thresholds that ascend, as long as its compilations succeed, the   *)
(* thresholds stay and its count does not wrap, a method is in the tier    *)
(* whose threshold its count has reached.                                  *)
THEOREM TiersFollowCounts ==
  ASSUME HaveAsmjit, Ascending
  PROVE  Spec => []TierFollowsCount
<1>1. Init => ReachedInv
  <2> SUFFICES ASSUME Init, NEW m \in Methods, NEW t \in JitTiers
               PROVE  Reached(m, t)
    BY DEF ReachedInv
  <2>1. count[m] = 0 /\ tier[m] = 0
    BY DEF Init, Interpreter
  <2>2. thresholds[t] \in Nat /\ thresholds[t] > 0 /\ t > 0
    BY ThresholdsAssumption DEF Init, Ascending, JitTiers, Baseline, Peak
  <2> QED
    BY <2>1, <2>2 DEF Reached, JitTiers, Baseline, Peak
<1>2. Inv /\ ReachedInv /\ [Next]_vars => ReachedInv'
  <2> SUFFICES ASSUME Inv, ReachedInv, [Next]_vars PROVE ReachedInv'
    OBVIOUS
  <2>1. ASSUME NEW m \in Methods, InvokeStays(m) \/ InvokeCompiles(m)
        PROVE  ReachedInv'
    BY <2>1, InvocationReaches
  <2>2. ASSUME NEW m \in Methods, InvokeFails(m)
        PROVE  ReachedInv'
    <3>1. /\ disturbed' = disturbed \cup {m}
          /\ thresholds' = thresholds /\ tier' = tier
          /\ count' = [count EXCEPT ![m] = Counted(m)]
      BY <2>2, Zenon DEF InvokeFails, Count
    <3> SUFFICES ASSUME NEW n \in Methods \ disturbed', NEW t \in JitTiers
                 PROVE  count'[n] >= thresholds'[t] <=> t <= tier'[n]
      BY DEF ReachedInv, Reached
    <3>2. n # m /\ n \in Methods \ disturbed
      BY <3>1, Zenon
    <3>3. count'[n] = count[n]
      BY <3>1, <3>2 DEF Inv, TypeOK
    <3> QED
      BY <3>1, <3>2, <3>3 DEF ReachedInv, Reached
  <2>3. CASE SetThresholds
    <3>1. disturbed' = Methods
      BY <2>3, Zenon DEF SetThresholds
    <3> QED
      BY <3>1, Zenon DEF ReachedInv
  <2>4. CASE UNCHANGED vars
    BY <2>4 DEF vars, ReachedInv, Reached
  <2> QED
    BY <2>1, <2>2, <2>3, <2>4, Zenon DEF Next
<1>3. Inv /\ ReachedInv => TierFollowsCount
  <2> SUFFICES ASSUME Inv, ReachedInv, NEW m \in Methods \ disturbed
               PROVE  tier[m] = Cardinality({t \in JitTiers : count[m] >= thresholds[t]})
    BY DEF TierFollowsCount
  <2>1. tier[m] \in 0 .. 3
    BY DEF Inv, TypeOK, Tier, Interpreter, Peak
  <2>2. {t \in JitTiers : count[m] >= thresholds[t]} = 1 .. tier[m]
    BY <2>1 DEF ReachedInv, Reached, JitTiers, Baseline, Peak
  <2>3. Cardinality(1 .. tier[m]) = tier[m]
    BY <2>1, FS_Interval
  <2> QED
    BY <2>2, <2>3
<1> QED
  BY <1>1, <1>2, <1>3, InvInvariant, PTL DEF Spec
=============================================================================
