--------------------------- MODULE EpochGC_proofs ---------------------------
(* Theorems about EpochGC: type correctness for every configuration, and,  *)
(* when every thread has a slot of its own, what the sweep spares and that *)
(* stamping with current_epoch() rules out use after free where stores are *)
(* not buffered.                                                           *)
EXTENDS EpochGC, FiniteSetTheorems, TLAPS

-----------------------------------------------------------------------------
(* Type correctness.                                                       *)

(* Announced epochs are positive, and a call of try_reclaim started with   *)
(* room to advance: what TypeOK needs to be inductive.                     *)
TypeInv ==
  /\ TypeOK
  /\ \A t \in Threads : pc[t] \in {"entering", "active"} => local[t] >= 1
  /\ rpc # "none" => globalEpoch < MaxEpoch
  /\ rpc = "scan" => scanned < KMaxThreads

LEMMA TypeInvInductive == TypeInv /\ [Next]_vars => TypeInv'
<1> SUFFICES ASSUME TypeInv, [Next]_vars PROVE TypeInv'
  OBVIOUS
<1> USE OwnerAssumption, SlotsAssumption, EpochAssumption
        DEF TypeInv, TypeOK, Slots, Epochs
<1>1. ASSUME NEW t \in Threads, Register(t) PROVE TypeInv'
  <2>1. SlotFor(nextSlot) \in Slots
    BY DEF SlotFor
  <2> QED
    BY <1>1, <2>1 DEF Register, clientVars, reclaimVars
<1>2. ASSUME NEW t \in Threads, EnterLoad(t) PROVE TypeInv'
  BY <1>2 DEF EnterLoad, clientVars, reclaimVars
<1>3. ASSUME NEW t \in Threads, EnterStore(t) PROVE TypeInv'
  BY <1>3 DEF EnterStore, clientVars, reclaimVars
<1>4. ASSUME NEW t \in Threads, Drain(t) PROVE TypeInv'
  BY <1>4 DEF Drain, clientVars, reclaimVars
<1>5. ASSUME NEW t \in Threads, Exit(t) PROVE TypeInv'
  BY <1>5 DEF Exit, reclaimVars
<1>6. ASSUME NEW t \in Threads, NEW n \in Nodes, Acquire(t, n) PROVE TypeInv'
  BY <1>6 DEF Acquire, threadVars, reclaimVars
<1>7. ASSUME NEW n \in Nodes, Unlink(n) PROVE TypeInv'
  BY <1>7 DEF Unlink, threadVars, reclaimVars
<1>8. ASSUME NEW n \in Nodes, Retire(n) PROVE TypeInv'
  <2>1. RetireEpoch \in Epochs
    BY <1>8 DEF Retire, RetireEpoch
  <2> QED
    BY <1>8, <2>1 DEF Retire, threadVars, reclaimVars
<1>9. CASE ReclaimStart
  <2>1. anyActive' \in BOOLEAN
    BY <1>9, Zenon DEF ReclaimStart
  <2> HIDE DEF TypeInv
  <2>2. /\ globalEpoch' = globalEpoch /\ globalEpoch < MaxEpoch
        /\ rpc' = "scan" /\ scanned' = 0 /\ minEpoch' = 0
        /\ UNCHANGED <<threadEpochs, retired, freed, clientVars, threadVars>>
    BY <1>9 DEF ReclaimStart
  <2> QED
    BY <2>1, <2>2 DEF TypeInv, clientVars, threadVars
<1>10. CASE Scan
  <2>1. threadEpochs[scanned] \in 0 .. MaxEpoch
    BY <1>10 DEF Scan
  <2>2. anyActive' \in BOOLEAN
    BY <1>10, Zenon DEF Scan
  <2>3. minEpoch' \in 0 .. MaxEpoch
    BY <1>10, <2>1 DEF Scan, LeastSeen
  <2>4. /\ scanned' = scanned + 1
        /\ rpc' \in {"scan", "sweep"}
        /\ rpc' = "scan" => scanned + 1 # KMaxThreads
        /\ rpc = "scan" /\ scanned < KMaxThreads
        /\ UNCHANGED <<globalEpoch, threadEpochs, retired, freed, clientVars,
                       threadVars>>
    BY <1>10 DEF Scan
  <2> QED
    BY <2>2, <2>3, <2>4 DEF clientVars, threadVars
<1>11. CASE Sweep
  BY <1>11 DEF Sweep, clientVars, threadVars
<1>12. CASE Advance
  BY <1>12 DEF Advance, clientVars, threadVars
<1>13. CASE UNCHANGED vars
  BY <1>13 DEF vars, clientVars, threadVars, reclaimVars
<1> QED
  BY <1>1, <1>2, <1>3, <1>4, <1>5, <1>6, <1>7, <1>8, <1>9, <1>10, <1>11,
     <1>12, <1>13 DEF Next, TryReclaim

LEMMA TypeInvInit == Init => TypeInv
<1> SUFFICES ASSUME Init PROVE TypeInv
  OBVIOUS
<1>1. anyActive \in BOOLEAN
  BY Zenon DEF Init
<1>2. 0 \in Slots
  BY SlotsAssumption DEF Slots
<1> QED
  BY <1>1, <1>2, EpochAssumption, SlotsAssumption DEF Init, TypeInv, TypeOK, Epochs

LEMMA TypeInvInvariant == Spec => []TypeInv
BY TypeInvInit, TypeInvInductive, PTL DEF Spec

(* Every variable of EpochGC keeps its type, for any number of threads,    *)
(* slots and epochs, either stamp and any late stores.                     *)
THEOREM TypeCorrect == Spec => []TypeOK
<1>1. TypeInv => TypeOK
  BY DEF TypeInv
<1> QED
  BY TypeInvInvariant, <1>1, PTL

-----------------------------------------------------------------------------
(* The conditions under which an announcement can be trusted: a slot for   *)
(* every thread, and a store of its own that is visible when executed.     *)

SlotForEach == IsFiniteSet(Threads) /\ Cardinality(Threads) <= KMaxThreads

Prompt == Threads \ LateStores

Registered == {t \in Threads : pc[t] # "unregistered"}

(* nextSlot counts the registered threads, whose slots are distinct.       *)
SlotInv ==
  /\ nextSlot = Cardinality(Registered)
  /\ \A t \in Registered : slot[t] < nextSlot
  /\ \A t, u \in Registered : slot[t] = slot[u] => t = u

(* A prompt thread inside an epoch has announced it; outside it a thread   *)
(* holds nothing.                                                          *)
AnnounceInv ==
  /\ buffered \subseteq LateStores \cap Registered
  /\ \A t \in Prompt : pc[t] = "active" => threadEpochs[slot[t]] = local[t]
  /\ \A t \in Threads : pc[t] # "active" => refs[t] = {}

(* A node is linked, unlinked, retired once, or freed.                     *)
PhaseInv ==
  /\ \A r \in retired : r.node \notin linked /\ r.node \notin freed
  /\ \A r, q \in retired : r.node = q.node => r = q
  /\ linked \cap freed = {}

(* The scan counts every prompt holder of a retired node it has passed.    *)
ScanInv ==
  /\ rpc = "sweep" => scanned = KMaxThreads
  /\ rpc \in {"scan", "sweep"} =>
       \A r \in retired, t \in Prompt :
         r.node \in refs[t] /\ slot[t] < scanned =>
           anyActive /\ minEpoch <= local[t]

GuardInv == TypeInv /\ SlotInv /\ AnnounceInv /\ PhaseInv /\ ScanInv

(* Register gives the next slot to a thread of its own.                    *)
LEMMA SlotStep ==
  ASSUME SlotForEach, TypeInv, SlotInv, [Next]_vars
  PROVE  SlotInv'
<1>1. ASSUME NEW t \in Threads, Register(t) PROVE SlotInv'
  <2>1. t \in Threads \ Registered /\ Registered' = Registered \cup {t}
    BY <1>1 DEF Register, Registered, TypeInv, TypeOK
  <2>2. IsFiniteSet(Registered) /\ Cardinality(Registered) \in Nat
    BY FS_Subset, FS_CardinalityType DEF SlotForEach, Registered
  <2>3. Cardinality(Registered') = Cardinality(Registered) + 1
    BY <2>1, <2>2, FS_AddElement
  <2>4. /\ Registered' \subseteq Threads
        /\ Cardinality(Registered') <= Cardinality(Threads)
        /\ Cardinality(Threads) \in Nat
    BY <2>1, FS_Subset, FS_CardinalityType DEF SlotForEach, Registered
  <2>5. nextSlot < KMaxThreads
    BY <2>2, <2>3, <2>4, SlotsAssumption DEF SlotForEach, SlotInv
  <2>6. slot' = [slot EXCEPT ![t] = nextSlot] /\ nextSlot' = nextSlot + 1
    BY <1>1, <2>5 DEF Register, SlotFor
  <2>7. \A u \in Registered : slot'[u] = slot[u] /\ slot[u] \in Nat
    BY <2>1, <2>6 DEF Registered, TypeInv, TypeOK, Slots
  <2>8. slot'[t] = nextSlot /\ nextSlot \in Nat
    BY <2>6 DEF TypeInv, TypeOK
  <2> QED
    BY <2>1, <2>3, <2>6, <2>7, <2>8 DEF SlotInv
<1>2. ASSUME UNCHANGED <<nextSlot, slot>>, Registered' = Registered
      PROVE  SlotInv'
  BY <1>2 DEF SlotInv
<1>3. ASSUME NEW t \in Threads,
             EnterLoad(t) \/ EnterStore(t) \/ Exit(t)
      PROVE  UNCHANGED <<nextSlot, slot>> /\ Registered' = Registered
  BY <1>3 DEF EnterLoad, EnterStore, Exit, Registered, TypeInv, TypeOK
<1>4. ASSUME UNCHANGED <<nextSlot, slot, pc>> PROVE SlotInv'
  BY <1>2, <1>4 DEF Registered
<1>5. ASSUME \/ \E t \in Threads : Drain(t) \/ \E n \in Nodes : Acquire(t, n)
             \/ \E n \in Nodes : Unlink(n) \/ Retire(n)
             \/ TryReclaim
             \/ UNCHANGED vars
      PROVE  UNCHANGED <<nextSlot, slot, pc>>
  BY <1>5 DEF Drain, Acquire, Unlink, Retire, TryReclaim, ReclaimStart, Scan,
              Sweep, Advance, vars, threadVars
<1> QED
  BY <1>1, <1>2, <1>3, <1>4, <1>5 DEF Next

(* Threads with slots of their own do not disturb each other's             *)
(* announcements.                                                          *)
LEMMA AnnounceStep ==
  ASSUME TypeInv, SlotInv, AnnounceInv, [Next]_vars
  PROVE  AnnounceInv'
<1> USE DEF TypeInv, TypeOK, Slots
<1>1. ASSUME NEW t \in Threads, Register(t) PROVE AnnounceInv'
  BY <1>1 DEF Register, AnnounceInv, Registered, Prompt, clientVars
<1>2. ASSUME NEW t \in Threads, EnterLoad(t) PROVE AnnounceInv'
  BY <1>2 DEF EnterLoad, AnnounceInv, Registered, Prompt, clientVars
<1>3. ASSUME NEW t \in Threads, EnterStore(t) PROVE AnnounceInv'
  <2>1. /\ pc[t] = "entering" /\ pc' = [pc EXCEPT ![t] = "active"]
        /\ UNCHANGED <<slot, local, refs>>
    BY <1>3 DEF EnterStore, clientVars
  <2>2. CASE /\ threadEpochs' = [threadEpochs EXCEPT ![slot[t]] = local[t]]
             /\ buffered' = buffered
    BY <2>1, <2>2 DEF AnnounceInv, SlotInv, Registered, Prompt
  <2>3. CASE /\ t \in LateStores /\ buffered' = buffered \cup {t}
             /\ threadEpochs' = threadEpochs
    BY <2>1, <2>3 DEF AnnounceInv, Registered, Prompt
  <2> HIDE DEF TypeInv
  <2> QED
    BY <1>3, <2>2, <2>3, Zenon DEF EnterStore
<1>4. ASSUME NEW t \in Threads, Drain(t) PROVE AnnounceInv'
  BY <1>4 DEF Drain, AnnounceInv, SlotInv, Registered, Prompt, clientVars
<1>5. ASSUME NEW t \in Threads, Exit(t) PROVE AnnounceInv'
  BY <1>5 DEF Exit, AnnounceInv, SlotInv, Registered, Prompt
<1>6. ASSUME NEW t \in Threads, NEW n \in Nodes, Acquire(t, n)
      PROVE  AnnounceInv'
  BY <1>6 DEF Acquire, AnnounceInv, Registered, Prompt, threadVars
<1>7. ASSUME NEW n \in Nodes, Retire(n) PROVE AnnounceInv'
  BY <1>7 DEF Retire, AnnounceInv, Registered, Prompt, threadVars
<1>8. ASSUME UNCHANGED <<threadEpochs, refs, threadVars>> PROVE AnnounceInv'
  BY <1>8 DEF AnnounceInv, Registered, Prompt, threadVars
<1>9. ASSUME (\E n \in Nodes : Unlink(n)) \/ TryReclaim \/ UNCHANGED vars
      PROVE  UNCHANGED <<threadEpochs, refs, threadVars>>
  BY <1>9 DEF Unlink, TryReclaim, ReclaimStart, Scan, Sweep, Advance, vars,
              clientVars
<1> QED
  BY <1>1, <1>2, <1>3, <1>4, <1>5, <1>6, <1>7, <1>8, <1>9 DEF Next

(* A node goes from linked to retired to freed, once.                      *)
LEMMA PhaseStep ==
  ASSUME TypeInv, PhaseInv, [Next]_vars
  PROVE  PhaseInv'
<1>1. ASSUME NEW n \in Nodes, Unlink(n) PROVE PhaseInv'
  BY <1>1 DEF Unlink, PhaseInv
<1>2. ASSUME NEW n \in Nodes, Retire(n) PROVE PhaseInv'
  <2>1. n \notin linked /\ n \notin freed /\ \A r \in retired : r.node # n
    BY <1>2 DEF Retire, Unlinked, RetiredNodes
  <2> QED
    BY <1>2, <2>1 DEF Retire, PhaseInv
<1>3. CASE Sweep
  BY <1>3 DEF Sweep, PhaseInv, clientVars
<1>4. ASSUME UNCHANGED <<retired, linked, freed>> PROVE PhaseInv'
  BY <1>4 DEF PhaseInv
<1>5. ASSUME \/ \E t \in Threads : \/ Register(t)
                                   \/ EnterLoad(t)
                                   \/ EnterStore(t)
                                   \/ Drain(t)
                                   \/ Exit(t)
                                   \/ \E n \in Nodes : Acquire(t, n)
             \/ ReclaimStart \/ Scan \/ Advance
             \/ UNCHANGED vars
      PROVE  UNCHANGED <<retired, linked, freed>>
  BY <1>5 DEF Register, EnterLoad, EnterStore, Drain, Exit, Acquire,
              ReclaimStart, Scan, Advance, vars, clientVars
<1> QED
  BY <1>1, <1>2, <1>3, <1>4, <1>5 DEF Next, TryReclaim

(* No pointer to a retired node can be obtained during the scan, so who    *)
(* holds one when its slot is read is counted, and who holds one after its *)
(* slot was read held it then.                                             *)
LEMMA ScanStep ==
  ASSUME TypeInv, SlotInv, AnnounceInv, PhaseInv, ScanInv, [Next]_vars
  PROVE  ScanInv'
<1> USE DEF TypeInv, TypeOK, Slots, Epochs, Prompt
<1>1. ASSUME NEW t \in Threads, Register(t) PROVE ScanInv'
  BY <1>1 DEF Register, ScanInv, AnnounceInv, clientVars, reclaimVars
<1>2. ASSUME NEW t \in Threads, EnterLoad(t) PROVE ScanInv'
  BY <1>2 DEF EnterLoad, ScanInv, AnnounceInv, clientVars, reclaimVars
<1>3. ASSUME NEW t \in Threads, Exit(t) PROVE ScanInv'
  BY <1>3 DEF Exit, ScanInv, reclaimVars
<1>4. ASSUME NEW t \in Threads, NEW n \in Nodes, Acquire(t, n) PROVE ScanInv'
  BY <1>4 DEF Acquire, ScanInv, PhaseInv, threadVars, reclaimVars
<1>5. ASSUME NEW n \in Nodes, Retire(n) PROVE ScanInv'
  BY <1>5 DEF Retire, Free, ScanInv, reclaimVars
<1>6. CASE ReclaimStart
  BY <1>6 DEF ReclaimStart, ScanInv, clientVars, threadVars
<1>7. CASE Scan
  <2>1. rpc' = "sweep" => scanned' = KMaxThreads
    BY <1>7 DEF Scan
  <2>2. ASSUME NEW r \in retired, NEW t \in Prompt,
               r.node \in refs[t], slot[t] < scanned + 1
        PROVE  anyActive' /\ minEpoch' <= local[t]
    <3>1. pc[t] = "active" /\ threadEpochs[slot[t]] = local[t] /\ local[t] >= 1
      BY <2>2 DEF AnnounceInv
    <3>2. threadEpochs[scanned] \in 0 .. MaxEpoch
      BY <1>7, SlotsAssumption DEF Scan
    <3>3. CASE slot[t] = scanned
      <4>1. threadEpochs[scanned] = local[t] /\ threadEpochs[scanned] # 0
        BY <3>1, <3>3, EpochAssumption
      <4>2. anyActive' = TRUE /\ minEpoch' = LeastSeen(threadEpochs[scanned])
        BY <1>7, <4>1 DEF Scan
      <4> QED
        BY <4>1, <4>2, EpochAssumption DEF LeastSeen
    <3>4. CASE slot[t] < scanned
      <4>1. anyActive /\ minEpoch <= local[t]
        BY <1>7, <2>2, <3>4 DEF Scan, ScanInv
      <4>2. \/ anyActive' = anyActive /\ minEpoch' = minEpoch
            \/ anyActive' = TRUE /\ minEpoch' = LeastSeen(threadEpochs[scanned])
        BY <1>7 DEF Scan
      <4> DEFINE e == threadEpochs[scanned]
      <4>3. LeastSeen(e) = IF e < minEpoch THEN e ELSE minEpoch
        BY <4>1, Zenon DEF LeastSeen
      <4>4. minEpoch' = minEpoch \/ minEpoch' = IF e < minEpoch THEN e ELSE minEpoch
        BY <4>2, <4>3, Zenon
      <4>5. minEpoch <= local[t]
        BY <4>1
      <4>6. minEpoch' <= local[t]
        <5> HIDE DEF e
        <5> QED
          BY <4>4, <4>5, <3>2, EpochAssumption DEF e
      <4>7. anyActive'
        BY <4>1, <4>2, Zenon
      <4> QED
        BY <4>6, <4>7
    <3> QED
      BY <2>2, <3>3, <3>4
  <2>3. /\ UNCHANGED <<retired, refs, slot, local>> /\ scanned' = scanned + 1
    BY <1>7 DEF Scan, clientVars, threadVars
  <2> HIDE DEF TypeInv, TypeOK
  <2> QED
    BY <2>1, <2>2, <2>3 DEF ScanInv
<1>8. CASE Sweep
  BY <1>8 DEF Sweep, ScanInv
<1>9. CASE Advance
  BY <1>9 DEF Advance, ScanInv
<1>10. ASSUME UNCHANGED <<retired, refs, slot, local, reclaimVars>>
       PROVE  ScanInv'
  BY <1>10 DEF ScanInv, reclaimVars
<1>11. ASSUME \/ \E t \in Threads : EnterStore(t) \/ Drain(t)
              \/ \E n \in Nodes : Unlink(n)
              \/ UNCHANGED vars
       PROVE  UNCHANGED <<retired, refs, slot, local, reclaimVars>>
  BY <1>11 DEF EnterStore, Drain, Unlink, vars, clientVars, threadVars
<1> QED
  BY <1>1, <1>2, <1>3, <1>4, <1>5, <1>6, <1>7, <1>8, <1>9, <1>10, <1>11
     DEF Next, TryReclaim

(* The guard holds in every reachable state.                               *)
LEMMA GuardInvInvariant ==
  ASSUME SlotForEach
  PROVE  Spec => []GuardInv
<1>1. Init => GuardInv
  <2> SUFFICES ASSUME Init PROVE GuardInv
    OBVIOUS
  <2>1. Registered = {} /\ Cardinality({}) = 0
    BY FS_EmptySet DEF Init, Registered
  <2> QED
    BY <2>1, TypeInvInit
       DEF Init, GuardInv, SlotInv, AnnounceInv, PhaseInv, ScanInv, Registered, Prompt
<1>2. GuardInv /\ [Next]_vars => GuardInv'
  BY TypeInvInductive, SlotStep, AnnounceStep, PhaseStep, ScanStep
     DEF GuardInv
<1> QED
  BY <1>1, <1>2, PTL DEF Spec

(* What a sweep frees, its holders entered after it was retired.           *)
LEMMA SweepSparesContemporaries ==
  ASSUME GuardInv, Sweep, NEW r \in retired, NEW t \in Prompt,
         r.node \in (freed' \ freed) \cap refs[t]
  PROVE  r.retiredAt < local[t]
<1>1. PICK q \in retired : Reclaimable(q) /\ r.node = q.node
  BY DEF Sweep
<1>2. q = r
  BY <1>1 DEF GuardInv, PhaseInv
<1>3. slot[t] < scanned
  BY SlotsAssumption DEF GuardInv, TypeInv, TypeOK, Slots, ScanInv, Sweep, Prompt
<1>4. anyActive /\ minEpoch <= local[t]
  BY <1>3 DEF GuardInv, ScanInv, Sweep
<1>5. r.retiredAt < minEpoch
  BY <1>1, <1>2, <1>4, Zenon DEF Reclaimable
<1>6. r.retiredAt \in Nat /\ minEpoch \in Nat /\ local[t] \in Nat
  BY EpochAssumption DEF GuardInv, TypeInv, TypeOK, Epochs, Prompt
<1>7. minEpoch <= local[t]
  BY <1>4
<1> QED
  BY <1>5, <1>6, <1>7

(* Only the sweep runs deleters.                                           *)
LEMMA OnlySweepFrees ==
  ASSUME [Next]_vars, ~Sweep
  PROVE  freed' = freed
BY DEF Next, TryReclaim, Register, EnterLoad, EnterStore, Drain, Exit, Acquire,
       Unlink, Retire, ReclaimStart, Scan, Advance, vars

(* Whatever epoch is stamped, the sweep frees nothing that is held by a    *)
(* thread that entered no later and whose announcement was visible at      *)
(* once, whatever becomes of those of others: for any number of threads,   *)
(* nodes and epochs, as long as every thread has a slot of its own.        *)
THEOREM SweepIsSafe ==
  ASSUME SlotForEach
  PROVE  Spec => FreedPastContemporaries
<1> DEFINE A ==
      \A r \in retired, t \in Threads \ LateStores :
        r.node \in (freed' \ freed) \cap refs[t] => r.retiredAt < local[t]
<1>1. GuardInv /\ [Next]_vars => A
  <2> SUFFICES ASSUME GuardInv, [Next]_vars PROVE A
    OBVIOUS
  <2>1. CASE Sweep
    BY <2>1, SweepSparesContemporaries DEF Prompt
  <2>2. CASE ~Sweep
    BY <2>2, OnlySweepFrees
  <2> QED
    BY <2>1, <2>2
<1>2. GuardInv /\ [Next]_vars => [A]_vars
  BY <1>1
<1> QED
  BY <1>2, GuardInvInvariant, PTL DEF Spec, FreedPastContemporaries

-----------------------------------------------------------------------------
(* No use after free.                                                      *)

(* With current_epoch() as the stamp, nobody who holds a retired node      *)
(* entered after it was retired.                                           *)
StampInv ==
  /\ \A t \in Threads : local[t] <= globalEpoch
  /\ \A r \in retired, t \in Threads :
       r.node \in refs[t] => local[t] <= r.retiredAt

LEMMA StampStep ==
  ASSUME StampPolicy = "current", GuardInv, StampInv, [Next]_vars
  PROVE  StampInv'
<1> USE EpochAssumption DEF GuardInv, TypeInv, TypeOK, Epochs
<1>1. ASSUME NEW t \in Threads, EnterLoad(t) PROVE StampInv'
  BY <1>1 DEF EnterLoad, StampInv, AnnounceInv, clientVars
<1>2. ASSUME NEW t \in Threads, Exit(t) PROVE StampInv'
  BY <1>2 DEF Exit, StampInv
<1>3. ASSUME NEW t \in Threads, NEW n \in Nodes, Acquire(t, n) PROVE StampInv'
  BY <1>3 DEF Acquire, StampInv, PhaseInv, threadVars
<1>4. ASSUME NEW n \in Nodes, Retire(n) PROVE StampInv'
  BY <1>4 DEF Retire, RetireEpoch, StampInv, threadVars
<1>5. CASE Sweep
  BY <1>5 DEF Sweep, StampInv, clientVars, threadVars
<1>6. CASE Advance
  <2>1. globalEpoch' \in {globalEpoch, globalEpoch + 1}
    BY <1>6 DEF Advance
  <2> QED
    BY <1>6, <2>1 DEF Advance, StampInv, clientVars, threadVars
<1>7. ASSUME UNCHANGED <<globalEpoch, retired, local, refs>> PROVE StampInv'
  BY <1>7 DEF StampInv
<1>8. ASSUME \/ \E t \in Threads : Register(t) \/ EnterStore(t) \/ Drain(t)
             \/ \E n \in Nodes : Unlink(n)
             \/ ReclaimStart \/ Scan
             \/ UNCHANGED vars
      PROVE  UNCHANGED <<globalEpoch, retired, local, refs>>
  BY <1>8 DEF Register, EnterStore, Drain, Unlink, ReclaimStart, Scan, vars,
              clientVars, threadVars
<1> QED
  BY <1>1, <1>2, <1>3, <1>4, <1>5, <1>6, <1>7, <1>8 DEF Next, TryReclaim

LEMMA NoUseAfterFreeStep ==
  ASSUME LateStores = {}, GuardInv, StampInv, NoUseAfterFree, [Next]_vars
  PROVE  NoUseAfterFree'
<1> USE DEF NoUseAfterFree, GuardInv, TypeInv, TypeOK
<1>1. CASE Sweep
  <2> SUFFICES ASSUME NEW t \in Threads, NEW n \in refs[t],
                      n \in freed' \ freed
               PROVE  FALSE
    BY <1>1 DEF Sweep, clientVars
  <2>1. PICK r \in retired : r.node = n
    BY <1>1 DEF Sweep
  <2>2. r.retiredAt < local[t]
    BY <1>1, <2>1, SweepSparesContemporaries DEF Prompt
  <2>3. local[t] <= r.retiredAt
    BY <2>1 DEF StampInv
  <2> QED
    BY <2>2, <2>3, EpochAssumption DEF Epochs
<1>2. ASSUME ~Sweep PROVE NoUseAfterFree'
  <2>1. freed' = freed
    BY <1>2, OnlySweepFrees
  <2>2. ASSUME NEW t \in Threads, NEW n \in Nodes, Acquire(t, n)
        PROVE  NoUseAfterFree'
    BY <2>1, <2>2 DEF Acquire, PhaseInv
  <2>3. ASSUME NEW t \in Threads, Exit(t) PROVE NoUseAfterFree'
    BY <2>1, <2>3 DEF Exit
  <2>4. ASSUME NEW n \in Nodes, Retire(n) PROVE NoUseAfterFree'
    BY <2>1, <2>4 DEF Retire
  <2>5. ASSUME refs' = refs PROVE NoUseAfterFree'
    BY <2>1, <2>5
  <2>6. ASSUME \/ \E t \in Threads : \/ Register(t)
                                     \/ EnterLoad(t)
                                     \/ EnterStore(t)
                                     \/ Drain(t)
               \/ \E n \in Nodes : Unlink(n)
               \/ ReclaimStart \/ Scan \/ Advance
               \/ UNCHANGED vars
        PROVE  refs' = refs
    BY <2>6 DEF Register, EnterLoad, EnterStore, Drain, Unlink, ReclaimStart,
                Scan, Advance, vars, clientVars
  <2> QED
    BY <1>2, <2>2, <2>3, <2>4, <2>5, <2>6 DEF Next, TryReclaim
<1> QED
  BY <1>1, <1>2

(* When the owner stamps with current_epoch() and no store is late, no     *)
(* thread ever holds a pointer to a freed node, for any number of threads, *)
(* nodes and epochs.                                                       *)
THEOREM CurrentStampIsSafe ==
  ASSUME SlotForEach, LateStores = {}, StampPolicy = "current"
  PROVE  Spec => []NoUseAfterFree
<1>1. Init => StampInv /\ NoUseAfterFree
  BY EpochAssumption DEF Init, StampInv, NoUseAfterFree
<1>2. GuardInv /\ StampInv /\ NoUseAfterFree /\ [Next]_vars
        => StampInv' /\ NoUseAfterFree'
  BY StampStep, NoUseAfterFreeStep
<1> QED
  BY <1>1, <1>2, GuardInvInvariant, PTL DEF Spec

-----------------------------------------------------------------------------
(* The refinement.                                                         *)

(* Only an enter/exit or a retirement lets go of pointers, only a read of  *)
(* the shared IR obtains one.                                              *)
LEMMA PromiseStep ==
  ASSUME GuardInv, StampInv, NoUseAfterFree', [Next]_vars
  PROVE  [Promise!Next]_(Promise!vars)
<1> USE DEF GuardInv, TypeInv, TypeOK
<1>1. ASSUME NEW t \in Threads, NEW n \in Nodes, Acquire(t, n)
      PROVE  Promise!Obtain(t, n)
  BY <1>1 DEF Acquire, Promise!Obtain
<1>2. ASSUME NEW t \in Threads, Exit(t) PROVE Promise!LetGo(t, Nodes)
  BY <1>2 DEF Exit, Promise!LetGo
<1>3. ASSUME NEW n \in Nodes, Unlink(n) PROVE Promise!Unlink(n)
  BY <1>3 DEF Unlink, Promise!Unlink
<1>4. ASSUME NEW n \in Nodes, Retire(n) PROVE Promise!LetGo(Owner, {n})
  BY <1>4 DEF Retire, Promise!LetGo
<1>5. CASE Sweep
  <2> DEFINE S == {r.node : r \in {q \in retired : Reclaimable(q)}}
  <2>1. S \in SUBSET Nodes
    OBVIOUS
  <2>2. S \cap linked = {}
    BY DEF PhaseInv
  <2>3. freed' = freed \cup S /\ UNCHANGED <<refs, linked>>
    BY <1>5 DEF Sweep, clientVars
  <2>4. \A t \in Threads : S \cap refs[t] = {}
    BY <2>3 DEF NoUseAfterFree
  <2>5. Promise!Free(S)
    BY <2>2, <2>3, <2>4 DEF Promise!Free
  <2> QED
    BY <2>1, <2>5 DEF Promise!Next
<1>6. ASSUME \/ \E t \in Threads : \/ Register(t)
                                   \/ EnterLoad(t)
                                   \/ EnterStore(t)
                                   \/ Drain(t)
             \/ ReclaimStart \/ Scan \/ Advance
             \/ UNCHANGED vars
      PROVE  UNCHANGED Promise!vars
  BY <1>6 DEF Register, EnterLoad, EnterStore, Drain, ReclaimStart, Scan,
              Advance, vars, clientVars, Promise!vars
<1> QED
  BY <1>1, <1>2, <1>3, <1>4, <1>5, <1>6, OwnerAssumption
     DEF Next, TryReclaim, Promise!Next

(* With a slot for every thread, visible announcements and current_epoch() *)
(* as the stamp, EpochGC keeps the promise of Reclamation: a sweep frees   *)
(* only nodes that nobody holds and nobody can obtain.                     *)
THEOREM EpochsImplementReclamation ==
  ASSUME SlotForEach, LateStores = {}, StampPolicy = "current"
  PROVE  Spec => ImplementsReclamation
<1>1. Init => StampInv /\ NoUseAfterFree /\ Promise!Init
  BY EpochAssumption DEF Init, StampInv, NoUseAfterFree, Promise!Init
<1>2. GuardInv /\ StampInv /\ NoUseAfterFree /\ [Next]_vars
        => StampInv' /\ NoUseAfterFree' /\ [Promise!Next]_(Promise!vars)
  BY StampStep, NoUseAfterFreeStep, PromiseStep
<1> QED
  BY <1>1, <1>2, GuardInvInvariant, PTL
     DEF Spec, ImplementsReclamation, Promise!Spec
=============================================================================
