------------------------------- MODULE EpochGC -------------------------------
(***************************************************************************)
(* Epoch-based reclamation of retired IR nodes: class EpochGC and its RAII *)
(* wrapper ScopedEpoch (src/src/jade/runtime/Epoch.hpp).                   *)
(*                                                                         *)
(* A compiler thread announces the global epoch when it enters a           *)
(* compilation and announces 0 when it leaves.  A node that has been       *)
(* unlinked from the shared IR is retired with an epoch; try_reclaim scans *)
(* the announcements, frees what is older than all of them, and advances   *)
(* the global epoch.                                                       *)
(*                                                                         *)
(* The vector retired_ is "guarded by being called from a single thread":  *)
(* that thread is the constant Owner, the only one that calls retire and   *)
(* try_reclaim.  Everything it shares with the others is an atomic, and    *)
(* every load and store of one is a step of its own.                       *)
(*                                                                         *)
(* The uses of the IR between enter and exit (Acquire, Release, Unlink)    *)
(* are the clients of this class.  They are not in the repository yet; the *)
(* model lets them do whatever an enter/exit discipline allows.            *)
(***************************************************************************)
EXTENDS Integers, FiniteSets

CONSTANTS
  Threads,      \* compiler threads
  Owner,        \* the thread that retires and reclaims
  Nodes,        \* IR nodes, all linked at the start
  KMaxThreads,  \* kMaxThreads: the slots of thread_epochs_
  MaxEpoch,     \* bound of the model on the global epoch
  StampPolicy,  \* what Owner passes as retire's `now`: the epoch enter
                \* returned ("entered") or current_epoch() ("current")
  LateStores,   \* threads whose release store of enter may still sit in
                \* the store buffer of a core while later loads are executed
  EmptySweeps   \* TRUE: try_reclaim is also called when nothing is retired

ASSUME OwnerAssumption == Owner \in Threads
ASSUME SlotsAssumption == KMaxThreads \in Nat \ {0}
ASSUME EpochAssumption == MaxEpoch \in Nat \ {0}
ASSUME StampAssumption == StampPolicy \in {"entered", "current"}
ASSUME LateAssumption == LateStores \subseteq Threads
ASSUME SweepsAssumption == EmptySweeps \in BOOLEAN

VARIABLES
  globalEpoch,   \* global_epoch_
  threadEpochs,  \* thread_epochs_, by slot; 0 is idle
  nextSlot,      \* next_slot_
  retired,       \* retired_, as the set of its entries [node, retiredAt]
  pc,            \* where each thread is in its calls
  slot,          \* the slot register_thread gave a thread
  local,         \* the epoch enter loaded: ScopedEpoch::epoch_
  buffered,      \* threads whose announcement is not yet visible
  refs,          \* the nodes a thread holds pointers to
  linked,        \* nodes reachable from the shared IR
  freed,         \* nodes whose deleter has run
  rpc,           \* where Owner is in try_reclaim
  scanned,       \* the index of the loop over thread_epochs_
  anyActive,     \* the local any_active
  minEpoch       \* the local min_epoch, 0 until any_active

clientVars  == <<refs, linked>>
threadVars  == <<nextSlot, pc, slot, local, buffered>>
reclaimVars == <<rpc, scanned, anyActive, minEpoch>>
vars == <<globalEpoch, threadEpochs, retired, freed,
          clientVars, threadVars, reclaimVars>>

Slots  == 0 .. KMaxThreads - 1
Epochs == 1 .. MaxEpoch

(* A node is waiting to be freed once it is an entry of retired_.          *)
RetiredNodes == {r.node : r \in retired}

(* The node Owner has unlinked and not yet retired.                        *)
Unlinked == Nodes \ (linked \cup RetiredNodes \cup freed)

TypeOK ==
  /\ globalEpoch \in Epochs
  /\ threadEpochs \in [Slots -> 0 .. MaxEpoch]
  /\ nextSlot \in Nat
  /\ retired \in SUBSET [node : Nodes, retiredAt : Epochs]
  /\ pc \in [Threads -> {"unregistered", "idle", "entering", "active"}]
  /\ slot \in [Threads -> Slots]
  /\ local \in [Threads -> 0 .. MaxEpoch]
  /\ buffered \in SUBSET Threads
  /\ refs \in [Threads -> SUBSET Nodes]
  /\ linked \in SUBSET Nodes
  /\ freed \in SUBSET Nodes
  /\ rpc \in {"none", "scan", "sweep", "advance"}
  /\ scanned \in 0 .. KMaxThreads
  /\ anyActive \in BOOLEAN
  /\ minEpoch \in 0 .. MaxEpoch

Init ==
  /\ globalEpoch = 1
  /\ threadEpochs = [s \in Slots |-> 0]
  /\ nextSlot = 0
  /\ retired = {}
  /\ pc = [t \in Threads |-> "unregistered"]
  /\ slot = [t \in Threads |-> 0]
  /\ local = [t \in Threads |-> 0]
  /\ buffered = {}
  /\ refs = [t \in Threads |-> {}]
  /\ linked = Nodes
  /\ freed = {}
  /\ rpc = "none"
  /\ scanned = 0
  /\ anyActive = FALSE
  /\ minEpoch = 0

(* A thread makes one call at a time: Owner does nothing else while it is  *)
(* inside try_reclaim.                                                     *)
Free(t) == t = Owner => rpc = "none"

-----------------------------------------------------------------------------
(* The calls of a compiler thread.                                         *)

(* Mutant: the slot is read after the increment.                           *)
SlotAfterIncrement(i) == IF i < KMaxThreads THEN i + 1 ELSE 0

(* The slot for the value fetch_add returned: past kMaxThreads everyone    *)
(* shares slot 0.                                                          *)
SlotFor(i) == IF i < KMaxThreads THEN i ELSE 0

(* register_thread.                                                        *)
Register(t) ==
  /\ pc[t] = "unregistered"
  /\ slot' = [slot EXCEPT ![t] = SlotFor(nextSlot)]
  /\ nextSlot' = nextSlot + 1
  /\ pc' = [pc EXCEPT ![t] = "idle"]
  /\ UNCHANGED <<globalEpoch, threadEpochs, retired, freed, local, buffered,
                 clientVars, reclaimVars>>

(* enter, first half: load the global epoch.                               *)
EnterLoad(t) ==
  /\ pc[t] = "idle" /\ Free(t)
  /\ local' = [local EXCEPT ![t] = globalEpoch]
  /\ pc' = [pc EXCEPT ![t] = "entering"]
  /\ UNCHANGED <<globalEpoch, threadEpochs, retired, freed, nextSlot, slot,
                 buffered, clientVars, reclaimVars>>

(* enter, second half: announce it.  With a store buffer the announcement  *)
(* becomes visible in a later step (Drain).                                *)
EnterStore(t) ==
  /\ pc[t] = "entering"
  /\ pc' = [pc EXCEPT ![t] = "active"]
  /\ \/ /\ threadEpochs' = [threadEpochs EXCEPT ![slot[t]] = local[t]]
        /\ UNCHANGED buffered
     \/ /\ t \in LateStores
        /\ buffered' = buffered \cup {t}
        /\ UNCHANGED threadEpochs
  /\ UNCHANGED <<globalEpoch, retired, freed, nextSlot, slot, local,
                 clientVars, reclaimVars>>

(* The core makes the buffered announcement visible.                       *)
Drain(t) ==
  /\ t \in buffered
  /\ threadEpochs' = [threadEpochs EXCEPT ![slot[t]] = local[t]]
  /\ buffered' = buffered \ {t}
  /\ UNCHANGED <<globalEpoch, retired, freed, nextSlot, pc, slot, local,
                 clientVars, reclaimVars>>

(* exit, or ~ScopedEpoch: announce 0 and forget every pointer.  A core     *)
(* drains its stores in order, so the announcement of enter is out by now. *)
Exit(t) ==
  /\ pc[t] = "active" /\ Free(t) /\ t \notin buffered
  /\ t = Owner => Unlinked = {}
  /\ threadEpochs' = [threadEpochs EXCEPT ![slot[t]] = 0]
  /\ refs' = [refs EXCEPT ![t] = {}]
  /\ pc' = [pc EXCEPT ![t] = "idle"]
  /\ UNCHANGED <<globalEpoch, retired, freed, nextSlot, slot, local, buffered,
                 linked, reclaimVars>>

-----------------------------------------------------------------------------
(* The clients: what compiler threads do between enter and exit.           *)

(* A thread follows an edge of the shared IR and keeps the pointer.        *)
Acquire(t, n) ==
  /\ pc[t] = "active" /\ Free(t)
  /\ n \in linked
  /\ refs' = [refs EXCEPT ![t] = @ \cup {n}]
  /\ UNCHANGED <<globalEpoch, threadEpochs, retired, freed, linked,
                 threadVars, reclaimVars>>

(* The optimizer replaces a node: no new pointer to it can be obtained.    *)
Unlink(n) ==
  /\ pc[Owner] = "active" /\ Free(Owner)
  /\ n \in linked
  /\ linked' = linked \ {n}
  /\ UNCHANGED <<globalEpoch, threadEpochs, retired, freed, refs,
                 threadVars, reclaimVars>>

(* retire(now, ptr, deleter): append to retired_.                          *)
RetireEpoch ==
  IF StampPolicy = "entered" THEN local[Owner] ELSE globalEpoch

Retire(n) ==
  /\ pc[Owner] = "active" /\ Free(Owner)
  /\ n \in Unlinked
  /\ retired' = retired \cup {[node |-> n, retiredAt |-> RetireEpoch]}
  /\ refs' = [refs EXCEPT ![Owner] = @ \ {n}]
  /\ UNCHANGED <<globalEpoch, threadEpochs, freed, linked,
                 threadVars, reclaimVars>>

-----------------------------------------------------------------------------
(* try_reclaim, called by Owner inside or outside an epoch.  MaxEpoch      *)
(* bounds the calls, each of which may advance the global epoch by one.    *)

ReclaimStart ==
  /\ rpc = "none" /\ pc[Owner] \in {"idle", "active"}
  /\ globalEpoch < MaxEpoch
  /\ EmptySweeps \/ retired # {}
  /\ rpc' = "scan"
  /\ scanned' = 0
  /\ anyActive' = FALSE
  /\ minEpoch' = 0
  /\ UNCHANGED <<globalEpoch, threadEpochs, retired, freed,
                 clientVars, threadVars>>

(* Mutant: min_epoch keeps the last epoch read, not the least.             *)
LastSeen(e) == e

(* min_epoch after reading the epoch e of an active thread.                *)
LeastSeen(e) == IF ~anyActive \/ e < minEpoch THEN e ELSE minEpoch

(* Mutant: the loop over thread_epochs_ ends one slot early.               *)
ScanShort ==
  /\ rpc = "scan" /\ scanned < KMaxThreads
  /\ LET e == threadEpochs[scanned] IN
     IF e = 0
     THEN UNCHANGED <<anyActive, minEpoch>>
     ELSE /\ anyActive' = TRUE
          /\ minEpoch' = LeastSeen(e)
  /\ scanned' = scanned + 1
  /\ rpc' = IF scanned + 1 = KMaxThreads - 1 THEN "sweep" ELSE "scan"
  /\ UNCHANGED <<globalEpoch, threadEpochs, retired, freed,
                 clientVars, threadVars>>

(* One iteration of the loop over thread_epochs_.                          *)
Scan ==
  /\ rpc = "scan" /\ scanned < KMaxThreads
  /\ LET e == threadEpochs[scanned] IN
     IF e = 0
     THEN UNCHANGED <<anyActive, minEpoch>>
     ELSE /\ anyActive' = TRUE
          /\ minEpoch' = LeastSeen(e)
  /\ scanned' = scanned + 1
  /\ rpc' = IF scanned + 1 = KMaxThreads THEN "sweep" ELSE "scan"
  /\ UNCHANGED <<globalEpoch, threadEpochs, retired, freed,
                 clientVars, threadVars>>

(* Mutant: <= for <.                                                       *)
ReclaimableAtMin(r) == anyActive => r.retiredAt <= minEpoch

(* Mutant: safe_epoch is not raised when no thread is active.              *)
ReclaimableWhenActive(r) == r.retiredAt < minEpoch

(* retired_at < safe_epoch, where safe_epoch is min_epoch, or the largest  *)
(* Epoch when no thread is active.                                         *)
Reclaimable(r) == anyActive => r.retiredAt < minEpoch

(* The sweep: run the deleter of, and drop, every reclaimable entry.       *)
Sweep ==
  /\ rpc = "sweep"
  /\ retired' = {r \in retired : ~Reclaimable(r)}
  /\ freed' = freed \cup {r.node : r \in {q \in retired : Reclaimable(q)}}
  /\ rpc' = "advance"
  /\ UNCHANGED <<globalEpoch, threadEpochs, scanned, anyActive, minEpoch,
                 clientVars, threadVars>>

(* Advance the global epoch unless a scanned thread is in an older one.    *)
Advance ==
  /\ rpc = "advance"
  /\ globalEpoch' = IF anyActive => minEpoch = globalEpoch
                    THEN globalEpoch + 1
                    ELSE globalEpoch
  /\ rpc' = "none"
  /\ UNCHANGED <<threadEpochs, retired, freed, scanned, anyActive, minEpoch,
                 clientVars, threadVars>>

TryReclaim == ReclaimStart \/ Scan \/ Sweep \/ Advance

Next ==
  \/ \E t \in Threads : \/ Register(t)
                        \/ EnterLoad(t)
                        \/ EnterStore(t)
                        \/ Drain(t)
                        \/ Exit(t)
                        \/ \E n \in Nodes : Acquire(t, n)
  \/ \E n \in Nodes : Unlink(n) \/ Retire(n)
  \/ TryReclaim

Spec == Init /\ [][Next]_vars

(* A compilation ends and a store reaches memory, so every thread leaves   *)
(* what it entered.  Owner runs a program: it retires what it unlinked,    *)
(* calls try_reclaim a finite number of times in a compilation and after   *)
(* every one ("the reclaim sweep runs at the end of every compilation",    *)
(* docs/ARCHITECTURE.md), and its calls return; as each call excludes the  *)
(* others, that is strong fairness.  Nobody has to start a compilation.    *)
Fairness ==
  /\ \A t \in Threads : /\ WF_vars(EnterStore(t))
                        /\ WF_vars(Drain(t))
                        /\ SF_vars(Exit(t))
  /\ \A n \in Nodes : SF_vars(Retire(n))
  /\ SF_vars(ReclaimStart)
  /\ WF_vars(Scan \/ Sweep \/ Advance)

FairSpec == Spec /\ Fairness

-----------------------------------------------------------------------------
(* Properties.                                                             *)

(* No thread holds a pointer to a node whose deleter has run: "this avoids *)
(* both locks and use-after-free" (Epoch.hpp, header).                     *)
NoUseAfterFree == \A t \in Threads : refs[t] \cap freed = {}

(* What the sweep guarantees whatever epoch the caller stamps: it frees    *)
(* nothing that is still held by a thread that announced an epoch no later *)
(* than the stamp and whose announcement was visible at once.  The         *)
(* announcements are read one at a time while threads enter and leave, and *)
(* those of other threads may be late.                                     *)
FreedPastContemporaries ==
  [][\A r \in retired, t \in Threads \ LateStores :
       r.node \in (freed' \ freed) \cap refs[t] => r.retiredAt < local[t]]_vars

(* EpochGC keeps the promise of Reclamation: the pointers that threads hold,   *)
(* the nodes they can obtain and the nodes freed behave as there, so a sweep   *)
(* frees only what nobody holds and nobody can obtain any more.                *)
Promise == INSTANCE Reclamation WITH held <- refs

ImplementsReclamation == Promise!Spec

(* Nothing retired is leaked: as long as compilations end and the sweep is *)
(* called, every retired node is freed, however the threads overlap.       *)
RetiredIsFreed == \A n \in Nodes : n \in RetiredNodes ~> n \in freed
=============================================================================
