------------------------------ MODULE Safepoint ------------------------------
(***************************************************************************)
(* The safepoint handshake: class SafepointManager                         *)
(* (src/src/jade/runtime/Safepoint.hpp), polled by the interpreters        *)
(* (poll_safepoint) and by compiled code (tier1_jade/SafepointEmitter.cpp, *)
(* which emits the same accesses in the same order).                       *)
(*                                                                         *)
(* A requester raises poll_requested of every mutator and waits until each *)
(* has raised at_safepoint; it may give up after a timeout.  Whatever the  *)
(* answer, it later calls release_safepoint, which lowers both flags.      *)
(*                                                                         *)
(* A mutator is its thread_id: its index in states_.  Every atomic load    *)
(* that decides something and every atomic store is a step of its own.     *)
(***************************************************************************)
EXTENDS Integers

CONSTANTS
  Requesters,   \* threads that request safepoints
  MaxMutators,  \* bound of the model on the length of states_
  Initial,      \* mutators registered before the first request
  Timeouts,     \* TRUE: a wait may exceed timeout_ms
  Pace,         \* how long requesters pause after a release: not at all
                \* ("none"), until no late answer to an earlier request is
                \* on its way ("answered"), or until every mutator has left
                \* the safepoint ("left")
  MayReturn     \* TRUE: a mutator's run may return, and be called again

ASSUME MutatorsAssumption == MaxMutators \in Nat /\ Initial \in 0 .. MaxMutators
ASSUME PaceAssumption == Pace \in {"none", "answered", "left"}
ASSUME OptionsAssumption == {Timeouts, MayReturn} \subseteq BOOLEAN

VARIABLES
  size,           \* states_.size()
  pollRequested,  \* ThreadState::poll_requested of each mutator
  atSafepoint,    \* ThreadState::at_safepoint of each mutator
  pc,             \* where each mutator is
  rpc,            \* where each requester is
  idx,            \* the element its range-for has reached
  last            \* the end its range-for read when it started

flags         == <<pollRequested, atSafepoint>>
requesterVars == <<rpc, idx, last>>
vars == <<size, flags, pc, requesterVars>>

Ids == 0 .. MaxMutators - 1
Registered == 0 .. size - 1

MutatorPc == {"unregistered", "idle", "running", "entering", "spinning",
              "leaving"}
RequesterPc == {"idle", "polling", "polled", "waiting", "held", "timedOut",
                "releasing", "clearing"}

TypeOK ==
  /\ size \in 0 .. MaxMutators
  /\ pollRequested \in [Ids -> BOOLEAN]
  /\ atSafepoint \in [Ids -> BOOLEAN]
  /\ pc \in [Ids -> MutatorPc]
  /\ rpc \in [Requesters -> RequesterPc]
  /\ idx \in [Requesters -> 0 .. MaxMutators]
  /\ last \in [Requesters -> 0 .. MaxMutators]

Init ==
  /\ size = Initial
  /\ pollRequested = [m \in Ids |-> FALSE]
  /\ atSafepoint = [m \in Ids |-> FALSE]
  /\ pc = [m \in Ids |-> IF m < Initial THEN "running" ELSE "unregistered"]
  /\ rpc = [r \in Requesters |-> "idle"]
  /\ idx = [r \in Requesters |-> 0]
  /\ last = [r \in Requesters |-> 0]

-----------------------------------------------------------------------------
(* Mutators.                                                               *)

(* register_thread: the ThreadState of the next thread_id.  The loops of   *)
(* the requesters do not take states_mutex_, so growing states_ under one  *)
(* of them is undefined: the model registers only outside them.            *)
Register ==
  /\ size < MaxMutators
  /\ \A r \in Requesters : rpc[r] \in {"idle", "polled", "held", "timedOut"}
  /\ size' = size + 1
  /\ pc' = [pc EXCEPT ![size] = "idle"]
  /\ UNCHANGED <<flags, requesterVars>>

(* A call of an interpreter's run, and its return.                         *)
Run(m) ==
  /\ pc[m] = "idle"
  /\ pc' = [pc EXCEPT ![m] = "running"]
  /\ UNCHANGED <<size, flags, requesterVars>>

Return(m) ==
  /\ MayReturn
  /\ pc[m] = "running"
  /\ pc' = [pc EXCEPT ![m] = "idle"]
  /\ UNCHANGED <<size, flags, requesterVars>>

(* poll_safepoint finds should_poll true.                                  *)
Poll(m) ==
  /\ pc[m] = "running" /\ pollRequested[m]
  /\ pc' = [pc EXCEPT ![m] = "entering"]
  /\ UNCHANGED <<size, flags, requesterVars>>

(* enter_safepoint: announce, spin until poll_requested is false, retract. *)
Announce(m) ==
  /\ pc[m] = "entering"
  /\ atSafepoint' = [atSafepoint EXCEPT ![m] = TRUE]
  /\ pc' = [pc EXCEPT ![m] = "spinning"]
  /\ UNCHANGED <<size, pollRequested, requesterVars>>

(* Mutant: one look at the clock instead of the spin loop.                 *)
SpinOnce(m) == TRUE

(* The spin loop ends.                                                     *)
SpinDone(m) == ~pollRequested[m]

SpinEnds(m) ==
  /\ pc[m] = "spinning" /\ SpinDone(m)
  /\ pc' = [pc EXCEPT ![m] = "leaving"]
  /\ UNCHANGED <<size, flags, requesterVars>>

Leave(m) ==
  /\ pc[m] = "leaving"
  /\ atSafepoint' = [atSafepoint EXCEPT ![m] = FALSE]
  /\ pc' = [pc EXCEPT ![m] = "running"]
  /\ UNCHANGED <<size, pollRequested, requesterVars>>

Mutator(m) ==
  Run(m) \/ Return(m) \/ Poll(m) \/ Announce(m) \/ SpinEnds(m) \/ Leave(m)

-----------------------------------------------------------------------------
(* Requesters.                                                             *)

(* Mutant: <= for <.                                                       *)
PastEnd(r) == idx[r] <= last[r]

(* The range-for over states_ has an element left.                         *)
InLoop(r) == idx[r] < last[r]

(* r starts a range-for over states_.                                      *)
StartLoop(r, at) ==
  /\ rpc' = [rpc EXCEPT ![r] = at]
  /\ idx' = [idx EXCEPT ![r] = 0]
  /\ last' = [last EXCEPT ![r] = size]

(* r goes on to the next element, at the given place.                      *)
NextElement(r, at) ==
  /\ rpc' = [rpc EXCEPT ![r] = at]
  /\ idx' = [idx EXCEPT ![r] = @ + 1]
  /\ UNCHANGED last

GoTo(r, at) ==
  /\ rpc' = [rpc EXCEPT ![r] = at]
  /\ UNCHANGED <<idx, last>>

(* The pause after a release is over.                                      *)
Paused ==
  CASE Pace = "none" -> TRUE
    [] Pace = "answered" ->
         \A m \in Registered : pc[m] # "entering" /\ ~atSafepoint[m]
    [] Pace = "left" -> \A m \in Registered : pc[m] \in {"idle", "running"}

(* request_global_safepoint is called, for the first time or again after   *)
(* a timeout.                                                              *)
Request(r) ==
  /\ rpc[r] \in {"idle", "timedOut"}
  /\ rpc[r] = "idle" => Paused
  /\ StartLoop(r, "polling")
  /\ UNCHANGED <<size, flags, pc>>

SetPoll(r) ==
  /\ rpc[r] = "polling" /\ InLoop(r)
  /\ pollRequested' = [pollRequested EXCEPT ![idx[r]] = TRUE]
  /\ NextElement(r, "polling")
  /\ UNCHANGED <<size, atSafepoint, pc>>

AllPolled(r) ==
  /\ rpc[r] = "polling" /\ ~InLoop(r)
  /\ GoTo(r, "polled")
  /\ UNCHANGED <<size, flags, pc>>

(* The deadline is computed; the second loop starts.                       *)
StartWait(r) ==
  /\ rpc[r] = "polled"
  /\ StartLoop(r, "waiting")
  /\ UNCHANGED <<size, flags, pc>>

SeeAtSafepoint(r) ==
  /\ rpc[r] = "waiting" /\ InLoop(r) /\ atSafepoint[idx[r]]
  /\ NextElement(r, "waiting")
  /\ UNCHANGED <<size, flags, pc>>

(* request_global_safepoint returns false.                                 *)
TimeOut(r) ==
  /\ Timeouts
  /\ rpc[r] = "waiting" /\ InLoop(r) /\ ~atSafepoint[idx[r]]
  /\ GoTo(r, "timedOut")
  /\ UNCHANGED <<size, flags, pc>>

(* request_global_safepoint returns true.                                  *)
Grant(r) ==
  /\ rpc[r] = "waiting" /\ ~InLoop(r)
  /\ GoTo(r, "held")
  /\ UNCHANGED <<size, flags, pc>>

(* release_safepoint is called, whatever the request returned.             *)
Release(r) ==
  /\ rpc[r] \in {"held", "timedOut"}
  /\ StartLoop(r, "releasing")
  /\ UNCHANGED <<size, flags, pc>>

(* Mutant: poll_requested is left raised.                                  *)
LeftPolled(m) == TRUE

(* What release_safepoint stores in poll_requested.                        *)
ReleasedPoll(m) == FALSE

ClearPoll(r) ==
  /\ rpc[r] = "releasing" /\ InLoop(r)
  /\ pollRequested' = [pollRequested EXCEPT ![idx[r]] = ReleasedPoll(idx[r])]
  /\ GoTo(r, "clearing")
  /\ UNCHANGED <<size, atSafepoint, pc>>

ClearAt(r) ==
  /\ rpc[r] = "clearing"
  /\ atSafepoint' = [atSafepoint EXCEPT ![idx[r]] = FALSE]
  /\ NextElement(r, "releasing")
  /\ UNCHANGED <<size, pollRequested, pc>>

AllReleased(r) ==
  /\ rpc[r] = "releasing" /\ ~InLoop(r)
  /\ GoTo(r, "idle")
  /\ UNCHANGED <<size, flags, pc>>

(* What r does inside a call, or between a call and the release it owes.   *)
Handshake(r) ==
  \/ SetPoll(r) \/ AllPolled(r) \/ StartWait(r)
  \/ SeeAtSafepoint(r) \/ Grant(r)
  \/ Release(r) \/ ClearPoll(r) \/ ClearAt(r) \/ AllReleased(r)

Requester(r) == Request(r) \/ Handshake(r) \/ TimeOut(r)

Next ==
  \/ Register
  \/ \E m \in Ids : Mutator(m)
  \/ \E r \in Requesters : Requester(r)

Spec == Init /\ [][Next]_vars

(* A mutator that runs polls ("every loop back-edge and return", Rule A.4) *)
(* and carries enter_safepoint through; a requester carries its calls      *)
(* through and releases what it requested.  Nobody has to request, return  *)
(* from run or call it again, and no wait is assumed to time out.          *)
Fairness ==
  /\ \A m \in Ids : WF_vars(Poll(m) \/ Announce(m) \/ SpinEnds(m) \/ Leave(m))
  /\ \A r \in Requesters : WF_vars(Handshake(r))

FairSpec == Spec /\ Fairness

-----------------------------------------------------------------------------
(* Properties.                                                             *)

(* The mutators r's wait has seen at the safepoint: all of them once the   *)
(* request has returned true.                                              *)
Counted(r) ==
  CASE rpc[r] = "waiting" -> 0 .. idx[r] - 1
    [] rpc[r] = "held" -> 0 .. last[r] - 1
    [] OTHER -> {}

(* "Returns once every mutator thread has reached a safepoint" (comment of *)
(* request_global_safepoint): who was counted stays in enter_safepoint     *)
(* until the release, and runs nothing while the world is held.            *)
CountedStayStopped ==
  \A r \in Requesters : \A m \in Counted(r) : pc[m] = "spinning"

(* A request is granted: it "reaches all mutator threads within a bounded  *)
(* number of bytecodes" (docs/ARCHITECTURE.md, 4.2).                       *)
RequestIsGranted ==
  \A r \in Requesters : rpc[r] = "polling" ~> rpc[r] = "held"

(* Nobody is left behind at a safepoint: who stops runs again.             *)
MutatorsResume ==
  \A m \in Ids : pc[m] \in {"entering", "spinning"} ~> pc[m] = "running"
=============================================================================
