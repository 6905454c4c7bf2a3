-------------------------- MODULE Safepoint_proofs --------------------------
(* Theorems about Safepoint: type correctness for every configuration, and *)
(* that a single requester whose waits do not time out holds the mutators  *)
(* it has counted, however close its requests are.                         *)
EXTENDS Safepoint, TLAPS

-----------------------------------------------------------------------------
(* Type correctness.                                                       *)

(* A loop stays inside states_, which only grows.                          *)
LoopInv ==
  \A r \in Requesters :
    /\ idx[r] <= last[r] /\ last[r] <= size
    /\ rpc[r] = "clearing" => idx[r] < last[r]

TypeInv == TypeOK /\ LoopInv

LEMMA MutatorTypes ==
  ASSUME TypeInv, NEW m \in Ids, Mutator(m)
  PROVE  TypeInv'
<1> USE DEF TypeInv, TypeOK, LoopInv, flags, requesterVars
<1>1. ASSUME Run(m) \/ Return(m) \/ Poll(m) \/ SpinEnds(m) PROVE TypeInv'
  BY <1>1 DEF Run, Return, Poll, SpinEnds, MutatorPc
<1>2. CASE Announce(m)
  BY <1>2 DEF Announce, MutatorPc
<1>3. CASE Leave(m)
  BY <1>3 DEF Leave, MutatorPc
<1> QED
  BY <1>1, <1>2, <1>3 DEF Mutator

LEMMA RequesterTypes ==
  ASSUME TypeInv, NEW r \in Requesters, Requester(r)
  PROVE  TypeInv'
<1> USE MutatorsAssumption
    DEF TypeInv, TypeOK, LoopInv, flags, RequesterPc, InLoop, Ids
<1>1. ASSUME Request(r) \/ StartWait(r) \/ Release(r) PROVE TypeInv'
  <2>1. PICK at \in {"polling", "waiting", "releasing"} : StartLoop(r, at)
    BY <1>1, Zenon DEF Request, StartWait, Release
  <2>2. UNCHANGED <<size, pollRequested, atSafepoint, pc>>
    BY <1>1, Zenon DEF Request, StartWait, Release, flags
  <2> QED
    BY <2>1, <2>2 DEF StartLoop
<1>2. ASSUME AllPolled(r) \/ TimeOut(r) \/ Grant(r) \/ AllReleased(r)
      PROVE  TypeInv'
  BY <1>2 DEF AllPolled, TimeOut, Grant, AllReleased, GoTo
<1>3. CASE SetPoll(r)
  BY <1>3 DEF SetPoll, NextElement
<1>4. CASE SeeAtSafepoint(r)
  BY <1>4 DEF SeeAtSafepoint, NextElement
<1>5. CASE ClearPoll(r)
  BY <1>5 DEF ClearPoll, ReleasedPoll, GoTo
<1>6. CASE ClearAt(r)
  BY <1>6 DEF ClearAt, NextElement
<1> QED
  BY <1>1, <1>2, <1>3, <1>4, <1>5, <1>6 DEF Requester, Handshake

LEMMA TypeInvInvariant == Spec => []TypeInv
<1>1. Init => TypeInv
  BY MutatorsAssumption
     DEF Init, TypeInv, TypeOK, LoopInv, MutatorPc, RequesterPc
<1>2. TypeInv /\ [Next]_vars => TypeInv'
  <2> SUFFICES ASSUME TypeInv, [Next]_vars PROVE TypeInv'
    OBVIOUS
  <2>1. CASE Register
    <3>1. /\ size < MaxMutators /\ size' = size + 1
          /\ pc' = [pc EXCEPT ![size] = "idle"]
          /\ UNCHANGED <<flags, requesterVars>>
      BY <2>1 DEF Register
    <3>2. TypeOK'
      <4>1. size' \in 0 .. MaxMutators
        BY <3>1, MutatorsAssumption DEF TypeInv, TypeOK
      <4>2. pc' \in [Ids -> MutatorPc]
        BY <3>1 DEF TypeInv, TypeOK, MutatorPc
      <4> QED
        BY <3>1, <4>1, <4>2, Zenon DEF TypeInv, TypeOK, flags, requesterVars
    <3>3. LoopInv'
      BY <3>1, MutatorsAssumption DEF TypeInv, TypeOK, LoopInv, requesterVars
    <3> QED
      BY <3>2, <3>3 DEF TypeInv
  <2>2. CASE UNCHANGED vars
    BY <2>2 DEF TypeInv, TypeOK, LoopInv, vars, flags, requesterVars
  <2> QED
    BY <2>1, <2>2, MutatorTypes, RequesterTypes DEF Next
<1> QED
  BY <1>1, <1>2, PTL DEF Spec

(* Every variable of Safepoint keeps its type, for any number of mutators  *)
(* and requesters, with or without timeouts.                               *)
THEOREM SafepointTypes == Spec => []TypeOK
<1>1. TypeInv => TypeOK
  BY DEF TypeInv
<1> QED
  BY TypeInvInvariant, <1>1, PTL

-----------------------------------------------------------------------------
(* A single requester whose waits do not time out.                         *)

(* Where no mutator may be on its way to the safepoint: between the grant  *)
(* of a request and the next request.                                      *)
Granted == {"held", "releasing", "clearing", "idle"}

(* r is between the two stores of release_safepoint on m.                  *)
Releasing(r, m) == rpc[r] = "clearing" /\ idx[r] = m

(* at_safepoint is raised only by a mutator that spins on a raised poll    *)
(* flag, unless the release is lowering the two right now.                 *)
AnnouncedInv(r) ==
  \A m \in Ids :
    atSafepoint[m] = TRUE =>
      IF Releasing(r, m) THEN pc[m] \in {"spinning", "leaving"}
                         ELSE pollRequested[m] = TRUE /\ pc[m] = "spinning"

(* A raised poll flag is answered before the world is released.            *)
PolledInv(r) ==
  \A m \in Ids :
    /\ pc[m] = "entering" => pollRequested[m] = TRUE
    /\ rpc[r] \in Granted /\ pollRequested[m] = TRUE => pc[m] = "spinning"
    /\ m >= size => pollRequested[m] = FALSE
    /\ rpc[r] \in {"waiting", "held"} /\ m >= last[r] =>
         pollRequested[m] = FALSE

(* Who was counted has announced itself.                                   *)
CountedInv(r) == \A m \in Counted(r) : m \in Ids /\ atSafepoint[m] = TRUE

HandshakeInv(r) ==
  /\ rpc[r] # "timedOut"
  /\ AnnouncedInv(r)
  /\ PolledInv(r)
  /\ CountedInv(r)

(* The steps of a mutator.                                                 *)
LEMMA MutatorKeepsHandshake ==
  ASSUME TypeInv, NEW r \in Requesters, HandshakeInv(r),
         NEW m \in Ids, Mutator(m)
  PROVE  HandshakeInv(r)'
<1> USE DEF TypeInv, TypeOK, HandshakeInv, AnnouncedInv, PolledInv, CountedInv,
            Counted, Releasing, Granted, flags, requesterVars, MutatorPc
<1>1. CASE Run(m)
  BY <1>1 DEF Run
<1>2. CASE Return(m)
  BY <1>2 DEF Return
<1>3. CASE Poll(m)
  BY <1>3 DEF Poll
<1>4. CASE Announce(m)
  BY <1>4 DEF Announce
<1>5. CASE SpinEnds(m)
  BY <1>5 DEF SpinEnds, SpinDone
<1>6. CASE Leave(m)
  BY <1>6 DEF Leave
<1> QED
  BY <1>1, <1>2, <1>3, <1>4, <1>5, <1>6 DEF Mutator

(* The steps of the requester.  Grant is where the count pays off: nobody  *)
(* is on its way to the safepoint when the world is held.                  *)
LEMMA RequesterKeepsHandshake ==
  ASSUME Timeouts = FALSE, TypeInv,
         NEW r \in Requesters, HandshakeInv(r), Requester(r)
  PROVE  HandshakeInv(r)'
<1> USE MutatorsAssumption
    DEF TypeInv, TypeOK, LoopInv, HandshakeInv, AnnouncedInv, PolledInv,
        CountedInv, Counted, Releasing, Granted, InLoop, Ids, flags
<1>1. CASE Request(r)
  BY <1>1 DEF Request, StartLoop
<1>2. CASE SetPoll(r)
  BY <1>2 DEF SetPoll, NextElement
<1>3. CASE AllPolled(r)
  BY <1>3 DEF AllPolled, GoTo
<1>4. CASE StartWait(r)
  BY <1>4 DEF StartWait, StartLoop
<1>5. CASE SeeAtSafepoint(r)
  BY <1>5 DEF SeeAtSafepoint, NextElement
<1>6. CASE Grant(r)
  BY <1>6 DEF Grant, GoTo
<1>7. CASE Release(r)
  BY <1>7 DEF Release, StartLoop
<1>8. CASE ClearPoll(r)
  BY <1>8 DEF ClearPoll, ReleasedPoll, GoTo
<1>9. CASE ClearAt(r)
  BY <1>9 DEF ClearAt, NextElement
<1>10. CASE AllReleased(r)
  BY <1>10 DEF AllReleased, GoTo
<1>11. CASE TimeOut(r)
  BY <1>11, Zenon DEF TimeOut
<1> QED
  BY <1>1, <1>2, <1>3, <1>4, <1>5, <1>6, <1>7, <1>8, <1>9, <1>10, <1>11
     DEF Requester, Handshake

LEMMA RegisterKeepsHandshake ==
  ASSUME TypeInv, NEW r \in Requesters, HandshakeInv(r), Register
  PROVE  HandshakeInv(r)'
<1>1. /\ size' = size + 1 /\ size \in Nat
      /\ pc' = [pc EXCEPT ![size] = "idle"]
      /\ UNCHANGED <<pollRequested, atSafepoint, rpc, idx, last>>
  BY MutatorsAssumption DEF Register, flags, requesterVars, TypeInv, TypeOK
<1>2. \A m \in Ids : pc'[m] = IF m = size THEN "idle" ELSE pc[m]
  BY <1>1 DEF TypeInv, TypeOK
<1>3. \A m \in Ids : m = size => pollRequested[m] = FALSE
  BY <1>1 DEF HandshakeInv, PolledInv
<1>4. \A m \in Ids : m >= size' => m >= size
  BY <1>1 DEF Ids
<1>5. \A m \in Ids : m = size => atSafepoint[m] # TRUE
  <2> SUFFICES ASSUME size \in Ids, atSafepoint[size] = TRUE PROVE FALSE
    OBVIOUS
  <2>1. Releasing(r, size)
    BY <1>3 DEF HandshakeInv, AnnouncedInv
  <2> QED
    BY <2>1, <1>1, MutatorsAssumption
       DEF Releasing, TypeInv, LoopInv, TypeOK
<1>6. AnnouncedInv(r)'
  BY <1>1, <1>2, <1>5 DEF HandshakeInv, AnnouncedInv, Releasing
<1>7. PolledInv(r)'
  BY <1>1, <1>2, <1>3, <1>4 DEF HandshakeInv, PolledInv, Granted
<1>8. CountedInv(r)' /\ rpc'[r] # "timedOut"
  BY <1>1 DEF HandshakeInv, CountedInv, Counted
<1> QED
  BY <1>6, <1>7, <1>8 DEF HandshakeInv

(* A request that a single requester was granted holds every mutator it    *)
(* counted until the release, however close the requests follow each       *)
(* other: for any number of mutators, as long as no wait times out.        *)
THEOREM SingleRequesterIsSafe ==
  ASSUME NEW gc, Requesters = {gc}, Timeouts = FALSE
  PROVE  Spec => []CountedStayStopped
<1> DEFINE Inv == TypeInv /\ HandshakeInv(gc)
<1>1. Init => HandshakeInv(gc)
  BY MutatorsAssumption
     DEF Init, HandshakeInv, AnnouncedInv, PolledInv, CountedInv, Counted,
         Releasing, Granted, Ids
<1>2. TypeInv /\ HandshakeInv(gc) /\ [Next]_vars => HandshakeInv(gc)'
  <2> SUFFICES ASSUME TypeInv, HandshakeInv(gc), [Next]_vars
               PROVE  HandshakeInv(gc)'
    OBVIOUS
  <2>1. CASE UNCHANGED vars
    BY <2>1 DEF vars, flags, requesterVars, HandshakeInv, AnnouncedInv,
                PolledInv, CountedInv, Counted, Releasing, Granted
  <2> QED
    BY <2>1, MutatorKeepsHandshake, RequesterKeepsHandshake,
       RegisterKeepsHandshake DEF Next
<1>3. TypeInv /\ HandshakeInv(gc) => CountedStayStopped
  BY DEF CountedStayStopped, HandshakeInv, AnnouncedInv, CountedInv, Counted,
         Releasing
<1> QED
  BY <1>1, <1>2, <1>3, TypeInvInvariant, PTL DEF Spec
=============================================================================
