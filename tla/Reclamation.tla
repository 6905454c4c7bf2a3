----------------------------- MODULE Reclamation -----------------------------
(* What safe memory reclamation promises to compiler threads, whatever scheme  *)
(* keeps the promise: the header of src/src/jade/runtime/Epoch.hpp, "Nodes are *)
(* retired into the current epoch and freed only when no thread can still hold *)
(* a reference from that epoch."  No epochs here: a node is linked, then       *)
(* unlinked, then freed, and whoever obtained it while it was linked may go on *)
(* using it.                                                                   *)
EXTENDS FiniteSets

CONSTANTS Threads, Nodes

VARIABLES
  held,    \* the nodes a thread holds pointers to
  linked,  \* the nodes a thread can still obtain
  freed    \* the nodes whose memory is gone

vars == <<held, linked, freed>>

Init ==
  /\ held = [t \in Threads |-> {}]
  /\ linked = Nodes
  /\ freed = {}

Obtain(t, n) ==
  /\ n \in linked
  /\ held' = [held EXCEPT ![t] = @ \cup {n}]
  /\ UNCHANGED <<linked, freed>>

LetGo(t, S) ==
  /\ held' = [held EXCEPT ![t] = @ \ S]
  /\ UNCHANGED <<linked, freed>>

Unlink(n) ==
  /\ linked' = linked \ {n}
  /\ UNCHANGED <<held, freed>>

(* The promise: only what nobody holds, and nobody can obtain, is freed.       *)
Free(S) ==
  /\ S \cap linked = {}
  /\ \A t \in Threads : S \cap held[t] = {}
  /\ freed' = freed \cup S
  /\ UNCHANGED <<held, linked>>

Next ==
  \/ \E t \in Threads, n \in Nodes : Obtain(t, n)
  \/ \E t \in Threads, S \in SUBSET Nodes : LetGo(t, S)
  \/ \E n \in Nodes : Unlink(n)
  \/ \E S \in SUBSET Nodes : Free(S)

Spec == Init /\ [][Next]_vars
=============================================================================
