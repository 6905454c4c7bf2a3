------------------------- MODULE CodeEmitter_proofs -------------------------
(***************************************************************************)
(* Type correctness of the register allocator, and the safety of the       *)
(* allocation: overlapping intervals are never given the same register,    *)
(* whatever the graph and the pools of registers.                          *)
(*                                                                         *)
(* The argument: the active list never loses an interval that has a        *)
(* register and has not ended, although it may keep ones that have; so a   *)
(* register no active interval holds is free.                              *)
(*                                                                         *)
(* Then the code emitted for what was allocated: it is type correct and,   *)
(* where no node takes a register that is in use, right, for every graph   *)
(* whose values are defined before they are used, and every pool.          *)
(*                                                                         *)
(* The argument: a value that a later node, or a later iteration of a      *)
(* loop, wants lives past every node executed until then; so no node in    *)
(* between has its register or its slot, and it stays where the allocator  *)
(* put it.                                                                 *)
(***************************************************************************)
EXTENDS CodeEmitter, FiniteSetTheorems, SequenceTheorems, TLAPS

(* A list of intervals without repetition.                                 *)
IsList(s) == s \in Seq(Nodes) /\ \A i, j \in DOMAIN s : s[i] = s[j] => i = j

Size == Len(graph.kind)

(* The allocator's graph, position and intervals.                          *)
Shape ==
  /\ graph \in Graphs
  /\ at \in Nodes
  /\ end \in [Nodes -> Nat]
  /\ reg \in [Nodes -> Registers \cup {NoReg}]

-----------------------------------------------------------------------------
(* Lists.                                                                  *)

LEMMA GraphFacts ==
  ASSUME graph \in Graphs
  PROVE  /\ Size \in Nat \ {0} /\ Nodes = 1 .. Size /\ Nodes \subseteq Nat
         /\ graph.inputs \in [Nodes -> Seq(Nodes)]
<1>1. graph.kind \in Seq(STRING) /\ graph.kind # <<>>
      /\ graph.inputs \in [DOMAIN graph.kind -> Seq(DOMAIN graph.kind)]
  BY GraphsAssumption
<1>2. Len(graph.kind) \in Nat /\ DOMAIN graph.kind = 1 .. Len(graph.kind)
  BY <1>1
<1>3. Len(graph.kind) # 0
  BY <1>1, EmptySeq
<1> QED  BY <1>1, <1>2, <1>3 DEF Size, Nodes

LEMMA PoolFacts ==
  ASSUME NEW v
  PROVE  /\ Pool(v) \in Seq(STRING \ {NoReg})
         /\ \A k \in DOMAIN Pool(v) : Pool(v)[k] \in Registers /\ Pool(v)[k] # NoReg
<1>1. Pool(v) = Gprs \/ Pool(v) = Xmms
  BY DEF Pool
<1>2. ASSUME NEW s \in Seq(STRING \ {NoReg}), s = Gprs \/ s = Xmms
      PROVE  \A k \in DOMAIN s : s[k] \in Registers /\ s[k] # NoReg
  BY <1>2 DEF Registers, ToSet
<1> QED  BY <1>1, <1>2, PoolsAssumption

(* expire_active loses no interval that has not ended.                     *)
LEMMA SweptKeeps ==
  ASSUME Shape, NEW s, IsList(s), NEW position \in Int, NEW t \in Swept(s, position)
  PROVE  /\ IsList(t)
         /\ \A j \in DOMAIN t : \E i \in DOMAIN s : t[j] = s[i]
         /\ \A i \in DOMAIN s : end[s[i]] > position => \E j \in DOMAIN t : t[j] = s[i]
<1> DEFINE kept == {k \in 2 .. Len(s) : end[s[k]] > position}
<1>1. CASE s = <<>> \/ end[s[1]] > position
  BY <1>1 DEF Swept
<1>2. CASE ~(s = <<>> \/ end[s[1]] > position) /\ kept = {}
  <2>1. t = <<>>
    BY <1>2 DEF Swept
  <2>2. \A i \in DOMAIN s : ~(end[s[i]] > position)
    BY <1>2 DEF IsList
  <2> QED  BY <2>1, <2>2 DEF IsList
<1>3. CASE ~(s = <<>> \/ end[s[1]] > position) /\ kept # {}
  <2>1. PICK k \in kept : (\A i \in kept : i <= k) /\ t = <<s[k]>> \o SubSeq(s, 2, k - 1)
    BY <1>3 DEF Swept
  <2>2. k \in 2 .. Len(s) /\ s \in Seq(Nodes) /\ Len(s) \in Nat /\ DOMAIN s = 1 .. Len(s)
    BY DEF IsList
  <2>3. /\ SubSeq(s, 2, k - 1) \in Seq(Nodes) /\ Len(SubSeq(s, 2, k - 1)) = k - 2
        /\ \A i \in 1 .. k - 2 : SubSeq(s, 2, k - 1)[i] = s[i + 1]
    BY <2>2, SubSeqProperties
  <2>4. /\ <<s[k]>> \in Seq(Nodes) /\ Len(<<s[k]>>) = 1 /\ <<s[k]>>[1] = s[k]
    BY <2>2
  <2>5. /\ t \in Seq(Nodes) /\ Len(t) = k - 1 /\ DOMAIN t = 1 .. k - 1 /\ t[1] = s[k]
        /\ \A i \in 2 .. k - 1 : t[i] = s[i]
    BY <2>1, <2>2, <2>3, <2>4, ConcatProperties
  <2>6. IsList(t)
    BY <2>2, <2>5 DEF IsList
  <2>7. \A j \in DOMAIN t : \E i \in DOMAIN s : t[j] = s[i]
    BY <2>2, <2>5
  <2>8. ASSUME NEW i \in DOMAIN s, end[s[i]] > position
        PROVE  \E j \in DOMAIN t : t[j] = s[i]
    <3>1. i # 1
      BY <1>3, <2>8
    <3>2. i <= k
      BY <2>1, <2>2, <2>8, <3>1
    <3> QED  BY <2>2, <2>5, <3>1, <3>2
  <2> QED  BY <2>6, <2>7, <2>8
<1> QED  BY <1>1, <1>2, <1>3

(* Sorting keeps the elements.                                             *)
LEMMA SortedKeeps ==
  ASSUME NEW s, IsList(s), NEW t \in Sorted(s)
  PROVE  /\ IsList(t)
         /\ \A j \in DOMAIN t : \E i \in DOMAIN s : t[j] = s[i]
         /\ \A i \in DOMAIN s : \E j \in DOMAIN t : t[j] = s[i]
<1>1. PICK p \in Bijection(DOMAIN s, DOMAIN s) : t = [i \in DOMAIN s |-> s[p[i]]]
  BY DEF Sorted
<1>2. /\ p \in [DOMAIN s -> DOMAIN s]
      /\ \A a, b \in DOMAIN s : p[a] = p[b] => a = b
      /\ \A i \in DOMAIN s : \E j \in DOMAIN s : p[j] = i
  BY DEF Bijection, Injection, Surjection, IsInjective
<1>3. s \in Seq(Nodes) /\ Len(s) \in Nat /\ DOMAIN s = 1 .. Len(s)
  BY DEF IsList
<1>4. t \in Seq(Nodes) /\ DOMAIN t = DOMAIN s
  BY <1>1, <1>2, <1>3
<1>5. \A i, j \in DOMAIN t : t[i] = t[j] => i = j
  BY <1>1, <1>2, <1>4 DEF IsList
<1> QED  BY <1>1, <1>2, <1>4, <1>5 DEF IsList

LEMMA ExpiredKeeps ==
  ASSUME Shape, NEW s, IsList(s), NEW position \in Int, NEW t \in Expired(s, position)
  PROVE  /\ IsList(t)
         /\ \A j \in DOMAIN t : \E i \in DOMAIN s : t[j] = s[i]
         /\ \A i \in DOMAIN s : end[s[i]] > position => \E j \in DOMAIN t : t[j] = s[i]
<1>1. PICK u \in Swept(s, position) : t \in Sorted(u)
  BY DEF Expired
<1>2. /\ IsList(u)
      /\ \A j \in DOMAIN u : \E i \in DOMAIN s : u[j] = s[i]
      /\ \A i \in DOMAIN s : end[s[i]] > position => \E j \in DOMAIN u : u[j] = s[i]
  BY <1>1, SweptKeeps
<1>3. /\ IsList(t)
      /\ \A j \in DOMAIN t : \E i \in DOMAIN u : t[j] = u[i]
      /\ \A i \in DOMAIN u : \E j \in DOMAIN t : t[j] = u[i]
  BY <1>1, <1>2, SortedKeeps
<1> QED  BY <1>2, <1>3

(* Removing a victim removes it alone.                                     *)
LEMMA SwapRemoveKeeps ==
  ASSUME NEW s, IsList(s), NEW k \in DOMAIN s
  PROVE  /\ IsList(SwapRemove(s, k))
         /\ \A j \in DOMAIN SwapRemove(s, k) :
              \E i \in DOMAIN s : i # k /\ SwapRemove(s, k)[j] = s[i]
         /\ \A i \in DOMAIN s :
              i # k => \E j \in DOMAIN SwapRemove(s, k) : SwapRemove(s, k)[j] = s[i]
<1> DEFINE t == SwapRemove(s, k)
<1>1. s \in Seq(Nodes) /\ Len(s) \in Nat /\ DOMAIN s = 1 .. Len(s) /\ Len(s) # 0
  BY DEF IsList
<1>2. /\ DOMAIN t = 1 .. Len(s) - 1 /\ t \in Seq(Nodes)
      /\ \A i \in DOMAIN t : t[i] = IF i = k THEN s[Len(s)] ELSE s[i]
  BY <1>1 DEF SwapRemove
<1>3. \A i, j \in DOMAIN t : t[i] = t[j] => i = j
  BY <1>1, <1>2 DEF IsList
<1>4. \A j \in DOMAIN t : \E i \in DOMAIN s : i # k /\ t[j] = s[i]
  BY <1>1, <1>2
<1>5. \A i \in DOMAIN s : i # k => \E j \in DOMAIN t : t[j] = s[i]
  <2> TAKE i \in DOMAIN s
  <2> HAVE i # k
  <2>1. CASE i = Len(s)
    BY <1>1, <1>2, <2>1
  <2>2. CASE i # Len(s)
    BY <1>1, <1>2, <2>2
  <2> QED  BY <2>1, <2>2
<1> QED  BY <1>2, <1>3, <1>4, <1>5 DEF IsList

(* Inserting adds the new interval alone.                                  *)
LEMMA InsertKeeps ==
  ASSUME NEW s, IsList(s), NEW v \in Nodes, \A i \in DOMAIN s : s[i] # v,
         NEW p \in 1 .. Len(s) + 1
  PROVE  LET t == InsertAt(s, p, v)
         IN /\ IsList(t)
            /\ \A j \in DOMAIN t : t[j] = v \/ \E i \in DOMAIN s : t[j] = s[i]
            /\ \A i \in DOMAIN s : \E j \in DOMAIN t : t[j] = s[i]
            /\ \E j \in DOMAIN t : t[j] = v
<1> DEFINE t == InsertAt(s, p, v)
           low == SubSeq(s, 1, p - 1)
           high == SubSeq(s, p, Len(s))
<1>1. s \in Seq(Nodes) /\ Len(s) \in Nat /\ DOMAIN s = 1 .. Len(s) /\ p \in Nat
  BY DEF IsList
<1>2. low \in Seq(Nodes) /\ Len(low) = p - 1 /\ \A i \in 1 .. p - 1 : low[i] = s[i]
  BY <1>1, SubSeqProperties
<1>3. /\ high \in Seq(Nodes) /\ Len(high) = Len(s) - p + 1
      /\ \A i \in 1 .. Len(s) - p + 1 : high[i] = s[p + i - 1]
  BY <1>1, SubSeqProperties
<1>4. <<v>> \in Seq(Nodes) /\ Len(<<v>>) = 1 /\ <<v>>[1] = v
  OBVIOUS
<1> DEFINE first == low \o <<v>>
<1>5. /\ first \in Seq(Nodes) /\ Len(first) = p
      /\ \A i \in 1 .. p : first[i] = IF i = p THEN v ELSE s[i]
  BY <1>1, <1>2, <1>4, ConcatProperties
<1>6. t = first \o high
  BY DEF InsertAt
<1> HIDE DEF t, first, high, low
<1>7. /\ t \in Seq(Nodes) /\ Len(t) = Len(s) + 1 /\ DOMAIN t = 1 .. Len(s) + 1
      /\ \A i \in 1 .. p - 1 : t[i] = s[i]
      /\ t[p] = v
      /\ \A i \in p + 1 .. Len(s) + 1 : t[i] = s[i - 1]
  <2>1. /\ t \in Seq(Nodes) /\ Len(t) = Len(s) + 1
        /\ \A i \in 1 .. Len(s) + 1 : t[i] = IF i <= p THEN first[i] ELSE high[i - p]
    <3>1. /\ t \in Seq(Nodes) /\ Len(t) = Len(first) + Len(high)
          /\ \A i \in 1 .. Len(first) + Len(high) :
               t[i] = IF i <= Len(first) THEN first[i] ELSE high[i - Len(first)]
      BY <1>3, <1>5, <1>6, ConcatProperties
    <3> QED  BY <1>1, <1>3, <1>5, <3>1
  <2>2. \A i \in p + 1 .. Len(s) + 1 : high[i - p] = s[i - 1]
    <3>1. ASSUME NEW i \in p + 1 .. Len(s) + 1 PROVE high[i - p] = s[i - 1]
      <4>1. i - p \in 1 .. Len(s) - p + 1 /\ p + (i - p) - 1 = i - 1
        BY <1>1
      <4>2. high[i - p] = s[p + (i - p) - 1]
        BY <1>3, <4>1
      <4> QED  BY <4>1, <4>2
    <3> QED  BY <3>1
  <2>3. \A i \in 1 .. p - 1 : t[i] = s[i]
    BY <1>1, <1>5, <2>1
  <2>4. t[p] = v
    BY <1>1, <1>5, <2>1
  <2>5. \A i \in p + 1 .. Len(s) + 1 : t[i] = s[i - 1]
    BY <1>1, <2>1, <2>2
  <2>6. DOMAIN t = 1 .. Len(s) + 1
    BY <2>1
  <2> QED  BY <2>1, <2>3, <2>4, <2>5, <2>6
<1>8. \A i, j \in DOMAIN t : t[i] = t[j] => i = j
  <2> TAKE i, j \in DOMAIN t
  <2> HAVE t[i] = t[j]
  <2>1. ASSUME NEW k \in DOMAIN t, k # p
        PROVE  \E n \in DOMAIN s : n = (IF k < p THEN k ELSE k - 1) /\ t[k] = s[n]
    <3>1. CASE k < p
      BY <1>1, <1>7, <2>1, <3>1
    <3>2. CASE k > p
      <4>1. k \in p + 1 .. Len(s) + 1 /\ k - 1 \in DOMAIN s
        BY <1>1, <1>7, <2>1, <3>2
      <4>2. t[k] = s[k - 1]
        BY <1>7, <4>1
      <4> QED  BY <4>1, <4>2, <3>2, <1>1
    <3> QED  BY <1>1, <1>7, <2>1, <3>1, <3>2
  <2>2. ASSUME NEW k \in DOMAIN t, k # p PROVE t[k] # v
    BY <2>1, <2>2
  <2>3. CASE i = p \/ j = p
    BY <1>7, <2>2, <2>3
  <2>4. CASE i # p /\ j # p
    <3>1. PICK a \in DOMAIN s : a = (IF i < p THEN i ELSE i - 1) /\ t[i] = s[a]
      BY <2>1, <2>4
    <3>2. PICK b \in DOMAIN s : b = (IF j < p THEN j ELSE j - 1) /\ t[j] = s[b]
      BY <2>1, <2>4
    <3>3. a = b
      BY <3>1, <3>2 DEF IsList
    <3> QED  BY <1>1, <1>7, <2>4, <3>1, <3>2, <3>3
  <2> QED  BY <2>3, <2>4
<1>9. \A j \in DOMAIN t : t[j] = v \/ \E i \in DOMAIN s : t[j] = s[i]
  BY <1>1, <1>7
<1>10. ASSUME NEW i \in DOMAIN s PROVE \E j \in DOMAIN t : t[j] = s[i]
  <2>1. CASE i < p
    BY <1>1, <1>7, <2>1
  <2>2. CASE i >= p
    <3>1. i + 1 \in DOMAIN t /\ t[i + 1] = s[i]
      BY <1>1, <1>7, <2>2
    <3> QED  BY <3>1
  <2> QED  BY <1>1, <2>1, <2>2
<1> QED  BY <1>1, <1>7, <1>8, <1>9, <1>10 DEF t, IsList

-----------------------------------------------------------------------------
(* The invariant.                                                          *)

(* What the walk has established when it comes to an interval: every       *)
(* earlier one that has a register and has not ended is active.            *)
WalkInv ==
  /\ phase \in {"uses", "loops"} => /\ active = <<>>
                                    /\ \A v \in Nodes : reg[v] = NoReg
  /\ phase = "walk" =>
       /\ \A i \in DOMAIN active : active[i] < at
       /\ \A v \in Nodes : v >= at => reg[v] = NoReg
       /\ \A v \in Nodes : v < at /\ reg[v] # NoReg /\ end[v] > at - 1
                             => \E i \in DOMAIN active : active[i] = v

TypeInv == AllocTypeOK /\ graph \in Graphs /\ IsList(active)

AllocInv == TypeInv /\ WalkInv /\ NoSharedRegister

LEMMA AdvanceKeeps ==
  ASSUME NEW next, TypeInv, Advance(next)
  PROVE  at' \in Nodes
<1>1. Size \in Nat \ {0} /\ Nodes = 1 .. Size
  BY GraphFacts DEF TypeInv
<1> QED  BY <1>1 DEF TypeInv, AllocTypeOK, Advance, Size

LEMMA UsesOfType ==
  ASSUME TypeInv, NEW u \in Nodes, NEW v \in Nodes
  PROVE  UsesOf(u, v) \in Nat
<1>1. graph.inputs[u] \in Seq(Nodes)
  BY GraphFacts DEF TypeInv
<1>2. IsFiniteSet(DOMAIN graph.inputs[u])
  BY <1>1, FS_Interval
<1>3. IsFiniteSet({k \in DOMAIN graph.inputs[u] : graph.inputs[u][k] = v})
  BY <1>2, FS_Subset
<1> QED  BY <1>3, FS_CardinalityType DEF UsesOf

(* A register that pick_free_reg finds is in the pool and is not held.     *)
LEMMA PickedRegister ==
  ASSUME NEW v, NEW s, NEW holder, NEW r \in PickFreeReg(v, s, holder)
  PROVE  r \in Registers /\ r # NoReg /\ \A i \in DOMAIN s : holder[s[i]] # r
<1>1. PICK k \in FreeRegs(v, s, holder) : r = Pool(v)[k]
  BY DEF PickFreeReg
<1> QED  BY <1>1, PoolFacts DEF FreeRegs

LEMMA Activated ==
  ASSUME NEW s, IsList(s), NEW v \in Nodes, \A i \in DOMAIN s : s[i] # v, Activate(v, s)
  PROVE  /\ IsList(active')
         /\ \A j \in DOMAIN active' : active'[j] = v \/ \E i \in DOMAIN s : active'[j] = s[i]
         /\ \A i \in DOMAIN s : \E j \in DOMAIN active' : active'[j] = s[i]
         /\ \E j \in DOMAIN active' : active'[j] = v
<1>1. PICK p \in 1 .. Len(s) + 1 : active' = InsertAt(s, p, v)
  BY DEF Activate, LowerBounds
<1> QED  BY <1>1, InsertKeeps

(* What expire_active leaves for the interval the walk is at.              *)
LEMMA ExpiredActive ==
  ASSUME AllocInv, phase = "walk", NEW s \in Expired(active, at - 1)
  PROVE  /\ IsList(s)
         /\ \A j \in DOMAIN s : s[j] \in Nodes /\ s[j] < at
         /\ \A v \in Nodes : v < at /\ reg[v] # NoReg /\ end[v] > at - 1
                               => \E j \in DOMAIN s : s[j] = v
<1>1. Shape /\ at - 1 \in Int /\ IsList(active)
  BY GraphFacts DEF AllocInv, TypeInv, AllocTypeOK, Shape
<1>2. /\ IsList(s)
      /\ \A j \in DOMAIN s : \E i \in DOMAIN active : s[j] = active[i]
      /\ \A i \in DOMAIN active : end[active[i]] > at - 1
                                    => \E j \in DOMAIN s : s[j] = active[i]
  BY <1>1, ExpiredKeeps
<1>3. \A j \in DOMAIN s : s[j] \in Nodes
  BY <1>2 DEF IsList
<1>4. /\ \A i \in DOMAIN active : active[i] < at
      /\ \A v \in Nodes : v < at /\ reg[v] # NoReg /\ end[v] > at - 1
                            => \E i \in DOMAIN active : active[i] = v
  BY DEF AllocInv, WalkInv
<1>5. \A j \in DOMAIN s : s[j] < at
  BY <1>2, <1>4
<1>6. ASSUME NEW v \in Nodes, v < at, reg[v] # NoReg, end[v] > at - 1
      PROVE  \E j \in DOMAIN s : s[j] = v
  <2>1. PICK i \in DOMAIN active : active[i] = v
    BY <1>4, <1>6
  <2>2. end[active[i]] > at - 1
    BY <1>6, <2>1
  <2> QED  BY <1>2, <2>1, <2>2
<1> QED  BY <1>2, <1>3, <1>5, <1>6

(* The active list holds intervals the walk has come to.                   *)
LEMMA ActiveStays ==
  ASSUME at \in Nodes, Nodes \subseteq Nat, NEW s, NEW t,
         \A j \in DOMAIN s : s[j] \in Nodes /\ s[j] < at,
         \A j \in DOMAIN t : t[j] = at \/ \E i \in DOMAIN s : t[j] = s[i]
  PROVE  \A j \in DOMAIN t : t[j] \in Nodes /\ t[j] <= at
<1> TAKE j \in DOMAIN t
<1>1. CASE t[j] = at
  <2>1. at \in Nat
    OBVIOUS
  <2> QED  BY <1>1, <2>1
<1>2. ASSUME NEW i \in DOMAIN s, t[j] = s[i]
      PROVE  t[j] \in Nodes /\ t[j] <= at
  <2>1. s[i] \in Nodes /\ s[i] < at /\ s[i] \in Nat /\ at \in Nat
    OBVIOUS
  <2> QED  BY <1>2, <2>1
<1> QED  BY <1>1, <1>2

(* The walk goes on to the next interval.                                  *)
LEMMA WalkAdvances ==
  ASSUME AllocInv, phase = "walk", Advance("slots"), UNCHANGED <<graph, end>>,
         \A j \in DOMAIN active' : active'[j] \in Nodes /\ active'[j] <= at,
         \A v \in Nodes : v > at => reg'[v] = NoReg,
         \A v \in Nodes : v <= at /\ reg'[v] # NoReg /\ end[v] > at - 1
                            => \E j \in DOMAIN active' : active'[j] = v
  PROVE  WalkInv'
<1>1. Nodes' = Nodes /\ Nodes \subseteq Nat /\ at \in Nat /\ end \in [Nodes -> Nat]
  BY GraphFacts DEF AllocInv, TypeInv, AllocTypeOK, Nodes
<1>2. CASE at < Len(graph.kind)
  <2>1. at' = at + 1 /\ phase' = "walk"
    BY <1>2 DEF Advance
  <2>2. ASSUME NEW j \in DOMAIN active' PROVE active'[j] < at'
    <3>1. active'[j] \in Nat /\ active'[j] <= at
      BY <1>1
    <3> QED  BY <1>1, <2>1, <3>1
  <2>3. \A v \in Nodes : v >= at' => reg'[v] = NoReg
    BY <1>1, <2>1
  <2>4. ASSUME NEW v \in Nodes, v < at', reg'[v] # NoReg, end'[v] > at' - 1
        PROVE  \E j \in DOMAIN active' : active'[j] = v
    <3>1. v <= at /\ end[v] > at - 1
      BY <1>1, <2>1, <2>4
    <3> QED  BY <2>4, <3>1
  <2> QED  BY <1>1, <2>1, <2>2, <2>3, <2>4 DEF WalkInv
<1>3. CASE ~(at < Len(graph.kind))
  BY <1>3 DEF Advance, WalkInv
<1> QED  BY <1>2, <1>3

-----------------------------------------------------------------------------
(* Each step of the allocator keeps the invariant.                         *)

LEMMA InitHolds == AllocInit => AllocInv
<1> SUFFICES ASSUME AllocInit PROVE AllocInv
  OBVIOUS
<1>1. graph \in Graphs /\ 1 \in Nodes /\ Nodes \subseteq Nat
      /\ graph.inputs \in [Nodes -> Seq(Nodes)]
  BY GraphFacts DEF AllocInit
<1>2. active = <<>> /\ spills = <<>> /\ <<>> \in Seq(Nodes) /\ DOMAIN <<>> = {}
  BY DEF AllocInit
<1>3. IsList(active)
  BY <1>2 DEF IsList
<1>4. end \in [Nodes -> Nat] /\ weight \in [Nodes -> Nat] /\ slot \in [Nodes -> Int]
      /\ reg \in [Nodes -> Registers \cup {NoReg}]
  BY <1>1 DEF AllocInit, NoSlot
<1>5. TypeInv
  BY <1>1, <1>2, <1>3, <1>4 DEF AllocInit, TypeInv, AllocTypeOK
<1>6. WalkInv /\ NoSharedRegister
  BY DEF AllocInit, WalkInv, NoSharedRegister
<1> QED  BY <1>5, <1>6 DEF AllocInv

LEMMA UsesStep == AllocInv /\ AddUses => AllocInv'
<1> SUFFICES ASSUME AllocInv, AddUses PROVE AllocInv'
  OBVIOUS
<1>0. /\ TypeInv /\ Nodes' = Nodes /\ Nodes \subseteq Nat /\ at \in Nodes
      /\ \A v \in Nodes : reg[v] = NoReg /\ active = <<>>
  BY GraphFacts DEF AllocInv, WalkInv, AddUses, TypeInv, AllocTypeOK, Nodes
<1>1. at' \in Nodes
  BY <1>0, AdvanceKeeps DEF AddUses
<1>2. end' \in [Nodes -> Nat]
  BY <1>0 DEF AddUses, TypeInv, AllocTypeOK
<1>3. weight' \in [Nodes -> Nat]
  <2>1. \A v \in Nodes : weight[v] + UsesOf(at, v) \in Nat
    <3> TAKE v \in Nodes
    <3>1. UsesOf(at, v) \in Nat
      BY <1>0, UsesOfType
    <3>2. weight[v] \in Nat
      BY <1>0 DEF TypeInv, AllocTypeOK
    <3> QED  BY <3>1, <3>2
  <2> QED  BY <2>1 DEF AddUses
<1>4. TypeInv'
  BY <1>0, <1>1, <1>2, <1>3 DEF AddUses, TypeInv, AllocTypeOK, IsList
<1>5. phase' \in {"uses", "loops"}
  BY DEF AddUses, Advance
<1>6. WalkInv' /\ NoSharedRegister'
  BY <1>0, <1>5 DEF AddUses, WalkInv, NoSharedRegister
<1> QED  BY <1>4, <1>6 DEF AllocInv

LEMMA LoopsStep == AllocInv /\ ExtendOverLoop => AllocInv'
<1> SUFFICES ASSUME AllocInv, ExtendOverLoop PROVE AllocInv'
  OBVIOUS
<1>0. /\ TypeInv /\ Nodes' = Nodes /\ Nodes \subseteq Nat /\ at \in Nodes
      /\ \A v \in Nodes : reg[v] = NoReg
      /\ active = <<>>
  BY GraphFacts DEF AllocInv, WalkInv, ExtendOverLoop, TypeInv, AllocTypeOK, Nodes
<1>1. at' \in Nodes
  BY <1>0, AdvanceKeeps DEF ExtendOverLoop
<1>2. end' \in [Nodes -> Nat] /\ weight' \in [Nodes -> Nat]
  <2>1. end \in [Nodes -> Nat] /\ weight \in [Nodes -> Nat]
    BY <1>0 DEF TypeInv, AllocTypeOK
  <2>2. CASE UNCHANGED <<end, weight>>
    BY <2>1, <2>2
  <2>3. ASSUME NEW j \in BackEdges(at), NEW extended \in SUBSET Nodes,
               end' = [v \in Nodes |-> IF v \in extended THEN j + 1 ELSE end[v]],
               weight' = [v \in Nodes |-> IF v \in extended THEN weight[v] + 10
                                                           ELSE weight[v]]
        PROVE  end' \in [Nodes -> Nat] /\ weight' \in [Nodes -> Nat]
    <3>1. j \in Nat
      BY <1>0 DEF BackEdges
    <3> QED  BY <2>1, <2>3, <3>1
  <2> QED  BY <2>2, <2>3 DEF ExtendOverLoop
<1>3. TypeInv'
  BY <1>0, <1>1, <1>2 DEF ExtendOverLoop, TypeInv, AllocTypeOK, IsList
<1>4. phase' = "loops" \/ phase' = "walk"
  BY DEF ExtendOverLoop, Advance
<1>5. WalkInv' /\ NoSharedRegister'
  BY <1>0, <1>4 DEF ExtendOverLoop, WalkInv, NoSharedRegister
<1> QED  BY <1>3, <1>5 DEF AllocInv

LEMMA TakeStep == AllocInv /\ TakeFreeReg => AllocInv'
<1> SUFFICES ASSUME AllocInv, TakeFreeReg PROVE AllocInv'
  OBVIOUS
<1>0. /\ TypeInv /\ Nodes' = Nodes /\ Nodes \subseteq Nat /\ at \in Nodes
      /\ reg \in [Nodes -> Registers \cup {NoReg}]
      /\ phase = "walk" /\ \A v \in Nodes : v >= at => reg[v] = NoReg
  BY GraphFacts DEF AllocInv, WalkInv, TakeFreeReg, TypeInv, AllocTypeOK, Nodes
<1>a. PICK s \in Expired(active, at - 1) : \E r \in PickFreeReg(at, s, reg) :
        reg' = [reg EXCEPT ![at] = r] /\ Activate(at, s)
  BY DEF TakeFreeReg
<1>1. PICK r \in PickFreeReg(at, s, reg) : reg' = [reg EXCEPT ![at] = r] /\ Activate(at, s)
  BY <1>a
<1>2. /\ IsList(s)
      /\ \A j \in DOMAIN s : s[j] \in Nodes /\ s[j] < at
      /\ \A v \in Nodes : v < at /\ reg[v] # NoReg /\ end[v] > at - 1
                            => \E j \in DOMAIN s : s[j] = v
  BY <1>0, ExpiredActive
<1>3. r \in Registers /\ r # NoReg /\ \A i \in DOMAIN s : reg[s[i]] # r
  BY PickedRegister
<1>4. \A i \in DOMAIN s : s[i] # at
  BY <1>0, <1>2
<1>5. /\ IsList(active')
      /\ \A j \in DOMAIN active' : active'[j] = at \/ \E i \in DOMAIN s : active'[j] = s[i]
      /\ \A i \in DOMAIN s : \E j \in DOMAIN active' : active'[j] = s[i]
      /\ \E j \in DOMAIN active' : active'[j] = at
  BY <1>0, <1>1, <1>2, <1>4, Activated
<1>6. reg' \in [Nodes -> Registers \cup {NoReg}] /\ reg'[at] = r
      /\ \A v \in Nodes : v # at => reg'[v] = reg[v]
  BY <1>0, <1>1, <1>3
<1>7. TypeInv'
  <2>1. at' \in Nodes
    BY <1>0, AdvanceKeeps DEF TakeFreeReg
  <2> QED  BY <1>0, <1>5, <1>6, <2>1 DEF TakeFreeReg, TypeInv, AllocTypeOK, IsList
<1>8. WalkInv'
  <2>1. \A j \in DOMAIN active' : active'[j] \in Nodes /\ active'[j] <= at
    BY <1>0, <1>2, <1>5, ActiveStays
  <2>2. \A v \in Nodes : v > at => reg'[v] = NoReg
    BY <1>0, <1>6
  <2>3. ASSUME NEW v \in Nodes, v <= at, reg'[v] # NoReg, end[v] > at - 1
        PROVE  \E j \in DOMAIN active' : active'[j] = v
    <3>1. CASE v = at
      BY <1>5, <3>1
    <3>2. CASE v # at
      <4>1. v < at /\ reg[v] # NoReg
        BY <1>0, <1>6, <2>3, <3>2
      <4>2. PICK i \in DOMAIN s : s[i] = v
        BY <1>2, <2>3, <4>1
      <4> QED  BY <1>5, <4>2
    <3> QED  BY <3>1, <3>2
  <2> QED  BY <1>0, <2>1, <2>2, <2>3, WalkAdvances DEF TakeFreeReg
<1>9. NoSharedRegister'
  <2> SUFFICES ASSUME NEW v \in Nodes, NEW w \in Nodes,
                      v < w, end[v] > w - 1, reg'[v] = reg'[w]
               PROVE  reg'[v] = NoReg
    BY <1>0 DEF NoSharedRegister, TakeFreeReg
  <2>1. CASE w = at
    <3>1. reg[v] = r /\ v < at /\ end[v] > at - 1
      BY <1>0, <1>6, <2>1
    <3>2. PICK i \in DOMAIN s : s[i] = v
      BY <1>2, <1>3, <3>1
    <3> QED  BY <1>3, <3>1, <3>2
  <2>2. CASE v = at
    <3>1. w # at /\ w >= at
      BY <1>0, <2>2
    <3>2. reg'[w] = NoReg
      BY <1>0, <1>6, <3>1
    <3> QED  BY <3>2
  <2>3. CASE w # at /\ v # at
    BY <1>6, <2>3 DEF AllocInv, NoSharedRegister
  <2> QED  BY <2>1, <2>2, <2>3
<1> QED  BY <1>7, <1>8, <1>9 DEF AllocInv

LEMMA SpillItselfStep == AllocInv /\ SpillItself => AllocInv'
<1> SUFFICES ASSUME AllocInv, SpillItself PROVE AllocInv'
  OBVIOUS
<1>0. /\ TypeInv /\ Nodes' = Nodes /\ Nodes \subseteq Nat /\ at \in Nodes
      /\ phase = "walk" /\ \A v \in Nodes : v >= at => reg[v] = NoReg
  BY GraphFacts DEF AllocInv, WalkInv, SpillItself, TypeInv, AllocTypeOK, Nodes
<1>1. PICK s \in Expired(active, at - 1) : active' = s
  BY DEF SpillItself
<1>2. /\ IsList(s)
      /\ \A j \in DOMAIN s : s[j] \in Nodes /\ s[j] < at
      /\ \A v \in Nodes : v < at /\ reg[v] # NoReg /\ end[v] > at - 1
                            => \E j \in DOMAIN s : s[j] = v
  BY <1>0, ExpiredActive
<1>3. TypeInv'
  <2>1. at' \in Nodes
    BY <1>0, AdvanceKeeps DEF SpillItself
  <2>2. slot' \in [Nodes -> Int] /\ spills' \in Seq(Nodes)
    BY <1>0 DEF SpillItself, TypeInv, AllocTypeOK, Unassigned
  <2> QED  BY <1>0, <1>1, <1>2, <2>1, <2>2 DEF SpillItself, TypeInv, AllocTypeOK, IsList
<1>4. WalkInv'
  <2>1. \A j \in DOMAIN active' : active'[j] \in Nodes /\ active'[j] <= at
    BY <1>0, <1>1, <1>2, ActiveStays
  <2>2. \A v \in Nodes : v > at => reg'[v] = NoReg
    BY <1>0 DEF SpillItself
  <2>3. ASSUME NEW v \in Nodes, v <= at, reg'[v] # NoReg, end[v] > at - 1
        PROVE  \E j \in DOMAIN active' : active'[j] = v
    <3>1. v < at /\ reg[v] # NoReg
      BY <1>0, <2>3 DEF SpillItself
    <3> QED  BY <1>1, <1>2, <2>3, <3>1
  <2> QED  BY <1>0, <2>1, <2>2, <2>3, WalkAdvances DEF SpillItself
<1>5. NoSharedRegister'
  BY <1>0 DEF AllocInv, NoSharedRegister, SpillItself
<1> QED  BY <1>3, <1>4, <1>5 DEF AllocInv

LEMMA SpillVictimStep == AllocInv /\ SpillVictim => AllocInv'
<1> SUFFICES ASSUME AllocInv, SpillVictim PROVE AllocInv'
  OBVIOUS
<1>0. /\ TypeInv /\ Nodes' = Nodes /\ Nodes \subseteq Nat /\ at \in Nodes
      /\ reg \in [Nodes -> Registers \cup {NoReg}]
      /\ phase = "walk" /\ \A v \in Nodes : v >= at => reg[v] = NoReg
  BY GraphFacts DEF AllocInv, WalkInv, SpillVictim, TypeInv, AllocTypeOK, Nodes
<1> DEFINE evicted(v) == [reg EXCEPT ![v] = NoReg]
<1>a. PICK s \in Expired(active, at - 1) :
        \E k \in Victims(at, s) : \E r \in PickFreeReg(at, s, evicted(s[k])) :
          /\ reg' = [evicted(s[k]) EXCEPT ![at] = r]
          /\ slot' = [slot EXCEPT ![s[k]] = Unassigned]
          /\ spills' = Append(spills, s[k])
          /\ Activate(at, SwapRemove(s, k))
  BY DEF SpillVictim
<1>b. PICK k \in Victims(at, s) : \E r \in PickFreeReg(at, s, evicted(s[k])) :
          /\ reg' = [evicted(s[k]) EXCEPT ![at] = r]
          /\ slot' = [slot EXCEPT ![s[k]] = Unassigned]
          /\ spills' = Append(spills, s[k])
          /\ Activate(at, SwapRemove(s, k))
  BY <1>a
<1>1. PICK r \in PickFreeReg(at, s, evicted(s[k])) :
          /\ reg' = [evicted(s[k]) EXCEPT ![at] = r]
          /\ slot' = [slot EXCEPT ![s[k]] = Unassigned]
          /\ spills' = Append(spills, s[k])
          /\ Activate(at, SwapRemove(s, k))
  BY <1>b
<1>2. /\ IsList(s)
      /\ \A j \in DOMAIN s : s[j] \in Nodes /\ s[j] < at
      /\ \A v \in Nodes : v < at /\ reg[v] # NoReg /\ end[v] > at - 1
                            => \E j \in DOMAIN s : s[j] = v
  BY <1>0, ExpiredActive
<1>3. k \in DOMAIN s /\ s[k] \in Nodes /\ s[k] < at
  BY <1>2 DEF Victims, Candidates
<1> DEFINE victim == s[k]
           rest == SwapRemove(s, k)
<1>4. r \in Registers /\ r # NoReg /\ \A i \in DOMAIN s : evicted(victim)[s[i]] # r
  BY PickedRegister
<1>5. /\ IsList(rest)
      /\ \A j \in DOMAIN rest : \E i \in DOMAIN s : i # k /\ rest[j] = s[i]
      /\ \A i \in DOMAIN s : i # k => \E j \in DOMAIN rest : rest[j] = s[i]
  BY <1>2, <1>3, SwapRemoveKeeps
<1>6. /\ reg' \in [Nodes -> Registers \cup {NoReg}] /\ reg'[at] = r
      /\ \A v \in Nodes : v # at => reg'[v] = evicted(victim)[v]
      /\ \A v \in Nodes : v # victim => evicted(victim)[v] = reg[v]
      /\ evicted(victim)[victim] = NoReg
  BY <1>0, <1>1, <1>3, <1>4
<1> HIDE DEF rest, victim, evicted
<1>7. /\ IsList(active')
      /\ \A j \in DOMAIN active' : active'[j] = at \/ \E i \in DOMAIN rest : active'[j] = rest[i]
      /\ \A i \in DOMAIN rest : \E j \in DOMAIN active' : active'[j] = rest[i]
      /\ \E j \in DOMAIN active' : active'[j] = at
  <2>1. \A i \in DOMAIN rest : rest[i] # at
    BY <1>0, <1>2, <1>5
  <2>2. Activate(at, rest)
    BY <1>1 DEF rest
  <2> QED  BY <1>0, <1>5, <2>1, <2>2, Activated
<1>8. TypeInv'
  <2>1. at' \in Nodes
    BY <1>0, AdvanceKeeps DEF SpillVictim
  <2>2. slot' \in [Nodes -> Int] /\ spills' \in Seq(Nodes)
    BY <1>0, <1>1, <1>3 DEF TypeInv, AllocTypeOK, Unassigned
  <2> QED  BY <1>0, <1>6, <1>7, <2>1, <2>2 DEF SpillVictim, TypeInv, AllocTypeOK, IsList
<1>9. WalkInv'
  <2>1. \A j \in DOMAIN active' : active'[j] \in Nodes /\ active'[j] <= at
    <3>1. \A j \in DOMAIN active' : active'[j] = at \/ \E i \in DOMAIN s : active'[j] = s[i]
      BY <1>5, <1>7
    <3> QED  BY <1>0, <1>2, <3>1, ActiveStays
  <2>2. ASSUME NEW v \in Nodes, v > at PROVE reg'[v] = NoReg
    <3>1. v # at /\ v # victim /\ reg[v] = NoReg
      BY <1>0, <1>3, <2>2 DEF victim
    <3> QED  BY <1>6, <3>1
  <2>3. ASSUME NEW v \in Nodes, v <= at, reg'[v] # NoReg, end[v] > at - 1
        PROVE  \E j \in DOMAIN active' : active'[j] = v
    <3>1. CASE v = at
      BY <1>7, <3>1
    <3>2. CASE v # at
      <4>1. v < at /\ v # victim /\ reg[v] # NoReg
        BY <1>0, <1>6, <2>3, <3>2
      <4>2. PICK i \in DOMAIN s : s[i] = v
        BY <1>2, <2>3, <4>1
      <4>3. i # k
        BY <4>1, <4>2 DEF victim
      <4> QED  BY <1>5, <1>7, <4>2, <4>3
    <3> QED  BY <3>1, <3>2
  <2> QED  BY <1>0, <2>1, <2>2, <2>3, WalkAdvances DEF SpillVictim
<1>10. NoSharedRegister'
  <2> SUFFICES ASSUME NEW v \in Nodes, NEW w \in Nodes,
                      v < w, end[v] > w - 1, reg'[v] = reg'[w], reg'[v] # NoReg
               PROVE  FALSE
    BY <1>0 DEF NoSharedRegister, SpillVictim
  <2>1. CASE w = at
    <3>1. v # victim /\ reg[v] = r /\ v < at /\ end[v] > at - 1
      BY <1>0, <1>6, <2>1
    <3>2. PICK i \in DOMAIN s : s[i] = v
      BY <1>2, <1>4, <3>1
    <3> QED  BY <1>4, <1>6, <3>1, <3>2
  <2>2. CASE v = at
    <3>1. w # victim /\ w # at /\ reg[w] = NoReg
      BY <1>0, <1>3, <2>2 DEF victim
    <3> QED  BY <1>4, <1>6, <2>2, <3>1
  <2>3. CASE w # at /\ v # at
    <3>1. v # victim /\ w # victim
      BY <1>6, <2>3
    <3> QED  BY <1>6, <2>3, <3>1 DEF AllocInv, NoSharedRegister
  <2> QED  BY <2>1, <2>2, <2>3
<1> QED  BY <1>8, <1>9, <1>10 DEF AllocInv

LEMMA SlotStep == AllocInv /\ AssignSlot => AllocInv'
<1> SUFFICES ASSUME AllocInv, AssignSlot PROVE AllocInv'
  OBVIOUS
<1>0. /\ TypeInv /\ Nodes' = Nodes /\ Nodes \subseteq Nat /\ at \in Nodes
      /\ phase = "slots" /\ frame \in Nat /\ slot \in [Nodes -> Int]
  BY GraphFacts DEF AllocInv, AssignSlot, TypeInv, AllocTypeOK, Nodes
<1> DEFINE next == IF slot[at] = Unassigned THEN NextSlot ELSE frame
<1>1. next \in Nat
  BY <1>0 DEF NextSlot, SlotSize
<1>2. /\ slot' = [slot EXCEPT ![at] = IF @ = Unassigned THEN next ELSE @]
      /\ frame' = IF at = Len(graph.kind) THEN RoundUp16(next) ELSE next
  BY DEF AssignSlot
<1> HIDE DEF next
<1>3. RoundUp16(next) \in Nat
  BY <1>1 DEF RoundUp16
<1>4. frame' \in Nat
  BY <1>1, <1>2, <1>3
<1>5. slot' \in [Nodes -> Int]
  BY <1>0, <1>1, <1>2
<1>6. at' \in Nodes
  BY <1>0, AdvanceKeeps DEF AssignSlot
<1>7. TypeInv'
  BY <1>0, <1>4, <1>5, <1>6 DEF AssignSlot, TypeInv, AllocTypeOK, IsList
<1>8. WalkInv' /\ NoSharedRegister'
  BY <1>0 DEF AssignSlot, Advance, AllocInv, WalkInv, NoSharedRegister
<1> QED  BY <1>7, <1>8 DEF AllocInv

-----------------------------------------------------------------------------
(* The theorems.                                                           *)

LEMMA AllocStep == AllocInv /\ [AllocNext]_allocVars => AllocInv'
<1> SUFFICES ASSUME AllocInv, [AllocNext]_allocVars PROVE AllocInv'
  OBVIOUS
<1>1. CASE UNCHANGED allocVars
  BY <1>1 DEF allocVars, AllocInv, TypeInv, AllocTypeOK, IsList, Nodes, WalkInv, NoSharedRegister
<1> QED  BY <1>1, UsesStep, LoopsStep, TakeStep, SpillItselfStep, SpillVictimStep, SlotStep
           DEF AllocNext

LEMMA AllocInvariant == AllocSpec => []AllocInv
BY InitHolds, AllocStep, PTL DEF AllocSpec

(* The variables of the allocator are always of their types: every index   *)
(* the walk uses is that of a node, and every register it assigns is in    *)
(* one of the pools.                                                       *)
THEOREM AllocTypes == AllocSpec => []AllocTypeOK
<1>1. AllocInv => AllocTypeOK
  BY DEF AllocInv, TypeInv
<1> QED  BY <1>1, AllocInvariant, PTL

(* Two overlapping intervals never have the same register, for every graph *)
(* and every pool: expire_active may keep intervals that have ended, and   *)
(* the list may be out of order, but no interval that lives is lost.       *)
THEOREM RegistersAreExclusive == AllocSpec => []NoSharedRegister
<1>1. AllocInv => NoSharedRegister
  BY DEF AllocInv
<1> QED  BY <1>1, AllocInvariant, PTL


-----------------------------------------------------------------------------
(* The register allocator gives every value one home, and spill slots that are  *)
(* apart, whatever the graph and the pools of registers.                        *)
(*                                                                              *)
(* The argument: a value the walk has passed has a register or is marked as     *)
(* spilled; only an interval that has a register is active, so a victim is not  *)
(* in spills yet; a slot is numbered past every slot before it.                 *)

(* The walk has passed the node; its slot, if it has one, is numbered.          *)
Walked(v) == (phase = "walk" /\ v < at) \/ phase \in {"slots", "allocated"}
Numbered(v) == (phase = "slots" /\ v < at) \/ phase = "allocated"

HomeOf(v) ==
  /\ ~Walked(v) => slot[v] = NoSlot
  /\ Walked(v) => (reg[v] = NoReg <=> slot[v] # NoSlot)
  /\ slot[v] = NoSlot \/ slot[v] = Unassigned \/ (Numbered(v) /\ slot[v] > 0)
  /\ Numbered(v) => slot[v] # Unassigned

SpillsList ==
  /\ IsList(spills)
  /\ \A v \in Nodes : slot[v] # NoSlot <=> \E k \in DOMAIN spills : spills[k] = v

ActiveHaveRegisters ==
  phase = "walk" => \A i \in DOMAIN active : reg[active[i]] # NoReg

HomeInv ==
  /\ phase \in AllocPhases
  /\ \A v \in Nodes : HomeOf(v)
  /\ SpillsList
  /\ ActiveHaveRegisters

-----------------------------------------------------------------------------
(* How a step moves the boundary between the nodes passed and the others.       *)
LEMMA WalkMoves ==
  ASSUME TypeInv, phase = "walk", Advance("slots"), graph' = graph
  PROVE  /\ phase' \in {"walk", "slots"}
         /\ \A v \in Nodes : Walked(v)' <=> v <= at
         /\ \A v \in Nodes : ~Numbered(v)'
<1>1. /\ Size \in Nat /\ Nodes = 1 .. Size /\ at \in Nodes
  BY GraphFacts DEF TypeInv, AllocTypeOK
<1>2. CASE at < Size
  <2>1. at' = at + 1 /\ phase' = "walk"
    BY <1>2 DEF Advance, Size
  <2> QED  BY <1>1, <2>1 DEF Walked, Numbered
<1>3. CASE at = Size
  <2>1. at' = 1 /\ phase' = "slots"
    BY <1>3, <1>1 DEF Advance, Size
  <2> QED  BY <1>1, <1>3, <2>1 DEF Walked, Numbered
<1> QED  BY <1>1, <1>2, <1>3

LEMMA SlotsMove ==
  ASSUME TypeInv, phase = "slots", Advance("allocated"), graph' = graph
  PROVE  /\ phase' \in {"slots", "allocated"}
         /\ \A v \in Nodes : Numbered(v)' <=> v <= at
<1>1. /\ Size \in Nat /\ Nodes = 1 .. Size /\ at \in Nodes
  BY GraphFacts DEF TypeInv, AllocTypeOK
<1>2. CASE at < Size
  <2>1. at' = at + 1 /\ phase' = "slots"
    BY <1>2 DEF Advance, Size
  <2> QED  BY <1>1, <2>1 DEF Numbered
<1>3. CASE at = Size
  <2>1. at' = 1 /\ phase' = "allocated"
    BY <1>3, <1>1 DEF Advance, Size
  <2> QED  BY <1>1, <1>3, <2>1 DEF Numbered
<1> QED  BY <1>1, <1>2, <1>3

LEMMA AppendKeepsList ==
  ASSUME NEW s, IsList(s), NEW v \in Nodes, \A k \in DOMAIN s : s[k] # v
  PROVE  /\ IsList(Append(s, v))
         /\ \A k \in DOMAIN s : \E j \in DOMAIN Append(s, v) : Append(s, v)[j] = s[k]
         /\ \E j \in DOMAIN Append(s, v) : Append(s, v)[j] = v
         /\ \A j \in DOMAIN Append(s, v) :
              Append(s, v)[j] = v \/ \E k \in DOMAIN s : Append(s, v)[j] = s[k]
<1>1. s \in Seq(Nodes) /\ DOMAIN s = 1 .. Len(s) /\ Len(s) \in Nat
  BY DEF IsList
<1>2. /\ Append(s, v) \in Seq(Nodes) /\ DOMAIN Append(s, v) = 1 .. Len(s) + 1
      /\ Append(s, v)[Len(s) + 1] = v
      /\ \A k \in 1 .. Len(s) : Append(s, v)[k] = s[k]
  BY <1>1
<1> QED  BY <1>1, <1>2 DEF IsList

(* An active interval that has not been swept away was active before.           *)
LEMMA ExpiredWereActive ==
  ASSUME AllocInv, HomeInv, phase = "walk", NEW s \in Expired(active, at - 1)
  PROVE  \A j \in DOMAIN s : reg[s[j]] # NoReg
<1>1. Shape /\ IsList(active) /\ at - 1 \in Int
  BY GraphFacts DEF AllocInv, TypeInv, AllocTypeOK, Shape
<1>2. \A j \in DOMAIN s : \E i \in DOMAIN active : s[j] = active[i]
  BY <1>1, ExpiredKeeps
<1> QED  BY <1>2 DEF HomeInv, ActiveHaveRegisters

(* One more value is spilled.                                                   *)
LEMMA SpillsGrow ==
  ASSUME AllocInv, SpillsList, NEW v \in Nodes, slot[v] = NoSlot, graph' = graph,
         slot' = [slot EXCEPT ![v] = Unassigned], spills' = Append(spills, v)
  PROVE  SpillsList'
<1>1. slot \in [Nodes -> Int] /\ Nodes' = Nodes
  BY DEF AllocInv, TypeInv, AllocTypeOK, Nodes
<1>2. \A k \in DOMAIN spills : spills[k] # v
  BY DEF SpillsList
<1>3. IsList(spills)
  BY DEF SpillsList
<1> DEFINE longer == Append(spills, v)
<1>4. /\ IsList(longer)
      /\ \A k \in DOMAIN spills : \E j \in DOMAIN longer : longer[j] = spills[k]
      /\ \E j \in DOMAIN longer : longer[j] = v
      /\ \A j \in DOMAIN longer : longer[j] = v \/ \E k \in DOMAIN spills : longer[j] = spills[k]
  BY <1>2, <1>3, AppendKeepsList
<1>5. spills' = longer
  OBVIOUS
<1> HIDE DEF longer
<1>6. IsList(spills)'
  BY <1>1, <1>4, <1>5 DEF IsList
<1>7. ASSUME NEW w \in Nodes
      PROVE  slot'[w] # NoSlot <=> \E k \in DOMAIN longer : longer[k] = w
  <2>1. CASE w = v
    BY <1>1, <1>4, <2>1 DEF Unassigned, NoSlot
  <2>2. CASE w # v
    <3>1. slot'[w] = slot[w]
      BY <1>1, <2>2
    <3>2. slot[w] # NoSlot <=> \E k \in DOMAIN spills : spills[k] = w
      BY DEF SpillsList
    <3> QED  BY <1>4, <2>2, <3>1, <3>2
  <2> QED  BY <2>1, <2>2
<1> QED  BY <1>1, <1>5, <1>6, <1>7 DEF SpillsList

-----------------------------------------------------------------------------
(* The steps.                                                                   *)
LEMMA HomeInit == AllocInit => HomeInv
<1> SUFFICES ASSUME AllocInit PROVE HomeInv
  OBVIOUS
<1>1. phase = "uses" /\ spills = <<>> /\ slot = [v \in Nodes |-> NoSlot]
  BY DEF AllocInit
<1>2. \A v \in Nodes : HomeOf(v)
  BY <1>1 DEF HomeOf, Walked, Numbered
<1>3. SpillsList
  BY <1>1 DEF SpillsList, IsList
<1> QED  BY <1>1, <1>2, <1>3 DEF HomeInv, AllocPhases, ActiveHaveRegisters

LEMMA BeforeWalk ==
  ASSUME AllocInv, HomeInv, phase \in {"uses", "loops"}, at' \in Nodes,
         phase' \in {"uses", "loops"} \/ (phase' = "walk" /\ at' = 1),
         UNCHANGED <<graph, active, reg, slot, spills>>
  PROVE  HomeInv'
<1>1. Nodes' = Nodes /\ Nodes \subseteq Nat \ {0} /\ active = <<>>
  BY GraphFacts DEF Nodes, AllocInv, TypeInv, WalkInv
<1>2. \A v \in Nodes : ~Walked(v) /\ ~Walked(v)' /\ ~Numbered(v)'
  BY <1>1 DEF Walked, Numbered
<1>3. ASSUME NEW v \in Nodes PROVE HomeOf(v)'
  BY <1>2 DEF HomeInv, HomeOf
<1>4. SpillsList'
  BY <1>1 DEF HomeInv, SpillsList, IsList
<1> QED  BY <1>1, <1>3, <1>4 DEF HomeInv, ActiveHaveRegisters, AllocPhases

LEMMA HomeUses == AllocInv /\ HomeInv /\ AddUses => HomeInv'
<1> SUFFICES ASSUME AllocInv, HomeInv, AddUses PROVE HomeInv'
  OBVIOUS
<1>1. phase = "uses" /\ Advance("loops") /\ UNCHANGED <<graph, active, reg, slot, spills>>
  BY DEF AddUses
<1>2. phase' \in {"uses", "loops"}
  BY <1>1 DEF Advance
<1>3. at' \in Nodes
  BY <1>1, AdvanceKeeps DEF AllocInv
<1> QED  BY <1>1, <1>2, <1>3, BeforeWalk

LEMMA HomeLoops == AllocInv /\ HomeInv /\ ExtendOverLoop => HomeInv'
<1> SUFFICES ASSUME AllocInv, HomeInv, ExtendOverLoop PROVE HomeInv'
  OBVIOUS
<1>1. phase = "loops" /\ Advance("walk") /\ UNCHANGED <<graph, active, reg, slot, spills>>
  BY DEF ExtendOverLoop
<1>2. phase' = "loops" \/ (phase' = "walk" /\ at' = 1)
  BY <1>1 DEF Advance
<1>3. at' \in Nodes
  BY <1>1, AdvanceKeeps DEF AllocInv
<1> QED  BY <1>1, <1>2, <1>3, BeforeWalk

LEMMA HomeTake == AllocInv /\ HomeInv /\ TakeFreeReg => HomeInv'
<1> SUFFICES ASSUME AllocInv, HomeInv, TakeFreeReg PROVE HomeInv'
  OBVIOUS
<1>0. /\ phase = "walk" /\ Advance("slots") /\ UNCHANGED <<graph, slot, spills>>
      /\ TypeInv /\ Nodes' = Nodes /\ Nodes \subseteq Nat /\ at \in Nodes
      /\ reg \in [Nodes -> Registers \cup {NoReg}]
  BY GraphFacts DEF TakeFreeReg, AllocInv, TypeInv, AllocTypeOK, Nodes
<1>a. PICK s \in Expired(active, at - 1) : \E r \in PickFreeReg(at, s, reg) :
        reg' = [reg EXCEPT ![at] = r] /\ Activate(at, s)
  BY DEF TakeFreeReg
<1>1. PICK r \in PickFreeReg(at, s, reg) : reg' = [reg EXCEPT ![at] = r] /\ Activate(at, s)
  BY <1>a
<1>2. r # NoReg
  BY PickedRegister
<1>3. reg'[at] = r /\ \A v \in Nodes : v # at => reg'[v] = reg[v]
  BY <1>0, <1>1
<1>4. IsList(s) /\ \A j \in DOMAIN s : s[j] \in Nodes /\ s[j] < at
  BY <1>0, ExpiredActive
<1>5. \A j \in DOMAIN active' : active'[j] = at \/ \E i \in DOMAIN s : active'[j] = s[i]
  <2>1. \A i \in DOMAIN s : s[i] # at
    BY <1>0, <1>4
  <2> QED  BY <1>0, <1>1, <1>4, <2>1, Activated
<1>6. ActiveHaveRegisters'
  <2>1. ASSUME NEW i \in DOMAIN s PROVE reg'[s[i]] # NoReg
    <3>1. s[i] \in Nodes /\ s[i] # at
      BY <1>0, <1>4
    <3>2. reg[s[i]] # NoReg
      BY <1>0, ExpiredWereActive
    <3> QED  BY <1>3, <3>1, <3>2
  <2> QED  BY <1>2, <1>3, <1>5, <2>1 DEF ActiveHaveRegisters
<1>7. ASSUME NEW v \in Nodes PROVE HomeOf(v)'
  <2>1. HomeOf(v) /\ (Walked(v)' <=> v <= at) /\ ~Numbered(v)' /\ slot'[v] = slot[v]
    BY <1>0, WalkMoves DEF HomeInv
  <2>2. (Walked(v) <=> v < at) /\ ~Numbered(v)
    BY <1>0 DEF Walked, Numbered
  <2>3. CASE v = at
    BY <1>2, <1>3, <2>1, <2>2, <2>3, <1>0 DEF HomeOf
  <2>4. CASE v # at
    BY <1>3, <2>1, <2>2, <2>4, <1>0 DEF HomeOf
  <2> QED  BY <2>3, <2>4
<1>8. SpillsList'
  BY <1>0 DEF HomeInv, SpillsList, IsList
<1>9. phase' \in AllocPhases
  BY <1>0, WalkMoves DEF AllocPhases
<1> QED  BY <1>0, <1>6, <1>7, <1>8, <1>9 DEF HomeInv

LEMMA HomeSpillItself == AllocInv /\ HomeInv /\ SpillItself => HomeInv'
<1> SUFFICES ASSUME AllocInv, HomeInv, SpillItself PROVE HomeInv'
  OBVIOUS
<1>0. /\ phase = "walk" /\ Advance("slots") /\ UNCHANGED <<graph, reg>>
      /\ slot' = [slot EXCEPT ![at] = Unassigned] /\ spills' = Append(spills, at)
      /\ TypeInv /\ Nodes' = Nodes /\ Nodes \subseteq Nat /\ at \in Nodes
      /\ slot \in [Nodes -> Int] /\ reg[at] = NoReg
  BY GraphFacts DEF SpillItself, AllocInv, TypeInv, AllocTypeOK, WalkInv, Nodes
<1>1. PICK s \in Expired(active, at - 1) : active' = s
  BY DEF SpillItself
<1>2. ActiveHaveRegisters'
  BY <1>0, <1>1, ExpiredWereActive DEF ActiveHaveRegisters
<1>3. slot[at] = NoSlot
  <2>1. HomeOf(at) /\ ~Walked(at)
    BY <1>0 DEF HomeInv, Walked
  <2> QED  BY <2>1 DEF HomeOf
<1>4. SpillsList'
  BY <1>0, <1>3, SpillsGrow DEF HomeInv
<1>5. ASSUME NEW v \in Nodes PROVE HomeOf(v)'
  <2>1. HomeOf(v) /\ (Walked(v)' <=> v <= at) /\ ~Numbered(v)' /\ reg'[v] = reg[v]
    BY <1>0, WalkMoves DEF HomeInv
  <2>2. (Walked(v) <=> v < at) /\ ~Numbered(v)
    BY <1>0 DEF Walked, Numbered
  <2>3. CASE v = at
    <3>1. slot'[at] = Unassigned
      BY <1>0
    <3> QED  BY <1>0, <2>1, <2>3, <3>1 DEF HomeOf, Unassigned, NoSlot
  <2>4. CASE v # at
    <3>1. slot'[v] = slot[v]
      BY <1>0, <2>4
    <3> QED  BY <1>0, <2>1, <2>2, <2>4, <3>1 DEF HomeOf
  <2> QED  BY <2>3, <2>4
<1>6. phase' \in AllocPhases
  BY <1>0, WalkMoves DEF AllocPhases
<1> QED  BY <1>0, <1>2, <1>4, <1>5, <1>6 DEF HomeInv

LEMMA HomeSpillVictim == AllocInv /\ HomeInv /\ SpillVictim => HomeInv'
<1> SUFFICES ASSUME AllocInv, HomeInv, SpillVictim PROVE HomeInv'
  OBVIOUS
<1>0. /\ phase = "walk" /\ Advance("slots") /\ graph' = graph
      /\ TypeInv /\ Nodes' = Nodes /\ Nodes \subseteq Nat /\ at \in Nodes
      /\ slot \in [Nodes -> Int] /\ reg \in [Nodes -> Registers \cup {NoReg}]
  BY GraphFacts DEF SpillVictim, AllocInv, TypeInv, AllocTypeOK, Nodes
<1> DEFINE evicted(v) == [reg EXCEPT ![v] = NoReg]
<1>a. PICK s \in Expired(active, at - 1) :
        \E k \in Victims(at, s) : \E r \in PickFreeReg(at, s, evicted(s[k])) :
          /\ reg' = [evicted(s[k]) EXCEPT ![at] = r]
          /\ slot' = [slot EXCEPT ![s[k]] = Unassigned]
          /\ spills' = Append(spills, s[k])
          /\ Activate(at, SwapRemove(s, k))
  BY DEF SpillVictim
<1>b. PICK k \in Victims(at, s) : \E r \in PickFreeReg(at, s, evicted(s[k])) :
          /\ reg' = [evicted(s[k]) EXCEPT ![at] = r]
          /\ slot' = [slot EXCEPT ![s[k]] = Unassigned]
          /\ spills' = Append(spills, s[k])
          /\ Activate(at, SwapRemove(s, k))
  BY <1>a
<1>1. PICK r \in PickFreeReg(at, s, evicted(s[k])) :
          /\ reg' = [evicted(s[k]) EXCEPT ![at] = r]
          /\ slot' = [slot EXCEPT ![s[k]] = Unassigned]
          /\ spills' = Append(spills, s[k])
          /\ Activate(at, SwapRemove(s, k))
  BY <1>b
<1>2. IsList(s) /\ \A j \in DOMAIN s : s[j] \in Nodes /\ s[j] < at
  BY <1>0, ExpiredActive
<1>3. k \in DOMAIN s /\ s[k] \in Nodes /\ s[k] < at
  BY <1>2 DEF Victims, Candidates
<1> DEFINE victim == s[k]
           rest == SwapRemove(s, k)
<1>4. r # NoReg
  BY PickedRegister
<1>5. IsList(rest) /\ \A j \in DOMAIN rest : \E i \in DOMAIN s : i # k /\ rest[j] = s[i]
  BY <1>2, <1>3, SwapRemoveKeeps
<1>6. /\ reg'[at] = r /\ reg'[victim] = NoReg
      /\ \A v \in Nodes : v # at /\ v # victim => reg'[v] = reg[v]
      /\ slot'[victim] = Unassigned
      /\ \A v \in Nodes : v # victim => slot'[v] = slot[v]
      /\ victim \in Nodes /\ victim < at /\ spills' = Append(spills, victim)
      /\ slot' = [slot EXCEPT ![victim] = Unassigned]
  BY <1>0, <1>1, <1>3
<1>7. Activate(at, rest) /\ reg[victim] # NoReg
  BY <1>0, <1>1, <1>3, ExpiredWereActive
<1>c. \A i \in DOMAIN s : i # k => s[i] # victim
  BY <1>2, <1>3 DEF IsList
<1> HIDE DEF rest, victim, evicted
<1>8. \A j \in DOMAIN active' : active'[j] = at \/ \E i \in DOMAIN rest : active'[j] = rest[i]
  <2>1. \A i \in DOMAIN rest : rest[i] # at
    BY <1>0, <1>2, <1>5
  <2> QED  BY <1>0, <1>5, <1>7, <2>1, Activated
<1>9. ActiveHaveRegisters'
  <2>1. ASSUME NEW i \in DOMAIN rest PROVE reg'[rest[i]] # NoReg
    <3>1. PICK j \in DOMAIN s : j # k /\ rest[i] = s[j]
      BY <1>5
    <3>2. s[j] \in Nodes /\ s[j] # at /\ s[j] # victim /\ reg[s[j]] # NoReg
      BY <1>0, <1>2, <1>c, <3>1, ExpiredWereActive
    <3> QED  BY <1>6, <3>1, <3>2
  <2> QED  BY <1>4, <1>6, <1>8, <2>1 DEF ActiveHaveRegisters
<1>10. slot[victim] = NoSlot
  <2>1. HomeOf(victim) /\ Walked(victim)
    BY <1>0, <1>6 DEF HomeInv, Walked
  <2> QED  BY <1>7, <2>1 DEF HomeOf
<1>11. SpillsList'
  BY <1>0, <1>6, <1>10, SpillsGrow DEF HomeInv
<1>12. ASSUME NEW v \in Nodes PROVE HomeOf(v)'
  <2>1. HomeOf(v) /\ (Walked(v)' <=> v <= at) /\ ~Numbered(v)'
    BY <1>0, WalkMoves DEF HomeInv
  <2>2. (Walked(v) <=> v < at) /\ ~Numbered(v)
    BY <1>0 DEF Walked, Numbered
  <2>3. CASE v = victim
    BY <1>0, <1>6, <2>1, <2>3 DEF HomeOf, Unassigned, NoSlot
  <2>4. CASE v = at
    <3>1. slot'[v] = NoSlot
      BY <1>0, <1>6, <2>1, <2>2, <2>4 DEF HomeOf
    <3> QED  BY <1>0, <1>4, <1>6, <2>1, <2>4, <3>1 DEF HomeOf
  <2>5. CASE v # victim /\ v # at
    BY <1>0, <1>6, <2>1, <2>2, <2>5 DEF HomeOf
  <2> QED  BY <2>3, <2>4, <2>5
<1>13. phase' \in AllocPhases
  BY <1>0, WalkMoves DEF AllocPhases
<1> QED  BY <1>0, <1>9, <1>11, <1>12, <1>13 DEF HomeInv

LEMMA HomeSlots == AllocInv /\ HomeInv /\ AssignSlot => HomeInv'
<1> SUFFICES ASSUME AllocInv, HomeInv, AssignSlot PROVE HomeInv'
  OBVIOUS
<1>0. /\ phase = "slots" /\ Advance("allocated") /\ UNCHANGED <<graph, reg, spills>>
      /\ TypeInv /\ Nodes' = Nodes /\ Nodes \subseteq Nat /\ at \in Nodes
      /\ slot \in [Nodes -> Int] /\ frame \in Nat
  BY GraphFacts DEF AssignSlot, AllocInv, TypeInv, AllocTypeOK, Nodes
<1> DEFINE next == IF slot[at] = Unassigned THEN NextSlot ELSE frame
<1>1. slot' = [slot EXCEPT ![at] = IF @ = Unassigned THEN next ELSE @]
  BY DEF AssignSlot
<1>2. slot[at] = Unassigned => next > 0 /\ next \in Nat
  BY <1>0 DEF NextSlot, SlotSize
<1> HIDE DEF next
<1>3. /\ slot[at] = Unassigned => slot'[at] = next
      /\ slot[at] # Unassigned => slot'[at] = slot[at]
      /\ \A v \in Nodes : v # at => slot'[v] = slot[v]
  BY <1>0, <1>1
<1>4. \A v \in Nodes : slot'[v] = NoSlot <=> slot[v] = NoSlot
  BY <1>2, <1>3 DEF NoSlot, Unassigned
<1>5. ASSUME NEW v \in Nodes PROVE HomeOf(v)'
  <2>1. HomeOf(v) /\ (Numbered(v)' <=> v <= at) /\ Walked(v)' /\ Walked(v) /\ reg'[v] = reg[v]
    BY <1>0, SlotsMove DEF HomeInv, Walked
  <2>2. Numbered(v) <=> v < at
    BY <1>0 DEF Numbered
  <2>3. CASE v = at
    <3>1. Numbered(v)'
      BY <1>0, <2>1, <2>3
    <3>2. slot'[v] = NoSlot \/ slot'[v] > 0
      BY <1>2, <1>3, <2>1, <2>2, <2>3, <1>0 DEF HomeOf
    <3> QED  BY <1>4, <2>1, <2>3, <3>1, <3>2 DEF HomeOf, Unassigned, NoSlot
  <2>4. CASE v # at
    BY <1>0, <1>3, <2>1, <2>2, <2>4 DEF HomeOf
  <2> QED  BY <2>3, <2>4
<1>6. SpillsList'
  BY <1>0, <1>4 DEF HomeInv, SpillsList, IsList
<1>7. phase' \in AllocPhases /\ ActiveHaveRegisters'
  BY <1>0, SlotsMove DEF AllocPhases, ActiveHaveRegisters
<1> QED  BY <1>0, <1>5, <1>6, <1>7 DEF HomeInv

LEMMA HomeStep == AllocInv /\ HomeInv /\ [AllocNext]_allocVars => HomeInv'
<1> SUFFICES ASSUME AllocInv, HomeInv, [AllocNext]_allocVars PROVE HomeInv'
  OBVIOUS
<1>1. CASE UNCHANGED allocVars
  BY <1>1 DEF allocVars, HomeInv, HomeOf, Walked, Numbered, SpillsList, IsList, Nodes,
              ActiveHaveRegisters
<1> QED  BY <1>1, HomeUses, HomeLoops, HomeTake, HomeSpillItself, HomeSpillVictim, HomeSlots
           DEF AllocNext

LEMMA HomeInvariant == AllocSpec => [](AllocInv /\ HomeInv)
BY HomeInit, HomeStep, AllocInvariant, PTL DEF AllocSpec

(* Once allocated, every value is in a register or in a slot, never in both or  *)
(* in neither, and spills lists those in slots once each: for every graph,      *)
(* every pool, and every order sorting and searching may leave.                 *)
THEOREM HomesAreUnique == AllocSpec => []EveryValueHasAHome
<1>1. AllocInv /\ HomeInv => EveryValueHasAHome
  <2> SUFFICES ASSUME AllocInv, HomeInv, phase = "allocated"
               PROVE  /\ \A v \in Nodes : (reg[v] = NoReg) <=> (slot[v] > 0)
                      /\ ToSet(spills) = {v \in Nodes : slot[v] > 0}
                      /\ IsInjective(spills)
    BY DEF EveryValueHasAHome
  <2>1. \A v \in Nodes : /\ slot[v] # NoSlot <=> slot[v] > 0
                         /\ reg[v] = NoReg <=> slot[v] # NoSlot
    BY DEF HomeInv, HomeOf, Walked, Numbered, NoSlot, Unassigned
  <2>2. spills \in Seq(Nodes)
    BY DEF HomeInv, SpillsList, IsList
  <2>3. ToSet(spills) = {v \in Nodes : slot[v] > 0}
    BY <2>1, <2>2 DEF HomeInv, SpillsList, ToSet
  <2>4. IsInjective(spills)
    BY DEF HomeInv, SpillsList, IsList, IsInjective
  <2> QED  BY <2>1, <2>3, <2>4
<1> QED  BY <1>1, HomeInvariant, PTL

-----------------------------------------------------------------------------
(* The slots numbered so far are apart and below frame.                         *)
Apart(v, w) == slot[w] - slot[v] >= SlotSize \/ slot[v] - slot[w] >= SlotSize

SlotsInv ==
  /\ \A v \in Nodes : slot[v] > 0 => slot[v] \in SlotSize .. frame
  /\ \A v, w \in Nodes : w # v /\ slot[v] > 0 /\ slot[w] > 0 => Apart(v, w)
  /\ phase = "allocated" => frame % 16 = 0

LEMMA RoundUpIsAligned ==
  ASSUME NEW n \in Nat
  PROVE  RoundUp16(n) \in Nat /\ RoundUp16(n) >= n /\ RoundUp16(n) % 16 = 0
BY DEF RoundUp16

LEMMA SlotsAssigned == AllocInv /\ HomeInv /\ SlotsInv /\ AssignSlot => SlotsInv'
<1> SUFFICES ASSUME AllocInv, HomeInv, SlotsInv, AssignSlot PROVE SlotsInv'
  OBVIOUS
<1>0. /\ phase = "slots" /\ Advance("allocated") /\ Nodes' = Nodes /\ at \in Nodes
      /\ slot \in [Nodes -> Int] /\ frame \in Nat
  BY GraphFacts DEF AssignSlot, AllocInv, TypeInv, AllocTypeOK, Nodes
<1> DEFINE next == IF slot[at] = Unassigned THEN NextSlot ELSE frame
<1>1. /\ slot' = [slot EXCEPT ![at] = IF @ = Unassigned THEN next ELSE @]
      /\ frame' = IF at = Len(graph.kind) THEN RoundUp16(next) ELSE next
  BY DEF AssignSlot
<1>2. next \in Nat /\ next >= frame /\ (slot[at] = Unassigned => next = frame + SlotSize)
  BY <1>0 DEF NextSlot, SlotSize
<1> HIDE DEF next
<1>3. frame' \in Nat /\ frame' >= next
  BY <1>1, <1>2, RoundUpIsAligned
<1>4. /\ slot[at] = Unassigned => slot'[at] = next
      /\ slot[at] # Unassigned => slot'[at] = slot[at]
      /\ \A v \in Nodes : v # at => slot'[v] = slot[v]
      /\ slot' \in [Nodes -> Int]
  BY <1>0, <1>1, <1>2
<1>5. ASSUME NEW v \in Nodes, slot'[v] > 0
      PROVE  /\ slot'[v] \in SlotSize .. frame'
             /\ (v = at /\ slot[at] = Unassigned) \/ (slot'[v] = slot[v] /\ slot[v] \in SlotSize .. frame)
  <2>1. CASE v = at /\ slot[at] = Unassigned
    BY <1>0, <1>2, <1>3, <1>4, <2>1 DEF SlotSize
  <2>2. CASE ~(v = at /\ slot[at] = Unassigned)
    <3>1. slot'[v] = slot[v]
      BY <1>4, <2>2
    <3>2. slot[v] \in SlotSize .. frame
      BY <1>5, <3>1 DEF SlotsInv
    <3> QED  BY <1>0, <1>2, <1>3, <3>1, <3>2 DEF SlotSize
  <2> QED  BY <2>1, <2>2
<1>6. ASSUME NEW v \in Nodes, NEW w \in Nodes, w # v, slot'[v] > 0, slot'[w] > 0
      PROVE  slot'[w] - slot'[v] >= SlotSize \/ slot'[v] - slot'[w] >= SlotSize
  <2>1. CASE v = at /\ slot[at] = Unassigned
    <3>1. slot'[w] = slot[w] /\ slot[w] \in SlotSize .. frame /\ slot'[v] = frame + SlotSize
      BY <1>2, <1>4, <1>5, <1>6, <2>1
    <3> QED  BY <1>0, <3>1 DEF SlotSize
  <2>2. CASE w = at /\ slot[at] = Unassigned
    <3>1. slot'[v] = slot[v] /\ slot[v] \in SlotSize .. frame /\ slot'[w] = frame + SlotSize
      BY <1>2, <1>4, <1>5, <1>6, <2>2
    <3> QED  BY <1>0, <3>1 DEF SlotSize
  <2>3. CASE ~(v = at /\ slot[at] = Unassigned) /\ ~(w = at /\ slot[at] = Unassigned)
    <3>1. slot'[v] = slot[v] /\ slot'[w] = slot[w]
      BY <1>4, <2>3
    <3> QED  BY <1>6, <3>1 DEF SlotsInv, Apart
  <2> QED  BY <2>1, <2>2, <2>3
<1>7. phase' = "allocated" => frame' % 16 = 0
  <2>1. phase' = "allocated" => frame' = RoundUp16(next)
    <3>1. Size \in Nat /\ at \in 1 .. Size
      BY <1>0, GraphFacts DEF AllocInv, TypeInv
    <3>2. phase' = "allocated" => ~(at < Size)
      BY <1>0 DEF Advance, Size
    <3>3. ~(at < Size) => at = Size
      BY <3>1
    <3> QED  BY <1>1, <3>2, <3>3 DEF Size
  <2> QED  BY <1>2, <2>1, RoundUpIsAligned
<1> QED  BY <1>0, <1>5, <1>6, <1>7 DEF SlotsInv, Apart

(* Before slots are numbered there is none.                                     *)
LEMMA NoSlotsBefore ==
  ASSUME AllocInv, HomeInv, HomeInv', SlotsInv, graph' = graph, frame' = frame,
         phase \in {"uses", "loops", "walk"}, phase' # "allocated",
         phase' # "slots" \/ at' = 1
  PROVE  SlotsInv'
<1>1. Nodes' = Nodes /\ Nodes \subseteq Nat /\ \A v \in Nodes : v >= 1
  BY GraphFacts DEF Nodes, AllocInv, TypeInv
<1>2. ASSUME NEW v \in Nodes PROVE ~(slot'[v] > 0)
  <2>1. HomeOf(v)' /\ HomeOf(v)
    BY <1>1 DEF HomeInv
  <2>2. ~Numbered(v)'
    BY <1>1 DEF Numbered
  <2> QED  BY <2>1, <2>2 DEF HomeOf, NoSlot, Unassigned
<1> QED  BY <1>1, <1>2 DEF SlotsInv

LEMMA SlotsStep ==
  AllocInv /\ HomeInv /\ SlotsInv /\ HomeInv' /\ [AllocNext]_allocVars => SlotsInv'
<1> SUFFICES ASSUME AllocInv, HomeInv, SlotsInv, HomeInv', [AllocNext]_allocVars
             PROVE  SlotsInv'
  OBVIOUS
<1>1. CASE UNCHANGED allocVars
  BY <1>1 DEF allocVars, SlotsInv, Nodes, Apart
<1>2. CASE AssignSlot
  BY <1>2, SlotsAssigned
<1>3. CASE AddUses \/ ExtendOverLoop
  <2>1. /\ phase \in {"uses", "loops"} /\ phase' \in {"uses", "loops", "walk"}
        /\ graph' = graph /\ frame' = frame
    BY <1>3 DEF AddUses, ExtendOverLoop, Advance
  <2> QED  BY <2>1, NoSlotsBefore
<1>4. CASE TakeFreeReg \/ SpillItself \/ SpillVictim
  <2>1. phase = "walk" /\ Advance("slots") /\ graph' = graph /\ frame' = frame
    BY <1>4 DEF TakeFreeReg, SpillItself, SpillVictim
  <2>2. phase' \in {"walk", "slots"} /\ (phase' = "slots" => at' = 1)
    BY <2>1 DEF Advance
  <2> QED  BY <2>1, <2>2, NoSlotsBefore
<1> QED  BY <1>1, <1>2, <1>3, <1>4 DEF AllocNext

LEMMA SlotsInvariant == AllocSpec => []SlotsInv
<1>1. AllocInit => SlotsInv
  BY DEF AllocInit, SlotsInv, NoSlot
<1> QED  BY <1>1, SlotsStep, HomeInvariant, PTL DEF AllocSpec

(* Once allocated, the spill slots do not overlap and lie in the aligned frame, *)
(* for every graph and every pool of registers.                                 *)
THEOREM SlotsAreApart == AllocSpec => []SlotsAreDistinct
<1>1. SlotsInv => SlotsAreDistinct
  BY DEF SlotsInv, SlotsAreDistinct, Apart
<1> QED  BY <1>1, SlotsInvariant, PTL

-----------------------------------------------------------------------------
(* What the allocator leaves for the emitter.                              *)

(* Slots are numbered from one, in the order they are chosen.              *)
CountInv ==
  /\ phase \in {"uses", "loops", "walk", "slots"} => frame = SlotSize * SpillSlots
  /\ \A v \in Nodes : slot[v] > 0 => \E i \in 1 .. SpillSlots : slot[v] = SlotSize * i

(* An interval ends after every use, and after the back edges of the loops *)
(* that use a value defined before them.                                   *)
EndInv ==
  /\ \A u, v \in Nodes :
       UsesOf(u, v) > 0 /\ (phase = "uses" => u < at) => end[v] >= u
  /\ \A h, u, v \in Nodes : \A j \in BackEdges(h) :
       /\ v < h /\ u \in h .. j /\ UsesOf(u, v) > 0
       /\ phase # "uses" /\ (phase = "loops" => h < at)
       => end[v] >= j + 1

LEMMA SpillSlotsType ==
  ASSUME graph \in Graphs
  PROVE  /\ IsFiniteSet({v \in Nodes : slot[v] > 0})
         /\ SpillSlots \in Nat /\ SpillSlots <= Size
<1>1. Size \in Nat /\ Nodes = 1 .. Size
  BY GraphFacts
<1>2. IsFiniteSet(Nodes) /\ Cardinality(Nodes) = Size
  BY <1>1, FS_Interval
<1> DEFINE spilled == {v \in Nodes : slot[v] > 0}
<1>3. spilled \subseteq Nodes
  OBVIOUS
<1>4. IsFiniteSet(spilled) /\ Cardinality(spilled) <= Cardinality(Nodes)
  BY <1>2, <1>3, FS_Subset
<1>5. Cardinality(spilled) \in Nat
  BY <1>4, FS_CardinalityType
<1> QED  BY <1>2, <1>4, <1>5 DEF SpillSlots

(* No slot has been chosen before the walk is over.                        *)
LEMMA NoneChosen ==
  ASSUME AllocInv, HomeInv, phase \in {"uses", "loops", "walk"} \/ (phase = "slots" /\ at = 1)
  PROVE  /\ \A v \in Nodes : ~(slot[v] > 0)
         /\ SpillSlots = 0
<1>1. \A v \in Nodes : v >= 1 /\ v \in Nat /\ HomeOf(v)
  BY GraphFacts DEF AllocInv, TypeInv, HomeInv
<1>2. \A v \in Nodes : ~Numbered(v)
  BY <1>1 DEF Numbered
<1>3. \A v \in Nodes : ~(slot[v] > 0)
  BY <1>1, <1>2 DEF HomeOf, NoSlot, Unassigned
<1>4. {v \in Nodes : slot[v] > 0} = {}
  BY <1>3
<1> QED  BY <1>3, <1>4, FS_EmptySet DEF SpillSlots

LEMMA NoneChosenYet ==
  ASSUME AllocInv, HomeInv', graph' = graph,
         phase' \in {"uses", "loops", "walk"} \/ (phase' = "slots" /\ at' = 1)
  PROVE  /\ \A v \in Nodes' : ~(slot'[v] > 0)
         /\ SpillSlots' = 0
<1>1. /\ Nodes' = Nodes
      /\ \A v \in Nodes : v >= 1 /\ v \in Nat
  BY GraphFacts DEF Nodes, AllocInv, TypeInv
<1>2. \A v \in Nodes : ~Numbered(v)' /\ HomeOf(v)'
  BY <1>1 DEF Numbered, HomeInv
<1>3. \A v \in Nodes : ~(slot'[v] > 0)
  BY <1>2 DEF HomeOf, NoSlot, Unassigned
<1>4. {v \in Nodes' : slot'[v] > 0} = {}
  BY <1>1, <1>3
<1> QED  BY <1>1, <1>3, <1>4, FS_EmptySet DEF SpillSlots

LEMMA CountStep ==
  AllocInv /\ HomeInv /\ CountInv /\ AllocInv' /\ HomeInv' /\ [AllocNext]_allocVars => CountInv'
<1> SUFFICES ASSUME AllocInv, HomeInv, CountInv, AllocInv', HomeInv', [AllocNext]_allocVars
             PROVE  CountInv'
  OBVIOUS
<1>1. CASE UNCHANGED allocVars
  BY <1>1 DEF allocVars, CountInv, SpillSlots, Nodes
<1>2. CASE AddUses \/ ExtendOverLoop \/ TakeFreeReg \/ SpillItself \/ SpillVictim
  <2>1. /\ phase \in {"uses", "loops", "walk"} /\ frame' = frame
        /\ phase' \in {"uses", "loops", "walk"} \/ (phase' = "slots" /\ at' = 1)
    BY <1>2 DEF AddUses, ExtendOverLoop, TakeFreeReg, SpillItself, SpillVictim, Advance
  <2>2. SpillSlots = 0
    BY <2>1, NoneChosen
  <2>3. graph' = graph
    BY <1>2 DEF AddUses, ExtendOverLoop, TakeFreeReg, SpillItself, SpillVictim
  <2>4. (\A v \in Nodes' : ~(slot'[v] > 0)) /\ SpillSlots' = 0
    BY <2>1, <2>3, NoneChosenYet
  <2> QED  BY <2>1, <2>2, <2>4 DEF CountInv
<1>3. CASE AssignSlot
  <2> DEFINE before == {v \in Nodes : slot[v] > 0}
             later  == {v \in Nodes : slot'[v] > 0}
             next   == IF slot[at] = Unassigned THEN NextSlot ELSE frame
  <2>1. /\ phase = "slots" /\ graph' = graph /\ Nodes' = Nodes /\ at \in Nodes
        /\ slot \in [Nodes -> Int] /\ frame \in Nat /\ SpillSlots \in Nat
        /\ IsFiniteSet(before)
    BY <1>3, GraphFacts, SpillSlotsType DEF AssignSlot, AllocInv, TypeInv, AllocTypeOK, Nodes
  <2>2. /\ slot' = [slot EXCEPT ![at] = IF @ = Unassigned THEN next ELSE @]
        /\ frame' = IF at = Len(graph.kind) THEN RoundUp16(next) ELSE next
        /\ phase' \in {"slots", "allocated"}
        /\ at = Size => phase' = "allocated"
    BY <1>3 DEF AssignSlot, Advance, Size
  <2>3. frame = SlotSize * SpillSlots
    BY <2>1 DEF CountInv
  <2>4. SpillSlots = Cardinality(before) /\ SpillSlots' = Cardinality(later)
    BY <2>1 DEF SpillSlots
  <2>5. phase' = "slots" => frame' = next
    BY <2>2 DEF Size
  <2>6. CASE slot[at] = Unassigned
    <3>1. next = SlotSize * (SpillSlots + 1) /\ next > 0
      BY <2>1, <2>3, <2>6 DEF NextSlot, SlotSize
    <3> HIDE DEF next
    <3>2. slot'[at] = next /\ \A v \in Nodes : v # at => slot'[v] = slot[v]
      BY <2>1, <2>2, <2>6
    <3>3. later = before \cup {at} /\ at \notin before
      BY <2>1, <2>6, <3>1, <3>2 DEF Unassigned
    <3>4. SpillSlots' = SpillSlots + 1
      BY <2>1, <2>4, <3>3, FS_AddElement
    <3>5. ASSUME NEW v \in Nodes, slot'[v] > 0
          PROVE  \E i \in 1 .. SpillSlots' : slot'[v] = SlotSize * i
      <4>1. CASE v = at
        BY <2>1, <3>1, <3>2, <3>4, <4>1
      <4>2. CASE v # at
        <5>1. PICK i \in 1 .. SpillSlots : slot[v] = SlotSize * i
          BY <3>2, <3>5, <4>2 DEF CountInv
        <5> QED  BY <2>1, <3>2, <3>4, <4>2, <5>1
      <4> QED  BY <4>1, <4>2
    <3> QED  BY <2>1, <2>2, <2>5, <3>1, <3>4, <3>5 DEF CountInv
  <2>7. CASE slot[at] # Unassigned
    <3>1. slot' = slot /\ next = frame
      BY <2>1, <2>2, <2>7
    <3>2. SpillSlots' = SpillSlots
      BY <2>4, <3>1
    <3> QED  BY <2>1, <2>2, <2>3, <2>5, <3>1, <3>2 DEF CountInv
  <2> QED  BY <2>6, <2>7
<1> QED  BY <1>1, <1>2, <1>3 DEF AllocNext

LEMMA EndStep == AllocInv /\ EndInv /\ [AllocNext]_allocVars => EndInv'
<1> SUFFICES ASSUME AllocInv, EndInv, [AllocNext]_allocVars PROVE EndInv'
  OBVIOUS
<1>0. /\ Nodes \subseteq Nat /\ at \in Nodes /\ Size \in Nat /\ Nodes = 1 .. Size
      /\ end \in [Nodes -> Nat]
  BY GraphFacts DEF AllocInv, TypeInv, AllocTypeOK
<1>1. /\ graph' = graph /\ Nodes' = Nodes
      /\ \A u, v \in Nodes : UsesOf(u, v)' = UsesOf(u, v)
      /\ \A h \in Nodes : BackEdges(h)' = BackEdges(h)
  <2>1. graph' = graph
    BY DEF AllocNext, allocVars, AddUses, ExtendOverLoop, TakeFreeReg, SpillItself, SpillVictim,
           AssignSlot
  <2>2. Nodes' = Nodes
    BY <2>1 DEF Nodes
  <2>3. \A u, v \in Nodes : UsesOf(u, v)' = UsesOf(u, v)
    BY <2>1 DEF UsesOf
  <2>4. \A j : LoopsOf(j)' = LoopsOf(j)
    BY <2>1 DEF LoopsOf
  <2>5. \A h \in Nodes : BackEdges(h)' = BackEdges(h)
    BY <2>1, <2>2, <2>4 DEF BackEdges
  <2> QED  BY <2>1, <2>2, <2>3, <2>5
<1>2. \A u, v \in Nodes : UsesOf(u, v) \in Nat
  BY UsesOfType DEF AllocInv
<1>3. \A h \in Nodes : BackEdges(h) \subseteq Nodes
  BY DEF BackEdges
<1>4. CASE AddUses
  <2>1. /\ phase = "uses"
        /\ end' = [v \in Nodes |-> IF UsesOf(at, v) > 0 /\ at - 1 >= end[v] THEN at ELSE end[v]]
        /\ phase' = "uses" => at' = at + 1
        /\ phase' = "loops" => at' = 1 /\ ~(at < Size)
        /\ phase' \in {"uses", "loops"}
    BY <1>4 DEF AddUses, Advance, Size
  <2>2. ASSUME NEW u \in Nodes, NEW v \in Nodes, UsesOf(u, v) > 0, phase' = "uses" => u < at'
        PROVE  end'[v] >= u
    <3>1. u <= at
      BY <1>0, <2>1, <2>2
    <3>2. u < at => end[v] >= u
      BY <2>2 DEF EndInv
    <3>3. u \in Nat /\ end[v] \in Nat /\ at \in Nat
      BY <1>0
    <3>4. end'[v] = IF UsesOf(at, v) > 0 /\ at - 1 >= end[v] THEN at ELSE end[v]
      BY <2>1
    <3> QED  BY <2>2, <3>1, <3>2, <3>3, <3>4
  <2>3. ASSUME NEW h \in Nodes
        PROVE  ~(phase' # "uses" /\ (phase' = "loops" => h < at'))
    BY <1>0, <2>1
  <2> QED  BY <1>1, <2>2, <2>3 DEF EndInv
<1>5. CASE ExtendOverLoop
  <2>1. /\ phase = "loops"
        /\ phase' = "loops" => at' = at + 1
        /\ phase' = "walk" => ~(at < Size)
        /\ phase' \in {"loops", "walk"}
    BY <1>5 DEF ExtendOverLoop, Advance, Size
  <2>2. \A v \in Nodes : end'[v] \in Nat /\ end'[v] >= end[v]
    <3>1. CASE UNCHANGED end
      BY <1>0, <3>1
    <3>2. ASSUME NEW j \in BackEdges(at), NEW extended \in SUBSET Nodes,
                 \A v \in extended : end[v] <= j,
                 end' = [v \in Nodes |-> IF v \in extended THEN j + 1 ELSE end[v]]
          PROVE  \A v \in Nodes : end'[v] \in Nat /\ end'[v] >= end[v]
      <4>1. j \in Nat
        BY <1>0, <1>3
      <4> QED  BY <1>0, <3>2, <4>1
    <3> QED  BY <1>5, <3>1, <3>2 DEF ExtendOverLoop
  <2>3. ASSUME NEW u \in Nodes, NEW v \in Nodes, UsesOf(u, v) > 0 PROVE end'[v] >= u
    <3>1. end[v] >= u
      BY <2>1, <2>3 DEF EndInv
    <3>2. u \in Nat /\ end[v] \in Nat
      BY <1>0
    <3> QED  BY <2>2, <3>1, <3>2
  <2>4. ASSUME NEW h \in Nodes, NEW u \in Nodes, NEW v \in Nodes, NEW j \in BackEdges(h),
               v < h, u \in h .. j, UsesOf(u, v) > 0, phase' = "loops" => h < at'
        PROVE  end'[v] >= j + 1
    <3>1. h <= at
      BY <1>0, <2>1, <2>4
    <3>2. j \in Nat /\ h \in Nat /\ at \in Nat /\ end[v] \in Nat
      BY <1>0, <1>3
    <3>3. CASE h < at
      <4>1. end[v] >= j + 1
        BY <2>1, <2>4, <3>3 DEF EndInv
      <4> QED  BY <2>2, <3>2, <4>1
    <3>4. CASE h = at
      <4>1. PICK i \in BackEdges(at) :
              /\ \A k \in BackEdges(at) : k <= i
              /\ end' = [w \in Nodes |-> IF w \in {x \in Nodes : UsedInLoop(x, at, i) /\ end[x] <= i}
                                         THEN i + 1 ELSE end[w]]
        BY <1>5, <2>4, <3>4 DEF ExtendOverLoop
      <4>2. i \in Nat /\ j <= i
        BY <1>0, <1>3, <2>4, <3>4, <4>1
      <4>3. u \in at .. i + 1
        BY <2>4, <3>2, <3>4, <4>2
      <4>4. UsedInLoop(v, at, i)
        BY <2>4, <3>4, <4>3 DEF UsedInLoop
      <4>5. end'[v] >= i + 1
        BY <3>2, <4>1, <4>2, <4>4
      <4> QED  BY <2>2, <3>2, <4>2, <4>5
    <3> QED  BY <3>1, <3>2, <3>3, <3>4
  <2> QED  BY <1>1, <2>3, <2>4 DEF EndInv
<1>6. CASE TakeFreeReg \/ SpillItself \/ SpillVictim \/ AssignSlot
  <2>1. /\ end' = end /\ phase \in {"walk", "slots"}
        /\ phase' \in {"walk", "slots", "allocated"}
    BY <1>6 DEF TakeFreeReg, SpillItself, SpillVictim, AssignSlot, Advance
  <2> QED  BY <1>1, <2>1 DEF EndInv
<1>7. CASE UNCHANGED allocVars
  BY <1>1, <1>7 DEF allocVars, EndInv
<1> QED  BY <1>4, <1>5, <1>6, <1>7 DEF AllocNext

-----------------------------------------------------------------------------
(* The code of a graph does not change once it is allocated.               *)
Same == UNCHANGED <<graph, end, reg, slot>>

LEMMA SameGraph ==
  ASSUME Same
  PROVE  /\ Nodes' = Nodes
         /\ \A n : Operands(n)' = Operands(n) /\ HasValue(n)' = HasValue(n)
         /\ \A n, i : In(n, i)' = In(n, i)
         /\ \A n : Targets(n)' = Targets(n)
         /\ \A u, v : UsesOf(u, v)' = UsesOf(u, v)
<1>1. Nodes' = Nodes
  BY DEF Same, Nodes
<1>2. \A n : Operands(n)' = Operands(n) /\ HasValue(n)' = HasValue(n)
  BY DEF Same, Operands, HasValue
<1>3. \A n, i : In(n, i)' = In(n, i)
  BY DEF Same, In
<1>4. \A n : LoopsOf(n)' = LoopsOf(n) /\ Arms(n)' = Arms(n)
  BY DEF Same, LoopsOf, Arms
<1>5. \A n : Targets(n)' = Targets(n)
  BY <1>1, <1>4 DEF Same, Targets
<1>6. \A u, v : UsesOf(u, v)' = UsesOf(u, v)
  BY DEF Same, UsesOf
<1> QED  BY <1>1, <1>2, <1>3, <1>5, <1>6

LEMMA SameHomes ==
  ASSUME Same
  PROVE  /\ SpillSlots' = SpillSlots /\ Cells' = Cells
         /\ \A l : LocalCell(l)' = LocalCell(l)
         /\ \A n, r : Spilled(n, r)' = Spilled(n, r)
         /\ \A n, i : Source(n, i)' = Source(n, i)
         /\ \A n : Dst(n)' = Dst(n) /\ Overlaps(n)' = Overlaps(n)
<1>1. Nodes' = Nodes /\ \A n : Operands(n)' = Operands(n)
  BY SameGraph
<1>2. \A n, i : In(n, i)' = In(n, i)
  BY SameGraph
<1>3. SpillSlots' = SpillSlots
  BY <1>1 DEF Same, SpillSlots
<1>4. \A l : LocalCell(l)' = LocalCell(l)
  BY <1>3 DEF LocalCell
<1>5. Cells' = Cells
  BY DEF Same, Cells
<1>6. \A v, s : Place(v, s)' = Place(v, s)
  BY DEF Same, Place
<1>7. \A n, i : Source(n, i)' = Source(n, i)
  BY <1>2, <1>6 DEF Source
<1>8. \A n : Dst(n)' = Dst(n)
  BY <1>6 DEF Dst
<1>9. \A n : Overlaps(n)' = Overlaps(n)
  BY <1>7, <1>8 DEF Overlaps
<1>10. \A n, r : Spilled(n, r)' = Spilled(n, r)
  BY <1>1, <1>2 DEF Same, Spilled
<1> QED  BY <1>3, <1>4, <1>5, <1>7, <1>8, <1>9, <1>10

LEMMA SameCode ==
  ASSUME Same
  PROVE  /\ \A n : Writes(n)' = Writes(n)
         /\ \A n : Disturbs(n)' = Disturbs(n)
         /\ \A n : Rejected(n)' = Rejected(n)
<1>1. /\ Nodes' = Nodes
      /\ \A n : Operands(n)' = Operands(n) /\ HasValue(n)' = HasValue(n)
      /\ \A n, i : In(n, i)' = In(n, i)
      /\ \A n, i : Source(n, i)' = Source(n, i)
      /\ \A n : Overlaps(n)' = Overlaps(n)
      /\ \A n, r : Spilled(n, r)' = Spilled(n, r)
  BY SameGraph, SameHomes
<1>2. \A n : LoadsInto(n)' = LoadsInto(n)
  BY <1>1 DEF LoadsInto
<1>3. \A n : Takes(n)' = Takes(n)
  BY <1>1, <1>2 DEF Same, Takes
<1>4. \A n : Writes(n)' = Writes(n)
  BY <1>1, <1>3 DEF Same, Writes
<1>5. \A n : ArgumentIsLost(n)' = ArgumentIsLost(n)
  BY <1>1, <1>4 DEF Same, ArgumentIsLost
<1>6. \A n : Disturbs(n)' = Disturbs(n)
  BY <1>1, <1>2, <1>3, <1>5 DEF Same, Disturbs
<1>7. \A n : Rejected(n)' = Rejected(n)
  BY <1>1 DEF Same, Rejected
<1> QED  BY <1>4, <1>6, <1>7

-----------------------------------------------------------------------------
(* What is known of the allocation before, while and after the code runs.  *)
HasHome(v) == IF reg[v] = NoReg THEN slot[v] > 0 ELSE slot[v] = NoSlot

Allocation ==
  /\ AllocInv /\ SlotsInv /\ CountInv /\ EndInv
  /\ phase \in AllocPhases \cup {"running", "returned", "fallback"}
  /\ phase \in AllocPhases =>
       /\ HomeInv
       /\ machine = Entry /\ stored = [l \in Locals |-> Junk] /\ last = 0
  /\ phase = "allocated" => at = 1
  /\ phase \notin AllocPhases => \A v \in Nodes : HasHome(v)
  /\ phase = "running" => \A n \in Nodes : ~Rejected(n)

LEMMA AllocationStarts == Init => Allocation
<1> SUFFICES ASSUME Init PROVE Allocation
  OBVIOUS
<1>1. AllocInit /\ AllocInv /\ HomeInv
  BY InitHolds, HomeInit DEF Init
<1>2. phase = "uses" /\ frame = 0 /\ slot = [v \in Nodes |-> NoSlot] /\ at = 1
  BY <1>1 DEF AllocInit
<1>3. SlotsInv
  BY <1>2 DEF SlotsInv, NoSlot
<1>4. CountInv
  <2>1. SpillSlots = 0 /\ \A v \in Nodes : ~(slot[v] > 0)
    BY <1>1, <1>2, NoneChosen
  <2> QED  BY <1>2, <2>1 DEF CountInv, SlotSize
<1>5. EndInv
  <2>1. \A u \in Nodes : ~(u < at)
    BY <1>1, <1>2, GraphFacts DEF AllocInv, TypeInv
  <2> QED  BY <1>2, <2>1 DEF EndInv
<1> QED  BY <1>1, <1>2, <1>3, <1>4, <1>5 DEF Init, Allocation, AllocPhases

LEMMA AllocateStep == Allocation /\ Allocate => Allocation'
<1> SUFFICES ASSUME Allocation, Allocate PROVE Allocation'
  OBVIOUS
<1>1. AllocNext /\ UNCHANGED <<machine, stored, last>>
  BY DEF Allocate, emitVars
<1>2. /\ phase \in AllocPhases /\ graph' = graph
      /\ phase' = "allocated" => at' = 1
  BY <1>1 DEF AllocNext, AddUses, ExtendOverLoop, TakeFreeReg, SpillItself, SpillVictim,
              AssignSlot, Advance, AllocPhases
<1>3. AllocInv' /\ HomeInv' /\ SlotsInv' /\ CountInv' /\ EndInv'
  BY <1>1, <1>2, AllocStep, HomeStep, SlotsStep, CountStep, EndStep DEF Allocation
<1>4. Entry' = Entry
  BY <1>2 DEF Entry, Cells
<1>5. phase' \in AllocPhases
  BY <1>3 DEF HomeInv
<1>6. phase' # "running"
  BY <1>5 DEF AllocPhases
<1> QED  BY <1>1, <1>2, <1>3, <1>4, <1>5, <1>6 DEF Allocation

(* A step that leaves the allocation as it is.                             *)
LEMMA AllocationStays ==
  ASSUME Allocation, phase \notin {"uses", "loops", "walk", "slots"},
         UNCHANGED <<graph, end, weight, active, reg, slot, spills, frame>>,
         phase' \in {"running", "returned", "fallback"}, at' \in Nodes,
         \A v \in Nodes : HasHome(v),
         phase' = "running" => \A n \in Nodes : ~Rejected(n)
  PROVE  Allocation'
<1>1. Same
  BY DEF Same
<1>2. /\ Nodes' = Nodes /\ SpillSlots' = SpillSlots
      /\ \A n : Rejected(n)' = Rejected(n)
      /\ \A u, v : UsesOf(u, v)' = UsesOf(u, v)
  BY <1>1, SameGraph, SameHomes, SameCode
<1>3. AllocInv'
  BY <1>2 DEF Allocation, AllocInv, TypeInv, AllocTypeOK, IsList, WalkInv, NoSharedRegister
<1>4. SlotsInv' /\ CountInv'
  BY <1>2 DEF Allocation, SlotsInv, CountInv, Apart
<1>5. \A h \in Nodes : BackEdges(h)' = BackEdges(h)
  BY <1>2 DEF BackEdges, LoopsOf
<1>6. EndInv'
  BY <1>2, <1>5 DEF Allocation, EndInv
<1>7. \A v \in Nodes' : HasHome(v)'
  BY <1>2 DEF HasHome
<1>8. phase' \notin AllocPhases
  BY DEF AllocPhases
<1> QED  BY <1>2, <1>3, <1>4, <1>6, <1>7, <1>8 DEF Allocation

LEMMA EmitStep == Allocation /\ Emit => Allocation'
<1> SUFFICES ASSUME Allocation, Emit PROVE Allocation'
  OBVIOUS
<1>1. HomeInv /\ phase = "allocated"
  BY DEF Emit, Allocation, AllocPhases
<1>2. \A v \in Nodes : HasHome(v)
  BY <1>1 DEF HomeInv, HomeOf, Walked, Numbered, HasHome, NoSlot, Unassigned
<1>3. at' \in Nodes
  BY DEF Emit, Allocation, AllocInv, TypeInv, AllocTypeOK
<1>4. /\ phase' \in {"running", "fallback"}
      /\ phase' = "running" => \A n \in Nodes : ~Rejected(n)
  BY DEF Emit
<1>5. UNCHANGED <<graph, end, weight, active, reg, slot, spills, frame>>
  BY DEF Emit
<1> QED  BY <1>1, <1>2, <1>3, <1>4, <1>5, AllocationStays

LEMMA TargetsAreNodes ==
  ASSUME graph \in Graphs, NEW n \in Nodes
  PROVE  Targets(n) \subseteq Nodes
<1>1. Size \in Nat /\ Nodes = 1 .. Size
  BY GraphFacts
<1>2. Arms(n) \subseteq Nodes /\ LoopsOf(n) \subseteq Nodes
  BY <1>1 DEF Arms, LoopsOf, Size
<1> QED  BY <1>2 DEF Targets

LEMMA ExecuteStep == Allocation /\ ExecuteNode => Allocation'
<1> SUFFICES ASSUME Allocation, ExecuteNode PROVE Allocation'
  OBVIOUS
<1>1. /\ phase = "running" /\ at \in Nodes /\ graph \in Graphs
      /\ \A v \in Nodes : HasHome(v)
      /\ \A n \in Nodes : ~Rejected(n)
  BY DEF ExecuteNode, Allocation, AllocPhases, AllocInv, TypeInv, AllocTypeOK
<1>2. at' \in Nodes /\ phase' \in {"running", "returned"}
  BY <1>1, TargetsAreNodes DEF ExecuteNode
<1>3. UNCHANGED <<graph, end, weight, active, reg, slot, spills, frame>>
  BY DEF ExecuteNode
<1> QED  BY <1>1, <1>2, <1>3, AllocationStays

LEMMA StutterStep == Allocation /\ UNCHANGED vars => Allocation'
<1> SUFFICES ASSUME Allocation, UNCHANGED vars PROVE Allocation'
  OBVIOUS
<1>1. UNCHANGED allocVars /\ UNCHANGED <<graph, phase, at, end, reg, slot, frame, machine, stored, last>>
  BY DEF vars, allocVars, emitVars
<1>2. Same
  BY <1>1 DEF Same
<1>3. AllocInv'
  BY <1>1, AllocStep DEF Allocation
<1>4. CASE phase \in AllocPhases
  <2>1. HomeInv' /\ SlotsInv' /\ CountInv' /\ EndInv'
    BY <1>1, <1>3, <1>4, HomeStep, SlotsStep, CountStep, EndStep DEF Allocation
  <2>2. Entry' = Entry
    BY <1>1 DEF Entry, Cells
  <2>3. phase # "running"
    BY <1>4 DEF AllocPhases
  <2> QED  BY <1>1, <1>3, <1>4, <2>1, <2>2, <2>3 DEF Allocation
<1>5. CASE phase \notin AllocPhases
  <2>1. at' \in Nodes
    BY <1>1 DEF Allocation, AllocInv, TypeInv, AllocTypeOK
  <2>2. phase \notin {"uses", "loops", "walk", "slots"}
    BY <1>5 DEF AllocPhases
  <2>3. UNCHANGED <<graph, end, weight, active, reg, slot, spills, frame>>
    BY <1>1 DEF allocVars
  <2> QED  BY <1>1, <1>5, <2>1, <2>2, <2>3, AllocationStays DEF Allocation
<1> QED  BY <1>4, <1>5

-----------------------------------------------------------------------------
(* Instructions.                                                           *)
IsMachine(m) ==
  m \in [regs: [MachineRegisters -> MachineValues], stack: [Cells -> MachineValues]]

LEMMA PutIs ==
  ASSUME NEW m, IsMachine(m), NEW r \in MachineRegisters, NEW x \in MachineValues
  PROVE  /\ IsMachine(Put(m, r, x))
         /\ Put(m, r, x).stack = m.stack
         /\ Put(m, r, x).regs[r] = x
         /\ \A q \in MachineRegisters : q # r => Put(m, r, x).regs[q] = m.regs[q]
<1>1. /\ m.regs \in [MachineRegisters -> MachineValues]
      /\ m.stack \in [Cells -> MachineValues]
      /\ m = [regs |-> m.regs, stack |-> m.stack]
  BY DEF IsMachine
<1> DEFINE after == [m.regs EXCEPT ![r] = x]
<1>2. Put(m, r, x) = [regs |-> after, stack |-> m.stack]
  BY <1>1 DEF Put
<1>3. /\ after \in [MachineRegisters -> MachineValues] /\ after[r] = x
      /\ \A q \in MachineRegisters : q # r => after[q] = m.regs[q]
  BY <1>1
<1> HIDE DEF after
<1> QED  BY <1>1, <1>2, <1>3 DEF IsMachine

LEMMA ReadsValues ==
  ASSUME NEW m, IsMachine(m)
  PROVE  /\ \A r \in MachineRegisters : m.regs[r] \in MachineValues
         /\ \A c \in Cells : m.stack[c] \in MachineValues
BY DEF IsMachine

LEMMA StoreIs ==
  ASSUME NEW m, IsMachine(m), NEW c \in Cells, NEW r \in MachineRegisters
  PROVE  /\ IsMachine(Store(m, c, r))
         /\ Store(m, c, r).regs = m.regs
         /\ Store(m, c, r).stack[c] = m.regs[r]
         /\ \A d \in Cells : d # c => Store(m, c, r).stack[d] = m.stack[d]
<1>1. /\ m.regs \in [MachineRegisters -> MachineValues]
      /\ m.stack \in [Cells -> MachineValues]
      /\ m = [regs |-> m.regs, stack |-> m.stack]
  BY DEF IsMachine
<1> DEFINE after == [m.stack EXCEPT ![c] = m.regs[r]]
<1>2. Store(m, c, r) = [regs |-> m.regs, stack |-> after]
  BY <1>1 DEF Store
<1>3. /\ after \in [Cells -> MachineValues] /\ after[c] = m.regs[r]
      /\ \A d \in Cells : d # c => after[d] = m.stack[d]
  BY <1>1
<1> HIDE DEF after
<1> QED  BY <1>1, <1>2, <1>3 DEF IsMachine

-----------------------------------------------------------------------------
(* What the code of node n may change: registers it writes, its slot, and  *)
(* the cell of a local it stores to.                                       *)
StoresTo(n) ==
  (IF slot[n] = NoSlot THEN {} ELSE {slot[n]})
    \cup (IF graph.kind[n] \in LocalStores THEN {LocalCell(LocalOf(graph.kind[n]))} ELSE {})

MayWrite(n) == Writes(n) \cup {Out}

Keeps(before, after, n) ==
  /\ IsMachine(after)
  /\ \A r \in MachineRegisters \ MayWrite(n) : after.regs[r] = before.regs[r]
  /\ \A c \in Cells \ StoresTo(n) : after.stack[c] = before.stack[c]

LEMMA KeepsPut ==
  ASSUME NEW m, NEW n, NEW a, Keeps(m, a, n),
         NEW r \in MachineRegisters, r \in MayWrite(n), NEW x \in MachineValues
  PROVE  Keeps(m, Put(a, r, x), n)
<1> DEFINE b == Put(a, r, x)
<1>1. IsMachine(a)
  BY DEF Keeps
<1>2. /\ IsMachine(b) /\ b.stack = a.stack
      /\ \A q \in MachineRegisters : q # r => b.regs[q] = a.regs[q]
  BY <1>1, PutIs
<1> HIDE DEF b
<1>3. Keeps(m, b, n)
  BY <1>2 DEF Keeps
<1> QED  BY <1>3 DEF b

LEMMA KeepsStore ==
  ASSUME NEW m, NEW n, NEW a, Keeps(m, a, n),
         NEW c \in Cells, c \in StoresTo(n), NEW r \in MachineRegisters
  PROVE  Keeps(m, Store(a, c, r), n)
<1> DEFINE b == Store(a, c, r)
<1>1. IsMachine(a)
  BY DEF Keeps
<1>2. /\ IsMachine(b) /\ b.regs = a.regs
      /\ \A d \in Cells : d # c => b.stack[d] = a.stack[d]
  BY <1>1, StoreIs
<1> HIDE DEF b
<1>3. Keeps(m, b, n)
  BY <1>2 DEF Keeps
<1> QED  BY <1>3 DEF b

LEMMA KeepsMov ==
  ASSUME NEW m, NEW n, NEW a, Keeps(m, a, n),
         NEW r \in MachineRegisters, r \in MayWrite(n), NEW q \in MachineRegisters
  PROVE  Keeps(m, Mov(a, r, q), n)
<1>1. a.regs[q] \in MachineValues
  BY ReadsValues DEF Keeps
<1> QED  BY <1>1, KeepsPut DEF Mov

LEMMA KeepsLoad ==
  ASSUME NEW m, NEW n, NEW a, Keeps(m, a, n),
         NEW r \in MachineRegisters, r \in MayWrite(n), NEW c \in Cells
  PROVE  Keeps(m, Load(a, r, c), n)
<1>1. a.stack[c] \in MachineValues
  BY ReadsValues DEF Keeps
<1> QED  BY <1>1, KeepsPut DEF Load

-----------------------------------------------------------------------------
(* Where values are while the code runs.                                   *)
Placed ==
  /\ graph \in Graphs
  /\ reg \in [Nodes -> Registers \cup {NoReg}]
  /\ slot \in [Nodes -> Int]
  /\ \A v \in Nodes : HasHome(v)
  /\ \A v \in Nodes : slot[v] > 0 => slot[v] \in Cells
  /\ \A v, w \in Nodes : v # w /\ slot[v] > 0 /\ slot[w] > 0 => slot[v] # slot[w]
  /\ \A l \in Locals : LocalCell(l) \in Cells
  /\ \A v \in Nodes, l \in Locals : slot[v] # LocalCell(l)
  /\ LocalCell(1) # LocalCell(2)

LEMMA CellsAre ==
  ASSUME graph \in Graphs
  PROVE  /\ Cells = {8 * i : i \in 1 .. Size + 2}
         /\ \A l \in Locals : LocalCell(l) \in Cells /\ LocalCell(l) = 8 * (SpillSlots + l)
<1>1. Size \in Nat /\ SpillSlots \in Nat /\ SpillSlots <= Size
  BY GraphFacts, SpillSlotsType
<1>2. Cardinality(Locals) = 2
  <2>1. Locals = {1} \cup {2}
    BY DEF Locals
  <2>2. Cardinality({1}) = 1 /\ IsFiniteSet({1})
    BY FS_Singleton
  <2>3. 2 \notin {1}
    OBVIOUS
  <2>4. Cardinality({1} \cup {2}) = Cardinality({1}) + 1
    BY <2>2, <2>3, FS_AddElement
  <2> QED  BY <2>1, <2>2, <2>4
<1>3. Cells = {8 * i : i \in 1 .. Size + 2}
  BY <1>2 DEF Cells, Size, SlotSize
<1>4. ASSUME NEW l \in Locals
      PROVE  LocalCell(l) \in Cells /\ LocalCell(l) = 8 * (SpillSlots + l)
  <2>1. LocalCell(l) = 8 * (SpillSlots + l) /\ l \in 1 .. 2
    BY DEF LocalCell, SlotSize, Locals
  <2>2. SpillSlots + l \in 1 .. Size + 2
    BY <1>1, <2>1
  <2> QED  BY <1>3, <2>1, <2>2
<1> QED  BY <1>3, <1>4

LEMMA Placement ==
  ASSUME Allocation, phase \notin AllocPhases
  PROVE  Placed
<1>1. /\ graph \in Graphs /\ reg \in [Nodes -> Registers \cup {NoReg}]
      /\ slot \in [Nodes -> Int] /\ \A v \in Nodes : HasHome(v)
  BY DEF Allocation, AllocInv, TypeInv, AllocTypeOK
<1>2. /\ Size \in Nat /\ SpillSlots \in Nat /\ SpillSlots <= Size
  BY <1>1, GraphFacts, SpillSlotsType
<1>3. ASSUME NEW v \in Nodes, slot[v] > 0
      PROVE  \E i \in 1 .. SpillSlots : slot[v] = 8 * i
  BY <1>3 DEF Allocation, CountInv, SlotSize
<1>4. ASSUME NEW v \in Nodes, slot[v] > 0 PROVE slot[v] \in Cells
  <2>1. PICK i \in 1 .. SpillSlots : slot[v] = 8 * i
    BY <1>3, <1>4
  <2>2. i \in 1 .. Size + 2
    BY <1>2
  <2> QED  BY <1>1, <2>1, <2>2, CellsAre
<1>5. ASSUME NEW v \in Nodes, NEW w \in Nodes, v # w, slot[v] > 0, slot[w] > 0
      PROVE  slot[v] # slot[w]
  <2>1. Apart(w, v)
    BY <1>5 DEF Allocation, SlotsInv
  <2> QED  BY <1>1, <2>1 DEF Apart, SlotSize
<1>6. \A l \in Locals : /\ LocalCell(l) \in Cells /\ LocalCell(l) = 8 * (SpillSlots + l)
                        /\ l \in 1 .. 2
  BY <1>1, CellsAre DEF Locals
<1>7. ASSUME NEW v \in Nodes, NEW l \in Locals PROVE slot[v] # LocalCell(l)
  <2>1. CASE slot[v] > 0
    <3>1. PICK i \in 1 .. SpillSlots : slot[v] = 8 * i
      BY <1>3, <2>1
    <3> QED  BY <1>2, <1>6, <3>1
  <2>2. CASE ~(slot[v] > 0)
    <3>1. LocalCell(l) > 0
      BY <1>2, <1>6
    <3> QED  BY <2>2, <3>1
  <2> QED  BY <2>1, <2>2
<1>8. LocalCell(1) # LocalCell(2)
  BY <1>2, <1>6 DEF Locals
<1> QED  BY <1>1, <1>4, <1>5, <1>6, <1>7, <1>8 DEF Placed

LEMMA NodeFacts ==
  ASSUME Placed, NEW n \in Nodes
  PROVE  /\ {"rax", "rcx", "rdx", "rdi", "r11", Out} \subseteq MachineRegisters
         /\ Registers \subseteq MachineRegisters /\ NoReg \notin Registers
         /\ Dst(n) \in MachineRegisters
         /\ HasValue(n) => Dst(n) \in Writes(n)
         /\ slot[n] # NoSlot => slot[n] \in Cells
         /\ Junk \in MachineValues /\ \A right : Result(n, right) \in MachineValues
<1>1. /\ {"rax", "rcx", "rdx", "rdi", "r11", Out} \subseteq MachineRegisters
      /\ Registers \subseteq MachineRegisters
  BY DEF MachineRegisters
<1>2. NoReg \notin Registers
  BY PoolsAssumption DEF Registers, ToSet
<1>3. Dst(n) \in MachineRegisters
  BY <1>1 DEF Placed, Dst, Place
<1>4. HasValue(n) => Dst(n) \in Writes(n)
  BY DEF Dst, Place, Writes, Takes
<1>5. slot[n] # NoSlot => slot[n] \in Cells
  BY DEF Placed, HasHome
<1>6. Junk \in MachineValues /\ \A right : Result(n, right) \in MachineValues
  BY DEF MachineValues, Junk, Result
<1> QED  BY <1>1, <1>2, <1>3, <1>4, <1>5, <1>6

LEMMA OperandFacts ==
  ASSUME Placed, NEW n \in Nodes, NEW i \in Operands(n)
  PROVE  /\ In(n, i) \in Nodes
         /\ Source(n, i) \in MachineRegisters
         /\ reg[In(n, i)] = NoReg => slot[In(n, i)] \in Cells
         /\ UsesOf(n, In(n, i)) > 0
<1>1. graph.inputs[n] \in Seq(Nodes)
  BY GraphFacts DEF Placed
<1>2. In(n, i) \in Nodes
  BY <1>1 DEF In, Operands
<1>3. Source(n, i) \in MachineRegisters
  BY <1>2 DEF Placed, Source, Place, Scratch, MachineRegisters
<1>4. reg[In(n, i)] = NoReg => slot[In(n, i)] \in Cells
  BY <1>2 DEF Placed, HasHome
<1>5. UsesOf(n, In(n, i)) > 0
  <2> DEFINE uses == {k \in DOMAIN graph.inputs[n] : graph.inputs[n][k] = In(n, i)}
  <2>1. IsFiniteSet(DOMAIN graph.inputs[n])
    BY <1>1, FS_Interval
  <2>2. IsFiniteSet(uses)
    BY <2>1, FS_Subset
  <2>3. i \in uses
    BY DEF In, Operands
  <2>4. Cardinality(uses) \in Nat /\ Cardinality(uses) # 0
    BY <2>2, <2>3, FS_CardinalityType, FS_EmptySet
  <2> QED  BY <2>4 DEF UsesOf
<1> QED  BY <1>2, <1>3, <1>4, <1>5

-----------------------------------------------------------------------------
(* The code of a node changes nothing else.                                *)
LEMMA KeepsItself ==
  ASSUME NEW m, IsMachine(m), NEW n
  PROVE  Keeps(m, m, n)
BY DEF Keeps

LEMMA LoadedIs ==
  ASSUME Placed, NEW n \in Nodes, NEW m, IsMachine(m)
  PROVE  /\ IsMachine(Loaded(m, n)) /\ Loaded(m, n).stack = m.stack
         /\ \A r \in MachineRegisters :
              Loaded(m, n).regs[r] =
                IF Spilled(n, r) = {} THEN m.regs[r]
                ELSE m.stack[slot[In(n, CHOOSE i \in Spilled(n, r) : TRUE)]]
<1> DEFINE loaded == [r \in MachineRegisters |->
                       IF Spilled(n, r) = {} THEN m.regs[r]
                       ELSE m.stack[slot[In(n, CHOOSE i \in Spilled(n, r) : TRUE)]]]
<1>1. /\ m.regs \in [MachineRegisters -> MachineValues]
      /\ m.stack \in [Cells -> MachineValues]
      /\ m = [regs |-> m.regs, stack |-> m.stack]
  BY DEF IsMachine
<1>2. Loaded(m, n) = [regs |-> loaded, stack |-> m.stack]
  <2>1. Loaded(m, n) = [m EXCEPT !.regs = loaded]
    BY DEF Loaded
  <2> HIDE DEF loaded
  <2>2. [m EXCEPT !.regs = loaded] = [regs |-> loaded, stack |-> m.stack]
    BY <1>1
  <2> QED  BY <2>1, <2>2
<1>3. ASSUME NEW r \in MachineRegisters PROVE loaded[r] \in MachineValues
  <2>1. CASE Spilled(n, r) = {}
    BY <1>1, <2>1
  <2>2. CASE Spilled(n, r) # {}
    <3>1. PICK i \in Spilled(n, r) : i = CHOOSE k \in Spilled(n, r) : TRUE
      BY <2>2
    <3>2. i \in Operands(n) /\ reg[In(n, i)] = NoReg
      BY DEF Spilled
    <3>3. slot[In(n, i)] \in Cells
      BY <3>2, OperandFacts
    <3> QED  BY <1>1, <2>2, <3>1, <3>3
  <2> QED  BY <2>1, <2>2
<1>4. loaded \in [MachineRegisters -> MachineValues]
  BY <1>3
<1>5. \A r \in MachineRegisters :
        loaded[r] = IF Spilled(n, r) = {} THEN m.regs[r]
                    ELSE m.stack[slot[In(n, CHOOSE i \in Spilled(n, r) : TRUE)]]
  OBVIOUS
<1> HIDE DEF loaded
<1> QED  BY <1>1, <1>2, <1>4, <1>5 DEF IsMachine

LEMMA LoadedKeeps ==
  ASSUME Placed, NEW n \in Nodes, NEW m, IsMachine(m)
  PROVE  Keeps(m, Loaded(m, n), n)
<1>1. \A r \in MachineRegisters \ MayWrite(n) : Spilled(n, r) = {}
  BY DEF MayWrite, Writes, Takes, LoadsInto
<1> QED  BY <1>1, LoadedIs DEF Keeps

LEMMA SaveKeeps ==
  ASSUME Placed, NEW n \in Nodes, NEW m, NEW a, Keeps(m, a, n)
  PROVE  Keeps(m, Save(a, n), n)
<1>1. CASE slot[n] = NoSlot
  BY <1>1 DEF Save
<1>2. CASE slot[n] # NoSlot
  <2>1. slot[n] \in Cells /\ slot[n] \in StoresTo(n) /\ Dst(n) \in MachineRegisters
    BY <1>2, NodeFacts DEF StoresTo
  <2> QED  BY <1>2, <2>1, KeepsStore DEF Save
<1> QED  BY <1>1, <1>2

LEMMA DirectKeeps ==
  ASSUME Placed, NEW n \in Nodes, NEW m, IsMachine(m), HasValue(n)
  PROVE  Keeps(m, Direct(m, n), n)
<1>1. /\ Dst(n) \in MachineRegisters /\ Dst(n) \in MayWrite(n)
      /\ \A right : Result(n, right) \in MachineValues
  BY NodeFacts DEF MayWrite
<1>2. Keeps(m, Put(Loaded(m, n), Dst(n), Result(n, HasOperands(Loaded(m, n), n))), n)
  BY <1>1, LoadedKeeps, KeepsPut
<1> QED  BY <1>2, SaveKeeps DEF Direct

LEMMA CombinedKeeps ==
  ASSUME Placed, NEW n \in Nodes, NEW m, NEW a, Keeps(m, a, n), HasValue(n), NEW second
  PROVE  Keeps(m, Combined(a, n, second), n)
<1> DEFINE right == a.regs[Dst(n)] = In(n, 1) /\ a.regs[second] = In(n, 2)
<1>1. /\ Dst(n) \in MachineRegisters /\ Dst(n) \in MayWrite(n)
      /\ Result(n, right) \in MachineValues
  BY NodeFacts DEF MayWrite
<1>2. Keeps(m, Put(a, Dst(n), Result(n, right)), n)
  BY <1>1, KeepsPut
<1> QED  BY <1>2, SaveKeeps DEF Combined

LEMMA MovedKeeps ==
  ASSUME Placed, NEW n \in Nodes, NEW m, IsMachine(m), HasValue(n), 1 \in Operands(n)
  PROVE  Keeps(m, Moved(m, n), n)
<1>1. /\ Dst(n) \in MachineRegisters /\ Dst(n) \in MayWrite(n)
      /\ Source(n, 1) \in MachineRegisters
  BY NodeFacts, OperandFacts DEF MayWrite
<1> QED  BY <1>1, LoadedKeeps, KeepsMov DEF Moved

LEMMA CompareKeeps ==
  ASSUME Placed, NEW n \in Nodes, NEW m, IsMachine(m), graph.kind[n] = "Eq"
  PROVE  Keeps(m, Compare(m, n), n)
<1>1. HasValue(n)
  BY DEF HasValue, NoValue, Sinks, LocalStores
<1>2. "rdx" \in MayWrite(n)
  BY DEF MayWrite, Writes, Takes
<1>3. /\ Dst(n) \in MachineRegisters /\ Dst(n) \in MayWrite(n) /\ "rdx" \in MachineRegisters
      /\ \A right : Result(n, right) \in MachineValues
  BY <1>1, NodeFacts DEF MayWrite
<1>4. Keeps(m, Put(Loaded(m, n), "rdx", Result(n, HasOperands(Loaded(m, n), n))), n)
  BY <1>2, <1>3, LoadedKeeps, KeepsPut
<1>5. Keeps(m, Mov(Put(Loaded(m, n), "rdx", Result(n, HasOperands(Loaded(m, n), n))), Dst(n), "rdx"), n)
  BY <1>3, <1>4, KeepsMov
<1> QED  BY <1>5, SaveKeeps DEF Compare

LEMMA DivideKeeps ==
  ASSUME Placed, NEW n \in Nodes, NEW m, IsMachine(m), graph.kind[n] \in {"Div", "Mod"},
         NEW result \in {"rax", "rdx"}, NEW other \in {"rax", "rdx"}
  PROVE  Keeps(m, Divide(m, n, result, other), n)
<1>1. HasValue(n)
  BY DEF HasValue, NoValue, Sinks, LocalStores
<1>2. {"rax", "rdx"} \subseteq MayWrite(n)
  BY DEF MayWrite, Writes, Takes
<1>3. /\ Dst(n) \in MachineRegisters /\ Dst(n) \in MayWrite(n)
      /\ {"rax", "rdx"} \subseteq MachineRegisters
      /\ Junk \in MachineValues /\ \A right : Result(n, right) \in MachineValues
  BY <1>1, NodeFacts DEF MayWrite
<1> DEFINE extended == Put(Loaded(m, n), "rdx", Junk)
           right == extended.regs["rax"] = In(n, 1) /\ extended.regs[Source(n, 2)] = In(n, 2)
<1>4. Keeps(m, extended, n)
  BY <1>2, <1>3, LoadedKeeps, KeepsPut
<1> HIDE DEF extended
<1>5. Keeps(m, Put(extended, other, Junk), n)
  BY <1>2, <1>3, <1>4, KeepsPut
<1>6. Keeps(m, Put(Put(extended, other, Junk), result, Result(n, right)), n)
  BY <1>2, <1>3, <1>5, KeepsPut
<1>7. Keeps(m, Mov(Put(Put(extended, other, Junk), result, Result(n, right)), Dst(n), result), n)
  BY <1>3, <1>6, KeepsMov
<1> QED  BY <1>7, SaveKeeps DEF Divide, extended

LEMMA SinkKeeps ==
  ASSUME Placed, NEW n \in Nodes, NEW m, IsMachine(m)
  PROVE  Keeps(m, Sink(m, n), n)
<1>1. Out \in MachineRegisters /\ \A right : Result(n, right) \in MachineValues
  BY NodeFacts
<1>2. Out \in MayWrite(n)
  BY DEF MayWrite
<1> QED  BY <1>1, <1>2, LoadedKeeps, KeepsPut DEF Sink

Binary == {"Add", "And", "Shl", "Eq", "Div", "Mod"}

LEMMA TwoOperands ==
  ASSUME Placed, NEW n \in Nodes, graph.kind[n] \in Binary, ~Rejected(n)
  PROVE  1 \in Operands(n) /\ 2 \in Operands(n)
<1>1. graph.kind[n] \in Demanding
  BY DEF Binary, Demanding
<1>2. Arity(graph.kind[n]) = 2
  <2>1. ASSUME NEW k \in Binary PROVE Arity(k) = 2
    <3>1. k # "StElem" /\ k \in {"Add", "And", "Shl", "Eq", "Div", "Mod", "StFld", "LdElem", "CheckBounds"}
      BY DEF Binary
    <3> QED  BY <3>1, SMT DEF Arity, LocalStores
  <2> QED  BY <2>1
<1>3. Len(graph.inputs[n]) = 2
  BY <1>1, <1>2 DEF Rejected
<1>4. graph.inputs[n] \in Seq(Nodes)
  BY GraphFacts DEF Placed
<1>5. DOMAIN graph.inputs[n] = 1 .. 2
  BY <1>3, <1>4
<1> QED  BY <1>5 DEF Operands

LEMMA ArithmeticKeeps ==
  ASSUME Placed, NEW n \in Nodes, NEW m, IsMachine(m), graph.kind[n] = "Add", ~Rejected(n)
  PROVE  Keeps(m, Arithmetic(m, n), n)
<1>1. HasValue(n)
  BY DEF HasValue, NoValue, Sinks, LocalStores
<1>3. 1 \in Operands(n) /\ 2 \in Operands(n)
  BY TwoOperands DEF Binary
<1>4. Keeps(m, Moved(m, n), n)
  BY <1>1, <1>3, MovedKeeps
<1>5. CASE Overlaps(n)
  <2>1. slot[In(n, 2)] # NoSlot
    BY <1>5 DEF Rejected
  <2>2. slot[In(n, 2)] \in Cells
    BY <1>3, <2>1, OperandFacts DEF Placed, HasHome
  <2>3. "rcx" \in MayWrite(n) /\ "rcx" \in MachineRegisters
    BY <1>5, NodeFacts DEF MayWrite, Writes, Takes
  <2>4. Keeps(m, Load(Moved(m, n), "rcx", slot[In(n, 2)]), n)
    BY <1>4, <2>2, <2>3, KeepsLoad
  <2> QED  BY <1>1, <1>5, <2>4, CombinedKeeps DEF Arithmetic
<1>6. CASE ~Overlaps(n)
  BY <1>1, <1>4, <1>6, CombinedKeeps DEF Arithmetic
<1> QED  BY <1>5, <1>6

(* The kinds, one by one.                                                  *)
LEMMA RunIs ==
  ASSUME NEW n, NEW m, NEW k, k = graph.kind[n]
  PROVE  /\ k \in Directs \/ (k = "ConstNull" /\ reg[n] # NoReg) => Run(m, n) = Direct(m, n)
         /\ k = "ConstNull" /\ reg[n] = NoReg => Run(m, n) = m
         /\ k = "IsInt" => Run(m, n) = Put(m, Dst(n), n)
         /\ k = "Add" => Run(m, n) = Arithmetic(m, n)
         /\ k = "And" => Run(m, n) = Combined(Moved(m, n), n, Source(n, 2))
         /\ k = "Shl" => Run(m, n) = Combined(Moved(m, n), n, "rcx")
         /\ k = "Eq" => Run(m, n) = Compare(m, n)
         /\ k = "Div" => Run(m, n) = Divide(m, n, "rax", "rdx")
         /\ k = "Mod" => Run(m, n) = Divide(m, n, "rdx", "rax")
         /\ k \in ArgumentLoads => Run(m, n) = LoadArgument(m, n, ArgReg(k))
         /\ k \in LocalLoads => Run(m, n) = LoadLocal(m, n, LocalOf(k))
         /\ k \in LocalStores => Run(m, n) = Store(Sink(m, n), LocalCell(LocalOf(k)), Out)
         /\ k = "StArg" => Run(m, n) = Put(Sink(m, n), "rdi", Junk)
         /\ k \in Sinks \ (LocalStores \cup {"StArg"}) => Run(m, n) = Sink(m, n)
         /\ k = "Safepoint" => Run(m, n) = Put(m, "r11", Junk)
         /\ k \notin Directs \cup ArgumentLoads \cup LocalLoads \cup Sinks
               \cup {"ConstNull", "IsInt", "Add", "And", "Shl", "Eq", "Div", "Mod", "Safepoint"}
              => Run(m, n) = m
BY DEF Run, Directs, ArgumentLoads, LocalLoads, LocalStores, Sinks

LEMMA RunKeeps ==
  ASSUME Placed, NEW n \in Nodes, NEW m, IsMachine(m), ~Rejected(n)
  PROVE  Keeps(m, Run(m, n), n)
<1> DEFINE k == graph.kind[n]
<1>0. /\ Dst(n) \in MachineRegisters
      /\ HasValue(n) => Dst(n) \in MayWrite(n)
      /\ n \in MachineValues /\ Junk \in MachineValues
      /\ \A right : Result(n, right) \in MachineValues
      /\ {"rcx", "rdi", "r11", Out} \subseteq MachineRegisters
  BY NodeFacts DEF MayWrite, MachineValues
<1>1. CASE k \in Directs \/ (k = "ConstNull" /\ reg[n] # NoReg)
  <2>1. HasValue(n)
    BY <1>1 DEF HasValue, Directs, NoValue, Sinks, LocalStores
  <2> QED  BY <1>1, <2>1, DirectKeeps, RunIs
<1>2. CASE k = "IsInt"
  <2>1. HasValue(n)
    BY <1>2 DEF HasValue, NoValue, Sinks, LocalStores
  <2> QED  BY <1>0, <1>2, <2>1, KeepsItself, KeepsPut, RunIs
<1>3. CASE k = "Add"
  BY <1>3, ArithmeticKeeps, RunIs
<1>4. CASE k \in {"And", "Shl"}
  <2>1. HasValue(n)
    BY <1>4 DEF HasValue, NoValue, Sinks, LocalStores
  <2>2. 1 \in Operands(n)
    BY <1>4, TwoOperands DEF Binary
  <2>3. Keeps(m, Moved(m, n), n)
    BY <2>1, <2>2, MovedKeeps
  <2> QED  BY <1>4, <2>1, <2>3, CombinedKeeps, RunIs
<1>5. CASE k = "Eq"
  BY <1>5, CompareKeeps, RunIs
<1>6. CASE k \in {"Div", "Mod"}
  BY <1>6, DivideKeeps, RunIs
<1>7. CASE k \in ArgumentLoads
  <2>1. HasValue(n)
    BY <1>7 DEF HasValue, ArgumentLoads, NoValue, Sinks, LocalStores
  <2>2. Keeps(m, Put(m, Dst(n), Result(n, m.regs[ArgReg(k)] = ArgumentIn(ArgReg(k)))), n)
    BY <1>0, <2>1, KeepsItself, KeepsPut
  <2> QED  BY <1>7, <2>2, SaveKeeps, RunIs DEF LoadArgument
<1>8. CASE k \in LocalLoads
  <2>1. HasValue(n)
    BY <1>8 DEF HasValue, LocalLoads, NoValue, Sinks, LocalStores
  <2>2. Keeps(m, Put(m, Dst(n), Result(n, m.stack[LocalCell(LocalOf(k))] = stored[LocalOf(k)])), n)
    BY <1>0, <2>1, KeepsItself, KeepsPut
  <2> QED  BY <1>8, <2>2, SaveKeeps, RunIs DEF LoadLocal
<1>9. CASE k \in LocalStores
  <2>1. LocalOf(k) \in Locals
    BY DEF LocalOf, Locals
  <2>2. LocalCell(LocalOf(k)) \in Cells /\ LocalCell(LocalOf(k)) \in StoresTo(n)
    BY <1>9, <2>1 DEF Placed, StoresTo
  <2> QED  BY <1>0, <1>9, <2>2, SinkKeeps, KeepsStore, RunIs
<1>10. CASE k = "StArg"
  <2>1. "rdi" \in MayWrite(n)
    BY <1>10 DEF MayWrite, Writes, Takes
  <2> QED  BY <1>0, <1>10, <2>1, SinkKeeps, KeepsPut, RunIs
<1>11. CASE k \in Sinks \ (LocalStores \cup {"StArg"})
  BY <1>11, SinkKeeps, RunIs
<1>12. CASE k = "Safepoint"
  <2>1. "r11" \in MayWrite(n)
    BY <1>12 DEF MayWrite, Writes, Takes
  <2> QED  BY <1>0, <1>12, <2>1, KeepsItself, KeepsPut, RunIs
<1>13. CASE Run(m, n) = m
  BY <1>13, KeepsItself
<1> QED  BY <1>1, <1>2, <1>3, <1>4, <1>5, <1>6, <1>7, <1>8, <1>9, <1>10, <1>11, <1>12, <1>13, RunIs

-----------------------------------------------------------------------------
(* Type correctness.                                                       *)
CodeTypes ==
  /\ Allocation
  /\ IsMachine(machine)
  /\ stored \in [Locals -> Nodes \cup {0}]
  /\ last \in Nodes \cup {0}

LEMMA EntryIs == IsMachine(Entry) /\ [l \in Locals |-> Junk] \in [Locals -> Nodes \cup {0}]
<1>1. \A r \in MachineRegisters :
        (IF r \in ArgumentRegs THEN ArgumentIn(r) ELSE Junk) \in MachineValues
  BY DEF MachineValues, ArgumentIn, Junk
<1>2. Junk \in MachineValues /\ Junk \in Nodes \cup {0}
  BY DEF MachineValues, Junk
<1> QED  BY <1>1, <1>2 DEF Entry, IsMachine

LEMMA CodeTypesStep == CodeTypes /\ [Next]_vars => CodeTypes'
<1> SUFFICES ASSUME CodeTypes, [Next]_vars PROVE CodeTypes'
  OBVIOUS
<1>1. Allocation'
  BY AllocateStep, EmitStep, ExecuteStep, StutterStep DEF CodeTypes, Next, Stopped
<1>2. CASE UNCHANGED <<graph, machine, stored, last>>
  <2>1. Nodes' = Nodes /\ Cells' = Cells
    BY <1>2 DEF Nodes, Cells
  <2> QED  BY <1>1, <1>2, <2>1 DEF CodeTypes, IsMachine, MachineValues
<1>3. CASE Allocate
  <2>1. graph' = graph /\ UNCHANGED <<machine, stored, last>>
    BY <1>3 DEF Allocate, emitVars, AllocNext, AddUses, ExtendOverLoop, TakeFreeReg, SpillItself,
                SpillVictim, AssignSlot
  <2> QED  BY <1>2, <2>1
<1>4. CASE Emit
  BY <1>2, <1>4 DEF Emit, emitVars
<1>5. CASE ExecuteNode
  <2>1. Placed /\ at \in Nodes /\ ~Rejected(at)
    BY <1>5, Placement DEF ExecuteNode, CodeTypes, Allocation, AllocPhases, AllocInv, TypeInv,
                           AllocTypeOK
  <2>2. IsMachine(Run(machine, at))
    BY <2>1, RunKeeps DEF CodeTypes, Keeps
  <2>3. /\ machine' = Run(machine, at) /\ last' = at
        /\ stored' = IF graph.kind[at] \in LocalStores
                        THEN [stored EXCEPT ![LocalOf(graph.kind[at])] = at] ELSE stored
        /\ graph' = graph
    BY <1>5 DEF ExecuteNode
  <2>4. Nodes' = Nodes /\ Cells' = Cells
    BY <2>3 DEF Nodes, Cells
  <2>5. stored' \in [Locals -> Nodes \cup {0}]
    BY <2>1, <2>3 DEF CodeTypes
  <2> QED  BY <1>1, <2>1, <2>2, <2>3, <2>4, <2>5 DEF CodeTypes, IsMachine, MachineValues
<1>6. CASE UNCHANGED vars
  BY <1>2, <1>6 DEF vars, allocVars, emitVars
<1> QED  BY <1>3, <1>4, <1>5, <1>6 DEF Next, Stopped

LEMMA CodeTypesInvariant == Spec => []CodeTypes
<1>1. Init => CodeTypes
  <2> SUFFICES ASSUME Init PROVE CodeTypes
    OBVIOUS
  <2> QED  BY AllocationStarts, EntryIs DEF Init, CodeTypes
<1> QED  BY <1>1, CodeTypesStep, PTL DEF Spec

(* The machine that runs the emitted code never reads or writes a cell     *)
(* outside its frame, and every register and cell holds the value of a     *)
(* node, an argument or junk: for every graph and every pool of registers. *)
THEOREM CodeTypesHold == Spec => []TypeOK
<1>1. CodeTypes => TypeOK
  BY DEF CodeTypes, Allocation, AllocInv, TypeInv, TypeOK, IsMachine
<1> QED  BY <1>1, CodeTypesInvariant, PTL

-----------------------------------------------------------------------------
(***************************************************************************)
(* The emitted code is right: where no node takes a register that is in    *)
(* use, every node finds its operands and leaves its value at home.  For   *)
(* every graph whose values are defined on every path to their uses, and   *)
(* every pool of registers.                                                *)
(*                                                                         *)
(* The argument: a value that a later node, or a later iteration of a      *)
(* loop, wants lives past every node executed until then; so no node in    *)
(* between has its register or its slot, and it stays where the allocator  *)
(* put it.                                                                 *)
(***************************************************************************)

(* avail[n] are the values that are defined on every path to n, and they   *)
(* include what n reads.                                                   *)
Flows(avail) ==
  /\ avail[1] = {}
  /\ \A n \in Nodes :
       /\ \A v \in avail[n] : v \in Nodes /\ v < n /\ HasValue(v)
       /\ \A i \in Operands(n) : i \in 1 .. 3 /\ In(n, i) \in avail[n]
       /\ \A t \in Targets(n) : avail[t] \subseteq avail[n] \cup {n}

WellFormed == \E avail \in [Nodes -> SUBSET Nodes] : Flows(avail)

-----------------------------------------------------------------------------
(* A value is wanted at n: it has a use from there on, or in the loop that *)
(* n is in.                                                                *)
Wanted(v, n) ==
  \E u \in Nodes :
    /\ UsesOf(u, v) > 0
    /\ u >= n \/ \E h \in Nodes : \E j \in BackEdges(h) : v < h /\ h <= n /\ n <= j /\ h <= u

(* What is wanted after n was wanted at n, and its interval goes on.       *)
LEMMA WantedForward ==
  ASSUME AllocInv, EndInv, phase \notin {"uses", "loops"},
         NEW n \in Nodes, NEW t \in Nodes, n < t, NEW v \in Nodes, v < n, Wanted(v, t)
  PROVE  Wanted(v, n) /\ end[v] > n
<1>0. /\ Nodes \subseteq Nat /\ end \in [Nodes -> Nat]
      /\ \A h \in Nodes : BackEdges(h) \subseteq Nodes
  BY GraphFacts DEF AllocInv, TypeInv, AllocTypeOK, BackEdges
<1>1. PICK u \in Nodes :
        /\ UsesOf(u, v) > 0
        /\ u >= t \/ \E h \in Nodes : \E j \in BackEdges(h) : v < h /\ h <= t /\ t <= j /\ h <= u
  BY DEF Wanted
<1>2. end[v] >= u
  BY <1>1 DEF EndInv
<1>3. n \in Nat /\ t \in Nat /\ u \in Nat /\ v \in Nat /\ end[v] \in Nat
  BY <1>0
<1>4. CASE u >= t
  <2>1. u >= n /\ end[v] > n
    BY <1>2, <1>3, <1>4
  <2> QED  BY <1>1, <2>1 DEF Wanted
<1>5. ASSUME NEW h \in Nodes, NEW j \in BackEdges(h), v < h, h <= t, t <= j, h <= u
      PROVE  Wanted(v, n) /\ end[v] > n
  <2>1. j \in Nat /\ h \in Nat /\ j \in Nodes
    BY <1>0
  <2>2. end[v] > n
    <3>1. CASE u <= j
      <4>1. u \in h .. j
        BY <1>3, <1>5, <2>1, <3>1
      <4>2. end[v] >= j + 1
        BY <1>1, <1>5, <4>1 DEF EndInv
      <4> QED  BY <1>3, <1>5, <2>1, <4>2
    <3>2. CASE u > j
      BY <1>2, <1>3, <1>5, <2>1, <3>2
    <3> QED  BY <1>3, <2>1, <3>1, <3>2
  <2>3. CASE u >= n
    BY <1>1, <2>2, <2>3 DEF Wanted
  <2>4. CASE u < n
    <3>1. v < h /\ h <= n /\ n <= j /\ h <= u
      BY <1>3, <1>5, <2>1, <2>4
    <3> QED  BY <1>1, <2>2, <3>1 DEF Wanted
  <2> QED  BY <1>3, <2>3, <2>4
<1> QED  BY <1>1, <1>4, <1>5

LEMMA WantedAround ==
  ASSUME AllocInv, EndInv, phase \notin {"uses", "loops"},
         NEW n \in Nodes, graph.kind[n] = "Jump", NEW t \in LoopsOf(n),
         NEW v \in Nodes, v < t, Wanted(v, t)
  PROVE  Wanted(v, n) /\ end[v] > n
<1>0. /\ Nodes \subseteq Nat /\ end \in [Nodes -> Nat]
      /\ Size \in Nat /\ Nodes = 1 .. Size
      /\ \A h \in Nodes : BackEdges(h) \subseteq Nodes
  BY GraphFacts DEF AllocInv, TypeInv, AllocTypeOK, BackEdges
<1>1. PICK u \in Nodes :
        /\ UsesOf(u, v) > 0
        /\ u >= t \/ \E h \in Nodes : \E j \in BackEdges(h) : v < h /\ h <= t /\ t <= j /\ h <= u
  BY <1>0 DEF Wanted
<1>2. end[v] >= u
  BY <1>1 DEF EndInv
<1>3. n \in Nat /\ u \in Nat /\ v \in Nat /\ end[v] \in Nat
  BY <1>0
<1>4. t \in Nodes /\ t < n /\ graph.kind[t] = "Loop" /\ t \in Nat
  BY <1>0, <1>3 DEF LoopsOf
<1>5. n \in BackEdges(t)
  BY DEF BackEdges
<1>6. CASE u >= t
  <2>1. v < t /\ t <= n /\ n <= n /\ t <= u
    BY <1>3, <1>4, <1>6
  <2>2. Wanted(v, n)
    BY <1>1, <1>4, <1>5, <2>1 DEF Wanted
  <2>3. end[v] > n
    <3>1. CASE u <= n
      <4>1. u \in t .. n
        BY <1>3, <1>4, <1>6, <3>1
      <4>2. end[v] >= n + 1
        BY <1>1, <1>4, <1>5, <4>1 DEF EndInv
      <4> QED  BY <1>3, <4>2
    <3>2. CASE u > n
      BY <1>2, <1>3, <3>2
    <3> QED  BY <1>3, <3>1, <3>2
  <2> QED  BY <2>2, <2>3
<1>7. ASSUME u < t, NEW h \in Nodes, NEW j \in BackEdges(h), v < h, h <= t, t <= j, h <= u
      PROVE  Wanted(v, n) /\ end[v] > n
  <2>1. j \in Nat /\ h \in Nat /\ j \in Nodes
    BY <1>0
  <2>2. j >= n
    <3> SUFFICES ASSUME j < n PROVE FALSE
      BY <1>3, <2>1
    <3>1. graph.kind[j] = "Jump" /\ h \in LoopsOf(j)
      BY DEF BackEdges
    <3>2. t # j /\ t # h
      BY <1>3, <1>4, <1>7, <2>1, <3>1
    <3>3. t \in h + 1 .. j - 1
      BY <1>4, <1>7, <2>1, <3>2
    <3> QED  BY <1>4, <3>1, <3>3 DEF LoopsOf
  <2>3. v < h /\ h <= n /\ n <= j /\ h <= u
    BY <1>3, <1>4, <1>7, <2>1, <2>2
  <2>4. u \in h .. j
    BY <1>3, <1>4, <1>7, <2>1
  <2>5. end[v] >= j + 1
    BY <1>1, <1>7, <2>4 DEF EndInv
  <2>6. end[v] > n
    BY <1>3, <2>1, <2>2, <2>5
  <2> QED  BY <1>1, <2>3, <2>6 DEF Wanted
<1> QED  BY <1>1, <1>3, <1>4, <1>6, <1>7

LEMMA TargetIs ==
  ASSUME graph \in Graphs, NEW n \in Nodes, NEW t \in Targets(n)
  PROVE  t \in Nodes /\ (n < t \/ (graph.kind[n] = "Jump" /\ t \in LoopsOf(n)))
<1>1. t \in Nodes /\ Nodes \subseteq Nat /\ Size \in Nat
  BY GraphFacts, TargetsAreNodes
<1>2. \A a \in Arms(n) : n < a
  BY <1>1 DEF Arms, Size
<1>3. CASE graph.kind[n] = "If"
  BY <1>1, <1>2, <1>3 DEF Targets
<1>4. CASE graph.kind[n] = "Jump"
  BY <1>1, <1>4 DEF Targets
<1>5. CASE graph.kind[n] \notin {"If", "Jump"}
  <2>1. t = n + 1
    BY <1>5 DEF Targets
  <2> QED  BY <1>1, <2>1
<1> QED  BY <1>3, <1>4, <1>5

LEMMA WantedStays ==
  ASSUME AllocInv, EndInv, phase \notin {"uses", "loops"},
         NEW n \in Nodes, NEW t \in Targets(n),
         NEW v \in Nodes, v < n, v < t, Wanted(v, t)
  PROVE  Wanted(v, n) /\ end[v] > n
<1>1. graph \in Graphs
  BY DEF AllocInv, TypeInv
<1>2. t \in Nodes /\ (n < t \/ (graph.kind[n] = "Jump" /\ t \in LoopsOf(n)))
  BY <1>1, TargetIs
<1> QED  BY <1>2, WantedForward, WantedAround

-----------------------------------------------------------------------------
(* The code of one node, on a machine where its operands are at home.      *)
HomeIn(m, v) == IF reg[v] # NoReg THEN m.regs[reg[v]] = v ELSE m.stack[slot[v]] = v

Ready(m, n) == \A i \in Operands(n) : i \in 1 .. 3 /\ HomeIn(m, In(n, i))

LEMMA LoadedReads ==
  ASSUME Placed, NEW n \in Nodes, NEW m, IsMachine(m), Ready(m, n), ~Disturbs(n)
  PROVE  HasOperands(Loaded(m, n), n)
<1> SUFFICES ASSUME NEW i \in Operands(n) PROVE Loaded(m, n).regs[Source(n, i)] = In(n, i)
  BY DEF HasOperands
<1>1. Source(n, i) \in MachineRegisters /\ HomeIn(m, In(n, i)) /\ i \in 1 .. 3
  BY OperandFacts DEF Ready
<1>2. Loaded(m, n).regs[Source(n, i)] =
        IF Spilled(n, Source(n, i)) = {} THEN m.regs[Source(n, i)]
        ELSE m.stack[slot[In(n, CHOOSE k \in Spilled(n, Source(n, i)) : TRUE)]]
  BY <1>1, LoadedIs
<1>3. CASE reg[In(n, i)] # NoReg
  <2>1. Source(n, i) = reg[In(n, i)]
    BY <1>3 DEF Source, Place
  <2>2. reg[In(n, i)] \notin LoadsInto(n)
    BY DEF Disturbs
  <2>3. Spilled(n, Source(n, i)) = {}
    BY <1>1, <2>1, <2>2 DEF LoadsInto
  <2> QED  BY <1>1, <1>2, <1>3, <2>1, <2>3 DEF HomeIn
<1>4. CASE reg[In(n, i)] = NoReg
  <2>1. Source(n, i) = Scratch(i)
    BY <1>4 DEF Source, Place
  <2>2. i \in Spilled(n, Scratch(i))
    BY <1>4 DEF Spilled
  <2>3. PICK k \in Spilled(n, Scratch(i)) : k = CHOOSE j \in Spilled(n, Scratch(i)) : TRUE
    BY <2>2
  <2>4. k \in 1 .. 3 /\ Scratch(k) = Scratch(i)
    BY DEF Spilled, Ready
  <2>5. k = i
    BY <1>1, <2>4 DEF Scratch
  <2> QED  BY <1>1, <1>2, <1>4, <2>1, <2>2, <2>3, <2>5 DEF HomeIn
<1> QED  BY <1>3, <1>4

LEMMA SaveIsHome ==
  ASSUME Placed, NEW n \in Nodes, NEW a, IsMachine(a), a.regs[Dst(n)] = n
  PROVE  HomeIn(Save(a, n), n)
<1>1. Dst(n) \in MachineRegisters /\ (slot[n] # NoSlot => slot[n] \in Cells)
  BY NodeFacts
<1>2. CASE reg[n] # NoReg
  <2>1. slot[n] = NoSlot /\ Dst(n) = reg[n]
    BY <1>2 DEF Placed, HasHome, Dst, Place
  <2> QED  BY <1>2, <2>1 DEF Save, HomeIn
<1>3. CASE reg[n] = NoReg
  <2>1. slot[n] # NoSlot
    BY <1>3 DEF Placed, HasHome, NoSlot
  <2>2. Save(a, n).stack[slot[n]] = n
    BY <1>1, <2>1, StoreIs DEF Save
  <2> QED  BY <1>3, <2>2 DEF HomeIn
<1> QED  BY <1>2, <1>3

LEMMA PutSaved ==
  ASSUME Placed, NEW n \in Nodes, NEW a, IsMachine(a)
  PROVE  HomeIn(Save(Put(a, Dst(n), n), n), n)
<1>1. Dst(n) \in MachineRegisters /\ n \in MachineValues
  BY NodeFacts DEF MachineValues
<1>2. IsMachine(Put(a, Dst(n), n)) /\ Put(a, Dst(n), n).regs[Dst(n)] = n
  BY <1>1, PutIs
<1> QED  BY <1>2, SaveIsHome

LEMMA DirectIsRight ==
  ASSUME Placed, NEW n \in Nodes, NEW m, IsMachine(m), Ready(m, n), ~Disturbs(n)
  PROVE  HomeIn(Direct(m, n), n)
<1>1. Result(n, HasOperands(Loaded(m, n), n)) = n
  BY LoadedReads DEF Result
<1>2. IsMachine(Loaded(m, n))
  BY LoadedIs
<1> QED  BY <1>1, <1>2, PutSaved DEF Direct

LEMMA CombinedIsRight ==
  ASSUME Placed, NEW n \in Nodes, NEW m, IsMachine(m), Ready(m, n), ~Disturbs(n),
         1 \in Operands(n), 2 \in Operands(n), ~Overlaps(n)
  PROVE  HomeIn(Combined(Moved(m, n), n, Source(n, 2)), n)
<1>1. /\ Source(n, 1) \in MachineRegisters /\ Source(n, 2) \in MachineRegisters
      /\ Dst(n) \in MachineRegisters
  BY OperandFacts, NodeFacts
<1> DEFINE a == Loaded(m, n)
           b == Put(a, Dst(n), a.regs[Source(n, 1)])
<1>2. /\ IsMachine(a) /\ a.regs[Source(n, 1)] = In(n, 1) /\ a.regs[Source(n, 2)] = In(n, 2)
  BY LoadedReads, LoadedIs DEF HasOperands
<1> HIDE DEF a
<1>3. a.regs[Source(n, 1)] \in MachineValues
  BY <1>1, <1>2, ReadsValues
<1>4. /\ IsMachine(b) /\ b.regs[Dst(n)] = In(n, 1)
      /\ \A q \in MachineRegisters : q # Dst(n) => b.regs[q] = a.regs[q]
  BY <1>1, <1>2, <1>3, PutIs
<1>5. b = Moved(m, n)
  BY DEF Moved, Mov, a
<1> HIDE DEF b
<1>6. b.regs[Source(n, 2)] = In(n, 2)
  <2>1. CASE Source(n, 2) = Dst(n)
    <3>1. Source(n, 1) = Source(n, 2)
      BY <2>1 DEF Overlaps
    <3> QED  BY <1>2, <1>4, <2>1, <3>1
  <2>2. CASE Source(n, 2) # Dst(n)
    BY <1>1, <1>2, <1>4, <2>2
  <2> QED  BY <2>1, <2>2
<1>7. HomeIn(Combined(b, n, Source(n, 2)), n)
  BY <1>4, <1>6, PutSaved DEF Combined, Result
<1> QED  BY <1>5, <1>7

LEMMA CompareIsRight ==
  ASSUME Placed, NEW n \in Nodes, NEW m, IsMachine(m), Ready(m, n), ~Disturbs(n)
  PROVE  HomeIn(Compare(m, n), n)
<1>1. Result(n, HasOperands(Loaded(m, n), n)) = n
  BY LoadedReads DEF Result
<1>2. IsMachine(Loaded(m, n)) /\ "rdx" \in MachineRegisters /\ n \in MachineValues
  BY LoadedIs, NodeFacts DEF MachineValues
<1>3. IsMachine(Put(Loaded(m, n), "rdx", n)) /\ Put(Loaded(m, n), "rdx", n).regs["rdx"] = n
  BY <1>2, PutIs
<1> QED  BY <1>1, <1>3, PutSaved DEF Compare, Mov

LEMMA DivideIsRight ==
  ASSUME Placed, NEW n \in Nodes, NEW m, IsMachine(m), Ready(m, n), ~Disturbs(n),
         graph.kind[n] \in {"Div", "Mod"}, 1 \in Operands(n), 2 \in Operands(n),
         NEW result \in {"rax", "rdx"}, NEW other \in {"rax", "rdx"}
  PROVE  HomeIn(Divide(m, n, result, other), n)
<1> DEFINE a == Loaded(m, n)
           extended == Put(a, "rdx", Junk)
           right == extended.regs["rax"] = In(n, 1) /\ extended.regs[Source(n, 2)] = In(n, 2)
           b == Put(extended, other, Junk)
           c == Put(b, result, n)
<1>1. Source(n, 1) = "rax" /\ Source(n, 2) # "rdx"
  BY DEF Disturbs
<1>2. /\ Source(n, 2) \in MachineRegisters /\ {"rax", "rdx"} \subseteq MachineRegisters
      /\ Junk \in MachineValues /\ n \in MachineValues
      /\ result \in MachineRegisters /\ other \in MachineRegisters
  BY OperandFacts, NodeFacts DEF MachineValues
<1>3. IsMachine(a) /\ a.regs["rax"] = In(n, 1) /\ a.regs[Source(n, 2)] = In(n, 2)
  BY <1>1, LoadedReads, LoadedIs DEF HasOperands
<1>4. Divide(m, n, result, other) =
        Save(Mov(Put(b, result, Result(n, right)), Dst(n), result), n)
  BY DEF Divide
<1> HIDE DEF a
<1>5. IsMachine(extended) /\ \A q \in MachineRegisters : q # "rdx" => extended.regs[q] = a.regs[q]
  <2>1. "rdx" \in MachineRegisters /\ Junk \in MachineValues
    BY <1>2
  <2>2. IsMachine(a)
    BY <1>3
  <2> QED  BY <2>1, <2>2, PutIs
<1>6. right
  BY <1>1, <1>2, <1>3, <1>5
<1> HIDE DEF right, extended
<1>7. IsMachine(b)
  BY <1>2, <1>5, PutIs
<1> HIDE DEF b
<1>8. IsMachine(c) /\ c.regs[result] = n
  BY <1>2, <1>7, PutIs
<1>9. c = Put(b, result, Result(n, right))
  BY <1>6 DEF Result
<1> HIDE DEF c
<1>10. HomeIn(Save(Mov(c, Dst(n), result), n), n)
  BY <1>8, PutSaved DEF Mov
<1> QED  BY <1>4, <1>9, <1>10

LEMMA SinkIsRight ==
  ASSUME Placed, NEW n \in Nodes, NEW m, IsMachine(m), Ready(m, n), ~Disturbs(n)
  PROVE  IsMachine(Sink(m, n)) /\ Sink(m, n).regs[Out] = n
<1>1. Result(n, HasOperands(Loaded(m, n), n)) = n
  BY LoadedReads DEF Result
<1>2. IsMachine(Loaded(m, n)) /\ Out \in MachineRegisters /\ n \in MachineValues
  BY LoadedIs, NodeFacts DEF MachineValues
<1> QED  BY <1>1, <1>2, PutIs DEF Sink

(* The argument or the local that n reads is still there.                  *)
Provided(m, n) ==
  LET k == graph.kind[n]
  IN /\ k \in ArgumentLoads => m.regs[ArgReg(k)] = ArgumentIn(ArgReg(k))
     /\ k \in LocalLoads => m.stack[LocalCell(LocalOf(k))] = stored[LocalOf(k)]

LEMMA ValueIsRight ==
  ASSUME Placed, NEW n \in Nodes, NEW m, IsMachine(m), Ready(m, n), Provided(m, n),
         ~Disturbs(n), ~Rejected(n), HasValue(n)
  PROVE  HomeIn(Run(m, n), n)
<1> DEFINE k == graph.kind[n]
<1>1. /\ k \in Emitted \cup {"IsInt"}
      /\ k = "ConstNull" => reg[n] # NoReg
      /\ k = "IsInt" => reg[n] # NoReg
      /\ k \in {"Add", "And", "Shl"} => ~Overlaps(n)
      /\ k = "Shl" => Source(n, 2) = "rcx"
  BY DEF Disturbs
<1>2. CASE k \in Directs \cup {"ConstNull"}
  BY <1>1, <1>2, DirectIsRight, RunIs
<1>3. CASE k = "IsInt"
  <2>1. Dst(n) \in MachineRegisters /\ n \in MachineValues /\ Dst(n) = reg[n]
    BY <1>1, <1>3, NodeFacts DEF MachineValues, Dst, Place
  <2>2. Put(m, Dst(n), n).regs[Dst(n)] = n
    BY <2>1, PutIs
  <2> QED  BY <1>1, <1>3, <2>1, <2>2, RunIs DEF HomeIn
<1>4. CASE k \in Binary
  <2>1. 1 \in Operands(n) /\ 2 \in Operands(n)
    BY <1>4, TwoOperands
  <2>2. CASE k \in {"Add", "And", "Shl"}
    <3>1. Run(m, n) = Combined(Moved(m, n), n, Source(n, 2))
      BY <1>1, <2>2, RunIs DEF Arithmetic
    <3> QED  BY <1>1, <2>1, <2>2, <3>1, CombinedIsRight
  <2>3. CASE k = "Eq"
    BY <2>3, CompareIsRight, RunIs
  <2>4. CASE k \in {"Div", "Mod"}
    BY <2>1, <2>4, DivideIsRight, RunIs
  <2> QED  BY <1>4, <2>2, <2>3, <2>4 DEF Binary
<1>5. CASE k \in ArgumentLoads
  <2>1. Run(m, n) = Save(Put(m, Dst(n), n), n)
    BY <1>5, RunIs DEF LoadArgument, Result, Provided
  <2> QED  BY <2>1, PutSaved
<1>6. CASE k \in LocalLoads
  <2>1. Run(m, n) = Save(Put(m, Dst(n), n), n)
    BY <1>6, RunIs DEF LoadLocal, Result, Provided
  <2> QED  BY <2>1, PutSaved
<1> QED  BY <1>1, <1>2, <1>3, <1>4, <1>5, <1>6 DEF Emitted, Binary

LEMMA ReadIsRight ==
  ASSUME Placed, NEW n \in Nodes, NEW m, IsMachine(m), Ready(m, n), ~Disturbs(n),
         graph.kind[n] \in Sinks
  PROVE  /\ Run(m, n).regs[Out] = n
         /\ graph.kind[n] \in LocalStores => Run(m, n).stack[LocalCell(LocalOf(graph.kind[n]))] = n
<1> DEFINE k == graph.kind[n]
<1>1. IsMachine(Sink(m, n)) /\ Sink(m, n).regs[Out] = n
  BY SinkIsRight
<1>2. {"rdi", Out} \subseteq MachineRegisters /\ Out # "rdi" /\ Junk \in MachineValues
  BY NodeFacts DEF Out
<1>3. CASE k \in LocalStores
  <2>1. LocalCell(LocalOf(k)) \in Cells
    BY DEF Placed, LocalOf, Locals
  <2>2. Run(m, n) = Store(Sink(m, n), LocalCell(LocalOf(k)), Out)
    BY <1>3, RunIs
  <2> QED  BY <1>1, <1>2, <2>1, <2>2, StoreIs
<1>4. CASE k = "StArg"
  <2>1. Run(m, n) = Put(Sink(m, n), "rdi", Junk)
    BY <1>4, RunIs
  <2>2. Run(m, n).regs[Out] = n
    BY <1>1, <1>2, <2>1, PutIs
  <2> QED  BY <1>4, <2>2 DEF LocalStores
<1>5. CASE k \in Sinks \ (LocalStores \cup {"StArg"})
  BY <1>1, <1>5, RunIs
<1> QED  BY <1>3, <1>4, <1>5

(* A value whose interval goes on past n stays at home.                    *)
LEMMA HomeStays ==
  ASSUME Placed, NoSharedRegister, end \in [Nodes -> Nat],
         NEW n \in Nodes, ~Disturbs(n), NEW v \in Nodes, v < n, end[v] > n,
         NEW m, HomeIn(m, v), NEW a, Keeps(m, a, n)
  PROVE  HomeIn(a, v)
<1>1. n \in Nat /\ v \in Nat /\ end[v] \in Nat
  BY GraphFacts DEF Placed
<1>2. CASE reg[v] # NoReg
  <2>1. reg[v] \in Registers /\ reg[v] \in MachineRegisters
    BY <1>2 DEF Placed, MachineRegisters
  <2>2. reg[v] # Out
    BY <2>1, OutIsNoRegister
  <2>3. reg[v] # reg[n]
    BY <1>1, <1>2 DEF NoSharedRegister
  <2>4. v \in 1 .. n - 1
    BY <1>1, GraphFacts DEF Placed
  <2>5. reg[v] \notin Takes(n) \ {reg[n]}
    BY <2>4 DEF Disturbs
  <2>6. reg[v] \in MachineRegisters \ MayWrite(n)
    BY <2>1, <2>2, <2>3, <2>5 DEF MayWrite, Writes
  <2> QED  BY <1>2, <2>6 DEF HomeIn, Keeps
<1>3. CASE reg[v] = NoReg
  <2>1. slot[v] > 0 /\ slot[v] \in Cells
    BY <1>3 DEF Placed, HasHome
  <2>2. v # n
    BY <1>1
  <2>3. slot[n] # NoSlot => slot[n] # slot[v]
    BY <2>1, <2>2 DEF Placed, HasHome
  <2>4. LocalCell(LocalOf(graph.kind[n])) # slot[v]
    BY DEF Placed, LocalOf, Locals
  <2>5. slot[v] \in Cells \ StoresTo(n)
    BY <2>1, <2>3, <2>4 DEF StoresTo
  <2> QED  BY <1>3, <2>5 DEF HomeIn, Keeps
<1> QED  BY <1>2, <1>3

-----------------------------------------------------------------------------
(* The inductive invariant.                                                *)
Undisturbed == \A n \in Nodes : ~Disturbs(n)

(* No node that may have been executed writes the register.                *)
Untouched(r) ==
  \A v \in Nodes : (v < at \/ \E h \in 1 .. at : graph.kind[h] = "Loop") => r \notin Writes(v)

Right(avail) ==
  /\ phase = "running" =>
       /\ \A v \in avail[at] : Wanted(v, at) => HomeIn(machine, v)
       /\ \A r \in ArgumentRegs : Untouched(r) => machine.regs[r] = ArgumentIn(r)
       /\ \A l \in Locals : machine.stack[LocalCell(l)] = stored[l]
  /\ last # 0 => LastIsRight

RightInv ==
  /\ CodeTypes
  /\ phase \notin AllocPhases /\ Undisturbed =>
       \A avail \in [Nodes -> SUBSET Nodes] : Flows(avail) => Right(avail)

LEMMA SameFlows ==
  ASSUME Same, NEW avail
  PROVE  /\ Flows(avail)' <=> Flows(avail)
         /\ Undisturbed' <=> Undisturbed
         /\ \A v, n : Wanted(v, n)' <=> Wanted(v, n)
         /\ \A m, v : HomeIn(m, v) <=>
              (IF reg'[v] # NoReg THEN m.regs[reg'[v]] = v ELSE m.stack[slot'[v]] = v)
<1>1. /\ Nodes' = Nodes
      /\ \A n : Operands(n)' = Operands(n) /\ HasValue(n)' = HasValue(n)
      /\ \A n, i : In(n, i)' = In(n, i)
      /\ \A n : Targets(n)' = Targets(n)
      /\ \A u, v : UsesOf(u, v)' = UsesOf(u, v)
  BY SameGraph
<1>2. Flows(avail)' <=> Flows(avail)
  BY <1>1 DEF Flows
<1>3. Undisturbed' <=> Undisturbed
  BY <1>1, SameCode DEF Undisturbed
<1>4. \A h : BackEdges(h)' = BackEdges(h)
  BY <1>1 DEF Same, BackEdges, LoopsOf
<1>5. \A v, n : Wanted(v, n)' <=> Wanted(v, n)
  BY <1>1, <1>4 DEF Wanted
<1>6. \A m, v : HomeIn(m, v) <=>
        (IF reg'[v] # NoReg THEN m.regs[reg'[v]] = v ELSE m.stack[slot'[v]] = v)
  BY DEF Same, HomeIn
<1> QED  BY <1>2, <1>3, <1>5, <1>6

(* What a node reads is wanted at it.                                      *)
LEMMA OperandsAreReady ==
  ASSUME Placed, NEW n \in Nodes, NEW avail, Flows(avail), NEW m,
         \A v \in avail[n] : Wanted(v, n) => HomeIn(m, v)
  PROVE  Ready(m, n)
<1> SUFFICES ASSUME NEW i \in Operands(n) PROVE i \in 1 .. 3 /\ HomeIn(m, In(n, i))
  BY DEF Ready
<1>1. i \in 1 .. 3 /\ In(n, i) \in avail[n]
  BY DEF Flows
<1>2. UsesOf(n, In(n, i)) > 0 /\ n >= n
  BY OperandFacts, GraphFacts DEF Placed
<1>3. Wanted(In(n, i), n)
  BY <1>2 DEF Wanted
<1> QED  BY <1>1, <1>3

(* Argument registers: what may have been executed at the target of n was  *)
(* n, or may have been executed at n.                                      *)
LEMMA UntouchedBefore ==
  ASSUME graph \in Graphs, NEW n \in Nodes, NEW t \in Targets(n), NEW r,
         \A v \in Nodes : (v < t \/ \E h \in 1 .. t : graph.kind[h] = "Loop") => r \notin Writes(v)
  PROVE  /\ \A v \in Nodes :
              (v < n \/ \E h \in 1 .. n : graph.kind[h] = "Loop") => r \notin Writes(v)
         /\ r \notin Writes(n)
<1>1. /\ t \in Nodes /\ Nodes \subseteq Nat /\ Size \in Nat /\ Nodes = 1 .. Size
      /\ n < t \/ (graph.kind[n] = "Jump" /\ t \in LoopsOf(n))
  BY GraphFacts, TargetIs
<1>2. CASE n < t
  <2>1. \A v \in Nodes : v < n => v < t
    BY <1>1, <1>2
  <2>2. \A h \in 1 .. n : h \in 1 .. t
    BY <1>1, <1>2
  <2> QED  BY <1>2, <2>1, <2>2
<1>3. CASE t \in LoopsOf(n)
  <2>1. graph.kind[t] = "Loop" /\ t \in 1 .. t
    BY <1>1, <1>3 DEF LoopsOf
  <2> QED  BY <2>1
<1> QED  BY <1>1, <1>2, <1>3

LEMMA ExecutionIsRight ==
  ASSUME CodeTypes, ExecuteNode, Undisturbed,
         NEW avail \in [Nodes -> SUBSET Nodes], Flows(avail), Right(avail)
  PROVE  Right(avail)'
<1> DEFINE k == graph.kind[at]
           later == Run(machine, at)
<1>1. /\ Placed /\ at \in Nodes /\ IsMachine(machine) /\ phase = "running"
      /\ ~Rejected(at) /\ ~Disturbs(at)
      /\ AllocInv /\ EndInv /\ NoSharedRegister /\ end \in [Nodes -> Nat] /\ graph \in Graphs
      /\ stored \in [Locals -> Nodes \cup {0}]
  BY Placement DEF ExecuteNode, CodeTypes, Allocation, AllocPhases, AllocInv, TypeInv, AllocTypeOK,
                   WalkInv, Undisturbed
<1>2. /\ machine' = later /\ last' = at /\ Same
      /\ stored' = IF k \in LocalStores THEN [stored EXCEPT ![LocalOf(k)] = at] ELSE stored
      /\ phase' = "running" => at' \in Targets(at)
  BY DEF ExecuteNode, Same
<1>3. /\ \A v \in avail[at] : Wanted(v, at) => HomeIn(machine, v)
      /\ \A r \in ArgumentRegs : Untouched(r) => machine.regs[r] = ArgumentIn(r)
      /\ \A l \in Locals : machine.stack[LocalCell(l)] = stored[l]
  BY <1>1 DEF Right
<1>4. Ready(machine, at) /\ Keeps(machine, later, at)
  BY <1>1, <1>3, OperandsAreReady, RunKeeps
<1>5. Provided(machine, at)
  <2>1. ASSUME k \in ArgumentLoads PROVE machine.regs[ArgReg(k)] = ArgumentIn(ArgReg(k))
    <3>1. ArgReg(k) \in ArgumentRegs
      BY DEF ArgReg, ArgumentRegs
    <3>2. Untouched(ArgReg(k))
      BY <1>1, <2>1 DEF Disturbs, ArgumentIsLost, Untouched
    <3> QED  BY <1>3, <3>1, <3>2
  <2>2. LocalOf(k) \in Locals
    BY DEF LocalOf, Locals
  <2> QED  BY <1>3, <2>1, <2>2 DEF Provided
<1>6. HasValue(at) => HomeIn(later, at)
  BY <1>1, <1>4, <1>5, ValueIsRight
<1>7. k \in Sinks => /\ later.regs[Out] = at
                     /\ k \in LocalStores => later.stack[LocalCell(LocalOf(k))] = at
  BY <1>1, <1>4, ReadIsRight
<1> HIDE DEF later
<1>8. /\ graph' = graph
      /\ \A v : HomeIn(later, v) <=> HomeIn(machine, v)'
      /\ \A v : HomeIn(later, v) <=> IsHome(v)'
  BY <1>2 DEF Same, HomeIn, IsHome
<1>9. LastIsRight'
  BY <1>2, <1>6, <1>7, <1>8 DEF LastIsRight, HasValue
<1> SUFFICES ASSUME phase' = "running"
             PROVE  /\ \A v \in avail[at'] : Wanted(v, at)' => HomeIn(machine, v)'
                    /\ \A r \in ArgumentRegs : Untouched(r)' => machine'.regs[r] = ArgumentIn(r)
                    /\ \A l \in Locals : machine'.stack[LocalCell(l)'] = stored'[l]
  BY <1>9 DEF Right
<1>10. at' \in Targets(at) /\ at' \in Nodes
  BY <1>1, <1>2, TargetIs
<1>11. ASSUME NEW v \in avail[at'], Wanted(v, at)' PROVE HomeIn(machine, v)'
  <2>1. v \in Nodes /\ v < at' /\ HasValue(v) /\ v \in avail[at] \cup {at}
    BY <1>1, <1>10 DEF Flows
  <2>2. Wanted(v, at')
    BY <1>2, <1>11, SameFlows
  <2>3. CASE v = at
    BY <1>6, <1>8, <2>1, <2>3
  <2>4. CASE v \in avail[at]
    <3>1. v < at
      BY <1>1, <2>4 DEF Flows
    <3>2. Wanted(v, at) /\ end[v] > at
      BY <1>1, <1>10, <2>1, <2>2, <3>1, WantedStays
    <3>3. HomeIn(machine, v)
      BY <1>3, <2>4, <3>2
    <3>4. HomeIn(later, v)
      BY <1>1, <1>4, <2>1, <3>1, <3>2, <3>3, HomeStays
    <3> QED  BY <1>8, <3>4
  <2> QED  BY <2>1, <2>3, <2>4
<1>12. ASSUME NEW r \in ArgumentRegs, Untouched(r)' PROVE machine'.regs[r] = ArgumentIn(r)
  <2>1. \A v \in Nodes : (v < at' \/ \E h \in 1 .. at' : graph.kind[h] = "Loop") => r \notin Writes(v)
    BY <1>2, <1>8, <1>12, SameGraph, SameCode DEF Untouched
  <2>2. Untouched(r) /\ r \notin Writes(at)
    BY <1>1, <1>10, <2>1, UntouchedBefore DEF Untouched
  <2>3. r \in MachineRegisters \ MayWrite(at)
    BY <2>2 DEF MayWrite, ArgumentRegs, MachineRegisters, Out
  <2> QED  BY <1>2, <1>3, <1>4, <2>2, <2>3 DEF Keeps
<1>13. ASSUME NEW l \in Locals PROVE machine'.stack[LocalCell(l)'] = stored'[l]
  <2>1. LocalCell(l)' = LocalCell(l) /\ LocalCell(l) \in Cells /\ LocalCell(l) # slot[at]
    BY <1>1, <1>2, SameHomes DEF Placed
  <2>2. CASE k \in LocalStores /\ LocalOf(k) = l
    BY <1>1, <1>2, <1>7, <2>1, <2>2 DEF Sinks
  <2>3. CASE ~(k \in LocalStores /\ LocalOf(k) = l)
    <3>1. k \in LocalStores => LocalCell(LocalOf(k)) # LocalCell(l)
      BY <1>1, <2>3 DEF Placed, LocalOf, Locals
    <3>2. LocalCell(l) \in Cells \ StoresTo(at)
      BY <2>1, <3>1 DEF StoresTo
    <3>3. later.stack[LocalCell(l)] = machine.stack[LocalCell(l)]
      BY <1>4, <3>2 DEF Keeps
    <3>4. stored'[l] = stored[l]
      BY <1>1, <1>2, <2>3
    <3> QED  BY <1>2, <1>3, <2>1, <3>3, <3>4
  <2> QED  BY <2>2, <2>3
<1> QED  BY <1>11, <1>12, <1>13

LEMMA RightStep == RightInv /\ [Next]_vars => RightInv'
<1> SUFFICES ASSUME RightInv, [Next]_vars PROVE RightInv'
  OBVIOUS
<1>1. CodeTypes /\ CodeTypes'
  BY CodeTypesStep DEF RightInv
<1> SUFFICES ASSUME phase' \notin AllocPhases, Undisturbed',
                    NEW avail \in [Nodes' -> SUBSET Nodes'], Flows(avail)'
             PROVE  Right(avail)'
  BY <1>1 DEF RightInv
<1>2. CASE Allocate
  <2>1. phase \in AllocPhases /\ AllocNext /\ graph' = graph
    BY <1>2 DEF Allocate, AllocNext, AddUses, ExtendOverLoop, TakeFreeReg, SpillItself, SpillVictim,
                AssignSlot, AllocPhases
  <2>2. HomeInv'
    BY <1>1, <2>1, HomeStep DEF CodeTypes, Allocation
  <2> QED  BY <2>2 DEF HomeInv
<1>3. CASE Emit
  <2>1. /\ phase = "allocated" /\ Same /\ UNCHANGED <<at, machine, stored, last>>
        /\ graph \in Graphs /\ at = 1 /\ last = 0
        /\ machine = Entry /\ stored = [l \in Locals |-> Junk]
    BY <1>1, <1>3 DEF Emit, emitVars, Same, CodeTypes, Allocation, AllocPhases, AllocInv, TypeInv
  <2>2. Flows(avail)
    BY <2>1, SameFlows
  <2>3. avail[at] = {}
    BY <2>1, <2>2 DEF Flows
  <2>4. \A r \in ArgumentRegs : machine.regs[r] = ArgumentIn(r)
    <3>1. ArgumentRegs \subseteq MachineRegisters
      BY DEF ArgumentRegs, MachineRegisters
    <3> QED  BY <2>1, <3>1 DEF Entry
  <2>5. \A l \in Locals : machine.stack[LocalCell(l)] = stored[l]
    BY <2>1, CellsAre DEF Entry
  <2>6. \A l : LocalCell(l)' = LocalCell(l)
    BY <2>1, SameHomes
  <2>7. \A v \in avail[at'] : Wanted(v, at)' => HomeIn(machine, v)'
    BY <2>1, <2>3
  <2>8. \A r \in ArgumentRegs : Untouched(r)' => machine'.regs[r] = ArgumentIn(r)
    BY <2>1, <2>4
  <2>9. \A l \in Locals : machine'.stack[LocalCell(l)'] = stored'[l]
    BY <2>1, <2>5, <2>6
  <2> QED  BY <2>1, <2>7, <2>8, <2>9 DEF Right
<1>4. CASE ExecuteNode
  <2>1. Same /\ phase \notin AllocPhases
    BY <1>4 DEF ExecuteNode, Same, AllocPhases
  <2>2. Undisturbed /\ Flows(avail) /\ Nodes' = Nodes
    BY <2>1, SameFlows, SameGraph
  <2>3. Right(avail)
    BY <2>1, <2>2 DEF RightInv
  <2> QED  BY <1>1, <1>4, <2>2, <2>3, ExecutionIsRight
<1>5. CASE UNCHANGED vars
  <2>1. UNCHANGED <<graph, phase, at, end, reg, slot, machine, stored, last>>
    BY <1>5 DEF vars, allocVars, emitVars
  <2>2. Same /\ phase \notin AllocPhases
    BY <2>1 DEF Same
  <2>3. Undisturbed /\ Flows(avail) /\ Nodes' = Nodes
    BY <2>2, SameFlows, SameGraph
  <2>4. Right(avail)
    BY <2>2, <2>3 DEF RightInv
  <2>5. LastIsRight' <=> LastIsRight
    BY <2>1 DEF LastIsRight, IsHome
  <2>6. \A v : Wanted(v, at)' <=> Wanted(v, at)
    BY <2>1, <2>2, SameFlows
  <2>7. \A v : HomeIn(machine, v)' = HomeIn(machine, v)
    BY <2>1 DEF HomeIn
  <2>8. \A r : Untouched(r)' = Untouched(r)
    BY <2>1, <2>2, <2>3, SameCode DEF Untouched
  <2>9. \A l : LocalCell(l)' = LocalCell(l)
    BY <2>2, SameHomes
  <2> QED  BY <2>1, <2>4, <2>5, <2>6, <2>7, <2>8, <2>9 DEF Right
<1> QED  BY <1>2, <1>3, <1>4, <1>5 DEF Next, Stopped

LEMMA RightInvariant == Spec => []RightInv
<1>1. Init => RightInv
  <2> SUFFICES ASSUME Init PROVE RightInv
    OBVIOUS
  <2>1. CodeTypes
    BY AllocationStarts, EntryIs DEF Init, CodeTypes
  <2>2. phase \in AllocPhases
    BY DEF Init, AllocInit, AllocPhases
  <2> QED  BY <2>1, <2>2 DEF RightInv
<1> QED  BY <1>1, RightStep, PTL DEF Spec

(* For every well-formed graph and every pool of registers: where the      *)
(* registers the emitter takes for itself are free, the node executed last *)
(* has read its operands and left its value at home, through spills, loops *)
(* and locals.                                                             *)
THEOREM UndisturbedCode == Spec => [](WellFormed => UndisturbedCodeIsRight)
<1>1. RightInv => (WellFormed => UndisturbedCodeIsRight)
  <2> SUFFICES ASSUME RightInv, NEW avail \in [Nodes -> SUBSET Nodes], Flows(avail),
                      last # 0, Undisturbed
               PROVE  LastIsRight
    BY DEF WellFormed, UndisturbedCodeIsRight, Undisturbed
  <2>1. phase \notin AllocPhases
    BY DEF RightInv, CodeTypes, Allocation
  <2> QED  BY <2>1 DEF RightInv, Right
<1> QED  BY <1>1, RightInvariant, PTL
=============================================================================
