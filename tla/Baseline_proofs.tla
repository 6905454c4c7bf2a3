--------------------------- MODULE Baseline_proofs ---------------------------
(* The first tier means what granit means: for a method without branches, the   *)
(* graph that a lowerer makes computes what the interpreter computes.           *)
EXTENDS Lowering_proofs

-----------------------------------------------------------------------------
(* The layout of a graph up to its first return.                               *)

IsUpTo(f, S, n) ==
  f = [k \in 0..n |-> IF k = 0 THEN <<>> ELSE IF k \in S THEN Append(f[k - 1], k) ELSE f[k - 1]]

LEMMA InOrderIsUpTo ==
  ASSUME NEW S, NEW n \in Nat
  PROVE  \E f : IsUpTo(f, S, n) /\ InOrder(S, n) = f[n]
<1> DEFINE T == {m \in Nat : \E f : IsUpTo(f, S, m)}
<1>1. 0 \in T
  <2> DEFINE f == [k \in 0..0 |-> <<>>]
  <2>1. f = [k \in 0..0 |-> IF k = 0 THEN <<>> ELSE IF k \in S THEN Append(f[k - 1], k) ELSE f[k - 1]]
    OBVIOUS
  <2> QED BY <2>1 DEF IsUpTo
<1>2. ASSUME NEW m \in 0..n - 1, m \in T PROVE m + 1 \in T
  <2>1. PICK f : IsUpTo(f, S, m)
    BY <1>2
  <2> DEFINE h == [k \in 0..m + 1 |-> IF k <= m THEN f[k]
                                       ELSE IF k \in S THEN Append(f[m], k) ELSE f[m]]
             r(k) == IF k = 0 THEN <<>> ELSE IF k \in S THEN Append(h[k - 1], k) ELSE h[k - 1]
  <2>2. ASSUME NEW k \in 0..m + 1 PROVE h[k] = r(k)
    <3>1. CASE k = 0
      BY <2>1, <3>1 DEF IsUpTo
    <3>2. CASE k \in 1..m
      <4>1. k \in 0..m /\ k - 1 \in 0..m /\ k # 0
        BY <3>2
      <4>2. h[k] = f[k] /\ h[k - 1] = f[k - 1]
        BY <4>1
      <4> QED BY <2>1, <4>1, <4>2 DEF IsUpTo
    <3>3. CASE k = m + 1
      <4>1. ~(k <= m) /\ k - 1 = m /\ m \in 0..m + 1 /\ m <= m /\ k # 0
        BY <3>3
      <4>2. h[k - 1] = f[m] /\ h[k] = IF k \in S THEN Append(f[m], k) ELSE f[m]
        BY <4>1
      <4> QED BY <4>1, <4>2
    <3> QED BY <3>1, <3>2, <3>3
  <2>3. h = [k \in 0..m + 1 |-> r(k)]
    <3>1. h = [k \in 0..m + 1 |-> h[k]]
      OBVIOUS
    <3> HIDE DEF h
    <3> QED BY <2>2, <3>1
  <2>4. IsUpTo(h, S, m + 1)
    BY <2>3 DEF IsUpTo
  <2> HIDE DEF h
  <2> QED BY <1>2, <2>4
<1>3. n \in T
  <2> HIDE DEF T
  <2> QED BY <1>1, <1>2, PrefixInduction
<1> DEFINE u == CHOOSE f : IsUpTo(f, S, n)
<1>4. InOrder(S, n) = u[n]
  BY DEF InOrder, IsUpTo
<1>5. IsUpTo(u, S, n)
  BY <1>3
<1> QED BY <1>4, <1>5

(* The numbers of a set, each once and ascending.                               *)
Enumerates(s, T) ==
  /\ s \in Seq(T)
  /\ \A x \in T : \E i \in 1..Len(s) : s[i] = x
  /\ \A i, j \in 1..Len(s) : i < j => s[i] < s[j]

LEMMA AppendEnumerates ==
  ASSUME NEW T, NEW s, Enumerates(s, T), NEW x \in Nat, T \subseteq 1..x - 1
  PROVE  Enumerates(Append(s, x), T \cup {x})
<1> DEFINE h == Append(s, x)
           U == T \cup {x}
<1>1. s \in Seq(U) /\ x \in U /\ Len(s) \in Nat
  BY SeqMonotonic DEF Enumerates
<1>2. /\ h \in Seq(U) /\ Len(h) = Len(s) + 1
      /\ \A i \in 1..Len(s) : h[i] = s[i]
      /\ h[Len(s) + 1] = x
  BY <1>1, AppendProperties
<1> HIDE DEF h
<1>3. \A y \in U : \E i \in 1..Len(h) : h[i] = y
  <2>1. ASSUME NEW y \in T PROVE \E i \in 1..Len(h) : h[i] = y
    <3>1. PICK i \in 1..Len(s) : s[i] = y
      BY DEF Enumerates
    <3>2. i \in 1..Len(h) /\ h[i] = y
      BY <1>1, <1>2, <3>1
    <3> QED BY <3>2
  <2>2. Len(s) + 1 \in 1..Len(h)
    BY <1>1, <1>2
  <2> QED BY <1>2, <2>1, <2>2
<1>4. ASSUME NEW i \in 1..Len(h), NEW j \in 1..Len(h), i < j PROVE h[i] < h[j]
  <2>1. i \in 1..Len(s) /\ (j \in 1..Len(s) \/ j = Len(s) + 1)
    BY <1>1, <1>2, <1>4
  <2>2. h[i] = s[i] /\ s[i] \in T
    BY <1>2, <2>1, ElementOfSeq DEF Enumerates
  <2>3. CASE j \in 1..Len(s)
    <3>1. h[j] = s[j] /\ s[i] < s[j]
      BY <1>2, <1>4, <2>1, <2>3 DEF Enumerates
    <3> QED BY <2>2, <3>1
  <2>4. CASE j = Len(s) + 1
    <3>1. h[j] = x /\ h[i] \in 1..x - 1
      BY <1>2, <2>2, <2>4
    <3> QED BY <3>1
  <2> QED BY <2>1, <2>3, <2>4
<1> QED BY <1>2, <1>3, <1>4 DEF Enumerates, h

LEMMA InOrderEnumerates ==
  ASSUME NEW S, NEW n \in Nat
  PROVE  Enumerates(InOrder(S, n), S \cap (1..n))
<1>1. PICK f : IsUpTo(f, S, n) /\ InOrder(S, n) = f[n]
  BY InOrderIsUpTo
<1> DEFINE T == {k \in 0..n : Enumerates(f[k], S \cap (1..k))}
<1>2. 0 \in T
  <2>1. f[0] = <<>>
    BY <1>1 DEF IsUpTo
  <2>2. S \cap (1..0) = {}
    OBVIOUS
  <2>3. Enumerates(<<>>, {})
    BY DEF Enumerates
  <2> QED BY <2>1, <2>2, <2>3
<1>3. ASSUME NEW k \in 0..n - 1, k \in T PROVE k + 1 \in T
  <2>1. /\ k + 1 \in 0..n /\ k + 1 # 0 /\ (k + 1) - 1 = k
        /\ 1..k + 1 = (1..k) \cup {k + 1} /\ S \cap (1..k) \subseteq 1..(k + 1) - 1
        /\ k + 1 \in Nat
    OBVIOUS
  <2> DEFINE m == k + 1
  <2> HIDE DEF m
  <2>2. f[m] = IF m \in S THEN Append(f[k], m) ELSE f[k]
    BY <1>1, <2>1 DEF IsUpTo, m
  <2>3. Enumerates(f[k], S \cap (1..k))
    BY <1>3
  <2>4. CASE m \in S
    <3>1. S \cap (1..m) = (S \cap (1..k)) \cup {m}
      BY <2>1, <2>4 DEF m
    <3>2. m \in Nat /\ S \cap (1..k) \subseteq 1..m - 1
      BY <2>1 DEF m
    <3>3. Enumerates(f[m], S \cap (1..m))
      BY <2>2, <2>3, <2>4, <3>1, <3>2, AppendEnumerates
    <3> QED BY <2>1, <3>3 DEF m
  <2>5. CASE m \notin S
    <3>1. S \cap (1..m) = S \cap (1..k)
      BY <2>1, <2>5 DEF m
    <3>2. Enumerates(f[m], S \cap (1..m))
      BY <2>2, <2>3, <2>5, <3>1
    <3> QED BY <2>1, <3>2 DEF m
  <2> QED BY <2>4, <2>5
<1>4. n \in T
  <2> HIDE DEF T
  <2> QED BY <1>2, <1>3, PrefixInduction
<1> QED BY <1>1, <1>4

LEMMA InOrderOfPrefix ==
  ASSUME NEW n \in Nat, NEW e \in 0..n
  PROVE  InOrder(1..e, n) = [i \in 1..e |-> i]
<1>1. PICK f : IsUpTo(f, 1..e, n) /\ InOrder(1..e, n) = f[n]
  BY InOrderIsUpTo
<1> DEFINE T == {k \in 0..n : f[k] = [i \in 1..(IF k <= e THEN k ELSE e) |-> i]}
<1>2. 0 \in T
  <2>1. f[0] = <<>> /\ 1..0 = {}
    BY <1>1 DEF IsUpTo
  <2> QED BY <2>1
<1>3. ASSUME NEW k \in 0..n - 1, k \in T PROVE k + 1 \in T
  <2>1. k + 1 \in 0..n /\ k + 1 # 0 /\ (k + 1) - 1 = k
    OBVIOUS
  <2>2. f[k + 1] = IF k + 1 \in 1..e THEN Append(f[k], k + 1) ELSE f[k]
    BY <1>1, <2>1 DEF IsUpTo
  <2>3. CASE k + 1 \in 1..e
    <3>1. f[k] = [i \in 1..k |-> i]
      BY <1>3, <2>3
    <3>2. Append([i \in 1..k |-> i], k + 1) = [i \in 1..k + 1 |-> i]
      OBVIOUS
    <3> QED BY <2>1, <2>2, <2>3, <3>1, <3>2
  <2>4. CASE k + 1 \notin 1..e
    <3>1. f[k] = [i \in 1..e |-> i]
      BY <1>3, <2>4
    <3> QED BY <2>1, <2>2, <2>4, <3>1
  <2> QED BY <2>3, <2>4
<1>4. n \in T
  <2> HIDE DEF T
  <2> QED BY <1>2, <1>3, PrefixInduction
<1> QED BY <1>1, <1>4

(* The first block ends in a return, the only node of it that leaves it.        *)
ReturnsAt(g, e) ==
  /\ LoweredGraph(g)
  /\ e \in 1..Len(g)
  /\ g[e].kind = "Return"
  /\ \A id \in 1..e - 1 : g[id].kind \notin Enders \cup BranchLowered

LEMMA LoweredIsLive ==
  ASSUME NEW g, LoweredGraph(g)
  PROVE  Live(g) = 1..Len(g) /\ Len(g) \in Nat
<1>1. \A id \in 1..Len(g) : "IsDead" \notin g[id].flags
  BY DEF LoweredGraph, LoweredNode
<1> QED BY <1>1 DEF Live, Ids, Dead, Has, LoweredGraph

LEMMA FirstLeaders ==
  ASSUME NEW g, NEW e, ReturnsAt(g, e)
  PROVE  /\ IsLeader(g, 1)
         /\ \A id \in 2..e : ~IsLeader(g, id)
         /\ e + 1 \in 1..Len(g) => IsLeader(g, e + 1)
<1>1. Live(g) = 1..Len(g) /\ Len(g) \in Nat /\ e \in 1..Len(g)
  BY LoweredIsLive DEF ReturnsAt
<1>2. IsLeader(g, 1)
  BY <1>1 DEF IsLeader
<1>3. ASSUME NEW id \in 2..e PROVE ~IsLeader(g, id)
  <2>1. id \in 1..Len(g) /\ id # 1 /\ id - 1 \in 1..e - 1
    BY <1>1
  <2>2. g[id].kind # "Start"
    BY <2>1 DEF ReturnsAt, LoweredGraph, LoweredNode
  <2>3. g[id].kind \notin {"IfTrue", "IfFalse"}
    <3>1. CASE id = e
      BY <3>1 DEF ReturnsAt
    <3>2. CASE id \in 1..e - 1
      BY <3>2 DEF ReturnsAt, BranchLowered
    <3> QED BY <1>1, <3>1, <3>2
  <2>4. g[id].kind \notin {"Region", "Loop"}
    <3>1. g[id].kind \in LoweredKinds
      BY <2>1 DEF ReturnsAt, LoweredGraph, LoweredNode, Nodes
    <3> QED BY <3>1 DEF LoweredKinds, PureLowered, EffectLowered, BranchLowered, IntKinds,
                        EffectOps, ObjectKinds
  <2>5. g[id - 1].kind \notin Enders
    BY <2>1 DEF ReturnsAt
  <2>6. 1 \in Live(g) /\ ~(id <= 1)
    BY <1>1, <2>1
  <2> QED BY <2>2, <2>3, <2>4, <2>5, <2>6 DEF IsLeader, Starters
<1>4. ASSUME e + 1 \in 1..Len(g) PROVE IsLeader(g, e + 1)
  <2>1. e + 1 > 1 /\ (e + 1) - 1 = e /\ "IsDead" \notin g[e].flags
    BY <1>1 DEF ReturnsAt, LoweredGraph, LoweredNode
  <2> DEFINE n == e + 1
  <2>2. n > 1 /\ n - 1 = e
    BY <2>1
  <2> HIDE DEF n
  <2>3. IsLeader(g, n)
    BY <2>1, <2>2 DEF IsLeader, Dead, Has, ReturnsAt, Enders
  <2> QED BY <2>3 DEF n
<1> QED BY <1>2, <1>3, <1>4

LEMMA FirstBlock ==
  ASSUME NEW g, NEW e, ReturnsAt(g, e), NEW bs, bs = BlockStructure(g)
  PROVE  /\ Len(bs) \in Nat \ {0}
         /\ NodesIn(g, bs, 0) = 1..e
         /\ Successors(g, bs, 0) = <<>>
<1> DEFINE L == {id \in Live(g) : IsLeader(g, id)}
<1>1. Live(g) = 1..Len(g) /\ Len(g) \in Nat /\ e \in 1..Len(g)
  BY LoweredIsLive DEF ReturnsAt
<1>2. Enumerates(bs, L)
  <2>1. Enumerates(InOrder(L, Len(g)), L \cap (1..Len(g)))
    <3> HIDE DEF L
    <3> QED BY <1>1, InOrderEnumerates
  <2>2. L \cap (1..Len(g)) = L
    BY <1>1
  <2> QED BY <2>1, <2>2 DEF BlockStructure
<1>3. /\ 1 \in L /\ (\A id \in 2..e : id \notin L)
      /\ e + 1 \in 1..Len(g) => e + 1 \in L
      /\ L \subseteq 1..Len(g)
  BY <1>1, FirstLeaders
<1> HIDE DEF L
<1>4. bs \in Seq(L) /\ Len(bs) \in Nat /\ DOMAIN bs = 1..Len(bs)
      /\ \A i \in 1..Len(bs) : bs[i] \in L /\ bs[i] \in 1..Len(g)
  <2>1. bs \in Seq(L)
    BY <1>2 DEF Enumerates
  <2>2. \A i \in 1..Len(bs) : bs[i] \in L
    BY <2>1, ElementOfSeq
  <2>3. Len(bs) \in Nat /\ DOMAIN bs = 1..Len(bs)
    BY <2>1, LenProperties
  <2> QED BY <1>3, <2>1, <2>2, <2>3
<1>5. 1 \in 1..Len(bs) /\ bs[1] = 1
  <2>1. PICK i \in 1..Len(bs) : bs[i] = 1
    BY <1>2, <1>3 DEF Enumerates
  <2>2. 1 \in 1..Len(bs)
    BY <1>4, <2>1
  <2>3. ~(1 < i)
    <3>1. 1 < i => bs[1] < bs[i]
      BY <1>2, <2>1, <2>2 DEF Enumerates
    <3>2. bs[1] \in 1..Len(g)
      BY <1>4, <2>2
    <3> QED BY <2>1, <3>1, <3>2
  <2> QED BY <1>4, <2>1, <2>2, <2>3
<1>6. \A i \in 2..Len(bs) : bs[i] > e
  <2> SUFFICES ASSUME NEW i \in 2..Len(bs) PROVE bs[i] > e
    OBVIOUS
  <2>1. i \in 1..Len(bs) /\ 1 < i
    BY <1>4
  <2>2. bs[1] < bs[i]
    BY <1>2, <1>5, <2>1 DEF Enumerates
  <2>3. bs[i] \in L /\ bs[i] \in 1..Len(g)
    BY <1>4, <2>1
  <2>4. bs[i] \notin 2..e
    BY <1>3, <2>3
  <2> QED BY <1>1, <1>5, <2>2, <2>3, <2>4
<1>7. \A id \in 1..e : BlockOf(g, bs, id) = 0
  <2> SUFFICES ASSUME NEW id \in 1..e PROVE BlockOf(g, bs, id) = 0
    OBVIOUS
  <2> DEFINE K == {k \in DOMAIN bs : bs[k] <= id}
  <2>1. K = {1}
    <3>1. 1 \in K
      BY <1>4, <1>5
    <3>2. ASSUME NEW k \in K PROVE k = 1
      <4>1. k \in 1..Len(bs) /\ bs[k] <= id /\ bs[k] \in 1..Len(g)
        BY <1>4
      <4>2. ~(k \in 2..Len(bs))
        BY <1>1, <1>6, <4>1
      <4> QED BY <1>4, <4>1, <4>2
    <3> QED BY <3>1, <3>2
  <2>2. Cardinality(K) = 1
    BY <2>1, FS_Singleton
  <2>3. id \in Live(g)
    BY <1>1
  <2> QED BY <2>2, <2>3 DEF BlockOf
<1>8. \A id \in e + 1..Len(g) : BlockOf(g, bs, id) # 0
  <2> SUFFICES ASSUME NEW id \in e + 1..Len(g) PROVE BlockOf(g, bs, id) # 0
    OBVIOUS
  <2> DEFINE K == {k \in DOMAIN bs : bs[k] <= id}
  <2>1. e + 1 \in L
    BY <1>1, <1>3
  <2>2. PICK j \in 1..Len(bs) : bs[j] = e + 1
    BY <1>2, <2>1 DEF Enumerates
  <2>3. j # 1 /\ j \in K /\ 1 \in K
    BY <1>1, <1>4, <1>5, <2>2
  <2>4. IsFiniteSet(K)
    <3>1. IsFiniteSet(1..Len(bs)) /\ K \subseteq 1..Len(bs)
      BY <1>4, FS_Interval
    <3> QED BY <3>1, FS_Subset
  <2> HIDE DEF K
  <2>5. Cardinality({1, j}) = 2
    <3>1. IsFiniteSet({j}) /\ Cardinality({j}) = 1
      BY FS_Singleton
    <3>2. 1 \notin {j} /\ {j} \cup {1} = {1, j}
      BY <2>3
    <3> QED BY <3>1, <3>2, FS_AddElement
  <2>6. Cardinality({1, j}) <= Cardinality(K) /\ Cardinality(K) \in Nat
    <3>1. {1, j} \subseteq K
      BY <2>3
    <3> QED BY <2>4, <3>1, FS_Subset, FS_CardinalityType
  <2>7. id \in Live(g)
    BY <1>1
  <2>8. BlockOf(g, bs, id) = Cardinality(K) - 1
    BY <2>7 DEF BlockOf, K
  <2> QED BY <2>5, <2>6, <2>8
<1>9. NodesIn(g, bs, 0) = 1..e
  BY <1>1, <1>7, <1>8 DEF NodesIn
<1>10. LastOf(g, bs, 0) = e
  <2>1. e \in 1..e /\ \A x \in 1..e : x <= e
    BY <1>1
  <2>2. \A m \in 1..e : (\A x \in 1..e : x <= m) => m = e
    BY <1>1
  <2> QED BY <1>9, <2>1, <2>2 DEF LastOf, MaxOf
<1>11. Successors(g, bs, 0) = <<>>
  BY <1>10 DEF Successors, ReturnsAt
<1> QED BY <1>4, <1>5, <1>9, <1>11

(* The walk from a block without successors visits nothing else.               *)
IsWalk(f, g, bs, n) ==
  f = [s \in SUBSET (1..n) |->
         IF s = {} THEN [stack |-> <<<<0, 1>>>>, visited |-> {0}, post |-> <<>>]
         ELSE DfsStep(g, bs, f[s \ {Max(s)}])]

LEMMA WalkExists ==
  ASSUME NEW g, NEW bs, NEW n \in Nat
  PROVE  \E f : IsWalk(f, g, bs, n)
<1> DEFINE T == {m \in Nat : \E f : IsWalk(f, g, bs, m)}
           base == [stack |-> <<<<0, 1>>>>, visited |-> {0}, post |-> <<>>]
<1>1. 0 \in T
  <2> DEFINE f == [s \in SUBSET (1..0) |-> base]
             r(s) == IF s = {} THEN base ELSE DfsStep(g, bs, f[s \ {Max(s)}])
  <2>1. \A s \in SUBSET (1..0) : f[s] = r(s)
    OBVIOUS
  <2>2. f = [s \in SUBSET (1..0) |-> r(s)]
    BY <2>1
  <2>3. IsWalk(f, g, bs, 0)
    BY <2>2 DEF IsWalk
  <2> HIDE DEF f
  <2> QED BY <2>3
<1>2. ASSUME NEW m \in 0..n - 1, m \in T PROVE m + 1 \in T
  <2>1. PICK f : IsWalk(f, g, bs, m)
    BY <1>2
  <2> DEFINE D == SUBSET (1..m + 1)
             h == [s \in D |-> IF m + 1 \in s THEN DfsStep(g, bs, f[s \ {m + 1}]) ELSE f[s]]
             r(s) == IF s = {} THEN base ELSE DfsStep(g, bs, h[s \ {Max(s)}])
  <2>2. ASSUME NEW s \in D PROVE h[s] = r(s)
    <3>1. CASE m + 1 \in s
      <4>1. Max(s) = m + 1 /\ s \ {Max(s)} \in SUBSET (1..m)
        BY <3>1, MaxOfPrefix
      <4>2. s \ {m + 1} \in D /\ m + 1 \notin s \ {m + 1} /\ s # {}
        BY <3>1, <4>1
      <4>3. h[s \ {m + 1}] = f[s \ {m + 1}]
        BY <4>2
      <4>4. h[s] = DfsStep(g, bs, f[s \ {m + 1}])
        BY <3>1
      <4> QED BY <4>1, <4>2, <4>3, <4>4
    <3>2. CASE m + 1 \notin s
      <4>1. s \in SUBSET (1..m)
        BY <3>2
      <4>2. h[s] = f[s]
        BY <3>2
      <4> DEFINE t == s \ {Max(s)}
      <4>3. t \in SUBSET (1..m) /\ t \in D /\ m + 1 \notin t
        <5>1. t \subseteq s /\ 1..m \subseteq 1..m + 1 /\ m + 1 \notin 1..m
          OBVIOUS
        <5> HIDE DEF t
        <5> QED BY <4>1, <5>1
      <4>4. h[t] = f[t]
        BY <4>3
      <4>5. f[s] = IF s = {} THEN base ELSE DfsStep(g, bs, f[t])
        BY <2>1, <4>1 DEF IsWalk
      <4> QED BY <4>2, <4>4, <4>5
    <3> QED BY <3>1, <3>2
  <2>3. h = [s \in D |-> r(s)]
    <3>1. h = [s \in D |-> h[s]]
      OBVIOUS
    <3> HIDE DEF h
    <3> QED BY <2>2, <3>1
  <2>4. IsWalk(h, g, bs, m + 1)
    BY <2>3 DEF IsWalk
  <2> HIDE DEF h
  <2> QED BY <1>2, <2>4
<1>3. n \in T
  <2> HIDE DEF T
  <2> QED BY <1>1, <1>2, PrefixInduction
<1> QED BY <1>3

LEMMA PopOfAWalk ==
  ASSUME NEW st, NEW v, NEW q, NEW p, NEW f, NEW b, b = [stack |-> st, visited |-> v, post |-> q],
         NEW c, c = [b EXCEPT !.post = p, !.stack = f]
  PROVE  c = [stack |-> f, visited |-> v, post |-> p]
OBVIOUS

LEMMA WalkOfOneBlock ==
  ASSUME NEW g, NEW bs, Len(bs) \in Nat \ {0}, Successors(g, bs, 0) = <<>>
  PROVE  Visited(g, bs).post = <<0>>
<1> DEFINE n == 4 * Len(bs)
           base == [stack |-> <<<<0, 1>>>>, visited |-> {0}, post |-> <<>>]
           end == [stack |-> <<>>, visited |-> {0}, post |-> <<0>>]
           w == CHOOSE f : IsWalk(f, g, bs, n)
<1>1. n \in Nat /\ n >= 1
  OBVIOUS
<1>2. IsWalk(w, g, bs, n)
  <2> HIDE DEF n
  <2> QED BY <1>1, WalkExists
<1>3. Visited(g, bs) = w[1..n]
  <2>1. DOMAIN [k \in 1..n |-> k] = 1..n
    OBVIOUS
  <2> HIDE DEF n
  <2> QED BY <2>1 DEF Visited, FoldLeft, MapThenFoldSet, IsWalk, n
<1> HIDE DEF w, n
<1>4. w[{}] = base
  BY <1>2 DEF IsWalk
<1>5. DfsStep(g, bs, base) = end
  <2>1. base.stack = <<<<0, 1>>>> /\ base.stack # <<>> /\ Last(base.stack) = <<0, 1>>
        /\ Front(base.stack) = <<>>
    BY DEF Last, Front
  <2>2. Len(Successors(g, bs, 0)) = 0
    OBVIOUS
  <2>3. DfsStep(g, bs, base) = Descend(base, <<0, 1>>, Successors(g, bs, 0))
    <3>1. <<0, 1>>[1] = 0
      OBVIOUS
    <3> HIDE DEF base
    <3> QED BY <2>1, <3>1 DEF DfsStep
  <2> DEFINE c == Descend(base, <<0, 1>>, Successors(g, bs, 0))
             p == Append(base.post, 0)
             f == Front(base.stack)
  <2>4. c = [base EXCEPT !.post = p, !.stack = f]
    BY <2>2 DEF Descend
  <2>5. p = <<0>> /\ f = <<>>
    BY <2>1
  <2>6. c = [stack |-> f, visited |-> {0}, post |-> p]
    <3>1. base = [stack |-> <<<<0, 1>>>>, visited |-> {0}, post |-> <<>>]
      OBVIOUS
    <3> HIDE DEF base, c, p, f
    <3> QED BY <2>4, <3>1, PopOfAWalk
  <2> HIDE DEF base, c, p, f
  <2>7. c = end
    BY <2>5, <2>6
  <2> QED BY <2>3, <2>7 DEF c
<1>6. DfsStep(g, bs, end) = end
  BY DEF DfsStep
<1>7. \A k \in 1..n : w[1..k] = DfsStep(g, bs, w[1..k - 1])
  <2> SUFFICES ASSUME NEW k \in 1..n PROVE w[1..k] = DfsStep(g, bs, w[1..k - 1])
    OBVIOUS
  <2>1. k - 1 \in Nat /\ (k - 1) + 1 = k /\ 1..k \in SUBSET (1..n) /\ 1..k # {} /\ k \in 1..k
        /\ (1..k) \ {k} = 1..k - 1
    BY <1>1
  <2>2. Max(1..k) = k
    <3> DEFINE m == k - 1
    <3>1. m \in Nat /\ m + 1 = k
      BY <2>1
    <3> HIDE DEF m
    <3>2. 1..k \in SUBSET (1..m + 1) /\ m + 1 \in 1..k
      BY <2>1, <3>1
    <3>3. Max(1..k) = m + 1
      BY <3>1, <3>2, MaxOfPrefix
    <3> QED BY <3>1, <3>3
  <2> QED BY <1>2, <2>1, <2>2 DEF IsWalk
<1>8. w[1..n] = end
  <2> DEFINE T == {k \in 0..n - 1 : w[1..k + 1] = end}
  <2>1. 0 \in T
    <3>1. 1..0 = {} /\ 1 \in 1..n /\ 1 - 1 = 0 /\ 0 + 1 = 1
      BY <1>1
    <3>2. w[1..1] = DfsStep(g, bs, w[1..0])
      BY <1>7, <3>1
    <3>3. w[1..1] = end
      BY <1>4, <1>5, <3>1, <3>2
    <3> QED BY <1>1, <3>1, <3>3
  <2>2. ASSUME NEW k \in 0..(n - 1) - 1, k \in T PROVE k + 1 \in T
    <3>1. (k + 1) + 1 \in 1..n /\ ((k + 1) + 1) - 1 = k + 1 /\ k + 1 \in 0..n - 1
      BY <1>1
    <3>2. w[1..(k + 1) + 1] = DfsStep(g, bs, w[1..k + 1])
      BY <1>7, <3>1
    <3>3. w[1..k + 1] = end
      BY <2>2
    <3> QED BY <1>6, <3>1, <3>2, <3>3
  <2>3. n - 1 \in T
    <3>1. n - 1 \in Nat
      BY <1>1
    <3> HIDE DEF T
    <3> QED BY <2>1, <2>2, <3>1, PrefixInduction
  <2>4. (n - 1) + 1 = n
    BY <1>1
  <2> QED BY <2>3, <2>4
<1> QED BY <1>3, <1>8

(* What is emitted is the first block: the others are not reached.             *)
IsLaidOut(f, g, bs) ==
  f = [s \in SUBSET {1} |->
         IF s = {} THEN <<>>
         ELSE f[s \ {Max(s)}] \o InOrder(NodesIn(g, bs, <<0>>[Max(s)]), Len(g))]

LEMMA LayoutIsFirstBlock ==
  ASSUME NEW g, NEW e, ReturnsAt(g, e)
  PROVE  Layout(g) = [i \in 1..e |-> i]
<1> DEFINE bs == BlockStructure(g)
           block == [i \in 1..e |-> i]
           w == CHOOSE f : IsLaidOut(f, g, bs)
<1>1. /\ Len(bs) \in Nat \ {0}
      /\ NodesIn(g, bs, 0) = 1..e
      /\ Successors(g, bs, 0) = <<>>
  BY FirstBlock
<1>2. ReversePostOrder(g, bs) = <<0>>
  <2>1. Visited(g, bs).post = <<0>>
    BY <1>1, WalkOfOneBlock
  <2>2. bs # <<>>
    BY <1>1
  <2>3. Reverse(<<0>>) = <<0>>
    BY DEF Reverse
  <2> QED BY <2>1, <2>2, <2>3 DEF ReversePostOrder
<1>3. InOrder(NodesIn(g, bs, 0), Len(g)) = block
  <2>1. Len(g) \in Nat /\ e \in 0..Len(g)
    BY LoweredIsLive DEF ReturnsAt
  <2> QED BY <1>1, <2>1, InOrderOfPrefix
<1> HIDE DEF bs
<1>4. Max({1}) = 1
  <2>1. 1 \in {1} /\ \A y \in {1} : 1 >= y
    OBVIOUS
  <2>2. \A x \in {1} : (\A y \in {1} : x >= y) => x = 1
    OBVIOUS
  <2> QED BY <2>1, <2>2 DEF Max
<1>5. \E f : IsLaidOut(f, g, bs)
  <2> DEFINE f == [s \in SUBSET {1} |-> IF s = {} THEN <<>> ELSE <<>> \o block]
             r(s) == IF s = {} THEN <<>>
                     ELSE f[s \ {Max(s)}] \o InOrder(NodesIn(g, bs, <<0>>[Max(s)]), Len(g))
  <2>1. SUBSET {1} = {{}, {1}} /\ {1} # {} /\ {1} \ {1} = {}
    OBVIOUS
  <2>2. <<0>>[1] = 0
    OBVIOUS
  <2>3. f[{}] = <<>> /\ f[{1}] = <<>> \o block
    BY <2>1
  <2>4. r({1}) = <<>> \o block /\ r({}) = <<>>
    <3> HIDE DEF f
    <3> QED BY <1>3, <1>4, <2>1, <2>2, <2>3
  <2>5. f = [s \in SUBSET {1} |-> r(s)]
    <3>1. \A s \in SUBSET {1} : f[s] = r(s)
      BY <2>1, <2>3, <2>4
    <3>2. f = [s \in SUBSET {1} |-> f[s]]
      OBVIOUS
    <3> HIDE DEF f
    <3> QED BY <3>1, <3>2
  <2>6. IsLaidOut(f, g, bs)
    BY <2>5 DEF IsLaidOut
  <2> HIDE DEF f
  <2> QED BY <2>6
<1>6. IsLaidOut(w, g, bs)
  BY <1>5
<1>7. Layout(g) = w[{1}]
  <2>1. DOMAIN <<0>> = {1}
    OBVIOUS
  <2>2. Layout(g) = FoldLeft(LAMBDA before, b : before \o InOrder(NodesIn(g, bs, b), Len(g)), <<>>, <<0>>)
    BY <1>2 DEF Layout, bs
  <2> QED BY <2>1, <2>2 DEF FoldLeft, MapThenFoldSet, IsLaidOut
<1> HIDE DEF w
<1>8. w[{}] = <<>> /\ w[{1}] = w[{}] \o InOrder(NodesIn(g, bs, 0), Len(g))
  <2>1. {1} \in SUBSET {1} /\ {} \in SUBSET {1} /\ {1} # {} /\ {1} \ {1} = {}
    OBVIOUS
  <2>2. <<0>>[1] = 0
    OBVIOUS
  <2>3. w[{}] = <<>>
    BY <1>6, <2>1 DEF IsLaidOut
  <2>4. w[{1}] = w[{1} \ {Max({1})}] \o InOrder(NodesIn(g, bs, <<0>>[Max({1})]), Len(g))
    BY <1>6, <2>1 DEF IsLaidOut
  <2>5. {1} \ {Max({1})} = {} /\ <<0>>[Max({1})] = 0
    BY <1>4, <2>1, <2>2
  <2> QED BY <2>3, <2>4, <2>5
<1>9. <<>> \o block = block
  <2>1. e \in Nat
    BY LoweredIsLive DEF ReturnsAt
  <2>2. block \in Seq(Nat)
    BY <2>1
  <2> HIDE DEF block
  <2> QED BY <2>2, ConcatEmptySeq
<1> QED BY <1>3, <1>7, <1>8, <1>9

-----------------------------------------------------------------------------
(* A run of the first block.                                                   *)

(* The nodes up to n compute vals.                                             *)
NodeGives(g, env, vals, id) ==
  LET node == g[id]
      in(k) == vals[node.in[k]]
  IN  \/ node.kind = "Start" /\ vals[id] = 0
      \/ node.kind = "ConstInt" /\ vals[id] = node.val
      \/ node.kind = "LdNull" /\ vals[id] = 0
      \/ node.kind = "Phi" /\ vals[id] = env[id]
      \/ /\ node.kind \in BinaryKinds /\ Len(node.in) = 2
         /\ ~Traps(node.kind, in(1), in(2)) /\ vals[id] = Arith(node.kind, in(1), in(2))
      \/ node.kind = "Neg" /\ Len(node.in) = 1 /\ vals[id] = Wrap64(-in(1))
      \/ node.kind = "ConvI4" /\ Len(node.in) = 1 /\ vals[id] = Wrap32(in(1))
      \/ node.kind = "ConvI8" /\ Len(node.in) = 1 /\ vals[id] = in(1)

NodesGive(g, env, vals, n) == \A id \in 1..n : NodeGives(g, env, vals, id)

IsRun(f, g, layout, env, n) ==
  f = [k \in 0..n |-> IF k = 0 THEN Start0(g) ELSE MachineStep(g, layout, env, f[k - 1])]

LEMMA RunIsRun ==
  ASSUME NEW g, NEW layout, NEW env, NEW n \in Nat
  PROVE  \E f : IsRun(f, g, layout, env, n) /\ RunInOrder(g, layout, env, n) = f[n]
<1> DEFINE T == {m \in Nat : \E f : IsRun(f, g, layout, env, m)}
<1>1. 0 \in T
  <2> DEFINE f == [k \in 0..0 |-> Start0(g)]
  <2>1. f = [k \in 0..0 |-> IF k = 0 THEN Start0(g) ELSE MachineStep(g, layout, env, f[k - 1])]
    OBVIOUS
  <2> QED BY <2>1 DEF IsRun
<1>2. ASSUME NEW m \in 0..n - 1, m \in T PROVE m + 1 \in T
  <2>1. PICK f : IsRun(f, g, layout, env, m)
    BY <1>2
  <2> DEFINE h == [k \in 0..m + 1 |-> IF k <= m THEN f[k] ELSE MachineStep(g, layout, env, f[m])]
             r(k) == IF k = 0 THEN Start0(g) ELSE MachineStep(g, layout, env, h[k - 1])
  <2>2. ASSUME NEW k \in 0..m + 1 PROVE h[k] = r(k)
    <3>1. CASE k = 0
      BY <2>1, <3>1 DEF IsRun
    <3>2. CASE k \in 1..m
      <4>1. k \in 0..m /\ k - 1 \in 0..m /\ k # 0
        BY <3>2
      <4>2. h[k] = f[k] /\ h[k - 1] = f[k - 1]
        BY <4>1
      <4> QED BY <2>1, <4>1, <4>2 DEF IsRun
    <3>3. CASE k = m + 1
      <4>1. ~(k <= m) /\ k - 1 = m /\ m \in 0..m + 1 /\ m <= m /\ k # 0
        BY <3>3
      <4>2. h[k - 1] = f[m] /\ h[k] = MachineStep(g, layout, env, f[m])
        BY <4>1
      <4> QED BY <4>1, <4>2
    <3> QED BY <3>1, <3>2, <3>3
  <2>3. h = [k \in 0..m + 1 |-> r(k)]
    <3>1. h = [k \in 0..m + 1 |-> h[k]]
      OBVIOUS
    <3> HIDE DEF h
    <3> QED BY <2>2, <3>1
  <2>4. IsRun(h, g, layout, env, m + 1)
    BY <2>3 DEF IsRun
  <2> HIDE DEF h
  <2> QED BY <1>2, <2>4
<1>3. n \in T
  <2> HIDE DEF T
  <2> QED BY <1>1, <1>2, PrefixInduction
<1> DEFINE u == CHOOSE f : IsRun(f, g, layout, env, n)
<1>4. RunInOrder(g, layout, env, n) = u[n]
  BY DEF RunInOrder, IsRun
<1>5. IsRun(u, g, layout, env, n)
  BY <1>3
<1> QED BY <1>4, <1>5

(* After k nodes of a block of which all give their values.                     *)
RunAt(s, g, vals, k) ==
  /\ s = [pos |-> s.pos, vals |-> s.vals, locals |-> s.locals, obs |-> s.obs, ran |-> s.ran,
          result |-> s.result]
  /\ s.result = <<"running">> /\ s.pos = k + 1
  /\ s.vals = [id \in Ids(g) |-> s.vals[id]]
  /\ \A id \in Ids(g) : s.vals[id] = IF id <= k THEN vals[id] ELSE 0

LEMMA PassedFields ==
  ASSUME NEW s, NEW id, NEW c,
         s = [pos |-> s.pos, vals |-> s.vals, locals |-> s.locals, obs |-> s.obs, ran |-> s.ran,
              result |-> s.result],
         c = Passed(s, id)
  PROVE  c = [pos |-> s.pos + 1, vals |-> s.vals, locals |-> s.locals, obs |-> s.obs,
              ran |-> s.ran \cup {id}, result |-> s.result]
BY DEF Passed

LEMMA ComputedFields ==
  ASSUME NEW s, NEW id, NEW v, NEW c,
         s = [pos |-> s.pos, vals |-> s.vals, locals |-> s.locals, obs |-> s.obs, ran |-> s.ran,
              result |-> s.result],
         c = Computed(s, id, v)
  PROVE  c = [pos |-> s.pos + 1, vals |-> [s.vals EXCEPT ![id] = v], locals |-> s.locals,
              obs |-> s.obs, ran |-> s.ran \cup {id}, result |-> s.result]
<1> DEFINE p == Passed(s, id)
<1>1. p = [pos |-> s.pos + 1, vals |-> s.vals, locals |-> s.locals, obs |-> s.obs,
           ran |-> s.ran \cup {id}, result |-> s.result]
  BY PassedFields
<1>2. c = [p EXCEPT !.vals[id] = v]
  BY DEF Computed
<1> HIDE DEF p
<1> QED BY <1>1, <1>2

TheValue(v) == <<"value", v>>
InputsAt(g, s, id) == [k \in DOMAIN g[id].in |-> s.vals[g[id].in[k]]]

(* What a step is, without the end of the run.                                  *)
LEMMA StepOfNode ==
  ASSUME NEW g, NEW env, NEW s, NEW layout, s.result = <<"running">>, ~(s.pos > Len(layout)),
         NEW id, id = layout[s.pos]
  PROVE  /\ g[id].kind = "Start" => MachineStep(g, layout, env, s) = Passed(s, id)
         /\ g[id].kind = "ConstInt" => MachineStep(g, layout, env, s) = Computed(s, id, g[id].val)
         /\ g[id].kind = "LdNull" => MachineStep(g, layout, env, s) = Computed(s, id, 0)
         /\ g[id].kind = "Phi" => MachineStep(g, layout, env, s) = Computed(s, id, env[id])
         /\ g[id].kind \in BinaryKinds
            /\ ~Traps(g[id].kind, InputsAt(g, s, id)[1], InputsAt(g, s, id)[2])
            => MachineStep(g, layout, env, s)
               = Computed(s, id, Arith(g[id].kind, InputsAt(g, s, id)[1], InputsAt(g, s, id)[2]))
         /\ g[id].kind = "Neg"
            => MachineStep(g, layout, env, s) = Computed(s, id, Wrap64(-InputsAt(g, s, id)[1]))
         /\ g[id].kind = "ConvI4"
            => MachineStep(g, layout, env, s) = Computed(s, id, Wrap32(InputsAt(g, s, id)[1]))
         /\ g[id].kind = "ConvI8"
            => MachineStep(g, layout, env, s) = Computed(s, id, InputsAt(g, s, id)[1])
         /\ g[id].kind = "Return"
            => MachineStep(g, layout, env, s) = Ended(s, TheValue(InputsAt(g, s, id)[1]))
<1> DEFINE step == MachineStep(g, layout, env, s)
           kind == g[id].kind
           in == [k \in DOMAIN g[id].in |-> s.vals[g[id].in[k]]]
           single == {"ConstInt", "LdNull", "Phi", "Neg", "ConvI4", "ConvI8", "Return", "Start"}
           others == {"ConstFloat", "LdLoc", "StLoc", "If", "Jump", "Throw"}
<1>1. /\ kind \in single => kind \notin BinaryKinds
      /\ kind \in single \cup BinaryKinds => kind \notin ObservableKinds \cup UnknownKinds
      /\ kind \in BinaryKinds => kind \notin single \cup others
  BY DEF BinaryKinds, ObservableKinds, UnknownKinds, EffectKinds, LeavingKinds, CheckedConversions
<1>2. ASSUME kind = "Start" PROVE step = Passed(s, id)
  BY <1>1, <1>2, Zenon DEF MachineStep
<1>3. ASSUME kind = "ConstInt" PROVE step = Computed(s, id, g[id].val)
  BY <1>1, <1>3, Zenon DEF MachineStep
<1>4. ASSUME kind = "LdNull" PROVE step = Computed(s, id, 0)
  BY <1>1, <1>4, Zenon DEF MachineStep
<1>5. ASSUME kind = "Phi" PROVE step = Computed(s, id, env[id])
  BY <1>1, <1>5, Zenon DEF MachineStep
<1>6. ASSUME kind \in BinaryKinds, ~Traps(kind, in[1], in[2])
      PROVE  step = Computed(s, id, Arith(kind, in[1], in[2]))
  BY <1>1, <1>6, Zenon DEF MachineStep
<1>7. ASSUME kind = "Neg" PROVE step = Computed(s, id, Wrap64(-in[1]))
  BY <1>1, <1>7, Zenon DEF MachineStep
<1>8. ASSUME kind = "ConvI4" PROVE step = Computed(s, id, Wrap32(in[1]))
  BY <1>1, <1>8, Zenon DEF MachineStep
<1>9. ASSUME kind = "ConvI8" PROVE step = Computed(s, id, in[1])
  BY <1>1, <1>9, Zenon DEF MachineStep
<1>10. ASSUME kind = "Return" PROVE step = Ended(s, TheValue(in[1]))
  BY <1>1, <1>10, Zenon DEF MachineStep, TheValue
<1> HIDE DEF step, kind, in
<1>11. /\ kind = "Start" => step = Passed(s, id)
       /\ kind = "ConstInt" => step = Computed(s, id, g[id].val)
       /\ kind = "LdNull" => step = Computed(s, id, 0)
       /\ kind = "Phi" => step = Computed(s, id, env[id])
       /\ kind \in BinaryKinds /\ ~Traps(kind, in[1], in[2])
          => step = Computed(s, id, Arith(kind, in[1], in[2]))
       /\ kind = "Neg" => step = Computed(s, id, Wrap64(-in[1]))
       /\ kind = "ConvI4" => step = Computed(s, id, Wrap32(in[1]))
       /\ kind = "ConvI8" => step = Computed(s, id, in[1])
       /\ kind = "Return" => step = Ended(s, TheValue(in[1]))
  BY <1>2, <1>3, <1>4, <1>5, <1>6, <1>7, <1>8, <1>9, <1>10
<1> QED BY <1>11, Zenon DEF step, kind, in, InputsAt

LEMMA StepGives ==
  ASSUME NEW g, NEW env, NEW s, NEW layout, s.result = <<"running">>, ~(s.pos > Len(layout)),
         NEW id, id = layout[s.pos], NEW vals, NodeGives(g, env, vals, id),
         Len(g[id].in) = 1 => InputsAt(g, s, id)[1] = vals[g[id].in[1]],
         Len(g[id].in) = 2 => /\ InputsAt(g, s, id)[1] = vals[g[id].in[1]]
                              /\ InputsAt(g, s, id)[2] = vals[g[id].in[2]]
  PROVE  \/ vals[id] = 0 /\ MachineStep(g, layout, env, s) = Passed(s, id)
         \/ MachineStep(g, layout, env, s) = Computed(s, id, vals[id])
<1> DEFINE c == MachineStep(g, layout, env, s)
           in == InputsAt(g, s, id)
           kd == g[id].kind
           l == Len(g[id].in)
           x == vals[g[id].in[1]]
           y == vals[g[id].in[2]]
<1>1. (l = 1 => in[1] = x) /\ (l = 2 => in[1] = x /\ in[2] = y)
  OBVIOUS
<1>2. \/ kd = "Start" /\ vals[id] = 0
      \/ kd = "ConstInt" /\ vals[id] = g[id].val
      \/ kd = "LdNull" /\ vals[id] = 0
      \/ kd = "Phi" /\ vals[id] = env[id]
      \/ kd \in BinaryKinds /\ l = 2 /\ ~Traps(kd, x, y) /\ vals[id] = Arith(kd, x, y)
      \/ kd = "Neg" /\ l = 1 /\ vals[id] = Wrap64(-x)
      \/ kd = "ConvI4" /\ l = 1 /\ vals[id] = Wrap32(x)
      \/ kd = "ConvI8" /\ l = 1 /\ vals[id] = x
  BY Zenon DEF NodeGives
<1>3. /\ kd = "Start" => c = Passed(s, id)
      /\ kd = "ConstInt" => c = Computed(s, id, g[id].val)
      /\ kd = "LdNull" => c = Computed(s, id, 0)
      /\ kd = "Phi" => c = Computed(s, id, env[id])
      /\ kd \in BinaryKinds /\ ~Traps(kd, in[1], in[2]) => c = Computed(s, id, Arith(kd, in[1], in[2]))
      /\ kd = "Neg" => c = Computed(s, id, Wrap64(-in[1]))
      /\ kd = "ConvI4" => c = Computed(s, id, Wrap32(in[1]))
      /\ kd = "ConvI8" => c = Computed(s, id, in[1])
  BY StepOfNode
<1> HIDE DEF c, in, kd, l, x, y
<1>4. (vals[id] = 0 /\ c = Passed(s, id)) \/ c = Computed(s, id, vals[id])
  <2>1. CASE kd \in BinaryKinds /\ l = 2 /\ ~Traps(kd, x, y) /\ vals[id] = Arith(kd, x, y)
    BY ONLY <1>1, <1>3, <2>1
  <2>2. CASE kd = "Neg" /\ l = 1 /\ vals[id] = Wrap64(-x)
    BY ONLY <1>1, <1>3, <2>2
  <2>3. CASE kd = "ConvI4" /\ l = 1 /\ vals[id] = Wrap32(x)
    BY ONLY <1>1, <1>3, <2>3
  <2>4. CASE kd = "ConvI8" /\ l = 1 /\ vals[id] = x
    BY ONLY <1>1, <1>3, <2>4
  <2> QED BY ONLY <1>2, <1>3, <2>1, <2>2, <2>3, <2>4
<1> QED BY <1>4 DEF c

LEMMA RunStep ==
  ASSUME NEW g, NEW e, ReturnsAt(g, e), NEW env, NEW vals, NEW k \in 0..e - 2,
         NodesGive(g, env, vals, e - 1), NEW s, RunAt(s, g, vals, k),
         NEW layout, layout = [i \in 1..e |-> i]
  PROVE  RunAt(MachineStep(g, layout, env, s), g, vals, k + 1)
<1> DEFINE id == k + 1
           node == g[id]
           in == InputsAt(g, s, id)
           c == MachineStep(g, layout, env, s)
<1>1. e \in 1..Len(g) /\ Len(g) \in Nat /\ LoweredGraph(g) /\ Ids(g) = 1..Len(g)
  BY LoweredIsLive DEF ReturnsAt, Ids
<1>2. id \in 1..e - 1 /\ id \in 1..Len(g) /\ id \in 1..e /\ id - 1 = k
  BY <1>1
<1>3. Len(layout) = e /\ s.pos = id /\ layout[s.pos] = id /\ ~(s.pos > Len(layout))
  BY <1>1, <1>2 DEF RunAt
<1>4. NodeGives(g, env, vals, id)
  BY <1>2 DEF NodesGive
<1>5. node.in \in Seq(Nat) /\ \A j \in 1..Len(node.in) : node.in[j] \in 1..k
  BY <1>1, <1>2 DEF LoweredGraph, LoweredNode, Nodes
<1> HIDE DEF id
<1>6. \A j \in 1..Len(node.in) : in[j] = vals[node.in[j]]
  <2> SUFFICES ASSUME NEW j \in 1..Len(node.in) PROVE in[j] = vals[node.in[j]]
    OBVIOUS
  <2>1. j \in DOMAIN node.in
    BY <1>5
  <2>2. node.in[j] \in Ids(g) /\ node.in[j] <= k
    BY <1>1, <1>2, <1>5
  <2>3. in[j] = s.vals[node.in[j]]
    BY <2>1 DEF InputsAt
  <2> QED BY <2>2, <2>3 DEF RunAt
<1>7. (1 \in 1..Len(node.in) => in[1] = vals[node.in[1]])
      /\ (2 \in 1..Len(node.in) => in[2] = vals[node.in[2]])
  BY <1>6
<1>8. s.result = <<"running">> /\ id = layout[s.pos]
  BY <1>3 DEF RunAt
<1>9. (vals[id] = 0 /\ c = Passed(s, id)) \/ c = Computed(s, id, vals[id])
  <2>1. Len(node.in) = 1 => in[1] = vals[node.in[1]]
    BY <1>7
  <2>2. Len(node.in) = 2 => in[1] = vals[node.in[1]] /\ in[2] = vals[node.in[2]]
    BY <1>7
  <2> QED BY ONLY <1>3, <1>4, <1>8, <2>1, <2>2, StepGives
<1> HIDE DEF in, c
<1>10. s = [pos |-> s.pos, vals |-> s.vals, locals |-> s.locals, obs |-> s.obs, ran |-> s.ran,
            result |-> s.result]
  BY DEF RunAt
<1>11. /\ s.result = <<"running">> /\ s.pos = k + 1 /\ s.vals = [i \in Ids(g) |-> s.vals[i]]
       /\ \A i \in Ids(g) : s.vals[i] = IF i <= k THEN vals[i] ELSE 0
  BY DEF RunAt
<1>12. ASSUME vals[id] = 0 /\ c = Passed(s, id) PROVE RunAt(c, g, vals, k + 1)
  <2>1. c = [pos |-> s.pos + 1, vals |-> s.vals, locals |-> s.locals, obs |-> s.obs,
             ran |-> s.ran \cup {id}, result |-> s.result]
    BY <1>10, <1>12, PassedFields
  <2>2. \A i \in Ids(g) : s.vals[i] = IF i <= k + 1 THEN vals[i] ELSE 0
    <3> SUFFICES ASSUME NEW i \in Ids(g) PROVE s.vals[i] = IF i <= k + 1 THEN vals[i] ELSE 0
      OBVIOUS
    <3>1. i <= k \/ i = k + 1 \/ i > k + 1
      BY <1>1
    <3> QED BY <1>1, <1>11, <1>12, <3>1 DEF id
  <2>3. /\ c.pos = k + 2 /\ c.vals = s.vals /\ c.result = <<"running">>
        /\ c = [pos |-> c.pos, vals |-> c.vals, locals |-> c.locals, obs |-> c.obs,
                ran |-> c.ran, result |-> c.result]
    BY ONLY <1>11, <2>1, k \in 0..e - 2
  <2>4. c.pos = (k + 1) + 1
    BY ONLY <2>3, k \in 0..e - 2
  <2> HIDE DEF c
  <2> QED BY ONLY <1>11, <2>2, <2>3, <2>4 DEF RunAt
<1>13. ASSUME c = Computed(s, id, vals[id]) PROVE RunAt(c, g, vals, k + 1)
  <2> DEFINE v == [s.vals EXCEPT ![id] = vals[id]]
  <2>1. c = [pos |-> s.pos + 1, vals |-> v, locals |-> s.locals, obs |-> s.obs,
             ran |-> s.ran \cup {id}, result |-> s.result]
    BY <1>10, <1>13, ComputedFields
  <2>2. v = [i \in Ids(g) |-> v[i]]
    BY <1>11
  <2>3. \A i \in Ids(g) : v[i] = IF i <= k + 1 THEN vals[i] ELSE 0
    <3> SUFFICES ASSUME NEW i \in Ids(g) PROVE v[i] = IF i <= k + 1 THEN vals[i] ELSE 0
      OBVIOUS
    <3>1. (i <= k /\ i # id) \/ i = id \/ (i > k + 1 /\ i # id)
      BY <1>1 DEF id
    <3>2. v[i] = IF i = id THEN vals[id] ELSE s.vals[i]
      BY <1>11
    <3>3. i = id => i <= k + 1
      BY DEF id
    <3> QED BY <1>1, <1>11, <3>1, <3>2, <3>3
  <2> HIDE DEF v
  <2>4. /\ c.pos = k + 2 /\ c.vals = v /\ c.result = <<"running">>
        /\ c = [pos |-> c.pos, vals |-> c.vals, locals |-> c.locals, obs |-> c.obs,
                ran |-> c.ran, result |-> c.result]
    BY ONLY <1>11, <2>1, k \in 0..e - 2
  <2>5. c.pos = (k + 1) + 1
    BY ONLY <2>4, k \in 0..e - 2
  <2> QED BY ONLY <2>2, <2>3, <2>4, <2>5 DEF RunAt
<1> QED BY <1>9, <1>12, <1>13 DEF c

LEMMA StartIsAt ==
  ASSUME NEW g, NEW vals, Len(g) \in Nat
  PROVE  RunAt(Start0(g), g, vals, 0)
<1> DEFINE s == Start0(g)
<1>1. /\ s = [pos |-> s.pos, vals |-> s.vals, locals |-> s.locals, obs |-> s.obs, ran |-> s.ran,
              result |-> s.result]
      /\ s.result = <<"running">> /\ s.pos = 1 /\ s.vals = [id \in Ids(g) |-> 0]
  BY DEF Start0
<1> HIDE DEF s
<1>2. \A id \in Ids(g) : s.vals[id] = 0 /\ ~(id <= 0)
  BY <1>1 DEF Ids
<1>3. s.vals = [id \in Ids(g) |-> s.vals[id]]
  BY <1>1
<1>4. RunAt(s, g, vals, 0)
  BY ONLY <1>1, <1>2, <1>3 DEF RunAt
<1> QED BY <1>4 DEF s

LEMMA EndedStays ==
  ASSUME NEW g, NEW layout, NEW env, NEW s, NEW v, s.result = TheValue(v),
         ~(s.pos > Len(layout))
  PROVE  MachineStep(g, layout, env, s) = s
<1>1. TheValue(v) # <<"running">>
  BY DEF TheValue
<1> QED BY <1>1 DEF MachineStep

(* A graph of which the first node that ends is a Return returns its operand.   *)
LEMMA RunReturns ==
  ASSUME NEW g, NEW e, ReturnsAt(g, e), NEW env, NEW vals, NodesGive(g, env, vals, e - 1),
         Len(g[e].in) = 1, NEW fuel \in Nat, e <= fuel
  PROVE  MachineRun(g, env, fuel).result = TheValue(vals[g[e].in[1]])
<1> DEFINE layout == [i \in 1..e |-> i]
           r == g[e].in[1]
           value == TheValue(vals[r])
<1>1. Layout(g) = layout
  BY LayoutIsFirstBlock
<1>2. PICK f : IsRun(f, g, layout, env, fuel) /\ RunInOrder(g, layout, env, fuel) = f[fuel]
  BY RunIsRun
<1>3. e \in 1..Len(g) /\ Len(g) \in Nat /\ LoweredGraph(g) /\ Ids(g) = 1..Len(g) /\ e \in Nat
  BY LoweredIsLive DEF ReturnsAt, Ids
<1> HIDE DEF layout
<1>4. f[0] = Start0(g) /\ \A k \in 1..fuel : f[k] = MachineStep(g, layout, env, f[k - 1])
  BY <1>2 DEF IsRun
<1> DEFINE S == {k \in 0..e - 1 : RunAt(f[k], g, vals, k)}
<1>5. 0 \in S
  BY <1>3, <1>4, StartIsAt
<1>6. ASSUME NEW k \in 0..(e - 1) - 1, k \in S PROVE k + 1 \in S
  <2>1. k \in 0..e - 2 /\ k + 1 \in 1..fuel /\ (k + 1) - 1 = k /\ k + 1 \in 0..e - 1
    BY <1>3
  <2>2. f[k + 1] = MachineStep(g, layout, env, f[k])
    BY <1>4, <2>1
  <2>3. RunAt(f[k], g, vals, k)
    BY <1>6
  <2>4. layout = [i \in 1..e |-> i]
    BY DEF layout
  <2>5. ReturnsAt(g, e) /\ NodesGive(g, env, vals, e - 1)
    OBVIOUS
  <2>6. RunAt(MachineStep(g, layout, env, f[k]), g, vals, k + 1)
    BY ONLY <2>1, <2>3, <2>4, <2>5, RunStep
  <2> QED BY <2>1, <2>2, <2>6
<1>7. RunAt(f[e - 1], g, vals, e - 1)
  <2>1. 0..e - 1 \subseteq S /\ e - 1 \in 0..e - 1
    <3> HIDE DEF S
    <3> QED BY <1>3, <1>5, <1>6, PrefixInduction
  <2> QED BY <2>1
<1> DEFINE s == f[e - 1]
<1>8. f[e].result = value /\ ~(f[e].pos > Len(layout))
  <2>1. e \in 1..fuel
    BY <1>3
  <2>2. f[e] = MachineStep(g, layout, env, s)
    BY <1>4, <2>1
  <2>3. /\ s.result = <<"running">> /\ s.pos = e
        /\ s = [pos |-> s.pos, vals |-> s.vals, locals |-> s.locals, obs |-> s.obs,
                ran |-> s.ran, result |-> s.result]
        /\ \A id \in Ids(g) : s.vals[id] = IF id <= e - 1 THEN vals[id] ELSE 0
    BY <1>3, <1>7 DEF RunAt
  <2>4. Len(layout) = e /\ layout[e] = e
    BY <1>3 DEF layout
  <2>5. ~(s.pos > Len(layout)) /\ e = layout[s.pos]
    BY <1>3, <2>3, <2>4
  <2>6. g[e].kind = "Return"
    BY DEF ReturnsAt
  <2> HIDE DEF s
  <2>7. MachineStep(g, layout, env, s) = Ended(s, TheValue(InputsAt(g, s, e)[1]))
    BY ONLY <2>3, <2>5, <2>6, StepOfNode
  <2>8. r \in 1..e - 1 /\ 1 \in DOMAIN g[e].in
    <3>1. LoweredNode(g[e], e)
      BY <1>3 DEF LoweredGraph
    <3>2. g[e].in \in Seq(Nat)
      BY <3>1 DEF LoweredNode, Nodes
    <3>3. DOMAIN g[e].in = 1..1
      BY <3>2
    <3> QED BY <3>1, <3>3 DEF LoweredNode
  <2>9. InputsAt(g, s, e)[1] = vals[r]
    <3>1. InputsAt(g, s, e)[1] = s.vals[r]
      BY <2>8 DEF InputsAt
    <3>2. r \in Ids(g) /\ r <= e - 1
      BY <1>3, <2>8
    <3> QED BY <2>3, <3>1, <3>2
  <2>10. Ended(s, value).result = value /\ Ended(s, value).pos = s.pos
    <3> HIDE DEF value
    <3> QED BY <2>3 DEF Ended
  <2> QED BY <2>2, <2>5, <2>7, <2>9, <2>10
<1> DEFINE T == {k \in 0..fuel - e : f[e + k].result = value /\ ~(f[e + k].pos > Len(layout))}
<1> HIDE DEF value, r
<1>9. 0 \in T
  <2>1. e + 0 = e /\ 0 \in 0..fuel - e
    BY <1>3
  <2> QED BY <1>8, <2>1
<1>10. ASSUME NEW k \in 0..(fuel - e) - 1, k \in T PROVE k + 1 \in T
  <2>1. e + (k + 1) \in 1..fuel /\ (e + (k + 1)) - 1 = e + k /\ k + 1 \in 0..fuel - e
    BY <1>3
  <2>2. f[e + (k + 1)] = MachineStep(g, layout, env, f[e + k])
    BY <1>4, <2>1
  <2>3. f[e + k].result = TheValue(vals[r]) /\ ~(f[e + k].pos > Len(layout))
    BY <1>10 DEF value
  <2>4. MachineStep(g, layout, env, f[e + k]) = f[e + k]
    BY ONLY <2>3, EndedStays
  <2> QED BY <1>10, <2>1, <2>2, <2>4
<1>11. f[fuel].result = value
  <2>1. fuel - e \in Nat /\ fuel - e \in 0..fuel - e /\ e + (fuel - e) = fuel
    BY <1>3
  <2>2. 0..fuel - e \subseteq T
    <3> HIDE DEF T
    <3> QED BY <1>9, <1>10, <2>1, PrefixInduction
  <2>3. fuel - e \in T
    BY <2>1, <2>2
  <2> QED BY <2>1, <2>3
<1> QED BY <1>1, <1>2, <1>11 DEF MachineRun, value, r

-----------------------------------------------------------------------------
(* The stack by its top.                                                       *)

LEMMA TopOfSeq ==
  ASSUME NEW S, NEW s \in Seq(S), s # <<>>
  PROVE  /\ Front(s) \in Seq(S) /\ Len(Front(s)) = Len(s) - 1
         /\ \A i \in 1..Len(s) - 1 : Front(s)[i] = s[i]
         /\ Last(s) \in S /\ Last(s) = s[Len(s)]
         /\ Len(s) \in Nat \ {0}
<1>1. Len(s) \in Nat \ {0} /\ \A i \in 1..Len(s) : s[i] \in S
  BY EmptySeq, ElementOfSeq
<1> DEFINE n == Len(s) - 1
<1>2. n \in Int /\ \A i \in 1..n : s[i] \in S
  BY <1>1
<1>3. /\ SubSeq(s, 1, n) \in Seq(S)
      /\ Len(SubSeq(s, 1, n)) = IF 1 <= n THEN n - 1 + 1 ELSE 0
      /\ \A i \in 1..n - 1 + 1 : SubSeq(s, 1, n)[i] = s[1 + i - 1]
  <2> HIDE DEF n
  <2> QED BY <1>2, SubSeqProperties
<1>4. Len(SubSeq(s, 1, n)) = n /\ \A i \in 1..n : SubSeq(s, 1, n)[i] = s[i]
  <2>1. n \in Nat
    BY <1>1
  <2> HIDE DEF n
  <2>2. n - 1 + 1 = n /\ (1 <= n \/ n = 0) /\ \A i \in 1..n : 1 + i - 1 = i
    BY <2>1
  <2> QED BY <1>3, <2>2
<1> QED BY <1>1, <1>3, <1>4 DEF Front, Last

LEMMA TwoOnTop ==
  ASSUME LowererOK(method, graph, lower), Depth > 1
  PROVE  /\ lower.stack # <<>> /\ Front(lower.stack) # <<>>
         /\ Under(2) = Front(Front(lower.stack)) /\ Nth(1) = Last(Front(lower.stack))
         /\ Operands(2) = <<Last(Front(lower.stack)), Last(lower.stack)>>
<1> DEFINE s == lower.stack
           S == 1..Len(graph)
           f == Front(s)
           t == Front(f)
<1>1. s \in Seq(S) /\ Len(s) \in Nat /\ Len(s) > 1 /\ Depth = Len(s)
  BY StackFacts DEF Depth
<1> HIDE DEF s, S
<1>2. s # <<>>
  BY <1>1
<1>3. /\ f \in Seq(S) /\ Len(f) = Len(s) - 1 /\ \A i \in 1..Len(s) - 1 : f[i] = s[i]
      /\ Last(s) = s[Len(s)]
  BY <1>1, <1>2, TopOfSeq
<1> HIDE DEF f
<1>4. f # <<>>
  BY <1>1, <1>3
<1>5. /\ t \in Seq(S) /\ Len(t) = Len(f) - 1 /\ \A i \in 1..Len(f) - 1 : t[i] = f[i]
      /\ Last(f) = f[Len(f)]
  BY <1>3, <1>4, TopOfSeq
<1> HIDE DEF t
<1>6. 2 \in 0..Depth /\ 1 \in 0..Depth - 1
  BY <1>1
<1>7. /\ Under(2) \in Seq(S) /\ Len(Under(2)) = Depth - 2
      /\ \A i \in 1..Depth - 2 : Under(2)[i] = s[i]
      /\ Operands(2) \in Seq(S) /\ Len(Operands(2)) = 2
      /\ \A i \in 1..2 : Operands(2)[i] = s[Depth - 2 + i]
  BY <1>6, StackFacts DEF s, S
<1>8. Under(2) = t
  <2>1. Len(Under(2)) = Len(t)
    BY <1>1, <1>3, <1>5, <1>7
  <2>2. \A i \in 1..Len(t) : Under(2)[i] = t[i]
    BY <1>1, <1>3, <1>5, <1>7
  <2> QED BY <1>5, <1>7, <2>1, <2>2, SeqEqual
<1>9. Last(f) = s[Len(s) - 1]
  BY <1>1, <1>3, <1>5
<1>10. Operands(2)[1] = Last(f) /\ Operands(2)[2] = Last(s)
  <2>1. Depth - 2 + 1 = Len(s) - 1 /\ Depth - 2 + 2 = Len(s) /\ 1 \in 1..2 /\ 2 \in 1..2
    BY <1>1
  <2> QED BY <1>3, <1>7, <1>9, <2>1
<1>11. Operands(2) = <<Last(f), Last(s)>>
  BY <1>7, <1>10
<1>12. Nth(1) = Last(f)
  BY <1>1, <1>9 DEF Nth, s
<1> QED BY <1>2, <1>4, <1>8, <1>11, <1>12 DEF s, f, t

LEMMA AppendOneByOne ==
  ASSUME NEW S, NEW s \in Seq(S), NEW x \in S, NEW y \in S, NEW z \in S
  PROVE  /\ s \o <<x, y>> = Append(Append(s, x), y)
         /\ s \o <<x, y, z>> = Append(Append(Append(s, x), y), z)
<1>1. Append(s, x) = s \o <<x>> /\ Append(s, x) \in Seq(S)
  BY AppendIsConcat, AppendProperties
<1>2. Append(Append(s, x), y) = Append(s, x) \o <<y>> /\ Append(Append(s, x), y) \in Seq(S)
  BY <1>1, AppendIsConcat, AppendProperties
<1>3. Append(Append(Append(s, x), y), z) = Append(Append(s, x), y) \o <<z>>
  BY <1>2, AppendIsConcat
<1>4. <<x>> \in Seq(S) /\ <<y>> \in Seq(S) /\ <<z>> \in Seq(S) /\ <<x, y>> \in Seq(S)
  OBVIOUS
<1>5. <<x>> \o <<y>> = <<x, y>> /\ <<x, y>> \o <<z>> = <<x, y, z>>
  <2>1. Append(<<x>>, y) = <<x, y>> /\ Append(<<x, y>>, z) = <<x, y, z>>
    <3> DEFINE u == Append(<<x>>, y)
               v == Append(<<x, y>>, z)
    <3>1. u \in Seq(S) /\ Len(u) = 2 /\ u[1] = x /\ u[2] = y
      <4>1. Len(<<x>>) = 1 /\ <<x>>[1] = x
        OBVIOUS
      <4> QED BY <1>4, <4>1, AppendProperties
    <3>2. v \in Seq(S) /\ Len(v) = 3 /\ v[1] = x /\ v[2] = y /\ v[3] = z
      <4>1. Len(<<x, y>>) = 2 /\ <<x, y>>[1] = x /\ <<x, y>>[2] = y
        OBVIOUS
      <4> QED BY <1>4, <4>1, AppendProperties
    <3> HIDE DEF u, v
    <3>3. u = <<x, y>>
      BY <3>1
    <3>4. v = <<x, y, z>>
      BY <3>2
    <3> QED BY <3>3, <3>4 DEF u, v
  <2>2. Append(<<x>>, y) = <<x>> \o <<y>> /\ Append(<<x, y>>, z) = <<x, y>> \o <<z>>
    BY <1>4, AppendIsConcat
  <2> QED BY <2>1, <2>2
<1>6. (s \o <<x>>) \o <<y>> = s \o (<<x>> \o <<y>>)
  BY <1>4, ConcatAssociative
<1>7. (s \o <<x, y>>) \o <<z>> = s \o (<<x, y>> \o <<z>>)
  BY <1>4, ConcatAssociative
<1> QED BY <1>1, <1>2, <1>3, <1>5, <1>6, <1>7

-----------------------------------------------------------------------------
(* Lowering as it went: for each instruction the stack, the slots and the       *)
(* length of the graph before and after, and the nodes that were appended.      *)

StackAfter(what, s) ==
  CASE what = "pop" -> Front(s)
    [] what = "pop2" -> IF Len(s) > 1 THEN Front(Front(s)) ELSE Front(s)
    [] what = "dup" -> Append(s, Last(s))
    [] what = "dup_x1" ->
         Append(Append(Append(Front(Front(s)), Last(s)), Last(Front(s))), Last(s))
    [] what = "swap" -> Append(Append(Front(Front(s)), Last(s)), Last(Front(s)))

Grown(a, b, stack, locals, n) ==
  b.stack = stack /\ b.locals = locals /\ b.len = a.len + n

IsNode(n, kind, in) == n.kind = kind /\ n.in = in

UnaryKind(i) == IF i.op = "neg" THEN "Neg" ELSE IF i.to = "int" THEN "ConvI4" ELSE "ConvI8"

StraightStep(i, a, b) ==
  /\ i.op \in {"const", "ldc"} /\ i.t # "float" =>
       /\ i.t = "null" => b.nodes[1].kind = "LdNull"
       /\ i.t # "null" => b.nodes[1].kind = "ConstInt" /\ b.nodes[1].val = i.n
       /\ Grown(a, b, Append(a.stack, a.len + 1), a.locals, 1)
  /\ i.op \in {"load", "ldloc"} =>
       /\ i.n \in DOMAIN a.locals
       /\ Grown(a, b, Append(a.stack, a.locals[i.n]), a.locals, 0)
  /\ i.op \in {"store", "stloc"} =>
       /\ i.n \in DOMAIN a.locals /\ a.stack # <<>>
       /\ Grown(a, b, Front(a.stack), [a.locals EXCEPT ![i.n] = Last(a.stack)], 0)
  /\ i.op = "iinc" =>
       /\ i.n \in DOMAIN a.locals
       /\ b.nodes[1].kind = "ConstInt" /\ b.nodes[1].val = i.d
       /\ IsNode(b.nodes[2], "Add", <<a.locals[i.n], a.len + 1>>)
       /\ Grown(a, b, a.stack, [a.locals EXCEPT ![i.n] = (a.len + 1) + 1], 2)
  /\ i.op = "stack" /\ i.what \in {"pop", "pop2", "dup", "dup_x1", "swap"} =>
       /\ a.stack # <<>>
       /\ i.what \in {"dup_x1", "swap"} => Front(a.stack) # <<>>
       /\ Grown(a, b, StackAfter(i.what, a.stack), a.locals, 0)
  /\ i.op = "cil_dup" => a.stack # <<>> /\ Grown(a, b, StackAfter("dup", a.stack), a.locals, 0)
  /\ i.op = "cil_pop" => a.stack # <<>> /\ Grown(a, b, StackAfter("pop", a.stack), a.locals, 0)
  /\ i.op \in {"binary", "cil_binary", "compare"} =>
       /\ a.stack # <<>> /\ Front(a.stack) # <<>>
       /\ IsNode(b.nodes[1], i.kind, <<Last(Front(a.stack)), Last(a.stack)>>)
       /\ Grown(a, b, Append(Front(Front(a.stack)), a.len + 1), a.locals, 1)
  /\ i.op = "neg" \/ (i.op \in {"conv", "conv_to"} /\ i.to # "float") =>
       /\ a.stack # <<>>
       /\ IsNode(b.nodes[1], UnaryKind(i), <<Last(a.stack)>>)
       /\ Grown(a, b, Append(Front(a.stack), a.len + 1), a.locals, 1)
  /\ i.op = "treturn" \/ (i.op = "ret" /\ a.stack # <<>>) =>
       a.stack # <<>> /\ IsNode(b.nodes[1], "Return", <<Last(a.stack)>>) /\ b.len = a.len + 1
  /\ i.op \notin {"starg", "cil_unary", "switch"}
  /\ i.op = "cil_binary" => i.kind \in LoweredArithmetic

(* a and b are the states before and after the step.                            *)
Took(a, b) ==
  /\ a.stack = lower.stack /\ a.locals = lower.locals /\ a.len = Len(graph)
  /\ b.stack = lower'.stack /\ b.locals = lower'.locals /\ b.len = Len(graph')
  /\ \A j \in 1..Len(graph') - Len(graph) : b.nodes[j] = graph'[Len(graph) + j]

LEMMA ConstFields ==
  ASSUME NEW v
  PROVE  ConstInt(v).kind = "ConstInt" /\ ConstInt(v).val = v
<1> DEFINE n == NewNode("ConstInt", <<>>, NoId, NoId)
           c == ConstInt(v)
<1>1. n = [kind |-> "ConstInt", in |-> <<>>, ctrl |-> NoId, eff |-> NoId, flags |-> KindFlags("ConstInt"),
           type |-> "Top", val |-> 0, cls |-> 0, state |-> FALSE]
  BY DEF NewNode
<1>2. c = [n EXCEPT !.flags = n.flags \cup {"IsConst"}, !.type = "Int", !.val = v]
  BY DEF ConstInt, Const
<1> HIDE DEF n, c
<1>3. c.kind = "ConstInt" /\ c.val = v
  BY <1>1, <1>2
<1> QED BY <1>3 DEF c

LEMMA OneMoreNode ==
  ASSUME LowererOK(method, graph, lower), NEW a, NEW b, Took(a, b), NEW n, graph' = graph \o <<n>>
  PROVE  b.len = a.len + 1 /\ b.nodes[1] = n
<1> DEFINE nodes == <<n>>
<1>1. nodes \in Seq({n}) /\ Len(nodes) = 1 /\ nodes[1] = n
  OBVIOUS
<1>2. LoweredGraph(graph) /\ Len(graph) \in Nat /\ graph' = graph \o nodes
  BY DEF LowererOK, LoweredGraph
<1> HIDE DEF nodes
<1>3. Len(graph') = Len(graph) + 1 /\ graph'[Len(graph) + 1] = n
  BY <1>1, <1>2, AppendedAny
<1>4. 1 \in 1..Len(graph') - Len(graph)
  BY <1>2, <1>3
<1> QED BY <1>3, <1>4 DEF Took

LEMMA TwoMoreNodes ==
  ASSUME LowererOK(method, graph, lower), NEW a, NEW b, Took(a, b), NEW x, NEW y,
         graph' = graph \o <<x, y>>
  PROVE  b.len = a.len + 2 /\ b.nodes[1] = x /\ b.nodes[2] = y
<1> DEFINE nodes == <<x, y>>
<1>1. nodes \in Seq({x, y}) /\ Len(nodes) = 2 /\ nodes[1] = x /\ nodes[2] = y
  OBVIOUS
<1>2. LoweredGraph(graph) /\ Len(graph) \in Nat /\ graph' = graph \o nodes
  BY DEF LowererOK, LoweredGraph
<1> HIDE DEF nodes
<1>3. /\ Len(graph') = Len(graph) + 2 /\ graph'[Len(graph) + 1] = x
      /\ graph'[Len(graph) + 2] = y
  BY <1>1, <1>2, AppendedAny
<1>4. 1 \in 1..Len(graph') - Len(graph) /\ 2 \in 1..Len(graph') - Len(graph)
  BY <1>2, <1>3
<1> QED BY <1>3, <1>4 DEF Took

(* Emit keeps the slots.                                                        *)
LEMMA EmittedOne ==
  ASSUME LowererOK(method, graph, lower), NEW a, NEW b, Took(a, b), NEW n, NEW stack,
         Emit(<<n>>, stack)
  PROVE  Grown(a, b, stack, a.locals, 1) /\ b.nodes[1] = n
<1>1. graph' = graph \o <<n>> /\ lower' = [lower EXCEPT !.pc = @ + 1, !.stack = stack]
  BY DEF Emit
<1>2. b.len = a.len + 1 /\ b.nodes[1] = n
  BY <1>1, OneMoreNode
<1>3. lower = [pc |-> lower.pc, stack |-> lower.stack, locals |-> lower.locals,
               ctrl |-> lower.ctrl, eff |-> lower.eff, status |-> lower.status]
  BY DEF LowererOK
<1>4. lower'.stack = stack /\ lower'.locals = lower.locals
  BY <1>1, <1>3
<1> QED BY <1>2, <1>4 DEF Grown, Took

LEMMA EmittedNothing ==
  ASSUME LowererOK(method, graph, lower), NEW a, NEW b, Took(a, b), NEW stack,
         Emit(<<>>, stack)
  PROVE  Grown(a, b, stack, a.locals, 0)
<1>1. graph' = graph \o <<>> /\ lower' = [lower EXCEPT !.pc = @ + 1, !.stack = stack]
  BY DEF Emit
<1>2. Len(graph) \in Nat /\ graph \in Seq(Nodes)
  BY DEF LowererOK, LoweredGraph
<1>3. graph' = graph
  BY <1>1, <1>2, ConcatEmptySeq
<1>4. lower = [pc |-> lower.pc, stack |-> lower.stack, locals |-> lower.locals,
               ctrl |-> lower.ctrl, eff |-> lower.eff, status |-> lower.status]
  BY DEF LowererOK
<1>5. lower'.stack = stack /\ lower'.locals = lower.locals
  BY <1>1, <1>4
<1> QED BY <1>2, <1>3, <1>5 DEF Grown, Took

LEMMA ConstTraced ==
  ASSUME LowererOK(method, graph, lower), method \in Seq(Instructions), Advanced,
         NEW a, NEW b, Took(a, b), LowerConst \/ LowerLdC
  PROVE  StraightStep(Op, a, b)
<1> DEFINE s == Append(lower.stack, NextId)
<1>1. Op.op \in {"const", "ldc"}
  BY DEF LowerConst, LowerLdC, Lowering
<1>2. ~Fail
  BY NotFailed
<1>3. /\ Op.t = "null" => Emit(<<PureNode("LdNull", <<>>)>>, s)
      /\ Op.t # "null" /\ Op.t # "float" => Emit(<<ConstInt(Op.n)>>, s)
  <2>1. CASE LowerConst
    BY <2>1 DEF LowerConst
  <2>2. CASE LowerLdC
    BY <1>2, <2>2, Zenon DEF LowerLdC
  <2> QED BY <2>1, <2>2
<1>4. s = Append(a.stack, a.len + 1)
  BY DEF Took, NextId
<1>5. Op.t = "null" => Grown(a, b, s, a.locals, 1) /\ b.nodes[1] = PureNode("LdNull", <<>>)
  <2> HIDE DEF s
  <2> QED BY <1>3, EmittedOne
<1>6. Op.t # "null" /\ Op.t # "float" =>
        Grown(a, b, s, a.locals, 1) /\ b.nodes[1] = ConstInt(Op.n)
  <2> HIDE DEF s
  <2> QED BY <1>3, EmittedOne
<1>7. PureNode("LdNull", <<>>).kind = "LdNull"
  BY NewNodeFields DEF PureNode
<1>8. ConstInt(Op.n).kind = "ConstInt" /\ ConstInt(Op.n).val = Op.n
  BY ConstFields
<1> HIDE DEF s
<1> QED BY <1>1, <1>4, <1>5, <1>6, <1>7, <1>8 DEF StraightStep

LEMMA LoadTraced ==
  ASSUME LowererOK(method, graph, lower), method \in Seq(Instructions), Advanced,
         NEW a, NEW b, Took(a, b), LowerLoad \/ LowerLdLoc
  PROVE  StraightStep(Op, a, b)
<1> DEFINE s == Append(lower.stack, lower.locals[Op.n])
<1>1. Op.op \in {"load", "ldloc"}
  BY DEF LowerLoad, LowerLdLoc, Lowering
<1>2. KnownLocal(Op.n) /\ Emit(<<>>, s)
  BY NotFailed DEF LowerLoad, LowerLdLoc
<1>3. Grown(a, b, s, a.locals, 0)
  <2> HIDE DEF s
  <2> QED BY <1>2, EmittedNothing
<1>4. s = Append(a.stack, a.locals[Op.n]) /\ Op.n \in DOMAIN a.locals
  BY <1>2 DEF Took, KnownLocal
<1> HIDE DEF s
<1> QED BY <1>1, <1>3, <1>4 DEF StraightStep

LEMMA StoreTraced ==
  ASSUME LowererOK(method, graph, lower), method \in Seq(Instructions), Advanced,
         NEW a, NEW b, Took(a, b), LowerStore \/ LowerStLoc
  PROVE  StraightStep(Op, a, b)
<1> DEFINE locals == [lower.locals EXCEPT ![Op.n] = Nth(0)]
<1>1. Op.op \in {"store", "stloc"}
  BY DEF LowerStore, LowerStLoc, Lowering
<1>2. /\ KnownLocal(Op.n) /\ Depth > 0 /\ graph' = graph
      /\ lower' = [lower EXCEPT !.pc = @ + 1, !.stack = Under(1), !.locals[Op.n] = Nth(0)]
  BY NotFailed DEF LowerStore, LowerStLoc
<1>3. lower = [pc |-> lower.pc, stack |-> lower.stack, locals |-> lower.locals,
               ctrl |-> lower.ctrl, eff |-> lower.eff, status |-> lower.status]
      /\ Len(graph) \in Nat
  BY DEF LowererOK, LoweredGraph
<1>4. lower'.stack = Under(1) /\ lower'.locals = locals
  BY <1>2, <1>3
<1>5. lower.stack # <<>> /\ Under(1) = Front(lower.stack) /\ Nth(0) = Last(lower.stack)
  BY <1>2, OnTop
<1>6. Grown(a, b, Front(a.stack), [a.locals EXCEPT ![Op.n] = Last(a.stack)], 0)
      /\ a.stack # <<>> /\ Op.n \in DOMAIN a.locals
  BY <1>2, <1>3, <1>4, <1>5 DEF Took, Grown, KnownLocal
<1> QED BY <1>1, <1>6 DEF StraightStep

LEMMA IincTraced ==
  ASSUME LowererOK(method, graph, lower), method \in Seq(Instructions), Advanced,
         NEW a, NEW b, Took(a, b), LowerIinc
  PROVE  StraightStep(Op, a, b)
<1> DEFINE x == ConstInt(Op.d)
           y == PureNode("Add", <<lower.locals[Op.n], NextId>>)
           v == NextId + 1
<1>1. Op.op = "iinc"
  BY DEF LowerIinc, Lowering
<1>2. /\ KnownLocal(Op.n) /\ graph' = graph \o <<x, y>>
      /\ lower' = [lower EXCEPT !.pc = @ + 1, !.locals[Op.n] = v]
  BY NotFailed DEF LowerIinc
<1>3. lower = [pc |-> lower.pc, stack |-> lower.stack, locals |-> lower.locals,
               ctrl |-> lower.ctrl, eff |-> lower.eff, status |-> lower.status]
  BY DEF LowererOK
<1>4. x.kind = "ConstInt" /\ x.val = Op.d /\ y.kind = "Add" /\ y.in = <<lower.locals[Op.n], NextId>>
  BY ConstFields, NewNodeFields DEF PureNode
<1>5. v = (a.len + 1) + 1 /\ NextId = a.len + 1
  BY DEF Took, NextId
<1> HIDE DEF x, y, v
<1>6. b.len = a.len + 2 /\ b.nodes[1] = x /\ b.nodes[2] = y
  BY <1>2, TwoMoreNodes
<1>7. lower'.stack = lower.stack /\ lower'.locals = [lower.locals EXCEPT ![Op.n] = v]
  BY <1>2, <1>3
<1>8. /\ Grown(a, b, a.stack, [a.locals EXCEPT ![Op.n] = (a.len + 1) + 1], 2)
      /\ Op.n \in DOMAIN a.locals
      /\ IsNode(b.nodes[2], "Add", <<a.locals[Op.n], a.len + 1>>)
  BY <1>2, <1>4, <1>5, <1>6, <1>7 DEF Took, Grown, IsNode, KnownLocal
<1> QED BY <1>1, <1>4, <1>6, <1>8 DEF StraightStep

LEMMA StackTraced ==
  ASSUME LowererOK(method, graph, lower), method \in Seq(Instructions), Advanced,
         NEW a, NEW b, Took(a, b), LowerStackOp
  PROVE  StraightStep(Op, a, b)
<1> DEFINE what == Op.what
           s == lower.stack
<1>1. Op.op = "stack" /\ Depth >= Needs(what) /\ Emit(<<>>, Shuffled(what))
  BY NotFailed DEF LowerStackOp, Lowering
<1>2. Depth \in Nat /\ s \in Seq(1..Len(graph)) /\ Depth = Len(s)
  BY StackFacts DEF Depth
<1>3. Grown(a, b, Shuffled(what), a.locals, 0) /\ a.stack = s
  BY <1>1, EmittedNothing DEF Took
<1> HIDE DEF what, s
<1>4. ASSUME what \in {"pop", "pop2", "dup", "dup_x1", "swap"}
      PROVE  /\ Shuffled(what) = StackAfter(what, s) /\ s # <<>>
             /\ what \in {"dup_x1", "swap"} => Front(s) # <<>>
  <2>1. /\ Depth > 0
        /\ what \in {"dup_x1", "swap"} => Depth > 1
    BY <1>1, <1>2, <1>4 DEF Needs
  <2>2. s # <<>> /\ Under(1) = Front(s) /\ Nth(0) = Last(s)
    BY <2>1, OnTop DEF s
  <2>3. Depth > 1 => /\ Front(s) # <<>> /\ Under(2) = Front(Front(s)) /\ Nth(1) = Last(Front(s))
    BY TwoOnTop DEF s
  <2>4. CASE what \in {"pop", "pop2", "dup"}
    BY <1>2, <2>2, <2>3, <2>4 DEF Shuffled, StackAfter, s
  <2>5. CASE what \in {"dup_x1", "swap"}
    <3> DEFINE x == Nth(0)
               y == Nth(1)
               u == Under(2)
    <3>1. u \in Seq(1..Len(graph)) /\ x \in 1..Len(graph) /\ y \in 1..Len(graph)
      <4>1. 0 \in 0..Depth - 1 /\ 1 \in 0..Depth - 1 /\ 2 \in 0..Depth
        BY <1>2, <2>1, <2>5
      <4> QED BY <4>1, StackFacts
    <3>2. /\ u \o <<x, y>> = Append(Append(u, x), y)
          /\ u \o <<x, y, x>> = Append(Append(Append(u, x), y), x)
      <4> HIDE DEF u, x, y
      <4> QED BY <3>1, AppendOneByOne
    <3>3. /\ what = "dup_x1" => Shuffled(what) = u \o <<x, y, x>>
          /\ what = "swap" => Shuffled(what) = u \o <<x, y>>
      BY DEF Shuffled
    <3>4. u = Front(Front(s)) /\ x = Last(s) /\ y = Last(Front(s))
      BY <2>1, <2>2, <2>3, <2>5
    <3> HIDE DEF u, x, y
    <3>5. /\ what = "dup_x1" => StackAfter(what, s) = Append(Append(Append(u, x), y), x)
          /\ what = "swap" => StackAfter(what, s) = Append(Append(u, x), y)
      BY <3>4 DEF StackAfter
    <3> QED BY <2>1, <2>2, <2>3, <2>5, <3>2, <3>3, <3>5
  <2> QED BY <1>4, <2>1, <2>2, <2>3, <2>4, <2>5
<1> QED BY <1>1, <1>3, <1>4 DEF StraightStep, what

LEMMA CilStackTraced ==
  ASSUME LowererOK(method, graph, lower), method \in Seq(Instructions), Advanced,
         NEW a, NEW b, Took(a, b), LowerCilStack
  PROVE  StraightStep(Op, a, b)
<1>1. CASE Lowering("cil_dup")
  <2>1. Depth > 0 /\ Emit(<<>>, Append(lower.stack, Nth(0))) /\ Op.op = "cil_dup"
    BY <1>1, NotFailed DEF LowerCilStack, Lowering
  <2>2. Grown(a, b, Append(lower.stack, Nth(0)), a.locals, 0)
    BY <2>1, EmittedNothing
  <2>3. a.stack # <<>> /\ Append(lower.stack, Nth(0)) = StackAfter("dup", a.stack)
    BY <2>1, OnTop DEF Took, StackAfter
  <2> QED BY <2>1, <2>2, <2>3 DEF StraightStep
<1>2. CASE Lowering("cil_pop")
  <2>1. Depth > 0 /\ Emit(<<>>, Under(1)) /\ Op.op = "cil_pop"
    BY <1>2, NotFailed DEF LowerCilStack, Lowering
  <2>2. Grown(a, b, Under(1), a.locals, 0)
    BY <2>1, EmittedNothing
  <2>3. a.stack # <<>> /\ Under(1) = StackAfter("pop", a.stack)
    BY <2>1, OnTop DEF Took, StackAfter
  <2> QED BY <2>1, <2>2, <2>3 DEF StraightStep
<1> QED BY <1>1, <1>2 DEF LowerCilStack

(* One node over the topmost operands.                                          *)
LEMMA PureTraced ==
  ASSUME LowererOK(method, graph, lower), method \in Seq(Instructions), Advanced,
         NEW a, NEW b, Took(a, b), NEW arity \in {1, 2}, NEW kind, Depth >= arity,
         Emit(<<PureNode(kind, Operands(arity))>>, Append(Under(arity), NextId))
  PROVE  /\ a.stack # <<>>
         /\ arity = 2 => /\ Front(a.stack) # <<>>
                         /\ IsNode(b.nodes[1], kind, <<Last(Front(a.stack)), Last(a.stack)>>)
                         /\ Grown(a, b, Append(Front(Front(a.stack)), a.len + 1), a.locals, 1)
         /\ arity = 1 => /\ IsNode(b.nodes[1], kind, <<Last(a.stack)>>)
                         /\ Grown(a, b, Append(Front(a.stack), a.len + 1), a.locals, 1)
<1> DEFINE n == PureNode(kind, Operands(arity))
           s == Append(Under(arity), NextId)
<1>1. n.kind = kind /\ n.in = Operands(arity)
  BY NewNodeFields DEF PureNode
<1>2. Emit(<<n>>, s)
  OBVIOUS
<1>3. Grown(a, b, s, a.locals, 1) /\ b.nodes[1] = n
  <2> HIDE DEF n, s
  <2> QED BY <1>2, EmittedOne
<1>4. Depth > 0 /\ (arity = 2 => Depth > 1)
  <2>1. Depth \in Nat /\ Depth >= arity /\ (arity = 1 \/ arity = 2)
    BY StackFacts
  <2> QED BY ONLY <2>1
<1>5. a.stack = lower.stack /\ NextId = a.len + 1
  BY DEF Took, NextId
<1>6. lower.stack # <<>> /\ Under(1) = Front(lower.stack) /\ Operands(1) = <<Last(lower.stack)>>
  BY <1>4, OnTop
<1>7. arity = 2 => /\ Front(lower.stack) # <<>> /\ Under(2) = Front(Front(lower.stack))
                   /\ Operands(2) = <<Last(Front(lower.stack)), Last(lower.stack)>>
  BY <1>4, TwoOnTop
<1> HIDE DEF n
<1> QED BY <1>1, <1>3, <1>5, <1>6, <1>7 DEF IsNode

LEMMA JvmPureTraced ==
  ASSUME LowererOK(method, graph, lower), method \in Seq(Instructions), Advanced,
         NEW a, NEW b, Took(a, b), LowerPure
  PROVE  StraightStep(Op, a, b)
<1>1. PICK op \in {"binary", "neg", "cmp", "conv"} :
        /\ Lowering(op)
        /\ LET arity == IF op \in {"binary", "cmp"} THEN 2 ELSE 1
           IN  IF Depth >= arity
                 THEN Emit(<<PureNode(PureKind, Operands(arity))>>, Append(Under(arity), NextId))
                 ELSE Fail
  BY DEF LowerPure
<1> DEFINE arity == IF op \in {"binary", "cmp"} THEN 2 ELSE 1
<1>2. /\ Op.op = op /\ arity \in {1, 2} /\ Depth >= arity
      /\ Emit(<<PureNode(PureKind, Operands(arity))>>, Append(Under(arity), NextId))
  BY <1>1, NotFailed DEF Lowering
<1>3. op = "conv" => Op.to \in ValueTypes
  BY <1>1, OpFields, InstructionFields
<1> HIDE DEF arity
<1>4. /\ a.stack # <<>>
      /\ arity = 2 => /\ Front(a.stack) # <<>>
                      /\ IsNode(b.nodes[1], PureKind, <<Last(Front(a.stack)), Last(a.stack)>>)
                      /\ Grown(a, b, Append(Front(Front(a.stack)), a.len + 1), a.locals, 1)
      /\ arity = 1 => /\ IsNode(b.nodes[1], PureKind, <<Last(a.stack)>>)
                      /\ Grown(a, b, Append(Front(a.stack), a.len + 1), a.locals, 1)
  BY <1>2, PureTraced
<1>5. CASE op = "binary"
  <2>1. PureKind = Op.kind /\ arity = 2 /\ Op.op = "binary"
    BY <1>2, <1>5 DEF PureKind, arity
  <2> QED BY <1>4, <2>1 DEF StraightStep
<1>6. CASE op = "neg"
  <2>1. PureKind = UnaryKind(Op) /\ arity = 1 /\ Op.op = "neg"
    BY <1>2, <1>6 DEF PureKind, UnaryKind, arity
  <2> QED BY <1>4, <2>1 DEF StraightStep
<1>7. CASE op = "conv"
  <2>1. (Op.to # "float" => PureKind = UnaryKind(Op)) /\ arity = 1 /\ Op.op = "conv"
    BY <1>2, <1>3, <1>7 DEF PureKind, UnaryKind, ValueTypes, arity
  <2> QED BY <1>4, <2>1 DEF StraightStep
<1>8. CASE op = "cmp"
  <2>1. Op.op = "cmp"
    BY <1>2, <1>8
  <2> QED BY <2>1 DEF StraightStep
<1> QED BY <1>1, <1>5, <1>6, <1>7, <1>8

LEMMA CilPureTraced ==
  ASSUME LowererOK(method, graph, lower), method \in Seq(Instructions), Advanced,
         NEW a, NEW b, Took(a, b), LowerCilPure
  PROVE  StraightStep(Op, a, b)
<1>1. ASSUME NEW kind, NEW arity \in {1, 2}, EmitPure(kind, arity)
      PROVE  /\ a.stack # <<>>
             /\ arity = 2 => /\ Front(a.stack) # <<>>
                             /\ IsNode(b.nodes[1], kind, <<Last(Front(a.stack)), Last(a.stack)>>)
                             /\ Grown(a, b, Append(Front(Front(a.stack)), a.len + 1), a.locals, 1)
             /\ arity = 1 => /\ IsNode(b.nodes[1], kind, <<Last(a.stack)>>)
                             /\ Grown(a, b, Append(Front(a.stack), a.len + 1), a.locals, 1)
  <2>1. /\ Depth >= arity
        /\ Emit(<<PureNode(kind, Operands(arity))>>, Append(Under(arity), NextId))
    BY <1>1, NotFailed DEF EmitPure
  <2> QED BY <1>1, <2>1, PureTraced
<1>2. CASE Lowering("cil_binary") /\ Op.kind \in LoweredArithmetic /\ EmitPure(Op.kind, 2)
  <2>1. Op.op = "cil_binary"
    BY <1>2 DEF Lowering
  <2>2. 2 \in {1, 2}
    OBVIOUS
  <2> QED BY <1>1, <1>2, <2>1, <2>2 DEF StraightStep
<1>3. CASE Lowering("compare") /\ EmitPure(Op.kind, 2)
  <2>1. Op.op = "compare"
    BY <1>3 DEF Lowering
  <2>2. 2 \in {1, 2}
    OBVIOUS
  <2> QED BY <1>1, <1>3, <2>1, <2>2 DEF StraightStep
<1> DEFINE conv == CASE Op.to = "int" -> "ConvI4" [] Op.to = "long" -> "ConvI8"
                     [] Op.to = "float" -> "ConvR8"
<1>4. CASE Lowering("conv_to") /\ EmitPure(conv, 1)
  <2>1. Op.op = "conv_to" /\ Op.to \in ValueTypes
    BY <1>4, OpFields, InstructionFields
  <2>2. 1 \in {1, 2} /\ (Op.to # "float" => conv = UnaryKind(Op))
    BY <2>1 DEF UnaryKind, ValueTypes
  <2> HIDE DEF conv
  <2> QED BY <1>1, <1>4, <2>1, <2>2 DEF StraightStep
<1> QED BY <1>2, <1>3, <1>4 DEF LowerCilPure

LEMMA ReturnTraced ==
  ASSUME LowererOK(method, graph, lower), method \in Seq(Instructions), Advanced,
         NEW a, NEW b, Took(a, b), LowerReturn \/ LowerRet
  PROVE  StraightStep(Op, a, b)
<1>1. Op.op \in {"return", "treturn", "ret"}
  BY DEF LowerReturn, LowerRet, Lowering
<1>2. CASE Op.op = "return"
  BY <1>2 DEF StraightStep
<1>3. CASE Op.op \in {"treturn", "ret"} /\ Depth > 0
  <2>1. Emit(<<ReturnOf(Nth(0))>>, Under(1))
    <3>1. Op.op # "return"
      BY <1>3
    <3> QED BY <1>3, <3>1, NotFailed DEF LowerReturn, LowerRet, Lowering
  <2>2. b.len = a.len + 1 /\ b.nodes[1] = ReturnOf(Nth(0))
    BY <2>1, EmittedOne DEF Grown
  <2>3. a.stack # <<>> /\ Nth(0) = Last(a.stack)
    BY <1>3, OnTop DEF Took
  <2>4. IsNode(ReturnOf(Nth(0)), "Return", <<Nth(0)>>)
    BY NewNodeFields DEF ReturnOf, IsNode
  <2> QED BY <1>3, <2>2, <2>3, <2>4 DEF StraightStep
<1>4. CASE Op.op \in {"treturn", "ret"} /\ ~(Depth > 0)
  <2>1. Op.op = "ret"
    BY <1>4, NotFailed DEF LowerReturn, LowerRet, Lowering
  <2>2. a.stack = <<>>
    BY <1>4, StackFacts, EmptySeq DEF Took, Depth
  <2> QED BY <2>1, <2>2 DEF StraightStep
<1> QED BY <1>1, <1>2, <1>3, <1>4

LEMMA TracedStep ==
  ASSUME LowererOK(method, graph, lower), method \in Seq(Instructions), Advanced,
         NEW a, NEW b, Took(a, b), LowerNext \/ CilLowerNext
  PROVE  StraightStep(Op, a, b)
<1>1. CASE LowerConst \/ LowerLdC
  BY <1>1, ConstTraced
<1>2. CASE LowerLoad \/ LowerLdLoc
  BY <1>2, LoadTraced
<1>3. CASE LowerStore \/ LowerStLoc
  BY <1>3, StoreTraced
<1>4. CASE LowerIinc
  BY <1>4, IincTraced
<1>5. CASE LowerStackOp
  BY <1>5, StackTraced
<1>6. CASE LowerCilStack
  BY <1>6, CilStackTraced
<1>7. CASE LowerPure
  BY <1>7, JvmPureTraced
<1>8. CASE LowerCilPure
  BY <1>8, CilPureTraced
<1>9. CASE LowerReturn \/ LowerRet
  BY <1>9, ReturnTraced
<1>10. CASE LowerEffect \/ LowerIf \/ LowerGoto \/ LowerBr \/ LowerObject \/ LowerBrIf \/ LowerBrCmp
  <2>1. Op.op \in {"effect", "if", "goto", "br", "object", "br_if", "br_cmp"}
    BY <1>10 DEF LowerEffect, LowerIf, LowerGoto, LowerBr, LowerObject, LowerBrIf, LowerBrCmp,
                 Lowering
  <2> QED BY <2>1 DEF StraightStep
<1>11. ~(LowerSwitch \/ LowerUnsupported)
  BY NotFailed DEF LowerSwitch, LowerUnsupported
<1>12. ~LowerEnd
  <2>1. LowerEnd => lower'.pc = lower.pc
    BY EndStep
  <2>2. lower'.pc = lower.pc + 1 /\ lower.pc \in Nat
    BY DEF Advanced, LowererOK
  <2> QED BY <2>1, <2>2
<1> QED
  BY <1>1, <1>2, <1>3, <1>4, <1>5, <1>6, <1>7, <1>8, <1>9, <1>10, <1>11, <1>12
     DEF LowerNext, CilLowerNext

-----------------------------------------------------------------------------
(* granit beside the lowered graph.  The stack and the slots of a frame hold    *)
(* what the nodes give that lowering has on its stack and in its slots.         *)

IsStack(s) == \E S : s \in Seq(S)

Matches(fs, ts, n, vals) ==
  /\ IsStack(fs) /\ ts \in Seq(1..n) /\ Len(fs) = Len(ts)
  /\ \A k \in 1..Len(ts) : fs[k].v = vals[ts[k]]

Slots(fl, tl, n, vals) ==
  /\ fl = [l \in DOMAIN tl |-> fl[l]] /\ tl = [l \in DOMAIN tl |-> tl[l]]
  /\ \A l \in DOMAIN tl : tl[l] \in 1..n /\ fl[l].v = vals[tl[l]]

IsFrame(f) == f = [pc |-> f.pc, stack |-> f.stack, locals |-> f.locals, error |-> f.error]

Follows(f, a, vals) ==
  /\ IsFrame(f) /\ ~f.error
  /\ Matches(f.stack, a.stack, a.len, vals) /\ Slots(f.locals, a.locals, a.len, vals)

LEMMA PushStack ==
  ASSUME NEW s, IsStack(s), NEW x
  PROVE  /\ IsStack(Append(s, x)) /\ Len(Append(s, x)) = Len(s) + 1
         /\ \A k \in 1..Len(s) : Append(s, x)[k] = s[k]
         /\ Append(s, x)[Len(s) + 1] = x
         /\ Len(s) \in Nat
<1>1. PICK S : s \in Seq(S)
  BY DEF IsStack
<1> DEFINE T == S \cup {x}
<1>2. s \in Seq(T) /\ x \in T
  <2>1. S \subseteq T /\ x \in T
    OBVIOUS
  <2> HIDE DEF T
  <2> QED BY <1>1, <2>1, SeqMonotonic
<1> HIDE DEF T
<1>3. /\ Append(s, x) \in Seq(T) /\ Len(Append(s, x)) = Len(s) + 1
      /\ \A k \in 1..Len(s) : Append(s, x)[k] = s[k]
      /\ Append(s, x)[Len(s) + 1] = x
  BY <1>2, AppendProperties
<1> QED BY <1>2, <1>3, LenProperties DEF IsStack

LEMMA PopStack ==
  ASSUME NEW s, IsStack(s), s # <<>>
  PROVE  /\ IsStack(Front(s)) /\ Len(Front(s)) = Len(s) - 1
         /\ \A k \in 1..Len(s) - 1 : Front(s)[k] = s[k]
         /\ Last(s) = s[Len(s)] /\ Len(s) \in Nat \ {0}
<1>1. PICK S : s \in Seq(S)
  BY DEF IsStack
<1> QED BY <1>1, TopOfSeq DEF IsStack

LEMMA EmptyStacks ==
  ASSUME NEW fs, NEW ts, NEW n, NEW vals, Matches(fs, ts, n, vals)
  PROVE  fs = <<>> <=> ts = <<>>
<1>1. PICK S : fs \in Seq(S)
  BY DEF Matches, IsStack
<1>2. (fs = <<>> <=> Len(fs) = 0) /\ (ts = <<>> <=> Len(ts) = 0)
  BY <1>1, EmptySeq DEF Matches
<1> QED BY <1>2 DEF Matches

LEMMA MatchPush ==
  ASSUME NEW fs, NEW ts, NEW n \in Nat, NEW vals, Matches(fs, ts, n, vals),
         NEW x, NEW id \in 1..n, x.v = vals[id]
  PROVE  Matches(Append(fs, x), Append(ts, id), n, vals)
<1>1. /\ IsStack(fs) /\ ts \in Seq(1..n) /\ Len(fs) = Len(ts) /\ Len(ts) \in Nat
      /\ \A k \in 1..Len(ts) : fs[k].v = vals[ts[k]]
  BY DEF Matches
<1> DEFINE f == Append(fs, x)
           t == Append(ts, id)
<1>2. /\ IsStack(f) /\ Len(f) = Len(fs) + 1 /\ \A k \in 1..Len(fs) : f[k] = fs[k]
      /\ f[Len(fs) + 1] = x
  BY <1>1, PushStack
<1>3. /\ t \in Seq(1..n) /\ Len(t) = Len(ts) + 1 /\ \A k \in 1..Len(ts) : t[k] = ts[k]
      /\ t[Len(ts) + 1] = id
  BY <1>1, AppendProperties
<1> HIDE DEF f, t
<1>4. ASSUME NEW k \in 1..Len(t) PROVE f[k].v = vals[t[k]]
  <2>1. k \in 1..Len(ts) \/ k = Len(ts) + 1
    BY <1>1, <1>3
  <2>2. CASE k \in 1..Len(ts)
    BY <1>1, <1>2, <1>3, <2>2
  <2>3. CASE k = Len(ts) + 1
    BY <1>1, <1>2, <1>3, <2>3
  <2> QED BY <2>1, <2>2, <2>3
<1>5. Matches(f, t, n, vals)
  BY <1>1, <1>2, <1>3, <1>4 DEF Matches
<1> QED BY <1>5 DEF f, t

LEMMA MatchPop ==
  ASSUME NEW fs, NEW ts, NEW n \in Nat, NEW vals, Matches(fs, ts, n, vals), ts # <<>>
  PROVE  /\ fs # <<>> /\ Matches(Front(fs), Front(ts), n, vals)
         /\ Last(ts) \in 1..n /\ Last(fs).v = vals[Last(ts)]
<1>1. /\ IsStack(fs) /\ ts \in Seq(1..n) /\ Len(fs) = Len(ts)
      /\ \A k \in 1..Len(ts) : fs[k].v = vals[ts[k]]
  BY DEF Matches
<1>2. fs # <<>>
  BY EmptyStacks
<1> DEFINE f == Front(fs)
           t == Front(ts)
<1>3. /\ IsStack(f) /\ Len(f) = Len(fs) - 1 /\ \A k \in 1..Len(fs) - 1 : f[k] = fs[k]
      /\ Last(fs) = fs[Len(fs)]
  BY <1>1, <1>2, PopStack
<1>4. /\ t \in Seq(1..n) /\ Len(t) = Len(ts) - 1 /\ \A k \in 1..Len(ts) - 1 : t[k] = ts[k]
      /\ Last(ts) \in 1..n /\ Last(ts) = ts[Len(ts)] /\ Len(ts) \in Nat \ {0}
  BY <1>1, TopOfSeq
<1> HIDE DEF f, t
<1>5. \A k \in 1..Len(t) : f[k].v = vals[t[k]]
  <2> SUFFICES ASSUME NEW k \in 1..Len(t) PROVE f[k].v = vals[t[k]]
    OBVIOUS
  <2>1. k \in 1..Len(ts) /\ k \in 1..Len(ts) - 1
    BY <1>4
  <2> QED BY <1>1, <1>3, <1>4, <2>1
<1>6. Matches(f, t, n, vals)
  BY <1>1, <1>3, <1>4, <1>5 DEF Matches
<1>7. Last(fs).v = vals[Last(ts)]
  <2>1. Len(ts) \in 1..Len(ts)
    BY <1>4
  <2> QED BY <1>1, <1>3, <1>4, <2>1
<1> QED BY <1>2, <1>4, <1>6, <1>7 DEF f, t

LEMMA MatchMore ==
  ASSUME NEW fs, NEW ts, NEW n \in Nat, NEW vals, Matches(fs, ts, n, vals),
         NEW m \in Nat, n <= m, NEW w, \A k \in 1..n : w[k] = vals[k]
  PROVE  Matches(fs, ts, m, w)
<1>1. 1..n \subseteq 1..m
  OBVIOUS
<1>2. ts \in Seq(1..m) /\ \A k \in 1..Len(ts) : ts[k] \in 1..n
  BY <1>1, SeqMonotonic, ElementOfSeq DEF Matches
<1> QED BY <1>2 DEF Matches

LEMMA SlotSet ==
  ASSUME NEW fl, NEW tl, NEW n, NEW vals, Slots(fl, tl, n, vals),
         NEW l \in DOMAIN tl, NEW id \in 1..n, NEW x, x.v = vals[id]
  PROVE  Slots([fl EXCEPT ![l] = x], [tl EXCEPT ![l] = id], n, vals)
<1> DEFINE f == [fl EXCEPT ![l] = x]
           t == [tl EXCEPT ![l] = id]
           D == DOMAIN tl
<1>1. fl = [i \in D |-> fl[i]] /\ tl = [i \in D |-> tl[i]]
      /\ \A i \in D : tl[i] \in 1..n /\ fl[i].v = vals[tl[i]]
  BY DEF Slots
<1> HIDE DEF D
<1>2. f = [i \in D |-> IF i = l THEN x ELSE fl[i]] /\ t = [i \in D |-> IF i = l THEN id ELSE tl[i]]
  BY <1>1
<1> HIDE DEF f, t
<1>3. DOMAIN t = D /\ f = [i \in D |-> f[i]] /\ t = [i \in D |-> t[i]]
  BY <1>2
<1>4. \A i \in D : t[i] \in 1..n /\ f[i].v = vals[t[i]]
  BY <1>1, <1>2
<1>5. Slots(f, t, n, vals)
  BY <1>3, <1>4 DEF Slots
<1> QED BY <1>5 DEF f, t

LEMMA SlotsMore ==
  ASSUME NEW fl, NEW tl, NEW n \in Nat, NEW vals, Slots(fl, tl, n, vals),
         NEW m \in Nat, n <= m, NEW w, \A k \in 1..n : w[k] = vals[k]
  PROVE  Slots(fl, tl, m, w)
<1>1. \A l \in DOMAIN tl : tl[l] \in 1..n
  BY DEF Slots
<1>2. \A l \in DOMAIN tl : tl[l] \in 1..m
  BY <1>1
<1> QED BY <1>1, <1>2 DEF Slots

LEMMA RaiseFacts ==
  ASSUME NEW f, IsFrame(f), NEW p
  PROVE  /\ IsFrame(Raise(f, p)) /\ Raise(f, p).pc = f.pc /\ Raise(f, p).stack = f.stack
         /\ Raise(f, p).locals = f.locals
         /\ ~Raise(f, p).error => ~f.error /\ ~p
<1> DEFINE h == Raise(f, p)
           e == f.error \/ p
<1>1. f = [pc |-> f.pc, stack |-> f.stack, locals |-> f.locals, error |-> f.error]
  BY DEF IsFrame
<1>2. h = [f EXCEPT !.error = e]
  BY DEF Raise
<1>3. ~e => ~f.error /\ ~p
  OBVIOUS
<1> HIDE DEF h, e
<1>4. h = [pc |-> f.pc, stack |-> f.stack, locals |-> f.locals, error |-> e]
  BY <1>1, <1>2
<1>5. h.pc = f.pc /\ h.stack = f.stack /\ h.locals = f.locals /\ h.error = e
  BY <1>4
<1>6. IsFrame(h)
  BY <1>4 DEF IsFrame
<1>7. ~h.error => ~f.error /\ ~p
  BY <1>3, <1>5
<1> QED BY <1>5, <1>6, <1>7 DEF h

LEMMA StackSet ==
  ASSUME NEW f, IsFrame(f), NEW s, NEW h, h = [f EXCEPT !.stack = s]
  PROVE  IsFrame(h) /\ h.pc = f.pc /\ h.locals = f.locals /\ h.stack = s /\ h.error = f.error
<1>1. h = [pc |-> f.pc, stack |-> s, locals |-> f.locals, error |-> f.error]
  BY DEF IsFrame
<1> QED BY <1>1 DEF IsFrame

LEMMA PushFacts ==
  ASSUME NEW f, IsFrame(f), NEW v
  PROVE  /\ IsFrame(Push(f, v)) /\ Push(f, v).pc = f.pc /\ Push(f, v).locals = f.locals
         /\ ~Push(f, v).error => ~f.error /\ Push(f, v).stack = Append(f.stack, v)
<1> DEFINE h == Push(f, v)
           s == Append(f.stack, v)
<1>1. CASE Len(f.stack) < KMaxJvmStack
  <2>1. h = [f EXCEPT !.stack = s]
    BY <1>1 DEF Push
  <2> HIDE DEF h, s
  <2>2. IsFrame(h) /\ h.pc = f.pc /\ h.locals = f.locals /\ h.stack = s /\ h.error = f.error
    BY ONLY IsFrame(f), <2>1, StackSet
  <2>3. ~h.error => ~f.error /\ h.stack = s
    BY ONLY <2>2
  <2> QED BY <2>2, <2>3 DEF h, s
<1>2. CASE ~(Len(f.stack) < KMaxJvmStack)
  <2>1. h = Raise(f, TRUE)
    BY <1>2 DEF Push
  <2>2. IsFrame(h) /\ h.pc = f.pc /\ h.locals = f.locals /\ (~h.error => ~TRUE)
    <3> HIDE DEF h
    <3> QED BY ONLY IsFrame(f), <2>1, RaiseFacts
  <2> QED BY <2>2 DEF h
<1> QED BY <1>1, <1>2

LEMMA PopFacts ==
  ASSUME NEW f, IsFrame(f)
  PROVE  /\ IsFrame(Pop(f)) /\ Pop(f).pc = f.pc /\ Pop(f).locals = f.locals
         /\ f.stack # <<>> => Pop(f).stack = Front(f.stack)
         /\ ~Pop(f).error => ~f.error /\ f.stack # <<>>
<1> DEFINE h == Pop(f)
           s == Front(f.stack)
<1>1. CASE f.stack # <<>>
  <2>1. h = [f EXCEPT !.stack = s]
    BY <1>1 DEF Pop
  <2> HIDE DEF h, s
  <2>2. IsFrame(h) /\ h.pc = f.pc /\ h.locals = f.locals /\ h.stack = s /\ h.error = f.error
    BY ONLY IsFrame(f), <2>1, StackSet
  <2>3. ~h.error => ~f.error
    BY ONLY <2>2
  <2> QED BY <1>1, <2>2, <2>3 DEF h, s
<1>2. CASE f.stack = <<>>
  <2>1. h = Raise(f, TRUE)
    BY <1>2 DEF Pop
  <2>2. IsFrame(h) /\ h.pc = f.pc /\ h.locals = f.locals /\ (~h.error => ~TRUE)
    <3> HIDE DEF h
    <3> QED BY ONLY IsFrame(f), <2>1, RaiseFacts
  <2> QED BY <1>2, <2>2 DEF h
<1> QED BY <1>1, <1>2

LEMMA TopFact ==
  ASSUME NEW f, f.stack # <<>>
  PROVE  Top(f) = Last(f.stack)
BY DEF Top

Fails == outcome'.status \in {"failed", "trapped"}

LEMMA BreakFacts ==
  ASSUME NEW f, IsFrame(f), Break(f)
  PROVE  \/ Fails
         \/ /\ ~f.error /\ outcome' = outcome /\ IsFrame(frame') /\ frame'.pc = f.pc + 1
            /\ frame'.stack = f.stack /\ frame'.locals = f.locals /\ ~frame'.error
<1>1. CASE f.error
  BY <1>1 DEF Break, Give, Fails
<1>2. CASE ~f.error
  <2> DEFINE p == f.pc + 1
  <2>1. frame' = [f EXCEPT !.pc = p] /\ outcome' = outcome
    BY <1>2 DEF Break
  <2> HIDE DEF p
  <2>2. frame' = [pc |-> p, stack |-> f.stack, locals |-> f.locals, error |-> f.error]
    BY <2>1 DEF IsFrame
  <2> QED BY <1>2, <2>1, <2>2 DEF IsFrame, p
<1> QED BY <1>1, <1>2

LEMMA GivesSame ==
  ASSUME NEW g, NEW env, NEW vals, NEW w, NEW id, NodeGives(g, env, vals, id), w[id] = vals[id],
         \A k \in 1..Len(g[id].in) : w[g[id].in[k]] = vals[g[id].in[k]]
  PROVE  NodeGives(g, env, w, id)
<1> DEFINE kd == g[id].kind
           l == Len(g[id].in)
           x == vals[g[id].in[1]]
           y == vals[g[id].in[2]]
           u == w[g[id].in[1]]
           z == w[g[id].in[2]]
<1>1. \/ kd = "Start" /\ vals[id] = 0
      \/ kd = "ConstInt" /\ vals[id] = g[id].val
      \/ kd = "LdNull" /\ vals[id] = 0
      \/ kd = "Phi" /\ vals[id] = env[id]
      \/ kd \in BinaryKinds /\ l = 2 /\ ~Traps(kd, x, y) /\ vals[id] = Arith(kd, x, y)
      \/ kd = "Neg" /\ l = 1 /\ vals[id] = Wrap64(-x)
      \/ kd = "ConvI4" /\ l = 1 /\ vals[id] = Wrap32(x)
      \/ kd = "ConvI8" /\ l = 1 /\ vals[id] = x
  BY Zenon DEF NodeGives
<1>2. (l = 1 => u = x) /\ (l = 2 => u = x /\ z = y)
  <2>1. (l = 1 => 1 \in 1..l) /\ (l = 2 => 1 \in 1..l /\ 2 \in 1..l)
    <3> HIDE DEF l
    <3> QED OBVIOUS
  <2> QED BY <2>1
<1>3. w[id] = vals[id]
  OBVIOUS
<1>4. \/ kd = "Start" /\ w[id] = 0
      \/ kd = "ConstInt" /\ w[id] = g[id].val
      \/ kd = "LdNull" /\ w[id] = 0
      \/ kd = "Phi" /\ w[id] = env[id]
      \/ kd \in BinaryKinds /\ l = 2 /\ ~Traps(kd, u, z) /\ w[id] = Arith(kd, u, z)
      \/ kd = "Neg" /\ l = 1 /\ w[id] = Wrap64(-u)
      \/ kd = "ConvI4" /\ l = 1 /\ w[id] = Wrap32(u)
      \/ kd = "ConvI8" /\ l = 1 /\ w[id] = u
  <2> HIDE DEF kd, l, x, y, u, z
  <2> QED BY ONLY <1>1, <1>2, <1>3
<1> QED BY <1>4, Zenon DEF NodeGives, kd, l, u, z

NodeComputes(n, vals, v) ==
  \/ n.kind = "ConstInt" /\ v = n.val
  \/ n.kind = "LdNull" /\ v = 0
  \/ /\ n.kind \in BinaryKinds /\ Len(n.in) = 2
     /\ ~Traps(n.kind, vals[n.in[1]], vals[n.in[2]])
     /\ v = Arith(n.kind, vals[n.in[1]], vals[n.in[2]])
  \/ n.kind = "Neg" /\ Len(n.in) = 1 /\ v = Wrap64(-vals[n.in[1]])
  \/ n.kind = "ConvI4" /\ Len(n.in) = 1 /\ v = Wrap32(vals[n.in[1]])
  \/ n.kind = "ConvI8" /\ Len(n.in) = 1 /\ v = vals[n.in[1]]

LEMMA NodeAdded ==
  ASSUME NEW g, LoweredGraph(g), NEW env, NEW vals, NEW n \in Nat, NEW id \in Nat, id = n + 1,
         id <= Len(g), NodesGive(g, env, vals, n), NEW v, NodeComputes(g[id], vals, v)
  PROVE  \E w : /\ NodesGive(g, env, w, id) /\ w[id] = v
                /\ \A k \in 1..n : w[k] = vals[k]
<1> DEFINE w == [k \in 1..id |-> IF k = id THEN v ELSE vals[k]]
<1>1. id \in 1..id /\ id \in 1..Len(g) /\ Len(g) \in Nat /\ 1..id = 1..n \cup {id}
      /\ \A k \in 1..n : k \in 1..id /\ k # id /\ k \in 1..Len(g)
  BY DEF LoweredGraph
<1>2. w[id] = v /\ \A k \in 1..n : w[k] = vals[k]
  <2> QED BY <1>1
<1>3. \A i \in 1..id : \A k \in 1..Len(g[i].in) : g[i].in[k] \in 1..n
  <2> SUFFICES ASSUME NEW i \in 1..id, NEW k \in 1..Len(g[i].in) PROVE g[i].in[k] \in 1..n
    OBVIOUS
  <2>1. g[i].in[k] \in 1..i - 1
    BY <1>1 DEF LoweredGraph, LoweredNode
  <2> QED BY <2>1
<1> HIDE DEF w
<1>4. ASSUME NEW i \in 1..n PROVE NodeGives(g, env, w, i)
  <2>1. NodeGives(g, env, vals, i)
    BY DEF NodesGive
  <2>2. w[i] = vals[i] /\ \A k \in 1..Len(g[i].in) : w[g[i].in[k]] = vals[g[i].in[k]]
    BY <1>1, <1>2, <1>3
  <2> QED BY <2>1, <2>2, GivesSame
<1>5. NodeGives(g, env, w, id)
  <2> DEFINE kd == g[id].kind
             l == Len(g[id].in)
             x == vals[g[id].in[1]]
             y == vals[g[id].in[2]]
             u == w[g[id].in[1]]
             z == w[g[id].in[2]]
             nv == g[id].val
  <2>1. \/ kd = "ConstInt" /\ v = nv
        \/ kd = "LdNull" /\ v = 0
        \/ kd \in BinaryKinds /\ l = 2 /\ ~Traps(kd, x, y) /\ v = Arith(kd, x, y)
        \/ kd = "Neg" /\ l = 1 /\ v = Wrap64(-x)
        \/ kd = "ConvI4" /\ l = 1 /\ v = Wrap32(x)
        \/ kd = "ConvI8" /\ l = 1 /\ v = x
    BY Zenon DEF NodeComputes
  <2>2. (l = 1 => u = x) /\ (l = 2 => u = x /\ z = y)
    <3>1. (l = 1 => 1 \in 1..l) /\ (l = 2 => 1 \in 1..l /\ 2 \in 1..l)
      <4> HIDE DEF l
      <4> QED OBVIOUS
    <3>2. \A k \in 1..Len(g[id].in) : w[g[id].in[k]] = vals[g[id].in[k]]
      BY <1>1, <1>2, <1>3
    <3> QED BY <3>1, <3>2
  <2>3. \/ kd = "ConstInt" /\ w[id] = nv
        \/ kd = "LdNull" /\ w[id] = 0
        \/ kd \in BinaryKinds /\ l = 2 /\ ~Traps(kd, u, z) /\ w[id] = Arith(kd, u, z)
        \/ kd = "Neg" /\ l = 1 /\ w[id] = Wrap64(-u)
        \/ kd = "ConvI4" /\ l = 1 /\ w[id] = Wrap32(u)
        \/ kd = "ConvI8" /\ l = 1 /\ w[id] = u
    <3> HIDE DEF kd, l, x, y, u, z, nv
    <3> QED BY ONLY <1>2, <2>1, <2>2
  <2> QED BY <2>3, Zenon DEF NodeGives, kd, l, u, z, nv
<1>6. NodesGive(g, env, w, id)
  <2> QED BY <1>1, <1>4, <1>5 DEF NodesGive
<1> QED BY <1>2, <1>6

-----------------------------------------------------------------------------
(* One instruction of granit that is one step of the trace.                     *)

Here(g, env, a, b, vals) ==
  /\ LoweredGraph(g) /\ a.len \in Nat /\ b.len \in Nat /\ b.len <= Len(g)
  /\ \A j \in 1..b.len - a.len : g[a.len + j] = b.nodes[j]
  /\ NodesGive(g, env, vals, a.len) /\ Follows(frame, a, vals)

Advances(g, env, b) ==
  /\ outcome' = outcome /\ frame'.pc = frame.pc + 1
  /\ \E w : NodesGive(g, env, w, b.len) /\ Follows(frame', b, w)

(* The frame after the switch is one that follows, or granit fails.             *)
LEMMA BreakAdvances ==
  ASSUME NEW g, NEW env, NEW b, NEW w, NodesGive(g, env, w, b.len),
         NEW f, IsFrame(f), f.pc = frame.pc, Break(f),
         ~f.error => /\ Matches(f.stack, b.stack, b.len, w)
                     /\ Slots(f.locals, b.locals, b.len, w)
  PROVE  Fails \/ Advances(g, env, b)
<1>1. \/ Fails
      \/ /\ ~f.error /\ outcome' = outcome /\ IsFrame(frame') /\ frame'.pc = f.pc + 1
         /\ frame'.stack = f.stack /\ frame'.locals = f.locals /\ ~frame'.error
  BY BreakFacts
<1>2. CASE Fails
  BY <1>2
<1>3. CASE /\ ~f.error /\ outcome' = outcome /\ IsFrame(frame') /\ frame'.pc = f.pc + 1
           /\ frame'.stack = f.stack /\ frame'.locals = f.locals /\ ~frame'.error
  <2>1. Follows(frame', b, w)
    BY <1>3 DEF Follows
  <2> QED BY <1>3, <2>1 DEF Advances
<1> QED BY <1>1, <1>2, <1>3

(* The first node of the step, and what it gives.                               *)
LEMMA NodeOfStep ==
  ASSUME NEW g, NEW env, NEW a, NEW b, NEW vals, Here(g, env, a, b, vals), b.len = a.len + 1,
         NEW v, NodeComputes(b.nodes[1], vals, v)
  PROVE  \E w : /\ NodesGive(g, env, w, b.len) /\ w[b.len] = v /\ b.len \in 1..b.len
                /\ \A k \in 1..a.len : w[k] = vals[k]
                /\ Matches(frame.stack, a.stack, b.len, w)
                /\ Slots(frame.locals, a.locals, b.len, w)
<1>1. /\ LoweredGraph(g) /\ a.len \in Nat /\ a.len + 1 <= Len(g) /\ NodesGive(g, env, vals, a.len)
      /\ 1 \in 1..b.len - a.len /\ b.len \in Nat /\ a.len <= b.len /\ b.len \in 1..b.len
      /\ \A j \in 1..b.len - a.len : g[a.len + j] = b.nodes[j]
  BY DEF Here
<1>2. NodeComputes(g[b.len], vals, v)
  BY <1>1
<1>3. PICK w : /\ NodesGive(g, env, w, b.len) /\ w[b.len] = v
               /\ \A k \in 1..a.len : w[k] = vals[k]
  <2> DEFINE n == a.len
             id == b.len
  <2>1. LoweredGraph(g) /\ n \in Nat /\ id \in Nat /\ id = n + 1 /\ id <= Len(g)
        /\ NodesGive(g, env, vals, n) /\ NodeComputes(g[id], vals, v)
    BY <1>1, <1>2
  <2> HIDE DEF n, id
  <2>2. \E w : NodesGive(g, env, w, id) /\ w[id] = v /\ \A k \in 1..n : w[k] = vals[k]
    BY ONLY <2>1, NodeAdded
  <2> QED BY <2>2 DEF n, id
<1>4. Matches(frame.stack, a.stack, a.len, vals) /\ Slots(frame.locals, a.locals, a.len, vals)
  BY DEF Here, Follows
<1>5. Matches(frame.stack, a.stack, b.len, w)
  BY <1>1, <1>3, <1>4, MatchMore
<1>6. Slots(frame.locals, a.locals, b.len, w)
  BY <1>1, <1>3, <1>4, SlotsMore
<1> QED BY <1>1, <1>3, <1>5, <1>6

(* A value pushed for the node of the step, on the frame or on one below it.    *)
LEMMA PushAdvances ==
  ASSUME NEW g, NEW env, NEW b, NEW w, NodesGive(g, env, w, b.len), b.len \in Nat,
         NEW f, IsFrame(f), f.pc = frame.pc, NEW x, Break(Push(f, x)),
         NEW ts, NEW id, b.stack = Append(ts, id),
         ~f.error => /\ Matches(f.stack, ts, b.len, w) /\ id \in 1..b.len /\ x.v = w[id]
                     /\ Slots(f.locals, b.locals, b.len, w)
  PROVE  Fails \/ Advances(g, env, b)
<1> DEFINE h == Push(f, x)
<1>1. IsFrame(h) /\ h.pc = f.pc /\ h.locals = f.locals
      /\ (~h.error => ~f.error /\ h.stack = Append(f.stack, x))
  BY PushFacts
<1>2. Break(h)
  OBVIOUS
<1> HIDE DEF h
<1>3. ~h.error => /\ Matches(h.stack, b.stack, b.len, w)
                  /\ Slots(h.locals, b.locals, b.len, w)
  <2> SUFFICES ASSUME ~h.error
               PROVE  /\ Matches(h.stack, b.stack, b.len, w)
                      /\ Slots(h.locals, b.locals, b.len, w)
    OBVIOUS
  <2>1. Matches(f.stack, ts, b.len, w) /\ id \in 1..b.len /\ x.v = w[id]
        /\ Slots(f.locals, b.locals, b.len, w) /\ h.stack = Append(f.stack, x)
    BY <1>1
  <2>2. Matches(Append(f.stack, x), Append(ts, id), b.len, w)
    BY <2>1, MatchPush
  <2> QED BY <1>1, <2>1, <2>2
<1> QED BY <1>1, <1>2, <1>3, BreakAdvances

LEMMA HereFacts ==
  ASSUME NEW g, NEW env, NEW a, NEW b, NEW vals, Here(g, env, a, b, vals)
  PROVE  /\ a.len \in Nat /\ b.len \in Nat /\ NodesGive(g, env, vals, a.len)
         /\ IsFrame(frame) /\ ~frame.error
         /\ Matches(frame.stack, a.stack, a.len, vals) /\ Slots(frame.locals, a.locals, a.len, vals)
BY DEF Here, Follows

LEMMA NullIsZero ==
  ASSUME NEW i \in Instructions, i.op \in {"const", "ldc"}, i.t = "null"
  PROVE  i.n = 0
<1>1. CASE i \in JvmInstructions
  BY <1>1 DEF JvmInstructions, ValueTypes
<1>2. CASE i \in CilInstructions
  BY <1>2 DEF CilInstructions, ValueTypes
<1> QED BY <1>1, <1>2 DEF Instructions

LEMMA ConstFollows ==
  ASSUME NEW g, NEW env, NEW a, NEW b, NEW vals, Here(g, env, a, b, vals),
         StraightStep(Instr, a, b), Instr \in Instructions,
         Constant \/ CilConstant, Instr.t # "float"
  PROVE  Fails \/ Advances(g, env, b)
<1>1. Instr.op \in {"const", "ldc"} /\ Break(Push(frame, Value(Instr.t, Instr.n)))
  BY DEF Constant, CilConstant, At
<1>2. /\ Instr.t = "null" => b.nodes[1].kind = "LdNull"
      /\ Instr.t # "null" => b.nodes[1].kind = "ConstInt" /\ b.nodes[1].val = Instr.n
      /\ b.stack = Append(a.stack, a.len + 1) /\ b.locals = a.locals /\ b.len = a.len + 1
  BY <1>1 DEF StraightStep, Grown
<1>3. NodeComputes(b.nodes[1], vals, Instr.n)
  BY <1>1, <1>2, NullIsZero DEF NodeComputes
<1>4. PICK w : /\ NodesGive(g, env, w, b.len) /\ w[b.len] = Instr.n /\ b.len \in 1..b.len
               /\ \A k \in 1..a.len : w[k] = vals[k]
               /\ Matches(frame.stack, a.stack, b.len, w)
               /\ Slots(frame.locals, a.locals, b.len, w)
  <2>1. b.len = a.len + 1
    BY <1>2
  <2> QED BY ONLY <1>3, <2>1, Here(g, env, a, b, vals), NodeOfStep
<1>5. IsFrame(frame) /\ b.len \in Nat
  BY HereFacts
<1> DEFINE x == Value(Instr.t, Instr.n)
           id == b.len
<1>6. x.v = w[id] /\ b.stack = Append(a.stack, id) /\ Break(Push(frame, x))
  BY <1>1, <1>2, <1>4 DEF Value
<1>7. Slots(frame.locals, b.locals, b.len, w) /\ Matches(frame.stack, a.stack, b.len, w) /\ id \in 1..b.len
  BY <1>2, <1>4
<1>8. NodesGive(g, env, w, b.len) /\ frame.pc = frame.pc
  BY <1>4
<1> HIDE DEF x, id
<1> QED BY ONLY <1>5, <1>6, <1>7, <1>8, PushAdvances

LEMMA LoadFollows ==
  ASSUME NEW g, NEW env, NEW a, NEW b, NEW vals, Here(g, env, a, b, vals),
         StraightStep(Instr, a, b), LoadLocal \/ LoadSlot
  PROVE  Fails \/ Advances(g, env, b)
<1> DEFINE x == frame.locals[Instr.n]
           id == a.locals[Instr.n]
<1>1. Instr.op \in {"load", "ldloc"} /\ Break(Push(frame, x))
  BY DEF LoadLocal, LoadSlot, At
<1>2. /\ Instr.n \in DOMAIN a.locals /\ b.stack = Append(a.stack, id) /\ b.locals = a.locals
      /\ b.len = a.len + 0
  BY <1>1 DEF StraightStep, Grown
<1>3. /\ a.len \in Nat /\ NodesGive(g, env, vals, a.len) /\ IsFrame(frame)
      /\ Matches(frame.stack, a.stack, a.len, vals) /\ Slots(frame.locals, a.locals, a.len, vals)
  BY HereFacts
<1>4. b.len = a.len /\ b.len \in Nat
  BY <1>2, <1>3
<1>5. id \in 1..b.len /\ x.v = vals[id]
  BY <1>2, <1>3, <1>4 DEF Slots
<1>6. /\ NodesGive(g, env, vals, b.len) /\ Matches(frame.stack, a.stack, b.len, vals)
      /\ Slots(frame.locals, b.locals, b.len, vals) /\ b.stack = Append(a.stack, id)
      /\ frame.pc = frame.pc
  BY <1>2, <1>3, <1>4
<1> HIDE DEF x, id
<1> QED BY ONLY <1>1, <1>3, <1>4, <1>5, <1>6, PushAdvances

LEMMA StoreFollows ==
  ASSUME NEW g, NEW env, NEW a, NEW b, NEW vals, Here(g, env, a, b, vals),
         StraightStep(Instr, a, b), StoreLocal \/ StoreSlot
  PROVE  Fails \/ Advances(g, env, b)
<1> DEFINE x == Top(frame)
           id == Last(a.stack)
           l == Instr.n
           p == Pop(frame)
           f == [p EXCEPT !.locals[l] = x]
<1>1. Instr.op \in {"store", "stloc", "starg"} /\ Break(f)
  BY DEF StoreLocal, StoreSlot, At
<1>2. /\ l \in DOMAIN a.locals /\ a.stack # <<>> /\ b.stack = Front(a.stack)
      /\ b.locals = [a.locals EXCEPT ![l] = id] /\ b.len = a.len + 0
  BY <1>1 DEF StraightStep, Grown
<1>3. /\ a.len \in Nat /\ NodesGive(g, env, vals, a.len) /\ IsFrame(frame)
      /\ Matches(frame.stack, a.stack, a.len, vals) /\ Slots(frame.locals, a.locals, a.len, vals)
  BY HereFacts
<1>4. b.len = a.len
  BY <1>2, <1>3
<1>5. /\ frame.stack # <<>> /\ Matches(Front(frame.stack), Front(a.stack), a.len, vals)
      /\ id \in 1..a.len /\ Last(frame.stack).v = vals[id]
  <2> DEFINE n == a.len
             fs == frame.stack
             ts == a.stack
  <2>1. n \in Nat /\ Matches(fs, ts, n, vals) /\ ts # <<>>
    BY <1>2, <1>3
  <2> HIDE DEF n, fs, ts
  <2>2. /\ fs # <<>> /\ Matches(Front(fs), Front(ts), n, vals)
        /\ Last(ts) \in 1..n /\ Last(fs).v = vals[Last(ts)]
    BY ONLY <2>1, MatchPop
  <2> QED BY <2>2 DEF n, fs, ts
<1>6. x.v = vals[id]
  BY <1>5, TopFact
<1>7. /\ IsFrame(p) /\ p.pc = frame.pc /\ p.locals = frame.locals /\ p.stack = Front(frame.stack)
  BY <1>3, <1>5, PopFacts
<1> HIDE DEF x, id, l, p
<1>8. f = [pc |-> p.pc, stack |-> p.stack, locals |-> [p.locals EXCEPT ![l] = x], error |-> p.error]
  BY <1>7 DEF IsFrame
<1> HIDE DEF f
<1>9. IsFrame(f) /\ f.pc = frame.pc /\ f.stack = Front(frame.stack)
      /\ f.locals = [frame.locals EXCEPT ![l] = x]
  BY <1>7, <1>8 DEF IsFrame
<1>10. Slots([frame.locals EXCEPT ![l] = x], [a.locals EXCEPT ![l] = id], a.len, vals)
  BY <1>2, <1>3, <1>5, <1>6, SlotSet
<1>11. Matches(f.stack, b.stack, b.len, vals) /\ Slots(f.locals, b.locals, b.len, vals)
       /\ NodesGive(g, env, vals, b.len)
  BY <1>2, <1>3, <1>4, <1>5, <1>9, <1>10
<1> QED BY ONLY <1>1, <1>9, <1>11, BreakAdvances

(* Frames while an instruction works on them.                                   *)
Fits(f, ts, locals, n, vals) ==
  /\ IsFrame(f) /\ f.pc = frame.pc
  /\ ~f.error => Matches(f.stack, ts, n, vals) /\ Slots(f.locals, locals, n, vals)

LEMMA FitsPush ==
  ASSUME NEW f, NEW ts, NEW locals, NEW n \in Nat, NEW vals, Fits(f, ts, locals, n, vals),
         NEW x, NEW id \in 1..n, x.v = vals[id]
  PROVE  Fits(Push(f, x), Append(ts, id), locals, n, vals)
<1> DEFINE h == Push(f, x)
<1>1. IsFrame(h) /\ h.pc = f.pc /\ h.locals = f.locals
      /\ (~h.error => ~f.error /\ h.stack = Append(f.stack, x))
  BY PushFacts DEF Fits
<1> HIDE DEF h
<1>2. ASSUME ~h.error
      PROVE  Matches(h.stack, Append(ts, id), n, vals) /\ Slots(h.locals, locals, n, vals)
  <2>1. Matches(f.stack, ts, n, vals) /\ Slots(f.locals, locals, n, vals)
    BY <1>1, <1>2 DEF Fits
  <2>2. Matches(Append(f.stack, x), Append(ts, id), n, vals)
    <3> DEFINE fs == f.stack
    <3>1. Matches(fs, ts, n, vals)
      BY <2>1
    <3> HIDE DEF fs
    <3>2. Matches(Append(fs, x), Append(ts, id), n, vals)
      BY <3>1, MatchPush
    <3> QED BY <3>2 DEF fs
  <2> QED BY <1>1, <1>2, <2>1, <2>2
<1>3. Fits(h, Append(ts, id), locals, n, vals)
  BY <1>1, <1>2 DEF Fits
<1> QED BY <1>3 DEF h

LEMMA MatchedTop ==
  ASSUME NEW f, NEW ts, NEW n \in Nat, NEW vals, Matches(f.stack, ts, n, vals), ts # <<>>
  PROVE  /\ f.stack # <<>> /\ Matches(Front(f.stack), Front(ts), n, vals)
         /\ Last(ts) \in 1..n /\ Top(f).v = vals[Last(ts)]
<1> DEFINE fs == f.stack
<1>1. Matches(fs, ts, n, vals)
  OBVIOUS
<1> HIDE DEF fs
<1>2. /\ fs # <<>> /\ Matches(Front(fs), Front(ts), n, vals)
      /\ Last(ts) \in 1..n /\ Last(fs).v = vals[Last(ts)]
  BY <1>1, MatchPop
<1>3. Top(f) = Last(fs)
  BY <1>2, TopFact DEF fs
<1> QED BY <1>2, <1>3 DEF fs

LEMMA FitsPop ==
  ASSUME NEW f, NEW ts, NEW locals, NEW n \in Nat, NEW vals, Fits(f, ts, locals, n, vals),
         ts # <<>>
  PROVE  Fits(Pop(f), Front(ts), locals, n, vals)
<1> DEFINE h == Pop(f)
<1>1. /\ IsFrame(h) /\ h.pc = f.pc /\ h.locals = f.locals
      /\ (f.stack # <<>> => h.stack = Front(f.stack))
      /\ (~h.error => ~f.error /\ f.stack # <<>>)
  BY PopFacts DEF Fits
<1> HIDE DEF h
<1>2. ASSUME ~h.error
      PROVE  Matches(h.stack, Front(ts), n, vals) /\ Slots(h.locals, locals, n, vals)
  <2>1. Matches(f.stack, ts, n, vals) /\ Slots(f.locals, locals, n, vals)
    BY <1>1, <1>2 DEF Fits
  <2>2. Matches(Front(f.stack), Front(ts), n, vals)
    BY <2>1, MatchedTop
  <2> QED BY <1>1, <1>2, <2>1, <2>2
<1>3. Fits(h, Front(ts), locals, n, vals)
  BY <1>1, <1>2 DEF Fits
<1> QED BY <1>3 DEF h

LEMMA FitsRaise ==
  ASSUME NEW f, NEW ts, NEW locals, NEW n, NEW vals, Fits(f, ts, locals, n, vals), NEW p
  PROVE  Fits(Raise(f, p), ts, locals, n, vals)
<1> DEFINE h == Raise(f, p)
<1>1. /\ IsFrame(h) /\ h.pc = f.pc /\ h.locals = f.locals /\ h.stack = f.stack
      /\ (~h.error => ~f.error /\ ~p)
  BY RaiseFacts DEF Fits
<1> HIDE DEF h
<1>2. Fits(h, ts, locals, n, vals)
  BY <1>1 DEF Fits
<1> QED BY <1>2 DEF h

LEMMA FitsBreak ==
  ASSUME NEW g, NEW env, NEW b, NEW w, NodesGive(g, env, w, b.len),
         NEW f, Fits(f, b.stack, b.locals, b.len, w), Break(f)
  PROVE  Fails \/ Advances(g, env, b)
<1>1. IsFrame(f) /\ f.pc = frame.pc
      /\ (~f.error => /\ Matches(f.stack, b.stack, b.len, w)
                      /\ Slots(f.locals, b.locals, b.len, w))
  BY DEF Fits
<1> QED BY <1>1, BreakAdvances

LEMMA ErrorFails ==
  ASSUME NEW f, IsFrame(f), NEW x, Break(Push(Raise(f, TRUE), x))
  PROVE  Fails
<1> DEFINE r == Raise(f, TRUE)
           h == Push(r, x)
<1>1. IsFrame(r) /\ (~r.error => ~TRUE)
  BY RaiseFacts
<1> HIDE DEF r
<1>2. IsFrame(h) /\ (~h.error => ~r.error)
  BY <1>1, PushFacts
<1>3. Break(h)
  BY DEF r
<1> HIDE DEF h
<1> QED BY <1>1, <1>2, <1>3, BreakFacts

(* The frame at the start of the step, and the values on top of its stack.      *)
LEMMA FrameFits ==
  ASSUME NEW g, NEW env, NEW a, NEW b, NEW vals, Here(g, env, a, b, vals)
  PROVE  /\ Fits(frame, a.stack, a.locals, a.len, vals) /\ a.len \in Nat
         /\ NodesGive(g, env, vals, a.len)
         /\ a.stack # <<>> =>
              /\ Last(a.stack) \in 1..a.len /\ Top(frame).v = vals[Last(a.stack)]
              /\ Fits(Pop(frame), Front(a.stack), a.locals, a.len, vals)
              /\ (Pop(frame).stack = <<>> <=> Front(a.stack) = <<>>)
              /\ Front(a.stack) # <<>> =>
                   /\ Last(Front(a.stack)) \in 1..a.len
                   /\ Top(Pop(frame)).v = vals[Last(Front(a.stack))]
                   /\ Fits(Pop(Pop(frame)), Front(Front(a.stack)), a.locals, a.len, vals)
<1> DEFINE ts == a.stack
           n == a.len
           f == frame
           p == Pop(f)
           tp == Front(ts)
           locals == a.locals
<1>1. /\ n \in Nat /\ NodesGive(g, env, vals, n) /\ IsFrame(f) /\ ~f.error
      /\ Matches(f.stack, ts, n, vals) /\ Slots(f.locals, locals, n, vals)
  BY HereFacts
<1> HIDE DEF ts, n
<1>2. Fits(f, ts, locals, n, vals)
  BY <1>1 DEF Fits
<1>3. ASSUME ts # <<>>
      PROVE  /\ Last(ts) \in 1..n /\ Top(f).v = vals[Last(ts)]
             /\ Matches(p.stack, tp, n, vals) /\ Fits(p, tp, locals, n, vals)
             /\ (p.stack = <<>> <=> tp = <<>>)
  <2>1. /\ f.stack # <<>> /\ Matches(Front(f.stack), Front(ts), n, vals)
        /\ Last(ts) \in 1..n /\ Top(f).v = vals[Last(ts)]
    BY <1>1, <1>3, MatchedTop
  <2>2. p.stack = Front(f.stack)
    BY <1>1, <2>1, PopFacts
  <2>3. Matches(p.stack, tp, n, vals)
    BY <2>1, <2>2
  <2>4. Fits(p, tp, locals, n, vals)
    <3> HIDE DEF f, locals
    <3> QED BY <1>1, <1>2, <1>3, FitsPop
  <2>5. p.stack = <<>> <=> tp = <<>>
    <3> DEFINE fs == p.stack
    <3>1. Matches(fs, tp, n, vals)
      BY <2>3
    <3> HIDE DEF fs, tp
    <3>2. fs = <<>> <=> tp = <<>>
      BY <3>1, EmptyStacks
    <3> QED BY <3>2 DEF fs
  <2> QED BY <2>1, <2>3, <2>4, <2>5
<1> HIDE DEF p, tp
<1>4. ASSUME ts # <<>>, tp # <<>>
      PROVE  /\ Last(tp) \in 1..n /\ Top(p).v = vals[Last(tp)]
             /\ Fits(Pop(p), Front(tp), locals, n, vals)
  <2>1. Matches(p.stack, tp, n, vals) /\ Fits(p, tp, locals, n, vals)
    BY <1>3, <1>4
  <2> HIDE DEF locals
  <2> QED BY <1>1, <1>4, <2>1, MatchedTop, FitsPop
<1> QED BY <1>1, <1>2, <1>3, <1>4 DEF ts, n, p, tp

ComputesAfter(node, n, vals, id, u, v) ==
  \A w : w[id] = u /\ (\A k \in 1..n : w[k] = vals[k]) => NodeComputes(node, w, v)

(* Two nodes of a step, of which the second may use the first.                  *)
TwoNodes(g, env, a, b, vals, id, u, v) ==
  /\ Here(g, env, a, b, vals) /\ id = a.len + 1 /\ b.len = id + 1
  /\ NodeComputes(b.nodes[1], vals, u) /\ ComputesAfter(b.nodes[2], a.len, vals, id, u, v)

LEMMA NodesOfStep ==
  ASSUME NEW g, NEW env, NEW a, NEW b, NEW vals, NEW id, NEW u, NEW v,
         TwoNodes(g, env, a, b, vals, id, u, v)
  PROVE  \E w : /\ NodesGive(g, env, w, b.len) /\ w[b.len] = v /\ b.len \in 1..b.len
                /\ Matches(frame.stack, a.stack, b.len, w)
                /\ Slots(frame.locals, a.locals, b.len, w)
<1> DEFINE n == a.len
           m == b.len
<1>1. /\ LoweredGraph(g) /\ n \in Nat /\ id \in Nat /\ m \in Nat /\ id <= Len(g) /\ m <= Len(g)
      /\ NodesGive(g, env, vals, n) /\ Len(g) \in Nat /\ id = n + 1 /\ m = id + 1
      /\ g[id] = b.nodes[1] /\ g[m] = b.nodes[2]
  <2>1. /\ LoweredGraph(g) /\ n \in Nat /\ m \in Nat /\ m <= Len(g) /\ Len(g) \in Nat
        /\ NodesGive(g, env, vals, n)
        /\ \A j \in 1..m - n : g[n + j] = b.nodes[j]
    BY DEF TwoNodes, Here, LoweredGraph
  <2>2. id = n + 1 /\ m = id + 1
    BY DEF TwoNodes
  <2> HIDE DEF n, m
  <2>3. 1 \in 1..m - n /\ 2 \in 1..m - n /\ n + 1 = id /\ n + 2 = m /\ id \in Nat /\ id <= Len(g)
    BY ONLY <2>1, <2>2
  <2> QED BY <2>1, <2>2, <2>3 DEF TwoNodes
<1>2. Matches(frame.stack, a.stack, n, vals) /\ Slots(frame.locals, a.locals, n, vals)
  BY DEF TwoNodes, Here, Follows
<1>3. NodeComputes(g[id], vals, u)
  BY <1>1 DEF TwoNodes
<1>4. \A w : w[id] = u /\ (\A k \in 1..n : w[k] = vals[k]) => NodeComputes(g[m], w, v)
  BY <1>1 DEF TwoNodes, ComputesAfter
<1> HIDE DEF n, m
<1>5. PICK w : NodesGive(g, env, w, id) /\ w[id] = u /\ \A k \in 1..n : w[k] = vals[k]
  <2>1. LoweredGraph(g) /\ n \in Nat /\ id \in Nat /\ id = n + 1 /\ id <= Len(g)
        /\ NodesGive(g, env, vals, n) /\ NodeComputes(g[id], vals, u)
    BY ONLY <1>1, <1>3
  <2> QED BY ONLY <2>1, NodeAdded
<1>6. NodeComputes(g[m], w, v)
  BY ONLY <1>4, <1>5
<1>7. PICK z : NodesGive(g, env, z, m) /\ z[m] = v /\ \A k \in 1..id : z[k] = w[k]
  <2>1. LoweredGraph(g) /\ id \in Nat /\ m \in Nat /\ m = id + 1 /\ m <= Len(g)
        /\ NodesGive(g, env, w, id) /\ NodeComputes(g[m], w, v)
    BY ONLY <1>1, <1>5, <1>6
  <2> QED BY ONLY <2>1, NodeAdded
<1>8. (\A k \in 1..n : z[k] = vals[k]) /\ n <= m /\ m \in 1..m
  <2>1. n <= m /\ m \in 1..m /\ \A k \in 1..n : k \in 1..id
    BY ONLY <1>1
  <2> QED BY <1>5, <1>7, <2>1
<1>9. Matches(frame.stack, a.stack, m, z)
  <2> DEFINE fs == frame.stack
             ts == a.stack
  <2> HIDE DEF fs, ts
  <2>1. Matches(fs, ts, n, vals)
    BY <1>2 DEF fs, ts
  <2>2. Matches(fs, ts, m, z)
    BY ONLY <1>1, <1>8, <2>1, MatchMore
  <2> QED BY <2>2 DEF fs, ts
<1>10. Slots(frame.locals, a.locals, m, z)
  <2> DEFINE fl == frame.locals
             tl == a.locals
  <2> HIDE DEF fl, tl
  <2>1. Slots(fl, tl, n, vals)
    BY <1>2 DEF fl, tl
  <2>2. Slots(fl, tl, m, z)
    BY ONLY <1>1, <1>8, <2>1, SlotsMore
  <2> QED BY <2>2 DEF fl, tl
<1> QED BY <1>7, <1>8, <1>9, <1>10 DEF m

LEMMA IincFollows ==
  ASSUME NEW g, NEW env, NEW a, NEW b, NEW vals, Here(g, env, a, b, vals),
         StraightStep(Instr, a, b), Instr \in Instructions, Increment, ~narrow'
  PROVE  Fails \/ Advances(g, env, b)
<1> DEFINE l == Instr.n
           d == Instr.d
           cur == frame.locals[l]
           slot == a.locals[l]
           v == Arith("Add", cur.v, d)
           x == Int32(v)
           id == a.len + 1
           p == cur.t \notin Accepts("int")
           f == [frame EXCEPT !.locals[l] = x]
<1>1. Instr.op = "iinc" /\ Break(Raise(f, p))
  <2>1. Wrap32(As("int", cur) + Instr.d) = v
    BY DEF Increment
  <2> HIDE DEF v
  <2> QED BY <2>1 DEF Increment, At
<1>2. /\ l \in DOMAIN a.locals
      /\ b.nodes[1].kind = "ConstInt" /\ b.nodes[1].val = d
      /\ IsNode(b.nodes[2], "Add", <<slot, id>>)
      /\ b.stack = a.stack /\ b.locals = [a.locals EXCEPT ![l] = id + 1] /\ b.len = a.len + 2
  BY <1>1, Zenon DEF StraightStep, Grown
<1>3. a.len \in Nat /\ IsFrame(frame) /\ ~frame.error /\ Slots(frame.locals, a.locals, a.len, vals)
  BY HereFacts
<1>4. slot \in 1..a.len /\ cur.v = vals[slot]
  BY <1>2, <1>3 DEF Slots
<1>5. NodeComputes(b.nodes[1], vals, d)
  BY <1>2 DEF NodeComputes
<1>6. ASSUME NEW w, w[id] = d, \A k \in 1..a.len : w[k] = vals[k]
      PROVE  NodeComputes(b.nodes[2], w, v)
  <2> DEFINE in == <<slot, id>>
  <2>1. Len(in) = 2 /\ w[in[1]] = cur.v /\ w[in[2]] = d
    BY <1>4, <1>6
  <2>2. "Add" \in BinaryKinds /\ ~Traps("Add", cur.v, d)
    BY DEF BinaryKinds, Traps
  <2>3. b.nodes[2].kind = "Add" /\ b.nodes[2].in = in
    BY <1>2 DEF IsNode
  <2> HIDE DEF in, v
  <2>4. v = Arith("Add", cur.v, d)
    BY DEF v
  <2> QED BY <2>1, <2>2, <2>3, <2>4 DEF NodeComputes
<1>7. id = a.len + 1 /\ b.len = id + 1
  BY <1>2, <1>3
<1> HIDE DEF id, v, d
<1>8. PICK w : /\ NodesGive(g, env, w, b.len) /\ w[b.len] = v /\ b.len \in 1..b.len
               /\ Matches(frame.stack, a.stack, b.len, w)
               /\ Slots(frame.locals, a.locals, b.len, w)
  <2>1. ComputesAfter(b.nodes[2], a.len, vals, id, d, v)
    BY ONLY <1>6 DEF ComputesAfter
  <2>2. TwoNodes(g, env, a, b, vals, id, d, v)
    BY ONLY <1>5, <1>7, <2>1, Here(g, env, a, b, vals) DEF TwoNodes
  <2> QED BY ONLY <2>2, NodesOfStep
<1>9. x.v = w[b.len]
  BY <1>8 DEF Int32, Value
<1> HIDE DEF x, l
<1>10. f = [pc |-> frame.pc, stack |-> frame.stack, locals |-> [frame.locals EXCEPT ![l] = x],
            error |-> frame.error]
  BY <1>3 DEF IsFrame
<1> HIDE DEF f
<1>11. IsFrame(f) /\ f.pc = frame.pc /\ f.stack = frame.stack
       /\ f.locals = [frame.locals EXCEPT ![l] = x]
  BY <1>10 DEF IsFrame
<1>12. Slots([frame.locals EXCEPT ![l] = x], [a.locals EXCEPT ![l] = b.len], b.len, w)
  <2> DEFINE fl == frame.locals
             tl == a.locals
             m == b.len
  <2>1. Slots(fl, tl, m, w) /\ l \in DOMAIN tl /\ m \in 1..m /\ x.v = w[m]
    BY <1>2, <1>8, <1>9
  <2> HIDE DEF fl, tl, m
  <2>2. Slots([fl EXCEPT ![l] = x], [tl EXCEPT ![l] = m], m, w)
    BY ONLY <2>1, SlotSet
  <2> QED BY <2>2 DEF fl, tl, m
<1>13. b.locals = [a.locals EXCEPT ![l] = b.len]
  BY <1>2, <1>7
<1>14. Fits(f, b.stack, b.locals, b.len, w)
  BY <1>2, <1>8, <1>11, <1>12, <1>13 DEF Fits
<1> HIDE DEF p
<1>15. Fits(Raise(f, p), b.stack, b.locals, b.len, w)
  BY ONLY <1>14, FitsRaise
<1> QED BY ONLY <1>1, <1>8, <1>15, FitsBreak

LEMMA StackFollows ==
  ASSUME NEW g, NEW env, NEW a, NEW b, NEW vals, Here(g, env, a, b, vals),
         StraightStep(Instr, a, b), StackOperation
  PROVE  Fails \/ Advances(g, env, b)
<1> DEFINE what == Instr.what
           ts == a.stack
           locals == a.locals
           n == a.len
           v1 == Top(frame)
           one == Pop(frame)
           v2 == Top(one)
           two == Pop(one)
           dup == Push(Raise(frame, frame.stack = <<>>), v1)
           dupX1 == Push(Push(Push(two, v1), v2), v1)
           swap == Push(Push(two, v1), v2)
           Fit(f, s) == Fits(f, s, locals, n, vals)
           Goal == Fails \/ Advances(g, env, b)
<1>1. Instr.op = "stack" /\ (Give("failed", Uninit) => Fails)
  BY DEF StackOperation, At, Give, Fails
<1>2. /\ what = "pop" => Break(one)
      /\ what = "pop2" => Break(IF one.stack = <<>> THEN one ELSE two)
      /\ what = "dup" => Break(dup)
      /\ what = "dup_x1" => Break(dupX1)
      /\ what = "swap" => Break(swap)
      /\ what \in {"pop", "pop2", "dup", "dup_x1", "swap"} \/ Give("failed", Uninit)
  BY Zenon DEF StackOperation
<1>3. what \in {"pop", "pop2", "dup", "dup_x1", "swap"} =>
        /\ ts # <<>> /\ (what \in {"dup_x1", "swap"} => Front(ts) # <<>>)
        /\ b.stack = StackAfter(what, ts) /\ b.locals = locals /\ b.len = n
  <2>1. n \in Nat /\ n + 0 = n
    BY HereFacts
  <2> QED BY <1>1, <2>1, Zenon DEF StraightStep, Grown
<1>4. /\ Fit(frame, ts) /\ n \in Nat /\ NodesGive(g, env, vals, n)
      /\ ts # <<>> =>
           /\ Last(ts) \in 1..n /\ v1.v = vals[Last(ts)] /\ Fit(one, Front(ts))
           /\ (one.stack = <<>> <=> Front(ts) = <<>>)
           /\ Front(ts) # <<>> =>
                /\ Last(Front(ts)) \in 1..n /\ v2.v = vals[Last(Front(ts))]
                /\ Fit(two, Front(Front(ts)))
  BY FrameFits
<1>5. a.stack \in Seq(1..n)
  BY HereFacts DEF Matches
<1>6. (Len(ts) > 1 <=> Front(ts) # <<>>) \/ ts = <<>>
  <2>1. ts # <<>> => Front(ts) \in Seq(1..n) /\ Len(Front(ts)) = Len(ts) - 1 /\ Len(ts) \in Nat
    BY <1>5, TopOfSeq
  <2>2. ts # <<>> => (Front(ts) = <<>> <=> Len(Front(ts)) = 0)
    BY <2>1, EmptySeq
  <2>3. ts # <<>> => Len(ts) # 0
    BY <1>5, EmptySeq
  <2> HIDE DEF ts
  <2> QED BY <2>1, <2>2, <2>3
<1>7. ASSUME NEW f, Fits(f, b.stack, b.locals, b.len, vals), Break(f), b.len = n
      PROVE  Goal
  BY <1>4, <1>7, FitsBreak
<1>8. ASSUME NEW f, NEW s, Fit(f, s), NEW x, NEW id \in 1..n, x.v = vals[id]
      PROVE  Fit(Push(f, x), Append(s, id))
  <2> HIDE DEF n, locals
  <2> QED BY <1>4, <1>8, FitsPush
<1> DEFINE top == Last(ts)
           under == Last(Front(ts))
           rest == Front(Front(ts))
<1> HIDE DEF what, n, v1, v2, one, two, locals, ts, Goal
<1>9. ASSUME what = "pop" PROVE Goal
  <2>1. Break(one) /\ b.stack = Front(ts) /\ b.locals = locals /\ b.len = n /\ ts # <<>>
    BY <1>2, <1>3, <1>9 DEF StackAfter
  <2> QED BY <1>4, <1>7, <2>1
<1>10. ASSUME what = "pop2" PROVE Goal
  <2>1. /\ Break(IF one.stack = <<>> THEN one ELSE two)
        /\ b.stack = (IF Len(ts) > 1 THEN rest ELSE Front(ts))
        /\ b.locals = locals /\ b.len = n /\ ts # <<>>
    BY <1>2, <1>3, <1>10 DEF StackAfter
  <2>2. ASSUME Front(ts) = <<>> PROVE Goal
    <3>1. Break(one) /\ b.stack = Front(ts)
      BY <1>4, <1>6, <2>1, <2>2
    <3> QED BY <1>4, <1>7, <2>1, <3>1
  <2>3. ASSUME Front(ts) # <<>> PROVE Goal
    <3>1. Break(two) /\ b.stack = rest
      BY <1>4, <1>6, <2>1, <2>3
    <3> QED BY <1>4, <1>7, <2>1, <2>3, <3>1
  <2> QED BY <2>2, <2>3
<1>11. ASSUME what = "dup" PROVE Goal
  <2>1. Break(dup) /\ b.stack = Append(ts, top) /\ b.locals = locals /\ b.len = n /\ ts # <<>>
    BY <1>2, <1>3, <1>11 DEF StackAfter
  <2> DEFINE p == frame.stack = <<>>
             h == Raise(frame, p)
  <2>2. Fit(h, ts)
    <3> HIDE DEF p
    <3> QED BY <1>4, FitsRaise
  <2> HIDE DEF h
  <2>3. Fit(Push(h, v1), Append(ts, top))
    BY <1>4, <1>8, <2>1, <2>2
  <2>4. Break(Push(h, v1))
    BY <2>1 DEF h
  <2> QED BY <1>7, <2>1, <2>3, <2>4
<1>12. ASSUME what = "dup_x1" PROVE Goal
  <2>1. /\ Break(dupX1) /\ b.stack = Append(Append(Append(rest, top), under), top)
        /\ b.locals = locals /\ b.len = n /\ ts # <<>> /\ Front(ts) # <<>>
    BY <1>2, <1>3, <1>12 DEF StackAfter
  <2>2. Fit(two, rest) /\ top \in 1..n /\ under \in 1..n /\ v1.v = vals[top] /\ v2.v = vals[under]
    BY <1>4, <2>1
  <2> HIDE DEF top, under, rest
  <2>3. Fit(Push(two, v1), Append(rest, top))
    BY <1>8, <2>2
  <2>4. Fit(Push(Push(two, v1), v2), Append(Append(rest, top), under))
    BY <1>8, <2>2, <2>3
  <2>5. Fit(dupX1, Append(Append(Append(rest, top), under), top))
    BY <1>8, <2>2, <2>4
  <2> QED BY <1>7, <2>1, <2>5
<1>13. ASSUME what = "swap" PROVE Goal
  <2>1. /\ Break(swap) /\ b.stack = Append(Append(rest, top), under)
        /\ b.locals = locals /\ b.len = n /\ ts # <<>> /\ Front(ts) # <<>>
    BY <1>2, <1>3, <1>13 DEF StackAfter
  <2>2. Fit(two, rest) /\ top \in 1..n /\ under \in 1..n /\ v1.v = vals[top] /\ v2.v = vals[under]
    BY <1>4, <2>1
  <2> HIDE DEF top, under, rest
  <2>3. Fit(Push(two, v1), Append(rest, top))
    BY <1>8, <2>2
  <2>4. Fit(swap, Append(Append(rest, top), under))
    BY <1>8, <2>2, <2>3
  <2> QED BY <1>7, <2>1, <2>4
<1>14. Goal
  BY <1>1, <1>2, <1>9, <1>10, <1>11, <1>12, <1>13 DEF Goal
<1> QED BY <1>14 DEF Goal

LEMMA CilStackFollows ==
  ASSUME NEW g, NEW env, NEW a, NEW b, NEW vals, Here(g, env, a, b, vals),
         StraightStep(Instr, a, b), CilStack
  PROVE  Fails \/ Advances(g, env, b)
<1> DEFINE ts == a.stack
           locals == a.locals
           n == a.len
           v1 == Top(frame)
           p == frame.stack = <<>>
           h == Raise(frame, p)
           one == Pop(frame)
<1>1. \/ Instr.op = "cil_dup" /\ Break(Push(h, v1))
      \/ Instr.op = "cil_pop" /\ Break(one)
  BY DEF CilStack, At
<1>2. /\ Instr.op = "cil_dup" => b.stack = Append(ts, Last(ts))
      /\ Instr.op = "cil_pop" => b.stack = Front(ts)
      /\ b.locals = locals /\ b.len = n /\ ts # <<>>
  <2>1. n \in Nat /\ n + 0 = n
    BY HereFacts
  <2>2. StackAfter("dup", ts) = Append(ts, Last(ts)) /\ StackAfter("pop", ts) = Front(ts)
    BY DEF StackAfter
  <2> QED BY <1>1, <2>1, <2>2 DEF StraightStep, Grown
<1>3. /\ Fits(frame, ts, locals, n, vals) /\ n \in Nat /\ NodesGive(g, env, vals, n)
      /\ Last(ts) \in 1..n /\ v1.v = vals[Last(ts)] /\ Fits(one, Front(ts), locals, n, vals)
  BY <1>2, FrameFits
<1> HIDE DEF ts, locals, n, v1, p, one
<1>4. Fits(h, ts, locals, n, vals)
  BY ONLY <1>3, FitsRaise
<1> HIDE DEF h
<1>5. Fits(Push(h, v1), Append(ts, Last(ts)), locals, n, vals)
  BY ONLY <1>3, <1>4, FitsPush
<1>6. ASSUME NEW f, Fits(f, b.stack, b.locals, b.len, vals), Break(f)
      PROVE  Fails \/ Advances(g, env, b)
  BY <1>2, <1>3, <1>6, FitsBreak
<1> QED BY <1>1, <1>2, <1>3, <1>5, <1>6

LEMMA FitsMore ==
  ASSUME NEW f, NEW ts, NEW locals, NEW n \in Nat, NEW vals, Fits(f, ts, locals, n, vals),
         NEW m \in Nat, n <= m, NEW w, \A k \in 1..n : w[k] = vals[k]
  PROVE  Fits(f, ts, locals, m, w)
<1> DEFINE fs == f.stack
           fl == f.locals
<1>1. ~f.error => Matches(fs, ts, n, vals) /\ Slots(fl, locals, n, vals)
  BY DEF Fits
<1> HIDE DEF fs, fl
<1>2. Matches(fs, ts, n, vals) => Matches(fs, ts, m, w)
  BY MatchMore
<1>3. Slots(fl, locals, n, vals) => Slots(fl, locals, m, w)
  BY SlotsMore
<1> QED BY <1>1, <1>2, <1>3 DEF Fits, fs, fl

(* The value of the one node of a step, pushed.                                 *)
Results(a, b, vals, rest, v, f, x) ==
  /\ NodeComputes(b.nodes[1], vals, v) /\ Grown(a, b, Append(rest, a.len + 1), a.locals, 1)
  /\ Fits(f, rest, a.locals, a.len, vals) /\ x.v = v

LEMMA ResultFollows ==
  ASSUME NEW g, NEW env, NEW a, NEW b, NEW vals, Here(g, env, a, b, vals),
         NEW rest, NEW v, NEW f, NEW x, Results(a, b, vals, rest, v, f, x), Break(Push(f, x))
  PROVE  Fails \/ Advances(g, env, b)
<1> DEFINE n == a.len
           m == b.len
<1>1. /\ n \in Nat /\ m = n + 1 /\ b.stack = Append(rest, m) /\ b.locals = a.locals
      /\ Fits(f, rest, b.locals, n, vals) /\ x.v = v /\ m \in Nat /\ n <= m
  BY HereFacts DEF Results, Grown
<1>2. PICK w : /\ NodesGive(g, env, w, m) /\ w[m] = v /\ m \in 1..m
               /\ \A k \in 1..n : w[k] = vals[k]
  <2>1. NodeComputes(b.nodes[1], vals, v) /\ b.len = a.len + 1
    BY DEF Results, Grown
  <2> QED BY ONLY <2>1, Here(g, env, a, b, vals), NodeOfStep
<1> DEFINE locals == b.locals
<1> HIDE DEF n, m, locals
<1>3. Fits(f, rest, locals, m, w)
  BY <1>1, <1>2, FitsMore DEF locals
<1>4. Fits(Push(f, x), Append(rest, m), locals, m, w)
  BY <1>1, <1>2, <1>3, FitsPush
<1>5. Fits(Push(f, x), b.stack, b.locals, b.len, w) /\ NodesGive(g, env, w, b.len)
  BY <1>1, <1>2, <1>4 DEF m, locals
<1> QED BY <1>5, FitsBreak

(* An operation on the two values on top of the stack.                          *)
BothGone(f) == f = Pop(Pop(frame)) \/ \E p : f = Raise(Pop(Pop(frame)), p)

LEMMA BinaryFollows ==
  ASSUME NEW g, NEW env, NEW a, NEW b, NEW vals, Here(g, env, a, b, vals),
         StraightStep(Instr, a, b), Instr.op \in {"binary", "cil_binary", "compare"},
         Instr.kind \in BinaryKinds, ~Traps(Instr.kind, Top(Pop(frame)).v, Top(frame).v),
         NEW x, x.v = Arith(Instr.kind, Top(Pop(frame)).v, Top(frame).v),
         NEW f, BothGone(f), Break(Push(f, x))
  PROVE  Fails \/ Advances(g, env, b)
<1> DEFINE ts == a.stack
           kind == Instr.kind
           in == <<Last(Front(ts)), Last(ts)>>
           rest == Front(Front(ts))
           two == Pop(Pop(frame))
           v == Arith(kind, Top(Pop(frame)).v, Top(frame).v)
<1>1. /\ ts # <<>> /\ Front(ts) # <<>> /\ IsNode(b.nodes[1], kind, in)
      /\ Grown(a, b, Append(rest, a.len + 1), a.locals, 1)
  BY DEF StraightStep
<1>2. /\ Top(frame).v = vals[Last(ts)] /\ Top(Pop(frame)).v = vals[Last(Front(ts))]
      /\ Fits(two, rest, a.locals, a.len, vals)
  BY <1>1, FrameFits
<1>3. NodeComputes(b.nodes[1], vals, v)
  <2>1. Len(in) = 2 /\ vals[in[1]] = Top(Pop(frame)).v /\ vals[in[2]] = Top(frame).v
    BY <1>2
  <2>2. b.nodes[1].kind = kind /\ b.nodes[1].in = in
    BY <1>1 DEF IsNode
  <2> HIDE DEF in
  <2>3. v = Arith(kind, vals[in[1]], vals[in[2]]) /\ ~Traps(kind, vals[in[1]], vals[in[2]])
    BY <2>1
  <2> HIDE DEF v
  <2> QED BY <2>1, <2>2, <2>3 DEF NodeComputes
<1>4. x.v = v /\ Break(Push(f, x))
  OBVIOUS
<1>5. f = two \/ \E p : f = Raise(two, p)
  BY DEF BothGone
<1> HIDE DEF two, rest, v
<1>6. Fits(f, rest, a.locals, a.len, vals)
  BY ONLY <1>2, <1>5, FitsRaise
<1>7. Results(a, b, vals, rest, v, f, x)
  BY <1>1, <1>3, <1>4, <1>6 DEF Results
<1> QED BY ONLY <1>4, <1>7, Here(g, env, a, b, vals), ResultFollows

LEMMA UnaryFollows ==
  ASSUME NEW g, NEW env, NEW a, NEW b, NEW vals, Here(g, env, a, b, vals),
         StraightStep(Instr, a, b),
         Instr.op = "neg" \/ (Instr.op \in {"conv", "conv_to"} /\ Instr.to # "float"),
         NEW x,
         \/ UnaryKind(Instr) = "Neg" /\ x.v = Wrap64(-Top(frame).v)
         \/ UnaryKind(Instr) = "ConvI4" /\ x.v = Wrap32(Top(frame).v)
         \/ UnaryKind(Instr) = "ConvI8" /\ x.v = Top(frame).v,
         NEW p, Break(Push(Raise(Pop(frame), p), x))
  PROVE  Fails \/ Advances(g, env, b)
<1> DEFINE ts == a.stack
           kind == UnaryKind(Instr)
           in == <<Last(ts)>>
           rest == Front(ts)
           one == Pop(frame)
           f == Raise(one, p)
           y == Top(frame).v
           v == x.v
<1>1. /\ ts # <<>> /\ IsNode(b.nodes[1], kind, in)
      /\ Grown(a, b, Append(rest, a.len + 1), a.locals, 1)
  BY DEF StraightStep
<1>2. y = vals[Last(ts)] /\ Fits(one, rest, a.locals, a.len, vals)
  BY <1>1, FrameFits
<1>3. NodeComputes(b.nodes[1], vals, v)
  <2>1. Len(in) = 1 /\ vals[in[1]] = y
    BY <1>2
  <2>2. b.nodes[1].kind = kind /\ b.nodes[1].in = in
    BY <1>1 DEF IsNode
  <2>3. \/ kind = "Neg" /\ v = Wrap64(-y)
        \/ kind = "ConvI4" /\ v = Wrap32(y)
        \/ kind = "ConvI8" /\ v = y
    OBVIOUS
  <2> HIDE DEF in, v, kind, y
  <2> QED BY <2>1, <2>2, <2>3 DEF NodeComputes
<1>4. x.v = v /\ Break(Push(f, x))
  OBVIOUS
<1> HIDE DEF one, rest, v
<1>5. Fits(f, rest, a.locals, a.len, vals)
  BY ONLY <1>2, FitsRaise DEF f
<1>6. Results(a, b, vals, rest, v, f, x)
  BY <1>1, <1>3, <1>4, <1>5 DEF Results
<1> HIDE DEF f
<1> QED BY ONLY <1>4, <1>6, Here(g, env, a, b, vals), ResultFollows

LEMMA KindsOfValues ==
  /\ IntKinds \subseteq BinaryKinds /\ LoweredArithmetic \subseteq BinaryKinds
  /\ {"Eq", "Lt", "Gt"} \subseteq BinaryKinds
  /\ \A u, v : ~Traps("Eq", u, v) /\ ~Traps("Lt", u, v) /\ ~Traps("Gt", u, v)
BY DEF IntKinds, LoweredArithmetic, BinaryKinds, Traps

LEMMA GiveFails ==
  Give("failed", Uninit) \/ Give("trapped", Uninit) => Fails
BY DEF Give, Fails

LEMMA JvmBinaryFollows ==
  ASSUME NEW g, NEW env, NEW a, NEW b, NEW vals, Here(g, env, a, b, vals),
         StraightStep(Instr, a, b), Instr \in Instructions, BinaryOperation, ~narrow'
  PROVE  Fails \/ Advances(g, env, b)
<1> DEFINE t == Instr.t
           kind == Instr.kind
           y == Top(frame)
           x == Top(Pop(frame))
           p == ~({x.t, y.t} \subseteq Accepts(t))
           rest == Raise(Pop(Pop(frame)), p)
           l == As(t, x)
           r == As(t, y)
           divides == t = "int" /\ kind \in {"Div", "Mod"} /\ r = 0
           res == IF t = "int" THEN IntArith(kind, l, r) ELSE Arith(kind, l, r)
           bad == kind \notin Supported(t) \/ divides
           odd == t = "int" /\ Undefined(kind, l, r)
<1>1. /\ Instr.op = "binary"
      /\ IF bad THEN Give("failed", Uninit) /\ UNCHANGED <<frame, narrow>>
         ELSE IF odd THEN Give("trapped", Uninit) /\ UNCHANGED <<frame, narrow>>
         ELSE /\ Break(Push(rest, Value(t, res)))
              /\ narrow' = (narrow \/ Traps(kind, x.v, y.v) \/ res # Arith(kind, x.v, y.v))
  BY Zenon DEF BinaryOperation, At
<1>2. kind \in BinaryKinds
  BY <1>1, InstructionFields, KindsOfValues
<1> HIDE DEF bad, odd, res, rest
<1>3. \/ Fails
      \/ /\ Break(Push(rest, Value(t, res)))
         /\ ~Traps(kind, x.v, y.v) /\ res = Arith(kind, x.v, y.v)
  BY <1>1, GiveFails
<1>4. ASSUME Break(Push(rest, Value(t, res))), ~Traps(kind, x.v, y.v), res = Arith(kind, x.v, y.v)
      PROVE  Fails \/ Advances(g, env, b)
  <2> DEFINE z == Value(t, res)
  <2>1. z.v = Arith(kind, x.v, y.v)
    BY <1>4 DEF Value
  <2>2. Break(Push(rest, z)) /\ BothGone(rest)
    BY <1>4 DEF rest, BothGone
  <2> HIDE DEF z, p
  <2> QED BY ONLY <1>1, <1>2, <1>4, <2>1, <2>2, Here(g, env, a, b, vals),
                  StraightStep(Instr, a, b), BinaryFollows
<1> QED BY <1>3, <1>4

LEMMA CilArithmeticFollows ==
  ASSUME NEW g, NEW env, NEW a, NEW b, NEW vals, Here(g, env, a, b, vals),
         StraightStep(Instr, a, b), CilArithmetic, ~narrow'
  PROVE  Fails \/ Advances(g, env, b)
<1> DEFINE kind == Instr.kind
           x == Operand1
           y == Operand2
           t == IF x.t = "float" \/ y.t = "float" THEN "float" ELSE x.t
           legal == Number(x) /\ Number(y) /\ (t = "float" \/ x.t = y.t)
           divides == t # "float" /\ kind = "Div" /\ y.v = 0
           wide == IF t = "float" THEN 0 ELSE Arith(kind, x.v, y.v)
           res == IF t = "int" THEN Wrap32(wide) ELSE wide
           bad == ~legal \/ divides
           odd == legal /\ t # "float" /\ kind = "Div" /\ y.v = -1 /\ Least(t, x.v)
<1>1. /\ Instr.op = "cil_binary" /\ kind \in LoweredArithmetic
      /\ \/ bad /\ Break(Push(Raise(BothPopped, TRUE), Uninit))
         \/ Give("trapped", Uninit)
         \/ /\ Break(Push(BothPopped, Value(t, res)))
            /\ narrow' = (narrow \/ t = "float" \/ Traps(kind, x.v, y.v) \/ res # wide)
  <2>1. /\ Instr.op = "cil_binary" /\ kind \in LoweredArithmetic
        /\ CASE bad -> Break(Push(Raise(BothPopped, TRUE), Uninit)) /\ UNCHANGED narrow
             [] odd -> Give("trapped", Uninit) /\ UNCHANGED <<frame, narrow>>
             [] OTHER -> /\ Break(Push(BothPopped, Value(t, res)))
                         /\ narrow' = (narrow \/ t = "float" \/ Traps(kind, x.v, y.v) \/ res # wide)
    BY Zenon DEF CilArithmetic, At
  <2> HIDE DEF bad, odd, t, res, wide
  <2> QED BY <2>1, Zenon
<1>2. kind \in BinaryKinds
  BY <1>1, KindsOfValues
<1>3. ASSUME Break(Push(Raise(BothPopped, TRUE), Uninit)) PROVE Fails
  <2>1. IsFrame(BothPopped)
    <3>1. IsFrame(frame)
      BY HereFacts
    <3> QED BY <3>1, PopFacts DEF BothPopped
  <2> QED BY ONLY <1>3, <2>1, ErrorFails
<1>4. ASSUME Break(Push(BothPopped, Value(t, res))),
             narrow' = (narrow \/ t = "float" \/ Traps(kind, x.v, y.v) \/ res # wide)
      PROVE  Fails \/ Advances(g, env, b)
  <2> DEFINE z == Value(t, res)
  <2>1. t # "float" /\ res = wide
    <3> HIDE DEF t, res, wide
    <3> QED BY <1>4
  <2>2. ~Traps(kind, x.v, y.v) /\ wide = Arith(kind, x.v, y.v)
    <3> HIDE DEF t
    <3> QED BY <1>4, <2>1
  <2>3. /\ z.v = Arith(kind, Top(Pop(frame)).v, Top(frame).v)
        /\ ~Traps(kind, Top(Pop(frame)).v, Top(frame).v)
    <3> HIDE DEF t, res, wide
    <3> QED BY <2>1, <2>2 DEF Value, Operand1, Operand2
  <2> DEFINE f == Pop(Pop(frame))
  <2>4. Break(Push(f, z)) /\ BothGone(f)
    BY <1>4 DEF BothPopped, BothGone
  <2> HIDE DEF z, f
  <2> QED BY ONLY <1>1, <1>2, <2>3, <2>4, Here(g, env, a, b, vals),
                  StraightStep(Instr, a, b), BinaryFollows
<1> QED BY <1>1, <1>3, <1>4, GiveFails

LEMMA CompareFollows ==
  ASSUME NEW g, NEW env, NEW a, NEW b, NEW vals, Here(g, env, a, b, vals),
         StraightStep(Instr, a, b), Instr \in Instructions, CompareOperands, ~narrow'
  PROVE  Fails \/ Advances(g, env, b)
<1> DEFINE kind == Instr.kind
           x == Operand1
           y == Operand2
           p == Misused(kind, x, y)
           z == Int32(Truth(Related(kind, x, y)))
<1>1. /\ Instr.op = "compare" /\ Break(Push(Raise(BothPopped, p), z))
      /\ RelatedBits(kind, x, y)
  BY DEF CompareOperands, At
<1>2. kind \in BinaryKinds /\ ~Traps(kind, Top(Pop(frame)).v, Top(frame).v)
  BY <1>1, InstructionFields, KindsOfValues
<1>3. z.v = Arith(kind, Top(Pop(frame)).v, Top(frame).v)
  <2>1. Truth(Related(kind, x, y)) = Arith(kind, x.v, y.v)
    BY <1>1 DEF RelatedBits
  <2> QED BY <2>1 DEF Int32, Value, Operand1, Operand2
<1> DEFINE f == Raise(BothPopped, p)
<1>4. Break(Push(f, z)) /\ BothGone(f)
  BY <1>1 DEF BothPopped, BothGone
<1> HIDE DEF z, f
<1> QED BY ONLY <1>1, <1>2, <1>3, <1>4, Here(g, env, a, b, vals),
                StraightStep(Instr, a, b), BinaryFollows

LEMMA NegateFollows ==
  ASSUME NEW g, NEW env, NEW a, NEW b, NEW vals, Here(g, env, a, b, vals),
         StraightStep(Instr, a, b), Negate, ~narrow'
  PROVE  Fails \/ Advances(g, env, b)
<1> DEFINE y == Top(frame)
           v == -As("int", y)
           p == y.t \notin Accepts("int")
           x == Int32(Wrap32(v))
           f == Raise(Pop(frame), p)
<1>1. /\ Instr.op = "neg"
      /\ \/ Give("failed", Uninit)
         \/ Break(Push(f, x)) /\ Wrap32(v) = Wrap64(-y.v)
  BY DEF Negate, At
<1>2. UnaryKind(Instr) = "Neg"
  BY <1>1 DEF UnaryKind
<1>3. ASSUME Break(Push(f, x)), Wrap32(v) = Wrap64(-y.v)
      PROVE  Fails \/ Advances(g, env, b)
  <2>1. x.v = Wrap64(-Top(frame).v)
    BY <1>3 DEF Int32, Value
  <2>2. Break(Push(Raise(Pop(frame), p), x))
    BY <1>3
  <2> HIDE DEF x, p
  <2> QED BY ONLY <1>1, <1>2, <2>1, <2>2, Here(g, env, a, b, vals),
                  StraightStep(Instr, a, b), UnaryFollows
<1> QED BY <1>1, <1>3, GiveFails

LEMMA ConvertFollows ==
  ASSUME NEW g, NEW env, NEW a, NEW b, NEW vals, Here(g, env, a, b, vals),
         StraightStep(Instr, a, b), Instr \in Instructions, Convert, Instr.to # "float", ~narrow'
  PROVE  Fails \/ Advances(g, env, b)
<1> DEFINE y == Top(frame)
           v == As(Instr.t, y)
           converted(u) == IF Instr.to = "int" THEN Wrap32(u) ELSE u
           p == y.t \notin Accepts(Instr.t)
           x == Value(Instr.to, converted(v))
<1>1. /\ Instr.op = "conv" /\ Break(Push(Raise(Pop(frame), p), x))
      /\ converted(v) = converted(y.v)
  BY DEF Convert, At
<1>2. x.v = converted(y.v)
  BY <1>1 DEF Value
<1>3. \/ UnaryKind(Instr) = "Neg" /\ x.v = Wrap64(-y.v)
      \/ UnaryKind(Instr) = "ConvI4" /\ x.v = Wrap32(y.v)
      \/ UnaryKind(Instr) = "ConvI8" /\ x.v = y.v
  <2> HIDE DEF x
  <2> QED BY <1>1, <1>2 DEF UnaryKind
<1>4. Instr.op \in {"conv", "conv_to"} /\ Instr.to # "float"
  BY <1>1
<1> HIDE DEF x, p
<1> QED BY ONLY <1>1, <1>3, <1>4, Here(g, env, a, b, vals), StraightStep(Instr, a, b), UnaryFollows

LEMMA ConvertToFollows ==
  ASSUME NEW g, NEW env, NEW a, NEW b, NEW vals, Here(g, env, a, b, vals),
         StraightStep(Instr, a, b), Instr \in Instructions, ConvertTo, Instr.to # "float"
  PROVE  Fails \/ Advances(g, env, b)
<1> DEFINE y == Top(frame)
           v == As(Instr.to, y)
           p == y.t \notin Accepts(Instr.to)
           x == Value(Instr.to, v)
           one == Pop(frame)
<1>1. Instr.op = "conv_to" /\ Break(Push(Raise(one, p), x))
  BY DEF ConvertTo, At, Operand2
<1>2. Instr.to \in {"int", "long"}
  BY <1>1, InstructionFields DEF ValueTypes
<1>3. CASE p
  <2>1. IsFrame(one)
    <3>1. IsFrame(frame)
      BY HereFacts
    <3> QED BY <3>1, PopFacts
  <2>2. Break(Push(Raise(one, TRUE), x))
    <3>1. p = TRUE
      BY <1>3
    <3> HIDE DEF p
    <3> QED BY <1>1, <3>1
  <2> HIDE DEF one, x
  <2>3. Fails
    BY ONLY <2>1, <2>2, ErrorFails
  <2> QED BY <2>3
<1>4. CASE ~p
  <2>1. /\ Instr.to = "int" => v = Wrap32(y.v)
        /\ Instr.to = "long" => v = y.v
    BY <1>4 DEF As
  <2>2. x.v = v
    BY DEF Value
  <2>3. \/ UnaryKind(Instr) = "Neg" /\ x.v = Wrap64(-y.v)
        \/ UnaryKind(Instr) = "ConvI4" /\ x.v = Wrap32(y.v)
        \/ UnaryKind(Instr) = "ConvI8" /\ x.v = y.v
    <3> HIDE DEF x, v
    <3> QED BY <1>1, <1>2, <2>1, <2>2 DEF UnaryKind
  <2>4. Instr.op \in {"conv", "conv_to"} /\ Instr.to # "float"
    BY <1>1
  <2> HIDE DEF x, p
  <2> QED BY ONLY <1>1, <2>3, <2>4, Here(g, env, a, b, vals), StraightStep(Instr, a, b),
                  UnaryFollows DEF one
<1> QED BY <1>3, <1>4

-----------------------------------------------------------------------------
(* The graph answers v: its first block ends with a Return of a node that       *)
(* gives v.                                                                     *)
Answers(g, env, v) ==
  \E e, w : /\ ReturnsAt(g, e) /\ NodesGive(g, env, w, e - 1) /\ Len(g[e].in) = 1
            /\ w[g[e].in[1]] = v

LEMMA GivenIsNoEnd ==
  ASSUME NEW g, NEW env, NEW vals, NEW id, NodeGives(g, env, vals, id)
  PROVE  g[id].kind \notin Enders \cup BranchLowered
<1> DEFINE kd == g[id].kind
<1>1. kd \in BinaryKinds \cup {"Start", "ConstInt", "LdNull", "Phi", "Neg", "ConvI4", "ConvI8"}
  BY Zenon DEF NodeGives
<1> HIDE DEF kd
<1>2. kd \notin Enders \cup BranchLowered
  BY <1>1 DEF BinaryKinds, Enders, BranchLowered, LeavingKinds
<1> QED BY <1>2 DEF kd

LEMMA ReturnAnswers ==
  ASSUME NEW g, LoweredGraph(g), NEW env, NEW vals, NEW n \in Nat, NodesGive(g, env, vals, n),
         NEW e, e = n + 1, e <= Len(g), NEW x, IsNode(g[e], "Return", <<x>>)
  PROVE  Answers(g, env, vals[x])
<1>1. e \in 1..Len(g) /\ e - 1 = n
  BY DEF LoweredGraph
<1>2. \A id \in 1..e - 1 : g[id].kind \notin Enders \cup BranchLowered
  BY <1>1, GivenIsNoEnd DEF NodesGive
<1>3. ReturnsAt(g, e) /\ NodesGive(g, env, vals, e - 1)
  BY <1>1, <1>2 DEF ReturnsAt, IsNode
<1>4. Len(g[e].in) = 1 /\ g[e].in[1] = x
  BY DEF IsNode
<1> QED BY <1>3, <1>4 DEF Answers

(* What comes of an instruction of granit: it fails, goes on with the trace, or *)
(* returns, an int or a long only if that is what the graph answers.            *)
Returns(g, env) ==
  /\ outcome'.status = "returned"
  /\ outcome'.value.t \in {"int", "long"} => Answers(g, env, outcome'.value.v)

LEMMA TopReturned ==
  ASSUME NEW g, NEW env, Give("returned", Top(frame)),
         frame.stack = <<>> \/ Answers(g, env, Top(frame).v)
  PROVE  Returns(g, env)
<1>1. outcome'.status = "returned" /\ outcome'.value = Top(frame)
  BY DEF Give
<1>2. frame.stack = <<>> => Top(frame).t = "uninit"
  BY DEF Top, Uninit, Value
<1> QED BY <1>1, <1>2 DEF Returns

LEMMA ReturnFollows ==
  ASSUME NEW g, NEW env, NEW a, NEW b, NEW vals, Here(g, env, a, b, vals),
         StraightStep(Instr, a, b), ReturnTop \/ CilReturn
  PROVE  Returns(g, env)
<1> DEFINE n == a.len
           e == b.len
           x == Last(a.stack)
<1>1. Instr.op \in {"treturn", "ret"} /\ Give("returned", Top(frame))
  BY DEF ReturnTop, CilReturn, At
<1>2. ASSUME a.stack # <<>> PROVE Answers(g, env, Top(frame).v)
  <2>1. IsNode(b.nodes[1], "Return", <<x>>) /\ e = n + 1
    BY <1>1, <1>2 DEF StraightStep
  <2>2. LoweredGraph(g) /\ n \in Nat /\ e <= Len(g) /\ NodesGive(g, env, vals, n) /\ g[e] = b.nodes[1]
    <3>1. /\ LoweredGraph(g) /\ n \in Nat /\ e <= Len(g) /\ NodesGive(g, env, vals, n)
          /\ \A j \in 1..e - n : g[n + j] = b.nodes[j]
      BY DEF Here
    <3>2. 1 \in 1..e - n /\ n + 1 = e
      BY <2>1, <3>1
    <3> QED BY <3>1, <3>2
  <2>3. IsNode(g[e], "Return", <<x>>)
    BY <2>1, <2>2
  <2>4. Top(frame).v = vals[x]
    BY <1>2, FrameFits
  <2> HIDE DEF n, e, x
  <2>5. Answers(g, env, vals[x])
    BY ONLY <2>1, <2>2, <2>3, ReturnAnswers
  <2> QED BY <2>4, <2>5
<1>3. ASSUME a.stack = <<>> PROVE frame.stack = <<>>
  <2> DEFINE fs == frame.stack
             ts == a.stack
  <2>1. Matches(fs, ts, n, vals)
    BY HereFacts
  <2> HIDE DEF fs
  <2>2. fs = <<>> <=> ts = <<>>
    BY <2>1, EmptyStacks
  <2> QED BY <1>3, <2>2 DEF fs
<1> QED BY <1>1, <1>2, <1>3, TopReturned

IsStraightOp(i) ==
  /\ i.op \notin {"if", "goto", "cmp", "br", "br_if", "br_cmp"}
  /\ i.op \in {"const", "ldc", "binary"} => i.t # "float"
  /\ i.op \in {"conv", "conv_to"} => i.to # "float"

LEMMA InstructionFollows ==
  ASSUME NEW g, NEW env, NEW a, NEW b, NEW vals, Here(g, env, a, b, vals),
         StraightStep(Instr, a, b), Instr \in Instructions, IsStraightOp(Instr),
         frame.pc \in Nat, Len(method) \in Nat, frame.pc < Len(method),
         InterpNext \/ CilNext, ~narrow'
  PROVE  Fails \/ Advances(g, env, b) \/ Returns(g, env)
<1>1. CASE Constant \/ CilConstant
  <2>1. Instr.t # "float"
    BY <1>1 DEF Constant, CilConstant, At, IsStraightOp
  <2> QED BY <1>1, <2>1, ConstFollows
<1>2. CASE LoadLocal \/ LoadSlot
  BY <1>2, LoadFollows
<1>3. CASE StoreLocal \/ StoreSlot
  BY <1>3, StoreFollows
<1>4. CASE Increment
  BY <1>4, IincFollows
<1>5. CASE StackOperation
  BY <1>5, StackFollows
<1>6. CASE BinaryOperation
  BY <1>6, JvmBinaryFollows
<1>7. CASE Negate
  BY <1>7, NegateFollows
<1>8. CASE Convert
  <2>1. Instr.to # "float"
    BY <1>8 DEF Convert, At, IsStraightOp
  <2> QED BY <1>8, <2>1, ConvertFollows
<1>9. CASE CompareValues \/ Branch \/ GotoTarget \/ CilBranch
  BY <1>9 DEF CompareValues, Branch, GotoTarget, CilBranch, At, IsStraightOp
<1>10. CASE ReturnVoid
  <2>1. outcome'.status = "returned" /\ outcome'.value.t = "uninit"
    BY <1>10 DEF ReturnVoid, Give, Uninit, Value
  <2> QED BY <2>1 DEF Returns
<1>11. CASE ReturnTop \/ CilReturn
  BY <1>11, ReturnFollows
<1>12. CASE Unsupported \/ CilUnsupported
  BY <1>12, GiveFails DEF Unsupported, CilUnsupported
<1>13. CASE RunsOff
  BY <1>13 DEF RunsOff
<1>14. CASE CilStack
  BY <1>14, CilStackFollows
<1>15. CASE CilArithmetic
  BY <1>15, CilArithmeticFollows
<1>16. CASE CilBits
  <2>1. Instr.kind \in LoweredArithmetic /\ Instr.kind \in BitKinds
    BY <1>16 DEF CilBits, At, StraightStep
  <2> QED BY <2>1 DEF LoweredArithmetic, BitKinds
<1>17. CASE CilUnaryOperation
  <2>1. Instr.op = "cil_unary" /\ Instr.op \notin {"starg", "cil_unary", "switch"}
    <3> QED BY <1>17 DEF CilUnaryOperation, At, StraightStep
  <2> QED BY <2>1
<1>18. CASE ConvertTo
  <2>1. Instr.to # "float"
    BY <1>18 DEF ConvertTo, At, IsStraightOp
  <2> QED BY <1>18, <2>1, ConvertToFollows
<1>19. CASE CompareOperands
  BY <1>19, CompareFollows
<1> QED
  BY <1>1, <1>2, <1>3, <1>4, <1>5, <1>6, <1>7, <1>8, <1>9, <1>10, <1>11, <1>12, <1>13, <1>14,
     <1>15, <1>16, <1>17, <1>18, <1>19 DEF InterpNext, CilNext

-----------------------------------------------------------------------------
(* The trace of a lowering: where its stack, its slots and its graph were       *)
(* before each instruction.                                                     *)

Placed(g, a, b) == \A j \in 1..b.len - a.len : g[a.len + j] = b.nodes[j]

Starts(g, a, locals, arguments) ==
  /\ locals \in Nat /\ arguments \in Nat /\ a.len = locals + arguments + 1 /\ a.stack = <<>>
  /\ a.locals = [l \in -arguments..locals - 1 |-> SlotNode(locals, l)]
  /\ \A id \in 1..a.len : g[id].kind = IF id = 1 THEN "Start" ELSE "Phi"

Traced(tr, m, n, g) ==
  /\ \A k \in 0..n : tr[k].len \in Nat /\ tr[k].len <= Len(g)
  /\ \A k \in 0..n - 1 : StraightStep(m[k + 1], tr[k], tr[k + 1]) /\ Placed(g, tr[k], tr[k + 1])

LEMMA TraceInMore ==
  ASSUME NEW tr, NEW m, NEW n \in Nat, NEW g, Len(g) \in Nat, Traced(tr, m, n, g),
         NEW h, Len(h) \in Nat, Len(g) <= Len(h), \A id \in 1..Len(g) : h[id] = g[id]
  PROVE  Traced(tr, m, n, h)
<1>1. ASSUME NEW k \in 0..n PROVE tr[k].len \in Nat /\ tr[k].len <= Len(h)
  <2>1. tr[k].len \in Nat /\ tr[k].len <= Len(g)
    BY DEF Traced
  <2> QED BY <2>1
<1>2. ASSUME NEW k \in 0..n - 1
      PROVE  StraightStep(m[k + 1], tr[k], tr[k + 1]) /\ Placed(h, tr[k], tr[k + 1])
  <2>1. k \in 0..n /\ k + 1 \in 0..n
    OBVIOUS
  <2>2. StraightStep(m[k + 1], tr[k], tr[k + 1]) /\ Placed(g, tr[k], tr[k + 1])
    BY DEF Traced
  <2> DEFINE a == tr[k]
             b == tr[k + 1]
  <2>3. a.len \in Nat /\ b.len \in Nat /\ b.len <= Len(g)
    BY <2>1 DEF Traced
  <2>4. ASSUME NEW j \in 1..b.len - a.len PROVE h[a.len + j] = b.nodes[j]
    <3>1. g[a.len + j] = b.nodes[j]
      BY <2>2 DEF Placed
    <3>2. a.len + j \in 1..Len(g)
      <4> DEFINE x == a.len
                 y == b.len
      <4>1. x \in Nat /\ y \in Nat /\ y <= Len(g) /\ j \in 1..y - x
        BY <2>3
      <4> HIDE DEF x, y
      <4>2. x + j \in 1..Len(g)
        BY <4>1
      <4> QED BY <4>2 DEF x
    <3> QED BY <3>1, <3>2
  <2> QED BY <2>2, <2>4 DEF Placed
<1> QED BY <1>1, <1>2 DEF Traced

Continues(tr, m, n, g, b) ==
  /\ n \in Nat /\ Traced(tr, m, n, g) /\ b.len \in Nat /\ b.len <= Len(g)
  /\ StraightStep(m[n + 1], tr[n], b) /\ Placed(g, tr[n], b)

LEMMA TraceGrows ==
  ASSUME NEW tr, NEW m, NEW n, NEW g, NEW b, Continues(tr, m, n, g, b)
  PROVE  \E t : Traced(t, m, n + 1, g) /\ t[n + 1] = b /\ t[0] = tr[0]
<1> DEFINE t == [k \in 0..n + 1 |-> IF k = n + 1 THEN b ELSE tr[k]]
<1>1. t[n + 1] = b /\ t[0] = tr[0] /\ (\A k \in 0..n : t[k] = tr[k]) /\ n \in Nat
  BY DEF Continues
<1> HIDE DEF t
<1>2. ASSUME NEW k \in 0..n + 1 PROVE t[k].len \in Nat /\ t[k].len <= Len(g)
  <2>1. CASE k = n + 1
    BY <1>1, <2>1 DEF Continues
  <2>2. CASE k \in 0..n
    BY <1>1, <2>2 DEF Continues, Traced
  <2> QED BY <1>1, <2>1, <2>2
<1>3. ASSUME NEW k \in 0..n
      PROVE  StraightStep(m[k + 1], t[k], t[k + 1]) /\ Placed(g, t[k], t[k + 1])
  <2>1. CASE k = n
    BY <1>1, <2>1 DEF Continues
  <2>2. CASE k \in 0..n - 1
    <3>1. t[k] = tr[k] /\ t[k + 1] = tr[k + 1]
      BY <1>1, <2>2
    <3>2. StraightStep(m[k + 1], tr[k], tr[k + 1]) /\ Placed(g, tr[k], tr[k + 1])
      BY <2>2 DEF Continues, Traced
    <3> QED BY <3>1, <3>2
  <2> QED BY <1>1, <2>1, <2>2
<1>4. (n + 1) - 1 = n
  BY <1>1
<1>5. Traced(t, m, n + 1, g)
  BY <1>2, <1>3, <1>4 DEF Traced
<1> QED BY <1>1, <1>5

(* Where the lowerer is, at the end of its trace.                               *)
AtEnd(a) == a.stack = lower.stack /\ a.locals = lower.locals /\ a.len = Len(graph)

Sized(locals, arguments) ==
  \A e \in Environments : 1..locals + arguments + 1 \subseteq DOMAIN e

TracedAs(tr, locals, arguments) ==
  /\ Traced(tr, method, lower.pc, graph) /\ Starts(graph, tr[0], locals, arguments)
  /\ Sized(locals, arguments) /\ AtEnd(tr[lower.pc])
  /\ DOMAIN lower.locals = -arguments..locals - 1

LoweringTraced == source = graph /\ \E tr, locals, arguments : TracedAs(tr, locals, arguments)

LEMMA TraceInit ==
  ASSUME NEW m \in Methods, method = m.code, LowerInit(m.locals, m.args), source = graph
  PROVE  LoweringTraced
<1> DEFINE locals == m.locals
           arguments == m.args
           a == [stack |-> lower.stack, locals |-> lower.locals, len |-> Len(graph)]
           tr == [k \in 0..0 |-> a]
<1>1. method \in Seq(Instructions) /\ locals \in Nat /\ arguments \in Nat
  BY MethodsAreCode
<1>2. LowererOK(method, graph, lower) /\ Len(graph) = locals + arguments + 1
  BY <1>1, LowerInitOK
<1>3. /\ lower.pc = 0 /\ lower.stack = <<>>
      /\ lower.locals = [l \in -arguments..locals - 1 |-> SlotNode(locals, l)]
  BY DEF LowerInit
<1>4. \A id \in 1..Len(graph) : graph[id].kind = IF id = 1 THEN "Start" ELSE "Phi"
  <2> DEFINE start == NewNode("Start", <<>>, NoId, NoId)
             phi == NewNode("Phi", <<>>, NoId, NoId)
             n == locals + arguments
             first == <<start>>
             phis == [k \in 1..n |-> phi]
  <2>1. start.kind = "Start" /\ phi.kind = "Phi"
    BY NewNodeFields
  <2>2. graph = first \o phis
    BY DEF LowerInit
  <2> HIDE DEF start, phi
  <2>3. n \in Nat /\ Len(first) = 1 /\ first[1] = start
        /\ first \in Seq({start, phi}) /\ phis \in Seq({start, phi}) /\ Len(phis) = n
    BY <1>1
  <2>4. \A k \in 1..n : phis[k] = phi
    OBVIOUS
  <2> HIDE DEF n, first, phis
  <2>5. /\ Len(first \o phis) = 1 + n
        /\ \A id \in 1..1 + n : (first \o phis)[id] = IF id <= 1 THEN first[id] ELSE phis[id - 1]
    <3> DEFINE S == {start, phi}
    <3>1. first \in Seq(S) /\ phis \in Seq(S)
      BY <2>3
    <3> HIDE DEF S
    <3>2. /\ Len(first \o phis) = Len(first) + Len(phis)
          /\ \A i \in 1..Len(first) + Len(phis) :
               (first \o phis)[i] = IF i <= Len(first) THEN first[i] ELSE phis[i - Len(first)]
      BY <3>1, ConcatProperties
    <3> QED BY <2>3, <3>2
  <2>6. ASSUME NEW id \in 1..1 + n
        PROVE  graph[id].kind = IF id = 1 THEN "Start" ELSE "Phi"
    <3>1. CASE id = 1
      BY <2>1, <2>2, <2>3, <2>5, <3>1
    <3>2. CASE id # 1
      <4>1. id - 1 \in 1..n /\ ~(id <= 1)
        BY <2>3, <3>2
      <4> QED BY <2>1, <2>2, <2>4, <2>5, <3>2, <4>1
    <3> QED BY <3>1, <3>2
  <2> QED BY <2>2, <2>5, <2>6
<1>5. tr[0] = a /\ a.stack = lower.stack /\ a.locals = lower.locals /\ a.len = Len(graph)
  OBVIOUS
<1> HIDE DEF tr, a
<1>6. Len(graph) \in Nat
  BY <1>1, <1>2
<1>7. Starts(graph, tr[0], locals, arguments)
  BY <1>1, <1>2, <1>3, <1>4, <1>5 DEF Starts
<1>8. AtEnd(tr[lower.pc])
  BY <1>3, <1>5 DEF AtEnd
<1>9. Traced(tr, method, lower.pc, graph)
  <2>1. 0..0 = {0} /\ 0..0 - 1 = {}
    OBVIOUS
  <2> QED BY <1>3, <1>5, <1>6, <2>1 DEF Traced
<1>10. Sized(locals, arguments)
  BY EnvironmentsAssumption DEF Sized
<1>11. DOMAIN lower.locals = -arguments..locals - 1
  BY <1>3
<1> HIDE DEF locals, arguments
<1>12. TracedAs(tr, locals, arguments)
  BY <1>7, <1>8, <1>9, <1>10, <1>11 DEF TracedAs
<1> QED BY <1>12 DEF LoweringTraced

LEMMA StartsInMore ==
  ASSUME NEW g, NEW a, NEW locals, NEW arguments, Starts(g, a, locals, arguments),
         Len(g) \in Nat, a.len <= Len(g), NEW h, \A id \in 1..Len(g) : h[id] = g[id]
  PROVE  Starts(h, a, locals, arguments)
<1>1. a.len \in Nat
  BY DEF Starts
<1>2. \A id \in 1..a.len : id \in 1..Len(g)
  BY <1>1
<1> QED BY <1>2 DEF Starts

(* One more instruction.                                                        *)
LEMMA TraceStep ==
  ASSUME LowererOK(method, graph, lower), method \in Seq(Instructions), LoweringTraced,
         Advanced, LowerNext \/ CilLowerNext, source' = graph', method' = method
  PROVE  LoweringTraced'
<1> DEFINE n == lower.pc
           size == Len(graph)
           more == Len(graph')
           b == [stack |-> lower'.stack, locals |-> lower'.locals, len |-> more,
                 nodes |-> [j \in 1..more - size |-> graph'[size + j]]]
<1>1. PICK tr, locals, arguments :
        /\ Traced(tr, method, n, graph) /\ Starts(graph, tr[0], locals, arguments)
        /\ Sized(locals, arguments) /\ AtEnd(tr[n])
        /\ DOMAIN lower.locals = -arguments..locals - 1
  BY DEF LoweringTraced, TracedAs
<1>2. /\ more >= size /\ size \in Nat /\ more \in Nat /\ n \in Nat
      /\ \A id \in 1..size : graph'[id] = graph[id]
      /\ lower'.pc = n + 1 /\ DOMAIN lower'.locals = DOMAIN lower.locals
  BY DEF Advanced, LowererOK, LoweredGraph
<1>3. /\ b.stack = lower'.stack /\ b.locals = lower'.locals /\ b.len = more
      /\ \A j \in 1..more - size : b.nodes[j] = graph'[size + j]
  OBVIOUS
<1> HIDE DEF b
<1>4. Took(tr[n], b)
  BY <1>1, <1>3 DEF AtEnd, Took
<1>5. StraightStep(Op, tr[n], b)
  BY <1>4, TracedStep
<1>6. Traced(tr, method, n, graph')
  <2> DEFINE g == graph
             h == graph'
  <2>1. Len(g) \in Nat /\ Traced(tr, method, n, g) /\ Len(h) \in Nat /\ Len(g) <= Len(h)
        /\ n \in Nat /\ \A id \in 1..Len(g) : h[id] = g[id]
    BY <1>1, <1>2
  <2> HIDE DEF g, h, n
  <2>2. Traced(tr, method, n, h)
    BY <2>1, TraceInMore
  <2> QED BY <2>2 DEF h
<1>7. Placed(graph', tr[n], b)
  BY <1>1, <1>3 DEF Placed, AtEnd
<1>8. Starts(graph', tr[0], locals, arguments)
  <2>1. tr[0].len <= Len(graph) /\ Len(graph) \in Nat
    BY <1>1, <1>2 DEF Traced
  <2> QED BY <1>1, <1>2, <2>1, StartsInMore
<1>9. PICK t : Traced(t, method, n + 1, graph') /\ t[n + 1] = b /\ t[0] = tr[0]
  <2> DEFINE h == graph'
  <2>1. Continues(tr, method, n, h, b)
    BY <1>2, <1>3, <1>5, <1>6, <1>7 DEF Op, Continues
  <2> HIDE DEF h, n
  <2>2. \E t : Traced(t, method, n + 1, h) /\ t[n + 1] = b /\ t[0] = tr[0]
    BY <2>1, TraceGrows
  <2> QED BY <2>2 DEF h
<1>10. t[lower'.pc] = b
  BY <1>2, <1>9
<1>11. AtEnd(t[lower.pc])'
  BY <1>3, <1>10 DEF AtEnd
<1>12. Traced(t, method, lower.pc, graph)'
  BY <1>2, <1>9
<1>13. TracedAs(t, locals, arguments)'
  BY <1>1, <1>2, <1>8, <1>9, <1>11, <1>12 DEF TracedAs
<1> QED BY <1>13 DEF LoweringTraced

(* What is known of a method that was lowered.                                  *)
Ends(g, a) ==
  a.stack # <<>> => a.len + 1 <= Len(g) /\ IsNode(g[a.len + 1], "Return", <<Last(a.stack)>>)

LoweredAs(tr, locals, arguments) ==
  /\ LoweredGraph(source) /\ Traced(tr, method, Len(method), source)
  /\ Starts(source, tr[0], locals, arguments) /\ Sized(locals, arguments)
  /\ DOMAIN lower.locals = -arguments..locals - 1
  /\ Ends(source, tr[Len(method)])

LEMMA TraceEnd ==
  ASSUME LowererOK(method, graph, lower), method \in Seq(Instructions), LoweringTraced,
         LowerEnd, source' = graph', method' = method
  PROVE  \E tr, locals, arguments : LoweredAs(tr, locals, arguments)'
<1> DEFINE n == lower.pc
           s == lower.stack
<1>1. PICK tr, locals, arguments :
        /\ Traced(tr, method, n, graph) /\ Starts(graph, tr[0], locals, arguments)
        /\ Sized(locals, arguments) /\ AtEnd(tr[n])
        /\ DOMAIN lower.locals = -arguments..locals - 1
  BY DEF LoweringTraced, TracedAs
<1>2. /\ Len(graph') >= Len(graph) /\ Len(graph) \in Nat /\ Len(graph') \in Nat /\ n \in Nat
      /\ \A id \in 1..Len(graph) : graph'[id] = graph[id]
      /\ LoweredGraph(graph') /\ lower'.locals = lower.locals /\ n = Len(method)
  <2>1. LowererOK(method, graph', lower') /\ Len(graph') >= Len(graph)
        /\ lower'.locals = lower.locals /\ \A id \in 1..Len(graph) : graph'[id] = graph[id]
    BY EndStep
  <2>2. LoweredGraph(graph') /\ LoweredGraph(graph) /\ n \in Nat
    BY <2>1 DEF LowererOK
  <2>3. Len(graph) \in Nat /\ Len(graph') \in Nat
    BY <2>2 DEF LoweredGraph
  <2> QED BY <2>1, <2>2, <2>3 DEF LowerEnd
<1>3. Traced(tr, method, n, graph')
  <2> DEFINE g == graph
             h == graph'
  <2>1. Len(g) \in Nat /\ Traced(tr, method, n, g) /\ Len(h) \in Nat /\ Len(g) <= Len(h)
        /\ n \in Nat /\ \A id \in 1..Len(g) : h[id] = g[id]
    BY <1>1, <1>2
  <2> HIDE DEF g, h, n
  <2>2. Traced(tr, method, n, h)
    BY <2>1, TraceInMore
  <2> QED BY <2>2 DEF h
<1>4. Starts(graph', tr[0], locals, arguments)
  <2>1. tr[0].len <= Len(graph) /\ Len(graph) \in Nat
    BY <1>1, <1>2 DEF Traced
  <2> QED BY <1>1, <1>2, <2>1, StartsInMore
<1>5. ASSUME s # <<>>
      PROVE  Len(graph) + 1 <= Len(graph') /\ IsNode(graph'[Len(graph) + 1], "Return", <<Last(s)>>)
  <2> DEFINE r == ReturnOf(Nth(0))
             nodes == <<r>>
  <2>1. Depth > 0
    <3>1. s \in Seq(1..Len(graph))
      BY DEF LowererOK
    <3>2. Len(s) \in Nat /\ Len(s) # 0
      BY <1>5, <3>1, EmptySeq
    <3> QED BY <3>2 DEF Depth
  <2>2. graph' = graph \o nodes
    BY <2>1 DEF LowerEnd
  <2>3. IsNode(r, "Return", <<Last(s)>>)
    BY <2>1, OnTop, NewNodeFields DEF ReturnOf, IsNode
  <2> HIDE DEF r
  <2>4. nodes \in Seq({r}) /\ Len(nodes) = 1 /\ nodes[1] = r
    OBVIOUS
  <2>5. LoweredGraph(graph)
    BY DEF LowererOK
  <2> HIDE DEF nodes
  <2>6. Len(graph') = Len(graph) + 1 /\ graph'[Len(graph) + 1] = r
    <3>1. /\ Len(graph \o nodes) = Len(graph) + Len(nodes)
          /\ \A k \in 1..Len(nodes) : (graph \o nodes)[Len(graph) + k] = nodes[k]
      BY <2>4, <2>5, AppendedAny
    <3> QED BY <2>2, <2>4, <3>1
  <2> QED BY <1>2, <2>3, <2>6
<1>6. Ends(graph', tr[n])
  BY <1>1, <1>5 DEF Ends, AtEnd
<1>7. LoweredAs(tr, locals, arguments)'
  BY <1>1, <1>2, <1>3, <1>4, <1>6 DEF LoweredAs
<1> QED BY <1>7

-----------------------------------------------------------------------------
(* The call: the unknowns of the graph are the slots of the frame.              *)

EnvFor(given, locals) ==
  [id \in DOMAIN (CHOOSE e \in Environments : TRUE) |->
     LET slot == {l \in DOMAIN given : SlotNode(locals, l) = id}
     IN  IF slot = {} THEN 0 ELSE given[CHOOSE l \in slot : TRUE].v]

LEMMA LocalsCounted ==
  ASSUME NEW locals \in Nat, NEW arguments \in Nat
  PROVE  Cardinality({l \in -arguments..locals - 1 : l >= 0}) = locals
<1>1. {l \in -arguments..locals - 1 : l >= 0} = 0..locals - 1
  OBVIOUS
<1>2. Cardinality(0..locals - 1) = IF 0 > locals - 1 THEN 0 ELSE (locals - 1) - 0 + 1
  <2>1. 0 \in Int /\ locals - 1 \in Int
    OBVIOUS
  <2> QED BY <2>1, FS_Interval
<1> DEFINE c == Cardinality(0..locals - 1)
<1>3. c = IF 0 > locals - 1 THEN 0 ELSE (locals - 1) - 0 + 1
  BY <1>2
<1>4. c = locals
  <2> HIDE DEF c
  <2> QED BY <1>3
<1>5. Cardinality({l \in -arguments..locals - 1 : l >= 0}) = c
  BY <1>1
<1> QED BY <1>4, <1>5

LEMMA SlotNodesDiffer ==
  ASSUME NEW locals \in Nat, NEW arguments \in Nat, NEW k \in -arguments..locals - 1,
         NEW l \in -arguments..locals - 1, SlotNode(locals, k) = SlotNode(locals, l)
  PROVE  k = l
BY DEF SlotNode

LEMMA SlotNodeInRange ==
  ASSUME NEW locals \in Nat, NEW arguments \in Nat, NEW l \in -arguments..locals - 1
  PROVE  SlotNode(locals, l) \in 2..locals + arguments + 1
BY DEF SlotNode

LEMMA SlotsArePhis ==
  ASSUME NEW locals \in Nat, NEW arguments \in Nat, Sized(locals, arguments),
         NEW given, DOMAIN given \subseteq -arguments..locals - 1,
         NEW x \in -arguments..locals - 1
  PROVE  EnvFor(given, locals)[SlotNode(locals, x)] = IF x \in DOMAIN given THEN given[x].v ELSE 0
<1> DEFINE D == DOMAIN (CHOOSE e \in Environments : TRUE)
           id == SlotNode(locals, x)
           slot == {l \in DOMAIN given : SlotNode(locals, l) = id}
<1>1. id \in D
  <2>1. (CHOOSE e \in Environments : TRUE) \in Environments
    BY EnvironmentsAssumption
  <2>2. 1..locals + arguments + 1 \subseteq D
    BY <2>1 DEF Sized
  <2>3. id \in 1..locals + arguments + 1
    <3>1. id \in 2..locals + arguments + 1
      BY SlotNodeInRange
    <3> HIDE DEF id
    <3> QED BY <3>1
  <2> QED BY <2>2, <2>3
<1>2. slot = IF x \in DOMAIN given THEN {x} ELSE {}
  <2>1. \A l \in DOMAIN given : SlotNode(locals, l) = id => l = x
    BY SlotNodesDiffer
  <2> QED BY <2>1
<1>3. EnvFor(given, locals)[id] = IF slot = {} THEN 0 ELSE given[CHOOSE l \in slot : TRUE].v
  <2> HIDE DEF id, D
  <2> QED BY <1>1 DEF EnvFor, D
<1> HIDE DEF slot, id
<1>4. CASE x \in DOMAIN given
  <2>1. slot = {x} /\ slot # {} /\ (CHOOSE l \in slot : TRUE) = x
    <3>1. slot = {x}
      BY <1>2, <1>4
    <3>2. (CHOOSE l \in {x} : TRUE) \in {x}
      OBVIOUS
    <3> QED BY <3>1, <3>2
  <2> QED BY <1>3, <1>4, <2>1 DEF id
<1>5. CASE x \notin DOMAIN given
  BY <1>2, <1>3, <1>5 DEF id
<1> QED BY <1>4, <1>5

LEMMA SlotsGiven ==
  ASSUME NEW tr, NEW locals, NEW arguments, LoweredAs(tr, locals, arguments),
         NEW given, DOMAIN given \subseteq -arguments..locals - 1,
         NEW env, env = EnvFor(given, locals)
  PROVE  \E vals : /\ NodesGive(source, env, vals, tr[0].len)
                   /\ Follows(Frame(CallSlots(given)), tr[0], vals)
<1> DEFINE a == tr[0]
           n == locals + arguments + 1
           D == -arguments..locals - 1
           vals == [id \in 1..n |-> IF id = 1 THEN 0 ELSE env[id]]
           fl == CallSlots(given)
           tl == [l \in D |-> SlotNode(locals, l)]
           f == Frame(fl)
<1>1. /\ locals \in Nat /\ arguments \in Nat /\ a.len = n /\ a.stack = <<>> /\ a.locals = tl
      /\ \A id \in 1..n : source[id].kind = IF id = 1 THEN "Start" ELSE "Phi"
      /\ Sized(locals, arguments) /\ DOMAIN lower.locals = D
  BY DEF LoweredAs, Starts
<1>2. n \in Nat \ {0}
  BY <1>1
<1> HIDE DEF n
<1>3. NodesGive(source, env, vals, n)
  <2> SUFFICES ASSUME NEW id \in 1..n PROVE NodeGives(source, env, vals, id)
    BY DEF NodesGive
  <2>1. CASE id = 1
    <3>1. vals[id] = 0 /\ source[id].kind = "Start"
      BY <1>1, <2>1
    <3> HIDE DEF vals
    <3> QED BY <3>1 DEF NodeGives
  <2>2. CASE id # 1
    <3>1. vals[id] = env[id] /\ source[id].kind = "Phi"
      BY <1>1, <2>2
    <3> HIDE DEF vals
    <3> QED BY <3>1 DEF NodeGives
  <2> QED BY <2>1, <2>2
<1>4. ASSUME NEW l \in D PROVE tl[l] \in 1..n /\ fl[l].v = vals[tl[l]]
  <2>1. SlotNode(locals, l) \in 2..n
    BY <1>1, SlotNodeInRange DEF n
  <2>2. vals[SlotNode(locals, l)] = env[SlotNode(locals, l)] /\ SlotNode(locals, l) \in 1..n
    <3> DEFINE id == SlotNode(locals, l)
    <3> HIDE DEF id
    <3>1. id \in 2..n
      BY <2>1 DEF id
    <3>2. id \in 1..n /\ id # 1
      BY <1>2, <3>1
    <3>3. vals[id] = env[id]
      BY <3>2
    <3> QED BY <3>2, <3>3 DEF id
  <2>3. env[SlotNode(locals, l)] = IF l \in DOMAIN given THEN given[l].v ELSE 0
    BY <1>1, SlotsArePhis
  <2>4. fl[l] = IF l \in DOMAIN given THEN given[l] ELSE Uninit
    BY <1>1 DEF CallSlots
  <2>5. Uninit.v = 0
    BY DEF Uninit, Value
  <2>6. tl[l] = SlotNode(locals, l)
    OBVIOUS
  <2> HIDE DEF vals, fl, tl
  <2> QED BY <2>2, <2>3, <2>4, <2>5, <2>6
<1>5. Slots(fl, tl, n, vals)
  <2>1. DOMAIN tl = D /\ tl = [l \in D |-> tl[l]]
    OBVIOUS
  <2>2. fl = [l \in D |-> fl[l]]
    BY <1>1 DEF CallSlots
  <2> HIDE DEF fl, tl, vals, D
  <2> QED BY <1>4, <2>1, <2>2 DEF Slots
<1>6. Matches(<<>>, <<>>, n, vals)
  <2>1. <<>> \in Seq(1..n) /\ Len(<<>>) = 0
    OBVIOUS
  <2> HIDE DEF vals
  <2> QED BY <2>1 DEF Matches, IsStack
<1> HIDE DEF fl, tl, vals
<1>7. f = [pc |-> 0, stack |-> <<>>, locals |-> fl, error |-> FALSE]
  BY DEF Frame
<1> HIDE DEF f
<1>8. IsFrame(f) /\ f.stack = <<>> /\ f.locals = fl /\ ~f.error
  BY <1>7 DEF IsFrame
<1>9. Follows(f, a, vals)
  BY <1>1, <1>5, <1>6, <1>8 DEF Follows
<1> QED BY <1>1, <1>3, <1>9 DEF f, fl

-----------------------------------------------------------------------------
(* granit beside the trace.                                                     *)

Coupled(tr) ==
  \/ outcome.status \in {"idle", "failed", "trapped"}
  \/ /\ outcome = Running /\ frame.pc \in 0..Len(method)
     /\ \E vals : /\ NodesGive(source, EnvOfCall, vals, tr[frame.pc].len)
                  /\ Follows(frame, tr[frame.pc], vals)
  \/ /\ outcome.status = "returned"
     /\ outcome.value.t \in {"int", "long"} => Answers(source, EnvOfCall, outcome.value.v)

BaselineOK ==
  /\ LoweringOK
  /\ lower.status = "lowering" => outcome = Idle
  /\ method = NoCode => outcome.status \in {"idle", "trapped"}
  /\ lower.status = "lowering" => ~rejected
  /\ method # NoCode /\ lower.status = "lowering" => LoweringTraced
  /\ method # NoCode /\ lower.status = "lowered" =>
       \E tr, locals, arguments :
         LoweredAs(tr, locals, arguments) /\ (StraightLine /\ ~narrow => Coupled(tr))

LEMMA Runs ==
  ASSUME InterpNext \/ CilNext
  PROVE  outcome = Running
BY DEF InterpNext, CilNext, Constant, LoadLocal, StoreLocal, Increment, StackOperation,
   BinaryOperation, Negate, Convert, CompareValues, Branch, GotoTarget, ReturnVoid, ReturnTop,
   Unsupported, RunsOff, CilConstant, LoadSlot, StoreSlot, CilStack, CilArithmetic, CilBits,
   CilUnaryOperation, ConvertTo, CompareOperands, CilBranch, CilReturn, CilUnsupported, At

LEMMA OffTheEnd ==
  ASSUME InterpNext \/ CilNext, ~(frame.pc < Len(method))
  PROVE  RunsOff
<1>1. \A op : ~At(op)
  BY DEF At
<1>2. ~BinaryOperation /\ ~CilArithmetic /\ ~CilUnaryOperation /\ ~StackOperation
  BY <1>1, Zenon DEF BinaryOperation, CilArithmetic, CilUnaryOperation, StackOperation
<1>3. /\ ~Constant /\ ~LoadLocal /\ ~StoreLocal /\ ~Increment /\ ~Negate /\ ~Convert
      /\ ~CompareValues /\ ~Branch /\ ~GotoTarget /\ ~ReturnVoid /\ ~ReturnTop
  BY <1>1, Zenon DEF Constant, LoadLocal, StoreLocal, Increment, Negate, Convert, CompareValues,
     Branch, GotoTarget, ReturnVoid, ReturnTop
<1>4. /\ ~CilConstant /\ ~LoadSlot /\ ~StoreSlot /\ ~CilStack /\ ~CilBits /\ ~ConvertTo
      /\ ~CompareOperands /\ ~CilBranch /\ ~CilReturn /\ ~CilUnsupported
  BY <1>1, Zenon DEF CilConstant, LoadSlot, StoreSlot, CilStack, CilBits, ConvertTo,
     CompareOperands, CilBranch, CilReturn, CilUnsupported
<1>5. ~Unsupported
  BY DEF Unsupported
<1> QED BY <1>2, <1>3, <1>4, <1>5 DEF InterpNext, CilNext

LEMMA NarrowStays ==
  ASSUME InterpNext \/ CilNext, narrow
  PROVE  narrow'
<1>1. CASE BinaryOperation
  BY <1>1 DEF BinaryOperation
<1>2. CASE CilArithmetic
  BY <1>2, Zenon DEF CilArithmetic
<1>3. CASE Increment \/ Negate \/ Convert \/ CompareOperands
  BY <1>3 DEF Increment, Negate, Convert, CompareOperands
<1>4. CASE \/ Constant \/ LoadLocal \/ StoreLocal \/ StackOperation \/ CompareValues \/ Branch
           \/ GotoTarget \/ ReturnVoid \/ ReturnTop \/ Unsupported \/ RunsOff
  BY <1>4 DEF Constant, LoadLocal, StoreLocal, StackOperation, CompareValues, Branch, GotoTarget,
     ReturnVoid, ReturnTop, Unsupported, RunsOff
<1>5. CASE \/ CilConstant \/ LoadSlot \/ StoreSlot \/ CilStack \/ CilBits \/ CilUnaryOperation
           \/ ConvertTo \/ CilBranch \/ CilReturn \/ CilUnsupported
  BY <1>5 DEF CilConstant, LoadSlot, StoreSlot, CilStack, CilBits, CilUnaryOperation, ConvertTo,
     CilBranch, CilReturn, CilUnsupported
<1> QED BY <1>1, <1>2, <1>3, <1>4, <1>5 DEF InterpNext, CilNext

LEMMA StraightOps ==
  ASSUME StraightLine, method \in Seq(Instructions), NEW k \in 1..Len(method)
  PROVE  method[k] \in Instructions /\ IsStraightOp(method[k])
<1>1. k \in DOMAIN method /\ method[k] \in Instructions
  OBVIOUS
<1> QED BY <1>1 DEF StraightLine, IsStraightOp

(* A step of granit with nothing else changed keeps the coupling.               *)
LEMMA CoupledStep ==
  ASSUME method \in Seq(Instructions), StraightLine,
         NEW tr, NEW locals, NEW arguments, LoweredAs(tr, locals, arguments), Coupled(tr),
         InterpNext \/ CilNext, ~narrow',
         EnvOfCall' = EnvOfCall, source' = source, method' = method
  PROVE  Coupled(tr)'
<1> DEFINE env == EnvOfCall
           n == frame.pc
<1>1. outcome = Running
  BY Runs
<1>2. PICK vals : NodesGive(source, env, vals, tr[n].len) /\ Follows(frame, tr[n], vals)
  BY <1>1 DEF Coupled, Running
<1>3. n \in 0..Len(method) /\ Len(method) \in Nat
  BY <1>1 DEF Coupled, Running
<1>4. LoweredGraph(source) /\ Len(source) \in Nat
  BY DEF LoweredAs, LoweredGraph
<1> HIDE DEF env
<1>5. ASSUME n < Len(method)
      PROVE  Fails \/ Advances(source, env, tr[n + 1]) \/ Returns(source, env)
  <2> DEFINE a == tr[n]
             b == tr[n + 1]
  <2>1. /\ StraightStep(Instr, a, b) /\ Placed(source, a, b)
        /\ a.len \in Nat /\ b.len \in Nat /\ b.len <= Len(source)
    <3>1. n \in 0..Len(method) - 1 /\ n \in 0..Len(method) /\ n + 1 \in 0..Len(method)
      BY <1>3, <1>5
    <3> QED BY <3>1 DEF LoweredAs, Traced, Instr
  <2>2. Here(source, env, a, b, vals)
    BY <1>2, <1>4, <2>1 DEF Here, Placed
  <2>3. Instr \in Instructions /\ IsStraightOp(Instr)
    <3>1. n + 1 \in 1..Len(method)
      BY <1>3, <1>5
    <3> QED BY <3>1, StraightOps DEF Instr
  <2>4. frame.pc \in Nat /\ frame.pc < Len(method) /\ Len(method) \in Nat
    BY <1>3, <1>5
  <2> HIDE DEF a, b
  <2>5. Fails \/ Advances(source, env, b) \/ Returns(source, env)
    BY ONLY <2>1, <2>2, <2>3, <2>4, InterpNext \/ CilNext, ~narrow', InstructionFollows
  <2> QED BY <2>5 DEF b
<1>6. ASSUME ~(n < Len(method)) PROVE Returns(source, env)
  <2> DEFINE a == tr[n]
             e == a.len + 1
             x == Last(a.stack)
  <2>1. n = Len(method)
    BY <1>3, <1>6
  <2>2. Give("returned", Top(frame))
    <3>1. ~(frame.pc < Len(method))
      BY <1>6
    <3>2. RunsOff
      BY <3>1, OffTheEnd
    <3> QED BY <3>2 DEF RunsOff
  <2>3. a.len \in Nat /\ Matches(frame.stack, a.stack, a.len, vals) /\ Ends(source, a)
    <3>1. Ends(source, tr[Len(method)])
      BY DEF LoweredAs
    <3>2. n \in 0..Len(method)
      BY <1>3
    <3>3. a.len \in Nat
      BY <3>2 DEF LoweredAs, Traced
    <3> QED BY <1>2, <2>1, <3>1, <3>3 DEF Follows
  <2>4. ASSUME a.stack # <<>> PROVE Answers(source, env, Top(frame).v)
    <3> DEFINE fs == frame.stack
               ts == a.stack
               size == a.len
    <3>1. e <= Len(source) /\ IsNode(source[e], "Return", <<x>>)
      BY <2>3, <2>4 DEF Ends
    <3>2. Top(frame).v = vals[x]
      BY <2>3, <2>4, MatchedTop
    <3>3. /\ LoweredGraph(source) /\ size \in Nat /\ NodesGive(source, env, vals, size) /\ e = size + 1
      BY <1>2, <1>4, <2>3 DEF env
    <3> HIDE DEF e, size, x
    <3>4. Answers(source, env, vals[x])
      BY ONLY <3>1, <3>3, ReturnAnswers
    <3> QED BY <3>2, <3>4
  <2>5. ASSUME a.stack = <<>> PROVE frame.stack = <<>>
    <3> DEFINE fs == frame.stack
               ts == a.stack
               size == a.len
    <3>1. Matches(fs, ts, size, vals)
      BY <2>3
    <3> HIDE DEF fs, size
    <3>2. fs = <<>> <=> ts = <<>>
      BY <3>1, EmptyStacks
    <3> QED BY <2>5, <3>2 DEF fs
  <2> QED BY <2>2, <2>4, <2>5, TopReturned
<1>7. CASE Fails
  BY <1>7 DEF Fails, Coupled
<1>8. CASE Returns(source, env)
  BY <1>8 DEF Returns, Coupled, env
<1>9. ASSUME n < Len(method), Advances(source, env, tr[n + 1]) PROVE Coupled(tr)'
  <2>1. outcome' = Running /\ frame'.pc = n + 1
    BY <1>1, <1>9 DEF Advances
  <2>2. frame'.pc \in 0..Len(method)
    BY <1>3, <1>9, <2>1
  <2>3. PICK w : NodesGive(source, env, w, tr[n + 1].len) /\ Follows(frame', tr[n + 1], w)
    BY <1>9 DEF Advances
  <2>4. NodesGive(source', EnvOfCall', w, tr[frame'.pc].len) /\ Follows(frame', tr[frame'.pc], w)
    BY <2>1, <2>3 DEF env
  <2> QED BY <2>1, <2>2, <2>4 DEF Coupled
<1> QED BY <1>5, <1>6, <1>7, <1>8, <1>9

LEMMA BaselineInit ==
  ASSUME Init
  PROVE  BaselineOK
<1>1. LoweringOK /\ outcome = Idle /\ outcome.status = "idle" /\ ~rejected
  BY LoweringInit DEF Init, Idle
<1>2. CASE \E m \in Methods : method = m.code /\ LowerInit(m.locals, m.args) /\ source = graph
  <2>1. PICK m \in Methods : method = m.code /\ LowerInit(m.locals, m.args) /\ source = graph
    BY <1>2
  <2>2. LoweringTraced
    BY <2>1, TraceInit
  <2>3. lower.status = "lowering"
    BY <2>1 DEF LowerInit
  <2> QED BY <1>1, <2>2, <2>3 DEF BaselineOK
<1>3. CASE ~\E m \in Methods : method = m.code /\ LowerInit(m.locals, m.args) /\ source = graph
  <2>1. /\ method = NoCode
        /\ lower = [pc |-> 0, stack |-> <<>>, locals |-> <<>>, ctrl |-> 1, eff |-> 1,
                    status |-> "lowered"]
    <3> DEFINE first == \E m \in Methods : method = m.code /\ LowerInit(m.locals, m.args) /\ source = graph
    <3> HIDE DEF first
    <3>1. first \/ (/\ method = NoCode
                    /\ lower = [pc |-> 0, stack |-> <<>>, locals |-> <<>>, ctrl |-> 1, eff |-> 1,
                                status |-> "lowered"])
      BY DEF Init, first
    <3> QED BY <1>3, <3>1 DEF first
  <2>2. lower.status = "lowered"
    BY <2>1
  <2> QED BY <1>1, <2>1, <2>2 DEF BaselineOK
<1> QED BY <1>2, <1>3

LEMMA BaselineLower ==
  ASSUME BaselineOK, Lower, LoweringOK'
  PROVE  BaselineOK'
<1>1. /\ method \in Seq(Instructions) /\ (LowerNext \/ CilLowerNext)
      /\ method' = method /\ outcome' = outcome /\ rejected' = rejected /\ source' = graph'
  BY DEF BaselineOK, LoweringOK, Lower, interpVars
<1>2. lower.status = "lowering"
  BY <1>1 DEF LowerNext, CilLowerNext, Lowering, LowerConst, LowerLoad, LowerStore, LowerIinc,
     LowerStackOp, LowerPure, LowerEffect, LowerIf, LowerGoto, LowerReturn, LowerSwitch, LowerEnd,
     LowerLdC, LowerLdLoc, LowerStLoc, LowerCilStack, LowerCilPure, LowerObject, LowerBr,
     LowerBrIf, LowerBrCmp, LowerRet, LowerUnsupported
<1>3. LowererOK(method, graph, lower) /\ outcome = Idle /\ ~rejected
  BY <1>2 DEF BaselineOK, LoweringOK
<1>4. method # NoCode => LoweringTraced
  BY <1>2 DEF BaselineOK
<1>5. CASE Advanced
  <2>1. lower'.status = "lowering"
    BY <1>5 DEF Advanced
  <2>2. method # NoCode => LoweringTraced'
    BY <1>1, <1>3, <1>4, <1>5, TraceStep
  <2> QED BY <1>1, <1>3, <2>1, <2>2 DEF BaselineOK
<1>6. CASE Failed
  <2>1. lower'.status = "failed"
    BY <1>3, <1>6 DEF Failed, LowererOK
  <2> QED BY <1>1, <1>3, <2>1 DEF BaselineOK
<1>7. CASE LowerEnd
  <2>1. lower'.status = "lowered"
    BY <1>3, <1>7, EndStep
  <2>2. method # NoCode => \E tr, locals, arguments : LoweredAs(tr, locals, arguments)'
    BY <1>1, <1>3, <1>4, <1>7, TraceEnd
  <2>3. \A tr : Coupled(tr)'
    BY <1>1, <1>3 DEF Coupled, Idle
  <2> QED BY <1>1, <1>3, <2>1, <2>2, <2>3 DEF BaselineOK
<1> QED BY <1>1, <1>3, <1>5, <1>6, <1>7, LowerStep

LEMMA LoweredStays ==
  ASSUME NEW tr, NEW locals, NEW arguments, LoweredAs(tr, locals, arguments),
         source' = source, method' = method, lower' = lower
  PROVE  LoweredAs(tr, locals, arguments)'
BY DEF LoweredAs

LEMMA BaselineStays ==
  ASSUME BaselineOK, LoweringOK', source' = source, method' = method, lower' = lower,
         interpVars' = interpVars, args' = args,
         lower.status = "lowering" => rejected' = rejected /\ graph' = graph
  PROVE  BaselineOK'
<1>1. /\ outcome' = outcome /\ frame' = frame /\ narrow' = narrow /\ EnvOfCall' = EnvOfCall
      /\ StraightLine' = StraightLine
  BY DEF interpVars, EnvOfCall, StraightLine
<1>2. ASSUME NEW tr, Coupled(tr) PROVE Coupled(tr)'
  BY <1>1, <1>2 DEF Coupled
<1>3. CASE lower.status = "lowered"
  <2>1. ASSUME method # NoCode
        PROVE  \E tr, locals, arguments :
                 (LoweredAs(tr, locals, arguments) /\ (StraightLine /\ ~narrow => Coupled(tr)))'
    <3>1. PICK tr, locals, arguments :
            LoweredAs(tr, locals, arguments) /\ (StraightLine /\ ~narrow => Coupled(tr))
      BY <1>3, <2>1 DEF BaselineOK
    <3>2. LoweredAs(tr, locals, arguments)'
      BY <3>1, LoweredStays
    <3>3. StraightLine' /\ ~narrow' => Coupled(tr)'
      BY <1>1, <1>2, <3>1
    <3> QED BY <3>2, <3>3
  <2> QED BY <1>1, <1>3, <2>1 DEF BaselineOK
<1>4. CASE lower.status # "lowered"
  <2>1. LoweringTraced /\ graph' = graph => LoweringTraced'
    BY DEF LoweringTraced, TracedAs, AtEnd
  <2> QED BY <1>1, <1>4, <2>1 DEF BaselineOK
<1> QED BY <1>3, <1>4

LEMMA BaselineCall ==
  ASSUME BaselineOK, LoweringOK', Call
  PROVE  BaselineOK'
<1>1. /\ method # NoCode /\ outcome' = Running /\ args' \in [Given -> Arguments]
      /\ frame' = Frame(CallSlots(args')) /\ narrow' = narrow /\ method' = method
      /\ lower' = lower /\ source' = source
  BY DEF Call, lowerVars, pipeVars
<1>2. lower.status # "lowering"
  BY DEF Call, Compiled, BaselineOK
<1>3. ASSUME lower.status = "lowered"
      PROVE  \E tr, locals, arguments :
               (LoweredAs(tr, locals, arguments) /\ (StraightLine /\ ~narrow => Coupled(tr)))'
  <2>1. PICK tr, locals, arguments : LoweredAs(tr, locals, arguments)
    BY <1>1, <1>3 DEF BaselineOK
  <2>2. LoweredAs(tr, locals, arguments)'
    BY <1>1, <2>1, LoweredStays
  <2>3. /\ DOMAIN lower.locals = -arguments..locals - 1
        /\ locals \in Nat /\ arguments \in Nat
    BY <2>1 DEF LoweredAs, Starts
  <2>4. DOMAIN args' \subseteq -arguments..locals - 1
    BY <1>1, <2>3 DEF Given
  <2> DEFINE env == EnvOfCall'
  <2>5. env = EnvFor(args', locals)
    <3> DEFINE c == Cardinality({l \in DOMAIN lower.locals : l >= 0})
    <3>1. c = locals
      BY <2>3, LocalsCounted
    <3>2. EnvOfCall' = EnvFor(args', c)
      BY <1>1 DEF EnvOfCall, EnvFor
    <3> HIDE DEF c
    <3> QED BY <3>1, <3>2
  <2> DEFINE given == args'
  <2>6. \E vals : /\ NodesGive(source, env, vals, tr[0].len)
                  /\ Follows(Frame(CallSlots(given)), tr[0], vals)
    <3> HIDE DEF env, given
    <3> QED BY <2>1, <2>4, <2>5, SlotsGiven DEF given
  <2>7. frame'.pc = 0 /\ 0 \in 0..Len(method)
    <3>1. Len(method) \in Nat
      BY DEF BaselineOK, LoweringOK
    <3> QED BY <1>1, <3>1 DEF Frame
  <2>8. Coupled(tr)'
    BY <1>1, <2>6, <2>7 DEF Coupled
  <2> QED BY <2>2, <2>8
<1> QED BY <1>1, <1>2, <1>3 DEF BaselineOK

LEMMA BaselineInterpret ==
  ASSUME BaselineOK, LoweringOK', Interpret
  PROVE  BaselineOK'
<1>1. /\ InterpNext \/ CilNext
      /\ method' = method /\ lower' = lower /\ source' = source /\ args' = args
      /\ rejected' = rejected
  BY DEF Interpret, lowerVars, pipeVars
<1>2. outcome # Idle /\ outcome.status = "running"
  BY <1>1, Runs DEF Running, Idle
<1>3. lower.status # "lowering" /\ method # NoCode
  BY <1>2 DEF BaselineOK
<1>4. EnvOfCall' = EnvOfCall /\ StraightLine' = StraightLine
  BY <1>1 DEF EnvOfCall, StraightLine
<1>5. ASSUME lower.status = "lowered"
      PROVE  \E tr, locals, arguments :
               (LoweredAs(tr, locals, arguments) /\ (StraightLine /\ ~narrow => Coupled(tr)))'
  <2>1. PICK tr, locals, arguments :
          LoweredAs(tr, locals, arguments) /\ (StraightLine /\ ~narrow => Coupled(tr))
    BY <1>3, <1>5 DEF BaselineOK
  <2>2. LoweredAs(tr, locals, arguments)'
    BY <1>1, <2>1, LoweredStays
  <2>3. ASSUME StraightLine, ~narrow' PROVE Coupled(tr)'
    <3>1. Coupled(tr)
      BY <1>1, <2>1, <2>3, NarrowStays
    <3>2. method \in Seq(Instructions)
      BY DEF BaselineOK, LoweringOK
    <3> QED BY <1>1, <1>4, <2>1, <2>3, <3>1, <3>2, CoupledStep
  <2> QED BY <1>4, <2>2, <2>3
<1> QED BY <1>1, <1>3, <1>5 DEF BaselineOK

LEMMA BaselineTraps ==
  ASSUME BaselineOK, LoweringOK', PassTraps
  PROVE  BaselineOK'
<1>1. /\ lower.status = "lowered" /\ outcome'.status = "trapped"
      /\ method' = method /\ lower' = lower /\ source' = source
  BY DEF PassTraps, lowerVars, pipeVars
<1>2. ASSUME method # NoCode
      PROVE  \E tr, locals, arguments :
               (LoweredAs(tr, locals, arguments) /\ (StraightLine /\ ~narrow => Coupled(tr)))'
  <2>1. PICK tr, locals, arguments : LoweredAs(tr, locals, arguments)
    BY <1>1, <1>2 DEF BaselineOK
  <2>2. LoweredAs(tr, locals, arguments)'
    BY <1>1, <2>1, LoweredStays
  <2>3. Coupled(tr)'
    BY <1>1 DEF Coupled
  <2> QED BY <2>2, <2>3
<1> QED BY <1>1, <1>2 DEF BaselineOK

LEMMA BaselineStep ==
  ASSUME BaselineOK, [Next]_vars
  PROVE  BaselineOK'
<1>1. LoweringOK'
  BY LoweringStep DEF BaselineOK
<1>2. CASE Lower
  BY <1>1, <1>2, BaselineLower
<1>3. CASE Optimize \/ CompilePeak
  <2>1. /\ lower.status = "lowered" /\ source' = source /\ method' = method /\ lower' = lower
        /\ interpVars' = interpVars /\ args' = args
    BY <1>3 DEF Optimize, CompilePeak
  <2> QED BY <1>1, <2>1, BaselineStays
<1>4. CASE Call
  BY <1>1, <1>4, BaselineCall
<1>5. CASE Interpret
  BY <1>1, <1>5, BaselineInterpret
<1>6. CASE UNCHANGED vars
  <2>1. /\ source' = source /\ method' = method /\ lower' = lower /\ graph' = graph
        /\ interpVars' = interpVars /\ args' = args /\ rejected' = rejected
    BY <1>6 DEF vars, pipeVars, lowerVars
  <2> QED BY <1>1, <2>1, BaselineStays
<1>7. CASE PassTraps
  BY <1>1, <1>7, BaselineTraps
<1> QED BY <1>2, <1>3, <1>4, <1>5, <1>6, <1>7 DEF Next

(* Whatever straight-line method Tier 1 compiles as it was lowered, the code    *)
(* returns the int or long that granit returns for the same arguments.          *)
THEOREM BaselineAlwaysAgrees == Spec => []BaselineAgrees
<1>1. Init => BaselineOK
  BY BaselineInit
<1>2. BaselineOK /\ [Next]_vars => BaselineOK'
  BY BaselineStep
<1>3. BaselineOK => BaselineAgrees
  <2> SUFFICES ASSUME BaselineOK, lower.status = "lowered", outcome.status = "returned",
                      outcome.value.t \in {"int", "long"}, StraightLine, ~narrow,
                      Len(source) <= Fuel
               PROVE  MachineRun(source, EnvOfCall, Fuel).result = <<"value", outcome.value.v>>
    BY DEF BaselineAgrees
  <2>1. method # NoCode
    BY DEF BaselineOK, Idle
  <2>2. PICK tr, locals, arguments : LoweredAs(tr, locals, arguments) /\ Coupled(tr)
    BY <2>1 DEF BaselineOK
  <2>3. Answers(source, EnvOfCall, outcome.value.v)
    BY <2>2 DEF Coupled, Running
  <2> DEFINE env == EnvOfCall
             v == outcome.value.v
  <2>4. PICK e, w : /\ ReturnsAt(source, e) /\ NodesGive(source, env, w, e - 1)
                    /\ Len(source[e].in) = 1 /\ w[source[e].in[1]] = v
    BY <2>3 DEF Answers
  <2>5. e <= Fuel
    <3>1. e \in 1..Len(source) /\ Len(source) \in Nat
      BY <2>4 DEF ReturnsAt, LoweredGraph
    <3> QED BY <3>1, FuelAssumption
  <2> HIDE DEF env
  <2>6. MachineRun(source, env, Fuel).result = TheValue(w[source[e].in[1]])
    BY <2>4, <2>5, FuelAssumption, RunReturns
  <2> QED BY <2>4, <2>6 DEF TheValue, env
<1> QED BY <1>1, <1>2, <1>3, PTL DEF Spec

-----------------------------------------------------------------------------
(* For the optimizer: graphs, the layout of those without ways back, and what  *)
(* the machine does with one.                                                   *)

LEMMA PrefixOfPrefix ==
  ASSUME NEW n \in Nat, NEW k \in 1..n
  PROVE  /\ k - 1 \in Nat /\ (k - 1) + 1 = k /\ 1..k \in SUBSET (1..n) /\ 1..k # {}
         /\ k \in 1..k /\ (1..k) \ {k} = 1..k - 1
OBVIOUS

-----------------------------------------------------------------------------
(* Graphs: sequences of records with the fields of a node.                      *)

GraphNode(n) ==
  /\ n \in [kind: Kinds, in: {n.in}, ctrl: {n.ctrl}, eff: {n.eff}, flags: SUBSET Flags,
            type: {n.type}, val: {n.val}, cls: {n.cls}, state: {n.state}]

IsGraph(g) == IsStack(g) /\ \A id \in 1..Len(g) : GraphNode(g[id])

LEMMA GraphFacts ==
  ASSUME NEW g, IsGraph(g)
  PROVE  /\ Len(g) \in Nat /\ DOMAIN g = 1..Len(g) /\ Ids(g) = 1..Len(g)
         /\ g = [id \in 1..Len(g) |-> g[id]]
BY DEF IsGraph, IsStack, Ids

LEMMA GraphOfNodes ==
  ASSUME NEW n \in Nat, NEW h, h = [id \in 1..n |-> h[id]], \A id \in 1..n : GraphNode(h[id])
  PROVE  IsGraph(h) /\ Len(h) = n
<1> DEFINE S == {h[id] : id \in 1..n}
<1>1. h \in [1..n -> S]
  BY DEF S
<1>2. h \in Seq(S)
  BY <1>1
<1> HIDE DEF S
<1>3. Len(h) = n
  BY <1>1, <1>2
<1> QED BY <1>2, <1>3 DEF IsGraph, IsStack

-----------------------------------------------------------------------------
(* Graphs without ways back: operands that live come first, and If, IfTrue and  *)
(* IfFalse follow one another.                                                  *)

Usable(g, x, id) ==
  x \in 1..id - 1 /\ ~Dead(g, x) /\ g[x].kind \notin {"If", "CheckBounds", "CheckNotNull"}

ForwardNode(g, id) ==
  /\ g[id].in \in Seq(Nat) /\ g[id].kind \notin {"Loop", "Jump"}
  /\ ~Dead(g, id) => \A k \in 1..Len(g[id].in) : Usable(g, g[id].in[k], id)
  /\ g[id].kind = "If" => id + 2 <= Len(g) /\ g[id + 1].kind = "IfTrue" /\ g[id + 2].kind = "IfFalse"
  /\ g[id].kind = "IfTrue" => g[id].ctrl = id - 1
  /\ g[id].kind = "IfFalse" => g[id].ctrl = id - 2
  /\ g[id].kind \in {"IfTrue", "IfFalse"} =>
       ~Dead(g, id) /\ Has(g, id, "Control") /\ ~Has(g, id, "Pure")

Forward(g) == IsGraph(g) /\ \A id \in 1..Len(g) : ForwardNode(g, id)

(* A set of numbers below a bound has a greatest one.                           *)
LEMMA GreatestNat ==
  ASSUME NEW n \in Nat, NEW T, T \subseteq 0..n, T # {}
  PROVE  \E m \in T : \A x \in T : x <= m
<1> DEFINE R == {n - x : x \in T}
<1>1. R \subseteq Nat /\ R # {}
  <2>1. \A x \in T : n - x \in Nat
    OBVIOUS
  <2> QED BY <2>1
<1>2. PICK r \in R : \A y \in R : r <= y
  <2> HIDE DEF R
  <2> QED BY <1>1, LeastNat
<1>3. PICK m \in T : r = n - m
  OBVIOUS
<1>4. ASSUME NEW x \in T PROVE x <= m
  <2>1. n - x \in R /\ x \in 0..n /\ m \in 0..n
    OBVIOUS
  <2>2. n - m <= n - x
    BY <1>2, <1>3, <2>1
  <2> QED BY <2>1, <2>2
<1> QED BY <1>4

LEMMA MaxOfFacts ==
  ASSUME NEW n \in Nat, NEW T, T \subseteq 0..n, T # {}
  PROVE  MaxOf(T) \in T /\ \A x \in T : x <= MaxOf(T)
<1>1. \E m \in T : \A x \in T : x <= m
  BY GreatestNat
<1> QED BY <1>1 DEF MaxOf

LEMMA MaxOfIs ==
  ASSUME NEW n \in Nat, NEW T, T \subseteq 0..n, NEW m \in T, \A x \in T : x <= m
  PROVE  MaxOf(T) = m
<1>1. MaxOf(T) \in T /\ \A x \in T : x <= MaxOf(T)
  BY MaxOfFacts
<1> DEFINE t == MaxOf(T)
<1>2. t \in T /\ m <= t /\ t <= m
  BY <1>1
<1> HIDE DEF t
<1>3. t = m
  BY <1>2
<1> QED BY <1>3 DEF t

-----------------------------------------------------------------------------
(* Blocks: where a node is.                                                     *)

LeadersAt(g, bs) ==
  /\ Len(bs) \in Nat \ {0} /\ DOMAIN bs = 1..Len(bs)
  /\ \A i \in 1..Len(bs) : bs[i] \in Live(g) /\ IsLeader(g, bs[i])
  /\ \A id \in Live(g) : IsLeader(g, id) => \E i \in 1..Len(bs) : bs[i] = id
  /\ \A i, j \in 1..Len(bs) : i < j => bs[i] < bs[j]
  /\ \A id \in Live(g) : bs[1] <= id

LEMMA LeadersFound ==
  ASSUME NEW g, IsGraph(g), Live(g) # {}
  PROVE  LeadersAt(g, BlockStructure(g)) /\ Live(g) \subseteq 1..Len(g) /\ Len(g) \in Nat
<1> DEFINE L == {id \in Live(g) : IsLeader(g, id)}
           bs == BlockStructure(g)
<1>1. Len(g) \in Nat /\ Live(g) \subseteq 1..Len(g) /\ 1..Len(g) \subseteq Nat
  BY GraphFacts DEF Live
<1>2. Enumerates(bs, L)
  <2>1. Enumerates(InOrder(L, Len(g)), L \cap (1..Len(g)))
    <3> HIDE DEF L
    <3> QED BY <1>1, InOrderEnumerates
  <2>2. L \cap (1..Len(g)) = L
    BY <1>1
  <2> QED BY <2>1, <2>2 DEF BlockStructure
<1> HIDE DEF bs
<1>3. PICK first \in Live(g) : \A id \in Live(g) : first <= id
  <2>1. Live(g) \subseteq Nat
    BY <1>1
  <2> QED BY <2>1, LeastNat
<1>4. first \in L
  BY <1>3 DEF IsLeader
<1>5. bs \in Seq(L) /\ Len(bs) \in Nat /\ DOMAIN bs = 1..Len(bs) /\ \A i \in 1..Len(bs) : bs[i] \in L
  <2>1. bs \in Seq(L)
    BY <1>2 DEF Enumerates
  <2> HIDE DEF L
  <2> QED BY <2>1, ElementOfSeq, LenProperties
<1>6. PICK i \in 1..Len(bs) : bs[i] = first
  BY <1>2, <1>4 DEF Enumerates
<1>7. 1 \in 1..Len(bs) /\ Len(bs) # 0
  BY <1>5, <1>6
<1>8. bs[1] = first
  <2>1. 1 < i => bs[1] < bs[i]
    BY <1>2, <1>6, <1>7 DEF Enumerates
  <2>2. bs[1] \in Live(g) /\ first <= bs[1]
    BY <1>3, <1>5, <1>7
  <2>3. ~(1 < i)
    BY <1>1, <1>3, <1>6, <2>1, <2>2
  <2> QED BY <1>5, <1>6, <2>3
<1>9. \A id \in Live(g) : bs[1] <= id
  BY <1>3, <1>8
<1>10. LeadersAt(g, bs)
  BY <1>2, <1>5, <1>7, <1>9 DEF LeadersAt, Enumerates
<1> QED BY <1>1, <1>10 DEF bs

InBlock(g, bs, id, m) ==
  /\ m \in 1..Len(bs) /\ id \in Live(g) /\ BlockOf(g, bs, id) = m - 1
  /\ \A j \in 1..Len(bs) : bs[j] <= id <=> j <= m

LEMMA BlockFound ==
  ASSUME NEW g, NEW bs, LeadersAt(g, bs), Live(g) \subseteq 1..Len(g), NEW id \in Live(g)
  PROVE  \E m \in 1..Len(bs) : InBlock(g, bs, id, m)
<1> DEFINE K == {k \in DOMAIN bs : bs[k] <= id}
           n == Len(bs)
<1>1. /\ n \in Nat /\ n # 0 /\ DOMAIN bs = 1..n /\ \A i \in 1..n : bs[i] \in Int
      /\ \A i, j \in 1..n : i < j => bs[i] < bs[j]
      /\ bs[1] <= id /\ id \in Int
  BY DEF LeadersAt
<1> HIDE DEF n
<1>2. 1 \in K /\ K \subseteq 0..n
  <2>1. 1 \in 1..n /\ 1..n \subseteq 0..n
    BY <1>1
  <2>2. K \subseteq DOMAIN bs /\ DOMAIN bs = 1..n
    BY <1>1
  <2>3. 1 \in K
    <3>1. 1 \in DOMAIN bs /\ bs[1] <= id
      BY <1>1, <2>1
    <3> QED BY <3>1
  <2> HIDE DEF K
  <2> QED BY <2>1, <2>2, <2>3
<1>3. PICK m \in K : \A x \in K : x <= m
  <2>1. n \in Nat /\ K \subseteq 0..n /\ K # {}
    BY <1>1, <1>2
  <2> HIDE DEF K
  <2> QED BY <2>1, GreatestNat
<1>4. m \in 1..n /\ bs[m] <= id
  BY <1>1
<1>5. ASSUME NEW j \in 1..n PROVE bs[j] <= id <=> j <= m
  <2>1. CASE j <= m
    <3>1. j = m \/ j < m
      BY <1>4, <2>1
    <3>2. bs[j] <= bs[m]
      BY <1>1, <1>4, <3>1
    <3> QED BY <1>1, <1>4, <2>1, <3>2
  <2>2. CASE ~(j <= m)
    <3>1. j \notin K
      BY <1>3, <2>2
    <3> QED BY <1>1, <2>2, <3>1
  <2> QED BY <2>1, <2>2
<1>6. K = 1..m
  BY <1>1, <1>4, <1>5
<1>7. Cardinality(K) = m
  <2>1. m \in Int /\ 1 \in Int /\ ~(1 > m) /\ m - 1 + 1 = m
    BY <1>4
  <2>2. Cardinality(1..m) = IF 1 > m THEN 0 ELSE m - 1 + 1
    BY <2>1, FS_Interval
  <2> QED BY <1>6, <2>1, <2>2
<1>8. BlockOf(g, bs, id) = m - 1
  BY <1>7 DEF BlockOf
<1> QED BY <1>4, <1>5, <1>8 DEF InBlock, n

LEMMA BlockIs ==
  ASSUME NEW g, NEW bs, LeadersAt(g, bs), Live(g) \subseteq 1..Len(g), NEW id \in Live(g),
         NEW m \in 1..Len(bs), \A j \in 1..Len(bs) : bs[j] <= id <=> j <= m
  PROVE  InBlock(g, bs, id, m)
<1>1. PICK k \in 1..Len(bs) : InBlock(g, bs, id, k)
  BY BlockFound
<1>2. \A j \in 1..Len(bs) : j <= m <=> j <= k
  BY <1>1 DEF InBlock
<1>3. k <= m /\ m <= k
  BY <1>2
<1>4. k = m
  BY <1>3
<1> QED BY <1>1, <1>4

LEMMA LeaderBlock ==
  ASSUME NEW g, NEW bs, LeadersAt(g, bs), Live(g) \subseteq 1..Len(g), NEW m \in 1..Len(bs)
  PROVE  InBlock(g, bs, bs[m], m)
<1>1. /\ bs[m] \in Live(g) /\ \A i \in 1..Len(bs) : bs[i] \in Int
      /\ \A i, j \in 1..Len(bs) : i < j => bs[i] < bs[j]
  BY DEF LeadersAt
<1>2. ASSUME NEW j \in 1..Len(bs) PROVE bs[j] <= bs[m] <=> j <= m
  <2>1. j < m \/ j = m \/ m < j
    OBVIOUS
  <2> QED BY <1>1, <2>1
<1> QED BY <1>1, <1>2, BlockIs

(* A leader right after a node of the block before it.                          *)
LEMMA NextLeader ==
  ASSUME NEW g, NEW bs, LeadersAt(g, bs), Live(g) \subseteq 1..Len(g),
         NEW id, NEW m, InBlock(g, bs, id, m), NEW next, next = id + 1,
         next \in Live(g), IsLeader(g, next)
  PROVE  /\ InBlock(g, bs, next, m + 1)
         /\ LastOf(g, bs, m - 1) = id
<1>1. /\ m \in 1..Len(bs) /\ id \in Live(g) /\ \A j \in 1..Len(bs) : bs[j] <= id <=> j <= m
      /\ id \in Nat /\ next \in Nat /\ Len(bs) \in Nat
      /\ \A j \in 1..Len(bs) : bs[j] \in Nat
      /\ \A i, j \in 1..Len(bs) : i < j => bs[i] < bs[j]
  BY DEF InBlock, LeadersAt
<1>2. PICK i \in 1..Len(bs) : bs[i] = next
  BY DEF LeadersAt
<1>3. i = m + 1
  <2>1. ~(bs[i] <= id)
    BY <1>1, <1>2
  <2>2. ~(i <= m)
    BY <1>1, <2>1
  <2> DEFINE j == m + 1
  <2>3. j \in 1..Len(bs) /\ ~(j <= m) /\ j <= i
    BY <1>1, <1>2, <2>2
  <2> HIDE DEF j
  <2>4. ~(bs[j] <= id)
    BY <1>1, <2>3
  <2>5. ~(j < i)
    <3>1. j < i => bs[j] < bs[i]
      BY <1>1, <1>2, <2>3
    <3>2. bs[j] \in Nat
      BY <1>1, <2>3
    <3> QED BY <1>1, <1>2, <2>4, <3>1, <3>2
  <2>6. i = j
    BY <1>2, <2>3, <2>5
  <2> QED BY <2>6 DEF j
<1>4. InBlock(g, bs, next, i)
  BY <1>2, LeaderBlock
<1>5. LastOf(g, bs, m - 1) = id
  <2> DEFINE T == NodesIn(g, bs, m - 1)
  <2>1. id \in T
    BY <1>1 DEF NodesIn, InBlock
  <2>2. T \subseteq 0..Len(g)
    BY DEF NodesIn
  <2>3. ASSUME NEW x \in T PROVE x <= id
    <3>1. x \in Live(g) /\ BlockOf(g, bs, x) = m - 1 /\ x \in Nat
      BY DEF NodesIn
    <3>2. PICK k \in 1..Len(bs) : InBlock(g, bs, x, k)
      BY <3>1, BlockFound
    <3>3. k - 1 = m - 1
      BY <3>1, <3>2 DEF InBlock
    <3>4. k = m
      BY <1>1, <3>2, <3>3
    <3>5. ~(bs[i] <= x)
      <4>1. ~(i <= m)
        BY <1>1, <1>3
      <4> QED BY <1>2, <3>2, <3>4, <4>1 DEF InBlock
    <3> QED BY <1>1, <1>2, <3>1, <3>5
  <2>4. Len(g) \in Nat
    BY <1>1
  <2> HIDE DEF T
  <2> QED BY <2>1, <2>2, <2>3, <2>4, MaxOfIs DEF LastOf, T
<1> QED BY <1>3, <1>4, <1>5

LEMMA LastFound ==
  ASSUME NEW g, NEW bs, LeadersAt(g, bs), Live(g) \subseteq 1..Len(g), Len(g) \in Nat,
         NEW m \in 1..Len(bs)
  PROVE  InBlock(g, bs, LastOf(g, bs, m - 1), m)
<1> DEFINE T == NodesIn(g, bs, m - 1)
           x == LastOf(g, bs, m - 1)
<1>1. bs[m] \in T
  <2>1. InBlock(g, bs, bs[m], m)
    BY LeaderBlock
  <2> QED BY <2>1 DEF InBlock, NodesIn
<1>2. T \subseteq 0..Len(g)
  BY DEF NodesIn
<1>3. x \in T
  <2> HIDE DEF T
  <2> QED BY <1>1, <1>2, MaxOfFacts DEF LastOf, T
<1>4. x \in Live(g) /\ BlockOf(g, bs, x) = m - 1
  BY <1>3 DEF NodesIn
<1> HIDE DEF x
<1>5. PICK k \in 1..Len(bs) : InBlock(g, bs, x, k)
  BY <1>4, BlockFound
<1>6. k - 1 = m - 1
  BY <1>4, <1>5 DEF InBlock
<1>7. k = m
  BY <1>6
<1> QED BY <1>5, <1>7 DEF x

-----------------------------------------------------------------------------
(* Where control goes from a block.                                             *)

(* A branch ends its block, and its sides are the next two blocks.              *)
SidesFollow(g, bs, x, m) ==
  /\ InBlock(g, bs, x + 1, m + 1) /\ InBlock(g, bs, x + 2, m + 2)
  /\ LastOf(g, bs, m - 1) = x /\ LastOf(g, bs, m) = x + 1
  /\ g[x + 1].kind = "IfTrue" /\ g[x + 2].kind = "IfFalse"

LEMMA BranchBlock ==
  ASSUME NEW g, Forward(g), NEW bs, LeadersAt(g, bs), Live(g) \subseteq 1..Len(g),
         NEW x, NEW m, InBlock(g, bs, x, m), g[x].kind = "If"
  PROVE  SidesFollow(g, bs, x, m)
<1>1. x \in Live(g) /\ x \in 1..Len(g) /\ Len(g) \in Nat /\ ForwardNode(g, x)
      /\ m \in 1..Len(bs) /\ Len(bs) \in Nat
  BY GraphFacts DEF InBlock, Forward, LeadersAt
<1> DEFINE y == x + 1
           z == x + 2
           k == m + 1
<1>2. /\ y \in 1..Len(g) /\ z \in 1..Len(g) /\ z = y + 1 /\ k - 1 = m /\ k + 1 = m + 2
      /\ g[y].kind = "IfTrue" /\ g[z].kind = "IfFalse"
  BY <1>1 DEF ForwardNode
<1>3. y \in Live(g) /\ z \in Live(g) /\ IsLeader(g, y) /\ IsLeader(g, z)
  <2> HIDE DEF y, z
  <2>1. ForwardNode(g, y) /\ ForwardNode(g, z)
    BY <1>2 DEF Forward
  <2> QED BY <1>2, <2>1 DEF ForwardNode, Live, Ids, IsLeader, Starters
<1>4. y = x + 1
  OBVIOUS
<1>5. z = y + 1
  BY <1>2
<1>6. k - 1 = m /\ k + 1 = m + 2
  BY <1>2
<1> HIDE DEF y, z
<1>7. InBlock(g, bs, y, k) /\ LastOf(g, bs, m - 1) = x
  BY <1>3, <1>4, NextLeader
<1> HIDE DEF k
<1>8. InBlock(g, bs, z, k + 1) /\ LastOf(g, bs, k - 1) = y
  <2>1. z \in Live(g) /\ IsLeader(g, z)
    BY <1>3
  <2>2. InBlock(g, bs, y, k)
    BY <1>7
  <2> QED BY ONLY LeadersAt(g, bs), Live(g) \subseteq 1..Len(g), <2>1, <2>2, <1>5, NextLeader
<1> QED BY <1>2, <1>6, <1>7, <1>8 DEF y, z, k, SidesFollow

(* A pair in ascending order.                                                   *)
LEMMA PairInOrder ==
  ASSUME NEW s, NEW a \in Nat, NEW b \in Nat, a < b, Enumerates(s, {a, b})
  PROVE  s = <<a, b>>
<1>1. /\ s \in Seq({a, b}) /\ Len(s) \in Nat /\ \A i \in 1..Len(s) : s[i] = a \/ s[i] = b
      /\ \A i, j \in 1..Len(s) : i < j => s[i] < s[j]
  <2>1. s \in Seq({a, b})
    BY DEF Enumerates
  <2> QED BY <2>1, ElementOfSeq, LenProperties DEF Enumerates
<1>2. PICK i \in 1..Len(s) : s[i] = a
  BY DEF Enumerates
<1>3. PICK j \in 1..Len(s) : s[j] = b
  BY DEF Enumerates
<1>4. i < j
  <2>1. j < i => s[j] < s[i]
    BY <1>1
  <2> QED BY <1>2, <1>3, <2>1
<1>5. ASSUME NEW k \in 1..Len(s) PROVE k = i \/ k = j
  <2>1. CASE s[k] = a
    <3>1. (k < i => s[k] < s[i]) /\ (i < k => s[i] < s[k])
      BY <1>1
    <3> QED BY <1>2, <2>1, <3>1
  <2>2. CASE s[k] = b
    <3>1. (k < j => s[k] < s[j]) /\ (j < k => s[j] < s[k])
      BY <1>1
    <3> QED BY <1>3, <2>2, <3>1
  <2> QED BY <1>1, <2>1, <2>2
<1>6. i = 1 /\ j = 2 /\ Len(s) = 2
  <2>1. 1 \in 1..Len(s) /\ Len(s) \in 1..Len(s) /\ 2 \in 1..Len(s)
    BY <1>1, <1>4
  <2>2. (1 = i \/ 1 = j) /\ (2 = i \/ 2 = j) /\ (Len(s) = i \/ Len(s) = j)
    BY <1>5, <2>1
  <2> DEFINE n == Len(s)
  <2>3. i \in Nat /\ j \in Nat /\ n \in Nat /\ j <= n /\ 1 <= i /\ (n = i \/ n = j)
    BY <1>1, <2>2
  <2> HIDE DEF n
  <2>4. i = 1 /\ j = 2
    BY <1>4, <2>2, <2>3
  <2>5. n = 2
    BY <1>4, <2>3, <2>4
  <2> QED BY <2>4, <2>5 DEF n
<1>7. s[1] = a /\ s[2] = b
  BY <1>2, <1>3, <1>6
<1> QED BY <1>1, <1>6, <1>7

LEMMA BranchSuccessors ==
  ASSUME NEW g, Forward(g), NEW bs, LeadersAt(g, bs), Live(g) \subseteq 1..Len(g),
         NEW m \in 1..Len(bs), g[LastOf(g, bs, m - 1)].kind = "If"
  PROVE  /\ Successors(g, bs, m - 1) = <<m, m + 1>> /\ m + 2 \in 1..Len(bs)
         /\ g[LastOf(g, bs, m)].kind = "IfTrue"
<1> DEFINE x == LastOf(g, bs, m - 1)
           y == x + 1
           z == x + 2
<1>1. Len(g) \in Nat
  BY GraphFacts DEF Forward
<1>2. InBlock(g, bs, x, m)
  BY <1>1, LastFound
<1>3. x \in 1..Len(g) /\ m \in Nat /\ Len(bs) \in Nat
  BY <1>2 DEF InBlock, LeadersAt
<1>4. /\ InBlock(g, bs, y, m + 1) /\ InBlock(g, bs, z, m + 2)
      /\ LastOf(g, bs, m) = y /\ g[y].kind = "IfTrue" /\ g[z].kind = "IfFalse"
  <2>1. g[x].kind = "If"
    OBVIOUS
  <2>2. LastOf(g, bs, m - 1) = x
    OBVIOUS
  <2>3. Forward(g) /\ LeadersAt(g, bs) /\ Live(g) \subseteq 1..Len(g)
    OBVIOUS
  <2> HIDE DEF x
  <2>4. SidesFollow(g, bs, x, m)
    BY ONLY <1>2, <2>1, <2>3, BranchBlock
  <2> QED BY <2>4 DEF SidesFollow
<1>5. y \in Live(g) /\ z \in Live(g) /\ y \in Nat /\ z \in Nat /\ y < z
      /\ BlockOf(g, bs, y) = m /\ BlockOf(g, bs, z) = m + 1 /\ m + 2 \in 1..Len(bs)
  <2>1. y \in Live(g) /\ z \in Live(g)
    BY <1>4 DEF InBlock
  <2>2. BlockOf(g, bs, y) = (m + 1) - 1 /\ BlockOf(g, bs, z) = (m + 2) - 1 /\ m + 2 \in 1..Len(bs)
    BY <1>4 DEF InBlock
  <2>3. (m + 1) - 1 = m /\ (m + 2) - 1 = m + 1 /\ y \in Nat /\ z \in Nat /\ y < z
    BY <1>3
  <2> QED BY <2>1, <2>2, <2>3
<1> DEFINE P == {id \in Live(g) : g[id].ctrl = x /\ g[id].kind \in {"IfTrue", "IfFalse"}}
<1>6. P \cap (1..Len(g)) = {y, z}
  <2>1. ASSUME NEW id \in P PROVE id = y \/ id = z
    <3>1. id \in 1..Len(g) /\ g[id].ctrl = x /\ g[id].kind \in {"IfTrue", "IfFalse"} /\ ForwardNode(g, id)
      BY DEF Forward
    <3>2. x = id - 1 \/ x = id - 2
      BY <3>1 DEF ForwardNode
    <3> HIDE DEF x
    <3> QED BY <1>1, <1>3, <3>1, <3>2
  <2>2. y \in P /\ z \in P
    <3>1. y - 1 = x /\ z - 2 = x
      BY <1>3
    <3>2. ForwardNode(g, y) /\ ForwardNode(g, z)
      BY <1>5 DEF Forward
    <3> HIDE DEF y, z, x
    <3> QED BY <1>4, <1>5, <3>1, <3>2 DEF ForwardNode, P
  <2>3. P \subseteq 1..Len(g)
    OBVIOUS
  <2> HIDE DEF P, y, z
  <2> QED BY <2>1, <2>2, <2>3
<1> DEFINE ps == Projections(g, x)
<1>7. ps = <<y, z>>
  <2>1. Enumerates(InOrder(P, Len(g)), P \cap (1..Len(g)))
    <3> HIDE DEF P
    <3> QED BY <1>1, InOrderEnumerates
  <2>2. ps = InOrder(P, Len(g))
    BY DEF Projections
  <2> HIDE DEF P, y, z, ps
  <2> QED BY <1>5, <1>6, <2>1, <2>2, PairInOrder
<1>8. Successors(g, bs, m - 1) = [k \in DOMAIN ps |-> BlockOf(g, bs, ps[k])]
  <2> HIDE DEF ps
  <2> QED BY DEF Successors, ps
<1>9. [k \in DOMAIN ps |-> BlockOf(g, bs, ps[k])] = <<m, m + 1>>
  <2> DEFINE a == m
             b == m + 1
  <2>1. ps = <<y, z>> /\ BlockOf(g, bs, y) = a /\ BlockOf(g, bs, z) = b
    BY <1>5, <1>7
  <2> HIDE DEF ps, y, z, a, b
  <2>2. DOMAIN ps = 1..2 /\ ps[1] = y /\ ps[2] = z
    BY <2>1
  <2>3. [k \in DOMAIN ps |-> BlockOf(g, bs, ps[k])] = <<a, b>>
    BY <2>1, <2>2
  <2> QED BY <2>3 DEF a, b
<1> QED BY <1>4, <1>5, <1>8, <1>9

-----------------------------------------------------------------------------
(* The depth-first walk, step by step.                                          *)

Pos(b, next) == <<b, next>>
Walk(stack, visited, post) == [stack |-> stack, visited |-> visited, post |-> post]

LEMMA WalkSteps ==
  ASSUME NEW g, NEW bs, NEW n \in Nat, n = 4 * Len(bs)
  PROVE  \E f : /\ f[0] = Walk(<<Pos(0, 1)>>, {0}, <<>>)
                /\ \A k \in 1..n : f[k] = DfsStep(g, bs, f[k - 1])
                /\ f[n] = Visited(g, bs)
<1> DEFINE base == [stack |-> <<<<0, 1>>>>, visited |-> {0}, post |-> <<>>]
           w == CHOOSE f : IsWalk(f, g, bs, n)
           f == [k \in 0..n |-> w[1..k]]
<1>1. IsWalk(w, g, bs, n)
  BY WalkExists
<1>2. Visited(g, bs) = w[1..n]
  <2>1. DOMAIN [k \in 1..n |-> k] = 1..n
    OBVIOUS
  <2> QED BY <2>1 DEF Visited, FoldLeft, MapThenFoldSet, IsWalk
<1> HIDE DEF w
<1>3. w[1..0] = base
  <2>1. 1..0 = {} /\ {} \in SUBSET (1..n)
    OBVIOUS
  <2> QED BY <1>1, <2>1 DEF IsWalk
<1>4. ASSUME NEW k \in 1..n PROVE w[1..k] = DfsStep(g, bs, w[1..k - 1])
  <2>1. k - 1 \in Nat /\ (k - 1) + 1 = k /\ 1..k \in SUBSET (1..n) /\ 1..k # {} /\ k \in 1..k
        /\ (1..k) \ {k} = 1..k - 1
    BY PrefixOfPrefix
  <2>2. Max(1..k) = k
    <3> DEFINE m == k - 1
    <3>1. m \in Nat /\ m + 1 = k
      BY <2>1
    <3> HIDE DEF m
    <3>2. 1..k \in SUBSET (1..m + 1) /\ m + 1 \in 1..k
      BY <2>1, <3>1
    <3>3. Max(1..k) = m + 1
      BY <3>1, <3>2, MaxOfPrefix
    <3> QED BY <3>1, <3>3
  <2> DEFINE a == 1..k
             b == 1..k - 1
  <2>3. a \in SUBSET (1..n) /\ a # {} /\ a \ {k} = b /\ Max(a) = k
    BY <2>1, <2>2
  <2> HIDE DEF a, b
  <2>4. w[a] = DfsStep(g, bs, w[b])
    BY <1>1, <2>3 DEF IsWalk
  <2> QED BY <2>4 DEF a, b
<1>5. f[0] = w[1..0] /\ f[n] = w[1..n]
  OBVIOUS
<1>6. ASSUME NEW k \in 1..n PROVE f[k] = DfsStep(g, bs, f[k - 1])
  <2>1. k \in 0..n /\ k - 1 \in 0..n
    OBVIOUS
  <2>2. f[k] = w[1..k] /\ f[k - 1] = w[1..k - 1]
    BY <2>1
  <2> HIDE DEF f
  <2> QED BY <1>4, <2>2
<1> HIDE DEF f
<1>7. base = Walk(<<Pos(0, 1)>>, {0}, <<>>)
  BY DEF Walk, Pos
<1> QED BY <1>2, <1>3, <1>5, <1>6, <1>7

(* The last of a stack, and the rest.                                           *)
LEMMA TopOfAppend ==
  ASSUME NEW s, IsStack(s), NEW x
  PROVE  IsStack(Append(s, x)) /\ Append(s, x) # <<>> /\ Last(Append(s, x)) = x /\ Front(Append(s, x)) = s
<1> DEFINE t == Append(s, x)
           u == Front(t)
<1>1. /\ IsStack(t) /\ Len(t) = Len(s) + 1 /\ \A k \in 1..Len(s) : t[k] = s[k]
      /\ t[Len(s) + 1] = x /\ Len(s) \in Nat
  BY PushStack
<1> HIDE DEF t
<1>2. t # <<>>
  BY <1>1
<1>3. /\ IsStack(u) /\ Len(u) = Len(t) - 1 /\ \A k \in 1..Len(t) - 1 : u[k] = t[k]
      /\ Last(t) = t[Len(t)]
  BY <1>1, <1>2, PopStack
<1> HIDE DEF u
<1>4. Len(t) - 1 = Len(s) /\ Len(t) = Len(s) + 1
  BY <1>1
<1>5. u = s
  <2>1. PICK S : s \in Seq(S)
    BY DEF IsStack
  <2>2. PICK U : u \in Seq(U)
    BY <1>3 DEF IsStack
  <2>3. Len(u) = Len(s) /\ \A k \in 1..Len(s) : u[k] = s[k]
    BY <1>1, <1>3, <1>4
  <2> QED BY <2>1, <2>2, <2>3, SeqEqual
<1> QED BY <1>1, <1>2, <1>3, <1>4, <1>5 DEF t, u

LEMMA PushOfAWalk ==
  ASSUME NEW st, NEW v, NEW q, NEW m, NEW w, NEW b, b = [stack |-> st, visited |-> v, post |-> q],
         NEW c, c = [b EXCEPT !.stack = m, !.visited = w]
  PROVE  c = [stack |-> m, visited |-> w, post |-> q]
OBVIOUS

LEMMA StepOnTop ==
  ASSUME NEW g, NEW bs, NEW rest, IsStack(rest), NEW b, NEW i, NEW v, NEW q,
         NEW s, s = Walk(Append(rest, Pos(b, i)), v, q)
  PROVE  /\ DfsStep(g, bs, s) = Descend(s, Pos(b, i), Successors(g, bs, b))
         /\ Front(s.stack) = rest /\ Pos(b, i)[1] = b /\ Pos(b, i)[2] = i
         /\ s = [stack |-> s.stack, visited |-> v, post |-> q]
         /\ s.visited = v /\ s.post = q
<1> DEFINE st == Append(rest, Pos(b, i))
           top == Pos(b, i)
<1>1. st # <<>> /\ Last(st) = top /\ Front(st) = rest
  BY TopOfAppend
<1>2. top[1] = b /\ top[2] = i
  BY DEF Pos
<1> HIDE DEF st
<1>3. s.stack = st /\ s.visited = v /\ s.post = q
      /\ s = [stack |-> st, visited |-> v, post |-> q]
  BY DEF Walk, st
<1> HIDE DEF top
<1>4. DfsStep(g, bs, s) = Descend(s, top, Successors(g, bs, b))
  BY <1>1, <1>2, <1>3 DEF DfsStep
<1> QED BY <1>1, <1>2, <1>3, <1>4 DEF top

Pops(g, bs, s, rest, b, i, v, q, p) ==
  /\ IsStack(rest) /\ s = Walk(Append(rest, Pos(b, i)), v, q)
  /\ i > Len(Successors(g, bs, b)) /\ p = Append(q, b)

LEMMA PopStep ==
  ASSUME NEW g, NEW bs, NEW s, NEW rest, NEW b, NEW i, NEW v, NEW q, NEW p,
         Pops(g, bs, s, rest, b, i, v, q, p)
  PROVE  DfsStep(g, bs, s) = Walk(rest, v, p)
<1> DEFINE c == DfsStep(g, bs, s)
           st == s.stack
<1>1. /\ c = Descend(s, Pos(b, i), Successors(g, bs, b)) /\ Front(st) = rest
      /\ Pos(b, i)[1] = b /\ Pos(b, i)[2] = i
      /\ s = [stack |-> st, visited |-> v, post |-> q] /\ s.post = q
  BY StepOnTop DEF Pops
<1> HIDE DEF c
<1>2. c = [s EXCEPT !.post = p, !.stack = rest]
  BY <1>1 DEF Descend, Pops
<1>0. s = [stack |-> st, visited |-> v, post |-> q]
  BY <1>1
<1> HIDE DEF st
<1>3. c = [stack |-> rest, visited |-> v, post |-> p]
  BY ONLY <1>0, <1>2, PopOfAWalk
<1> QED BY <1>3 DEF Walk, c

Skips(g, bs, s, rest, b, i, v, q, on) ==
  /\ IsStack(rest) /\ s = Walk(Append(rest, Pos(b, i)), v, q)
  /\ ~(i > Len(Successors(g, bs, b))) /\ Successors(g, bs, b)[i] \in v
  /\ on = Append(rest, Pos(b, i + 1))

LEMMA SkipStep ==
  ASSUME NEW g, NEW bs, NEW s, NEW rest, NEW b, NEW i, NEW v, NEW q, NEW on,
         Skips(g, bs, s, rest, b, i, v, q, on)
  PROVE  DfsStep(g, bs, s) = Walk(on, v, q)
<1> DEFINE c == DfsStep(g, bs, s)
           st == s.stack
           succs == Successors(g, bs, b)
           top == Pos(b, i)
<1>1. /\ c = Descend(s, top, succs) /\ Front(st) = rest
      /\ top[1] = b /\ top[2] = i
      /\ s = [stack |-> st, visited |-> v, post |-> q] /\ s.visited = v
  BY StepOnTop DEF Skips
<1>2. ~(i > Len(succs)) /\ succs[i] \in v
  BY DEF Skips
<1> HIDE DEF c, succs, top
<1>3. Append(Front(st), <<top[1], top[2] + 1>>) = on
  BY <1>1 DEF Pos, Skips
<1>4. c = [s EXCEPT !.stack = on]
  BY <1>1, <1>2, <1>3 DEF Descend
<1>0. s = [stack |-> st, visited |-> v, post |-> q]
  BY <1>1
<1> HIDE DEF st
<1>5. c = [stack |-> on, visited |-> v, post |-> q]
  BY ONLY <1>0, <1>4
<1> QED BY <1>5 DEF Walk, c

Pushes(g, bs, s, rest, b, i, v, q, next, more, seen) ==
  /\ IsStack(rest) /\ s = Walk(Append(rest, Pos(b, i)), v, q)
  /\ ~(i > Len(Successors(g, bs, b))) /\ Successors(g, bs, b)[i] = next /\ next \notin v
  /\ more = Append(Append(rest, Pos(b, i + 1)), Pos(next, 1)) /\ seen = v \cup {next}

LEMMA PushStep ==
  ASSUME NEW g, NEW bs, NEW s, NEW rest, NEW b, NEW i, NEW v, NEW q, NEW next, NEW more, NEW seen,
         Pushes(g, bs, s, rest, b, i, v, q, next, more, seen)
  PROVE  DfsStep(g, bs, s) = Walk(more, seen, q)
<1> DEFINE c == DfsStep(g, bs, s)
           st == s.stack
           succs == Successors(g, bs, b)
           top == Pos(b, i)
           on == Append(rest, Pos(b, i + 1))
<1>1. /\ c = Descend(s, top, succs) /\ Front(st) = rest
      /\ top[1] = b /\ top[2] = i
      /\ s = [stack |-> st, visited |-> v, post |-> q] /\ s.visited = v
  BY StepOnTop DEF Pushes
<1>2. ~(i > Len(succs)) /\ succs[i] = next /\ next \notin v
  BY DEF Pushes
<1> HIDE DEF c, succs, top
<1>3. Append(Front(st), <<top[1], top[2] + 1>>) = on /\ Append(on, <<next, 1>>) = more
      /\ seen = v \cup {next}
  BY <1>1 DEF Pos, Pushes
<1> HIDE DEF on
<1>4. c = [s EXCEPT !.stack = more, !.visited = seen]
  BY <1>1, <1>2, <1>3 DEF Descend
<1>0. s = [stack |-> st, visited |-> v, post |-> q]
  BY <1>1
<1> HIDE DEF st
<1>5. c = [stack |-> more, visited |-> seen, post |-> q]
  BY ONLY <1>0, <1>4, PushOfAWalk
<1> QED BY <1>5 DEF Walk, c

-----------------------------------------------------------------------------
(* A line of blocks: each goes on to the next one, or branches to the next two.  *)

Leads(g, bs, B, b) ==
  \/ Len(Successors(g, bs, b)) = 1 /\ Successors(g, bs, b)[1] = b + 1
  \/ /\ Len(Successors(g, bs, b)) = 2 /\ Successors(g, bs, b)[1] = b + 1
     /\ Successors(g, bs, b)[2] = b + 2 /\ b + 2 <= B

Line(g, bs, B) ==
  /\ Len(bs) \in Nat /\ B \in Nat /\ B < Len(bs)
  /\ Len(Successors(g, bs, B)) = 0
  /\ \A b \in 0..B - 1 : Leads(g, bs, B, b)
  /\ g[LastOf(g, bs, B)].kind \in Enders \/ B + 1 = Len(bs)

Trail(c) == [i \in 1..c |-> Pos(i - 1, 2)]
Down(B, j) == [i \in 1..j |-> B + 1 - i]

IsRow(s, c) == s = [i \in 1..c |-> s[i]]

LEMMA AppendFunction ==
  ASSUME NEW c \in Nat, NEW s, IsRow(s, c), NEW x,
         NEW t, IsRow(t, c + 1), \A i \in 1..c : t[i] = s[i], t[c + 1] = x
  PROVE  t = Append(s, x) /\ IsStack(s)
<1> DEFINE S == {s[i] : i \in 1..c} \cup {x}
           d == c + 1
           u == Append(s, x)
<1>1. d \in Nat /\ d = c + 1 /\ 1..d = (1..c) \cup {d}
  OBVIOUS
<1>2. s \in Seq(S) /\ Len(s) = c /\ x \in S
  <2>1. \A i \in 1..c : s[i] \in S
    OBVIOUS
  <2>2. x \in S
    OBVIOUS
  <2> HIDE DEF S
  <2>3. s = [i \in 1..c |-> s[i]]
    BY DEF IsRow
  <2> QED BY <2>1, <2>2, <2>3
<1>3. t \in Seq(S) /\ Len(t) = d
  <2>1. \A i \in 1..d : t[i] \in S
    <3>1. \A i \in 1..c : s[i] \in S
      OBVIOUS
    <3> HIDE DEF S
    <3> QED BY <1>1, <1>2, <3>1
  <2> HIDE DEF S
  <2> QED BY <1>1, <2>1 DEF IsRow
<1> HIDE DEF S
<1>4. /\ u \in Seq(S) /\ Len(u) = Len(s) + 1 /\ \A k \in 1..Len(s) : u[k] = s[k]
      /\ u[Len(s) + 1] = x
  BY <1>2, AppendProperties
<1> HIDE DEF u, d
<1>5. Len(t) = Len(u) /\ \A i \in 1..d : t[i] = u[i]
  BY <1>1, <1>2, <1>3, <1>4
<1>6. t = u
  BY <1>3, <1>4, <1>5, SeqEqual
<1> QED BY <1>2, <1>6 DEF IsStack, u

LEMMA TrailGrows ==
  ASSUME NEW c \in Nat, NEW d, d = c + 1
  PROVE  Trail(d) = Append(Trail(c), Pos(c, 2)) /\ IsStack(Trail(c)) /\ Trail(0) = <<>>
<1> DEFINE s == Trail(c)
           t == Trail(d)
           x == Pos(c, 2)
<1>1. IsRow(s, c) /\ IsRow(t, c + 1)
  BY DEF Trail, IsRow
<1>2. \A i \in 1..c : t[i] = s[i]
  BY DEF Trail
<1>3. t[c + 1] = x
  <2>1. c + 1 \in 1..d /\ (c + 1) - 1 = c
    OBVIOUS
  <2> QED BY <2>1 DEF Trail
<1>4. Trail(0) = <<>>
  <2>1. 1..0 = {}
    OBVIOUS
  <2> QED BY <2>1 DEF Trail
<1> HIDE DEF s, t, x
<1>5. t = Append(s, x) /\ IsStack(s)
  BY <1>1, <1>2, <1>3, AppendFunction
<1> QED BY <1>4, <1>5 DEF s, t, x

OneMore(B, j, d, b) == B \in Nat /\ j \in Nat /\ d = j + 1 /\ b = B - j

LEMMA DownGrows ==
  ASSUME NEW B, NEW j, NEW d, NEW b, OneMore(B, j, d, b)
  PROVE  Down(B, d) = Append(Down(B, j), b)
<1> DEFINE s == Down(B, j)
           t == Down(B, d)
<1>0. B \in Nat /\ j \in Nat /\ d = j + 1 /\ b = B - j
  BY DEF OneMore
<1>1. IsRow(s, j) /\ IsRow(t, j + 1)
  BY <1>0 DEF Down, IsRow
<1>2. \A i \in 1..j : t[i] = s[i]
  BY <1>0 DEF Down
<1>3. t[j + 1] = b
  <2>1. j + 1 \in 1..d /\ B + 1 - (j + 1) = b
    BY <1>0
  <2> QED BY <2>1 DEF Down
<1> HIDE DEF s, t
<1>4. t = Append(s, b)
  BY <1>0, <1>1, <1>2, <1>3, AppendFunction
<1> QED BY <1>4 DEF s, t

(* On the way down, each block is followed by the next.                         *)
LEMMA WalkDown ==
  ASSUME NEW g, NEW bs, NEW B, Line(g, bs, B), NEW n \in Nat, B <= n,
         NEW f, f[0] = Walk(<<Pos(0, 1)>>, {0}, <<>>),
         \A k \in 1..n : f[k] = DfsStep(g, bs, f[k - 1])
  PROVE  f[B] = Walk(Append(Trail(B), Pos(B, 1)), 0..B, <<>>)
<1> DEFINE Reached(k) == Walk(Append(Trail(k), Pos(k, 1)), 0..k, <<>>)
           T == {k \in 0..B : f[k] = Reached(k)}
<1>1. B \in Nat /\ \A b \in 0..B - 1 : Leads(g, bs, B, b)
  BY DEF Line
<1>2. 0 \in T
  <2>1. Append(<<>>, Pos(0, 1)) = <<Pos(0, 1)>> /\ 0..0 = {0} /\ Trail(0) = <<>> /\ 0 \in 0..B
    BY <1>1, TrailGrows
  <2> QED BY <2>1
<1>3. ASSUME NEW k \in 0..B - 1, k \in T PROVE k + 1 \in T
  <2> DEFINE d == k + 1
  <2>1. k \in Nat /\ d \in 1..n /\ d - 1 = k /\ d \in 0..B /\ d \notin 0..k /\ (0..k) \cup {d} = 0..d
    BY <1>1
  <2>2. f[k] = Reached(k) /\ d = k + 1 /\ Leads(g, bs, B, k)
    BY <1>1, <1>3
  <2> HIDE DEF d
  <2>3. f[d] = DfsStep(g, bs, Reached(k))
    BY <2>1, <2>2
  <2>4. IsStack(Trail(k)) /\ Trail(d) = Append(Trail(k), Pos(k, 2))
    BY <2>1, <2>2, TrailGrows
  <2>5. ~(1 > Len(Successors(g, bs, k))) /\ Successors(g, bs, k)[1] = d
    BY <2>2 DEF Leads
  <2> DEFINE w == Reached(k)
             t == Trail(k)
             v == 0..k
             more == Append(Trail(d), Pos(d, 1))
             seen == 0..d
  <2>6. more = Append(Append(t, Pos(k, 1 + 1)), Pos(d, 1))
    <3>1. 1 + 1 = 2
      OBVIOUS
    <3> QED BY <2>4, <3>1
  <2>7. w = Walk(Append(t, Pos(k, 1)), v, <<>>) /\ IsStack(t) /\ d \notin v /\ seen = v \cup {d}
    BY <2>1, <2>4
  <2> HIDE DEF w, t, v, more, seen
  <2>8. Pushes(g, bs, w, t, k, 1, v, <<>>, d, more, seen)
    BY <2>5, <2>6, <2>7 DEF Pushes
  <2>9. DfsStep(g, bs, w) = Walk(more, seen, <<>>)
    BY <2>8, PushStep
  <2>10. f[d] = Reached(d)
    BY <2>3, <2>9 DEF w, more, seen
  <2> QED BY <2>1, <2>2, <2>10
<1>4. 0..B \subseteq T
  <2> HIDE DEF T
  <2> QED BY <1>1, <1>2, <1>3, PrefixInduction
<1>5. B \in 0..B
  BY <1>1
<1> QED BY <1>4, <1>5

(* On the way up, a block has nothing more to visit.                            *)
Ready(g, bs, B, b, s, q) ==
  \E t \in Nat : /\ t > Len(Successors(g, bs, b))
                 /\ s = Walk(Append(Trail(b), Pos(b, t)), 0..B, q)

LEMMA ReadyPops ==
  ASSUME NEW g, NEW bs, NEW B, NEW b \in Nat, NEW s, NEW q, Ready(g, bs, B, b, s, q)
  PROVE  DfsStep(g, bs, s) = Walk(Trail(b), 0..B, Append(q, b))
<1>1. PICK t \in Nat : t > Len(Successors(g, bs, b))
                       /\ s = Walk(Append(Trail(b), Pos(b, t)), 0..B, q)
  BY DEF Ready
<1> DEFINE rest == Trail(b)
           v == 0..B
           p == Append(q, b)
           next == b + 1
<1>2. IsStack(rest)
  <2>1. next = b + 1
    OBVIOUS
  <2> HIDE DEF next
  <2> QED BY <2>1, TrailGrows
<1> HIDE DEF rest, v
<1>3. s = Walk(Append(rest, Pos(b, t)), v, q)
  BY <1>1 DEF rest, v
<1>4. Pops(g, bs, s, rest, b, t, v, q, p)
  BY <1>1, <1>2, <1>3 DEF Pops
<1> HIDE DEF p
<1>5. DfsStep(g, bs, s) = Walk(rest, v, p)
  BY <1>4, PopStep
<1> QED BY <1>5 DEF rest, v, p

LEMMA ReadyAgain ==
  ASSUME NEW g, NEW bs, NEW B, Line(g, bs, B), NEW b \in 0..B - 1, NEW d, d = b + 1,
         NEW q, NEW s, s = Walk(Trail(d), 0..B, q)
  PROVE  Ready(g, bs, B, b, s, q) \/ Ready(g, bs, B, b, DfsStep(g, bs, s), q)
<1> DEFINE succs == Successors(g, bs, b)
           rest == Trail(b)
           v == 0..B
           on == Append(rest, Pos(b, 2 + 1))
           c == DfsStep(g, bs, s)
<1>1. b \in Nat /\ B \in Nat /\ Leads(g, bs, B, b)
  BY DEF Line
<1>2. IsStack(rest) /\ Trail(d) = Append(rest, Pos(b, 2))
  BY <1>1, TrailGrows
<1>3. s = Walk(Append(rest, Pos(b, 2)), v, q)
  BY <1>2
<1>4. CASE Len(succs) = 1
  <2>1. 2 > Len(succs) /\ 2 \in Nat
    BY <1>4
  <2> HIDE DEF succs, c
  <2> QED BY <1>3, <2>1 DEF Ready, succs
<1>5. CASE Len(succs) = 2 /\ succs[2] = b + 2 /\ b + 2 <= B
  <2>1. ~(2 > Len(succs)) /\ succs[2] \in v
    BY <1>1, <1>5
  <2>2. Skips(g, bs, s, rest, b, 2, v, q, on)
    <3> HIDE DEF rest, v
    <3> QED BY <1>2, <1>3, <2>1 DEF Skips
  <2>3. c = Walk(on, v, q)
    <3> HIDE DEF on, v, rest
    <3> QED BY <2>2, SkipStep
  <2>4. 3 \in Nat /\ 3 > Len(succs) /\ on = Append(rest, Pos(b, 3))
    BY <1>5
  <2> HIDE DEF c, succs, on
  <2>5. Ready(g, bs, B, b, c, q)
    BY <2>3, <2>4 DEF Ready, succs
  <2> QED BY <2>5 DEF c
<1> QED BY <1>1, <1>4, <1>5 DEF Leads

LEMMA WalkUp ==
  ASSUME NEW g, NEW bs, NEW B, Line(g, bs, B), NEW n \in Nat, n = 4 * Len(bs),
         NEW f, f[0] = Walk(<<Pos(0, 1)>>, {0}, <<>>),
         \A k \in 1..n : f[k] = DfsStep(g, bs, f[k - 1])
  PROVE  f[n] = Walk(<<>>, 0..B, Down(B, B + 1))
<1> DEFINE R(j) == \E k \in 0..B + 2 * j : Ready(g, bs, B, B - j, f[k], Down(B, j))
           T == {j \in 0..B : R(j)}
           end == Walk(<<>>, 0..B, Down(B, B + 1))
<1>1. B \in Nat /\ B + 2 * B + 1 < n /\ Len(Successors(g, bs, B)) = 0
  BY DEF Line
<1>2. 0 \in T
  <2>1. f[B] = Walk(Append(Trail(B), Pos(B, 1)), 0..B, <<>>)
    <3>1. B <= n
      BY <1>1
    <3> QED BY <3>1, WalkDown
  <2>2. 1 > Len(Successors(g, bs, B)) /\ 1 \in Nat
    BY <1>1
  <2>3. Ready(g, bs, B, B, f[B], <<>>)
    BY <2>1, <2>2 DEF Ready
  <2>4. B - 0 = B /\ B \in 0..B + 2 * 0 /\ 0 \in 0..B /\ Down(B, 0) = <<>>
    <3>1. 1..0 = {}
      OBVIOUS
    <3> QED BY <1>1, <3>1 DEF Down
  <2> QED BY <2>3, <2>4
<1>3. ASSUME NEW j \in 0..B, NEW k \in 0..B + 2 * j, Ready(g, bs, B, B - j, f[k], Down(B, j))
      PROVE  f[k + 1] = Walk(Trail(B - j), 0..B, Down(B, j + 1)) /\ k + 1 \in 1..n
  <2> DEFINE b == B - j
             d == j + 1
             q == Down(B, j)
             s == f[k]
             up == k + 1
  <2>1. b \in Nat /\ up \in 1..n /\ up - 1 = k /\ j \in Nat
    BY <1>1
  <2>2. Down(B, d) = Append(q, b)
    <3>1. OneMore(B, j, d, b)
      BY <1>1, <2>1 DEF OneMore
    <3> HIDE DEF d, b
    <3> QED BY <3>1, DownGrows
  <2>3. Ready(g, bs, B, b, s, q)
    BY <1>3
  <2>4. f[up] = DfsStep(g, bs, s)
    <3> HIDE DEF up
    <3> QED BY <2>1
  <2> HIDE DEF b, d, q, s, up
  <2>5. DfsStep(g, bs, s) = Walk(Trail(b), 0..B, Append(q, b))
    BY <2>1, <2>3, ReadyPops
  <2>6. f[up] = Walk(Trail(b), 0..B, Down(B, d))
    BY <2>2, <2>4, <2>5
  <2> QED BY <2>1, <2>6 DEF b, d, up
<1>4. ASSUME NEW j \in 0..B - 1, j \in T PROVE j + 1 \in T
  <2>1. PICK k \in 0..B + 2 * j : Ready(g, bs, B, B - j, f[k], Down(B, j))
    BY <1>4
  <2> DEFINE b == B - j
             c == b - 1
             d == j + 1
             up == k + 1
             more == up + 1
             q == Down(B, d)
  <2>2. /\ c \in 0..B - 1 /\ b = c + 1 /\ d \in 0..B /\ B - d = c
        /\ up \in 0..B + 2 * d /\ more \in 0..B + 2 * d /\ more \in 1..n /\ more - 1 = up
    BY <1>1
  <2>3. f[up] = Walk(Trail(b), 0..B, q)
    <3>1. j \in 0..B
      BY <1>1
    <3> QED BY <1>3, <2>1, <3>1
  <2> HIDE DEF b, c, d, up, more, q
  <2> DEFINE s == f[up]
  <2>4. s = Walk(Trail(b), 0..B, q)
    BY <2>3
  <2> HIDE DEF s
  <2>5. Ready(g, bs, B, c, s, q) \/ Ready(g, bs, B, c, DfsStep(g, bs, s), q)
    BY <2>2, <2>4, ReadyAgain
  <2>6. f[more] = DfsStep(g, bs, s)
    BY <2>2 DEF s
  <2>7. \E i \in 0..B + 2 * d : Ready(g, bs, B, c, f[i], q)
    BY <2>2, <2>5, <2>6 DEF s
  <2>8. R(d)
    BY <2>2, <2>7 DEF q
  <2>9. d \in T
    BY <2>2, <2>8
  <2> QED BY <2>9 DEF d
<1>5. B \in T
  <2>1. 0..B \subseteq T
    <3> HIDE DEF T
    <3> QED BY <1>1, <1>2, <1>4, PrefixInduction
  <2> QED BY <1>1, <2>1
<1>6. PICK k \in 0..B + 2 * B : Ready(g, bs, B, B - B, f[k], Down(B, B))
  BY <1>5
<1> DEFINE e == k + 1
           m == n - e
<1>7. f[e] = end /\ e \in 1..n
  <2>1. B \in 0..B /\ B - B = 0 /\ Trail(0) = <<>>
    <3>1. 1..0 = {}
      OBVIOUS
    <3> QED BY <1>1, <3>1 DEF Trail
  <2>2. f[k + 1] = Walk(Trail(B - B), 0..B, Down(B, B + 1)) /\ k + 1 \in 1..n
    BY <1>3, <1>6, <2>1
  <2> QED BY <2>1, <2>2
<1>8. DfsStep(g, bs, end) = end
  BY DEF DfsStep, Walk
<1> HIDE DEF e, end
<1> DEFINE U == {i \in 0..m : f[e + i] = end}
<1>9. m \in Nat /\ e + m = n
  BY <1>7
<1>10. 0 \in U
  <2>1. e + 0 = e /\ 0 \in 0..m
    BY <1>7, <1>9
  <2> QED BY <1>7, <2>1
<1> HIDE DEF m
<1>11. ASSUME NEW i \in 0..m - 1, i \in U PROVE i + 1 \in U
  <2> DEFINE x == e + (i + 1)
             y == e + i
  <2>1. x \in 1..n /\ x - 1 = y /\ i + 1 \in 0..m
    BY <1>7, <1>9
  <2>2. f[y] = end
    BY <1>11
  <2> HIDE DEF x, y
  <2>3. f[x] = end
    BY <1>8, <2>1, <2>2
  <2> QED BY <2>1, <2>3 DEF x
<1>12. m \in U
  <2>1. 0..m \subseteq U
    <3> HIDE DEF U
    <3> QED BY <1>9, <1>10, <1>11, PrefixInduction
  <2> QED BY <1>9, <2>1
<1> QED BY <1>9, <1>12 DEF end

LEMMA OrderOfLine ==
  ASSUME NEW g, NEW bs, NEW B, Line(g, bs, B)
  PROVE  ReversePostOrder(g, bs) = [i \in 1..B + 1 |-> i - 1]
<1> DEFINE n == 4 * Len(bs)
           s == Down(B, B + 1)
<1>1. B \in Nat /\ n \in Nat /\ Len(bs) # 0
  BY DEF Line
<1> HIDE DEF n
<1>2. PICK f : /\ f[0] = Walk(<<Pos(0, 1)>>, {0}, <<>>)
               /\ \A k \in 1..n : f[k] = DfsStep(g, bs, f[k - 1])
               /\ f[n] = Visited(g, bs)
  BY <1>1, WalkSteps DEF n
<1>3. f[n] = Walk(<<>>, 0..B, s)
  BY <1>1, <1>2, WalkUp DEF n
<1>4. Visited(g, bs).post = s
  BY <1>2, <1>3 DEF Walk
<1>5. bs # <<>>
  BY <1>1
<1>6. ReversePostOrder(g, bs) = Reverse(s)
  BY <1>4, <1>5 DEF ReversePostOrder
<1>7. Len(s) = B + 1 /\ \A i \in 1..B + 1 : s[i] = B + 1 - i
  BY <1>1 DEF Down
<1>8. Reverse(s) = [i \in 1..B + 1 |-> i - 1]
  <2> HIDE DEF s
  <2>1. Reverse(s) = [i \in 1..Len(s) |-> s[(Len(s) - i) + 1]]
    BY DEF Reverse
  <2> DEFINE c == B + 1
  <2>3. \A i \in 1..c : s[(c - i) + 1] = i - 1
    <3> SUFFICES ASSUME NEW i \in 1..c PROVE s[(c - i) + 1] = i - 1
      OBVIOUS
    <3> DEFINE j == (c - i) + 1
    <3>1. j \in 1..B + 1 /\ B + 1 - j = i - 1
      BY <1>1
    <3> HIDE DEF j
    <3>2. s[j] = i - 1
      BY <1>7, <3>1
    <3> QED BY <3>2 DEF j
  <2>5. Len(s) = c
    BY <1>7
  <2> HIDE DEF c
  <2>4. Reverse(s) = [i \in 1..c |-> i - 1]
    BY <2>1, <2>3, <2>5
  <2> QED BY <2>4 DEF c
<1> QED BY <1>6, <1>8

(* A block ends, or goes on to the next one, or branches to the next two.       *)
GoesOn(g, bs, b) ==
  LET ends == g[LastOf(g, bs, b)].kind \in Enders
      s == Successors(g, bs, b)
  IN  \/ ends /\ Len(s) = 0
      \/ ~ends /\ b + 1 = Len(bs) /\ Len(s) = 0
      \/ ~ends /\ b + 1 < Len(bs) /\ Len(s) = 1 /\ s[1] = b + 1
      \/ /\ ~ends /\ b + 2 < Len(bs) /\ Len(s) = 2 /\ s[1] = b + 1 /\ s[2] = b + 2
         /\ g[LastOf(g, bs, b + 1)].kind \notin Enders

LEMMA BlockGoesOn ==
  ASSUME NEW g, Forward(g), NEW bs, LeadersAt(g, bs), Live(g) \subseteq 1..Len(g),
         NEW b \in 0..Len(bs) - 1
  PROVE  GoesOn(g, bs, b)
<1> DEFINE m == b + 1
           x == LastOf(g, bs, b)
           s == Successors(g, bs, b)
<1>1. Len(bs) \in Nat /\ m \in 1..Len(bs) /\ m - 1 = b /\ Len(g) \in Nat
  BY GraphFacts DEF LeadersAt, Forward
<1> HIDE DEF m
<1>2. x \in 1..Len(g)
  <2>1. InBlock(g, bs, LastOf(g, bs, m - 1), m)
    BY <1>1, LastFound
  <2> QED BY <1>1, <2>1 DEF InBlock
<1> DEFINE kind == g[x].kind
<1>3. kind \notin {"Loop", "Jump"}
  BY <1>2 DEF Forward, ForwardNode
<1>4. CASE kind = "If"
  <2>1. /\ Successors(g, bs, m - 1) = <<m, m + 1>> /\ m + 2 \in 1..Len(bs)
        /\ g[LastOf(g, bs, m)].kind = "IfTrue"
    <3>1. g[LastOf(g, bs, m - 1)].kind = "If"
      BY <1>1, <1>4
    <3> QED BY <1>1, <3>1, BranchSuccessors
  <2>2. s = <<b + 1, b + 2>> /\ b + 2 < Len(bs) /\ g[LastOf(g, bs, b + 1)].kind = "IfTrue"
    BY <1>1, <2>1 DEF m
  <2>3. kind \notin Enders /\ "IfTrue" \notin Enders
    BY <1>4 DEF Enders
  <2> HIDE DEF s, x
  <2> QED BY <2>2, <2>3 DEF GoesOn, s, x
<1>5. CASE kind \in Enders
  <2>1. kind \in {"Return", "Throw"}
    BY <1>3, <1>5 DEF Enders
  <2>2. s = <<>>
    <3> HIDE DEF kind
    <3> QED BY <2>1 DEF Successors, kind
  <2> HIDE DEF s
  <2> QED BY <1>5, <2>2 DEF GoesOn, s
<1>6. CASE kind \notin Enders /\ kind # "If"
  <2>1. kind \notin {"If", "Jump", "Return", "Throw"}
    BY <1>6 DEF Enders
  <2>2. s = IF b + 1 \in Blocks(bs) THEN <<b + 1>> ELSE <<>>
    <3> HIDE DEF kind
    <3> QED BY <2>1 DEF Successors, kind
  <2>3. CASE b + 1 \in Blocks(bs)
    <3>1. b + 1 < Len(bs) /\ Len(s) = 1 /\ s[1] = b + 1
      BY <1>1, <2>2, <2>3 DEF Blocks
    <3> HIDE DEF s, x
    <3> QED BY <1>6, <3>1 DEF GoesOn, s, x
  <2>4. CASE b + 1 \notin Blocks(bs)
    <3>1. b + 1 = Len(bs) /\ Len(s) = 0
      BY <1>1, <2>2, <2>4 DEF Blocks
    <3> HIDE DEF s, x
    <3> QED BY <1>6, <3>1 DEF GoesOn, s, x
  <2> QED BY <2>3, <2>4
<1> QED BY <1>4, <1>5, <1>6

LEMMA LineOfBlocks ==
  ASSUME NEW g, Forward(g), NEW bs, LeadersAt(g, bs), Live(g) \subseteq 1..Len(g)
  PROVE  \E B : Line(g, bs, B)
<1> DEFINE n == Len(bs)
           E == {b \in 0..n - 1 : g[LastOf(g, bs, b)].kind \in Enders}
<1>1. n \in Nat /\ n # 0
  BY DEF LeadersAt
<1>2. \A b \in 0..n - 1 : GoesOn(g, bs, b)
  BY BlockGoesOn
<1> HIDE DEF n
<1>3. PICK B \in 0..n - 1 : /\ \A b \in 0..B - 1 : b \notin E
                            /\ B \in E \/ B + 1 = n
  <2>1. CASE E = {}
    <3>1. n - 1 \in 0..n - 1 /\ (n - 1) + 1 = n
      BY <1>1
    <3> QED BY <2>1, <3>1
  <2>2. CASE E # {}
    <3>1. E \subseteq Nat
      OBVIOUS
    <3>2. PICK B \in E : \A b \in E : B <= b
      <4> HIDE DEF E
      <4> QED BY <2>2, <3>1, LeastNat
    <3>3. \A b \in 0..B - 1 : b \notin E
      BY <3>2
    <3> QED BY <3>2, <3>3
  <2> QED BY <2>1, <2>2
<1>4. ASSUME NEW b \in 0..B - 1 PROVE Leads(g, bs, B, b)
  <2>1. GoesOn(g, bs, b) /\ g[LastOf(g, bs, b)].kind \notin Enders /\ b + 1 < n /\ b + 1 \in 0..n - 1
    BY <1>1, <1>2, <1>3
  <2>2. CASE /\ b + 2 < n /\ Len(Successors(g, bs, b)) = 2 /\ Successors(g, bs, b)[1] = b + 1
             /\ Successors(g, bs, b)[2] = b + 2
             /\ g[LastOf(g, bs, b + 1)].kind \notin Enders
    <3>1. b + 1 \notin E
      BY <2>2
    <3>2. b + 1 # B
      BY <1>1, <1>3, <2>2, <3>1
    <3>3. b + 2 <= B
      BY <1>1, <3>2
    <3> QED BY <2>2, <3>3 DEF Leads
  <2>3. CASE Len(Successors(g, bs, b)) = 1 /\ Successors(g, bs, b)[1] = b + 1
    BY <2>3 DEF Leads
  <2>4. b + 1 # n
    BY <1>1, <2>1
  <2> QED BY <2>1, <2>2, <2>3, <2>4 DEF GoesOn, n
<1>5. Len(Successors(g, bs, B)) = 0
  <2>1. GoesOn(g, bs, B) /\ (g[LastOf(g, bs, B)].kind \in Enders \/ B + 1 = n)
    BY <1>2, <1>3
  <2>2. B + 1 = n => ~(B + 1 < n) /\ ~(B + 2 < n)
    BY <1>1
  <2> QED BY <2>1, <2>2 DEF GoesOn, n
<1>6. g[LastOf(g, bs, B)].kind \in Enders \/ B + 1 = n
  BY <1>3
<1> QED BY <1>1, <1>4, <1>5, <1>6 DEF Line, n

-----------------------------------------------------------------------------
(* The layout of a line of blocks: the nodes of its blocks in ascending order.   *)

LayStep(g, bs, before, b) == before \o InOrder(NodesIn(g, bs, b), Len(g))

IsLaid(f, g, bs, q, n) ==
  f = [s \in SUBSET (1..n) |-> IF s = {} THEN <<>>
                               ELSE LayStep(g, bs, f[s \ {Max(s)}], q[Max(s)])]

LEMMA LaidExists ==
  ASSUME NEW g, NEW bs, NEW q, NEW n \in Nat
  PROVE  \E f : IsLaid(f, g, bs, q, n)
<1> DEFINE T == {m \in Nat : \E f : IsLaid(f, g, bs, q, m)}
<1>1. 0 \in T
  <2> DEFINE f == [s \in SUBSET (1..0) |-> <<>>]
             r(s) == IF s = {} THEN <<>> ELSE LayStep(g, bs, f[s \ {Max(s)}], q[Max(s)])
  <2>1. \A s \in SUBSET (1..0) : f[s] = r(s)
    OBVIOUS
  <2>2. f = [s \in SUBSET (1..0) |-> r(s)]
    BY <2>1
  <2>3. IsLaid(f, g, bs, q, 0)
    BY <2>2 DEF IsLaid
  <2> HIDE DEF f
  <2> QED BY <2>3
<1>2. ASSUME NEW m \in 0..n - 1, m \in T PROVE m + 1 \in T
  <2>1. PICK f : IsLaid(f, g, bs, q, m)
    BY <1>2
  <2> DEFINE D == SUBSET (1..m + 1)
             h == [s \in D |-> IF m + 1 \in s THEN LayStep(g, bs, f[s \ {m + 1}], q[m + 1])
                                              ELSE f[s]]
             r(s) == IF s = {} THEN <<>> ELSE LayStep(g, bs, h[s \ {Max(s)}], q[Max(s)])
  <2>2. ASSUME NEW s \in D PROVE h[s] = r(s)
    <3>1. CASE m + 1 \in s
      <4>1. Max(s) = m + 1 /\ s \ {Max(s)} \in SUBSET (1..m)
        <5> HIDE DEF h
        <5> QED BY <3>1, MaxOfPrefix
      <4>2. s \ {m + 1} \in D /\ m + 1 \notin s \ {m + 1} /\ s # {}
        BY <3>1, <4>1
      <4>3. h[s \ {m + 1}] = f[s \ {m + 1}]
        BY <4>2
      <4>4. h[s] = LayStep(g, bs, f[s \ {m + 1}], q[m + 1])
        BY <3>1
      <4> QED BY <4>1, <4>2, <4>3, <4>4
    <3>2. CASE m + 1 \notin s
      <4>1. s \in SUBSET (1..m)
        BY <3>2
      <4>2. h[s] = f[s]
        BY <3>2
      <4> DEFINE t == s \ {Max(s)}
      <4>3. t \in SUBSET (1..m) /\ t \in D /\ m + 1 \notin t
        <5>1. t \subseteq s /\ 1..m \subseteq 1..m + 1 /\ m + 1 \notin 1..m
          OBVIOUS
        <5> HIDE DEF t
        <5> QED BY <4>1, <5>1
      <4>4. h[t] = f[t]
        BY <4>3
      <4>5. f[s] = IF s = {} THEN <<>> ELSE LayStep(g, bs, f[t], q[Max(s)])
        BY <2>1, <4>1 DEF IsLaid
      <4> QED BY <4>2, <4>4, <4>5
    <3> QED BY <3>1, <3>2
  <2>3. h = [s \in D |-> r(s)]
    <3>1. h = [s \in D |-> h[s]]
      OBVIOUS
    <3> HIDE DEF h
    <3> QED BY <2>2, <3>1
  <2>4. IsLaid(h, g, bs, q, m + 1)
    BY <2>3 DEF IsLaid
  <2> HIDE DEF h
  <2> QED BY <1>2, <2>4
<1>3. n \in T
  <2> HIDE DEF T
  <2> QED BY <1>1, <1>2, PrefixInduction
<1> QED BY <1>3

LEMMA LayoutSteps ==
  ASSUME NEW g, NEW q, q = ReversePostOrder(g, BlockStructure(g)), NEW n \in Nat, DOMAIN q = 1..n
  PROVE  \E f : /\ f[0] = <<>>
                /\ \A k \in 1..n : f[k] = LayStep(g, BlockStructure(g), f[k - 1], q[k])
                /\ f[n] = Layout(g)
<1> DEFINE bs == BlockStructure(g)
           w == CHOOSE f : IsLaid(f, g, bs, q, n)
           f == [k \in 0..n |-> w[1..k]]
<1>1. IsLaid(w, g, bs, q, n)
  BY LaidExists
<1>2. Layout(g) = w[1..n]
  <2>1. Layout(g) = FoldLeft(LAMBDA before, b : before \o InOrder(NodesIn(g, bs, b), Len(g)), <<>>, q)
    BY DEF Layout, bs
  <2> QED BY <2>1 DEF FoldLeft, MapThenFoldSet, IsLaid, LayStep
<1> HIDE DEF w, bs
<1>3. w[1..0] = <<>>
  <2>1. 1..0 = {} /\ {} \in SUBSET (1..n)
    OBVIOUS
  <2> QED BY <1>1, <2>1 DEF IsLaid
<1>4. ASSUME NEW k \in 1..n PROVE w[1..k] = LayStep(g, bs, w[1..k - 1], q[k])
  <2>1. k - 1 \in Nat /\ (k - 1) + 1 = k /\ 1..k \in SUBSET (1..n) /\ 1..k # {} /\ k \in 1..k
        /\ (1..k) \ {k} = 1..k - 1
    BY PrefixOfPrefix
  <2>2. Max(1..k) = k
    <3> DEFINE m == k - 1
    <3>1. m \in Nat /\ m + 1 = k
      BY <2>1
    <3> HIDE DEF m
    <3>2. 1..k \in SUBSET (1..m + 1) /\ m + 1 \in 1..k
      BY <2>1, <3>1
    <3>3. Max(1..k) = m + 1
      BY <3>1, <3>2, MaxOfPrefix
    <3> QED BY <3>1, <3>3
  <2> DEFINE a == 1..k
             b == 1..k - 1
  <2>3. a \in SUBSET (1..n) /\ a # {} /\ a \ {k} = b /\ Max(a) = k
    BY <2>1, <2>2
  <2> HIDE DEF a, b
  <2>4. w[a] = LayStep(g, bs, w[b], q[k])
    BY <1>1, <2>3 DEF IsLaid
  <2> QED BY <2>4 DEF a, b
<1>5. f[0] = w[1..0] /\ f[n] = w[1..n]
  OBVIOUS
<1>6. ASSUME NEW k \in 1..n PROVE f[k] = LayStep(g, bs, f[k - 1], q[k])
  <2>1. k \in 0..n /\ k - 1 \in 0..n
    OBVIOUS
  <2>2. f[k] = w[1..k] /\ f[k - 1] = w[1..k - 1]
    BY <2>1
  <2> HIDE DEF f
  <2> QED BY <1>4, <2>2
<1> HIDE DEF f
<1> QED BY <1>2, <1>3, <1>5, <1>6 DEF bs

LEMMA ConcatEnumerates ==
  ASSUME NEW S, NEW T, S \subseteq Nat, T \subseteq Nat, \A x \in S : \A y \in T : x < y,
         NEW a, Enumerates(a, S), NEW b, Enumerates(b, T)
  PROVE  Enumerates(a \o b, S \cup T)
<1> DEFINE c == a \o b
           U == S \cup T
<1>1. a \in Seq(S) /\ b \in Seq(T)
  BY DEF Enumerates
<1>2. a \in Seq(U) /\ b \in Seq(U) /\ Len(a) \in Nat /\ Len(b) \in Nat
  <2>1. S \subseteq U /\ T \subseteq U
    OBVIOUS
  <2> HIDE DEF U
  <2> QED BY <1>1, <2>1, SeqMonotonic, LenProperties
<1>3. \A i \in 1..Len(a) : a[i] \in S
  BY <1>1, ElementOfSeq
<1>4. \A i \in 1..Len(b) : b[i] \in T
  BY <1>1, ElementOfSeq
<1> DEFINE m == Len(a)
           n == Len(b)
<1>5. /\ c \in Seq(U) /\ Len(c) = m + n
      /\ \A i \in 1..m + n : c[i] = IF i <= m THEN a[i] ELSE b[i - m]
  BY <1>2, ConcatProperties
<1> HIDE DEF c, U
<1>6. m \in Nat /\ n \in Nat
  BY <1>2
<1> HIDE DEF m, n
<1>7. ASSUME NEW x \in S \cup T PROVE \E i \in 1..Len(c) : c[i] = x
  <2>1. CASE x \in S
    <3>1. PICK i \in 1..m : a[i] = x
      BY <2>1 DEF Enumerates, m
    <3>2. i \in 1..Len(c) /\ c[i] = x
      BY <1>5, <1>6, <3>1
    <3> QED BY <3>2
  <2>2. CASE x \in T
    <3>1. PICK i \in 1..n : b[i] = x
      BY <2>2 DEF Enumerates, n
    <3> DEFINE j == m + i
    <3>2. j \in 1..m + n /\ ~(j <= m) /\ j - m = i
      BY <1>6
    <3> HIDE DEF j
    <3>3. j \in 1..Len(c) /\ c[j] = x
      BY <1>5, <3>1, <3>2
    <3> QED BY <3>3
  <2> QED BY <2>1, <2>2
<1>8. ASSUME NEW i \in 1..Len(c), NEW j \in 1..Len(c), i < j PROVE c[i] < c[j]
  <2>1. CASE j <= m
    <3>1. i \in 1..m /\ j \in 1..m /\ c[i] = a[i] /\ c[j] = a[j]
      BY <1>5, <1>6, <1>8, <2>1
    <3> QED BY <1>8, <3>1 DEF Enumerates, m
  <2>2. CASE ~(j <= m) /\ i <= m
    <3> DEFINE y == j - m
    <3>1. i \in 1..m /\ y \in 1..n /\ c[i] = a[i] /\ c[j] = b[y]
      BY <1>5, <1>6, <1>8, <2>2
    <3> HIDE DEF y
    <3>2. a[i] \in S /\ b[y] \in T
      BY <1>3, <1>4, <3>1 DEF m, n
    <3> QED BY <3>1, <3>2
  <2>3. CASE ~(j <= m) /\ ~(i <= m)
    <3> DEFINE x == i - m
               y == j - m
    <3>1. x \in 1..n /\ y \in 1..n /\ x < y /\ c[i] = b[x] /\ c[j] = b[y]
      BY <1>5, <1>6, <1>8, <2>3
    <3> HIDE DEF x, y
    <3> QED BY <3>1 DEF Enumerates, n
  <2> QED BY <2>1, <2>2, <2>3
<1> QED BY <1>5, <1>7, <1>8 DEF Enumerates, U, c

(* Later nodes are in later blocks.                                             *)
LEMMA BlocksAscend ==
  ASSUME NEW g, NEW bs, LeadersAt(g, bs), Live(g) \subseteq 1..Len(g),
         NEW x \in Live(g), NEW y \in Live(g)
  PROVE  /\ BlockOf(g, bs, x) \in 0..Len(bs) - 1
         /\ x <= y => BlockOf(g, bs, x) <= BlockOf(g, bs, y)
<1>1. PICK m \in 1..Len(bs) : InBlock(g, bs, x, m)
  BY BlockFound
<1>2. PICK k \in 1..Len(bs) : InBlock(g, bs, y, k)
  BY BlockFound
<1>3. /\ Len(bs) \in Nat /\ m \in 1..Len(bs) /\ k \in 1..Len(bs)
      /\ BlockOf(g, bs, x) = m - 1 /\ BlockOf(g, bs, y) = k - 1
      /\ bs[m] <= x /\ bs[m] \in Nat /\ x \in Nat /\ y \in Nat
      /\ bs[m] <= y <=> m <= k
  <2>1. m <= m
    OBVIOUS
  <2> QED BY <1>1, <1>2, <2>1 DEF InBlock, LeadersAt
<1>4. x <= y => m <= k
  BY <1>3
<1> QED BY <1>3, <1>4

LEMMA LayoutOfLine ==
  ASSUME NEW g, NEW bs, bs = BlockStructure(g), LeadersAt(g, bs), Live(g) \subseteq 1..Len(g),
         Len(g) \in Nat, NEW B, Line(g, bs, B)
  PROVE  Enumerates(Layout(g), {id \in Live(g) : BlockOf(g, bs, id) <= B})
<1> DEFINE q == ReversePostOrder(g, bs)
           n == B + 1
           S(k) == {id \in Live(g) : BlockOf(g, bs, id) < k}
<1>1. B \in Nat /\ n \in Nat /\ B < Len(bs) /\ Len(bs) \in Nat
  BY DEF Line
<1>2. q = [i \in 1..n |-> i - 1]
  BY OrderOfLine
<1>3. DOMAIN q = 1..n /\ \A k \in 1..n : q[k] = k - 1
  BY <1>2
<1> HIDE DEF q
<1>4. PICK f : /\ f[0] = <<>>
               /\ \A k \in 1..n : f[k] = LayStep(g, bs, f[k - 1], q[k])
               /\ f[n] = Layout(g)
  <2> HIDE DEF n
  <2> QED BY <1>1, <1>3, LayoutSteps DEF q
<1>5. \A id \in Live(g) : BlockOf(g, bs, id) \in Nat /\ id \in Nat
  BY <1>1, BlocksAscend
<1> DEFINE T == {k \in 0..n : Enumerates(f[k], S(k))}
<1>6. 0 \in T
  <2>1. S(0) = {} /\ 0 \in 0..n
    BY <1>1, <1>5
  <2>2. Enumerates(<<>>, {})
    BY DEF Enumerates
  <2> QED BY <1>4, <2>1, <2>2
<1> HIDE DEF n
<1>7. ASSUME NEW k \in 0..n - 1, k \in T PROVE k + 1 \in T
  <2> DEFINE d == k + 1
             X == S(k)
             Y == NodesIn(g, bs, k)
             Z == S(d)
             a == f[k]
             b == InOrder(Y, Len(g))
  <2>1. d \in 1..n /\ d - 1 = k /\ d \in 0..n /\ k \in Nat
    BY <1>1
  <2>2. f[d] = LayStep(g, bs, f[k], k)
    BY <1>3, <1>4, <2>1
  <2>3. Z = X \cup Y
    BY <1>5, <2>1 DEF NodesIn
  <2>4. X \subseteq Nat /\ Y \subseteq Nat
    BY <1>5 DEF NodesIn
  <2>5. Enumerates(a, X)
    BY <1>7
  <2>6. Enumerates(b, Y)
    <3>1. Y \cap (1..Len(g)) = Y
      BY DEF NodesIn
    <3> HIDE DEF Y
    <3> QED BY <3>1, InOrderEnumerates
  <2>7. ASSUME NEW x \in X, NEW y \in Y PROVE x < y
    <3>1. /\ x \in Live(g) /\ y \in Live(g) /\ x \in Nat /\ y \in Nat
          /\ BlockOf(g, bs, x) < k /\ BlockOf(g, bs, y) = k
      BY <1>5 DEF NodesIn
    <3>2. y <= x => BlockOf(g, bs, y) <= BlockOf(g, bs, x)
      BY <3>1, BlocksAscend
    <3> QED BY <1>5, <2>1, <3>1, <3>2
  <2>8. f[d] = a \o b
    BY <2>2 DEF LayStep
  <2> HIDE DEF X, Y, Z, a, b, d
  <2>9. Enumerates(f[d], Z)
    BY <2>3, <2>4, <2>5, <2>6, <2>7, <2>8, ConcatEnumerates
  <2>10. d \in T
    BY <2>1, <2>9 DEF Z
  <2> QED BY <2>10 DEF d
<1>8. Enumerates(f[n], S(n))
  <2>1. n \in T
    <3> HIDE DEF T
    <3>1. 0..n \subseteq T /\ n \in 0..n
      BY <1>1, <1>6, <1>7, PrefixInduction
    <3> QED BY <3>1
  <2> QED BY <2>1
<1>9. S(n) = {id \in Live(g) : BlockOf(g, bs, id) <= B}
  BY <1>1, <1>5 DEF n
<1> QED BY <1>4, <1>8, <1>9

(* What falls through goes on in the next block of the order.                   *)
FallsToNext(g) ==
  LET bs == BlockStructure(g)
      order == ReversePostOrder(g, bs)
  IN  \A k \in DOMAIN order :
        LET b == order[k]
        IN  /\ g[LastOf(g, bs, b)].kind \notin {"If"} \cup Enders
            /\ b + 1 \in Blocks(bs)
            => k < Len(order) /\ order[k + 1] = b + 1

OperandsBefore(g) ==
  LET layout == Layout(g)
  IN  \A k \in DOMAIN layout :
        g[layout[k]].kind # "Phi"
        => DataInputs(g, layout[k]) \subseteq {layout[j] : j \in 1..k - 1}

(* Of a graph without a live node, nothing is laid out.                         *)
LEMMA NothingLaidOut ==
  ASSUME NEW g, Len(g) \in Nat, Live(g) = {}
  PROVE  Layout(g) = <<>> /\ ReversePostOrder(g, BlockStructure(g)) = <<>>
<1> DEFINE bs == BlockStructure(g)
           q == ReversePostOrder(g, bs)
<1>1. bs = <<>>
  <2>1. {id \in Live(g) : IsLeader(g, id)} = {}
    OBVIOUS
  <2>2. Enumerates(bs, {})
    <3>1. bs = InOrder({}, Len(g))
      BY <2>1 DEF BlockStructure
    <3>2. Enumerates(InOrder({}, Len(g)), {} \cap (1..Len(g)))
      BY InOrderEnumerates
    <3>3. {} \cap (1..Len(g)) = {}
      OBVIOUS
    <3> HIDE DEF bs
    <3> QED BY <3>1, <3>2, <3>3
  <2>3. bs \in Seq({})
    BY <2>2 DEF Enumerates
  <2> HIDE DEF bs
  <2> QED BY <2>3
<1>2. q = <<>>
  BY <1>1 DEF ReversePostOrder
<1>3. DOMAIN q = 1..0
  BY <1>2
<1> HIDE DEF q
<1>4. Layout(g) = <<>>
  <2>1. PICK f : f[0] = <<>> /\ f[0] = Layout(g)
    BY <1>3, LayoutSteps DEF q
  <2> QED BY <2>1
<1> QED BY <1>2, <1>4 DEF q

LEMMA ForwardFallsToNext ==
  ASSUME NEW g, Forward(g)
  PROVE  FallsToNext(g)
<1> DEFINE bs == BlockStructure(g)
           order == ReversePostOrder(g, bs)
<1>1. Len(g) \in Nat
  BY GraphFacts DEF Forward
<1>2. CASE Live(g) = {}
  <2>1. order = <<>>
    BY <1>1, <1>2, NothingLaidOut
  <2>2. DOMAIN order = {}
    BY <2>1
  <2> HIDE DEF order
  <2> QED BY <2>2 DEF FallsToNext, order
<1>3. CASE Live(g) # {}
  <2>1. LeadersAt(g, bs) /\ Live(g) \subseteq 1..Len(g)
    BY <1>3, LeadersFound DEF Forward
  <2> HIDE DEF bs
  <2>2. PICK B : Line(g, bs, B)
    BY <2>1, LineOfBlocks
  <2>3. /\ B \in Nat /\ Len(bs) \in Nat
        /\ g[LastOf(g, bs, B)].kind \in Enders \/ B + 1 = Len(bs)
    BY <2>2 DEF Line
  <2>4. order = [i \in 1..B + 1 |-> i - 1]
    BY <2>2, OrderOfLine
  <2>5. DOMAIN order = 1..B + 1 /\ Len(order) = B + 1 /\ \A i \in 1..B + 1 : order[i] = i - 1
    BY <2>3, <2>4
  <2> HIDE DEF order
  <2>6. ASSUME NEW k \in DOMAIN order, NEW b, b = order[k],
               g[LastOf(g, bs, b)].kind \notin {"If"} \cup Enders, b + 1 \in Blocks(bs)
        PROVE  k < Len(order) /\ order[k + 1] = b + 1
    <3>1. k \in 1..B + 1 /\ b = k - 1
      BY <2>5, <2>6
    <3>2. b # B
      <4>1. CASE g[LastOf(g, bs, B)].kind \in Enders
        BY <2>6, <4>1
      <4>2. CASE B + 1 = Len(bs)
        <5>1. b + 1 \in 0..Len(bs) - 1
          BY <2>6 DEF Blocks
        <5> QED BY <2>3, <4>2, <5>1
      <4> QED BY <2>3, <4>1, <4>2
    <3>3. k + 1 \in 1..B + 1 /\ k < B + 1 /\ (k + 1) - 1 = b + 1
      BY <2>3, <3>1, <3>2
    <3> DEFINE next == k + 1
    <3>4. order[next] = b + 1
      <4>1. next \in 1..B + 1 /\ next - 1 = b + 1
        BY <3>3
      <4> HIDE DEF next
      <4> QED BY <2>5, <4>1
    <3> QED BY <2>5, <3>3, <3>4
  <2> QED BY <2>6 DEF FallsToNext, bs, order
<1> QED BY <1>2, <1>3

LEMMA ForwardOperandsBefore ==
  ASSUME NEW g, Forward(g)
  PROVE  OperandsBefore(g)
<1> DEFINE bs == BlockStructure(g)
           layout == Layout(g)
<1>1. Len(g) \in Nat
  BY GraphFacts DEF Forward
<1>2. CASE Live(g) = {}
  <2>1. layout = <<>>
    BY <1>1, <1>2, NothingLaidOut
  <2>2. DOMAIN layout = {}
    BY <2>1
  <2> HIDE DEF layout
  <2> QED BY <2>2 DEF OperandsBefore, layout
<1>3. CASE Live(g) # {}
  <2>1. LeadersAt(g, bs) /\ Live(g) \subseteq 1..Len(g)
    BY <1>3, LeadersFound DEF Forward
  <2>2. PICK B : Line(g, bs, B)
    <3> HIDE DEF bs
    <3> QED BY <2>1, LineOfBlocks
  <2> DEFINE S == {id \in Live(g) : BlockOf(g, bs, id) <= B}
  <2>3. Enumerates(layout, S)
    BY <1>1, <2>1, <2>2, LayoutOfLine
  <2> HIDE DEF bs, layout
  <2>4. Len(layout) \in Nat /\ DOMAIN layout = 1..Len(layout) /\ \A k \in 1..Len(layout) : layout[k] \in S
    <3>1. layout \in Seq(S)
      BY <2>3 DEF Enumerates
    <3> HIDE DEF S
    <3> QED BY <3>1, ElementOfSeq, LenProperties
  <2>5. ASSUME NEW k \in 1..Len(layout), NEW x \in DataInputs(g, layout[k])
        PROVE  \E j \in 1..k - 1 : x = layout[j]
    <3> DEFINE id == layout[k]
    <3>1. id \in Live(g) /\ id \in 1..Len(g) /\ ~Dead(g, id) /\ BlockOf(g, bs, id) <= B
      BY <2>1, <2>4 DEF Live
    <3> HIDE DEF id
    <3>2. PICK i \in DOMAIN g[id].in : x = g[id].in[i]
      BY DEF DataInputs, id
    <3>3. ForwardNode(g, id)
      BY <3>1 DEF Forward
    <3>4. i \in 1..Len(g[id].in)
      <4> DEFINE in == g[id].in
      <4>1. in \in Seq(Nat) /\ i \in DOMAIN in
        BY <3>3 DEF ForwardNode
      <4> HIDE DEF in
      <4>2. i \in 1..Len(in)
        BY <4>1, LenProperties
      <4> QED BY <4>2 DEF in
    <3>5. Usable(g, x, id)
      BY <3>1, <3>2, <3>3, <3>4 DEF ForwardNode
    <3>6. x \in Live(g) /\ x < id /\ x \in Nat /\ id \in Nat
      BY <1>1, <3>1, <3>5 DEF Usable, Live, Ids
    <3>7. BlockOf(g, bs, x) <= BlockOf(g, bs, id) /\ BlockOf(g, bs, x) \in 0..Len(bs) - 1
          /\ BlockOf(g, bs, id) \in 0..Len(bs) - 1
      BY <2>1, <3>1, <3>6, BlocksAscend
    <3>8. x \in S
      <4>1. B \in Nat /\ Len(bs) \in Nat
        BY <2>2 DEF Line
      <4> QED BY <3>1, <3>6, <3>7, <4>1
    <3>9. PICK j \in 1..Len(layout) : layout[j] = x
      BY <2>3, <3>8 DEF Enumerates
    <3>10. j < k
      <4>1. k < j => layout[k] < layout[j]
        BY <2>3, <3>9 DEF Enumerates
      <4>2. layout[k] = id
        BY DEF id
      <4> QED BY <2>4, <3>6, <3>9, <4>1, <4>2
    <3> QED BY <2>4, <3>9, <3>10
  <2>6. \A k \in 1..Len(layout) : DataInputs(g, layout[k]) \subseteq {layout[j] : j \in 1..k - 1}
    BY <2>5
  <2> QED BY <2>4, <2>6 DEF OperandsBefore, layout
<1> QED BY <1>2, <1>3

-----------------------------------------------------------------------------
(* The arithmetic of a node: integers give integers, and the operands of what   *)
(* the optimizer takes to be commutative can be exchanged.                      *)

LEMMA PowerOfTwo ==
  ASSUME NEW n \in Nat
  PROVE  2 ^ n \in Nat /\ 2 ^ n > 0
<1> DEFINE S == 1..n
           p == 2 ^ n
<1>1. IsFiniteSet(S) /\ Cardinality(S) = n
  <2>1. IsFiniteSet(S) /\ Cardinality(S) = IF 1 > n THEN 0 ELSE n - 1 + 1
    BY FS_Interval
  <2> DEFINE c == Cardinality(S)
  <2> HIDE DEF S
  <2>2. c = n
    <3>1. c = IF 1 > n THEN 0 ELSE n - 1 + 1
      BY <2>1
    <3> HIDE DEF c
    <3> QED BY <3>1
  <2> QED BY <2>1, <2>2
<1> HIDE DEF S
<1>2. IsFiniteSet(SUBSET S) /\ Cardinality(SUBSET S) = 2 ^ Cardinality(S)
  BY <1>1, FS_SUBSET
<1>3. p = Cardinality(SUBSET S)
  BY <1>1, <1>2
<1>4. Cardinality(SUBSET S) \in Nat
  BY <1>2, FS_CardinalityType
<1>5. SUBSET S # {}
  OBVIOUS
<1>6. Cardinality(SUBSET S) # 0
  BY <1>2, <1>5, FS_EmptySet
<1> DEFINE d == Cardinality(SUBSET S)
<1>7. d \in Nat /\ d # 0 /\ p = d
  BY <1>3, <1>4, <1>6
<1> HIDE DEF d, p
<1>8. p \in Nat /\ p > 0
  BY <1>7
<1> QED BY <1>8 DEF p

LEMMA WrappedIsInt ==
  ASSUME NEW x \in Int
  PROVE  /\ Wrap32(x) \in Int /\ Wrap64(x) \in Int
         /\ Unsigned(LongBits, x) \in Int
<1>1. ASSUME NEW bits \in Nat, bits > 0 PROVE Signed(bits, x) \in Int /\ Unsigned(bits, x) \in Int
  <2> DEFINE p == 2 ^ bits
             h == 2 ^ (bits - 1)
  <2>1. p \in Nat /\ p > 0
    BY PowerOfTwo
  <2>2. h \in Nat
    <3>1. bits - 1 \in Nat
      BY <1>1
    <3> QED BY <3>1, PowerOfTwo
  <2> HIDE DEF p, h
  <2>3. (x + h) % p \in Int /\ x % p \in Int
    BY <2>1, <2>2
  <2>4. ((x + h) % p) - h \in Int
    BY <2>2, <2>3
  <2> QED BY <2>3, <2>4 DEF Signed, Unsigned, p, h
<1> QED BY <1>1, WidthAssumption DEF Wrap32, Wrap64

BitAt(x, i) == (x \div 2 ^ i) % 2
BitTerm(kind, a, b, i) == 2 ^ i * BitOf(kind, BitAt(a, i), BitAt(b, i))
BitKindsOf == {"And", "Or", "Xor"}

LEMMA BitTermIsInt ==
  ASSUME NEW kind \in BitKindsOf, NEW a \in Int, NEW b \in Int, NEW i \in Nat
  PROVE  BitTerm(kind, a, b, i) \in Int /\ BitTerm(kind, a, b, i) = BitTerm(kind, b, a, i)
<1> DEFINE p == 2 ^ i
           x == BitAt(a, i)
           y == BitAt(b, i)
<1>1. p \in Nat /\ p > 0
  BY PowerOfTwo
<1>2. x \in Int /\ y \in Int
  <2> DEFINE u == a \div p
             v == b \div p
  <2>1. u \in Int /\ v \in Int
    <3> HIDE DEF p
    <3> QED BY <1>1
  <2>2. x = u % 2 /\ y = v % 2
    BY DEF BitAt
  <2> HIDE DEF u, v
  <2> QED BY <2>1, <2>2
<1> HIDE DEF x, y
<1>3. BitOf(kind, x, y) \in Int /\ BitOf(kind, x, y) = BitOf(kind, y, x)
  <2>1. x * y \in Int /\ x * y = y * x
    BY <1>2
  <2> DEFINE z == x * y
  <2>2. z \in Int /\ z = y * x
    BY <2>1
  <2>3. /\ kind = "And" => BitOf(kind, x, y) = z /\ BitOf(kind, y, x) = y * x
        /\ kind = "Or" => BitOf(kind, x, y) = x + y - z /\ BitOf(kind, y, x) = y + x - y * x
        /\ kind = "Xor" => BitOf(kind, x, y) = (x + y) % 2 /\ BitOf(kind, y, x) = (y + x) % 2
    BY DEF BitOf
  <2>4. x + y = y + x /\ (x + y) % 2 \in Int /\ x + y \in Int
    BY <1>2
  <2> HIDE DEF z
  <2>5. x + y - z \in Int
    BY <1>2, <2>2
  <2>6. CASE kind = "And"
    BY ONLY <2>2, <2>3, <2>6
  <2>7. CASE kind = "Or"
    <3>1. BitOf(kind, x, y) = x + y - z /\ BitOf(kind, y, x) = y + x - y * x
      BY ONLY <2>3, <2>7
    <3> DEFINE w == y * x
    <3>2. w = z /\ w \in Int
      BY <2>2
    <3> HIDE DEF w
    <3>3. y + x - w = x + y - z
      BY ONLY <1>2, <2>2, <3>2
    <3>4. BitOf(kind, y, x) = y + x - w
      BY <3>1 DEF w
    <3> QED BY ONLY <2>5, <3>1, <3>3, <3>4
  <2>8. CASE kind = "Xor"
    BY ONLY <2>3, <2>4, <2>8
  <2> QED BY <2>6, <2>7, <2>8 DEF BitKindsOf
<1> DEFINE t == BitOf(kind, x, y)
<1>4. t \in Int /\ t = BitOf(kind, y, x)
  BY <1>3
<1> HIDE DEF t, p
<1>5. p * t \in Int
  BY <1>1, <1>4
<1> QED BY <1>4, <1>5 DEF BitTerm, p, t, x, y

(* The sum that Bitwise2 folds, one bit after the other.                        *)
IsBits(f, kind, a, b, q, n) ==
  f = [s \in SUBSET (1..n) |-> IF s = {} THEN 0
                               ELSE f[s \ {Max(s)}] + BitTerm(kind, a, b, q[Max(s)])]

LEMMA BitsExist ==
  ASSUME NEW kind, NEW a, NEW b, NEW q, NEW n \in Nat
  PROVE  \E f : IsBits(f, kind, a, b, q, n)
<1> DEFINE Term(i) == BitTerm(kind, a, b, i)
           T == {m \in Nat : \E f : IsBits(f, kind, a, b, q, m)}
<1>1. 0 \in T
  <2> DEFINE f == [s \in SUBSET (1..0) |-> 0]
             r(s) == IF s = {} THEN 0 ELSE f[s \ {Max(s)}] + Term(q[Max(s)])
  <2> HIDE DEF Term
  <2>1. \A s \in SUBSET (1..0) : f[s] = r(s)
    OBVIOUS
  <2>2. f = [s \in SUBSET (1..0) |-> r(s)]
    BY <2>1
  <2>3. IsBits(f, kind, a, b, q, 0)
    BY <2>2 DEF IsBits, Term
  <2> HIDE DEF f
  <2> QED BY <2>3
<1>2. ASSUME NEW m \in 0..n - 1, m \in T PROVE m + 1 \in T
  <2>1. PICK f : IsBits(f, kind, a, b, q, m)
    BY <1>2
  <2> DEFINE D == SUBSET (1..m + 1)
             h == [s \in D |-> IF m + 1 \in s THEN f[s \ {m + 1}] + Term(q[m + 1]) ELSE f[s]]
             r(s) == IF s = {} THEN 0 ELSE h[s \ {Max(s)}] + Term(q[Max(s)])
  <2>2. ASSUME NEW s \in D PROVE h[s] = r(s)
    <3>1. CASE m + 1 \in s
      <4>1. Max(s) = m + 1 /\ s \ {Max(s)} \in SUBSET (1..m)
        <5> HIDE DEF h
        <5> QED BY <3>1, MaxOfPrefix
      <4>2. s \ {m + 1} \in D /\ m + 1 \notin s \ {m + 1} /\ s # {}
        BY <3>1, <4>1
      <4> HIDE DEF Term
      <4>3. h[s \ {m + 1}] = f[s \ {m + 1}]
        BY <4>2
      <4>4. h[s] = f[s \ {m + 1}] + Term(q[m + 1])
        BY <3>1
      <4> QED BY <4>1, <4>2, <4>3, <4>4
    <3>2. CASE m + 1 \notin s
      <4>1. s \in SUBSET (1..m)
        BY <3>2
      <4>2. h[s] = f[s]
        BY <3>2
      <4> DEFINE t == s \ {Max(s)}
      <4>3. t \in SUBSET (1..m) /\ t \in D /\ m + 1 \notin t
        <5>1. t \subseteq s /\ 1..m \subseteq 1..m + 1 /\ m + 1 \notin 1..m
          OBVIOUS
        <5> HIDE DEF t
        <5> QED BY <4>1, <5>1
      <4>4. h[t] = f[t]
        BY <4>3
      <4>5. f[s] = IF s = {} THEN 0 ELSE f[t] + Term(q[Max(s)])
        BY <2>1, <4>1 DEF IsBits
      <4> HIDE DEF Term
      <4> QED BY <4>2, <4>4, <4>5
    <3> QED BY <3>1, <3>2
  <2>3. h = [s \in D |-> r(s)]
    <3>1. h = [s \in D |-> h[s]]
      OBVIOUS
    <3> HIDE DEF h
    <3> QED BY <2>2, <3>1
  <2>4. IsBits(h, kind, a, b, q, m + 1)
    BY <2>3 DEF IsBits
  <2> HIDE DEF h
  <2> QED BY <1>2, <2>4
<1>3. n \in T
  <2> HIDE DEF T
  <2> QED BY <1>1, <1>2, PrefixInduction
<1> QED BY <1>3

BitSum(kind, a, b) ==
  FoldLeft(LAMBDA sum, i : sum + 2 ^ i * BitOf(kind, (a \div 2 ^ i) % 2, (b \div 2 ^ i) % 2),
           0, [i \in 1..LongBits |-> i - 1])

LEMMA BitSumSteps ==
  ASSUME NEW kind, NEW a, NEW b
  PROVE  \E f : /\ f[0] = 0
                /\ \A k \in 1..LongBits : f[k] = f[k - 1] + BitTerm(kind, a, b, k - 1)
                /\ f[LongBits] = BitSum(kind, a, b)
<1> DEFINE n == LongBits
           q == [i \in 1..n |-> i - 1]
           w == CHOOSE f : IsBits(f, kind, a, b, q, n)
           f == [k \in 0..n |-> w[1..k]]
<1>0. n \in Nat
  BY WidthAssumption
<1>1. IsBits(w, kind, a, b, q, n)
  <2> HIDE DEF q, n
  <2> QED BY <1>0, BitsExist
<1>2. BitSum(kind, a, b) = w[1..n]
  <2>1. DOMAIN q = 1..n
    OBVIOUS
  <2> QED BY <2>1 DEF BitSum, FoldLeft, MapThenFoldSet, IsBits, BitTerm, BitAt
<1>9. \A k \in 1..n : q[k] = k - 1
  OBVIOUS
<1> HIDE DEF w, q, n
<1>3. w[1..0] = 0
  <2>1. 1..0 = {} /\ {} \in SUBSET (1..n)
    OBVIOUS
  <2> QED BY <1>1, <2>1 DEF IsBits
<1>4. ASSUME NEW k \in 1..n PROVE w[1..k] = w[1..k - 1] + BitTerm(kind, a, b, k - 1)
  <2>1. k - 1 \in Nat /\ (k - 1) + 1 = k /\ 1..k \in SUBSET (1..n) /\ 1..k # {} /\ k \in 1..k
        /\ (1..k) \ {k} = 1..k - 1
    BY <1>0, PrefixOfPrefix
  <2>2. Max(1..k) = k
    <3> DEFINE m == k - 1
    <3>1. m \in Nat /\ m + 1 = k
      BY <2>1
    <3> HIDE DEF m
    <3>2. 1..k \in SUBSET (1..m + 1) /\ m + 1 \in 1..k
      BY <2>1, <3>1
    <3>3. Max(1..k) = m + 1
      BY <3>1, <3>2, MaxOfPrefix
    <3> QED BY <3>1, <3>3
  <2> DEFINE x == 1..k
             y == 1..k - 1
  <2>3. x \in SUBSET (1..n) /\ x # {} /\ x \ {k} = y /\ Max(x) = k
    BY <2>1, <2>2
  <2>5. q[k] = k - 1
    BY <1>9
  <2> HIDE DEF x, y
  <2>4. w[x] = w[y] + BitTerm(kind, a, b, q[k])
    BY <1>1, <2>3 DEF IsBits
  <2> QED BY <2>4, <2>5 DEF x, y
<1>5. f[0] = w[1..0] /\ f[n] = w[1..n]
  BY <1>0
<1>6. ASSUME NEW k \in 1..n PROVE f[k] = f[k - 1] + BitTerm(kind, a, b, k - 1)
  <2>1. k \in 0..n /\ k - 1 \in 0..n
    BY <1>0
  <2>2. f[k] = w[1..k] /\ f[k - 1] = w[1..k - 1]
    BY <2>1
  <2> HIDE DEF f
  <2> QED BY <1>4, <2>2
<1> HIDE DEF f
<1> QED BY <1>2, <1>3, <1>5, <1>6 DEF n

LEMMA BitSumIsInt ==
  ASSUME NEW kind \in BitKindsOf, NEW a \in Int, NEW b \in Int
  PROVE  BitSum(kind, a, b) \in Int /\ BitSum(kind, a, b) = BitSum(kind, b, a)
<1>1. PICK f : /\ f[0] = 0
               /\ \A k \in 1..LongBits : f[k] = f[k - 1] + BitTerm(kind, a, b, k - 1)
               /\ f[LongBits] = BitSum(kind, a, b)
  BY BitSumSteps
<1>2. PICK h : /\ h[0] = 0
               /\ \A k \in 1..LongBits : h[k] = h[k - 1] + BitTerm(kind, b, a, k - 1)
               /\ h[LongBits] = BitSum(kind, b, a)
  BY BitSumSteps
<1> DEFINE n == LongBits
           T == {k \in Nat : f[k] \in Int /\ f[k] = h[k]}
<1>3. n \in Nat
  BY WidthAssumption
<1> HIDE DEF n
<1>4. 0 \in T
  BY <1>1, <1>2
<1>5. ASSUME NEW k \in 0..n - 1, k \in T PROVE k + 1 \in T
  <2> DEFINE j == k + 1
  <2>1. j \in 1..n /\ j - 1 = k /\ k \in Nat /\ j \in Nat
    BY <1>3
  <2> HIDE DEF j
  <2>2. f[j] = f[k] + BitTerm(kind, a, b, k) /\ h[j] = h[k] + BitTerm(kind, b, a, k)
    BY <1>1, <1>2, <2>1 DEF n
  <2>3. BitTerm(kind, a, b, k) \in Int /\ BitTerm(kind, a, b, k) = BitTerm(kind, b, a, k)
    BY <2>1, BitTermIsInt
  <2>4. j \in T
    BY <1>5, <2>1, <2>2, <2>3
  <2> QED BY <2>4 DEF j
<1>6. n \in T
  <2> HIDE DEF T
  <2> QED BY <1>3, <1>4, <1>5, PrefixInduction
<1> QED BY <1>1, <1>2, <1>6 DEF n

LEMMA ArithIsInt ==
  ASSUME NEW kind \in BinaryKinds, NEW a \in Int, NEW b \in Int, ~Traps(kind, a, b)
  PROVE  Arith(kind, a, b) \in Int
<1> DEFINE count == b % LongBits
           p == 2 ^ count
           r == Arith(kind, a, b)
<1>1. count \in Nat
  BY WidthAssumption
<1> HIDE DEF count
<1>2. p \in Nat /\ p > 0
  BY <1>1, PowerOfTwo
<1> HIDE DEF p
<1>3. Wrap64(a + b) \in Int /\ Wrap64(a - b) \in Int /\ Wrap64(a * b) \in Int
  <2>1. a + b \in Int /\ a - b \in Int /\ a * b \in Int
    OBVIOUS
  <2> QED BY <2>1, WrappedIsInt
<1>4. Wrap64(a * p) \in Int /\ a \div p \in Int
  <2>1. a * p \in Int /\ a \div p \in Int
    BY <1>2
  <2> QED BY <2>1, WrappedIsInt
<1>5. Wrap64(Unsigned(LongBits, a) \div p) \in Int
  <2>1. Unsigned(LongBits, a) \in Int
    BY WrappedIsInt
  <2>2. Unsigned(LongBits, a) \div p \in Int
    BY <1>2, <2>1
  <2> QED BY <2>2, WrappedIsInt
<1>6. b # 0 => TruncDiv(a, b) \in Int
  <2> SUFFICES ASSUME b # 0 PROVE TruncDiv(a, b) \in Int
    OBVIOUS
  <2> DEFINE x == AbsOf(a)
             y == AbsOf(b)
             s == SignOf(a)
             t == SignOf(b)
  <2>1. x \in Nat /\ y \in Nat /\ y > 0 /\ s \in Int /\ t \in Int
    BY DEF AbsOf, SignOf
  <2> HIDE DEF x, y, s, t
  <2>2. x \div y \in Int
    BY <2>1
  <2>3. s * t * (x \div y) \in Int
    BY <2>1, <2>2
  <2> QED BY <2>3 DEF TruncDiv, x, y, s, t
<1>7. b # 0 => TruncDiv(a, b) \in Int /\ TruncMod(a, b) \in Int
  <2> SUFFICES ASSUME b # 0 PROVE TruncDiv(a, b) \in Int /\ TruncMod(a, b) \in Int
    OBVIOUS
  <2> DEFINE d == TruncDiv(a, b)
  <2>1. d \in Int
    BY <1>6
  <2> HIDE DEF d
  <2>2. a - b * d \in Int
    BY <2>1
  <2> QED BY <2>1, <2>2 DEF TruncMod, d
<1>8. kind \in BitKindsOf => Wrap64(BitSum(kind, a, b)) \in Int
  BY BitSumIsInt, WrappedIsInt
<1>9. \A q : Truth(q) \in Int
  BY DEF Truth
<1>10. kind \in {"Div", "Mod"} => b # 0
  BY DEF Traps
<1>11. Bitwise2(kind, a, b) = Wrap64(BitSum(kind, a, b))
  BY DEF Bitwise2, BitSum
<1>12. /\ kind = "Add" => r = Wrap64(a + b)
       /\ kind = "Sub" => r = Wrap64(a - b)
       /\ kind = "Mul" => r = Wrap64(a * b)
       /\ kind = "Div" => r = TruncDiv(a, b)
       /\ kind = "Mod" => r = TruncMod(a, b)
       /\ kind \in BitKindsOf => r = Bitwise2(kind, a, b)
       /\ kind = "Shl" => r = Wrap64(a * p)
       /\ kind = "Shr" => r = Wrap64(Unsigned(LongBits, a) \div p)
       /\ kind = "Sar" => r = a \div p
       /\ kind \in {"Eq", "Ne", "Lt", "Gt", "Lte", "Gte"} => \E q : r = Truth(q)
  BY Zenon DEF Arith, BitKindsOf, p, count
<1> HIDE DEF r
<1>13. kind \in {"Add", "Sub", "Mul"} => r \in Int
  BY ONLY <1>3, <1>12
<1>14. kind \in {"Div", "Mod"} => r \in Int
  BY ONLY <1>7, <1>10, <1>12
<1>15. kind \in BitKindsOf => r \in Int
  BY ONLY <1>8, <1>11, <1>12
<1>16. kind \in {"Shl", "Shr", "Sar"} => r \in Int
  BY ONLY <1>4, <1>5, <1>12
<1>17. kind \in {"Eq", "Ne", "Lt", "Gt", "Lte", "Gte"} => r \in Int
  BY ONLY <1>9, <1>12
<1>18. r \in Int
  BY ONLY <1>13, <1>14, <1>15, <1>16, <1>17, kind \in BinaryKinds DEF BinaryKinds, BitKindsOf
<1> QED BY <1>18 DEF r

LEMMA ArithCommutes ==
  ASSUME NEW kind \in CommutativeKinds, NEW a \in Int, NEW b \in Int
  PROVE  Arith(kind, a, b) = Arith(kind, b, a)
<1>1. a + b = b + a /\ a * b = b * a
  OBVIOUS
<1>2. /\ kind = "Add" => Arith(kind, a, b) = Wrap64(a + b) /\ Arith(kind, b, a) = Wrap64(b + a)
      /\ kind = "Mul" => Arith(kind, a, b) = Wrap64(a * b) /\ Arith(kind, b, a) = Wrap64(b * a)
      /\ kind \in BitKindsOf => /\ Arith(kind, a, b) = Bitwise2(kind, a, b)
                                /\ Arith(kind, b, a) = Bitwise2(kind, b, a)
      /\ kind = "Eq" => Arith(kind, a, b) = Truth(a = b) /\ Arith(kind, b, a) = Truth(b = a)
      /\ kind = "Ne" => Arith(kind, a, b) = Truth(a # b) /\ Arith(kind, b, a) = Truth(b # a)
  BY Zenon DEF Arith, BitKindsOf
<1>3. kind \in BitKindsOf => Bitwise2(kind, a, b) = Bitwise2(kind, b, a)
  <2>1. kind \in BitKindsOf => BitSum(kind, a, b) = BitSum(kind, b, a)
    BY BitSumIsInt
  <2>2. Bitwise2(kind, a, b) = Wrap64(BitSum(kind, a, b)) /\ Bitwise2(kind, b, a) = Wrap64(BitSum(kind, b, a))
    BY DEF Bitwise2, BitSum
  <2> QED BY <2>1, <2>2
<1>4. Truth(a = b) = Truth(b = a) /\ Truth(a # b) = Truth(b # a)
  BY DEF Truth
<1> QED BY <1>1, <1>2, <1>3, <1>4 DEF CommutativeKinds, BitKindsOf

-----------------------------------------------------------------------------
(* What a graph without ways back computes: each node its value from those of   *)
(* its operands, and each observable effect what others see, in the order of    *)
(* the nodes.                                                                   *)

GivenKinds == {"Phi"} \cup ObservableKinds \cup UnknownKinds

(* A node that traps has no value, for which 0 stands.                          *)
NodeValue(kind, val, e, in) ==
  IF kind \in ConstKinds THEN val
  ELSE IF kind \in GivenKinds THEN e
  ELSE IF kind \in BinaryKinds
    THEN IF Traps(kind, in[1], in[2]) THEN 0 ELSE Arith(kind, in[1], in[2])
  ELSE IF kind = "Neg" THEN Wrap64(-in[1])
  ELSE IF kind = "ConvI4" THEN Wrap32(in[1])
  ELSE IF kind = "ConvI8" THEN in[1]
  ELSE 0

Reads(g, V, id) == [k \in DOMAIN g[id].in |-> V[g[id].in[k]]]

EndValue(kind, in) ==
  IF kind = "Return" THEN <<"value", in[1]>>
  ELSE IF kind = "Throw" THEN <<"thrown", in[1]>> ELSE <<"trap">>

EndKinds == {"Return", "Throw"}
Leaves(kind, in) == kind \in EndKinds \/ Traps(kind, in[1], in[2])
LocalKinds == {"LdLoc", "StLoc"}
Witnessed(kind, in) == <<Observed(kind), in>>

LEMMA KindsOfSteps ==
  ASSUME NEW kind
  PROVE  /\ kind \in EndKinds \cup {"If"} =>
              kind \notin ConstKinds \cup GivenKinds \cup BinaryKinds \cup ObservableKinds
         /\ kind \in BinaryKinds => kind \notin ConstKinds \cup GivenKinds \cup ObservableKinds \cup UnknownKinds
         /\ kind \in ObservableKinds => kind \notin ConstKinds \cup BinaryKinds
              \cup {"LdNull", "Phi", "Neg", "ConvI4", "ConvI8", "LdLoc", "StLoc", "If", "Jump", "Return", "Throw"}
         /\ kind \in UnknownKinds => kind \notin ConstKinds \cup BinaryKinds
              \cup {"LdNull", "Phi", "Neg", "ConvI4", "ConvI8", "LdLoc", "StLoc", "If", "Jump", "Return", "Throw"}
         /\ kind \in ConstKinds \cup {"LdNull", "Phi", "Neg", "ConvI4", "ConvI8"} =>
              kind \notin BinaryKinds \cup ObservableKinds \cup UnknownKinds
         /\ kind \in {"LdNull", "Neg", "ConvI4", "ConvI8"} => kind \notin ConstKinds \cup GivenKinds
         /\ kind \in {"If", "Return", "Throw"} => kind \notin UnknownKinds
         /\ kind \in {"Div", "Mod"} => kind \in BinaryKinds
BY DEF EndKinds, ConstKinds, GivenKinds, BinaryKinds, ObservableKinds, UnknownKinds, EffectKinds,
       LeavingKinds, CheckedConversions

(* A step of the machine by the kind of the node.                               *)
StepByKind(g, env, s, layout, id) ==
  LET kd == g[id].kind
      ins == [k \in DOMAIN g[id].in |-> s.vals[g[id].in[k]]]
      step == MachineStep(g, layout, env, s)
      known == ConstKinds \cup {"LdNull", "Phi", "Neg", "ConvI4", "ConvI8", "If", "Return", "Throw"}
               \cup BinaryKinds \cup ObservableKinds \cup UnknownKinds
  IN  /\ kd \in ConstKinds => step = Computed(s, id, g[id].val)
      /\ kd = "LdNull" => step = Computed(s, id, 0)
      /\ kd = "Phi" => step = Computed(s, id, env[id])
      /\ kd \in BinaryKinds /\ ~Traps(kd, ins[1], ins[2])
         => step = Computed(s, id, Arith(kd, ins[1], ins[2]))
      /\ kd \in BinaryKinds /\ Traps(kd, ins[1], ins[2]) => step = Ended(s, <<"trap">>)
      /\ kd = "Neg" => step = Computed(s, id, Wrap64(-ins[1]))
      /\ kd = "ConvI4" => step = Computed(s, id, Wrap32(ins[1]))
      /\ kd = "ConvI8" => step = Computed(s, id, ins[1])
      /\ kd = "If" => step = Moved(layout, s, BranchTarget(g, id, ins[1]))
      /\ kd = "Return" => step = Ended(s, <<"value", ins[1]>>)
      /\ kd = "Throw" => step = Ended(s, <<"thrown", ins[1]>>)
      /\ kd \in ObservableKinds => step = Shown(s, id, env[id], Witnessed(kd, ins))
      /\ kd \in UnknownKinds => step = Computed(s, id, env[id])
      /\ kd \notin known => step = Passed(s, id)

LEMMA StepOfKind ==
  ASSUME NEW g, NEW env, NEW s, NEW layout, s.result = <<"running">>, ~(s.pos > Len(layout)),
         NEW id, id = layout[s.pos], g[id].kind \notin LocalKinds \cup {"Jump"}
  PROVE  StepByKind(g, env, s, layout, id)
<1> DEFINE step == MachineStep(g, layout, env, s)
           val == g[id].val
           e == env[id]
           kd == g[id].kind
           ins == [k \in DOMAIN g[id].in |-> s.vals[g[id].in[k]]]
<1>k. /\ kd \in EndKinds \cup {"If"} =>
              kd \notin ConstKinds \cup GivenKinds \cup BinaryKinds \cup ObservableKinds
      /\ kd \in BinaryKinds => kd \notin ConstKinds \cup GivenKinds \cup ObservableKinds \cup UnknownKinds
      /\ kd \in ObservableKinds => kd \notin ConstKinds \cup BinaryKinds
              \cup {"LdNull", "Phi", "Neg", "ConvI4", "ConvI8", "LdLoc", "StLoc", "If", "Jump", "Return", "Throw"}
      /\ kd \in UnknownKinds => kd \notin ConstKinds \cup BinaryKinds
              \cup {"LdNull", "Phi", "Neg", "ConvI4", "ConvI8", "LdLoc", "StLoc", "If", "Jump", "Return", "Throw"}
      /\ kd \in ConstKinds \cup {"LdNull", "Phi", "Neg", "ConvI4", "ConvI8"} =>
              kd \notin BinaryKinds \cup ObservableKinds \cup UnknownKinds
      /\ kd \in {"LdNull", "Neg", "ConvI4", "ConvI8"} => kd \notin ConstKinds \cup GivenKinds
      /\ kd \in {"If", "Return", "Throw"} => kd \notin UnknownKinds
      /\ kd \in {"Div", "Mod"} => kd \in BinaryKinds
  BY KindsOfSteps
<1>1. ASSUME kd \in ConstKinds PROVE step = Computed(s, id, val)
  <2>1. /\ g[id].kind \in {"ConstInt", "ConstFloat"}
        /\ g[id].kind \notin BinaryKinds /\ g[id].kind \notin ObservableKinds /\ g[id].kind \notin UnknownKinds
    BY <1>k, <1>1 DEF ConstKinds
  <2> QED BY <2>1, Zenon DEF MachineStep
<1>2. ASSUME kd = "LdNull" PROVE step = Computed(s, id, 0)
  BY <1>k, <1>2, Zenon DEF MachineStep
<1>3. ASSUME kd = "Phi" PROVE step = Computed(s, id, e)
  BY <1>k, <1>3, Zenon DEF MachineStep
<1>4. ASSUME kd \in BinaryKinds, ~Traps(kd, ins[1], ins[2])
      PROVE  step = Computed(s, id, Arith(kd, ins[1], ins[2]))
  <2>1. g[id].kind \in BinaryKinds /\ g[id].kind \notin ObservableKinds /\ g[id].kind \notin UnknownKinds
        /\ g[id].kind \notin
          {"ConstInt", "ConstFloat", "LdNull", "Phi", "Neg", "ConvI4", "ConvI8", "LdLoc", "StLoc", "If", "Jump",
           "Return", "Throw"}
    BY <1>k, <1>4 DEF ConstKinds, GivenKinds, EndKinds, LocalKinds
  <2> QED BY <1>4, <2>1, Zenon DEF MachineStep
<1>5. ASSUME kd \in BinaryKinds, Traps(kd, ins[1], ins[2]) PROVE step = Ended(s, <<"trap">>)
  <2>1. g[id].kind \in BinaryKinds /\ g[id].kind \notin ObservableKinds /\ g[id].kind \notin UnknownKinds
        /\ g[id].kind \notin
          {"ConstInt", "ConstFloat", "LdNull", "Phi", "Neg", "ConvI4", "ConvI8", "LdLoc", "StLoc", "If", "Jump",
           "Return", "Throw"}
    BY <1>k, <1>5 DEF ConstKinds, GivenKinds, EndKinds, LocalKinds
  <2> QED BY <1>5, <2>1, Zenon DEF MachineStep
<1>6. ASSUME kd = "Neg" PROVE step = Computed(s, id, Wrap64(-ins[1]))
  BY <1>k, <1>6, Zenon DEF MachineStep
<1>7. ASSUME kd = "ConvI4" PROVE step = Computed(s, id, Wrap32(ins[1]))
  BY <1>k, <1>7, Zenon DEF MachineStep
<1>8. ASSUME kd = "ConvI8" PROVE step = Computed(s, id, ins[1])
  BY <1>k, <1>8, Zenon DEF MachineStep
<1>9. ASSUME kd = "If" PROVE step = Moved(layout, s, BranchTarget(g, id, ins[1]))
  BY <1>k, <1>9, Zenon DEF MachineStep
<1>10. ASSUME kd = "Return" PROVE step = Ended(s, <<"value", ins[1]>>)
  BY <1>k, <1>10, Zenon DEF MachineStep, EndKinds
<1>11. ASSUME kd = "Throw" PROVE step = Ended(s, <<"thrown", ins[1]>>)
  BY <1>k, <1>11, Zenon DEF MachineStep, EndKinds
<1>12. ASSUME kd \in ObservableKinds PROVE step = Shown(s, id, e, Witnessed(kd, ins))
  <2>1. g[id].kind \in ObservableKinds /\ g[id].kind \notin BinaryKinds /\ g[id].kind \notin UnknownKinds /\ g[id].kind \notin
          {"ConstInt", "ConstFloat", "LdNull", "Phi", "Neg", "ConvI4", "ConvI8", "LdLoc", "StLoc", "If", "Jump",
           "Return", "Throw"}
    BY <1>k, <1>12 DEF ConstKinds, UnknownKinds
  <2> QED BY <2>1, Zenon DEF MachineStep, Witnessed
<1>13. ASSUME kd \in UnknownKinds PROVE step = Computed(s, id, e)
  <2>1. g[id].kind \in UnknownKinds /\ g[id].kind \notin BinaryKinds /\ g[id].kind \notin ObservableKinds
        /\ g[id].kind \notin
          {"ConstInt", "ConstFloat", "LdNull", "Phi", "Neg", "ConvI4", "ConvI8", "LdLoc", "StLoc", "If", "Jump",
           "Return", "Throw"}
    BY <1>k, <1>13 DEF ConstKinds, UnknownKinds
  <2> QED BY <2>1, Zenon DEF MachineStep
<1> DEFINE known == ConstKinds \cup {"LdNull", "Phi", "Neg", "ConvI4", "ConvI8", "If", "Return", "Throw"}
                    \cup BinaryKinds \cup ObservableKinds \cup UnknownKinds
<1>14. ASSUME kd \notin known PROVE step = Passed(s, id)
  <2>1. /\ g[id].kind \notin UnknownKinds /\ g[id].kind \notin BinaryKinds
        /\ g[id].kind \notin ObservableKinds
        /\ g[id].kind \notin {"ConstInt", "ConstFloat"} /\ g[id].kind # "LdNull" /\ g[id].kind # "Phi"
        /\ g[id].kind # "Neg" /\ g[id].kind # "ConvI4" /\ g[id].kind # "ConvI8" /\ g[id].kind # "LdLoc"
        /\ g[id].kind # "StLoc" /\ g[id].kind # "If" /\ g[id].kind # "Jump" /\ g[id].kind # "Return"
        /\ g[id].kind # "Throw"
    BY <1>14 DEF ConstKinds, LocalKinds
  <2> QED BY <2>1, Zenon DEF MachineStep
<1> HIDE DEF step, val, e, ins, kd
<1>15. /\ kd \in ConstKinds => step = Computed(s, id, val)
       /\ kd = "LdNull" => step = Computed(s, id, 0)
       /\ kd = "Phi" => step = Computed(s, id, e)
       /\ kd \in BinaryKinds /\ ~Traps(kd, ins[1], ins[2])
          => step = Computed(s, id, Arith(kd, ins[1], ins[2]))
       /\ kd \in BinaryKinds /\ Traps(kd, ins[1], ins[2]) => step = Ended(s, <<"trap">>)
       /\ kd = "Neg" => step = Computed(s, id, Wrap64(-ins[1]))
       /\ kd = "ConvI4" => step = Computed(s, id, Wrap32(ins[1]))
       /\ kd = "ConvI8" => step = Computed(s, id, ins[1])
       /\ kd = "If" => step = Moved(layout, s, BranchTarget(g, id, ins[1]))
       /\ kd = "Return" => step = Ended(s, <<"value", ins[1]>>)
       /\ kd = "Throw" => step = Ended(s, <<"thrown", ins[1]>>)
       /\ kd \in ObservableKinds => step = Shown(s, id, e, Witnessed(kd, ins))
       /\ kd \in UnknownKinds => step = Computed(s, id, e)
       /\ kd \notin known => step = Passed(s, id)
  BY <1>1, <1>2, <1>3, <1>4, <1>5, <1>6, <1>7, <1>8, <1>9, <1>10, <1>11, <1>12, <1>13, <1>14
<1> QED BY <1>15 DEF StepByKind, step, val, e, ins, kd

LEMMA NodeStep ==
  ASSUME NEW g, NEW env, NEW s, NEW layout, s.result = <<"running">>, ~(s.pos > Len(layout)),
         NEW id, id = layout[s.pos], g[id].kind \notin LocalKinds \cup {"Jump"}
  PROVE  LET kind == g[id].kind
             in == InputsAt(g, s, id)
             next == MachineStep(g, layout, env, s)
             v == NodeValue(kind, g[id].val, env[id], in)
         IN  /\ Leaves(kind, in) => next = Ended(s, EndValue(kind, in))
             /\ kind = "If" => next = Moved(layout, s, BranchTarget(g, id, in[1]))
             /\ kind \in ObservableKinds => next = Shown(s, id, v, Witnessed(kind, in))
             /\ ~Leaves(kind, in) /\ kind # "If" /\ kind \notin ObservableKinds =>
                  next = Computed(s, id, v) \/ (v = 0 /\ next = Passed(s, id))
<1> DEFINE ins == [k \in DOMAIN g[id].in |-> s.vals[g[id].in[k]]]
           kind == g[id].kind
           in == InputsAt(g, s, id)
           next == MachineStep(g, layout, env, s)
           v == NodeValue(kind, g[id].val, env[id], in)
<1>0. in = ins
  BY DEF InputsAt
<1>k. /\ kind \in EndKinds \cup {"If"} =>
              kind \notin ConstKinds \cup GivenKinds \cup BinaryKinds \cup ObservableKinds
      /\ kind \in BinaryKinds => kind \notin ConstKinds \cup GivenKinds \cup ObservableKinds \cup UnknownKinds
      /\ kind \in ObservableKinds => kind \notin ConstKinds \cup BinaryKinds
              \cup {"LdNull", "Phi", "Neg", "ConvI4", "ConvI8", "LdLoc", "StLoc", "If", "Jump", "Return", "Throw"}
      /\ kind \in UnknownKinds => kind \notin ConstKinds \cup BinaryKinds
              \cup {"LdNull", "Phi", "Neg", "ConvI4", "ConvI8", "LdLoc", "StLoc", "If", "Jump", "Return", "Throw"}
      /\ kind \in ConstKinds \cup {"LdNull", "Phi", "Neg", "ConvI4", "ConvI8"} =>
              kind \notin BinaryKinds \cup ObservableKinds \cup UnknownKinds
      /\ kind \in {"LdNull", "Neg", "ConvI4", "ConvI8"} => kind \notin ConstKinds \cup GivenKinds
      /\ kind \in {"If", "Return", "Throw"} => kind \notin UnknownKinds
      /\ kind \in {"Div", "Mod"} => kind \in BinaryKinds
  BY KindsOfSteps
<1> DEFINE step == MachineStep(g, layout, env, s)
           val == g[id].val
           e == env[id]
           known == ConstKinds \cup {"LdNull", "Phi", "Neg", "ConvI4", "ConvI8", "If", "Return", "Throw"}
                    \cup BinaryKinds \cup ObservableKinds \cup UnknownKinds
<1>r. /\ kind \in ConstKinds => step = Computed(s, id, val)
      /\ kind = "LdNull" => step = Computed(s, id, 0)
      /\ kind = "Phi" => step = Computed(s, id, e)
      /\ kind \in BinaryKinds /\ ~Traps(kind, ins[1], ins[2])
         => step = Computed(s, id, Arith(kind, ins[1], ins[2]))
      /\ kind \in BinaryKinds /\ Traps(kind, ins[1], ins[2]) => step = Ended(s, <<"trap">>)
      /\ kind = "Neg" => step = Computed(s, id, Wrap64(-ins[1]))
      /\ kind = "ConvI4" => step = Computed(s, id, Wrap32(ins[1]))
      /\ kind = "ConvI8" => step = Computed(s, id, ins[1])
      /\ kind = "If" => step = Moved(layout, s, BranchTarget(g, id, ins[1]))
      /\ kind = "Return" => step = Ended(s, <<"value", ins[1]>>)
      /\ kind = "Throw" => step = Ended(s, <<"thrown", ins[1]>>)
      /\ kind \in ObservableKinds => step = Shown(s, id, e, Witnessed(kind, ins))
      /\ kind \in UnknownKinds => step = Computed(s, id, e)
      /\ kind \notin known => step = Passed(s, id)
  <2>1. StepByKind(g, env, s, layout, id)
    BY StepOfKind
  <2> QED BY <2>1, Zenon DEF StepByKind
<1>15. /\ kind \in ConstKinds => v = val
       /\ kind \in GivenKinds => v = e
       /\ kind \in BinaryKinds /\ ~Traps(kind, ins[1], ins[2]) => v = Arith(kind, ins[1], ins[2])
       /\ kind = "Neg" => v = Wrap64(-ins[1])
       /\ kind = "ConvI4" => v = Wrap32(ins[1])
       /\ kind = "ConvI8" => v = ins[1]
       /\ kind = "LdNull" => v = 0
       /\ kind \notin known => v = 0
  <2>1. kind \in GivenKinds => kind \notin ConstKinds
    BY <1>k DEF GivenKinds, ConstKinds
  <2>2. kind \in {"Neg", "ConvI4", "ConvI8", "LdNull"} => kind \notin ConstKinds \cup GivenKinds \cup BinaryKinds
    BY <1>k
  <2>3. kind \notin known => kind \notin ConstKinds \cup GivenKinds \cup BinaryKinds
                             /\ kind # "Neg" /\ kind # "ConvI4" /\ kind # "ConvI8"
    BY DEF GivenKinds
  <2> HIDE DEF ins
  <2>4. kind \in ConstKinds => v = val
    BY Zenon DEF NodeValue
  <2>5. kind \in GivenKinds => v = e
    BY <2>1, Zenon DEF NodeValue
  <2>6. kind \in BinaryKinds /\ ~Traps(kind, ins[1], ins[2]) => v = Arith(kind, ins[1], ins[2])
    <3>1. kind \in BinaryKinds => kind \notin ConstKinds /\ kind \notin GivenKinds
      BY <1>k
    <3> QED BY <1>0, <3>1, Zenon DEF NodeValue
  <2>7. /\ kind = "Neg" => v = Wrap64(-ins[1])
        /\ kind = "ConvI4" => v = Wrap32(ins[1])
        /\ kind = "ConvI8" => v = ins[1]
        /\ kind = "LdNull" => v = 0
    BY <1>0, <2>2 DEF NodeValue
  <2>8. kind \notin known => v = 0
    BY <2>3 DEF NodeValue
  <2> QED BY <2>4, <2>5, <2>6, <2>7, <2>8
<1> HIDE DEF step, val, e, ins, kind, in, next, v
<1>16. ASSUME Leaves(kind, in) PROVE next = Ended(s, EndValue(kind, in))
  <2>1. CASE kind = "Return"
    BY <1>0, <1>r, <2>1 DEF EndValue, step, next
  <2>2. CASE kind = "Throw"
    BY <1>0, <1>r, <2>2 DEF EndValue, step, next
  <2>3. CASE kind \notin EndKinds
    <3>1. Traps(kind, ins[1], ins[2]) /\ kind \in BinaryKinds
      BY <1>0, <1>k, <1>16, <2>3 DEF Leaves, Traps
    <3>2. EndValue(kind, in) = <<"trap">>
      BY <2>3 DEF EndValue, EndKinds
    <3> QED BY <1>r, <3>1, <3>2 DEF step, next
  <2> QED BY <2>1, <2>2, <2>3 DEF EndKinds
<1>17. ASSUME kind \in ObservableKinds PROVE next = Shown(s, id, v, Witnessed(kind, in))
  BY <1>0, <1>r, <1>15, <1>17 DEF step, next, GivenKinds
<1>18. ASSUME ~Leaves(kind, in), kind # "If", kind \notin ObservableKinds
       PROVE  next = Computed(s, id, v) \/ (v = 0 /\ next = Passed(s, id))
  <2>1. kind \notin EndKinds /\ ~Traps(kind, ins[1], ins[2])
    BY <1>0, <1>18 DEF Leaves
  <2>2. CASE kind \notin known
    BY <1>r, <1>15, <2>2 DEF step, next
  <2>3. CASE kind \in ConstKinds
    BY <1>r, <1>15, <2>3 DEF step, next
  <2>4. CASE kind \in BinaryKinds
    BY <1>r, <1>15, <2>1, <2>4 DEF step, next
  <2>5. CASE kind \in UnknownKinds
    BY <1>r, <1>15, <2>5 DEF step, next, GivenKinds
  <2>6. CASE kind \in {"LdNull", "Phi", "Neg", "ConvI4", "ConvI8"}
    <3>1. kind = "Phi" => v = e
      BY <1>15 DEF GivenKinds
    <3>2. step = Computed(s, id, v)
      BY ONLY <1>r, <1>r, <1>r, <1>r, <1>r, <1>15, <2>6, <3>1
    <3> QED BY <3>2 DEF step, next
  <2> QED BY <1>18, <2>1, <2>2, <2>3, <2>4, <2>5, <2>6 DEF EndKinds
<1>19. kind = "If" => next = Moved(layout, s, BranchTarget(g, id, in[1]))
  BY <1>0, <1>r DEF step, next
<1> QED BY <1>16, <1>17, <1>18, <1>19 DEF kind, in, next, v

-----------------------------------------------------------------------------
(* A run of a graph without ways back, up to the first node that leaves.        *)

(* L has the live nodes up to f, in order.                                      *)
Reached(g, L, f) ==
  /\ Len(L) \in Nat /\ DOMAIN L = 1..Len(L)
  /\ \A k \in 1..Len(L) : L[k] \in Live(g)
  /\ \A x \in Live(g) : x <= f => \E k \in 1..Len(L) : L[k] = x
  /\ \A i, j \in 1..Len(L) : i < j => L[i] < L[j]

LEMMA ReachedUpTo ==
  ASSUME NEW g, Forward(g), NEW f \in Live(g),
         \A id \in Live(g) : id < f => g[id].kind \notin EndKinds
  PROVE  Reached(g, Layout(g), f)
<1> DEFINE bs == BlockStructure(g)
           L == Layout(g)
<1>1. Len(g) \in Nat /\ Live(g) # {}
  BY GraphFacts DEF Forward
<1>2. LeadersAt(g, bs) /\ Live(g) \subseteq 1..Len(g)
  BY <1>1, LeadersFound DEF Forward
<1>3. PICK B : Line(g, bs, B)
  <2> HIDE DEF bs
  <2> QED BY <1>2, LineOfBlocks
<1> DEFINE S == {id \in Live(g) : BlockOf(g, bs, id) <= B}
<1>4. Enumerates(L, S)
  BY <1>1, <1>2, <1>3, LayoutOfLine
<1> HIDE DEF bs, L
<1>5. Len(L) \in Nat /\ DOMAIN L = 1..Len(L) /\ \A k \in 1..Len(L) : L[k] \in S
  <2>1. L \in Seq(S)
    BY <1>4 DEF Enumerates
  <2> HIDE DEF S
  <2> QED BY <2>1, ElementOfSeq, LenProperties
<1>6. B \in Nat /\ Len(bs) \in Nat /\ B < Len(bs) /\ B + 1 \in 1..Len(bs) /\ (B + 1) - 1 = B
  BY <1>3 DEF Line
<1>7. ASSUME NEW x \in Live(g), x <= f PROVE x \in S
  <2>1. BlockOf(g, bs, x) \in 0..Len(bs) - 1
    BY <1>2, BlocksAscend
  <2>2. CASE B + 1 = Len(bs)
    BY <1>6, <2>1, <2>2
  <2>3. CASE g[LastOf(g, bs, B)].kind \in Enders
    <3> DEFINE last == LastOf(g, bs, B)
    <3>1. InBlock(g, bs, last, B + 1)
      <4>1. InBlock(g, bs, LastOf(g, bs, (B + 1) - 1), B + 1)
        BY <1>1, <1>2, <1>6, LastFound
      <4> QED BY <1>6, <4>1
    <3> HIDE DEF last
    <3>2. last \in Live(g) /\ BlockOf(g, bs, last) = B
      BY <1>6, <3>1 DEF InBlock
    <3>3. g[last].kind \in EndKinds
      <4>1. ForwardNode(g, last)
        BY <1>2, <3>2 DEF Forward
      <4> QED BY <2>3, <4>1 DEF ForwardNode, Enders, EndKinds, last
    <3>4. f <= last
      BY <1>2, <3>2, <3>3
    <3>5. x <= last
      BY <1>2, <1>7, <3>2, <3>4
    <3>6. BlockOf(g, bs, x) <= BlockOf(g, bs, last)
      BY <1>2, <3>2, <3>5, BlocksAscend
    <3> QED BY <3>2, <3>6
  <2> QED BY <1>3, <2>2, <2>3 DEF Line
<1>8. \A x \in Live(g) : x <= f => \E k \in 1..Len(L) : L[k] = x
  <2> HIDE DEF S
  <2> QED BY <1>4, <1>7 DEF Enumerates
<1>9. \A k \in 1..Len(L) : L[k] \in Live(g)
  BY <1>5
<1>10. \A i, j \in 1..Len(L) : i < j => L[i] < L[j]
  BY <1>4 DEF Enumerates
<1> QED BY <1>5, <1>8, <1>9, <1>10 DEF Reached, L

(* The node that follows another one.                                           *)
LEMMA NextLaid ==
  ASSUME NEW g, Live(g) \subseteq 1..Len(g), Len(g) \in Nat, NEW L, NEW f \in Live(g), Reached(g, L, f),
         NEW p \in 1..Len(L), L[p] < f
  PROVE  /\ p + 1 \in 1..Len(L) /\ L[p + 1] \in Live(g) /\ L[p] < L[p + 1] /\ L[p + 1] <= f
         /\ \A x \in Live(g) : L[p] < x => L[p + 1] <= x
<1> DEFINE m == p + 1
<1>1. PICK k \in 1..Len(L) : L[k] = f
  BY DEF Reached
<1>2. Len(L) \in Nat /\ \A i \in 1..Len(L) : L[i] \in 1..Len(g)
  BY DEF Reached
<1>3. p < k
  <2>1. k < p => L[k] < L[p]
    BY DEF Reached
  <2>2. L[p] \in Nat /\ L[k] \in Nat
    BY <1>2
  <2> QED BY <1>1, <1>2, <2>1, <2>2
<1>4. m \in 1..Len(L) /\ p < m
  BY <1>2, <1>3
<1>5. L[m] \in Live(g) /\ L[p] < L[m]
  BY <1>4 DEF Reached
<1>6. \A i \in 1..Len(L) : p < i => L[m] <= L[i]
  <2> SUFFICES ASSUME NEW i \in 1..Len(L), p < i PROVE L[m] <= L[i]
    OBVIOUS
  <2>1. m < i => L[m] < L[i]
    BY <1>4 DEF Reached
  <2>2. i = m \/ m < i
    BY <1>2
  <2>3. L[m] \in Nat /\ L[i] \in Nat
    BY <1>2, <1>4
  <2> HIDE DEF m
  <2> QED BY <2>1, <2>2, <2>3
<1> HIDE DEF m
<1>7. L[m] <= f
  BY <1>1, <1>3, <1>6
<1>8. ASSUME NEW x \in Live(g), L[p] < x PROVE L[m] <= x
  <2>1. CASE x <= f
    <3>1. PICK i \in 1..Len(L) : L[i] = x
      BY <2>1 DEF Reached
    <3>2. i < p => L[i] < L[p]
      BY DEF Reached
    <3>3. p < i
      <4>1. L[p] \in Nat /\ x \in Nat
        BY <1>2
      <4> QED BY <1>2, <1>8, <3>1, <3>2, <4>1
    <3> QED BY <1>6, <3>1, <3>3
  <2>2. CASE ~(x <= f)
    <3>1. x \in Nat /\ f \in Nat /\ L[m] \in Nat
      BY <1>2, <1>4
    <3> QED BY <1>7, <2>2, <3>1
  <2> QED BY <2>1, <2>2
<1> QED BY <1>4, <1>5, <1>7, <1>8 DEF m

(* Over nodes that show nothing, what was seen stays.                           *)
LEMMA NothingSeen ==
  ASSUME NEW a \in Nat, NEW b \in Nat, a <= b, NEW O,
         \A x \in a + 1..b : O[x] = O[x - 1]
  PROVE  O[b] = O[a]
<1> DEFINE n == b - a
           T == {k \in 0..n : O[a + k] = O[a]}
<1>1. n \in Nat /\ a + n = b /\ a + 0 = a /\ 0 \in 0..n /\ n \in 0..n
  OBVIOUS
<1>2. 0 \in T
  BY <1>1
<1>3. ASSUME NEW k \in 0..n - 1, k \in T PROVE k + 1 \in T
  <2>1. a + (k + 1) \in a + 1..b /\ (a + (k + 1)) - 1 = a + k /\ k + 1 \in 0..n
    BY <1>1
  <2>2. O[a + (k + 1)] = O[(a + (k + 1)) - 1]
    BY <2>1
  <2>3. O[a + (k + 1)] = O[a + k]
    BY <2>1, <2>2
  <2> QED BY <1>3, <2>1, <2>3
<1>4. 0..n \subseteq T
  <2> HIDE DEF T, n
  <2> QED BY <1>1, <1>2, <1>3, PrefixInduction
<1>5. n \in T
  <2> HIDE DEF T, n
  <2> QED BY <1>1, <1>4
<1> HIDE DEF n
<1> QED BY <1>1, <1>5

(* V gives each live node its value, and O, by node, what is seen up to it.     *)
Plain(g, env, V, O, id) ==
  LET kind == g[id].kind
      in == Reads(g, V, id)
  IN  IF Dead(g, id) THEN O[id] = O[id - 1]
      ELSE /\ kind \notin LocalKinds \cup {"Jump"} /\ ~Leaves(kind, in)
           /\ V[id] = NodeValue(kind, g[id].val, env[id], in)
           /\ O[id] = IF kind \in ObservableKinds THEN Append(O[id - 1], Witnessed(kind, in)) ELSE O[id - 1]

(* The first node that leaves is f.                                             *)
Means(g, env, V, O, f) ==
  /\ Forward(g) /\ f \in Live(g) /\ Leaves(g[f].kind, Reads(g, V, f))
  /\ O[0] = <<>>
  /\ \A id \in 1..f - 1 : Plain(g, env, V, O, id)

IsState(s) ==
  s = [pos |-> s.pos, vals |-> s.vals, locals |-> s.locals, obs |-> s.obs, ran |-> s.ran,
       result |-> s.result]

(* The machine is about to run id.                                              *)
RunsAt(s, g, L, V, O, id) ==
  /\ IsState(s) /\ s.result = <<"running">>
  /\ s.pos \in 1..Len(L) /\ L[s.pos] = id
  /\ s.vals = [x \in Ids(g) |-> s.vals[x]]
  /\ \A x \in Ids(g) : s.vals[x] = IF x < id /\ ~Dead(g, x) THEN V[x] ELSE 0
  /\ s.obs = O[id - 1]

(* What a node leaves behind.                                                   *)
GoesTo(c, s, id, v, o) ==
  /\ IsState(c) /\ c.pos = s.pos + 1 /\ c.vals = [s.vals EXCEPT ![id] = v]
  /\ c.obs = o /\ c.result = s.result

LEMMA PassedGoes ==
  ASSUME NEW s, IsState(s), NEW id, s.vals[id] = 0, NEW c, c = Passed(s, id),
         NEW D, s.vals = [x \in D |-> s.vals[x]]
  PROVE  GoesTo(c, s, id, 0, s.obs)
<1>1. c = [pos |-> s.pos + 1, vals |-> s.vals, locals |-> s.locals, obs |-> s.obs,
           ran |-> s.ran \cup {id}, result |-> s.result]
  BY PassedFields DEF IsState
<1>2. s.vals = [s.vals EXCEPT ![id] = 0]
  <2> DEFINE w == s.vals
  <2>1. w = [x \in D |-> w[x]] /\ w[id] = 0
    OBVIOUS
  <2> HIDE DEF w
  <2>2. w = [w EXCEPT ![id] = 0]
    BY <2>1
  <2> QED BY <2>2 DEF w
<1> HIDE DEF IsState
<1>3. IsState(c)
  BY ONLY <1>1 DEF IsState
<1> QED BY <1>1, <1>2, <1>3 DEF GoesTo

LEMMA ComputedGoes ==
  ASSUME NEW s, IsState(s), NEW id, NEW v, NEW c, c = Computed(s, id, v)
  PROVE  GoesTo(c, s, id, v, s.obs)
<1>1. c = [pos |-> s.pos + 1, vals |-> [s.vals EXCEPT ![id] = v], locals |-> s.locals,
           obs |-> s.obs, ran |-> s.ran \cup {id}, result |-> s.result]
  BY ComputedFields DEF IsState
<1>2. IsState(c)
  BY ONLY <1>1 DEF IsState
<1> QED BY <1>1, <1>2 DEF GoesTo

LEMMA ShownGoes ==
  ASSUME NEW s, IsState(s), NEW id, NEW v, NEW what, NEW c, c = Shown(s, id, v, what)
  PROVE  GoesTo(c, s, id, v, Append(s.obs, what))
<1> DEFINE p == Computed(s, id, v)
<1>1. p = [pos |-> s.pos + 1, vals |-> [s.vals EXCEPT ![id] = v], locals |-> s.locals,
           obs |-> s.obs, ran |-> s.ran \cup {id}, result |-> s.result]
  BY ComputedFields DEF IsState
<1>2. c = [p EXCEPT !.obs = Append(@, what)]
  BY DEF Shown
<1> HIDE DEF p
<1>3. c = [pos |-> s.pos + 1, vals |-> [s.vals EXCEPT ![id] = v], locals |-> s.locals,
           obs |-> Append(s.obs, what), ran |-> s.ran \cup {id}, result |-> s.result]
  BY <1>1, <1>2
<1>4. IsState(c)
  BY ONLY <1>3 DEF IsState
<1> QED BY <1>3, <1>4 DEF GoesTo

LEMMA MovedFields ==
  ASSUME NEW s, IsState(s), NEW L, Len(L) \in Nat, DOMAIN L = 1..Len(L), NEW q \in 1..Len(L),
         \A p \in 1..Len(L) : L[p] = L[q] => p = q
  PROVE  LET c == Moved(L, s, {L[q]})
         IN  /\ IsState(c) /\ c.pos = q /\ c.vals = s.vals /\ c.obs = s.obs /\ c.result = s.result
<1> DEFINE at == {p \in DOMAIN L : L[p] \in {L[q]}}
           c == Moved(L, s, {L[q]})
<1>1. at = {q}
  OBVIOUS
<1>2. MaxOf(at) = q
  <2>1. at \subseteq 0..Len(L) /\ q \in at /\ \A x \in at : x <= q
    BY <1>1
  <2> HIDE DEF at
  <2> QED BY <2>1, MaxOfIs
<1>3. c = [s EXCEPT !.pos = q]
  <2>1. at # {}
    BY <1>1
  <2> QED BY <1>2, <2>1 DEF Moved
<1> HIDE DEF c
<1>4. s = [pos |-> s.pos, vals |-> s.vals, locals |-> s.locals, obs |-> s.obs, ran |-> s.ran,
           result |-> s.result]
  BY DEF IsState
<1>5. c = [pos |-> q, vals |-> s.vals, locals |-> s.locals, obs |-> s.obs, ran |-> s.ran,
           result |-> s.result]
  BY <1>3, <1>4
<1>6. IsState(c)
  BY ONLY <1>5 DEF IsState
<1> QED BY <1>5, <1>6 DEF c

LEMMA ReadsAt ==
  ASSUME NEW g, Forward(g), NEW V, NEW O, NEW L, NEW s, NEW id \in Live(g), RunsAt(s, g, L, V, O, id)
  PROVE  InputsAt(g, s, id) = Reads(g, V, id)
<1>1. Len(g) \in Nat /\ Ids(g) = 1..Len(g) /\ id \in 1..Len(g) /\ ~Dead(g, id)
  BY GraphFacts DEF Forward, Live
<1>2. ForwardNode(g, id)
  BY <1>1 DEF Forward
<1> DEFINE in == g[id].in
<1>3. in \in Seq(Nat) /\ \A k \in 1..Len(in) : Usable(g, in[k], id)
  BY <1>1, <1>2 DEF ForwardNode
<1>4. DOMAIN in = 1..Len(in)
  <2> HIDE DEF in
  <2> QED BY <1>3, LenProperties
<1>5. ASSUME NEW k \in DOMAIN in PROVE s.vals[in[k]] = V[in[k]]
  <2> HIDE DEF in
  <2>1. in[k] \in 1..id - 1 /\ ~Dead(g, in[k])
    BY <1>3, <1>4 DEF Usable
  <2>2. in[k] \in Ids(g) /\ in[k] < id
    BY <1>1, <2>1
  <2> QED BY <2>1, <2>2 DEF RunsAt
<1> QED BY <1>5 DEF InputsAt, Reads

(* A branch goes to one of its sides, which are the next two nodes.             *)
LEMMA BranchGoes ==
  ASSUME NEW g, Forward(g), NEW id \in Live(g), g[id].kind = "If", NEW cond
  PROVE  /\ id + 1 \in Live(g) /\ g[id + 1].kind = "IfTrue"
         /\ id + 2 \in Live(g) /\ g[id + 2].kind = "IfFalse"
         /\ BranchTarget(g, id, cond) = {IF cond # 0 THEN id + 1 ELSE id + 2}
<1>1. Len(g) \in Nat /\ Ids(g) = 1..Len(g) /\ id \in 1..Len(g) /\ ~Dead(g, id)
  BY GraphFacts DEF Forward, Live
<1>2. ForwardNode(g, id)
  BY <1>1 DEF Forward
<1>3. id + 2 <= Len(g) /\ g[id + 1].kind = "IfTrue" /\ g[id + 2].kind = "IfFalse"
  BY <1>2 DEF ForwardNode
<1>4. id + 1 \in 1..Len(g) /\ id + 2 \in 1..Len(g)
  BY <1>1, <1>3
<1>5. ForwardNode(g, id + 1) /\ ForwardNode(g, id + 2)
  BY <1>4 DEF Forward
<1>6. /\ ~Dead(g, id + 1) /\ g[id + 1].ctrl = (id + 1) - 1
      /\ ~Dead(g, id + 2) /\ g[id + 2].ctrl = (id + 2) - 2
  BY <1>3, <1>5 DEF ForwardNode
<1>7. id + 1 \in Live(g) /\ id + 2 \in Live(g) /\ g[id + 1].ctrl = id /\ g[id + 2].ctrl = id
  BY <1>1, <1>4, <1>6 DEF Live
<1> DEFINE side == IF cond # 0 THEN "IfTrue" ELSE "IfFalse"
           next == IF cond # 0 THEN id + 1 ELSE id + 2
           targets == {p \in Live(g) : g[p].kind = side /\ g[p].ctrl = id}
<1>8. targets = {next}
  <2>1. next \in targets
    BY <1>3, <1>7
  <2>2. ASSUME NEW p \in targets PROVE p = next
    <3>1. p \in 1..Len(g) /\ g[p].kind = side /\ g[p].ctrl = id
      BY <1>1 DEF Live
    <3>2. ForwardNode(g, p)
      BY <3>1 DEF Forward
    <3>3. (g[p].kind = "IfTrue" => g[p].ctrl = p - 1) /\ (g[p].kind = "IfFalse" => g[p].ctrl = p - 2)
      BY <3>2 DEF ForwardNode
    <3> QED BY <1>1, <3>1, <3>3
  <2> HIDE DEF targets, next
  <2> QED BY <2>1, <2>2
<1>9. MaxOf(targets) = next
  <2>1. targets \subseteq 0..Len(g) /\ next \in targets /\ \A x \in targets : x <= next
    <3>1. next \in 0..Len(g)
      BY <1>4
    <3> HIDE DEF targets, next
    <3> QED BY <1>1, <1>8, <3>1
  <2> HIDE DEF targets, next
  <2> QED BY <1>1, <2>1, MaxOfIs
<1>10. BranchTarget(g, id, cond) = IF targets = {} THEN {} ELSE {MaxOf(targets)}
  BY Zenon DEF BranchTarget
<1>11. targets # {}
  BY <1>8
<1> HIDE DEF targets
<1>12. BranchTarget(g, id, cond) = {next}
  BY <1>9, <1>10, <1>11
<1> QED BY <1>3, <1>7, <1>12

LEMMA LandsAt ==
  ASSUME NEW g, Len(g) \in Nat, NEW L, NEW V, NEW O, NEW s, NEW id \in Live(g),
         RunsAt(s, g, L, V, O, id), NEW c, GoesTo(c, s, id, V[id], O[id]),
         s.pos + 1 \in 1..Len(L), NEW y \in Live(g), y = L[s.pos + 1], id < y,
         \A x \in Live(g) : id < x => y <= x,
         \A x \in id + 1..y - 1 : Dead(g, x) => O[x] = O[x - 1]
  PROVE  RunsAt(c, g, L, V, O, y)
<1>1. Ids(g) = 1..Len(g) /\ Live(g) \subseteq 1..Len(g) /\ \A x \in Ids(g) : x \in Live(g) <=> ~Dead(g, x)
  BY DEF Live, Ids
<1>2. \A x \in id + 1..y - 1 : Dead(g, x)
  <2> SUFFICES ASSUME NEW x \in id + 1..y - 1 PROVE Dead(g, x)
    OBVIOUS
  <2>1. x \in 1..Len(g) /\ id < x /\ ~(y <= x)
    BY <1>1
  <2> QED BY <1>1, <2>1
<1>3. O[y - 1] = O[id]
  <2>1. id \in Nat /\ y - 1 \in Nat /\ id <= y - 1
    BY <1>1
  <2>2. \A x \in id + 1..y - 1 : O[x] = O[x - 1]
    BY <1>2
  <2> QED BY ONLY <2>1, <2>2, NothingSeen
<1> DEFINE w == s.vals
<1>4. w = [x \in Ids(g) |-> w[x]] /\ \A x \in Ids(g) : w[x] = IF x < id /\ ~Dead(g, x) THEN V[x] ELSE 0
  BY DEF RunsAt
<1>5. c.vals = [w EXCEPT ![id] = V[id]]
  BY DEF GoesTo
<1> HIDE DEF w
<1> DEFINE u == [w EXCEPT ![id] = V[id]]
<1>6. u = [x \in Ids(g) |-> u[x]]
  BY <1>4
<1>7. \A x \in Ids(g) : u[x] = IF x < y /\ ~Dead(g, x) THEN V[x] ELSE 0
  <2> SUFFICES ASSUME NEW x \in Ids(g) PROVE u[x] = IF x < y /\ ~Dead(g, x) THEN V[x] ELSE 0
    OBVIOUS
  <2>1. u[x] = IF x = id THEN V[id] ELSE w[x]
    BY <1>4
  <2>2. CASE x = id
    BY <1>1, <2>1, <2>2
  <2>3. CASE x < id
    BY <1>1, <1>4, <2>1, <2>3
  <2>4. CASE id < x /\ x < y
    <3>1. x \in id + 1..y - 1
      BY <1>1, <2>4
    <3> QED BY <1>1, <1>2, <1>4, <2>1, <2>4, <3>1
  <2>5. CASE y <= x
    BY <1>1, <1>4, <2>1, <2>5
  <2> QED BY <1>1, <2>2, <2>3, <2>4, <2>5
<1> HIDE DEF u
<1>8. c.pos = s.pos + 1 /\ c.vals = u /\ c.obs = O[id] /\ c.result = <<"running">> /\ IsState(c)
  BY <1>5 DEF GoesTo, RunsAt, u
<1> QED BY <1>3, <1>6, <1>7, <1>8 DEF RunsAt

(* One step leads on to a later node, but not past the one that leaves.         *)
LEMMA StepLands ==
  ASSUME NEW g, NEW env, NEW V, NEW O, NEW f, Means(g, env, V, O, f), NEW L, Reached(g, L, f),
         NEW s, NEW id \in Live(g), id < f, RunsAt(s, g, L, V, O, id)
  PROVE  \E y \in Live(g) : id < y /\ y <= f /\ RunsAt(MachineStep(g, L, env, s), g, L, V, O, y)
<1> DEFINE kind == g[id].kind
           in == Reads(g, V, id)
           next == MachineStep(g, L, env, s)
           p == s.pos
<1>1. /\ Forward(g) /\ Len(g) \in Nat /\ Ids(g) = 1..Len(g) /\ Live(g) \subseteq 1..Len(g) /\ f \in Live(g)
      /\ id \in 1..Len(g) /\ f \in 1..Len(g) /\ ~Dead(g, id) /\ id \in 1..f - 1
  BY GraphFacts DEF Means, Forward, Live
<1>2. /\ IsState(s) /\ s.result = <<"running">> /\ p \in 1..Len(L) /\ L[p] = id /\ s.obs = O[id - 1]
      /\ s.vals = [x \in Ids(g) |-> s.vals[x]]
      /\ \A x \in Ids(g) : s.vals[x] = IF x < id /\ ~Dead(g, x) THEN V[x] ELSE 0
  BY DEF RunsAt
<1>3. Plain(g, env, V, O, id)
  BY <1>1 DEF Means
<1>4. /\ kind \notin LocalKinds \cup {"Jump"} /\ ~Leaves(kind, in)
      /\ V[id] = NodeValue(kind, g[id].val, env[id], in)
      /\ O[id] = IF kind \in ObservableKinds THEN Append(O[id - 1], Witnessed(kind, in)) ELSE O[id - 1]
  BY <1>1, <1>3 DEF Plain
<1>5. InputsAt(g, s, id) = in
  BY <1>1, ReadsAt
<1>6. /\ kind = "If" => next = Moved(L, s, BranchTarget(g, id, in[1]))
      /\ kind \in ObservableKinds => next = Shown(s, id, V[id], Witnessed(kind, in))
      /\ kind # "If" /\ kind \notin ObservableKinds =>
           next = Computed(s, id, V[id]) \/ (V[id] = 0 /\ next = Passed(s, id))
  <2>1. s.result = <<"running">> /\ ~(s.pos > Len(L)) /\ id = L[s.pos] /\ g[id].kind \notin LocalKinds \cup {"Jump"}
    BY <1>2, <1>4 DEF Reached
  <2>2. LET k == g[id].kind
            i == InputsAt(g, s, id)
            n == MachineStep(g, L, env, s)
            v == NodeValue(k, g[id].val, env[id], i)
        IN  /\ Leaves(k, i) => n = Ended(s, EndValue(k, i))
            /\ k = "If" => n = Moved(L, s, BranchTarget(g, id, i[1]))
            /\ k \in ObservableKinds => n = Shown(s, id, v, Witnessed(k, i))
            /\ ~Leaves(k, i) /\ k # "If" /\ k \notin ObservableKinds =>
                 n = Computed(s, id, v) \/ (v = 0 /\ n = Passed(s, id))
    BY ONLY <2>1, NodeStep
  <2> QED BY <1>4, <1>5, <2>2
<1>7. s.vals[id] = 0
  BY <1>1, <1>2
<1> HIDE DEF kind, in, next
<1>8. CASE kind # "If"
  <2> DEFINE y == L[p + 1]
  <2>1. p + 1 \in 1..Len(L) /\ y \in Live(g) /\ id < y /\ y <= f /\ \A x \in Live(g) : id < x => y <= x
    BY <1>1, <1>2, NextLaid
  <2>2. GoesTo(next, s, id, V[id], O[id])
    <3>1. CASE kind \in ObservableKinds
      BY <1>2, <1>4, <1>6, <3>1, ShownGoes
    <3>2. CASE kind \notin ObservableKinds /\ next = Computed(s, id, V[id])
      BY <1>2, <1>4, <3>2, ComputedGoes
    <3>3. CASE kind \notin ObservableKinds /\ V[id] = 0 /\ next = Passed(s, id)
      BY <1>2, <1>4, <1>7, <3>3, PassedGoes
    <3> QED BY <1>6, <1>8, <3>1, <3>2, <3>3
  <2>3. \A x \in id + 1..y - 1 : Dead(g, x) => O[x] = O[x - 1]
    <3> SUFFICES ASSUME NEW x \in id + 1..y - 1, Dead(g, x) PROVE O[x] = O[x - 1]
      OBVIOUS
    <3>1. x \in 1..f - 1
      BY <1>1, <2>1
    <3>2. Plain(g, env, V, O, x)
      BY <3>1 DEF Means
    <3> QED BY <3>2 DEF Plain
  <2>4. RunsAt(next, g, L, V, O, y)
    <3>1. Len(g) \in Nat /\ id \in Live(g) /\ RunsAt(s, g, L, V, O, id) /\ y = L[s.pos + 1] /\ s.pos + 1 \in 1..Len(L)
      BY <1>1, <2>1
    <3> HIDE DEF y
    <3> QED BY ONLY <2>1, <2>2, <2>3, <3>1, LandsAt
  <2> QED BY <2>1, <2>4 DEF next
<1>9. CASE kind = "If"
  <2> DEFINE c == in[1]
             y == IF c # 0 THEN id + 1 ELSE id + 2
  <2>1. /\ id + 1 \in Live(g) /\ g[id + 1].kind = "IfTrue"
        /\ id + 2 \in Live(g) /\ g[id + 2].kind = "IfFalse"
        /\ BranchTarget(g, id, c) = {y}
    BY <1>1, <1>9, BranchGoes DEF kind
  <2>2. id + 2 < f
    <3>1. g[f].kind \notin {"IfTrue", "IfFalse"}
      BY DEF Means, Leaves, EndKinds, Traps
    <3> QED BY <1>1, <2>1, <3>1
  <2>3. id + 1 \in 1..f - 1 /\ (id + 1) - 1 = id /\ (id + 2) - 1 = id + 1
    BY <1>1, <2>2
  <2>4. Plain(g, env, V, O, id + 1)
    BY <2>3 DEF Means
  <2>5. V[id + 1] = 0 /\ O[id + 1] = O[id]
    <3>1. ~Dead(g, id + 1)
      BY <2>1 DEF Live
    <3>2. "IfTrue" \notin ConstKinds \cup GivenKinds \cup BinaryKinds \cup ObservableKinds
      BY DEF ConstKinds, GivenKinds, BinaryKinds, ObservableKinds, UnknownKinds, EffectKinds, LeavingKinds, CheckedConversions
    <3>3. V[id + 1] = NodeValue("IfTrue", g[id + 1].val, env[id + 1], Reads(g, V, id + 1))
          /\ O[id + 1] = O[(id + 1) - 1]
      BY <2>1, <2>4, <3>1, <3>2 DEF Plain
    <3> QED BY <2>3, <3>2, <3>3 DEF NodeValue
  <2>6. V[id] = 0 /\ O[id] = O[id - 1]
    <3>1. "If" \notin ConstKinds \cup GivenKinds \cup BinaryKinds \cup ObservableKinds
      BY DEF ConstKinds, GivenKinds, BinaryKinds, ObservableKinds, UnknownKinds, EffectKinds, LeavingKinds, CheckedConversions
    <3>2. V[id] = NodeValue("If", g[id].val, env[id], in) /\ O[id] = O[id - 1]
      BY <1>4, <1>9, <3>1
    <3> QED BY <3>1, <3>2 DEF NodeValue
  <2>7. y \in Live(g) /\ id < y /\ y <= f /\ y \in {id + 1, id + 2}
    BY <1>1, <2>1, <2>2
  <2>8. PICK q \in 1..Len(L) : L[q] = y
    BY <2>7 DEF Reached
  <2>9. \A i \in 1..Len(L) : L[i] = L[q] => i = q
    <3> SUFFICES ASSUME NEW i \in 1..Len(L), L[i] = L[q], i # q PROVE FALSE
      OBVIOUS
    <3>1. Len(L) \in Nat /\ (i < q => L[i] < L[q]) /\ (q < i => L[q] < L[i])
      BY DEF Reached
    <3>2. L[q] \in Nat
      BY <1>1, <2>7, <2>8
    <3> QED BY <3>1, <3>2
  <2>10. /\ IsState(next) /\ next.pos = q /\ next.vals = s.vals /\ next.obs = s.obs
         /\ next.result = s.result
    <3>1. next = Moved(L, s, {L[q]})
      BY <1>6, <1>9, <2>1, <2>8
    <3>2. Len(L) \in Nat /\ DOMAIN L = 1..Len(L) /\ IsState(s)
      BY <1>2 DEF Reached
    <3> QED BY ONLY <2>9, <3>1, <3>2, q \in 1..Len(L), MovedFields
  <2>11. O[y - 1] = s.obs
    <3>1. y - 1 = id \/ y - 1 = id + 1
      BY <1>1, <2>7
    <3> HIDE DEF y
    <3> QED BY <1>2, <2>5, <2>6, <3>1
  <2>12. \A x \in Ids(g) : s.vals[x] = IF x < y /\ ~Dead(g, x) THEN V[x] ELSE 0
    <3> SUFFICES ASSUME NEW x \in Ids(g) PROVE s.vals[x] = IF x < y /\ ~Dead(g, x) THEN V[x] ELSE 0
      OBVIOUS
    <3>1. s.vals[x] = IF x < id /\ ~Dead(g, x) THEN V[x] ELSE 0
      BY <1>2
    <3>2. x < id \/ x = id \/ x = id + 1 \/ x > id + 1
      BY <1>1
    <3>3. (x < id => x < y) /\ (x > id + 1 => ~(x < y) /\ ~(x < id))
          /\ (x = id + 1 => ~(x < id)) /\ (x = id => ~(x < id))
      BY <1>1, <2>7
    <3> HIDE DEF y
    <3> QED BY <2>5, <2>6, <3>1, <3>2, <3>3
  <2> HIDE DEF y
  <2>13. RunsAt(next, g, L, V, O, y)
    BY <1>2, <2>8, <2>10, <2>11, <2>12 DEF RunsAt
  <2> QED BY <2>7, <2>13 DEF next
<1> QED BY <1>8, <1>9

LEMMA StartRuns ==
  ASSUME NEW g, NEW env, NEW V, NEW O, NEW f, Means(g, env, V, O, f), NEW L, Reached(g, L, f)
  PROVE  \E id \in Live(g) : id <= f /\ RunsAt(Start0(g), g, L, V, O, id)
<1> DEFINE id == L[1]
           s == Start0(g)
<1>1. /\ Forward(g) /\ Len(g) \in Nat /\ Ids(g) = 1..Len(g) /\ Live(g) \subseteq 1..Len(g) /\ f \in Live(g)
      /\ f \in 1..Len(g)
  BY GraphFacts DEF Means, Forward, Live
<1>2. Len(L) \in Nat /\ 1 \in 1..Len(L)
  <2>1. PICK k \in 1..Len(L) : L[k] = f
    BY <1>1 DEF Reached
  <2> QED BY <2>1 DEF Reached
<1>3. id \in Live(g)
  BY <1>2 DEF Reached
<1>4. ASSUME NEW x \in Live(g), x <= f PROVE id <= x
  <2>1. PICK k \in 1..Len(L) : L[k] = x
    BY <1>4 DEF Reached
  <2>2. 1 < k => id < x
    BY <1>2, <2>1 DEF Reached
  <2>3. k = 1 \/ 1 < k
    BY <1>2
  <2> QED BY <1>1, <1>3, <2>1, <2>2, <2>3
<1>5. id <= f /\ id \in 1..Len(g)
  BY <1>1, <1>3, <1>4
<1> HIDE DEF id
<1>6. \A x \in 1..id - 1 : Dead(g, x) /\ O[x] = O[x - 1]
  <2> SUFFICES ASSUME NEW x \in 1..id - 1 PROVE Dead(g, x) /\ O[x] = O[x - 1]
    OBVIOUS
  <2>1. x \in 1..Len(g) /\ x <= f /\ ~(id <= x) /\ x \in 1..f - 1
    BY <1>1, <1>5
  <2>2. Dead(g, x)
    BY <1>1, <1>4, <2>1 DEF Live
  <2>3. Plain(g, env, V, O, x)
    BY <2>1 DEF Means
  <2> QED BY <2>2, <2>3 DEF Plain
<1>7. O[id - 1] = <<>>
  <2>1. 0 \in Nat /\ id - 1 \in Nat /\ 0 <= id - 1
    BY <1>1, <1>5
  <2>2. \A x \in 0 + 1..id - 1 : O[x] = O[x - 1]
    BY <1>6
  <2>3. O[id - 1] = O[0]
    BY ONLY <2>1, <2>2, NothingSeen
  <2> QED BY <2>3 DEF Means
<1>8. /\ s = [pos |-> s.pos, vals |-> s.vals, locals |-> s.locals, obs |-> s.obs, ran |-> s.ran,
              result |-> s.result]
      /\ s.result = <<"running">> /\ s.pos = 1 /\ s.vals = [x \in Ids(g) |-> 0] /\ s.obs = <<>>
  BY DEF Start0
<1> HIDE DEF s
<1>9. \A x \in Ids(g) : s.vals[x] = IF x < id /\ ~Dead(g, x) THEN V[x] ELSE 0
  <2> SUFFICES ASSUME NEW x \in Ids(g) PROVE ~(x < id /\ ~Dead(g, x))
    BY <1>8
  <2>1. x < id => x \in 1..id - 1
    BY <1>1, <1>5
  <2> QED BY <1>6, <2>1
<1>10. s.vals = [x \in Ids(g) |-> s.vals[x]]
  BY <1>8
<1>11. IsState(s)
  BY ONLY <1>8 DEF IsState
<1>12. RunsAt(s, g, L, V, O, id)
  <2>1. L[s.pos] = id /\ s.pos \in 1..Len(L)
    BY <1>2, <1>8 DEF id
  <2> QED BY <1>7, <1>8, <1>9, <1>10, <1>11, <2>1 DEF RunsAt
<1> QED BY <1>3, <1>5, <1>12 DEF s

(* The run gets there, in as many steps at most as there are nodes before it.   *)
LEMMA RunReaches ==
  ASSUME NEW g, NEW env, NEW V, NEW O, NEW f, Means(g, env, V, O, f), NEW L, Reached(g, L, f),
         NEW fuel \in Nat, f <= fuel, NEW run, IsRun(run, g, L, env, fuel)
  PROVE  \E j \in 0..f - 1 : RunsAt(run[j], g, L, V, O, f)
<1>1. f \in Live(g) /\ f \in Nat \ {0} /\ Live(g) \subseteq Nat \ {0}
  <2>1. f \in Live(g) /\ Len(g) \in Nat
    BY GraphFacts DEF Means, Forward
  <2> QED BY <2>1 DEF Live, Ids
<1>2. run[0] = Start0(g) /\ \A k \in 1..fuel : run[k] = MachineStep(g, L, env, run[k - 1])
  BY DEF IsRun
<1> DEFINE On(k) == \E id \in Live(g) : k < id /\ id <= f /\ RunsAt(run[k], g, L, V, O, id)
           There(k) == \E j \in 0..k : RunsAt(run[j], g, L, V, O, f)
           T == {k \in 0..f - 1 : On(k) \/ There(k)}
           n == f - 1
<1>3. 0 \in T
  <2>1. \E id \in Live(g) : id <= f /\ RunsAt(run[0], g, L, V, O, id)
    BY <1>2, StartRuns
  <2> QED BY <1>1, <2>1
<1>4. ASSUME NEW k \in 0..n - 1, k \in T PROVE k + 1 \in T
  <2>0. k + 1 \in 0..f - 1 /\ k + 1 \in 1..fuel /\ (k + 1) - 1 = k /\ k \in Nat
    BY <1>1
  <2> DEFINE m == k + 1
  <2>1. CASE There(k)
    <3>1. There(m)
      BY <1>1, <2>0, <2>1
    <3> QED BY <2>0, <3>1
  <2>2. CASE On(k)
    <3>1. PICK id \in Live(g) : k < id /\ id <= f /\ RunsAt(run[k], g, L, V, O, id)
      BY <2>2
    <3>2. CASE id = f
      <4>1. There(m)
        BY <2>0, <3>1, <3>2
      <4> QED BY <2>0, <4>1
    <3>3. CASE id < f
      <4>1. run[m] = MachineStep(g, L, env, run[k])
        BY <1>2, <2>0
      <4>2. \E y \in Live(g) : id < y /\ y <= f /\ RunsAt(run[m], g, L, V, O, y)
        BY <3>1, <3>3, <4>1, StepLands
      <4>3. PICK y \in Live(g) : id < y /\ y <= f /\ RunsAt(run[m], g, L, V, O, y)
        BY <4>2
      <4>4. m < y
        BY <1>1, <2>0, <3>1, <4>3
      <4>5. On(m)
        BY <4>3, <4>4
      <4> QED BY <2>0, <4>5
    <3> QED BY <1>1, <3>1, <3>2, <3>3
  <2> QED BY <1>4, <2>1, <2>2
<1>5. n \in Nat /\ n \in 0..n
  BY <1>1
<1>6. n \in T
  <2> HIDE DEF T, n
  <2>1. 0..n \subseteq T
    BY <1>3, <1>4, <1>5, PrefixInduction
  <2> QED BY <1>5, <2>1
<1>7. CASE On(n)
  <2>1. PICK id \in Live(g) : n < id /\ id <= f /\ RunsAt(run[n], g, L, V, O, id)
    BY <1>7
  <2>2. id = f
    BY <1>1, <2>1
  <2> QED BY <1>5, <2>1, <2>2
<1> QED BY <1>6, <1>7

LEMMA MeansReached ==
  ASSUME NEW g, NEW env, NEW V, NEW O, NEW f, Means(g, env, V, O, f)
  PROVE  Reached(g, Layout(g), f)
<1>1. f \in Live(g) /\ f \in Nat \ {0} /\ Forward(g) /\ Live(g) \subseteq Nat \ {0}
  <2>1. f \in Live(g) /\ Len(g) \in Nat
    BY GraphFacts DEF Means, Forward
  <2> QED BY <2>1 DEF Live, Ids, Means
<1>2. \A id \in Live(g) : id < f => g[id].kind \notin EndKinds
  <2> SUFFICES ASSUME NEW id \in Live(g), id < f PROVE g[id].kind \notin EndKinds
    OBVIOUS
  <2>1. id \in 1..f - 1 /\ ~Dead(g, id)
    BY <1>1 DEF Live
  <2>2. Plain(g, env, V, O, id)
    BY <2>1 DEF Means
  <2> QED BY <2>1, <2>2 DEF Plain, Leaves
<1> QED BY <1>1, <1>2, ReachedUpTo

(* The step of the node that leaves.                                            *)
LEMMA LastStep ==
  ASSUME NEW g, NEW env, NEW V, NEW O, NEW f, Means(g, env, V, O, f), NEW L, Reached(g, L, f),
         NEW s, RunsAt(s, g, L, V, O, f)
  PROVE  MachineStep(g, L, env, s) = Ended(s, EndValue(g[f].kind, Reads(g, V, f)))
<1>1. f \in Live(g) /\ Forward(g)
  BY DEF Means
<1>2. g[f].kind \notin LocalKinds \cup {"Jump"} /\ Leaves(g[f].kind, Reads(g, V, f))
  BY DEF Means, Leaves, EndKinds, LocalKinds, Traps
<1>3. s.result = <<"running">> /\ ~(s.pos > Len(L)) /\ f = L[s.pos] /\ g[f].kind \notin LocalKinds \cup {"Jump"}
  BY <1>2 DEF Reached, RunsAt
<1>4. InputsAt(g, s, f) = Reads(g, V, f)
  BY <1>1, ReadsAt
<1>5. LET k == g[f].kind
          i == InputsAt(g, s, f)
          n == MachineStep(g, L, env, s)
          v == NodeValue(k, g[f].val, env[f], i)
      IN  /\ Leaves(k, i) => n = Ended(s, EndValue(k, i))
          /\ k = "If" => n = Moved(L, s, BranchTarget(g, f, i[1]))
          /\ k \in ObservableKinds => n = Shown(s, f, v, Witnessed(k, i))
          /\ ~Leaves(k, i) /\ k # "If" /\ k \notin ObservableKinds =>
               n = Computed(s, f, v) \/ (v = 0 /\ n = Passed(s, f))
  BY ONLY <1>3, NodeStep
<1> QED BY <1>2, <1>4, <1>5

(* So what a graph means is what its run gives.                                 *)
LEMMA MeansRun ==
  ASSUME NEW g, NEW env, NEW V, NEW O, NEW f, Means(g, env, V, O, f), NEW fuel \in Nat, f <= fuel
  PROVE  /\ MachineRun(g, env, fuel).result = EndValue(g[f].kind, Reads(g, V, f))
         /\ MachineRun(g, env, fuel).obs = O[f - 1]
<1> DEFINE L == Layout(g)
           value == EndValue(g[f].kind, Reads(g, V, f))
<1>1. f \in Live(g) /\ f \in Nat \ {0} /\ Forward(g) /\ Live(g) \subseteq Nat \ {0}
  <2>1. f \in Live(g) /\ Len(g) \in Nat
    BY GraphFacts DEF Means, Forward
  <2> QED BY <2>1 DEF Live, Ids, Means
<1>2. Reached(g, L, f)
  BY MeansReached
<1>3. PICK run : IsRun(run, g, L, env, fuel) /\ RunInOrder(g, L, env, fuel) = run[fuel]
  BY RunIsRun
<1>4. MachineRun(g, env, fuel) = run[fuel]
  BY <1>3 DEF MachineRun
<1> HIDE DEF L
<1>5. PICK j \in 0..f - 1 : RunsAt(run[j], g, L, V, O, f)
  BY <1>2, <1>3, RunReaches
<1>6. \A k \in 1..fuel : run[k] = MachineStep(g, L, env, run[k - 1])
  BY <1>3 DEF IsRun
<1> DEFINE s == run[j]
           m == j + 1
<1>7. m \in 1..fuel /\ m - 1 = j
  BY <1>1
<1>8. value # <<"running">>
  BY DEF EndValue
<1>10. MachineStep(g, L, env, s) = Ended(s, value)
  BY <1>2, <1>5, LastStep
<1>11. run[m].result = value /\ run[m].obs = O[f - 1] /\ ~(run[m].pos > Len(L))
  <2>1. IsState(s) /\ s.obs = O[f - 1] /\ s.pos \in 1..Len(L) /\ Len(L) \in Nat
    BY <1>2, <1>5 DEF RunsAt, Reached
  <2>2. run[m] = MachineStep(g, L, env, s)
    BY <1>6, <1>7
  <2> HIDE DEF s, value, m
  <2>3. run[m] = Ended(s, value)
    BY <1>10, <2>2
  <2>4. run[m] = [s EXCEPT !.result = value]
    BY <2>3 DEF Ended
  <2>5. s = [pos |-> s.pos, vals |-> s.vals, locals |-> s.locals, obs |-> s.obs, ran |-> s.ran,
             result |-> s.result]
    BY <2>1 DEF IsState
  <2>6. run[m].result = value /\ run[m].obs = s.obs /\ run[m].pos = s.pos
    BY <2>4, <2>5
  <2> QED BY <2>1, <2>6
<1> HIDE DEF s, value, m
<1> DEFINE n == fuel - m
           T == {k \in 0..n : /\ run[m + k].result = value /\ run[m + k].obs = O[f - 1]
                              /\ ~(run[m + k].pos > Len(L))}
<1>12. n \in Nat /\ m + 0 = m /\ m + n = fuel /\ 0 \in 0..n /\ n \in 0..n
  BY <1>7
<1>13. 0 \in T
  BY <1>11, <1>12
<1>14. ASSUME NEW k \in 0..n - 1, k \in T PROVE k + 1 \in T
  <2>1. m + (k + 1) \in 1..fuel /\ (m + (k + 1)) - 1 = m + k /\ k + 1 \in 0..n
    BY <1>7, <1>12
  <2>2. run[m + (k + 1)] = MachineStep(g, L, env, run[m + k])
    BY <1>6, <2>1
  <2>3. run[m + k].result # <<"running">> /\ ~(run[m + k].pos > Len(L))
    BY <1>8, <1>14
  <2>4. MachineStep(g, L, env, run[m + k]) = run[m + k]
    BY <2>3 DEF MachineStep
  <2> QED BY <1>14, <2>1, <2>2, <2>4
<1>15. n \in T
  <2> HIDE DEF T, n
  <2>1. 0..n \subseteq T
    BY <1>12, <1>13, <1>14, PrefixInduction
  <2> QED BY <1>12, <2>1
<1>16. run[fuel].result = value /\ run[fuel].obs = O[f - 1]
  BY <1>12, <1>15
<1> QED BY <1>4, <1>16 DEF value
=============================================================================
