--------------------------- MODULE CompileProofs ---------------------------
(***************************************************************************)
(* Proofs about Compile, for every topology, manifest set, candidate pool, *)
(* dial, gate and bound; about what ran, also for authors who re-declare   *)
(* it (Redeclares).                                                        *)
(***************************************************************************)
EXTENDS Compile, FiniteSetTheorems, WellFoundedInduction, TLAPS

-----------------------------------------------------------------------------
(***************************************************************************)
(* Induction on the naturals, in the form the provers can use: about the   *)
(* members of a set.                                                       *)
(***************************************************************************)

\* The least element of a set of naturals: the intervals below its members
\* are finite sets, and strict inclusion orders those well.
LEMMA Least ==
  ASSUME NEW T, T \subseteq Nat, T # {}
  PROVE  \E x \in T : \A y \in T : x <= y
<1> DEFINE I == {0..n : n \in T}
<1>1. I \subseteq FiniteSubsetsOf(Nat)
  <2>1. SUFFICES ASSUME NEW n \in T PROVE 0..n \in FiniteSubsetsOf(Nat)
    OBVIOUS
  <2>2. 0..n \in SUBSET Nat
    OBVIOUS
  <2>3. IsFiniteSet(0..n)
    BY FS_Interval
  <2>4. QED
    BY <2>2, <2>3 DEF FiniteSubsetsOf
<1>2. I # {}
  OBVIOUS
<1>3. IsWellFoundedOn(StrictSubsetOrdering(Nat), FiniteSubsetsOf(Nat))
  BY FS_StrictSubsetOrderingWellFounded
<1>4. PICK x \in I : \A y \in I : ~(<<y, x>> \in StrictSubsetOrdering(Nat))
  <2> HIDE DEF I
  <2>1. QED
    BY <1>1, <1>2, <1>3, WFMin
<1>5. PICK m \in T : x = 0..m
  OBVIOUS
<1>6. ASSUME NEW y \in T, ~(m <= y)
      PROVE  FALSE
  <2>1. 0..y \in I
    OBVIOUS
  <2>2. y \in Nat /\ m \in Nat /\ y < m
    BY <1>6
  <2>3. 0..y \in SUBSET Nat /\ 0..m \in SUBSET Nat
    BY <2>2
  <2>4. 0..y \subseteq 0..m /\ 0..y # 0..m
    BY <2>2
  <2>5. <<0..y, 0..m>> \in StrictSubsetOrdering(Nat)
    BY <2>3, <2>4 DEF StrictSubsetOrdering
  <2>6. QED
    BY <1>4, <1>5, <2>1, <2>5
<1>7. QED
  BY <1>6

LEMMA Induct ==
  ASSUME NEW S, 0 \in S, \A n \in Nat : n \in S => n + 1 \in S
  PROVE  \A n \in Nat : n \in S
<1>1. SUFFICES ASSUME NEW n \in Nat \ S PROVE FALSE
  OBVIOUS
<1>2. PICK x \in Nat \ S : \A y \in Nat \ S : x <= y
  BY <1>1, Least
<1>3. x # 0 /\ x - 1 \in Nat
  BY <1>2
<1>4. x - 1 \in S
  BY <1>2, <1>3
<1>5. x - 1 + 1 \in S
  BY <1>3, <1>4
<1>6. QED
  BY <1>2, <1>3, <1>5

\* A recursion on bounded naturals whose step at n reads the values below n only.
Downward(D, V, F) ==
  /\ F \in [D \X [D -> V] -> V]
  /\ \A n \in D : \A f, g \in [D -> V] :
       (\A m \in D : m < n => f[m] = g[m]) => F[<<n, f>>] = F[<<n, g>>]

Solves(f, D, V, F) == f \in [D -> V] /\ \A n \in D : f[n] = F[<<n, f>>]

LEMMA RecursionDefines ==
  ASSUME NEW hi \in Nat, NEW D, D \subseteq 0..hi, NEW V, V # {}, NEW F, Downward(D, V, F)
  PROVE  \E f : Solves(f, D, V, F)
<1> USE DEF Downward
<1> DEFINE S == {k \in Nat : \E f \in [D -> V] : \A n \in D : n < k => f[n] = F[<<n, f>>]}
<1>0. \A n \in D : n \in Nat /\ n <= hi
  OBVIOUS
<1>1. 0 \in S
  <2>1. PICK v \in V : TRUE
    OBVIOUS
  <2>2. [n \in D |-> v] \in [D -> V]
    OBVIOUS
  <2>3. \A n \in D : ~(n < 0)
    BY <1>0
  <2>4. QED
    BY <2>2, <2>3
<1>2. ASSUME NEW k \in Nat, k \in S
      PROVE  k + 1 \in S
  <2>1. PICK f \in [D -> V] : \A n \in D : n < k => f[n] = F[<<n, f>>]
    BY <1>2
  <2>2. CASE k \in D
    <3>1. PICK g : g = [f EXCEPT ![k] = F[<<k, f>>]]
      OBVIOUS
    <3>2. F[<<k, f>>] \in V
      BY <2>2
    <3>3. g \in [D -> V] /\ g[k] = F[<<k, f>>] /\ \A m \in D : m # k => g[m] = f[m]
      BY <2>2, <3>1, <3>2
    <3>4. ASSUME NEW n \in D, n < k + 1
          PROVE  g[n] = F[<<n, g>>]
      <4>1. \A m \in D : m < n => f[m] = g[m]
        <5>1. SUFFICES ASSUME NEW m \in D, m < n PROVE f[m] = g[m]
          OBVIOUS
        <5>2. m # k
          BY <1>0, <3>4, <5>1
        <5>3. QED
          BY <3>3, <5>2
      <4>2. F[<<n, f>>] = F[<<n, g>>]
        BY <3>3, <4>1
      <4>3. n = k \/ n < k
        BY <1>0, <3>4
      <4>4. QED
        BY <2>1, <3>3, <4>2, <4>3
    <3>5. QED
      BY <3>3, <3>4
  <2>3. CASE k \notin D
    <3>1. \A n \in D : n < k + 1 => n < k
      BY <1>0, <2>3
    <3>2. \A n \in D : n < k + 1 => f[n] = F[<<n, f>>]
      BY <2>1, <3>1
    <3>3. k + 1 \in Nat
      OBVIOUS
    <3>4. QED
      BY <3>2, <3>3
  <2>4. QED
    BY <2>2, <2>3
<1>3. hi + 1 \in S
  <2> HIDE DEF S
  <2>1. QED
    BY <1>1, <1>2, Induct
<1>4. \A n \in D : n < hi + 1
  BY <1>0
<1>5. QED
  BY <1>3, <1>4 DEF Solves
-----------------------------------------------------------------------------
(***************************************************************************)
(* topological_sort: what Kahn's loop keeps true, turn by turn.            *)
(***************************************************************************)

\* The graphs topological_sort is called on.
Graphic(g) == g.nodes \subseteq Nat /\ IsFiniteSet(g.nodes) /\ WellFormed(g)

Out(k) == {k.order[i] : i \in DOMAIN k.order}

\* Every dependency of a node stands before it.
Forward(g, order) ==
  \A i \in DOMAIN order : \A d \in Dependencies(g, order[i]) :
    \E j \in DOMAIN order : j < i /\ order[j] = d

KahnInv(g, k) ==
  /\ k.order \in Seq(g.nodes) /\ Distinct(k.order)
  /\ k.indegree = [m \in g.nodes |-> Cardinality(Dependencies(g, m) \ Out(k))]
  /\ k.ready = {m \in g.nodes \ Out(k) : Dependencies(g, m) \subseteq Out(k)}
  /\ Forward(g, k.order)

\* Dependencies and dependents are nodes, and each other's converse.
LEMMA Neighbours ==
  ASSUME NEW g, Graphic(g)
  PROVE  /\ \A n : Dependencies(g, n) \subseteq g.nodes /\ Dependents(g, n) \subseteq g.nodes
         /\ \A n, m : m \in Dependents(g, n) <=> n \in Dependencies(g, m)
         /\ \A n : n \notin Dependencies(g, n) /\ IsFiniteSet(Dependencies(g, n))
<1>1. \A n : Dependencies(g, n) \subseteq g.nodes /\ Dependents(g, n) \subseteq g.nodes
  BY DEF Dependencies, Dependents, Graphic, WellFormed
<1>2. \A n, m : m \in Dependents(g, n) <=> n \in Dependencies(g, m)
  BY DEF Dependencies, Dependents
<1>3. \A n : n \notin Dependencies(g, n)
  BY DEF Dependencies, Graphic, WellFormed
<1>4. \A n : IsFiniteSet(Dependencies(g, n))
  BY <1>1, FS_Subset DEF Graphic
<1>5. QED
  BY <1>1, <1>2, <1>3, <1>4

LEMMA MinIsLeast ==
  ASSUME NEW S, S \subseteq Nat, S # {}
  PROVE  Min(S) \in S /\ \A y \in S : Min(S) <= y
BY Least DEF Min

LEMMA AppendFacts ==
  ASSUME NEW S, NEW s \in Seq(S), NEW x \in S
  PROVE  /\ Append(s, x) \in Seq(S)
         /\ Len(Append(s, x)) = Len(s) + 1
         /\ DOMAIN Append(s, x) = DOMAIN s \cup {Len(s) + 1}
         /\ \A i \in DOMAIN s : Append(s, x)[i] = s[i]
         /\ Append(s, x)[Len(s) + 1] = x
         /\ \A i \in DOMAIN s : i \in Nat /\ i < Len(s) + 1
         /\ Len(s) + 1 \notin DOMAIN s
OBVIOUS

LEMMA KahnStarts ==
  ASSUME NEW g, Graphic(g)
  PROVE  KahnInv(g, KahnStart(g)) /\ KahnStart(g).order = <<>>
<1> DEFINE k == KahnStart(g)
           deg == [n \in g.nodes |-> Cardinality(Dependencies(g, n))]
<1>1. k.order = <<>> /\ k.indegree = deg /\ k.ready = {n \in g.nodes : deg[n] = 0}
  BY DEF KahnStart
<1>2. Out(k) = {}
  BY <1>1 DEF Out
<1>3. \A n \in g.nodes : Cardinality(Dependencies(g, n)) = 0 <=> Dependencies(g, n) = {}
  BY Neighbours, FS_EmptySet
<1>4. k.ready = {n \in g.nodes : Dependencies(g, n) = {}}
  BY <1>1, <1>3
<1>5. <<>> \in Seq(g.nodes) /\ DOMAIN <<>> = {}
  OBVIOUS
<1>6. k.indegree = [m \in g.nodes |-> Cardinality(Dependencies(g, m) \ Out(k))]
  <2>1. \A m : Dependencies(g, m) \ Out(k) = Dependencies(g, m)
    BY <1>2
  <2>2. QED
    BY <1>1, <2>1
<1>7. k.ready = {m \in g.nodes \ Out(k) : Dependencies(g, m) \subseteq Out(k)}
  BY <1>2, <1>4
<1>8. k.order \in Seq(g.nodes) /\ Distinct(k.order) /\ Forward(g, k.order)
  BY <1>1, <1>5 DEF Distinct, Forward
<1>9. QED
  BY <1>1, <1>6, <1>7, <1>8 DEF KahnInv

\* A turn puts a node out, after its dependencies.
Puts(k, n, order) == order = Append(k.order, n)

Grows(g, k, n, order) ==
  /\ order \in Seq(g.nodes) /\ Distinct(order) /\ Forward(g, order)
  /\ Len(order) = Len(k.order) + 1
  /\ {order[i] : i \in DOMAIN order} = Out(k) \cup {n}

LEMMA KahnPlaces ==
  ASSUME NEW g, NEW k, KahnInv(g, k), NEW n \in k.ready, NEW order, Puts(k, n, order)
  PROVE  Grows(g, k, n, order)
<1>0. order = Append(k.order, n)
  BY DEF Puts
<1>1. /\ n \in g.nodes /\ n \notin Out(k) /\ Dependencies(g, n) \subseteq Out(k)
      /\ k.order \in Seq(g.nodes) /\ Distinct(k.order) /\ Forward(g, k.order)
  BY DEF KahnInv
<1>2. /\ order \in Seq(g.nodes)
      /\ Len(order) = Len(k.order) + 1
      /\ DOMAIN order = DOMAIN k.order \cup {Len(k.order) + 1}
      /\ \A i \in DOMAIN k.order : order[i] = k.order[i] /\ i \in Nat /\ i < Len(k.order) + 1
      /\ order[Len(k.order) + 1] = n
  <2>0. PICK old : old = k.order
    OBVIOUS
  <2>1. old \in Seq(g.nodes)
    BY <1>0, <1>1, <2>0
  <2>2. order = Append(old, n) /\ n \in g.nodes
    BY <1>0, <1>1, <2>0
  <2>3. /\ Append(old, n) \in Seq(g.nodes)
        /\ Len(Append(old, n)) = Len(old) + 1
        /\ DOMAIN Append(old, n) = DOMAIN old \cup {Len(old) + 1}
        /\ \A i \in DOMAIN old : Append(old, n)[i] = old[i]
        /\ Append(old, n)[Len(old) + 1] = n
        /\ \A i \in DOMAIN old : i \in Nat /\ i < Len(old) + 1
    BY <2>1, <2>2, AppendFacts
  <2>4. QED
    BY <2>0, <2>2, <2>3
<1>3. \A i \in DOMAIN k.order : k.order[i] \in Out(k)
  BY DEF Out
<1>4. Distinct(order)
  BY <1>1, <1>2, <1>3 DEF Distinct
<1>5. ASSUME NEW i \in DOMAIN order, NEW d \in Dependencies(g, order[i])
      PROVE  \E j \in DOMAIN order : j < i /\ order[j] = d
  <2>1. CASE i \in DOMAIN k.order
    <3>1. PICK j \in DOMAIN k.order : j < i /\ k.order[j] = d
      BY <1>1, <1>2, <1>5, <2>1 DEF Forward
    <3>2. QED
      BY <1>2, <3>1
  <2>2. CASE i = Len(k.order) + 1
    <3>1. d \in Out(k)
      BY <1>1, <1>2, <1>5, <2>2
    <3>2. PICK j \in DOMAIN k.order : k.order[j] = d
      BY <3>1 DEF Out
    <3>3. QED
      BY <1>2, <2>2, <3>2
  <2>3. QED
    BY <1>2, <1>5, <2>1, <2>2
<1>6. {order[i] : i \in DOMAIN order} = Out(k) \cup {n}
  BY <1>2 DEF Out
<1>7. QED
  BY <1>2, <1>4, <1>5, <1>6 DEF Forward, Grows

\* A placed node has no dependency left to place.
LEMMA PlacedIsClosed ==
  ASSUME NEW g, NEW k, KahnInv(g, k), NEW m \in Out(k)
  PROVE  Dependencies(g, m) \subseteq Out(k)
<1>1. PICK i \in DOMAIN k.order : k.order[i] = m
  BY DEF Out
<1>2. Forward(g, k.order)
  BY DEF KahnInv
<1>3. ASSUME NEW d \in Dependencies(g, m) PROVE d \in Out(k)
  <2>1. \E j \in DOMAIN k.order : j < i /\ k.order[j] = d
    BY <1>1, <1>2 DEF Forward
  <2>2. QED
    BY <2>1 DEF Out
<1>4. QED
  BY <1>3

LEMMA KahnSteps ==
  ASSUME NEW g, Graphic(g), NEW k, KahnInv(g, k), k.ready # {}
  PROVE  /\ KahnInv(g, KahnStep(g, k))
         /\ Len(KahnStep(g, k).order) = Len(k.order) + 1
<1>1. k.ready \subseteq g.nodes
  BY DEF KahnInv
<1>2. k.ready \subseteq Nat
  BY <1>1 DEF Graphic
<1>3. PICK n : n = Min(k.ready) /\ n \in k.ready
  BY <1>2, MinIsLeast
<1>4. PICK deg : deg = [m \in g.nodes |-> IF m \in Dependents(g, n)
                                            THEN k.indegree[m] - 1 ELSE k.indegree[m]]
  OBVIOUS
<1>5. PICK l : l = KahnStep(g, k)
  OBVIOUS
<1>6. /\ l.order = Append(k.order, n) /\ l.indegree = deg
      /\ l.ready = (k.ready \ {n}) \cup {m \in Dependents(g, n) : deg[m] = 0}
  BY <1>3, <1>4, <1>5 DEF KahnStep
<1>7. /\ l.order \in Seq(g.nodes) /\ Distinct(l.order) /\ Forward(g, l.order)
      /\ Len(l.order) = Len(k.order) + 1
      /\ Out(l) = Out(k) \cup {n}
  <2>1. PICK order : order = l.order
    OBVIOUS
  <2>2. Puts(k, n, order)
    BY <1>6, <2>1 DEF Puts
  <2>3. Grows(g, k, n, order)
    BY <1>3, <2>2, KahnPlaces
  <2>4. QED
    BY <2>1, <2>3 DEF Out, Grows
<1>8. n \in g.nodes /\ n \notin Out(k) /\ Dependencies(g, n) \subseteq Out(k)
  BY <1>3 DEF KahnInv
<1>9. ASSUME NEW m \in g.nodes
      PROVE  deg[m] = Cardinality(Dependencies(g, m) \ Out(l))
  <2>1. k.indegree[m] = Cardinality(Dependencies(g, m) \ Out(k))
    BY <1>9 DEF KahnInv
  <2>2. IsFiniteSet(Dependencies(g, m) \ Out(k))
    BY Neighbours, FS_Subset
  <2>3. Dependencies(g, m) \ Out(l) = (Dependencies(g, m) \ Out(k)) \ {n}
    BY <1>7
  <2>4. Cardinality(Dependencies(g, m) \ Out(l)) =
          IF n \in Dependencies(g, m) \ Out(k) THEN Cardinality(Dependencies(g, m) \ Out(k)) - 1
          ELSE Cardinality(Dependencies(g, m) \ Out(k))
    BY <2>2, <2>3, FS_RemoveElement
  <2>5. n \in Dependencies(g, m) \ Out(k) <=> m \in Dependents(g, n)
    BY <1>8, Neighbours
  <2>6. QED
    BY <1>4, <2>1, <2>4, <2>5
<1>10. l.indegree = [m \in g.nodes |-> Cardinality(Dependencies(g, m) \ Out(l))]
  BY <1>4, <1>6, <1>9
<1>11. \A m \in g.nodes : deg[m] = 0 <=> Dependencies(g, m) \subseteq Out(l)
  <2>1. SUFFICES ASSUME NEW m \in g.nodes
                 PROVE  deg[m] = 0 <=> Dependencies(g, m) \subseteq Out(l)
    OBVIOUS
  <2>2. IsFiniteSet(Dependencies(g, m) \ Out(l))
    BY Neighbours, FS_Subset
  <2>3. Cardinality(Dependencies(g, m) \ Out(l)) = 0 <=> Dependencies(g, m) \ Out(l) = {}
    BY <2>2, FS_EmptySet
  <2>4. QED
    BY <1>9, <2>3
<1>12. ASSUME NEW m \in l.ready
       PROVE  m \in g.nodes \ Out(l) /\ Dependencies(g, m) \subseteq Out(l)
  <2>1. CASE m \in k.ready \ {n}
    <3>1. m \in g.nodes \ Out(k) /\ Dependencies(g, m) \subseteq Out(k)
      BY <2>1 DEF KahnInv
    <3>2. QED
      BY <1>7, <2>1, <3>1
  <2>2. CASE m \in Dependents(g, n) /\ deg[m] = 0
    <3>1. m \in g.nodes /\ n \in Dependencies(g, m) /\ m # n
      BY <2>2, Neighbours
    <3>2. m \notin Out(k)
      BY <1>8, <3>1, PlacedIsClosed
    <3>3. QED
      BY <1>7, <1>11, <2>2, <3>1, <3>2
  <2>3. QED
    BY <1>6, <1>12, <2>1, <2>2
<1>13. ASSUME NEW m \in g.nodes \ Out(l), Dependencies(g, m) \subseteq Out(l)
       PROVE  m \in l.ready
  <2>1. CASE n \in Dependencies(g, m)
    <3>1. m \in Dependents(g, n) /\ deg[m] = 0
      BY <1>11, <1>13, <2>1, Neighbours
    <3>2. QED
      BY <1>6, <3>1
  <2>2. CASE n \notin Dependencies(g, m)
    <3>1. m \in g.nodes \ Out(k) /\ m # n /\ Dependencies(g, m) \subseteq Out(k)
      BY <1>7, <1>13, <2>2
    <3>2. m \in k.ready
      BY <3>1 DEF KahnInv
    <3>3. QED
      BY <1>6, <3>1, <3>2
  <2>3. QED
    BY <2>1, <2>2
<1>14. l.ready = {m \in g.nodes \ Out(l) : Dependencies(g, m) \subseteq Out(l)}
  BY <1>12, <1>13
<1>15. KahnInv(g, l)
  BY <1>7, <1>10, <1>14 DEF KahnInv
<1>16. QED
  BY <1>5, <1>7, <1>15
\* What the loop's state is made of.
Turns(g) == [order : Seq(g.nodes), indegree : [g.nodes -> Int], ready : SUBSET g.nodes]

KahnValue(g, f, i) ==
  IF i = 0 THEN KahnStart(g)
  ELSE IF f[i - 1].ready = {} THEN f[i - 1] ELSE KahnStep(g, f[i - 1])

LEMMA TurnTypes ==
  ASSUME NEW g, Graphic(g)
  PROVE  KahnStart(g) \in Turns(g) /\ \A k \in Turns(g) : k.ready # {} => KahnStep(g, k) \in Turns(g)
<1>1. KahnStart(g) \in Turns(g)
  <2>1. \A n \in g.nodes : Cardinality(Dependencies(g, n)) \in Int
    BY Neighbours, FS_CardinalityType
  <2>2. <<>> \in Seq(g.nodes)
    OBVIOUS
  <2>3. PICK deg : deg = [n \in g.nodes |-> Cardinality(Dependencies(g, n))]
    OBVIOUS
  <2>4. deg \in [g.nodes -> Int]
    BY <2>1, <2>3
  <2>5. KahnStart(g) = [order |-> <<>>, indegree |-> deg, ready |-> {n \in g.nodes : deg[n] = 0}]
    BY <2>3 DEF KahnStart
  <2>6. QED
    BY <2>2, <2>4, <2>5 DEF Turns
<1>2. ASSUME NEW k \in Turns(g), k.ready # {}
      PROVE  KahnStep(g, k) \in Turns(g)
  <2>1. k.ready \subseteq g.nodes /\ k.order \in Seq(g.nodes) /\ k.indegree \in [g.nodes -> Int]
    BY DEF Turns
  <2>2. k.ready \subseteq Nat
    BY <2>1 DEF Graphic
  <2>3. PICK n : n = Min(k.ready) /\ n \in g.nodes
    BY <1>2, <2>1, <2>2, MinIsLeast
  <2>4. PICK deg : deg = [m \in g.nodes |-> IF m \in Dependents(g, n)
                                              THEN k.indegree[m] - 1 ELSE k.indegree[m]]
    OBVIOUS
  <2>5. deg \in [g.nodes -> Int]
    BY <2>1, <2>4
  <2>6. PICK old : old = k.order
    OBVIOUS
  <2>7. old \in Seq(g.nodes)
    BY <2>1, <2>6
  <2>8. Append(old, n) \in Seq(g.nodes)
    BY <2>3, <2>7, AppendFacts
  <2>9. PICK rest : rest = (k.ready \ {n}) \cup {m \in Dependents(g, n) : deg[m] = 0}
    OBVIOUS
  <2>10. rest \in SUBSET g.nodes
    BY <2>1, <2>9, Neighbours
  <2>11. KahnStep(g, k) = [order |-> Append(old, n), indegree |-> deg, ready |-> rest]
    BY <2>3, <2>4, <2>6, <2>9 DEF KahnStep
  <2>12. QED
    BY <2>5, <2>8, <2>10, <2>11 DEF Turns
<1>3. QED
  BY <1>1, <1>2

\* The recursion of topological_sort has a solution, so that Kahn is one.
LEMMA KahnIs ==
  ASSUME NEW g, Graphic(g)
  PROVE  /\ Cardinality(g.nodes) \in Nat
         /\ \A i \in 0..Cardinality(g.nodes) : Kahn(g)[i] = KahnValue(g, Kahn(g), i)
<1> DEFINE D == 0..Cardinality(g.nodes)
           V == Turns(g)
           F == [x \in D \X [D -> V] |-> KahnValue(g, x[2], x[1])]
<1>1. Cardinality(g.nodes) \in Nat
  BY FS_CardinalityType DEF Graphic
<1>2. D \subseteq 0..Cardinality(g.nodes) /\ \A i \in D : i # 0 => i - 1 \in D /\ i - 1 < i
  BY <1>1
<1>3. KahnStart(g) \in V /\ \A k \in V : k.ready # {} => KahnStep(g, k) \in V
  BY TurnTypes
<1>4. V # {}
  BY <1>3
<1>5. ASSUME NEW i \in D, NEW f \in [D -> V]
      PROVE  KahnValue(g, f, i) \in V
  <2> HIDE DEF D, V
  <2>1. CASE i = 0
    BY <1>3, <2>1 DEF KahnValue
  <2>2. CASE i # 0
    <3>1. f[i - 1] \in V
      BY <1>2, <2>2
    <3>2. QED
      BY <1>3, <2>2, <3>1 DEF KahnValue
  <2>3. QED
    BY <2>1, <2>2
<1>6. \A i \in D, f \in [D -> V] : F[<<i, f>>] = KahnValue(g, f, i)
  <2> HIDE DEF D, V
  <2>1. QED
    OBVIOUS
<1>7. F \in [D \X [D -> V] -> V]
  <2>1. \A x \in D \X [D -> V] : x[1] \in D /\ x[2] \in [D -> V]
    OBVIOUS
  <2> HIDE DEF D, V
  <2>2. QED
    BY <1>5, <2>1
<1>8. ASSUME NEW i \in D, NEW f \in [D -> V], NEW h \in [D -> V], \A m \in D : m < i => f[m] = h[m]
      PROVE  F[<<i, f>>] = F[<<i, h>>]
  <2> HIDE DEF D, V, F
  <2>1. i # 0 => f[i - 1] = h[i - 1]
    BY <1>2, <1>8
  <2>2. KahnValue(g, f, i) = KahnValue(g, h, i)
    BY <2>1 DEF KahnValue
  <2>3. QED
    BY <1>6, <2>2
<1>9. Downward(D, V, F)
  <2> HIDE DEF D, V, F
  <2>1. QED
    BY <1>7, <1>8 DEF Downward
<1>10. PICK f \in [D -> V] : \A i \in D : f[i] = KahnValue(g, f, i)
  <2> HIDE DEF D, V, F
  <2>1. PICK f : Solves(f, D, V, F)
    BY <1>1, <1>2, <1>4, <1>9, RecursionDefines
  <2>2. f \in [D -> V] /\ \A i \in D : f[i] = F[<<i, f>>]
    BY <2>1 DEF Solves
  <2>3. QED
    BY <1>6, <2>2
<1>11. f = [i \in D |-> KahnValue(g, f, i)]
  <2> HIDE DEF D, V
  <2>1. QED
    BY <1>10
<1>12. Kahn(g) = [i \in 0..Cardinality(g.nodes) |->
                    IF i = 0 THEN KahnStart(g)
                    ELSE IF Kahn(g)[i - 1].ready = {} THEN Kahn(g)[i - 1]
                    ELSE KahnStep(g, Kahn(g)[i - 1])]
  <2>1. \E h : h = [i \in 0..Cardinality(g.nodes) |->
                      IF i = 0 THEN KahnStart(g)
                      ELSE IF h[i - 1].ready = {} THEN h[i - 1]
                      ELSE KahnStep(g, h[i - 1])]
    BY <1>11 DEF KahnValue
  <2>2. QED
    BY <2>1, Zenon DEF Kahn
<1>13. \A i \in D : Kahn(g)[i] = KahnValue(g, Kahn(g), i)
  BY <1>12 DEF KahnValue
<1>14. QED
  BY <1>1, <1>13

\* The invariant holds after every turn, and each turn puts a node out until
\* none is ready.
LEMMA KahnKeeps ==
  ASSUME NEW g, Graphic(g)
  PROVE  \A i \in 0..Cardinality(g.nodes) :
           /\ KahnInv(g, Kahn(g)[i])
           /\ Len(Kahn(g)[i].order) = i \/ Kahn(g)[i].ready = {}
<1> DEFINE N == Cardinality(g.nodes)
           Fine(i) == /\ KahnInv(g, Kahn(g)[i])
                      /\ Len(Kahn(g)[i].order) = i \/ Kahn(g)[i].ready = {}
           T == {i \in Nat : i <= N => Fine(i)}
<1>1. N \in Nat /\ \A i \in 0..N : Kahn(g)[i] = KahnValue(g, Kahn(g), i)
  BY KahnIs
<1>2. 0 \in T
  <2>1. Kahn(g)[0] = KahnStart(g)
    BY <1>1 DEF KahnValue
  <2>2. KahnInv(g, Kahn(g)[0]) /\ Kahn(g)[0].order = <<>>
    BY <2>1, KahnStarts
  <2>3. QED
    BY <2>2
<1>3. ASSUME NEW i \in Nat, i \in T
      PROVE  i + 1 \in T
  <2>1. SUFFICES ASSUME i + 1 <= N PROVE Fine(i + 1)
    OBVIOUS
  <2>2. i <= N /\ i + 1 \in 0..N /\ i + 1 # 0 /\ i + 1 - 1 = i
    BY <1>1, <2>1
  <2>3. PICK k : k = Kahn(g)[i]
    OBVIOUS
  <2>4. KahnInv(g, k) /\ (Len(k.order) = i \/ k.ready = {})
    BY <1>3, <2>2, <2>3
  <2>5. Kahn(g)[i + 1] = IF k.ready = {} THEN k ELSE KahnStep(g, k)
    BY <1>1, <2>2, <2>3 DEF KahnValue
  <2>6. CASE k.ready = {}
    BY <2>4, <2>5, <2>6
  <2>7. CASE k.ready # {}
    <3>1. KahnInv(g, KahnStep(g, k)) /\ Len(KahnStep(g, k).order) = Len(k.order) + 1
      BY <2>4, <2>7, KahnSteps
    <3>2. QED
      BY <2>4, <2>5, <2>7, <3>1
  <2>8. QED
    BY <2>6, <2>7
<1>4. \A i \in Nat : i \in T
  <2> HIDE DEF T
  <2>1. QED
    BY <1>2, <1>3, Induct
<1>5. QED
  BY <1>1, <1>4

\* A sequence without repetitions has as many members as places.
LEMMA DistinctCounts ==
  ASSUME NEW S, NEW s \in Seq(S), Distinct(s)
  PROVE  /\ IsFiniteSet({s[i] : i \in DOMAIN s})
         /\ Cardinality({s[i] : i \in DOMAIN s}) = Len(s)
<1> DEFINE R == {s[i] : i \in DOMAIN s}
<1>1. Len(s) \in Nat /\ DOMAIN s = 1..Len(s)
  OBVIOUS
<1>2. s \in Bijection(1..Len(s), R)
  <2>1. s \in [1..Len(s) -> R]
    BY <1>1
  <2>2. \A a, b \in 1..Len(s) : s[a] = s[b] => a = b
    BY <1>1 DEF Distinct
  <2>3. \A t \in R : \E a \in 1..Len(s) : s[a] = t
    BY <1>1
  <2> HIDE DEF R
  <2>4. QED
    BY <2>1, <2>2, <2>3 DEF Bijection, Injection, Surjection, IsInjective
<1>3. ExistsBijection(1..Len(s), R)
  BY <1>2 DEF ExistsBijection
<1>4. Cardinality(R) = Len(s)
  BY <1>1, <1>3, FS_CountingElements
<1>5. IsFiniteSet(R)
  BY <1>1, <1>3, FS_NatBijection
<1>6. QED
  BY <1>4, <1>5

LEMMA KahnOrders ==
  ASSUME NEW g, Graphic(g), Validates(g)
  PROVE  /\ KahnOrder(g) \in Seq(g.nodes) /\ Distinct(KahnOrder(g))
         /\ Forward(g, KahnOrder(g))
         /\ {KahnOrder(g)[i] : i \in DOMAIN KahnOrder(g)} = g.nodes
<1>1. Cardinality(g.nodes) \in Nat
  BY FS_CardinalityType DEF Graphic
<1>2. PICK k : k = Kahn(g)[Cardinality(g.nodes)]
  OBVIOUS
<1>3. KahnInv(g, k)
  BY <1>1, <1>2, KahnKeeps
<1>4. PICK o : o = k.order
  OBVIOUS
<1>5. o = KahnOrder(g) /\ Len(o) = Cardinality(g.nodes)
  BY <1>2, <1>4 DEF KahnOrder, Validates
<1>6. o \in Seq(g.nodes) /\ Distinct(o) /\ Forward(g, o)
  BY <1>3, <1>4 DEF KahnInv
<1>7. Cardinality({o[i] : i \in DOMAIN o}) = Len(o)
  BY <1>6, DistinctCounts
<1>8. {o[i] : i \in DOMAIN o} \in SUBSET g.nodes
  BY <1>6
<1>9. {o[i] : i \in DOMAIN o} = g.nodes
  BY <1>5, <1>7, <1>8, FS_Subset DEF Graphic
<1>10. QED
  BY <1>5, <1>6, <1>9

\* A rank that rises along every edge.
Ranks(g, rank) == rank \in [g.nodes -> Nat] /\ \A e \in g.edges : rank[e[1]] < rank[e[2]]

LEMMA KahnAccepts ==
  ASSUME NEW g, Graphic(g), NEW rank, Ranks(g, rank)
  PROVE  Validates(g)
<1>1. Cardinality(g.nodes) \in Nat
  BY FS_CardinalityType DEF Graphic
<1>2. PICK k : k = Kahn(g)[Cardinality(g.nodes)]
  OBVIOUS
<1>3. KahnInv(g, k) /\ (Len(k.order) = Cardinality(g.nodes) \/ k.ready = {})
  BY <1>1, <1>2, KahnKeeps
<1>4. SUFFICES ASSUME k.ready = {} PROVE Len(k.order) = Cardinality(g.nodes)
  BY <1>2, <1>3 DEF Validates, KahnOrder
<1>5. PICK o : o = k.order
  OBVIOUS
<1>6. o \in Seq(g.nodes) /\ Distinct(o)
  BY <1>3, <1>5 DEF KahnInv
<1>7. Cardinality({o[i] : i \in DOMAIN o}) = Len(o)
  BY <1>6, DistinctCounts
<1>8. Out(k) = {o[i] : i \in DOMAIN o}
  BY <1>5 DEF Out
<1>9. Out(k) \subseteq g.nodes
  BY <1>6, <1>8
<1>10. ASSUME g.nodes \ Out(k) # {} PROVE FALSE
  <2>1. PICK T : T = {rank[m] : m \in g.nodes \ Out(k)}
    OBVIOUS
  <2>2. T \subseteq Nat /\ T # {}
    BY <1>10, <2>1 DEF Ranks
  <2>3. PICK r \in T : \A y \in T : r <= y
    BY <2>2, Least
  <2>4. PICK m \in g.nodes \ Out(k) : rank[m] = r
    BY <2>1
  <2>5. \A x \in g.nodes \ Out(k) : rank[m] <= rank[x]
    BY <2>1, <2>3, <2>4
  <2>6. ASSUME NEW d \in Dependencies(g, m) PROVE d \in Out(k)
    <3>1. d \in g.nodes /\ rank[d] < rank[m]
      BY DEF Dependencies, Ranks, Graphic, WellFormed
    <3>2. rank[d] \in Nat /\ rank[m] \in Nat
      BY <3>1 DEF Ranks
    <3>3. QED
      BY <2>5, <3>1, <3>2
  <2>7. m \in k.ready
    BY <1>3, <2>6 DEF KahnInv
  <2>8. QED
    BY <1>4, <2>7
<1>11. Out(k) = g.nodes
  BY <1>9, <1>10
<1>12. QED
  BY <1>5, <1>7, <1>8, <1>11

\* topological_sort raises for exactly the graphs that cannot be ranked, those
\* with a cycle; the order it returns for the others lists every node once, and
\* a producer before each of its consumers (AgentDAG.topological_sort).
THEOREM KahnDecides ==
  ASSUME NEW g, g.nodes \subseteq Nat, IsFiniteSet(g.nodes), WellFormed(g)
  PROVE  /\ Validates(g) <=> \E rank \in [g.nodes -> Nat] :
                               \A e \in g.edges : rank[e[1]] < rank[e[2]]
         /\ Validates(g) =>
              /\ Len(KahnOrder(g)) = Cardinality(g.nodes)
              /\ {KahnOrder(g)[i] : i \in DOMAIN KahnOrder(g)} = g.nodes
              /\ \A i, j \in DOMAIN KahnOrder(g) :
                   <<KahnOrder(g)[i], KahnOrder(g)[j]>> \in g.edges => i < j
<1>1. Graphic(g)
  BY DEF Graphic
<1>2. ASSUME NEW rank \in [g.nodes -> Nat], \A e \in g.edges : rank[e[1]] < rank[e[2]]
      PROVE  Validates(g)
  <2>1. Ranks(g, rank)
    BY <1>2 DEF Ranks
  <2>2. QED
    BY <1>1, <2>1, KahnAccepts
<1>3. ASSUME Validates(g)
      PROVE  /\ \E rank \in [g.nodes -> Nat] : \A e \in g.edges : rank[e[1]] < rank[e[2]]
             /\ {KahnOrder(g)[i] : i \in DOMAIN KahnOrder(g)} = g.nodes
             /\ \A i, j \in DOMAIN KahnOrder(g) :
                  <<KahnOrder(g)[i], KahnOrder(g)[j]>> \in g.edges => i < j
  <2>1. PICK o : o = KahnOrder(g)
    OBVIOUS
  <2>2. o \in Seq(g.nodes) /\ Distinct(o) /\ Forward(g, o) /\ {o[i] : i \in DOMAIN o} = g.nodes
    BY <1>1, <1>3, <2>1, KahnOrders
  <2>3. PICK place : place = [n \in g.nodes |-> CHOOSE i \in DOMAIN o : o[i] = n]
    OBVIOUS
  <2>4. \A n \in g.nodes : place[n] \in DOMAIN o /\ o[place[n]] = n
    BY <2>2, <2>3
  <2>5. DOMAIN o \subseteq Nat
    BY <2>2
  <2>6. ASSUME NEW i \in DOMAIN o, NEW j \in DOMAIN o, o[i] \in Dependencies(g, o[j])
        PROVE  i < j
    <3>1. PICK l \in DOMAIN o : l < j /\ o[l] = o[i]
      BY <2>2, <2>6 DEF Forward
    <3>2. QED
      BY <2>2, <3>1 DEF Distinct
  <2>7. \A e \in g.edges : e[1] \in g.nodes /\ e[2] \in g.nodes /\ e[1] \in Dependencies(g, e[2])
    BY DEF Dependencies, WellFormed
  <2>8. \A e \in g.edges : place[e[1]] < place[e[2]]
    BY <2>4, <2>6, <2>7
  <2>9. place \in [g.nodes -> Nat]
    BY <2>3, <2>4, <2>5
  <2>10. \A i, j \in DOMAIN o : <<o[i], o[j]>> \in g.edges => i < j
    BY <2>6 DEF Dependencies
  <2>11. QED
    BY <2>1, <2>2, <2>8, <2>9, <2>10
<1>4. QED
  BY <1>2, <1>3 DEF Validates

-----------------------------------------------------------------------------
(***************************************************************************)
(* classify_cycle_edges: the walk meets every node once, and what it takes *)
(* off its stack is a class of nodes that reach one another.               *)
(***************************************************************************)

\* sorted lists the members of a set, each of them, the lower ones first.
LEMMA AscendingLists ==
  ASSUME NEW S, S \subseteq Nat, IsFiniteSet(S)
  PROVE  /\ Ascending(S) \in Seq(S)
         /\ \A h \in S : \E i \in DOMAIN Ascending(S) : Ascending(S)[i] = h
         /\ \A i, j \in DOMAIN Ascending(S) : i < j => Ascending(S)[i] < Ascending(S)[j]
<1> DEFINE Below(h) == {g \in S : g < h}
           Rank == [h \in S |-> Cardinality(Below(h)) + 1]
<1>1. Cardinality(S) \in Nat
  BY FS_CardinalityType
<1>2. ASSUME NEW h \in S
      PROVE  Cardinality(Below(h)) \in Nat /\ Cardinality(Below(h)) < Cardinality(S)
  <2>1. Below(h) \in SUBSET S /\ Below(h) # S
    BY <1>2
  <2>2. IsFiniteSet(Below(h)) /\ Cardinality(Below(h)) <= Cardinality(S)
        /\ Cardinality(Below(h)) # Cardinality(S)
    <3> HIDE DEF Below
    <3>1. QED
      BY <2>1, FS_Subset
  <2>3. Cardinality(Below(h)) \in Nat
    <3> HIDE DEF Below
    <3>1. QED
      BY <2>2, FS_CardinalityType
  <2>4. QED
    <3> HIDE DEF Below
    <3>1. QED
      BY <1>1, <2>2, <2>3
<1>3. ASSUME NEW h \in S, NEW g \in S, g < h
      PROVE  Cardinality(Below(g)) < Cardinality(Below(h))
  <2>0. g \in Nat /\ h \in Nat /\ ~(g < g)
    OBVIOUS
  <2>1. Below(g) \in SUBSET Below(h) /\ Below(g) # Below(h) /\ Below(h) \in SUBSET S
    <3>1. g \in Below(h) /\ g \notin Below(g) /\ Below(h) \subseteq S
      BY <1>3, <2>0
    <3>2. ASSUME NEW x \in Below(g) PROVE x \in Below(h)
      <4>1. x \in S /\ x < g /\ x \in Nat
        BY <3>2
      <4>2. x < h
        BY <1>3, <2>0, <4>1
      <4>3. QED
        BY <4>1, <4>2
    <3>3. QED
      BY <3>1, <3>2
  <2>2. IsFiniteSet(Below(h))
    <3> HIDE DEF Below
    <3>1. QED
      BY <2>1, FS_Subset
  <2>3. /\ Cardinality(Below(g)) <= Cardinality(Below(h))
        /\ Cardinality(Below(g)) # Cardinality(Below(h))
    <3> HIDE DEF Below
    <3>1. QED
      BY <2>1, <2>2, FS_Subset
  <2>4. QED
    <3> HIDE DEF Below
    <3>1. QED
      BY <1>2, <2>3
<1>4. Rank \in Injection(S, 1..Cardinality(S))
  <2> HIDE DEF Below
  <2>1. \A h \in S : Cardinality(Below(h)) + 1 \in 1..Cardinality(S)
    BY <1>1, <1>2
  <2>2. ASSUME NEW g \in S, NEW h \in S, Rank[g] = Rank[h]
        PROVE  g = h
    <3>1. Cardinality(Below(g)) = Cardinality(Below(h))
      BY <1>2, <2>2
    <3>2. ~(g < h) /\ ~(h < g)
      BY <1>2, <1>3, <3>1
    <3>3. g \in Nat /\ h \in Nat
      OBVIOUS
    <3>4. QED
      BY <3>2, <3>3
  <2>3. Rank \in [S -> 1..Cardinality(S)]
    BY <2>1
  <2>4. QED
    <3> HIDE DEF Rank
    <3>1. QED
      BY <2>2, <2>3 DEF Injection, IsInjective
<1>5. Rank \in Surjection(S, 1..Cardinality(S))
  <2>1. IsFiniteSet(1..Cardinality(S)) /\ Cardinality(1..Cardinality(S)) = Cardinality(S)
    BY <1>1, FS_Interval
  <2> HIDE DEF Rank
  <2>2. QED
    BY <1>4, <2>1, FS_Injection
<1>6. ASSUME NEW i \in 1..Cardinality(S)
      PROVE  \E h \in S : Cardinality(Below(h)) = i - 1
  <2> HIDE DEF Below
  <2>1. PICK h \in S : Rank[h] = i
    <3> HIDE DEF Rank
    <3>1. QED
      BY <1>5 DEF Surjection
  <2>2. QED
    BY <1>2, <2>1
<1>7. \A i \in 1..Cardinality(S) :
        Ascending(S)[i] \in S /\ Cardinality(Below(Ascending(S)[i])) = i - 1
  BY <1>6 DEF Ascending
<1>8. Ascending(S) \in [1..Cardinality(S) -> S]
  <2> DEFINE At(i) == CHOOSE h \in S : Cardinality(Below(h)) = i - 1
  <2>1. Ascending(S) = [i \in 1..Cardinality(S) |-> At(i)]
    BY Zenon DEF Ascending
  <2>2. \A i \in 1..Cardinality(S) : At(i) \in S
    BY <1>6
  <2> HIDE DEF At
  <2>3. QED
    BY <2>1, <2>2
<1>9. Ascending(S) \in Seq(S)
  BY <1>1, <1>8
<1>10. ASSUME NEW h \in S
       PROVE  \E i \in DOMAIN Ascending(S) : Ascending(S)[i] = h
  <2> HIDE DEF Below
  <2>1. PICK i \in Nat : i = Cardinality(Below(h)) + 1 /\ i \in 1..Cardinality(S)
    BY <1>1, <1>2
  <2>2. /\ Ascending(S)[i] \in S
        /\ Cardinality(Below(Ascending(S)[i])) = Cardinality(Below(h))
    BY <1>2, <1>7, <2>1
  <2>a. PICK g \in S : g = Ascending(S)[i] /\ Cardinality(Below(g)) = Cardinality(Below(h))
    BY <2>2
  <2>3. ~(Ascending(S)[i] < h) /\ ~(h < Ascending(S)[i])
    <3>1. ~(g < h)
      <4>1. SUFFICES ASSUME g < h PROVE FALSE
        OBVIOUS
      <4>2. QED
        BY <1>2, <1>3, <2>a, <4>1
    <3>2. ~(h < g)
      <4>1. SUFFICES ASSUME h < g PROVE FALSE
        OBVIOUS
      <4>2. QED
        BY <1>2, <1>3, <2>a, <4>1
    <3>3. QED
      BY <2>a, <3>1, <3>2
  <2>4. Ascending(S)[i] = h
    <3>1. Ascending(S)[i] \in Nat /\ h \in Nat
      BY <2>2
    <3>2. QED
      BY <2>3, <3>1
  <2>5. QED
    BY <1>8, <2>1, <2>4
<1>11. ASSUME NEW i \in DOMAIN Ascending(S), NEW j \in DOMAIN Ascending(S), i < j
       PROVE  Ascending(S)[i] < Ascending(S)[j]
  <2> HIDE DEF Below
  <2>1. i \in 1..Cardinality(S) /\ j \in 1..Cardinality(S)
    BY <1>8
  <2>2. PICK g \in S : g = Ascending(S)[i] /\ Cardinality(Below(g)) = i - 1
    BY <1>7, <2>1
  <2>3. PICK h \in S : h = Ascending(S)[j] /\ Cardinality(Below(h)) = j - 1
    BY <1>7, <2>1
  <2>4. i \in Nat /\ j \in Nat /\ g \in Nat /\ h \in Nat
    BY <1>1, <2>1
  <2>5. ~(h < g)
    BY <1>3, <1>11, <2>2, <2>3, <2>4
  <2>6. g # h
    BY <1>11, <2>2, <2>3, <2>4
  <2>7. QED
    BY <2>2, <2>3, <2>4, <2>5, <2>6
<1>12. QED
  BY <1>9, <1>10, <1>11

-----------------------------------------------------------------------------
\* What leads where: y is in every set of nodes that holds x and the
\* dependents of its members.
ClosedSet(g, S) == S \subseteq g.nodes /\ \A m \in S : Dependents(g, m) \subseteq S

Leads(g, x, y) == \A S : ClosedSet(g, S) /\ x \in S => y \in S

LEMMA LeadsOn ==
  ASSUME NEW g, NEW x, NEW y, NEW z, Leads(g, x, y), Leads(g, y, z)
  PROVE  Leads(g, x, z)
BY DEF Leads

LEMMA LeadsThere ==
  ASSUME NEW g, NEW x
  PROVE  Leads(g, x, x) /\ \A y \in Dependents(g, x) : Leads(g, x, y)
BY DEF Leads, ClosedSet

\* The walk between two of its steps, with I and L its two numberings, K the
\* nodes on its stack, C the components it gave out, G the nodes it is in the
\* midst of and P the edges it has looked at.
Numbers(g, I, K, C, G) ==
  /\ DOMAIN I \subseteq g.nodes
  /\ \A x \in DOMAIN I : I[x] \in Nat
  /\ \A x, y \in DOMAIN I : I[x] = I[y] => x = y
  /\ G \subseteq K /\ K \subseteq DOMAIN I /\ UNION C = DOMAIN I \ K

Judged(g, C) ==
  \A c \in C : \A x \in c : \A y \in g.nodes : y \in c <=> Leads(g, x, y) /\ Leads(g, y, x)

\* A node in hand leads to all that is above it on the stack, and what is on
\* the stack leads back to a node in hand.
Reaches(g, I, K, G) == \A y \in G, x \in K : I[y] <= I[x] => Leads(g, y, x)
Returns(g, I, K, G) == \A x \in K : \E y \in G : I[y] <= I[x] /\ Leads(g, x, y)

\* The ends of an edge looked at have been met, and a node left behind on the
\* stack has had all its edges looked at.
Seen(g, I, K, G, P) ==
  /\ \A x, w : <<x, w>> \in P => x \in DOMAIN I /\ w \in DOMAIN I
  /\ \A x \in K \ G : \A w \in Dependents(g, x) : <<x, w>> \in P

\* The node in hand that a node of the stack will be left to.
Nearest(I, G, y, x) == I[y] <= I[x] /\ \A z \in G : I[z] <= I[x] => I[z] <= I[y]

\* A lowlink is the number of a node on the stack, and no edge looked at from
\* what is left to a node leads below its lowlink.
Lowest(g, I, L, K, G) ==
  \A y \in G : L[y] \in Nat /\ L[y] <= I[y] /\ \E z \in K : I[z] = L[y] /\ Leads(g, y, z)
Bounds(I, L, K, G, P) ==
  \A y \in G, x \in K, w \in K : <<x, w>> \in P /\ Nearest(I, G, y, x) => L[y] <= I[w]

Core(g, I, L, K, C, G, P) ==
  /\ Numbers(g, I, K, C, G) /\ Judged(g, C) /\ ClosedSet(g, UNION C)
  /\ Reaches(g, I, K, G) /\ Returns(g, I, K, G) /\ Seen(g, I, K, G, P)
  /\ Lowest(g, I, L, K, G) /\ Bounds(I, L, K, G, P)

\* The top of the nodes in hand.
Top(I, G, n) == n \in G /\ \A z \in G : I[z] <= I[n]

Extends(f, h, n, v) ==
  DOMAIN h = DOMAIN f \cup {n} /\ h[n] = v /\ \A x \in DOMAIN f : h[x] = f[x]

LEMMA CoreEnters ==
  ASSUME NEW g, NEW I, NEW L, NEW K, NEW C, NEW G, NEW P, Core(g, I, L, K, C, G, P),
         NEW n \in g.nodes, n \notin DOMAIN I,
         NEW m \in Nat, \A x \in DOMAIN I : I[x] < m,
         \A y \in G : Leads(g, y, n),
         NEW J, Extends(I, J, n, m), NEW M, M[n] = m, \A x \in G : M[x] = L[x]
  PROVE  Core(g, J, M, K \cup {n}, C, G \cup {n}, P)
<1>0. /\ G \subseteq K /\ K \subseteq DOMAIN I /\ n \notin K /\ n \notin G
      /\ \A x \in DOMAIN I : J[x] = I[x] /\ I[x] \in Nat
      /\ J[n] = m /\ DOMAIN J = DOMAIN I \cup {n}
  BY DEF Core, Numbers, Extends
<1>1. Numbers(g, J, K \cup {n}, C, G \cup {n})
  <2>1. \A x, y \in DOMAIN J : J[x] = J[y] => x = y
    BY <1>0 DEF Core, Numbers
  <2>2. QED
    BY <1>0, <2>1 DEF Core, Numbers
<1>2. Judged(g, C) /\ ClosedSet(g, UNION C)
  BY DEF Core
<1>3. Reaches(g, J, K \cup {n}, G \cup {n})
  <2>1. ASSUME NEW y \in G \cup {n}, NEW x \in K \cup {n}, J[y] <= J[x]
        PROVE  Leads(g, y, x)
    <3>1. CASE x = n
      BY <3>1, LeadsThere
    <3>2. CASE x \in K /\ y = n
      <4>1. J[x] < J[y]
        BY <1>0, <3>2
      <4>2. QED
        BY <1>0, <2>1, <3>2, <4>1
    <3>3. CASE x \in K /\ y \in G
      BY <1>0, <2>1, <3>3 DEF Core, Reaches
    <3>4. QED
      BY <3>1, <3>2, <3>3
  <2>2. QED
    BY <2>1 DEF Reaches
<1>4. Returns(g, J, K \cup {n}, G \cup {n})
  <2>1. ASSUME NEW x \in K \cup {n}
        PROVE  \E y \in G \cup {n} : J[y] <= J[x] /\ Leads(g, x, y)
    <3>1. CASE x = n
      BY <1>0, <3>1, LeadsThere
    <3>2. CASE x \in K
      <4>1. PICK y \in G : I[y] <= I[x] /\ Leads(g, x, y)
        BY <3>2 DEF Core, Returns
      <4>2. QED
        BY <1>0, <3>2, <4>1
    <3>3. QED
      BY <3>1, <3>2
  <2>2. QED
    BY <2>1 DEF Returns
<1>5. Seen(g, J, K \cup {n}, G \cup {n}, P)
  BY <1>0 DEF Core, Seen
<1>6. Lowest(g, J, M, K \cup {n}, G \cup {n})
  <2>1. ASSUME NEW y \in G \cup {n}
        PROVE  M[y] \in Nat /\ M[y] <= J[y] /\ \E z \in K \cup {n} : J[z] = M[y] /\ Leads(g, y, z)
    <3>1. CASE y = n
      BY <1>0, <3>1, LeadsThere
    <3>2. CASE y \in G
      <4>1. L[y] \in Nat /\ L[y] <= I[y] /\ M[y] = L[y]
        BY <3>2 DEF Core, Lowest
      <4>2. PICK z \in K : I[z] = L[y] /\ Leads(g, y, z)
        BY <3>2 DEF Core, Lowest
      <4>3. QED
        BY <1>0, <3>2, <4>1, <4>2
    <3>3. QED
      BY <3>1, <3>2
  <2>2. QED
    BY <2>1 DEF Lowest
<1>7. Bounds(J, M, K \cup {n}, G \cup {n}, P)
  <2>1. ASSUME NEW y \in G \cup {n}, NEW x \in K \cup {n}, NEW w \in K \cup {n},
               <<x, w>> \in P, Nearest(J, G \cup {n}, y, x)
        PROVE  M[y] <= J[w]
    <3>1. x \in K /\ w \in K
      BY <1>0, <2>1 DEF Core, Seen
    <3>2. y # n
      <4>1. J[x] < m
        BY <1>0, <3>1
      <4>2. J[y] <= J[x]
        BY <2>1 DEF Nearest
      <4>3. QED
        BY <1>0, <3>1, <4>1, <4>2
    <3>3. Nearest(I, G, y, x)
      BY <1>0, <2>1, <3>1, <3>2 DEF Nearest
    <3>4. L[y] <= I[w]
      BY <2>1, <3>1, <3>2, <3>3 DEF Core, Bounds
    <3>5. QED
      BY <1>0, <2>1, <3>1, <3>2, <3>4
  <2>2. QED
    BY <2>1 DEF Bounds
<1>8. QED
  BY <1>1, <1>2, <1>3, <1>4, <1>5, <1>6, <1>7 DEF Core

\* The node on top looks at some of its edges.
Looks(g, I, L, K, G, n, W, M) ==
  /\ W \subseteq Dependents(g, n) \cap DOMAIN I
  /\ \A y \in G : y # n => M[y] = L[y]
  /\ M[n] \in Nat /\ M[n] <= L[n] /\ \A w \in W \cap K : M[n] <= I[w]
  /\ M[n] = L[n] \/ \E w \in W \cap K : M[n] = I[w]

LEMMA CoreLooks ==
  ASSUME NEW g, NEW I, NEW L, NEW K, NEW C, NEW G, NEW P, Core(g, I, L, K, C, G, P),
         NEW n, Top(I, G, n), NEW W, NEW M, Looks(g, I, L, K, G, n, W, M)
  PROVE  Core(g, I, M, K, C, G, P \cup {<<n, w>> : w \in W})
<1> DEFINE Q == P \cup {<<n, w>> : w \in W}
<1>0. /\ G \subseteq K /\ K \subseteq DOMAIN I /\ n \in G
      /\ \A x \in DOMAIN I : I[x] \in Nat
      /\ \A y \in G : L[y] \in Nat /\ M[y] \in Nat /\ M[y] <= L[y] /\ L[y] <= I[y]
  BY DEF Core, Numbers, Lowest, Looks, Top
<1>1. Seen(g, I, K, G, Q)
  <2>1. \A x, w : <<x, w>> \in Q => <<x, w>> \in P \/ (x = n /\ w \in W)
    OBVIOUS
  <2>2. \A x, w : <<x, w>> \in P => x \in DOMAIN I /\ w \in DOMAIN I
    BY DEF Core, Seen
  <2>3. \A w \in W : w \in DOMAIN I
    BY DEF Looks
  <2>4. \A x, w : <<x, w>> \in Q => x \in DOMAIN I /\ w \in DOMAIN I
    BY <1>0, <2>1, <2>2, <2>3
  <2>5. \A x \in K \ G : \A w \in Dependents(g, x) : <<x, w>> \in Q
    BY DEF Core, Seen
  <2>6. QED
    BY <2>4, <2>5 DEF Seen
<1>2. Lowest(g, I, M, K, G)
  <2>1. ASSUME NEW y \in G
        PROVE  \E z \in K : I[z] = M[y] /\ Leads(g, y, z)
    <3>1. PICK z \in K : I[z] = L[y] /\ Leads(g, y, z)
      BY DEF Core, Lowest
    <3>2. CASE M[y] = L[y]
      BY <3>1, <3>2
    <3>3. CASE M[y] # L[y]
      <4>1. y = n
        BY <3>3 DEF Looks
      <4>2. PICK w \in W \cap K : M[n] = I[w]
        BY <3>3, <4>1 DEF Looks
      <4>3. Leads(g, n, w)
        BY LeadsThere DEF Looks
      <4>4. QED
        BY <4>1, <4>2, <4>3
    <3>4. QED
      BY <3>2, <3>3
  <2>2. \A y \in G : M[y] \in Nat /\ M[y] <= I[y]
    BY <1>0
  <2>3. QED
    BY <2>1, <2>2 DEF Lowest
<1>3. Bounds(I, M, K, G, Q)
  <2>1. ASSUME NEW y \in G, NEW x \in K, NEW w \in K, <<x, w>> \in Q, Nearest(I, G, y, x)
        PROVE  M[y] <= I[w]
    <3>1. CASE <<x, w>> \in P
      <4>1. L[y] <= I[w]
        BY <2>1, <3>1 DEF Core, Bounds
      <4>2. QED
        BY <1>0, <4>1
    <3>2. CASE x = n /\ w \in W
      <4>1. I[n] <= I[y] /\ I[y] <= I[n]
        BY <1>0, <2>1, <3>2 DEF Nearest, Top
      <4>2. I[n] = I[y]
        BY <1>0, <4>1
      <4>3. y = n
        BY <1>0, <4>2 DEF Core, Numbers
      <4>4. QED
        BY <3>2, <4>3 DEF Looks
    <3>3. QED
      BY <2>1, <3>1, <3>2
  <2>2. QED
    BY <2>1 DEF Bounds
<1>4. QED
  BY <1>1, <1>2, <1>3 DEF Core

\* A node whose lowlink is its own number is the root of its component: what
\* stands from it on the stack.
Above(I, K, n) == {x \in K : I[n] <= I[x]}

LEMMA CoreRoots ==
  ASSUME NEW g, NEW I, NEW L, NEW K, NEW C, NEW G, NEW P, Core(g, I, L, K, C, G, P),
         NEW n, Top(I, G, n), L[n] = I[n], \A w \in Dependents(g, n) : <<n, w>> \in P,
         NEW M, \A y \in G \ {n} : M[y] = L[y],
         NEW Q, \A x, w : <<x, w>> \in Q => <<x, w>> \in P \/ (x \in G /\ w = n), P \subseteq Q
  PROVE  Core(g, I, M, K \ Above(I, K, n), C \cup {Above(I, K, n)}, G \ {n}, Q)
<1> DEFINE A == Above(I, K, n)
<1>0. /\ G \subseteq K /\ K \subseteq DOMAIN I /\ n \in G /\ DOMAIN I \subseteq g.nodes
      /\ \A x \in DOMAIN I : I[x] \in Nat
      /\ \A y \in G : L[y] \in Nat /\ L[y] <= I[y]
      /\ UNION C = DOMAIN I \ K
  BY DEF Core, Numbers, Lowest, Top
<1>1. n \in A /\ A \subseteq K /\ \A x \in K \ A : I[x] < I[n]
  BY <1>0 DEF Above
<1>2. \A y \in G : y # n => I[y] < I[n]
  <2>1. \A y \in G : y # n => I[y] <= I[n] /\ I[y] # I[n]
    BY <1>0 DEF Top, Core, Numbers
  <2>2. QED
    BY <1>0, <2>1
<1>3. \A x \in A : Leads(g, n, x) /\ Leads(g, x, n)
  <2>1. SUFFICES ASSUME NEW x \in A PROVE Leads(g, n, x) /\ Leads(g, x, n)
    OBVIOUS
  <2>2. Leads(g, n, x)
    BY <1>0, <1>1 DEF Above, Core, Reaches
  <2>3. PICK y \in G : Leads(g, x, y)
    BY <1>1 DEF Core, Returns
  <2>4. Leads(g, y, n)
    BY <1>0 DEF Core, Reaches, Top
  <2>5. QED
    BY <2>2, <2>3, <2>4, LeadsOn
<1>4. ClosedSet(g, (UNION C) \cup A)
  <2>1. ASSUME NEW x \in A, NEW w \in Dependents(g, x)
        PROVE  w \in (UNION C) \cup A
    <3>1. <<x, w>> \in P
      <4>1. CASE x = n
        BY <2>1, <4>1
      <4>2. CASE x # n
        <5>1. x \notin G
          BY <1>0, <1>1, <1>2, <4>2 DEF Above
        <5>2. QED
          BY <1>1, <2>1, <5>1 DEF Core, Seen
      <4>3. QED
        BY <4>1, <4>2
    <3>2. w \in DOMAIN I
      BY <3>1 DEF Core, Seen
    <3>3. ASSUME w \in K PROVE w \in A
      <4>1. Nearest(I, G, n, x)
        BY DEF Nearest, Top, Above
      <4>2. L[n] <= I[w]
        BY <1>0, <1>1, <3>1, <3>3, <4>1 DEF Core, Bounds
      <4>3. QED
        BY <3>3, <4>2 DEF Above
    <3>4. QED
      BY <1>0, <3>2, <3>3
  <2>2. ClosedSet(g, UNION C)
    BY DEF Core
  <2>3. QED
    BY <1>0, <1>1, <2>1, <2>2 DEF ClosedSet
<1>5. UNION (C \cup {A}) = (UNION C) \cup A
  OBVIOUS
<1>6. Judged(g, C \cup {A})
  <2>1. ASSUME NEW x \in A, NEW y \in g.nodes
        PROVE  y \in A <=> Leads(g, x, y) /\ Leads(g, y, x)
    <3>1. ASSUME y \in A PROVE Leads(g, x, y) /\ Leads(g, y, x)
      BY <1>3, <3>1, LeadsOn
    <3>2. ASSUME Leads(g, x, y), Leads(g, y, x) PROVE y \in A
      <4>1. y \in (UNION C) \cup A
        BY <1>4, <3>2 DEF Leads
      <4>2. ASSUME y \in UNION C PROVE FALSE
        <5>1. x \in UNION C
          BY <3>2, <4>2 DEF Leads, Core
        <5>2. QED
          BY <1>0, <1>1, <5>1
      <4>3. QED
        BY <4>1, <4>2
    <3>3. QED
      BY <3>1, <3>2
  <2>2. Judged(g, C)
    BY DEF Core
  <2> HIDE DEF A
  <2>3. QED
    BY <2>1, <2>2 DEF Judged
<1> HIDE DEF A
<1>7. Numbers(g, I, K \ A, C \cup {A}, G \ {n})
  <2>1. G \ {n} \subseteq K \ A
    <3>1. \A y \in G : y # n => y \notin A
      BY <1>0, <1>2 DEF A, Above
    <3>2. QED
      BY <1>0, <3>1
  <2>2. UNION (C \cup {A}) = DOMAIN I \ (K \ A)
    BY <1>0, <1>1, <1>5
  <2>3. QED
    BY <1>0, <2>1, <2>2 DEF Core, Numbers
<1>8. Reaches(g, I, K \ A, G \ {n})
  BY DEF Core, Reaches
<1>9. Returns(g, I, K \ A, G \ {n})
  <2>1. ASSUME NEW x \in K \ A
        PROVE  \E y \in G \ {n} : I[y] <= I[x] /\ Leads(g, x, y)
    <3>1. PICK y \in G : I[y] <= I[x] /\ Leads(g, x, y)
      BY DEF Core, Returns
    <3>2. I[x] < I[n]
      BY <1>1
    <3>3. y # n
      BY <1>0, <3>1, <3>2
    <3>4. QED
      BY <3>1, <3>3
  <2>2. QED
    BY <2>1 DEF Returns
<1>10. Seen(g, I, K \ A, G \ {n}, Q)
  <2>1. \A x, w : <<x, w>> \in P => x \in DOMAIN I /\ w \in DOMAIN I
    BY DEF Core, Seen
  <2>2. \A x, w : <<x, w>> \in Q => x \in DOMAIN I /\ w \in DOMAIN I
    BY <1>0, <2>1
  <2>3. ASSUME NEW x \in (K \ A) \ (G \ {n}), NEW w \in Dependents(g, x)
        PROVE  <<x, w>> \in Q
    <3>1. x \in K \ G
      BY <1>1, <2>3
    <3>2. <<x, w>> \in P
      BY <3>1 DEF Core, Seen
    <3>3. QED
      BY <3>2
  <2>4. QED
    BY <2>2, <2>3 DEF Seen
<1>11. Lowest(g, I, M, K \ A, G \ {n})
  <2>1. ASSUME NEW y \in G \ {n}
        PROVE  M[y] \in Nat /\ M[y] <= I[y] /\ \E z \in K \ A : I[z] = M[y] /\ Leads(g, y, z)
    <3>1. PICK z \in K : I[z] = L[y] /\ Leads(g, y, z)
      BY DEF Core, Lowest
    <3>2. I[z] < I[n]
      BY <1>0, <1>2, <3>1
    <3>3. z \notin A
      BY <1>0, <3>2 DEF A, Above
    <3>4. QED
      BY <1>0, <3>1, <3>3
  <2>2. QED
    BY <2>1 DEF Lowest
<1>12. Bounds(I, M, K \ A, G \ {n}, Q)
  <2>1. ASSUME NEW y \in G \ {n}, NEW x \in K \ A, NEW w \in K \ A, <<x, w>> \in Q,
               Nearest(I, G \ {n}, y, x)
        PROVE  M[y] <= I[w]
    <3>1. <<x, w>> \in P
      BY <1>1, <2>1
    <3>2. ~(I[n] <= I[x])
      BY <1>0, <1>1
    <3>3. Nearest(I, G, y, x)
      BY <2>1, <3>2 DEF Nearest
    <3>4. QED
      BY <2>1, <3>1, <3>3 DEF Core, Bounds
  <2>2. QED
    BY <2>1 DEF Bounds
<1>13. Core(g, I, M, K \ A, C \cup {A}, G \ {n}, Q)
  BY <1>4, <1>5, <1>6, <1>7, <1>8, <1>9, <1>10, <1>11, <1>12 DEF Core
<1>14. QED
  BY <1>13 DEF A

\* A node that is not a root has one in hand below it.
LEMMA NoRootIsLowest ==
  ASSUME NEW g, NEW I, NEW L, NEW K, NEW C, NEW G, NEW P, Core(g, I, L, K, C, G, P),
         NEW n, Top(I, G, n), L[n] # I[n]
  PROVE  \E u \in G \ {n} : Leads(g, n, u)
<1>1. n \in G /\ L[n] \in Nat /\ L[n] <= I[n] /\ G \subseteq DOMAIN I /\ K \subseteq DOMAIN I
  BY DEF Core, Lowest, Top, Numbers
<1>2. PICK z \in K : I[z] = L[n] /\ Leads(g, n, z)
  BY <1>1 DEF Core, Lowest
<1>3. PICK u \in G : I[u] <= I[z] /\ Leads(g, z, u)
  BY DEF Core, Returns
<1>4. I[n] \in Nat /\ I[z] \in Nat /\ I[u] \in Nat
  BY <1>1, <1>2 DEF Core, Numbers
<1>5. u # n
  BY <1>1, <1>2, <1>3, <1>4
<1>6. QED
  BY <1>2, <1>3, <1>5, LeadsOn

\* The node below the top hears of its lowlink.
Hears(L, M, G, n, p) ==
  /\ \A y \in G : y # n /\ y # p => M[y] = L[y]
  /\ M[p] \in Nat /\ M[p] <= L[p] /\ M[p] <= L[n] /\ (M[p] = L[p] \/ M[p] = L[n])

LEMMA CoreLeaves ==
  ASSUME NEW g, NEW I, NEW L, NEW K, NEW C, NEW G, NEW P, Core(g, I, L, K, C, G, P),
         NEW n, Top(I, G, n), L[n] # I[n], \A w \in Dependents(g, n) : <<n, w>> \in P,
         NEW p, Top(I, G \ {n}, p), n \in Dependents(g, p),
         NEW M, Hears(L, M, G, n, p)
  PROVE  Core(g, I, M, K, C, G \ {n}, P \cup {<<p, n>>})
<1> DEFINE Q == P \cup {<<p, n>>}
<1>0. /\ G \subseteq K /\ K \subseteq DOMAIN I /\ n \in G /\ p \in G /\ p # n
      /\ \A x \in DOMAIN I : I[x] \in Nat
      /\ \A y \in G : L[y] \in Nat /\ L[y] <= I[y]
  BY DEF Core, Numbers, Lowest, Top
<1>1. \A y \in G : y # n => I[y] < I[n] /\ I[y] <= I[p]
  <2>1. \A y \in G : y # n => I[y] <= I[n] /\ I[y] # I[n] /\ I[y] <= I[p]
    BY <1>0 DEF Top, Core, Numbers
  <2>2. QED
    BY <1>0, <2>1
<1>2. Numbers(g, I, K, C, G \ {n}) /\ Judged(g, C) /\ ClosedSet(g, UNION C)
  BY DEF Core, Numbers
<1>3. Reaches(g, I, K, G \ {n})
  BY DEF Core, Reaches
<1>4. Returns(g, I, K, G \ {n})
  <2>1. ASSUME NEW x \in K
        PROVE  \E y \in G \ {n} : I[y] <= I[x] /\ Leads(g, x, y)
    <3>1. PICK y \in G : I[y] <= I[x] /\ Leads(g, x, y)
      BY DEF Core, Returns
    <3>2. CASE y # n
      BY <3>1, <3>2
    <3>3. CASE y = n
      <4>1. PICK u \in G \ {n} : Leads(g, n, u)
        BY NoRootIsLowest
      <4>2. Leads(g, x, u)
        BY <3>1, <3>3, <4>1, LeadsOn
      <4>3. I[u] <= I[x]
        BY <1>0, <1>1, <3>1, <3>3
      <4>4. QED
        BY <4>2, <4>3
    <3>4. QED
      BY <3>2, <3>3
  <2>2. QED
    BY <2>1 DEF Returns
<1>5. Seen(g, I, K, G \ {n}, Q)
  <2>1. \A x, w : <<x, w>> \in P => x \in DOMAIN I /\ w \in DOMAIN I
    BY DEF Core, Seen
  <2>2. \A x, w : <<x, w>> \in Q => <<x, w>> \in P \/ (x = p /\ w = n)
    OBVIOUS
  <2>3. \A x, w : <<x, w>> \in Q => x \in DOMAIN I /\ w \in DOMAIN I
    BY <1>0, <2>1, <2>2
  <2>4. ASSUME NEW x \in K \ (G \ {n}), NEW w \in Dependents(g, x)
        PROVE  <<x, w>> \in P
    <3>1. CASE x = n
      BY <2>4, <3>1
    <3>2. CASE x # n
      BY <2>4, <3>2 DEF Core, Seen
    <3>3. QED
      BY <3>1, <3>2
  <2>5. QED
    BY <2>3, <2>4 DEF Seen
<1>6. Lowest(g, I, M, K, G \ {n})
  <2>1. ASSUME NEW y \in G \ {n}
        PROVE  M[y] \in Nat /\ M[y] <= L[y] /\ \E z \in K : I[z] = M[y] /\ Leads(g, y, z)
    <3>1. PICK z \in K : I[z] = L[y] /\ Leads(g, y, z)
      BY DEF Core, Lowest
    <3>2. CASE M[y] = L[y]
      BY <1>0, <3>1, <3>2
    <3>3. CASE M[y] # L[y]
      <4>1. y = p /\ M[y] = L[n] /\ M[y] \in Nat /\ M[y] <= L[y]
        BY <3>3 DEF Hears
      <4>2. PICK v \in K : I[v] = L[n] /\ Leads(g, n, v)
        BY <1>0 DEF Core, Lowest
      <4>3. Leads(g, p, n)
        BY LeadsThere
      <4>4. QED
        BY <4>1, <4>2, <4>3, LeadsOn
    <3>4. QED
      BY <3>2, <3>3
  <2>2. ASSUME NEW y \in G \ {n}
        PROVE  M[y] \in Nat /\ M[y] <= I[y] /\ \E z \in K : I[z] = M[y] /\ Leads(g, y, z)
    BY <1>0, <2>1
  <2>3. QED
    BY <2>2 DEF Lowest
<1>7. Bounds(I, M, K, G \ {n}, Q)
  <2>0. ASSUME NEW y \in G \ {n}
        PROVE  M[y] \in Nat /\ M[y] <= L[y]
    <3>1. CASE y = p
      BY <3>1 DEF Hears
    <3>2. CASE y # p
      BY <1>0, <3>2 DEF Hears
    <3>3. QED
      BY <3>1, <3>2
  <2>1. ASSUME NEW y \in G \ {n}, NEW x \in K, NEW w \in K, <<x, w>> \in Q,
               Nearest(I, G \ {n}, y, x)
        PROVE  M[y] <= I[w]
    <3>1. CASE <<x, w>> \in P /\ ~(I[n] <= I[x])
      <4>1. Nearest(I, G, y, x)
        BY <2>1, <3>1 DEF Nearest
      <4>2. L[y] <= I[w]
        BY <2>1, <3>1, <4>1 DEF Core, Bounds
      <4>3. QED
        BY <1>0, <2>0, <4>2
    <3>2. CASE <<x, w>> \in P /\ I[n] <= I[x]
      <4>1. Nearest(I, G, n, x)
        BY <3>2 DEF Nearest, Top
      <4>2. L[n] <= I[w]
        BY <1>0, <3>2, <4>1 DEF Core, Bounds
      <4>3. I[p] <= I[x]
        BY <1>0, <1>1, <3>2
      <4>4. I[p] <= I[y]
        BY <1>0, <2>1, <4>3 DEF Nearest
      <4>5. I[y] <= I[p]
        BY <1>1
      <4>6. y = p
        BY <1>0, <4>4, <4>5 DEF Core, Numbers
      <4>7. M[p] <= L[n]
        BY DEF Hears
      <4>8. QED
        BY <1>0, <2>0, <4>2, <4>6, <4>7
    <3>3. CASE x = p /\ w = n
      <4>1. I[p] <= I[y]
        BY <1>0, <2>1, <3>3 DEF Nearest
      <4>2. y = p
        BY <1>0, <1>1, <4>1 DEF Core, Numbers
      <4>3. M[p] <= L[n]
        BY DEF Hears
      <4>4. QED
        BY <1>0, <2>0, <3>3, <4>2, <4>3
    <3>4. QED
      BY <2>1, <3>1, <3>2, <3>3
  <2>2. QED
    BY <2>1 DEF Bounds
<1>8. QED
  BY <1>2, <1>3, <1>4, <1>5, <1>6, <1>7 DEF Core

-----------------------------------------------------------------------------
\* The walk's record: what it has met, what is on its stack, and the nodes it
\* is in the midst of.
IsWalk(t) ==
  t = [work |-> t.work, index |-> t.index, low |-> t.low, stack |-> t.stack,
       components |-> t.components]

Met(t) == DOMAIN t.index
Held(t) == {t.stack[i] : i \in DOMAIN t.stack}
Frames(t) == {t.work[i].node : i \in DOMAIN t.work}
InHand(t) == Frames(t) \cap Met(t)

Successors(g, n) == Ascending(Dependents(g, n))

\* A frame stands at the edge to the frame above it, and the frames were met
\* one after the other.
Nested(g, w, I) ==
  /\ w \in Seq([node : g.nodes, pos : Nat])
  /\ \A i \in DOMAIN w : i < Len(w) =>
       /\ w[i].node \in DOMAIN I
       /\ w[i].pos \in DOMAIN Successors(g, w[i].node)
       /\ Successors(g, w[i].node)[w[i].pos] = w[i + 1].node
  /\ \A i, j \in DOMAIN w : i < j /\ w[j].node \in DOMAIN I => I[w[i].node] < I[w[j].node]

\* The edges before the one a frame stands at have been looked at, and those
\* the top has passed.
Passed(g, w, P) ==
  \A i \in DOMAIN w : \A k \in DOMAIN Successors(g, w[i].node) :
    k < w[i].pos \/ (k = w[i].pos /\ i = Len(w)) => <<w[i].node, Successors(g, w[i].node)[k]>> \in P

\* The stack is in the order of the meetings, which are numbered from 0.
Rising(t) ==
  /\ t.stack \in Seq(Met(t))
  /\ \A i, j \in DOMAIN t.stack : i < j => t.index[t.stack[i]] < t.index[t.stack[j]]
  /\ \A x \in Met(t) : t.index[x] < Cardinality(Met(t))
  /\ DOMAIN t.low = Met(t)

Walking(g, t, P) ==
  /\ IsWalk(t)
  /\ Core(g, t.index, t.low, Held(t), t.components, InHand(t), P)
  /\ Nested(g, t.work, t.index) /\ Passed(g, t.work, P) /\ Rising(t)

AtTop(t, n) == t.work # <<>> /\ t.work[Len(t.work)].node = n

LEMMA Elements ==
  ASSUME NEW S, NEW s \in Seq(S)
  PROVE  \A i \in DOMAIN s : s[i] \in S
OBVIOUS

LEMMA FrontFacts ==
  ASSUME NEW S, NEW s \in Seq(S), s # <<>>
  PROVE  /\ Len(s) \in Nat /\ Len(s) >= 1 /\ Len(s) \in DOMAIN s /\ s[Len(s)] \in S
         /\ SubSeq(s, 1, Len(s) - 1) \in Seq(S)
         /\ Len(SubSeq(s, 1, Len(s) - 1)) = Len(s) - 1
         /\ DOMAIN SubSeq(s, 1, Len(s) - 1) = 1..(Len(s) - 1)
         /\ \A i \in 1..(Len(s) - 1) : SubSeq(s, 1, Len(s) - 1)[i] = s[i] /\ i \in DOMAIN s
<1>1. Len(s) \in Nat /\ Len(s) >= 1 /\ DOMAIN s = 1..Len(s) /\ \A i \in DOMAIN s : s[i] \in S
  OBVIOUS
<1>2. PICK k : k = Len(s) - 1 /\ k \in Nat /\ k <= Len(s)
  BY <1>1
<1>3. SubSeq(s, 1, k) = [i \in 1..k |-> s[i]]
  BY <1>1, <1>2
<1>4. \A i \in 1..k : i \in DOMAIN s /\ s[i] \in S
  BY <1>1, <1>2
<1>5. [i \in 1..k |-> s[i]] \in Seq(S) /\ Len([i \in 1..k |-> s[i]]) = k
  BY <1>2, <1>4
<1>6. QED
  BY <1>1, <1>2, <1>3, <1>4, <1>5

LEMMA SuccessorsAre ==
  ASSUME NEW g, Graphic(g), NEW n
  PROVE  /\ Successors(g, n) \in Seq(Dependents(g, n))
         /\ \A m \in Dependents(g, n) : \E k \in DOMAIN Successors(g, n) : Successors(g, n)[k] = m
<1>1. Dependents(g, n) \subseteq g.nodes
  BY Neighbours
<1>2. Dependents(g, n) \subseteq Nat /\ IsFiniteSet(Dependents(g, n))
  BY <1>1, FS_Subset DEF Graphic
<1>3. QED
  BY <1>2, AscendingLists DEF Successors

\* The frames in hand lead to the one on top of the work.
LEMMA HandLeadsUp ==
  ASSUME NEW g, Graphic(g), NEW t, NEW P, Walking(g, t, P), NEW n, AtTop(t, n)
  PROVE  /\ \A y \in InHand(t) : Leads(g, y, n)
         /\ n \in g.nodes /\ n \in Frames(t)
         /\ n \in Met(t) => Top(t.index, InHand(t), n)
<1> DEFINE w == t.work
           I == t.index
<1>0. /\ w \in Seq([node : g.nodes, pos : Nat]) /\ w # <<>> /\ w[Len(w)].node = n
      /\ Len(w) \in DOMAIN w /\ Len(w) \in Nat /\ DOMAIN w = 1..Len(w)
  BY DEF Walking, Nested, AtTop
<1>1. \A i, j \in DOMAIN w : i < j /\ w[j].node \in DOMAIN I => I[w[i].node] < I[w[j].node]
  BY DEF Walking, Nested
<1>2. \A i \in DOMAIN w : i < Len(w) =>
        /\ w[i].node \in DOMAIN I
        /\ w[i].pos \in DOMAIN Successors(g, w[i].node)
        /\ Successors(g, w[i].node)[w[i].pos] = w[i + 1].node
  BY DEF Walking, Nested
<1>3. \A x \in DOMAIN I : I[x] \in Nat
  BY DEF Walking, Core, Numbers
<1>4. n \in g.nodes /\ n \in Frames(t)
  <2>1. w[Len(w)] \in [node : g.nodes, pos : Nat]
    BY <1>0, FrontFacts
  <2>2. QED
    BY <1>0, <2>1 DEF Frames
<1>5. ASSUME NEW y \in InHand(t) PROVE Leads(g, y, n)
  <2>1. PICK i \in DOMAIN w : y = w[i].node /\ y \in DOMAIN I
    BY DEF InHand, Frames, Met
  <2>2. CASE i = Len(w)
    BY <1>0, <2>1, <2>2, LeadsThere
  <2>3. CASE i < Len(w)
    <3>1. PICK j \in DOMAIN w : j + 1 = Len(w) /\ i <= j
      <4>1. Len(w) - 1 \in DOMAIN w /\ i <= Len(w) - 1
        <5>1. PICK l \in Nat : l = Len(w) /\ DOMAIN w = 1..l
          BY <1>0
        <5>2. i \in 1..l /\ i < l
          BY <2>3, <5>1
        <5>3. l - 1 \in 1..l /\ i <= l - 1
          BY <5>1, <5>2
        <5>4. QED
          BY <5>1, <5>3
      <4>2. Len(w) - 1 + 1 = Len(w)
        BY <1>0
      <4>3. QED
        BY <4>1, <4>2
    <3>2. PICK q : q = w[j].node /\ q \in DOMAIN I
      BY <1>0, <1>2, <3>1
    <3>3. n \in Dependents(g, q)
      <4>1. w[j].pos \in DOMAIN Successors(g, q) /\ Successors(g, q)[w[j].pos] = n
        BY <1>0, <1>2, <3>1, <3>2
      <4>2. Successors(g, q) \in Seq(Dependents(g, q))
        BY SuccessorsAre
      <4>3. QED
        BY <4>1, <4>2
    <3>4. Leads(g, q, n)
      BY <3>3, LeadsThere
    <3>5. I[y] <= I[q]
      <4>1. CASE i = j
        BY <1>3, <2>1, <3>2, <4>1
      <4>2. CASE i < j
        BY <1>1, <1>3, <2>1, <3>2, <4>2
      <4>3. QED
        BY <1>0, <3>1, <4>1, <4>2
    <3>6. q \in Held(t)
      <4>1. q \in InHand(t)
        BY <3>2 DEF InHand, Frames, Met
      <4>2. QED
        BY <4>1 DEF Walking, Core, Numbers
    <3>7. Leads(g, y, q)
      BY <1>5, <3>5, <3>6 DEF Walking, Core, Reaches
    <3>8. QED
      BY <3>4, <3>7, LeadsOn
  <2>4. QED
    BY <1>0, <2>2, <2>3
<1>6. ASSUME n \in Met(t) PROVE Top(t.index, InHand(t), n)
  <2>1. n \in InHand(t)
    BY <1>4, <1>6 DEF InHand
  <2>2. ASSUME NEW y \in InHand(t) PROVE I[y] <= I[n]
    <3>1. PICK i \in DOMAIN w : y = w[i].node /\ y \in DOMAIN I
      BY DEF InHand, Frames, Met
    <3>2. CASE i = Len(w)
      BY <1>0, <1>3, <3>1, <3>2
    <3>3. CASE i < Len(w)
      <4>1. Len(w) \in DOMAIN w /\ w[Len(w)].node = n /\ n \in DOMAIN I
        BY <1>0, <1>6 DEF Met
      <4>2. I[y] < I[n]
        BY <1>1, <3>1, <3>3, <4>1
      <4>3. I[y] \in Nat /\ I[n] \in Nat
        BY <1>3, <3>1, <4>1
      <4>4. QED
        BY <4>2, <4>3
    <3>4. QED
      BY <1>0, <3>2, <3>3
  <2>3. QED
    BY <2>1, <2>2 DEF Top
<1>7. QED
  BY <1>4, <1>5, <1>6

LEMMA MetIsFinite ==
  ASSUME NEW g, Graphic(g), NEW t, NEW P, Walking(g, t, P)
  PROVE  IsFiniteSet(Met(t)) /\ Cardinality(Met(t)) \in Nat /\ Met(t) \subseteq g.nodes
<1>1. Met(t) \subseteq g.nodes
  BY DEF Walking, Core, Numbers, Met
<1>2. IsFiniteSet(Met(t))
  BY <1>1, FS_Subset DEF Graphic
<1>3. QED
  BY <1>1, <1>2, FS_CardinalityType

LEMMA EnterWalks ==
  ASSUME NEW g, Graphic(g), NEW t, NEW P, Walking(g, t, P), NEW n, AtTop(t, n), n \notin Met(t)
  PROVE  /\ Walking(g, Enter(t, n), P)
         /\ Met(Enter(t, n)) = Met(t) \cup {n} /\ Enter(t, n).work = t.work
<1>1. PICK m \in Nat : m = Cardinality(Met(t))
  BY MetIsFinite
<1>2. PICK J : J = [x \in DOMAIN t.index \cup {n} |-> IF x = n THEN m ELSE t.index[x]]
  OBVIOUS
<1>3. PICK M : M = [x \in DOMAIN t.low \cup {n} |-> IF x = n THEN m ELSE t.low[x]]
  OBVIOUS
<1>4. PICK u : u = Enter(t, n)
  OBVIOUS
<1>5. /\ u.work = t.work /\ u.index = J /\ u.low = M /\ u.stack = Append(t.stack, n)
      /\ u.components = t.components /\ IsWalk(u)
  <2>1. u = [t EXCEPT !.index = J, !.low = M, !.stack = Append(@, n)]
    BY <1>1, <1>2, <1>3, <1>4 DEF Enter, Met
  <2>2. t = [work |-> t.work, index |-> t.index, low |-> t.low, stack |-> t.stack,
             components |-> t.components]
    BY DEF Walking, IsWalk
  <2>3. u = [work |-> t.work, index |-> J, low |-> M, stack |-> Append(t.stack, n),
             components |-> t.components]
    BY <2>1, <2>2
  <2>4. QED
    BY <2>3 DEF IsWalk
<1>6. Met(u) = Met(t) \cup {n}
  BY <1>2, <1>5 DEF Met
<1>7. /\ t.stack \in Seq(Met(t)) /\ DOMAIN t.low = Met(t)
      /\ \A i, j \in DOMAIN t.stack : i < j => t.index[t.stack[i]] < t.index[t.stack[j]]
      /\ \A x \in Met(t) : t.index[x] < m /\ J[x] = t.index[x] /\ M[x] = t.low[x]
      /\ J[n] = m /\ M[n] = m /\ DOMAIN M = Met(u)
  BY <1>1, <1>2, <1>3, <1>6 DEF Walking, Rising, Met
<1>8. /\ u.stack \in Seq(Met(u)) /\ DOMAIN u.stack = DOMAIN t.stack \cup {Len(t.stack) + 1}
      /\ \A i \in DOMAIN t.stack : u.stack[i] = t.stack[i] /\ t.stack[i] \in Met(t)
                                   /\ i \in Nat /\ i < Len(t.stack) + 1
      /\ u.stack[Len(t.stack) + 1] = n
  <2>1. PICK s : s = t.stack
    OBVIOUS
  <2>2. /\ s \in Seq(Met(t)) /\ s \in Seq(Met(u)) /\ n \in Met(u)
        /\ \A i \in DOMAIN s : s[i] \in Met(t)
    BY <1>6, <1>7, <2>1
  <2>3. /\ Append(s, n) \in Seq(Met(u))
        /\ DOMAIN Append(s, n) = DOMAIN s \cup {Len(s) + 1}
        /\ \A i \in DOMAIN s : Append(s, n)[i] = s[i]
        /\ Append(s, n)[Len(s) + 1] = n
        /\ \A i \in DOMAIN s : i \in Nat /\ i < Len(s) + 1
    BY <2>2, AppendFacts
  <2>4. QED
    BY <1>5, <2>1, <2>2, <2>3
<1>9. Held(u) = Held(t) \cup {n}
  BY <1>8 DEF Held
<1>10. n \in Frames(t) /\ n \in g.nodes /\ \A y \in InHand(t) : Leads(g, y, n)
  BY HandLeadsUp
<1>11. InHand(u) = InHand(t) \cup {n}
  BY <1>5, <1>6, <1>10 DEF InHand, Frames
<1>12. Core(g, u.index, u.low, Held(u), u.components, InHand(u), P)
  <2>1. Core(g, t.index, t.low, Held(t), t.components, InHand(t), P)
    BY DEF Walking
  <2>2. \A x \in DOMAIN t.index : t.index[x] < m
    BY <1>7 DEF Met
  <2>3. Extends(t.index, J, n, m)
    BY <1>2, <1>7 DEF Extends, Met
  <2>4. M[n] = m /\ \A x \in InHand(t) : M[x] = t.low[x]
    BY <1>7 DEF InHand
  <2>5. n \notin DOMAIN t.index
    BY DEF Met
  <2>6. Core(g, J, M, Held(t) \cup {n}, t.components, InHand(t) \cup {n}, P)
    BY <1>10, <2>1, <2>2, <2>3, <2>4, <2>5, CoreEnters
  <2>7. QED
    BY <1>5, <1>9, <1>11, <2>6
<1>13. Nested(g, u.work, u.index)
  <2>1. PICK w : w = t.work
    OBVIOUS
  <2>2. /\ Nested(g, w, t.index) /\ w # <<>> /\ w[Len(w)].node = n
        /\ w \in Seq([node : g.nodes, pos : Nat])
    BY <2>1 DEF Walking, AtTop, Nested
  <2>3. ASSUME NEW i \in DOMAIN w, NEW j \in DOMAIN w, i < j, w[j].node \in DOMAIN J
        PROVE  J[w[i].node] < J[w[j].node]
    <3>1. i < Len(w) /\ w[i].node \in DOMAIN t.index
      BY <2>2, <2>3 DEF Nested
    <3>2. CASE w[j].node \in DOMAIN t.index
      BY <1>7, <2>2, <2>3, <3>1, <3>2 DEF Nested, Met
    <3>3. CASE w[j].node = n
      BY <1>7, <3>1, <3>3 DEF Met
    <3>4. QED
      BY <1>2, <2>3, <3>2, <3>3
  <2>4. Nested(g, w, J)
    BY <1>2, <2>2, <2>3 DEF Nested
  <2>5. QED
    BY <1>5, <2>1, <2>4
<1>14. Passed(g, u.work, P)
  BY <1>5 DEF Walking
<1>15. Rising(u)
  <2>1. ASSUME NEW i \in DOMAIN u.stack, NEW j \in DOMAIN u.stack, i < j
        PROVE  J[u.stack[i]] < J[u.stack[j]]
    <3>1. i \in DOMAIN t.stack
      BY <1>7, <1>8, <2>1
    <3>2. CASE j \in DOMAIN t.stack
      BY <1>7, <1>8, <2>1, <3>1, <3>2
    <3>3. CASE j = Len(t.stack) + 1
      BY <1>7, <1>8, <3>1, <3>3
    <3>4. QED
      BY <1>8, <2>1, <3>2, <3>3
  <2>2. Cardinality(Met(u)) = m + 1
    BY <1>1, <1>6, MetIsFinite, FS_AddElement
  <2>3. \A x \in Met(u) : J[x] < m + 1
    <3>1. \A x \in Met(t) : t.index[x] \in Nat
      BY DEF Walking, Core, Numbers, Met
    <3>2. QED
      BY <1>6, <1>7, <3>1
  <2>4. QED
    BY <1>5, <1>7, <1>8, <2>1, <2>2, <2>3 DEF Rising
<1>16. Walking(g, u, P)
  BY <1>5, <1>12, <1>13, <1>14, <1>15 DEF Walking
<1>17. QED
  BY <1>4, <1>5, <1>6, <1>16

\* The edges after one and up to another are looked at.
Looked(g, t, n, from, r) ==
  {t.index[Successors(g, n)[i]] : i \in {j \in (from + 1)..r : OnStack(t, Successors(g, n)[j])}}

LookOn(g, t, n, from, r) == [t EXCEPT !.low = Lowered(@, n, Looked(g, t, n, from, r))]

LEMMA LookWalks ==
  ASSUME NEW g, Graphic(g), NEW t, NEW P, Walking(g, t, P), NEW n, AtTop(t, n), n \in Met(t),
         NEW r \in 0..Len(Successors(g, n)), NEW from \in Nat, from = t.work[Len(t.work)].pos,
         \A k \in (from + 1)..r : Successors(g, n)[k] \in Met(t)
  PROVE  \E Q : /\ Walking(g, LookOn(g, t, n, from, r), Q)
                /\ \A k \in 1..r : <<n, Successors(g, n)[k]>> \in Q
<1>1. PICK s : s = Successors(g, n)
  OBVIOUS
<1>2. PICK seen : seen = {t.index[s[i]] : i \in {j \in (from + 1)..r : OnStack(t, s[j])}}
  OBVIOUS
<1>3. PICK u : u = LookOn(g, t, n, from, r)
  OBVIOUS
<1>4. PICK M : M = [t.low EXCEPT ![n] = Min({t.low[n]} \cup seen)]
  OBVIOUS
<1>5. /\ u.work = t.work /\ u.index = t.index /\ u.low = M /\ u.stack = t.stack
      /\ u.components = t.components /\ IsWalk(u)
  <2>1. u = [t EXCEPT !.low = M]
    BY <1>1, <1>2, <1>3, <1>4 DEF LookOn, Looked, Lowered
  <2>2. t = [work |-> t.work, index |-> t.index, low |-> t.low, stack |-> t.stack,
             components |-> t.components]
    BY DEF Walking, IsWalk
  <2>3. u = [work |-> t.work, index |-> t.index, low |-> M, stack |-> t.stack,
             components |-> t.components]
    BY <2>1, <2>2
  <2>4. QED
    BY <2>3 DEF IsWalk
<1>6. Met(u) = Met(t) /\ Held(u) = Held(t) /\ InHand(u) = InHand(t)
  BY <1>5 DEF Met, Held, InHand, Frames
<1>7. Core(g, t.index, t.low, Held(t), t.components, InHand(t), P) /\ DOMAIN t.low = Met(t)
  BY DEF Walking, Rising
<1>8. Top(t.index, InHand(t), n)
  BY HandLeadsUp
<1>9. s \in Seq(Dependents(g, n)) /\ DOMAIN s = 1..Len(s) /\ Len(s) \in Nat
  BY <1>1, SuccessorsAre
<1>10. PICK W : W = {s[k] : k \in (from + 1)..r}
  OBVIOUS
<1>11. W \subseteq Dependents(g, n) \cap Met(t)
  <2>1. \A k \in (from + 1)..r : k \in DOMAIN s /\ s[k] \in Met(t)
    BY <1>1, <1>9
  <2>2. QED
    BY <1>9, <1>10, <2>1
<1>12. seen = {t.index[x] : x \in W \cap Held(t)}
  <2>1. \A x : OnStack(t, x) <=> x \in Held(t)
    BY DEF OnStack, Held
  <2>2. QED
    BY <1>2, <1>10, <2>1
<1>13. /\ t.low[n] \in Nat /\ \A x \in Met(t) : t.index[x] \in Nat
       /\ n \in InHand(t)
  BY <1>7, <1>8 DEF Core, Lowest, Numbers, Top, Met
<1>14. PICK low : low = Min({t.low[n]} \cup seen) /\ low \in {t.low[n]} \cup seen
                  /\ \A y \in {t.low[n]} \cup seen : low <= y
  <2>1. {t.low[n]} \cup seen \subseteq Nat
    BY <1>11, <1>12, <1>13
  <2>2. PICK T : T = {t.low[n]} \cup seen
    OBVIOUS
  <2>3. T \subseteq Nat /\ T # {}
    BY <2>1, <2>2
  <2>4. Min(T) \in T /\ \A y \in T : Min(T) <= y
    BY <2>3, MinIsLeast
  <2>5. QED
    BY <2>2, <2>4
<1>15. M[n] = low /\ DOMAIN M = Met(t) /\ \A x \in Met(t) : x # n => M[x] = t.low[x]
  BY <1>4, <1>7, <1>14
<1>16. Looks(g, t.index, t.low, Held(t), InHand(t), n, W, M)
  <2>1. W \subseteq Dependents(g, n) \cap DOMAIN t.index
    BY <1>11 DEF Met
  <2>2. \A y \in InHand(t) : y # n => M[y] = t.low[y]
    BY <1>15 DEF InHand
  <2>3. low \in Nat
    BY <1>11, <1>12, <1>13, <1>14
  <2>4. low <= t.low[n] /\ \A x \in W \cap Held(t) : low <= t.index[x]
    BY <1>12, <1>14
  <2>5. low = t.low[n] \/ \E x \in W \cap Held(t) : low = t.index[x]
    BY <1>12, <1>14
  <2>6. QED
    BY <1>15, <2>1, <2>2, <2>3, <2>4, <2>5 DEF Looks
<1>17. PICK Q : Q = P \cup {<<n, x>> : x \in W}
  OBVIOUS
<1>18. Core(g, t.index, M, Held(t), t.components, InHand(t), Q)
  BY <1>7, <1>8, <1>16, <1>17, CoreLooks
<1>19. Walking(g, u, Q)
  <2>1. Core(g, u.index, u.low, Held(u), u.components, InHand(u), Q)
    BY <1>5, <1>6, <1>18
  <2>2. Nested(g, u.work, u.index)
    BY <1>5 DEF Walking
  <2>3. Passed(g, u.work, Q)
    <3>1. Passed(g, t.work, P)
      BY DEF Walking
    <3>2. QED
      BY <1>5, <1>17, <3>1 DEF Passed
  <2>4. Rising(u)
    <3>1. Rising(t)
      BY DEF Walking
    <3>2. QED
      BY <1>5, <1>6, <1>15, <3>1 DEF Rising
  <2>5. QED
    BY <1>5, <2>1, <2>2, <2>3, <2>4 DEF Walking
<1>20. ASSUME NEW k \in 1..r PROVE <<n, s[k]>> \in Q
  <2>1. CASE k \in (from + 1)..r
    BY <1>10, <1>17, <2>1
  <2>2. CASE k <= from
    <3>1. k \in DOMAIN s
      BY <1>1, <1>9, <1>20
    <3>2. /\ t.work \in Seq([node : g.nodes, pos : Nat]) /\ t.work # <<>>
          /\ t.work[Len(t.work)].node = n
      BY DEF Walking, Nested, AtTop
    <3>3. Len(t.work) \in DOMAIN t.work
      BY <3>2, FrontFacts
    <3>4. k < from \/ k = from
      BY <1>20, <2>2
    <3>5. <<n, s[k]>> \in P
      BY <1>1, <3>1, <3>2, <3>3, <3>4 DEF Walking, Passed
    <3>6. QED
      BY <1>17, <3>5
  <2>3. QED
    BY <1>20, <2>1, <2>2
<1>21. QED
  BY <1>1, <1>3, <1>19, <1>20

\* The top goes on to a node that was never met.
GoOn(u, n, r, m) ==
  [u EXCEPT !.work = Append(Append(SubSeq(@, 1, Len(@) - 1), Frame(n, r + 1)), Frame(m, 0))]

\* What the work then looks like.
Pushed(w, x, n, r, m) ==
  /\ Len(x) = Len(w) + 1 /\ DOMAIN x = 1..(Len(w) + 1)
  /\ \A i \in 1..(Len(w) - 1) : x[i] = w[i]
  /\ x[Len(w)].node = n /\ x[Len(w)].pos = r + 1
  /\ x[Len(w) + 1].node = m /\ x[Len(w) + 1].pos = 0

LEMMA WorkIsPushed ==
  ASSUME NEW N, NEW w \in Seq([node : N, pos : Nat]), w # <<>>, NEW n \in N, NEW m \in N,
         NEW r \in Nat
  PROVE  /\ Append(Append(SubSeq(w, 1, Len(w) - 1), Frame(n, r + 1)), Frame(m, 0))
              \in Seq([node : N, pos : Nat])
         /\ Pushed(w, Append(Append(SubSeq(w, 1, Len(w) - 1), Frame(n, r + 1)), Frame(m, 0)),
                   n, r, m)
<1>1. PICK S : S = [node : N, pos : Nat]
  OBVIOUS
<1>2. PICK f \in S : f = Frame(n, r + 1) /\ f.node = n /\ f.pos = r + 1
  <2>1. Frame(n, r + 1) \in S
    BY <1>1 DEF Frame
  <2>2. Frame(n, r + 1).node = n /\ Frame(n, r + 1).pos = r + 1
    BY DEF Frame
  <2>3. QED
    BY <2>1, <2>2
<1>3. PICK h \in S : h = Frame(m, 0) /\ h.node = m /\ h.pos = 0
  <2>1. Frame(m, 0) \in S
    BY <1>1 DEF Frame
  <2>2. Frame(m, 0).node = m /\ Frame(m, 0).pos = 0
    BY DEF Frame
  <2>3. QED
    BY <2>1, <2>2
<1>4. PICK b : b = SubSeq(w, 1, Len(w) - 1)
  OBVIOUS
<1>5. /\ Len(w) \in Nat /\ Len(w) >= 1 /\ b \in Seq(S) /\ Len(b) = Len(w) - 1
      /\ DOMAIN b = 1..(Len(w) - 1) /\ \A i \in 1..(Len(w) - 1) : b[i] = w[i]
  BY <1>1, <1>4, FrontFacts
<1>6. PICK c : c = Append(b, f)
  OBVIOUS
<1>7. /\ c \in Seq(S) /\ Len(c) = Len(b) + 1 /\ DOMAIN c = DOMAIN b \cup {Len(b) + 1}
      /\ \A i \in DOMAIN b : c[i] = b[i]
      /\ c[Len(b) + 1] = f
  BY <1>2, <1>5, <1>6, AppendFacts
<1>8. PICK x : x = Append(c, h)
  OBVIOUS
<1>9. /\ x \in Seq(S) /\ Len(x) = Len(c) + 1 /\ DOMAIN x = DOMAIN c \cup {Len(c) + 1}
      /\ \A i \in DOMAIN c : x[i] = c[i]
      /\ x[Len(c) + 1] = h
  BY <1>3, <1>7, <1>8, AppendFacts
<1>10. Len(b) + 1 = Len(w) /\ Len(c) = Len(w) /\ Len(w) \in DOMAIN c
  BY <1>5, <1>7
<1>11. Pushed(w, x, n, r, m)
  <2>1. Len(x) = Len(w) + 1 /\ DOMAIN x = 1..(Len(w) + 1)
    BY <1>5, <1>9, <1>10
  <2>2. \A i \in 1..(Len(w) - 1) : x[i] = w[i]
    BY <1>5, <1>7, <1>9
  <2>3. x[Len(w)] = f /\ x[Len(w) + 1] = h
    BY <1>7, <1>9, <1>10
  <2>4. QED
    BY <1>2, <1>3, <2>1, <2>2, <2>3 DEF Pushed
<1>12. QED
  BY <1>1, <1>2, <1>3, <1>4, <1>6, <1>8, <1>9, <1>11

Stands(g, n, k, m) == k \in DOMAIN Successors(g, n) /\ Successors(g, n)[k] = m

LEMMA PushWalks ==
  ASSUME NEW g, Graphic(g), NEW u, NEW P, Walking(g, u, P), NEW n, AtTop(u, n), n \in Met(u),
         NEW r \in Nat, \A k \in 1..r : <<n, Successors(g, n)[k]>> \in P,
         NEW m, Stands(g, n, r + 1, m), m \notin Met(u)
  PROVE  /\ Walking(g, GoOn(u, n, r, m), P)
         /\ GoOn(u, n, r, m).index = u.index
         /\ Frames(GoOn(u, n, r, m)) = Frames(u) \cup {m}
         /\ AtTop(GoOn(u, n, r, m), m)
         /\ GoOn(u, n, r, m).work[Len(GoOn(u, n, r, m).work)].pos = 0
<1>0. r + 1 \in DOMAIN Successors(g, n) /\ m = Successors(g, n)[r + 1]
  BY DEF Stands
<1>1. PICK v : v = GoOn(u, n, r, m)
  OBVIOUS
<1>2. PICK w : w = u.work
  OBVIOUS
<1>3. PICK x : x = Append(Append(SubSeq(w, 1, Len(w) - 1), Frame(n, r + 1)), Frame(m, 0))
  OBVIOUS
<1>4. /\ v.work = x /\ v.index = u.index /\ v.low = u.low /\ v.stack = u.stack
      /\ v.components = u.components /\ IsWalk(v)
  <2>1. v = [u EXCEPT !.work = x]
    BY <1>1, <1>2, <1>3 DEF GoOn
  <2>2. u = [work |-> u.work, index |-> u.index, low |-> u.low, stack |-> u.stack,
             components |-> u.components]
    BY DEF Walking, IsWalk
  <2>3. v = [work |-> x, index |-> u.index, low |-> u.low, stack |-> u.stack,
             components |-> u.components]
    BY <2>1, <2>2
  <2>4. QED
    BY <2>3 DEF IsWalk
<1>5. /\ w \in Seq([node : g.nodes, pos : Nat]) /\ w # <<>> /\ w[Len(w)].node = n
      /\ Nested(g, w, u.index) /\ Passed(g, w, P)
  BY <1>2 DEF Walking, Nested, AtTop
<1>6. Len(w) \in Nat /\ Len(w) >= 1 /\ DOMAIN w = 1..Len(w)
  BY <1>5
<1>7. Successors(g, n) \in Seq(Dependents(g, n)) /\ Dependents(g, n) \subseteq g.nodes
  BY SuccessorsAre, Neighbours
<1>8. m \in g.nodes /\ n \in g.nodes
  BY <1>0, <1>7, HandLeadsUp
<1>9. x \in Seq([node : g.nodes, pos : Nat]) /\ Pushed(w, x, n, r, m)
  BY <1>3, <1>5, <1>8, WorkIsPushed
<1>10. /\ Len(x) = Len(w) + 1 /\ DOMAIN x = 1..(Len(w) + 1)
       /\ \A i \in 1..(Len(w) - 1) : x[i] = w[i]
       /\ x[Len(w)].node = n /\ x[Len(w)].pos = r + 1
       /\ x[Len(w) + 1].node = m /\ x[Len(w) + 1].pos = 0
  BY <1>9 DEF Pushed
<1>11. \A i \in DOMAIN w : x[i].node = w[i].node
  <2>1. SUFFICES ASSUME NEW i \in DOMAIN w PROVE x[i].node = w[i].node
    OBVIOUS
  <2>2. i = Len(w) \/ i \in 1..(Len(w) - 1)
    BY <1>6
  <2>3. QED
    BY <1>5, <1>10, <2>2
<1>12. Frames(v) = Frames(u) \cup {m}
  <2>1. {x[i].node : i \in DOMAIN x} = {w[i].node : i \in DOMAIN w} \cup {m}
    <3>1. DOMAIN x = DOMAIN w \cup {Len(w) + 1}
      BY <1>6, <1>10
    <3>2. QED
      BY <1>10, <1>11, <3>1
  <2>2. QED
    BY <1>2, <1>4, <2>1 DEF Frames
<1>13. Met(v) = Met(u) /\ InHand(v) = InHand(u) /\ Held(v) = Held(u)
  BY <1>4, <1>12 DEF Met, InHand, Held
<1>14. Nested(g, x, u.index)
  <2>1. ASSUME NEW i \in DOMAIN x, i < Len(x)
        PROVE  /\ x[i].node \in DOMAIN u.index
               /\ x[i].pos \in DOMAIN Successors(g, x[i].node)
               /\ Successors(g, x[i].node)[x[i].pos] = x[i + 1].node
    <3>1. CASE i = Len(w)
      BY <1>0, <1>10, <3>1 DEF Met
    <3>2. CASE i # Len(w)
      <4>1. i \in 1..(Len(w) - 1) /\ i + 1 \in DOMAIN w /\ i \in DOMAIN w /\ i < Len(w)
        BY <1>6, <1>10, <2>1, <3>2
      <4>2. x[i] = w[i] /\ x[i + 1].node = w[i + 1].node
        BY <1>10, <1>11, <4>1
      <4>3. QED
        BY <1>5, <4>1, <4>2 DEF Nested
    <3>3. QED
      BY <3>1, <3>2
  <2>2. ASSUME NEW i \in DOMAIN x, NEW j \in DOMAIN x, i < j, x[j].node \in DOMAIN u.index
        PROVE  u.index[x[i].node] < u.index[x[j].node]
    <3>1. j # Len(w) + 1
      BY <1>10, <2>2 DEF Met
    <3>2. i \in DOMAIN w /\ j \in DOMAIN w
      BY <1>6, <1>10, <2>2, <3>1
    <3>3. QED
      BY <1>5, <1>11, <2>2, <3>2 DEF Nested
  <2>3. QED
    BY <1>9, <2>1, <2>2 DEF Nested
<1>15. Passed(g, x, P)
  <2>1. ASSUME NEW i \in DOMAIN x, NEW k \in DOMAIN Successors(g, x[i].node),
               k < x[i].pos \/ (k = x[i].pos /\ i = Len(x))
        PROVE  <<x[i].node, Successors(g, x[i].node)[k]>> \in P
    <3>0. k \in Nat /\ k >= 1
      <4>1. Successors(g, x[i].node) \in Seq(Dependents(g, x[i].node))
        BY SuccessorsAre
      <4>2. QED
        BY <2>1, <4>1
    <3>1. CASE i = Len(w) + 1
      BY <1>10, <2>1, <3>0, <3>1
    <3>2. CASE i = Len(w)
      <4>1. k < r + 1
        BY <1>6, <1>10, <2>1, <3>2
      <4>2. k \in 1..r
        BY <3>0, <4>1
      <4>3. QED
        BY <1>10, <3>2, <4>2
    <3>3. CASE i # Len(w) + 1 /\ i # Len(w)
      <4>1. i \in 1..(Len(w) - 1) /\ i \in DOMAIN w /\ i # Len(x)
        BY <1>6, <1>10, <2>1, <3>3
      <4>2. x[i] = w[i] /\ k < w[i].pos
        BY <1>10, <2>1, <4>1
      <4>3. QED
        BY <1>5, <2>1, <4>1, <4>2 DEF Passed
    <3>4. QED
      BY <3>1, <3>2, <3>3
  <2>2. QED
    BY <2>1 DEF Passed
<1>16. Core(g, v.index, v.low, Held(v), v.components, InHand(v), P) /\ Rising(v)
  BY <1>4, <1>13 DEF Walking, Rising
<1>17. Walking(g, v, P)
  BY <1>4, <1>14, <1>15, <1>16 DEF Walking
<1>18. AtTop(v, m) /\ v.work[Len(v.work)].pos = 0
  <2>1. x # <<>> /\ x[Len(x)].node = m /\ x[Len(x)].pos = 0
    BY <1>6, <1>9, <1>10
  <2>2. QED
    BY <1>4, <2>1 DEF AtTop
<1>19. QED
  BY <1>1, <1>4, <1>12, <1>17, <1>18

\* What leaves the stack with a root, and what stays.
Cut(t, n, b, s) ==
  b = (CHOOSE i \in DOMAIN t.stack : t.stack[i] = n) /\ s = SubSeq(t.stack, 1, b - 1)

LEMMA StackSplits ==
  ASSUME NEW t, Rising(t), \A y \in Met(t) : t.index[y] \in Nat, NEW n \in Held(t),
         NEW b, NEW s, Cut(t, n, b, s)
  PROVE  /\ {t.stack[i] : i \in b..Len(t.stack)} = Above(t.index, Held(t), n)
         /\ s \in Seq(Met(t)) /\ DOMAIN s \subseteq DOMAIN t.stack
         /\ \A i \in DOMAIN s : s[i] = t.stack[i]
         /\ {s[i] : i \in DOMAIN s} = Held(t) \ Above(t.index, Held(t), n)
<1>1. PICK z : z = t.stack
  OBVIOUS
<1>2. /\ z \in Seq(Met(t)) /\ \A i \in DOMAIN z : z[i] \in Met(t) /\ t.index[z[i]] \in Nat
      /\ \A i, j \in DOMAIN z : i < j => t.index[z[i]] < t.index[z[j]]
  BY <1>1 DEF Rising
<1>3. Len(z) \in Nat /\ DOMAIN z = 1..Len(z)
  BY <1>2
<1>4. b \in DOMAIN z /\ z[b] = n
  BY <1>1 DEF Held, Cut
<1>5. /\ b \in Nat /\ b >= 1 /\ b <= Len(z) /\ b - 1 \in Nat
      /\ s = [i \in 1..(b - 1) |-> z[i]]
  BY <1>1, <1>2, <1>3, <1>4 DEF Cut
<1>a. PICK c \in Nat : c = b - 1 /\ c < Len(z) /\ b = c + 1
  <2>1. b - 1 \in Nat /\ b - 1 < Len(z) /\ b = (b - 1) + 1
    <3>1. PICK l \in Nat, d \in Nat : l = Len(z) /\ d = b /\ d >= 1 /\ d <= l
      BY <1>3, <1>5
    <3>2. d - 1 \in Nat /\ d - 1 < l /\ d = (d - 1) + 1
      <4>1. d \in Nat /\ l \in Nat /\ d >= 1 /\ d <= l
        BY <3>1
      <4>2. \A e, f \in Nat : e >= 1 /\ e <= f => e - 1 \in Nat /\ e - 1 < f /\ e = (e - 1) + 1
        OBVIOUS
      <4>3. QED
        BY <4>1, <4>2
    <3>3. QED
      BY <3>1, <3>2
  <2>2. QED
    BY <2>1
<1>6. DOMAIN s = 1..c /\ DOMAIN s \subseteq DOMAIN z /\ \A i \in DOMAIN s : s[i] = z[i]
  <2>1. s = [i \in 1..c |-> z[i]]
    BY <1>5, <1>a
  <2>2. \A i \in 1..c : i \in 1..Len(z)
    BY <1>3, <1>a
  <2>3. QED
    BY <1>3, <2>1, <2>2
<1>7. s \in Seq(Met(t))
  <2>1. \A i \in 1..c : z[i] \in Met(t)
    BY <1>2, <1>6
  <2>2. s = [i \in 1..c |-> z[i]]
    BY <1>5, <1>a
  <2>3. [i \in 1..c |-> z[i]] \in Seq(Met(t))
    BY <2>1
  <2>4. QED
    BY <2>2, <2>3
<1>8. \A i \in DOMAIN z : t.index[n] <= t.index[z[i]] <=> i \in b..Len(z)
  <2>1. SUFFICES ASSUME NEW i \in DOMAIN z
                 PROVE  t.index[n] <= t.index[z[i]] <=> i \in b..Len(z)
    OBVIOUS
  <2>2. CASE i < b
    <3>1. t.index[z[i]] < t.index[z[b]]
      BY <1>2, <1>4, <2>2
    <3>2. QED
      BY <1>2, <1>3, <1>4, <2>2, <3>1
  <2>3. CASE i = b
    BY <1>2, <1>3, <1>4, <2>3
  <2>4. CASE b < i
    <3>1. t.index[z[b]] < t.index[z[i]]
      BY <1>2, <1>4, <2>4
    <3>2. QED
      BY <1>2, <1>3, <1>4, <2>4, <3>1
  <2>5. QED
    BY <1>3, <1>4, <2>2, <2>3, <2>4
<1>9. \A i \in b..Len(z) : i \in DOMAIN z
  BY <1>3, <1>5
<1>10. {z[i] : i \in b..Len(z)} = {x \in Held(t) : t.index[n] <= t.index[x]}
  BY <1>1, <1>8, <1>9 DEF Held
<1>11. {s[i] : i \in DOMAIN s} = Held(t) \ {x \in Held(t) : t.index[n] <= t.index[x]}
  <2>1. \A i \in DOMAIN z : i \in DOMAIN s <=> i \notin b..Len(z)
    BY <1>3, <1>5, <1>6, <1>a
  <2>2. \A i \in DOMAIN s : i \in DOMAIN z /\ s[i] = z[i]
    BY <1>6
  <2>3. {s[i] : i \in DOMAIN s} = {z[i] : i \in DOMAIN s}
    BY <2>2
  <2>4. \A i \in DOMAIN z : i \in DOMAIN s <=> ~(t.index[n] <= t.index[z[i]])
    BY <1>8, <2>1
  <2>5. Held(t) = {z[i] : i \in DOMAIN z}
    BY <1>1 DEF Held
  <2>6. ASSUME NEW y \in {z[i] : i \in DOMAIN s}
        PROVE  y \in Held(t) /\ ~(t.index[n] <= t.index[y])
    BY <2>2, <2>4, <2>5, <2>6
  <2>7. ASSUME NEW y \in Held(t), ~(t.index[n] <= t.index[y])
        PROVE  y \in {z[i] : i \in DOMAIN s}
    <3>1. PICK i \in DOMAIN z : y = z[i]
      BY <2>5
    <3>2. QED
      BY <2>4, <2>7, <3>1
  <2>8. QED
    BY <2>3, <2>6, <2>7
<1>12. Above(t.index, Held(t), n) = {x \in Held(t) : t.index[n] <= t.index[x]}
  BY DEF Above
<1>13. {t.stack[i] : i \in b..Len(t.stack)} = Above(t.index, Held(t), n)
  BY <1>1, <1>10, <1>12
<1>14. {s[i] : i \in DOMAIN s} = Held(t) \ Above(t.index, Held(t), n)
  BY <1>11, <1>12
<1>15. QED
  BY <1>1, <1>6, <1>7, <1>13, <1>14

\* What a settled work looks like: the top frame is gone.
Popped(w, x) == x = SubSeq(w, 1, Len(w) - 1)

LEMMA WorkIsPopped ==
  ASSUME NEW g, Graphic(g), NEW u, NEW P, Walking(g, u, P), NEW n, AtTop(u, n), n \in Met(u),
         NEW x, Popped(u.work, x)
  PROVE  /\ Nested(g, x, u.index) /\ Frames(u) \subseteq Met(u)
         /\ {x[i].node : i \in DOMAIN x} = InHand(u) \ {n}
         /\ \A Q : P \subseteq Q /\ (x # <<>> => <<x[Len(x)].node, n>> \in Q) => Passed(g, x, Q)
         /\ x # <<>> => /\ Top(u.index, InHand(u) \ {n}, x[Len(x)].node)
                        /\ n \in Dependents(g, x[Len(x)].node)
                        /\ x[Len(x)].pos # 0
<1>1. PICK w : w = u.work
  OBVIOUS
<1>2. PICK I : I = u.index
  OBVIOUS
<1>3. /\ w \in Seq([node : g.nodes, pos : Nat]) /\ w # <<>> /\ w[Len(w)].node = n
      /\ Nested(g, w, I) /\ Passed(g, w, P) /\ n \in DOMAIN I
  BY <1>1, <1>2 DEF Walking, Nested, AtTop, Met
<1>4. PICK l \in Nat : l = Len(w) - 1 /\ Len(w) = l + 1 /\ DOMAIN w = 1..(l + 1)
  <2>1. Len(w) \in Nat /\ Len(w) >= 1 /\ DOMAIN w = 1..Len(w)
    BY <1>3, FrontFacts
  <2>2. Len(w) - 1 \in Nat /\ Len(w) = Len(w) - 1 + 1
    BY <2>1
  <2>3. QED
    BY <2>1, <2>2
<1>5. /\ x \in Seq([node : g.nodes, pos : Nat]) /\ Len(x) = l /\ DOMAIN x = 1..l
      /\ \A i \in 1..l : x[i] = w[i] /\ i \in DOMAIN w
  BY <1>1, <1>3, <1>4, FrontFacts DEF Popped
<1>6. \A i \in DOMAIN w : w[i].node \in DOMAIN I
  BY <1>3, <1>4 DEF Nested
<1>7. \A i, j \in DOMAIN w : i < j => I[w[i].node] < I[w[j].node]
  BY <1>3, <1>6 DEF Nested
<1>8. \A y \in DOMAIN I : I[y] \in Nat
  BY <1>2 DEF Walking, Core, Numbers
<1>9. Nested(g, x, I)
  <2>1. ASSUME NEW i \in DOMAIN x, i < Len(x)
        PROVE  /\ x[i].node \in DOMAIN I
               /\ x[i].pos \in DOMAIN Successors(g, x[i].node)
               /\ Successors(g, x[i].node)[x[i].pos] = x[i + 1].node
    <3>0. i \in 1..l /\ i < l
      BY <1>5, <2>1
    <3>a. i + 1 \in 1..l /\ i < l + 1
      BY <3>0
    <3>1. i \in DOMAIN w /\ i < Len(w) /\ x[i] = w[i] /\ x[i + 1] = w[i + 1]
      BY <1>4, <1>5, <3>0, <3>a
    <3>2. QED
      BY <1>3, <3>1 DEF Nested
  <2>2. \A i, j \in DOMAIN x : i < j => I[x[i].node] < I[x[j].node]
    BY <1>5, <1>7
  <2>3. QED
    BY <1>5, <2>1, <2>2 DEF Nested
<1>10. Frames(u) \subseteq Met(u)
  BY <1>1, <1>2, <1>6 DEF Frames, Met
<1>11. InHand(u) = {w[i].node : i \in DOMAIN w}
  BY <1>1, <1>10 DEF InHand, Frames
<1>12. {x[i].node : i \in DOMAIN x} = InHand(u) \ {n}
  <2>1. ASSUME NEW i \in DOMAIN w
        PROVE  w[i].node = n <=> i = l + 1
    <3>1. CASE i = l + 1
      BY <1>3, <1>4, <3>1
    <3>2. CASE i # l + 1
      <4>1. i < l + 1 /\ l + 1 \in DOMAIN w
        BY <1>4, <3>2
      <4>2. I[w[i].node] < I[n]
        BY <1>3, <1>4, <1>7, <4>1
      <4>3. QED
        BY <1>3, <1>8, <3>2, <4>2
    <3>3. QED
      BY <3>1, <3>2
  <2>2. \A i \in DOMAIN w : i # l + 1 <=> i \in DOMAIN x
    BY <1>4, <1>5
  <2>3. \A i \in DOMAIN x : i \in DOMAIN w /\ x[i] = w[i] /\ w[i].node # n
    BY <1>5, <2>1, <2>2
  <2>4. ASSUME NEW y \in InHand(u) \ {n} PROVE y \in {x[i].node : i \in DOMAIN x}
    <3>1. PICK i \in DOMAIN w : y = w[i].node
      BY <1>11
    <3>2. i \in DOMAIN x
      BY <2>1, <2>2, <2>4, <3>1
    <3>3. QED
      BY <2>3, <3>1, <3>2
  <2>5. ASSUME NEW y \in {x[i].node : i \in DOMAIN x} PROVE y \in InHand(u) \ {n}
    <3>1. PICK i \in DOMAIN x : y = x[i].node
      BY <2>5
    <3>2. QED
      BY <1>11, <2>3, <3>1
  <2>6. QED
    BY <2>4, <2>5
<1>13. ASSUME x # <<>>
       PROVE  /\ l \in DOMAIN x /\ l \in DOMAIN w /\ l < Len(w) /\ x[l] = w[l] /\ l >= 1
              /\ w[l].pos \in DOMAIN Successors(g, w[l].node)
              /\ Successors(g, w[l].node)[w[l].pos] = n
  <2>1. l >= 1
    BY <1>5, <1>13
  <2>2. l \in DOMAIN x /\ l \in DOMAIN w /\ l < Len(w) /\ x[l] = w[l]
    BY <1>4, <1>5, <2>1
  <2>3. w[l].pos \in DOMAIN Successors(g, w[l].node)
        /\ Successors(g, w[l].node)[w[l].pos] = w[l + 1].node
    BY <1>3, <2>2 DEF Nested
  <2>4. QED
    BY <1>3, <1>4, <2>1, <2>2, <2>3
<1>14. ASSUME NEW Q, P \subseteq Q, x # <<>> => <<x[Len(x)].node, n>> \in Q
       PROVE  Passed(g, x, Q)
  <2>1. ASSUME NEW i \in DOMAIN x, NEW k \in DOMAIN Successors(g, x[i].node),
               k < x[i].pos \/ (k = x[i].pos /\ i = Len(x))
        PROVE  <<x[i].node, Successors(g, x[i].node)[k]>> \in Q
    <3>1. i \in DOMAIN w /\ x[i] = w[i]
      BY <1>5, <2>1
    <3>2. CASE k < x[i].pos
      BY <1>3, <1>14, <2>1, <3>1, <3>2 DEF Passed
    <3>3. CASE k = x[i].pos /\ i = Len(x)
      <4>1. i = l /\ x # <<>>
        <5>1. DOMAIN x # {} /\ DOMAIN <<>> = {}
          BY <2>1
        <5>2. QED
          BY <1>5, <3>3, <5>1
      <4>2. Successors(g, x[i].node)[k] = n
        BY <1>13, <3>3, <4>1
      <4>3. QED
        BY <1>14, <3>3, <4>1, <4>2
    <3>4. QED
      BY <2>1, <3>2, <3>3
  <2>2. QED
    BY <2>1 DEF Passed
<1>15. ASSUME x # <<>>
       PROVE  /\ Top(I, InHand(u) \ {n}, x[Len(x)].node)
              /\ n \in Dependents(g, x[Len(x)].node)
              /\ x[Len(x)].pos # 0
  <2>1. PICK p : p = x[l].node
    OBVIOUS
  <2>2. p \in InHand(u) \ {n}
    BY <1>12, <1>13, <1>15, <2>1
  <2>3. ASSUME NEW y \in InHand(u) \ {n} PROVE I[y] <= I[p]
    <3>1. PICK i \in DOMAIN x : y = x[i].node
      BY <1>12
    <3>2. i \in 1..l /\ (i = l \/ i < l)
      BY <1>5, <3>1
    <3>3. i \in DOMAIN w /\ l \in DOMAIN w /\ x[i] = w[i] /\ x[l] = w[l]
      BY <1>5, <1>13, <1>15
    <3>4. I[y] \in Nat /\ I[p] \in Nat
      BY <1>6, <1>8, <2>1, <3>1, <3>3
    <3>5. CASE i = l
      BY <2>1, <3>1, <3>4, <3>5
    <3>6. CASE i < l
      <4>1. I[w[i].node] < I[w[l].node]
        BY <1>7, <3>3, <3>6
      <4>2. I[y] < I[p]
        BY <2>1, <3>1, <3>3, <4>1
      <4>3. QED
        BY <3>4, <4>2
    <3>7. QED
      BY <3>2, <3>5, <3>6
  <2>4. Successors(g, p) \in Seq(Dependents(g, p))
    BY SuccessorsAre
  <2>5. w[l].pos \in DOMAIN Successors(g, p) /\ Successors(g, p)[w[l].pos] = n /\ x[l] = w[l]
    BY <1>13, <1>15, <2>1
  <2>6. n \in Dependents(g, p) /\ x[l].pos # 0
    <3>1. PICK k : k = w[l].pos
      OBVIOUS
    <3>2. k \in DOMAIN Successors(g, p) /\ Successors(g, p)[k] = n
      BY <2>5, <3>1
    <3>3. n \in Dependents(g, p) /\ k # 0
      BY <2>4, <3>2
    <3>4. QED
      BY <2>5, <3>1, <3>3
  <2>7. QED
    BY <1>5, <2>1, <2>2, <2>3, <2>6 DEF Top
<1>16. QED
  BY <1>2, <1>9, <1>10, <1>12, <1>14, <1>15

\* A settled node is no longer in hand, and what is left is a walk.
Settled(g, u, n, v) ==
  /\ \E Q : Walking(g, v, Q)
  /\ v.index = u.index /\ InHand(v) = InHand(u) \ {n}
  /\ Frames(u) \subseteq Met(u) /\ Frames(v) \subseteq Met(v)
  /\ v.work # <<>> => v.work[Len(v.work)].pos # 0

LEMMA SettleWalks ==
  ASSUME NEW g, Graphic(g), NEW u, NEW P, Walking(g, u, P), NEW n, AtTop(u, n), n \in Met(u),
         \A w \in Dependents(g, n) : <<n, w>> \in P
  PROVE  Settled(g, u, n, Settle(u, n))
<1>1. PICK I : I = u.index
  OBVIOUS
<1>2. PICK L : L = u.low
  OBVIOUS
<1>3. PICK K : K = Held(u)
  OBVIOUS
<1>4. PICK G : G = InHand(u)
  OBVIOUS
<1>5. PICK C : C = u.components
  OBVIOUS
<1>6. PICK x : x = SubSeq(u.work, 1, Len(u.work) - 1)
  OBVIOUS
<1>7. PICK b : b = CHOOSE i \in DOMAIN u.stack : u.stack[i] = n
  OBVIOUS
<1>8. PICK s : s = SubSeq(u.stack, 1, b - 1)
  OBVIOUS
<1>9. PICK A : A = Above(I, K, n)
  OBVIOUS
<1>10. PICK M : M = IF x = <<>> THEN L ELSE Lowered(L, x[Len(x)].node, {L[n]})
  OBVIOUS
<1>11. PICK v : v = Settle(u, n)
  OBVIOUS
<1>12. /\ Core(g, I, L, K, C, G, P) /\ DOMAIN L = Met(u) /\ Met(u) = DOMAIN I /\ Rising(u)
  BY <1>1, <1>2, <1>3, <1>4, <1>5 DEF Walking, Rising, Met
<1>13. Top(I, G, n)
  BY <1>1, <1>4, HandLeadsUp
<1>14. /\ n \in G /\ n \in K /\ G \subseteq K /\ K \subseteq DOMAIN I
       /\ \A y \in DOMAIN I : I[y] \in Nat
       /\ \A y \in G : L[y] \in Nat /\ L[y] <= I[y]
       /\ \A y \in G : y # n => I[y] < I[n]
  <2>1. /\ n \in G /\ G \subseteq K /\ K \subseteq DOMAIN I
        /\ \A y \in DOMAIN I : I[y] \in Nat
        /\ \A y \in G : L[y] \in Nat /\ L[y] <= I[y]
    BY <1>12, <1>13 DEF Core, Numbers, Lowest, Top
  <2>2. \A y \in G : y # n => I[y] <= I[n] /\ I[y] # I[n]
    BY <1>12, <1>13, <2>1 DEF Core, Numbers, Top
  <2>3. QED
    BY <2>1, <2>2
<1>15. /\ {u.stack[i] : i \in b..Len(u.stack)} = A
       /\ s \in Seq(Met(u)) /\ DOMAIN s \subseteq DOMAIN u.stack
       /\ \A i \in DOMAIN s : s[i] = u.stack[i]
       /\ {s[i] : i \in DOMAIN s} = K \ A
  <2>1. \A y \in Met(u) : u.index[y] \in Nat
    BY <1>1, <1>12, <1>14
  <2>2. n \in Held(u)
    BY <1>3, <1>14
  <2>3. /\ {u.stack[i] : i \in b..Len(u.stack)} = Above(u.index, Held(u), n)
        /\ s \in Seq(Met(u)) /\ DOMAIN s \subseteq DOMAIN u.stack
        /\ \A i \in DOMAIN s : s[i] = u.stack[i]
        /\ {s[i] : i \in DOMAIN s} = Held(u) \ Above(u.index, Held(u), n)
    <3>1. Cut(u, n, b, s)
      BY <1>7, <1>8 DEF Cut
    <3>2. Rising(u)
      BY <1>12
    <3>3. QED
      BY <2>1, <2>2, <3>1, <3>2, StackSplits
  <2>4. QED
    BY <1>1, <1>3, <1>9, <2>3
<1>16. /\ Nested(g, x, I) /\ Frames(u) \subseteq Met(u)
       /\ {x[i].node : i \in DOMAIN x} = G \ {n}
       /\ \A Q : P \subseteq Q /\ (x # <<>> => <<x[Len(x)].node, n>> \in Q) => Passed(g, x, Q)
       /\ x # <<>> => /\ Top(I, G \ {n}, x[Len(x)].node)
                      /\ n \in Dependents(g, x[Len(x)].node)
                      /\ x[Len(x)].pos # 0
  <2>1. /\ Nested(g, x, u.index) /\ Frames(u) \subseteq Met(u)
        /\ {x[i].node : i \in DOMAIN x} = InHand(u) \ {n}
        /\ \A Q : P \subseteq Q /\ (x # <<>> => <<x[Len(x)].node, n>> \in Q) => Passed(g, x, Q)
        /\ x # <<>> => /\ Top(u.index, InHand(u) \ {n}, x[Len(x)].node)
                       /\ n \in Dependents(g, x[Len(x)].node)
                       /\ x[Len(x)].pos # 0
    <3>1. Popped(u.work, x)
      BY <1>6 DEF Popped
    <3>2. QED
      BY <3>1, WorkIsPopped
  <2>2. QED
    BY <1>1, <1>4, <2>1
<1>17. /\ v.work = x /\ v.index = I /\ v.low = M
       /\ v.components = (IF L[n] = I[n] THEN C \cup {A} ELSE C)
       /\ v.stack = (IF L[n] = I[n] THEN s ELSE u.stack)
       /\ IsWalk(v)
  <2>1. v = [u EXCEPT !.work = x, !.low = M,
               !.components = IF L[n] = I[n] THEN @ \cup {A} ELSE @,
               !.stack = IF L[n] = I[n] THEN SubSeq(@, 1, b - 1) ELSE @]
    <3>1. v = [u EXCEPT
                 !.work = x,
                 !.low = IF x = <<>> THEN u.low
                         ELSE Lowered(u.low, x[Len(x)].node, {u.low[n]}),
                 !.components = IF u.low[n] = u.index[n]
                                  THEN @ \cup {{u.stack[i] : i \in b..Len(u.stack)}} ELSE @,
                 !.stack = IF u.low[n] = u.index[n] THEN SubSeq(@, 1, b - 1) ELSE @]
      BY <1>6, <1>7, <1>11 DEF Settle
    <3>2. {u.stack[i] : i \in b..Len(u.stack)} = A
      BY <1>15
    <3>3. QED
      BY <1>1, <1>2, <1>10, <3>1, <3>2
  <2>2. u = [work |-> u.work, index |-> u.index, low |-> u.low, stack |-> u.stack,
             components |-> u.components]
    BY DEF Walking, IsWalk
  <2>3. v = [work |-> x, index |-> I, low |-> M,
             stack |-> IF L[n] = I[n] THEN s ELSE u.stack,
             components |-> IF L[n] = I[n] THEN C \cup {A} ELSE C]
    BY <1>1, <1>5, <1>8, <2>1, <2>2
  <2>4. QED
    BY <2>3 DEF IsWalk
<1>18. Met(v) = DOMAIN I /\ InHand(v) = G \ {n} /\ Frames(v) = G \ {n}
  <2>1. Frames(v) = G \ {n} /\ Met(v) = DOMAIN I
    BY <1>16, <1>17 DEF Frames, Met
  <2>2. G \ {n} \subseteq DOMAIN I
    BY <1>14
  <2>3. QED
    BY <2>1, <2>2 DEF InHand
<1>19. ASSUME x # <<>>, NEW p, p = x[Len(x)].node
       PROVE  Hears(L, M, G, n, p) /\ p \in G \ {n} /\ DOMAIN M = Met(u)
  <2>1. p \in G \ {n}
    BY <1>16, <1>19 DEF Top
  <2>2. L[p] \in Nat /\ L[n] \in Nat /\ p \in DOMAIN L
    BY <1>12, <1>14, <2>1
  <2>3. PICK T : T = {L[p]} \cup {L[n]}
    OBVIOUS
  <2>4. M = [L EXCEPT ![p] = Min(T)]
    BY <1>10, <1>19, <2>3 DEF Lowered
  <2>5. Min(T) \in T /\ \A y \in T : Min(T) <= y
    <3>1. T \subseteq Nat /\ T # {}
      BY <2>2, <2>3
    <3>2. QED
      BY <3>1, MinIsLeast
  <2>6. M[p] = Min(T) /\ DOMAIN M = DOMAIN L /\ \A y \in DOMAIN L : y # p => M[y] = L[y]
    BY <2>2, <2>4
  <2>7. G \subseteq DOMAIN L
    BY <1>12, <1>14
  <2>8. M[p] \in Nat /\ M[p] <= L[p] /\ M[p] <= L[n] /\ (M[p] = L[p] \/ M[p] = L[n])
    BY <2>2, <2>3, <2>5, <2>6
  <2>9. QED
    BY <1>12, <2>1, <2>6, <2>7, <2>8 DEF Hears
<1>20. DOMAIN M = Met(u)
  <2>1. CASE x = <<>>
    BY <1>10, <1>12, <2>1
  <2>2. CASE x # <<>>
    BY <1>19, <2>2
  <2>3. QED
    BY <2>1, <2>2
<1>21. CASE L[n] = I[n]
  <2>1. \A y \in G \ {n} : M[y] = L[y]
    <3>1. CASE x = <<>>
      BY <1>10, <3>1
    <3>2. CASE x # <<>>
      <4>1. PICK p : p = x[Len(x)].node
        OBVIOUS
      <4>2. Hears(L, M, G, n, p) /\ p \in G \ {n}
        BY <1>19, <3>2, <4>1
      <4>3. L[p] < L[n] /\ L[p] \in Nat /\ L[n] \in Nat
        BY <1>14, <1>21, <4>2
      <4>4. M[p] = L[p]
        BY <4>2, <4>3 DEF Hears
      <4>5. QED
        BY <4>2, <4>4 DEF Hears
    <3>3. QED
      BY <3>1, <3>2
  <2>2. PICK Q : Q = P \cup (IF x = <<>> THEN {} ELSE {<<x[Len(x)].node, n>>})
    OBVIOUS
  <2>3. \A y, w : <<y, w>> \in Q => <<y, w>> \in P \/ (y \in G /\ w = n)
    <3>1. CASE x = <<>>
      BY <2>2, <3>1
    <3>2. CASE x # <<>>
      BY <1>16, <2>2, <3>2 DEF Top
    <3>3. QED
      BY <3>1, <3>2
  <2>4. P \subseteq Q
    BY <2>2
  <2>5. Core(g, I, M, K \ A, C \cup {A}, G \ {n}, Q)
    BY <1>9, <1>12, <1>13, <1>21, <2>1, <2>3, <2>4, CoreRoots
  <2>6. Held(v) = K \ A
    BY <1>15, <1>17, <1>21 DEF Held
  <2>7. Core(g, v.index, v.low, Held(v), v.components, InHand(v), Q)
    BY <1>17, <1>18, <1>21, <2>5, <2>6
  <2>8. Passed(g, x, Q)
    <3>1. x # <<>> => <<x[Len(x)].node, n>> \in Q
      BY <2>2
    <3>2. QED
      BY <1>16, <2>4, <3>1
  <2>9. Rising(v)
    <3>1. v.stack = s /\ Met(v) = Met(u) /\ v.index = u.index
      BY <1>1, <1>12, <1>17, <1>18, <1>21
    <3>2. \A i, j \in DOMAIN s : i < j => u.index[s[i]] < u.index[s[j]]
      BY <1>12, <1>15 DEF Rising
    <3>3. QED
      BY <1>12, <1>15, <1>17, <1>20, <3>1, <3>2 DEF Rising
  <2>10. Walking(g, v, Q)
    BY <1>16, <1>17, <2>7, <2>8, <2>9 DEF Walking
  <2>11. QED
    BY <1>1, <1>4, <1>11, <1>14, <1>16, <1>17, <1>18, <2>10 DEF Settled
<1>22. CASE L[n] # I[n]
  <2>1. x # <<>>
    <3>1. PICK y \in G \ {n} : TRUE
      BY <1>12, <1>13, <1>22, NoRootIsLowest
    <3>2. DOMAIN x # {} /\ DOMAIN <<>> = {}
      BY <1>16, <3>1
    <3>3. QED
      BY <3>2
  <2>2. PICK p : p = x[Len(x)].node
    OBVIOUS
  <2>3. Hears(L, M, G, n, p) /\ Top(I, G \ {n}, p) /\ n \in Dependents(g, p)
    BY <1>16, <1>19, <2>1, <2>2
  <2>4. PICK Q : Q = P \cup {<<p, n>>}
    OBVIOUS
  <2>5. Core(g, I, M, K, C, G \ {n}, Q)
    BY <1>12, <1>13, <1>22, <2>3, <2>4, CoreLeaves
  <2>6. Held(v) = K
    BY <1>3, <1>17, <1>22 DEF Held
  <2>7. Core(g, v.index, v.low, Held(v), v.components, InHand(v), Q)
    BY <1>17, <1>18, <1>22, <2>5, <2>6
  <2>8. Passed(g, x, Q)
    BY <1>16, <2>2, <2>4
  <2>9. Rising(v)
    <3>1. v.stack = u.stack /\ Met(v) = Met(u) /\ v.index = u.index
      BY <1>1, <1>12, <1>17, <1>18, <1>22
    <3>2. QED
      BY <1>12, <1>17, <1>20, <3>1 DEF Rising
  <2>10. Walking(g, v, Q)
    BY <1>16, <1>17, <2>7, <2>8, <2>9 DEF Walking
  <2>11. QED
    BY <1>1, <1>4, <1>11, <1>14, <1>16, <1>17, <1>18, <2>10 DEF Settled
<1>23. QED
  BY <1>21, <1>22

\* The walk after a turn: a top frame that was never met stands at no edge.
Turning(g, t) ==
  /\ \E P : Walking(g, t, P)
  /\ t.work # <<>> =>
       (t.work[Len(t.work)].pos = 0 <=> t.work[Len(t.work)].node \notin Met(t))

\* Every turn pushes a node or pops one, for good.
Past(t) == Met(t) \ InHand(t)
Begun(t) == Met(t) \cup Frames(t)

Advances(t, v) ==
  /\ Past(t) \subseteq Past(v) /\ Begun(t) \subseteq Begun(v)
  /\ Past(t) # Past(v) \/ Begun(t) # Begun(v)

LEMMA LookKeeps ==
  ASSUME NEW g, NEW t, IsWalk(t), NEW n, NEW from, NEW r
  PROVE  LookOn(g, t, n, from, r).index = t.index /\ LookOn(g, t, n, from, r).work = t.work
<1>1. PICK M : M = Lowered(t.low, n, Looked(g, t, n, from, r))
  OBVIOUS
<1>2. LookOn(g, t, n, from, r) = [t EXCEPT !.low = M]
  BY <1>1 DEF LookOn
<1>3. t = [work |-> t.work, index |-> t.index, low |-> t.low, stack |-> t.stack,
           components |-> t.components]
  BY DEF IsWalk
<1>4. LookOn(g, t, n, from, r) =
        [work |-> t.work, index |-> t.index, low |-> M, stack |-> t.stack,
         components |-> t.components]
  BY <1>2, <1>3
<1>5. QED
  BY <1>4

LEMMA WalkTurns ==
  ASSUME NEW g, Graphic(g), NEW t, Turning(g, t), t.work # <<>>
  PROVE  Turning(g, Walk(g, t)) /\ Advances(t, Walk(g, t))
<1>1. PICK P : Walking(g, t, P)
  BY DEF Turning
<1>2. PICK n : n = t.work[Len(t.work)].node
  OBVIOUS
<1>3. PICK from : from = t.work[Len(t.work)].pos
  OBVIOUS
<1>4. PICK t1 : t1 = IF from = 0 THEN Enter(t, n) ELSE t
  OBVIOUS
<1>5. PICK s : s = Successors(g, n)
  OBVIOUS
<1>6. PICK unmet : unmet = {i \in (from + 1)..Len(s) : s[i] \notin DOMAIN t1.index}
  OBVIOUS
<1>7. PICK r : r = IF unmet = {} THEN Len(s) ELSE Min(unmet) - 1
  OBVIOUS
<1>8. PICK u : u = LookOn(g, t1, n, from, r)
  OBVIOUS
<1>9. PICK m : m = s[r + 1]
  OBVIOUS
<1>10. PICK v : v = Walk(g, t)
  OBVIOUS
<1>11. v = IF unmet = {} THEN Settle(u, n) ELSE GoOn(u, n, r, m)
  <2> DEFINE TopNode == t.work[Len(t.work)].node
             TopPos == t.work[Len(t.work)].pos
             Entered == IF TopPos = 0 THEN Enter(t, TopNode) ELSE t
             Lists == Ascending(Dependents(g, TopNode))
             NotMet == {i \in (TopPos + 1)..Len(Lists) : Lists[i] \notin DOMAIN Entered.index}
             Until == IF NotMet = {} THEN Len(Lists) ELSE Min(NotMet) - 1
             Lowlinks == {Entered.index[Lists[i]] :
                         i \in {j \in (TopPos + 1)..Until : OnStack(Entered, Lists[j])}}
             LookedOn == [Entered EXCEPT !.low = Lowered(@, TopNode, Lowlinks)]
  <2>1. Walk(g, t) =
          IF NotMet = {} THEN Settle(LookedOn, TopNode)
          ELSE [LookedOn EXCEPT !.work =
                  Append(Append(SubSeq(@, 1, Len(@) - 1), Frame(TopNode, Until + 1)),
                         Frame(Lists[Until + 1], 0))]
    BY Zenon DEF Walk
  <2>2. TopNode = n /\ TopPos = from
    BY <1>2, <1>3
  <2> HIDE DEF TopNode, TopPos
  <2>3. Entered = t1 /\ Lists = s
    BY <1>4, <1>5, <2>2 DEF Successors
  <2> HIDE DEF Entered, Lists
  <2>4. NotMet = unmet
    BY <1>6, <2>2, <2>3
  <2> HIDE DEF NotMet
  <2>5. Until = r
    BY <1>7, <2>3, <2>4
  <2> HIDE DEF Until
  <2>6. Lowlinks = Looked(g, t1, n, from, r)
    BY <1>5, <2>2, <2>3, <2>5 DEF Looked
  <2> HIDE DEF Lowlinks
  <2>7. LookedOn = u
    BY <1>8, <2>2, <2>3, <2>6 DEF LookOn
  <2> HIDE DEF LookedOn
  <2>8. QED
    BY <1>9, <1>10, <2>1, <2>2, <2>3, <2>4, <2>5, <2>7 DEF GoOn
<1>12. /\ AtTop(t, n) /\ from \in Nat /\ n \in g.nodes
       /\ from = 0 <=> n \notin Met(t)
  <2>1. t.work \in Seq([node : g.nodes, pos : Nat])
    BY <1>1 DEF Walking, Nested
  <2>2. t.work[Len(t.work)] \in [node : g.nodes, pos : Nat]
    BY <2>1, FrontFacts
  <2>3. QED
    BY <1>2, <1>3, <2>2 DEF AtTop, Turning
<1>13. /\ Walking(g, t1, P) /\ n \in Met(t1) /\ t1.work = t.work
       /\ Met(t1) = Met(t) \cup {n}
  <2>1. CASE from = 0
    <3>1. n \notin Met(t) /\ t1 = Enter(t, n)
      BY <1>4, <1>12, <2>1
    <3>2. QED
      BY <1>1, <1>12, <3>1, EnterWalks
  <2>2. CASE from # 0
    BY <1>1, <1>4, <1>12, <2>2
  <2>3. QED
    BY <2>1, <2>2
<1>14. Begun(t1) = Begun(t) /\ Past(t1) = Past(t)
  <2>1. Frames(t1) = Frames(t) /\ n \in Frames(t)
    BY <1>1, <1>12, <1>13, HandLeadsUp DEF Frames
  <2>2. QED
    BY <1>13, <2>1 DEF Begun, Past, InHand
<1>15. /\ s \in Seq(Dependents(g, n)) /\ Len(s) \in Nat /\ DOMAIN s = 1..Len(s)
       /\ \A w \in Dependents(g, n) : \E k \in DOMAIN s : s[k] = w
  BY <1>5, SuccessorsAre
<1>16. unmet # {} => /\ Min(unmet) \in Nat /\ Min(unmet) \in unmet /\ Min(unmet) <= Len(s)
                     /\ Min(unmet) >= from + 1 /\ \A i \in unmet : Min(unmet) <= i
  <2>1. SUFFICES ASSUME unmet # {}
                 PROVE  /\ Min(unmet) \in Nat /\ Min(unmet) \in unmet /\ Min(unmet) <= Len(s)
                        /\ Min(unmet) >= from + 1 /\ \A i \in unmet : Min(unmet) <= i
    OBVIOUS
  <2>2. unmet \subseteq Nat
    BY <1>6, <1>12, <1>15
  <2>3. PICK k : k = Min(unmet) /\ k \in unmet /\ \A i \in unmet : k <= i
    BY <2>1, <2>2, MinIsLeast
  <2>4. k \in Nat /\ k <= Len(s) /\ k >= from + 1
    BY <1>6, <1>12, <1>15, <2>3
  <2>5. QED
    BY <2>3, <2>4
<1>17. r \in 0..Len(s) /\ \A k \in (from + 1)..r : s[k] \in Met(t1)
  <2>1. CASE unmet = {}
    <3>1. r = Len(s)
      BY <1>7, <2>1
    <3>2. QED
      BY <1>6, <1>15, <2>1, <3>1 DEF Met
  <2>2. CASE unmet # {}
    <3>1. PICK k \in Nat : /\ k = Min(unmet) /\ k <= Len(s) /\ k >= from + 1
                           /\ \A i \in unmet : k <= i
      BY <1>16, <2>2
    <3>2. r = k - 1
      BY <1>7, <2>2, <3>1
    <3>3. r \in 0..Len(s)
      BY <1>12, <1>15, <3>1, <3>2
    <3>4. ASSUME NEW i \in (from + 1)..r PROVE s[i] \in Met(t1)
      <4>1. i \in (from + 1)..Len(s) /\ ~(k <= i)
        BY <1>12, <1>15, <3>1, <3>2, <3>4
      <4>2. i \notin unmet
        BY <3>1, <4>1
      <4>3. QED
        BY <1>6, <4>1, <4>2 DEF Met
    <3>5. QED
      BY <3>3, <3>4
  <2>3. QED
    BY <2>1, <2>2
<1>18. PICK Q : Walking(g, u, Q) /\ \A k \in 1..r : <<n, s[k]>> \in Q
  <2>1. AtTop(t1, n) /\ from = t1.work[Len(t1.work)].pos
    BY <1>3, <1>12, <1>13 DEF AtTop
  <2>2. /\ r \in 0..Len(Successors(g, n))
        /\ \A k \in (from + 1)..r : Successors(g, n)[k] \in Met(t1)
    BY <1>5, <1>17
  <2>3. \E Q : /\ Walking(g, LookOn(g, t1, n, from, r), Q)
               /\ \A k \in 1..r : <<n, Successors(g, n)[k]>> \in Q
    BY <1>12, <1>13, <2>1, <2>2, LookWalks
  <2>4. QED
    BY <1>5, <1>8, <2>3
<1>19. /\ u.index = t1.index /\ u.work = t.work /\ Met(u) = Met(t1) /\ n \in Met(u)
       /\ AtTop(u, n) /\ Begun(u) = Begun(t) /\ Past(u) = Past(t)
  <2>1. u.index = t1.index /\ u.work = t1.work
    BY <1>8, <1>13, LookKeeps DEF Walking
  <2>2. QED
    BY <1>12, <1>13, <1>14, <2>1 DEF Met, AtTop, Begun, Past, InHand, Frames
<1>20. CASE unmet = {}
  <2>1. r = Len(s) /\ v = Settle(u, n)
    BY <1>7, <1>11, <1>20
  <2>2. \A w \in Dependents(g, n) : <<n, w>> \in Q
    BY <1>15, <1>18, <2>1
  <2>3. Settled(g, u, n, v)
    BY <1>18, <1>19, <2>1, <2>2, SettleWalks
  <2>4. /\ \E R : Walking(g, v, R)
        /\ Met(v) = Met(u) /\ InHand(v) = InHand(u) \ {n}
        /\ Frames(u) \subseteq Met(u) /\ Frames(v) \subseteq Met(v)
        /\ v.work # <<>> => v.work[Len(v.work)].pos # 0
    BY <2>3 DEF Settled, Met
  <2>5. v.work # <<>> => v.work[Len(v.work)].node \in Met(v)
    <3>1. SUFFICES ASSUME v.work # <<>> PROVE v.work[Len(v.work)].node \in Met(v)
      OBVIOUS
    <3>2. PICK R : Walking(g, v, R)
      BY <2>4
    <3>3. v.work \in Seq([node : g.nodes, pos : Nat])
      BY <3>2 DEF Walking, Nested
    <3>4. Len(v.work) \in DOMAIN v.work
      BY <3>1, <3>3, FrontFacts
    <3>5. QED
      BY <2>4, <3>4 DEF Frames
  <2>6. Turning(g, v)
    BY <2>4, <2>5 DEF Turning
  <2>7. n \in InHand(u) /\ Past(v) = Past(u) \cup {n} /\ n \notin Past(u) /\ Begun(v) = Begun(u)
    <3>1. n \in InHand(u)
      BY <1>18, <1>19, HandLeadsUp DEF InHand
    <3>2. QED
      BY <1>19, <2>4, <3>1 DEF Past, Begun
  <2>8. Advances(t, v)
    BY <1>19, <2>7 DEF Advances
  <2>9. QED
    BY <1>10, <2>6, <2>8
<1>21. CASE unmet # {}
  <2>1. PICK k \in Nat : k = Min(unmet) /\ k \in unmet /\ k <= Len(s) /\ k >= from + 1
    BY <1>16, <1>21
  <2>2. r = k - 1 /\ v = GoOn(u, n, r, m)
    BY <1>7, <1>11, <1>21, <2>1
  <2>3. r \in Nat /\ r + 1 = k /\ k \in DOMAIN s
    BY <1>12, <1>15, <2>1, <2>2
  <2>4. m \notin Met(u)
    BY <1>6, <1>9, <1>19, <2>1, <2>3 DEF Met
  <2>5. /\ Walking(g, v, Q) /\ v.index = u.index /\ Frames(v) = Frames(u) \cup {m}
        /\ AtTop(v, m) /\ v.work[Len(v.work)].pos = 0
    <3>1. Stands(g, n, r + 1, m) /\ \A i \in 1..r : <<n, Successors(g, n)[i]>> \in Q
      BY <1>5, <1>9, <1>18, <2>3 DEF Stands
    <3>2. /\ Walking(g, GoOn(u, n, r, m), Q)
          /\ GoOn(u, n, r, m).index = u.index
          /\ Frames(GoOn(u, n, r, m)) = Frames(u) \cup {m}
          /\ AtTop(GoOn(u, n, r, m), m)
          /\ GoOn(u, n, r, m).work[Len(GoOn(u, n, r, m).work)].pos = 0
      BY <1>18, <1>19, <2>3, <2>4, <3>1, PushWalks
    <3>3. QED
      BY <2>2, <3>2
  <2>6. Met(v) = Met(u) /\ v.work[Len(v.work)].node = m /\ v.work # <<>>
    BY <2>5 DEF Met, AtTop
  <2>7. Turning(g, v)
    BY <2>4, <2>5, <2>6 DEF Turning
  <2>8. Past(v) = Past(u) /\ Begun(v) = Begun(u) \cup {m}
    BY <2>4, <2>5, <2>6 DEF Past, Begun, InHand
  <2>9. m \notin Begun(u)
    <3>1. Frames(u) \subseteq Met(u)
      <4>1. PICK x : Popped(u.work, x)
        BY DEF Popped
      <4>2. QED
        BY <1>18, <1>19, <4>1, WorkIsPopped
    <3>2. QED
      BY <2>4, <3>1 DEF Begun
  <2>10. Advances(t, v)
    BY <1>19, <2>8, <2>9 DEF Advances
  <2>11. QED
    BY <1>10, <2>7, <2>10
<1>22. QED
  BY <1>20, <1>21

AllMet(g, t) == t.work = <<>> /\ g.nodes \subseteq Met(t)

LEMMA TurnTurns ==
  ASSUME NEW g, Graphic(g), NEW t, Turning(g, t)
  PROVE  /\ Turning(g, Turn(g, t))
         /\ Advances(t, Turn(g, t)) \/ (AllMet(g, t) /\ Turn(g, t) = t)
<1>1. CASE t.work # <<>>
  <2>1. Turn(g, t) = Walk(g, t)
    BY <1>1 DEF Turn
  <2>2. QED
    BY <1>1, <2>1, WalkTurns
<1>2. CASE t.work = <<>> /\ g.nodes \ DOMAIN t.index = {}
  <2>1. Turn(g, t) = t
    BY <1>2 DEF Turn
  <2>2. AllMet(g, t)
    BY <1>2 DEF AllMet, Met
  <2>3. QED
    BY <2>1, <2>2
<1>3. CASE t.work = <<>> /\ g.nodes \ DOMAIN t.index # {}
  <2>1. PICK m : m = Min(g.nodes \ DOMAIN t.index) /\ m \in g.nodes \ DOMAIN t.index
    <3>1. PICK T : T = g.nodes \ DOMAIN t.index
      OBVIOUS
    <3>2. T \subseteq Nat /\ T # {}
      BY <1>3, <3>1 DEF Graphic
    <3>3. Min(T) \in T
      BY <3>2, MinIsLeast
    <3>4. QED
      BY <3>1, <3>3
  <2>2. PICK x : x = <<Frame(m, 0)>>
    OBVIOUS
  <2>3. /\ x \in Seq([node : g.nodes, pos : Nat]) /\ x # <<>> /\ Len(x) = 1 /\ DOMAIN x = {1}
        /\ x[1].node = m /\ x[1].pos = 0
    <3>1. PICK f \in [node : g.nodes, pos : Nat] : f = Frame(m, 0) /\ f.node = m /\ f.pos = 0
      <4>1. Frame(m, 0) \in [node : g.nodes, pos : Nat]
        BY <2>1 DEF Frame
      <4>2. Frame(m, 0).node = m /\ Frame(m, 0).pos = 0
        BY DEF Frame
      <4>3. QED
        BY <4>1, <4>2
    <3>2. x = <<f>>
      BY <2>2, <3>1
    <3>3. x \in Seq([node : g.nodes, pos : Nat]) /\ x # <<>> /\ Len(x) = 1 /\ x[1] = f
      BY <3>2
    <3>4. DOMAIN x = {1}
      BY <3>3
    <3>5. QED
      BY <3>1, <3>3, <3>4
  <2>4. PICK P : Walking(g, t, P)
    BY DEF Turning
  <2>5. PICK u : u = [t EXCEPT !.work = x]
    OBVIOUS
  <2>6. /\ u.work = x /\ u.index = t.index /\ u.low = t.low /\ u.stack = t.stack
        /\ u.components = t.components /\ IsWalk(u)
    <3>1. t = [work |-> t.work, index |-> t.index, low |-> t.low, stack |-> t.stack,
               components |-> t.components]
      BY <2>4 DEF Walking, IsWalk
    <3>2. u = [work |-> x, index |-> t.index, low |-> t.low, stack |-> t.stack,
               components |-> t.components]
      BY <2>5, <3>1
    <3>3. QED
      BY <3>2 DEF IsWalk
  <2>7. Frames(t) = {} /\ Frames(u) = {m} /\ Met(u) = Met(t) /\ m \notin Met(u)
    <3>1. DOMAIN t.work = {}
      BY <1>3
    <3>2. QED
      BY <2>1, <2>3, <2>6, <3>1 DEF Frames, Met
  <2>8. InHand(u) = InHand(t) /\ Held(u) = Held(t) /\ Past(u) = Past(t)
    BY <2>6, <2>7 DEF InHand, Held, Past
  <2>9. Nested(g, u.work, u.index)
    <3>1. \A i, j \in DOMAIN x : i = 1 /\ j = 1 /\ ~(i < Len(x)) /\ ~(i < j)
      BY <2>3
    <3>2. QED
      BY <2>3, <2>6, <3>1 DEF Nested
  <2>10. Passed(g, u.work, P)
    <3>1. ASSUME NEW i \in DOMAIN x, NEW k \in DOMAIN Successors(g, x[i].node)
          PROVE  ~(k < x[i].pos) /\ k # x[i].pos
      <4>1. Successors(g, x[i].node) \in Seq(Dependents(g, x[i].node))
        BY SuccessorsAre
      <4>2. k \in Nat /\ k >= 1
        BY <3>1, <4>1
      <4>3. QED
        BY <2>3, <4>2
    <3>2. QED
      BY <2>6, <3>1 DEF Passed
  <2>11. Core(g, u.index, u.low, Held(u), u.components, InHand(u), P) /\ Rising(u)
    BY <2>4, <2>6, <2>7, <2>8 DEF Walking, Rising
  <2>12. Turning(g, u) /\ u.work # <<>>
    <3>1. Walking(g, u, P)
      BY <2>6, <2>9, <2>10, <2>11 DEF Walking
    <3>2. QED
      BY <2>3, <2>6, <2>7, <3>1 DEF Turning
  <2>13. Turn(g, t) = Walk(g, u)
    BY <1>3, <2>1, <2>2, <2>5 DEF Turn
  <2>14. Turning(g, Walk(g, u)) /\ Advances(u, Walk(g, u))
    BY <2>12, WalkTurns
  <2>15. Past(t) = Past(u) /\ Begun(u) = Begun(t) \cup {m} /\ m \notin Begun(t)
    BY <2>7, <2>8 DEF Begun
  <2>16. Advances(t, Walk(g, u))
    BY <2>14, <2>15 DEF Advances
  <2>17. QED
    BY <2>13, <2>14, <2>16
<1>4. QED
  BY <1>1, <1>2, <1>3

\* How far a walk has come: at most twice the number of nodes.
Spent(t) == Cardinality(Past(t)) + Cardinality(Begun(t))

LEMMA WalkIsBounded ==
  ASSUME NEW g, Graphic(g), NEW t, Turning(g, t)
  PROVE  /\ Past(t) \subseteq g.nodes /\ Begun(t) \subseteq g.nodes
         /\ IsFiniteSet(Past(t)) /\ IsFiniteSet(Begun(t))
         /\ Cardinality(Past(t)) \in Nat /\ Cardinality(Begun(t)) \in Nat
         /\ Cardinality(Past(t)) <= Cardinality(g.nodes)
         /\ Cardinality(Begun(t)) <= Cardinality(g.nodes)
<1>1. PICK P : Walking(g, t, P)
  BY DEF Turning
<1>2. Met(t) \subseteq g.nodes
  BY <1>1, MetIsFinite
<1>3. Frames(t) \subseteq g.nodes
  <2>1. t.work \in Seq([node : g.nodes, pos : Nat])
    BY <1>1 DEF Walking, Nested
  <2>2. PICK w : w = t.work
    OBVIOUS
  <2>3. \A i \in DOMAIN w : w[i] \in [node : g.nodes, pos : Nat]
    BY <2>1, <2>2, Elements
  <2>4. \A i \in DOMAIN w : w[i].node \in g.nodes
    BY <2>3
  <2>5. QED
    BY <2>2, <2>4 DEF Frames
<1>4. Past(t) \subseteq g.nodes /\ Begun(t) \subseteq g.nodes
  BY <1>2, <1>3 DEF Past, Begun
<1>5. QED
  BY <1>4, FS_Subset, FS_CardinalityType DEF Graphic

LEMMA WalkAdvances ==
  ASSUME NEW g, Graphic(g), NEW t, NEW v, Turning(g, t), Turning(g, v), Advances(t, v)
  PROVE  Spent(t) \in Nat /\ Spent(v) \in Nat /\ Spent(t) + 1 <= Spent(v)
<1>1. /\ IsFiniteSet(Past(v)) /\ IsFiniteSet(Begun(v))
      /\ Past(t) \in SUBSET Past(v) /\ Begun(t) \in SUBSET Begun(v)
      /\ Past(t) # Past(v) \/ Begun(t) # Begun(v)
  BY WalkIsBounded DEF Advances
<1>2. /\ Cardinality(Past(t)) <= Cardinality(Past(v))
      /\ Cardinality(Past(t)) = Cardinality(Past(v)) => Past(t) = Past(v)
  BY <1>1, FS_Subset
<1>3. /\ Cardinality(Begun(t)) <= Cardinality(Begun(v))
      /\ Cardinality(Begun(t)) = Cardinality(Begun(v)) => Begun(t) = Begun(v)
  BY <1>1, FS_Subset
<1>4. /\ Cardinality(Past(t)) \in Nat /\ Cardinality(Begun(t)) \in Nat
      /\ Cardinality(Past(v)) \in Nat /\ Cardinality(Begun(v)) \in Nat
  BY WalkIsBounded
<1>5. Cardinality(Past(t)) # Cardinality(Past(v)) \/ Cardinality(Begun(t)) # Cardinality(Begun(v))
  BY <1>1, <1>2, <1>3
<1>6. QED
  BY <1>2, <1>3, <1>4, <1>5 DEF Spent

\* The walk as a function of its turns.
Unrolls(g, f, k) ==
  f = [i \in 0..k |-> IF i = 0 THEN Fresh ELSE Turn(g, f[i - 1])]

LEMMA TurnsUnroll ==
  ASSUME NEW g
  PROVE  \A k \in Nat : \E f : Unrolls(g, f, k)
<1> DEFINE S == {k \in Nat : \E f : Unrolls(g, f, k)}
<1>1. 0 \in S
  <2>1. PICK f : f = [i \in 0..0 |-> Fresh]
    OBVIOUS
  <2>2. \A i \in 0..0 : i = 0
    OBVIOUS
  <2>3. f = [i \in 0..0 |-> IF i = 0 THEN Fresh ELSE Turn(g, f[i - 1])]
    BY <2>1, <2>2
  <2>4. Unrolls(g, f, 0)
    BY <2>3 DEF Unrolls
  <2>5. QED
    BY <2>4
<1>2. ASSUME NEW k \in Nat, k \in S PROVE k + 1 \in S
  <2>1. PICK f : Unrolls(g, f, k)
    BY <1>2
  <2>2. f = [i \in 0..k |-> IF i = 0 THEN Fresh ELSE Turn(g, f[i - 1])]
    BY <2>1 DEF Unrolls
  <2>3. PICK h : h = [i \in 0..(k + 1) |-> IF i = k + 1 THEN Turn(g, f[k]) ELSE f[i]]
    OBVIOUS
  <2>4. ASSUME NEW i \in 0..(k + 1)
        PROVE  h[i] = IF i = 0 THEN Fresh ELSE Turn(g, h[i - 1])
    <3>1. CASE i = 0
      <4>1. i # k + 1 /\ i \in 0..k
        BY <3>1
      <4>2. QED
        BY <2>2, <2>3, <3>1, <4>1
    <3>2. CASE i = k + 1
      <4>1. i # 0 /\ i - 1 = k /\ k \in 0..(k + 1) /\ k # k + 1
        BY <3>2
      <4>2. h[k] = f[k] /\ h[i] = Turn(g, f[k])
        BY <2>3, <3>2, <4>1
      <4>3. QED
        BY <4>1, <4>2
    <3>3. CASE i # 0 /\ i # k + 1
      <4>1. i \in 0..k /\ i - 1 \in 0..(k + 1) /\ i - 1 # k + 1
        BY <2>4, <3>3
      <4>2. h[i] = f[i] /\ h[i - 1] = f[i - 1]
        BY <2>3, <3>3, <4>1
      <4>3. QED
        BY <2>2, <3>3, <4>1, <4>2
    <3>4. QED
      BY <3>1, <3>2, <3>3
  <2>5. h = [i \in 0..(k + 1) |-> IF i = 0 THEN Fresh ELSE Turn(g, h[i - 1])]
    BY <2>3, <2>4
  <2>6. Unrolls(g, h, k + 1)
    BY <2>5 DEF Unrolls
  <2>7. QED
    BY <2>6
<1>3. \A k \in Nat : k \in S
  <2> HIDE DEF S
  <2>1. QED
    BY <1>1, <1>2, Induct
<1>4. QED
  BY <1>3

LEMMA TarjanIs ==
  ASSUME NEW g, Graphic(g)
  PROVE  /\ Tarjan(g)[0] = Fresh
         /\ \A i \in 0..(2 * Cardinality(g.nodes)) :
              i # 0 => Tarjan(g)[i] = Turn(g, Tarjan(g)[i - 1])
<1>1. PICK n \in Nat : n = 2 * Cardinality(g.nodes)
  BY FS_CardinalityType DEF Graphic
<1>2. \E f : Unrolls(g, f, n)
  BY TurnsUnroll
<1>3. \E f : f = [i \in 0..(2 * Cardinality(g.nodes)) |->
                    IF i = 0 THEN Fresh ELSE Turn(g, f[i - 1])]
  BY <1>1, <1>2 DEF Unrolls
<1>4. Tarjan(g) = [i \in 0..(2 * Cardinality(g.nodes)) |->
                     IF i = 0 THEN Fresh ELSE Turn(g, Tarjan(g)[i - 1])]
  BY <1>3, Zenon DEF Tarjan
<1>5. PICK f : f = Tarjan(g)
  OBVIOUS
<1>6. f = [i \in 0..n |-> IF i = 0 THEN Fresh ELSE Turn(g, f[i - 1])]
  BY <1>1, <1>4, <1>5
<1>7. 0 \in 0..n
  OBVIOUS
<1>8. f[0] = Fresh /\ \A i \in 0..n : i # 0 => f[i] = Turn(g, f[i - 1])
  BY <1>6, <1>7
<1>9. QED
  BY <1>1, <1>5, <1>8

LEMMA FreshTurns ==
  ASSUME NEW g
  PROVE  Turning(g, Fresh)
<1>1. PICK t : t = Fresh
  OBVIOUS
<1>2. /\ t = [work |-> <<>>, index |-> <<>>, low |-> <<>>, stack |-> <<>>, components |-> {}]
      /\ t.work = <<>> /\ t.index = <<>> /\ t.low = <<>> /\ t.stack = <<>> /\ t.components = {}
  BY <1>1 DEF Fresh
<1>3. DOMAIN <<>> = {} /\ \A S : <<>> \in Seq(S)
  OBVIOUS
<1>4. Met(t) = {} /\ Held(t) = {} /\ Frames(t) = {} /\ InHand(t) = {}
  BY <1>2, <1>3 DEF Met, Held, Frames, InHand
<1>5. Core(g, t.index, t.low, Held(t), t.components, InHand(t), {})
  BY <1>2, <1>3, <1>4
     DEF Core, Numbers, Judged, ClosedSet, Reaches, Returns, Seen, Lowest, Bounds
<1>6. Nested(g, t.work, t.index) /\ Passed(g, t.work, {}) /\ Rising(t) /\ IsWalk(t)
  BY <1>2, <1>3, <1>4 DEF Nested, Passed, Rising, IsWalk
<1>7. Walking(g, t, {})
  BY <1>5, <1>6 DEF Walking
<1>8. QED
  BY <1>1, <1>2, <1>7 DEF Turning

LEMMA TarjanTurns ==
  ASSUME NEW g, Graphic(g), NEW n \in Nat, n = 2 * Cardinality(g.nodes),
         NEW i \in 0..n
  PROVE  /\ Turning(g, Tarjan(g)[i])
         /\ AllMet(g, Tarjan(g)[i]) \/ i <= Spent(Tarjan(g)[i])
<1> DEFINE Holds(k) == /\ Turning(g, Tarjan(g)[k])
                       /\ AllMet(g, Tarjan(g)[k]) \/ k <= Spent(Tarjan(g)[k])
           S == {k \in Nat : k <= n => Holds(k)}
<1>1. 0 \in S
  <2>1. Turning(g, Tarjan(g)[0])
    BY TarjanIs, FreshTurns
  <2>2. 0 <= Spent(Tarjan(g)[0])
    BY <2>1, WalkIsBounded DEF Spent
  <2>3. QED
    BY <2>1, <2>2
<1>2. ASSUME NEW k \in Nat, k \in S PROVE k + 1 \in S
  <2>1. SUFFICES ASSUME k + 1 <= n PROVE Holds(k + 1)
    OBVIOUS
  <2>2. k <= n /\ k + 1 \in 0..n /\ k + 1 # 0 /\ k + 1 - 1 = k
    BY <2>1
  <2>3. PICK t : t = Tarjan(g)[k]
    OBVIOUS
  <2>4. PICK v : v = Tarjan(g)[k + 1]
    OBVIOUS
  <2>5. v = Turn(g, t)
    BY <2>2, <2>3, <2>4, TarjanIs
  <2>6. Turning(g, t) /\ (AllMet(g, t) \/ k <= Spent(t))
    BY <1>2, <2>2, <2>3
  <2>7. Turning(g, v) /\ (Advances(t, v) \/ (AllMet(g, t) /\ v = t))
    BY <2>5, <2>6, TurnTurns
  <2>8. AllMet(g, v) \/ k + 1 <= Spent(v)
    <3>1. CASE AllMet(g, t) /\ v = t
      BY <3>1
    <3>2. CASE Advances(t, v) /\ k <= Spent(t)
      <4>1. Spent(t) \in Nat /\ Spent(v) \in Nat /\ Spent(t) + 1 <= Spent(v)
        BY <2>6, <2>7, <3>2, WalkAdvances
      <4>2. QED
        BY <3>2, <4>1
    <3>3. CASE Advances(t, v) /\ AllMet(g, t)
      <4>1. Turn(g, t) = t
        BY <3>3 DEF AllMet, Turn, Met
      <4>2. QED
        BY <2>5, <3>3, <4>1
    <3>4. QED
      BY <2>6, <2>7, <3>1, <3>2, <3>3
  <2>9. QED
    BY <2>4, <2>7, <2>8
<1>3. i \in S
  <2> HIDE DEF S
  <2>1. \A k \in Nat : k \in S
    BY <1>1, <1>2, Induct
  <2>2. QED
    BY <2>1
<1>4. QED
  BY <1>3

\* The components are the classes of the nodes that lead to one another.
LEMMA ComponentsAre ==
  ASSUME NEW g, Graphic(g)
  PROVE  Judged(g, Components(g)) /\ UNION Components(g) = g.nodes
<1>1. PICK n \in Nat : n = 2 * Cardinality(g.nodes) /\ n \in 0..n
  BY FS_CardinalityType DEF Graphic
<1>2. PICK t : t = Tarjan(g)[n]
  OBVIOUS
<1>3. Turning(g, t) /\ (AllMet(g, t) \/ n <= Spent(t))
  BY <1>1, <1>2, TarjanTurns
<1>4. PICK P : Walking(g, t, P)
  BY <1>3 DEF Turning
<1>5. Met(t) \subseteq g.nodes
  BY <1>4, MetIsFinite
<1>6. InHand(t) = {} /\ g.nodes \subseteq Met(t)
  <2>1. CASE AllMet(g, t)
    <3>1. DOMAIN t.work = {}
      BY <2>1 DEF AllMet
    <3>2. QED
      BY <2>1, <3>1 DEF AllMet, InHand, Frames
  <2>2. CASE n <= Spent(t)
    <3>1. /\ Cardinality(Past(t)) \in Nat /\ Cardinality(Begun(t)) \in Nat
          /\ Cardinality(Past(t)) <= Cardinality(g.nodes)
          /\ Cardinality(Begun(t)) <= Cardinality(g.nodes)
          /\ Past(t) \in SUBSET g.nodes
      BY <1>3, WalkIsBounded
    <3>2. Cardinality(g.nodes) \in Nat /\ IsFiniteSet(g.nodes)
      BY FS_CardinalityType DEF Graphic
    <3>3. Cardinality(Past(t)) = Cardinality(g.nodes)
      BY <1>1, <2>2, <3>1, <3>2 DEF Spent
    <3>4. Past(t) = g.nodes
      BY <3>1, <3>2, <3>3, FS_Subset
    <3>5. QED
      BY <1>5, <3>4 DEF Past, InHand
  <2>3. QED
    BY <1>3, <2>1, <2>2
<1>7. Core(g, t.index, t.low, Held(t), t.components, {}, P)
  BY <1>4, <1>6 DEF Walking
<1>8. Held(t) = {}
  BY <1>7 DEF Core, Returns
<1>9. UNION t.components = Met(t) /\ Judged(g, t.components)
  BY <1>7, <1>8 DEF Core, Numbers, Met
<1>10. Components(g) = t.components
  BY <1>1, <1>2 DEF Components
<1>11. QED
  BY <1>5, <1>6, <1>9, <1>10

-----------------------------------------------------------------------------
(***************************************************************************)
(* The two judges of a topology against what follows what.                 *)
(***************************************************************************)

LEMMA FollowsLeads ==
  ASSUME NEW g, Graphic(g), NEW x \in g.nodes, NEW y \in g.nodes, x # y
  PROVE  <<x, y>> \in Follows(g) <=> Leads(g, x, y)
<1>1. <<x, y>> \in Follows(g) <=>
        \A S \in SUBSET g.nodes : (\A m \in S \cup {x} : Dependents(g, m) \subseteq S) => y \in S
  BY DEF Follows
<1>2. ASSUME <<x, y>> \in Follows(g) PROVE Leads(g, x, y)
  <2>1. SUFFICES ASSUME NEW S, ClosedSet(g, S), x \in S PROVE y \in S
    BY DEF Leads
  <2>2. S \in SUBSET g.nodes /\ \A m \in S \cup {x} : Dependents(g, m) \subseteq S
    BY <2>1 DEF ClosedSet
  <2>3. QED
    BY <1>1, <1>2, <2>2
<1>3. ASSUME Leads(g, x, y) PROVE <<x, y>> \in Follows(g)
  <2>1. SUFFICES ASSUME NEW S \in SUBSET g.nodes,
                        \A m \in S \cup {x} : Dependents(g, m) \subseteq S
                 PROVE  y \in S
    BY <1>1
  <2>2. ClosedSet(g, S \cup {x})
    BY <2>1 DEF ClosedSet
  <2>3. y \in S \cup {x}
    BY <1>3, <2>2 DEF Leads
  <2>4. QED
    BY <2>3
<1>4. QED
  BY <1>2, <1>3

LEMMA CycleEdgesAre ==
  ASSUME NEW g, Graphic(g)
  PROVE  \A e \in g.edges :
           /\ e[1] \in g.nodes /\ e[2] \in g.nodes /\ e[1] # e[2]
           /\ Leads(g, e[1], e[2])
           /\ e \in CycleEdges(g) <=> Leads(g, e[2], e[1])
<1>1. SUFFICES ASSUME NEW e \in g.edges
               PROVE  /\ e[1] \in g.nodes /\ e[2] \in g.nodes /\ e[1] # e[2]
                      /\ Leads(g, e[1], e[2])
                      /\ e \in CycleEdges(g) <=> Leads(g, e[2], e[1])
  OBVIOUS
<1>2. e[1] \in g.nodes /\ e[2] \in g.nodes /\ e[1] # e[2]
  BY DEF Graphic, WellFormed
<1>3. Leads(g, e[1], e[2])
  <2>1. e[2] \in Dependents(g, e[1])
    BY DEF Dependents
  <2>2. QED
    BY <2>1, LeadsThere
<1>4. Judged(g, Components(g)) /\ UNION Components(g) = g.nodes
  BY ComponentsAre
<1>5. ASSUME e \in CycleEdges(g) PROVE Leads(g, e[2], e[1])
  <2>1. PICK c \in Components(g) : e[1] \in c /\ e[2] \in c
    BY <1>5 DEF CycleEdges
  <2>2. QED
    BY <1>2, <1>4, <2>1 DEF Judged
<1>6. ASSUME Leads(g, e[2], e[1]) PROVE e \in CycleEdges(g)
  <2>1. PICK c \in Components(g) : e[1] \in c
    BY <1>2, <1>4
  <2>2. e[2] \in c
    BY <1>2, <1>3, <1>4, <1>6, <2>1 DEF Judged
  <2>3. IsFiniteSet(c)
    <3>1. c \in SUBSET g.nodes
      BY <1>4
    <3>2. QED
      BY <3>1, FS_Subset DEF Graphic
  <2>4. Cardinality(c) > 1
    <3>1. Cardinality(c) \in Nat
      BY <2>3, FS_CardinalityType
    <3>2. Cardinality(c) # 0
      BY <2>1, <2>3, FS_EmptySet
    <3>3. Cardinality(c) # 1
      BY <1>2, <2>1, <2>2, <2>3, FS_Singleton
    <3>4. QED
      BY <3>1, <3>2, <3>3
  <2>5. QED
    BY <2>1, <2>2, <2>4 DEF CycleEdges
<1>7. QED
  BY <1>2, <1>3, <1>5, <1>6

\* In an order that has every producer before its consumers, no node leads to
\* an earlier one.
LEMMA OrderedHasNoCycle ==
  ASSUME NEW g, Graphic(g), Validates(g)
  PROVE  CycleEdges(g) = {}
<1>1. PICK o : o = KahnOrder(g)
  OBVIOUS
<1>2. /\ o \in Seq(g.nodes) /\ Distinct(o) /\ Forward(g, o)
      /\ {o[i] : i \in DOMAIN o} = g.nodes
  BY <1>1, KahnOrders
<1>3. DOMAIN o = 1..Len(o) /\ Len(o) \in Nat
  BY <1>2
<1>4. \A i, j \in DOMAIN o : o[j] \in Dependents(g, o[i]) => i < j
  <2>1. SUFFICES ASSUME NEW i \in DOMAIN o, NEW j \in DOMAIN o, o[j] \in Dependents(g, o[i])
                 PROVE  i < j
    OBVIOUS
  <2>2. o[i] \in Dependencies(g, o[j])
    BY <2>1, Neighbours
  <2>3. PICK k \in DOMAIN o : k < j /\ o[k] = o[i]
    BY <1>2, <2>2 DEF Forward
  <2>4. k = i
    BY <1>2, <2>3 DEF Distinct
  <2>5. QED
    BY <2>3, <2>4
<1>5. ASSUME NEW e \in CycleEdges(g) PROVE FALSE
  <2>1. e \in g.edges
    BY DEF CycleEdges
  <2>2. /\ e[1] \in g.nodes /\ e[2] \in g.nodes /\ Leads(g, e[2], e[1])
        /\ e[2] \in Dependents(g, e[1])
    <3>1. e[2] \in Dependents(g, e[1])
      BY <2>1 DEF Dependents
    <3>2. QED
      BY <1>5, <2>1, <3>1, CycleEdgesAre
  <2>3. PICK a \in DOMAIN o : o[a] = e[1]
    BY <1>2, <2>2
  <2>4. PICK S : S = {o[i] : i \in {j \in DOMAIN o : a < j}}
    OBVIOUS
  <2>5. ClosedSet(g, S)
    <3>1. S \subseteq g.nodes
      BY <1>2, <2>4
    <3>2. ASSUME NEW m \in S, NEW w \in Dependents(g, m) PROVE w \in S
      <4>1. PICK i \in DOMAIN o : o[i] = m /\ a < i
        BY <2>4, <3>2
      <4>2. w \in g.nodes
        BY <3>2, Neighbours
      <4>3. PICK j \in DOMAIN o : o[j] = w
        BY <1>2, <4>2
      <4>4. i < j
        BY <1>4, <3>2, <4>1, <4>3
      <4>5. a < j
        BY <1>3, <4>1, <4>4
      <4>6. QED
        BY <2>4, <4>3, <4>5
    <3>3. QED
      BY <3>1, <3>2 DEF ClosedSet
  <2>6. e[2] \in S
    <3>1. PICK j \in DOMAIN o : o[j] = e[2]
      BY <1>2, <2>2
    <3>2. a < j
      BY <1>4, <2>2, <2>3, <3>1
    <3>3. QED
      BY <2>4, <3>1, <3>2
  <2>7. e[1] \in S
    BY <2>2, <2>5, <2>6 DEF Leads
  <2>8. PICK j \in DOMAIN o : a < j /\ o[j] = o[a]
    BY <2>3, <2>4, <2>7
  <2>9. j = a
    BY <1>2, <2>8 DEF Distinct
  <2>10. QED
    BY <1>3, <2>8, <2>9
<1>6. QED
  BY <1>5

\* Among nodes that each have a dependency among them, one to which as few as
\* possible lead is led to by its dependency, and leads to it.
LEMMA StuckHasCycle ==
  ASSUME NEW g, Graphic(g), NEW U, U \subseteq g.nodes, U # {},
         \A u \in U : \E d \in U : d \in Dependencies(g, u)
  PROVE  CycleEdges(g) # {}
<1> DEFINE From(u) == {x \in U : Leads(g, x, u)}
<1>1. IsFiniteSet(U)
  BY FS_Subset DEF Graphic
<1>2. ASSUME NEW u \in U PROVE IsFiniteSet(From(u)) /\ Cardinality(From(u)) \in Nat
  <2>1. From(u) \in SUBSET U
    OBVIOUS
  <2> HIDE DEF From
  <2>2. QED
    BY <1>1, <2>1, FS_Subset, FS_CardinalityType
<1>3. PICK T : T = {Cardinality(From(u)) : u \in U}
  OBVIOUS
<1>4. T \subseteq Nat /\ T # {}
  <2> HIDE DEF From
  <2>1. QED
    BY <1>2, <1>3
<1>5. PICK k \in T : \A y \in T : k <= y
  BY <1>4, Least
<1>6. PICK u \in U : Cardinality(From(u)) = k
  <2> HIDE DEF From
  <2>1. QED
    BY <1>3
<1>7. PICK d \in U : d \in Dependencies(g, u)
  OBVIOUS
<1>8. PICK e \in g.edges : e[1] = d /\ e[2] = u
  BY <1>7 DEF Dependencies
<1>9. Leads(g, d, u)
  BY <1>8, CycleEdgesAre
<1>10. From(d) \in SUBSET From(u) /\ u \in From(u)
  BY <1>9, LeadsOn, LeadsThere
<1>11. Cardinality(From(u)) <= Cardinality(From(d))
  <2> HIDE DEF From
  <2>1. QED
    BY <1>3, <1>5, <1>6
<1>12. From(d) = From(u)
  <2> HIDE DEF From
  <2>1. Cardinality(From(d)) <= Cardinality(From(u))
        /\ (Cardinality(From(d)) = Cardinality(From(u)) => From(d) = From(u))
    BY <1>2, <1>10, FS_Subset
  <2>2. Cardinality(From(d)) \in Nat /\ Cardinality(From(u)) \in Nat
    BY <1>2
  <2>3. QED
    BY <1>11, <2>1, <2>2
<1>13. Leads(g, u, d)
  BY <1>10, <1>12
<1>14. e \in CycleEdges(g)
  BY <1>8, <1>13, CycleEdgesAre
<1>15. QED
  BY <1>14

LEMMA UnorderedHasCycle ==
  ASSUME NEW g, Graphic(g), ~Validates(g)
  PROVE  CycleEdges(g) # {}
<1>1. Cardinality(g.nodes) \in Nat
  BY FS_CardinalityType DEF Graphic
<1>2. PICK k : k = Kahn(g)[Cardinality(g.nodes)]
  OBVIOUS
<1>3. KahnInv(g, k) /\ (Len(k.order) = Cardinality(g.nodes) \/ k.ready = {})
  BY <1>1, <1>2, KahnKeeps
<1>4. k.ready = {} /\ Len(k.order) # Cardinality(g.nodes)
  BY <1>2, <1>3 DEF Validates, KahnOrder
<1>5. PICK o : o = k.order
  OBVIOUS
<1>6. o \in Seq(g.nodes) /\ Distinct(o) /\ Out(k) = {o[i] : i \in DOMAIN o}
  BY <1>3, <1>5 DEF KahnInv, Out
<1>7. Cardinality({o[i] : i \in DOMAIN o}) = Len(o)
  BY <1>6, DistinctCounts
<1>8. PICK U : U = g.nodes \ Out(k)
  OBVIOUS
<1>9. U # {}
  <2>1. Out(k) \subseteq g.nodes /\ Out(k) # g.nodes
    <3>1. \A i \in DOMAIN o : o[i] \in g.nodes
      BY <1>6
    <3>2. Out(k) \subseteq g.nodes
      BY <1>6, <3>1
    <3>3. Cardinality(Out(k)) = Len(o) /\ Len(o) # Cardinality(g.nodes)
      BY <1>4, <1>5, <1>6, <1>7
    <3>4. QED
      BY <3>2, <3>3
  <2>2. QED
    BY <1>8, <2>1
<1>10. ASSUME NEW u \in U PROVE \E d \in U : d \in Dependencies(g, u)
  <2>1. ~(Dependencies(g, u) \subseteq Out(k))
    BY <1>3, <1>4, <1>8 DEF KahnInv
  <2>2. Dependencies(g, u) \subseteq g.nodes
    BY Neighbours
  <2>3. QED
    BY <1>8, <2>1, <2>2
<1>11. QED
  BY <1>8, <1>9, <1>10, StuckHasCycle

\* The two judges of a topology agree, with each other and with reachability,
\* on every graph: the edges classify_cycle_edges returns are those both of
\* whose ends reach one another, whatever the order in which Tarjan's walk
\* meets them; and topological_sort accepts exactly the graphs without one.
THEOREM JudgesAgree ==
  ASSUME NEW g, g.nodes \subseteq Nat, IsFiniteSet(g.nodes), WellFormed(g)
  PROVE  /\ CycleEdges(g) = {e \in g.edges : <<e[2], e[1]>> \in Follows(g)}
         /\ Validates(g) <=> CycleEdges(g) = {}
<1>1. Graphic(g)
  BY DEF Graphic
<1>2. ASSUME NEW e \in g.edges
      PROVE  e \in CycleEdges(g) <=> <<e[2], e[1]>> \in Follows(g)
  <2>1. e[2] \in g.nodes /\ e[1] \in g.nodes /\ e[2] # e[1]
        /\ (e \in CycleEdges(g) <=> Leads(g, e[2], e[1]))
    BY <1>1, CycleEdgesAre
  <2>2. <<e[2], e[1]>> \in Follows(g) <=> Leads(g, e[2], e[1])
    BY <1>1, <2>1, FollowsLeads
  <2>3. QED
    BY <2>1, <2>2
<1>3. CycleEdges(g) \subseteq g.edges
  BY DEF CycleEdges
<1>4. Validates(g) <=> CycleEdges(g) = {}
  BY <1>1, OrderedHasNoCycle, UnorderedHasCycle
<1>5. QED
  BY <1>2, <1>3, <1>4
-----------------------------------------------------------------------------
\* What a plan keeps of the nodes that ran, as a relation of any two plans.
Keeps(prior, new) ==
  \A n \in Executed :
    /\ n \in Planned(new)
    /\ new.entries[n] = prior.entries[n]
    /\ new.wiring[n] = prior.wiring[n]
    /\ prior.contract[n] # NoContract => new.contract[n] = prior.contract[n]

\* A plan pinned to its predecessor has the order of the fresh compile, and
\* keeps what ran.
LEMMA PinnedKeeps ==
  ASSUME NEW g, NEW ms, NEW d, Monotonic(plan, Assembled(g, ms, d))
  PROVE  /\ Pinned(plan, Assembled(g, ms, d)).order = Assembled(g, ms, d).order
         /\ Pinned(plan, Assembled(g, ms, d)).revision = plan.revision + 1
         /\ Keeps(plan, Pinned(plan, Assembled(g, ms, d)))
<1> DEFINE new == Assembled(g, ms, d)
           old == Pinned(plan, new)
<1>1. /\ old.order = new.order
      /\ old.revision = plan.revision + 1
      /\ old.entries = [n \in Planned(new) |->
                          IF n \in Executed THEN plan.entries[n] ELSE new.entries[n]]
      /\ old.wiring = [n \in Planned(new) |->
                         IF n \in Executed THEN plan.wiring[n] ELSE new.wiring[n]]
      /\ old.contract = [n \in Planned(new) |->
                           IF n \in Executed /\ plan.contract[n] # NoContract
                             THEN plan.contract[n] ELSE new.contract[n]]
  BY DEF Pinned, Assembled
<1>2. Planned(old) = Planned(new)
  BY <1>1 DEF Planned
<1>3. \A n \in Executed : n \in Planned(new)
  BY DEF Monotonic
<1> HIDE DEF new, old
<1>4. Keeps(plan, old)
  BY <1>1, <1>2, <1>3 DEF Keeps
<1>5. QED
  BY <1>1, <1>4 DEF new, old

-----------------------------------------------------------------------------
(* ExecutedSliceFrozen is inductive as it stands. *)

\* Nothing ran yet when the first plan is compiled.
LEMMA NothingRan ==
  ASSUME ExecutedSliceFrozen, plan = NoPlan
  PROVE  Executed = {}
<1>1. Planned(NoPlan) = {}
  BY DEF Planned, NoPlan
<1>2. QED
  BY <1>1 DEF ExecutedSliceFrozen

\* A compile replaces the plan by one that keeps what ran, or by none.
LEMMA CompileKeeps ==
  ASSUME NEW ms, NEW d, ExecutedSliceFrozen, Compile(ms, d)
  PROVE  ExecutedSliceFrozen'
<1>1. UNCHANGED ran
  BY DEF Compile
<1>2. CASE Executed = {}
  BY <1>1, <1>2 DEF ExecutedSliceFrozen, Executed
<1>3. CASE plan' = plan
  BY <1>1, <1>3 DEF ExecutedSliceFrozen, Executed, Planned
<1>4. CASE /\ Recompiles(spec, ms, d)
           /\ plan' = Pinned(plan, Assembled(spec, ms, d))
  <2>1. Keeps(plan, plan') /\ plan'.order = Assembled(spec, ms, d).order
    BY <1>4, PinnedKeeps DEF Recompiles
  <2>2. QED
    BY <1>1, <2>1 DEF ExecutedSliceFrozen, Executed, Keeps, Planned
<1>5. QED
  BY <1>2, <1>3, <1>4, NothingRan DEF Compile, Supersede, Adopt, Refuse

LEMMA RunNodeKeeps ==
  ASSUME NEW n, ExecutedSliceFrozen, RunNode(n)
  PROVE  ExecutedSliceFrozen'
<1>1. plan' = plan /\ Planned(plan') = Planned(plan)
  BY DEF RunNode, Planned
<1>2. CASE UNCHANGED ran
  BY <1>1, <1>2 DEF ExecutedSliceFrozen, Executed
<1>3. CASE Extracts(n)
  <2>1. /\ Executed' = Executed \cup {n}
        /\ n \in Planned(plan)
        /\ \A m \in Executed' :
             IF m \in Executed THEN ran'[m] = ran[m]
             ELSE /\ ran'[m].entry = plan.entries[n]
                  /\ ran'[m].wires = plan.wiring[n]
                  /\ ran'[m].contract = plan.contract[n]
    BY <1>3 DEF RunNode, Runnable, Executed
  <2>2. QED
    BY <1>1, <2>1 DEF ExecutedSliceFrozen
<1>4. QED
  BY <1>2, <1>3 DEF RunNode

LEMMA StepKeeps == ExecutedSliceFrozen /\ [Next]_vars => ExecutedSliceFrozen'
<1> SUFFICES ASSUME ExecutedSliceFrozen, [Next]_vars PROVE ExecutedSliceFrozen'
  OBVIOUS
<1>1. CASE UNCHANGED <<plan, ran>>
  BY <1>1 DEF ExecutedSliceFrozen, Executed, Planned
<1>2. ASSUME NEW ms, NEW d, CompileGiven(ms, d) PROVE ExecutedSliceFrozen'
  BY <1>2, CompileKeeps DEF CompileGiven
<1>3. ASSUME NEW d, CompileStaffed(d) PROVE ExecutedSliceFrozen'
  BY <1>3, CompileKeeps DEF CompileStaffed
<1>4. ASSUME NEW n, RunNode(n) PROVE ExecutedSliceFrozen'
  BY <1>4, RunNodeKeeps
<1>5. QED
  BY <1>1, <1>2, <1>3, <1>4
     DEF Next, vars, Author, AuthorByTemplate, BeginStaffing, Staffed, Rebind, GiveUp

\* For every author, and however manifests and trust move between compiles:
\* what ran stays in the plan with the entry, the wires and the contract it ran
\* with (OrchestrationAssembler.recompile).
THEOREM SliceFrozen == Spec => []ExecutedSliceFrozen
<1>1. Init => ExecutedSliceFrozen
  BY DEF Init, ExecutedSliceFrozen, Executed
<1>2. QED
  BY <1>1, StepKeeps, PTL DEF Spec
-----------------------------------------------------------------------------
(***************************************************************************)
(* PlanServesTheRun, part one: what a fresh assembly is.                   *)
(***************************************************************************)

\* A topology an author may hand on.
Sound(g) == g.nodes \subseteq Node /\ WellFormed(g) /\ Validates(g)

\* The wires of a plan come from earlier in its order.
FlowsForward(p) ==
  \A i \in DOMAIN p.order :
    \A k \in DOMAIN p.wiring[p.order[i]] :
      \E j \in 1..(i - 1) : p.order[j] = p.wiring[p.order[i]][k].producer

Framed(p) ==
  /\ p.order \in Seq(Node) /\ Distinct(p.order)
  /\ DOMAIN p.entries = Planned(p) /\ DOMAIN p.wiring = Planned(p)
  /\ DOMAIN p.contract = Planned(p)
  /\ FlowsForward(p)

\* What a node that is planned promises: its contract's declaration, or else
\* its manifest's schema.
Declared(io, ms, n) == IF io # Undeclared THEN io ELSE ms[n].outputs

\* The wires of a plan carry what the gates looked for.
WireFits(p, ms, d, n, i) ==
  LET w == p.wiring[n][i]
      promise == Declared(p.contract[w.producer].io, ms, w.producer)
  IN  /\ i \in Nat /\ w.producer \in Planned(p) /\ w.field \in DOMAIN promise
      /\ n \in Strict(d) =>
           /\ Gates.single_writer =>
                \A j \in DOMAIN p.wiring[n] : p.wiring[n][j].to = w.to => j = i
           /\ Gates.strict_types => Compatible(promise[w.field], ms[n].inputs[w.to])

Fits(p, ms, d) == \A n \in Planned(p) : \A i \in DOMAIN p.wiring[n] : WireFits(p, ms, d, n, i)

\* The wires of a manifest are numbered.
Numbered(ms) == \A n \in DOMAIN ms : DOMAIN ms[n].depends_on \subseteq Nat \ {0}

LEMMA SoundIsGraphic ==
  ASSUME NEW g, Sound(g)
  PROVE  Graphic(g)
<1>1. g.nodes \in SUBSET Node /\ IsFiniteSet(Node) /\ Node \subseteq Nat
  BY CompileAssumption DEF Sound
<1>2. IsFiniteSet(g.nodes)
  BY <1>1, FS_Subset
<1>3. QED
  BY <1>1, <1>2 DEF Graphic, Sound

\* A chain of distinct stages is ranked by the places of its stages.
LEMMA ChainIsSound ==
  ASSUME NEW stages \in Seq(Node), Distinct(stages)
  PROVE  Sound(Chain(stages))
<1> DEFINE g == Chain(stages)
<1>1. /\ g.nodes = {stages[i] : i \in DOMAIN stages}
      /\ g.edges = {<<stages[i], stages[i + 1]>> : i \in 1..(Len(stages) - 1)}
  BY DEF Chain
<1>2. Len(stages) \in Nat /\ DOMAIN stages = 1..Len(stages) /\ \A i \in DOMAIN stages : stages[i] \in Node
  OBVIOUS
<1>3. g.nodes \subseteq Node
  BY <1>1, <1>2
<1>4. ASSUME NEW e \in g.edges
      PROVE  \E i \in 1..(Len(stages) - 1) :
               e[1] = stages[i] /\ e[2] = stages[i + 1] /\ i \in DOMAIN stages /\ i + 1 \in DOMAIN stages
  BY <1>1, <1>2
<1>5. WellFormed(g)
  <2>1. SUFFICES ASSUME NEW e \in g.edges PROVE e[1] \in g.nodes /\ e[2] \in g.nodes /\ e[1] # e[2]
    BY DEF WellFormed
  <2>2. PICK i \in 1..(Len(stages) - 1) :
          e[1] = stages[i] /\ e[2] = stages[i + 1] /\ i \in DOMAIN stages /\ i + 1 \in DOMAIN stages
    BY <1>4
  <2>3. i # i + 1
    BY <2>2
  <2>4. QED
    BY <1>1, <2>2, <2>3 DEF Distinct
<1>6. PICK rank : rank = [n \in g.nodes |-> CHOOSE i \in DOMAIN stages : stages[i] = n]
  OBVIOUS
<1>7. \A n \in g.nodes : rank[n] \in DOMAIN stages /\ stages[rank[n]] = n
  BY <1>1, <1>6
<1>8. \A i \in DOMAIN stages : stages[i] \in g.nodes /\ rank[stages[i]] = i
  BY <1>1, <1>7 DEF Distinct
<1>9. rank \in [g.nodes -> Nat]
  <2>1. \A n \in g.nodes : rank[n] \in Nat
    BY <1>2, <1>7
  <2> HIDE DEF g
  <2>2. QED
    BY <1>6, <2>1
<1>10. ASSUME NEW e \in g.edges PROVE rank[e[1]] < rank[e[2]]
  <2>1. PICK i \in 1..(Len(stages) - 1) :
          e[1] = stages[i] /\ e[2] = stages[i + 1] /\ i \in DOMAIN stages /\ i + 1 \in DOMAIN stages
    BY <1>4
  <2>2. rank[e[1]] = i /\ rank[e[2]] = i + 1
    BY <1>8, <2>1
  <2>3. QED
    BY <2>2
<1>11. Ranks(g, rank)
  BY <1>9, <1>10 DEF Ranks
<1>12. Graphic(g)
  <2>1. IsFiniteSet(g.nodes)
    BY <1>3, CompileAssumption, FS_Subset
  <2>2. QED
    BY <1>3, <1>5, <2>1, CompileAssumption DEF Graphic
<1>13. Validates(g)
  <2> HIDE DEF g
  <2>1. QED
    BY <1>11, <1>12, KahnAccepts
<1>14. QED
  BY <1>3, <1>5, <1>13 DEF Sound

LEMMA GatedIs ==
  ASSUME NEW d
  PROVE  /\ Gated(d).strict = Strict(d)
         /\ Gated(d).single_writer = Gates.single_writer
         /\ Gated(d).strict_types = Gates.strict_types
BY CompileAssumption DEF Gated

\* One wire of a fresh assembly, by the gate.
LEMMA WireAligns ==
  ASSUME NEW g, Sound(g), NEW ms, NEW d, Assembles(g, ms, d), Numbered(ms),
         NEW n \in g.nodes, NEW i \in DOMAIN ms[n].depends_on
  PROVE  LET w == ms[n].depends_on[i]
         IN  /\ w.producer \in Dependencies(g, n) /\ w.producer \in g.nodes
             /\ w.field \in DOMAIN DeclaredOutputs(g, ms, w.producer)
             /\ n \in Strict(d) =>
                  /\ Gates.single_writer =>
                       \A j \in DOMAIN ms[n].depends_on : ms[n].depends_on[j].to = w.to => j = i
                  /\ Gates.strict_types =>
                       Compatible(DeclaredOutputs(g, ms, w.producer)[w.field], ms[n].inputs[w.to])
<1> DEFINE w == ms[n].depends_on[i]
<1>1. n \in DOMAIN ms
  BY DEF Assembles
<1>2. \A j \in DOMAIN ms[n].depends_on : EdgeAligns(g, ms, Gated(d), n, j)
  BY <1>1 DEF Assembles, Aligned, NodeAligns
<1>3. EdgeAligns(g, ms, Gated(d), n, i)
  BY <1>2
<1>4. w.producer \in Dependencies(g, n) /\ w.field \in DOMAIN DeclaredOutputs(g, ms, w.producer)
  BY <1>3 DEF EdgeAligns
<1>5. w.producer \in g.nodes
  BY <1>4, SoundIsGraphic, Neighbours
<1>6. ASSUME n \in Strict(d), Gates.strict_types
      PROVE  Compatible(DeclaredOutputs(g, ms, w.producer)[w.field], ms[n].inputs[w.to])
  BY <1>3, <1>6, GatedIs DEF EdgeAligns, DeclaredInputs
<1>7. ASSUME n \in Strict(d), Gates.single_writer,
             NEW j \in DOMAIN ms[n].depends_on, ms[n].depends_on[j].to = w.to
      PROVE  j = i
  <2>1. \A k \in DOMAIN ms[n].depends_on : OneWriter(ms, n, k)
    BY <1>2, <1>7, GatedIs DEF EdgeAligns
  <2>2. i \in Nat \ {0} /\ j \in Nat \ {0}
    BY <1>1 DEF Numbered
  <2>3. CASE j < i
    <3>1. j \in 1..(i - 1)
      BY <2>2, <2>3
    <3>2. QED
      BY <1>7, <2>1, <3>1 DEF OneWriter
  <2>4. CASE i < j
    <3>1. i \in 1..(j - 1)
      BY <2>2, <2>4
    <3>2. QED
      BY <1>7, <2>1, <3>1 DEF OneWriter
  <2>5. QED
    BY <2>2, <2>3, <2>4
<1>8. QED
  BY <1>4, <1>5, <1>6, <1>7

\* The contract of an assembly declares what the gate read.
LEMMA ContractDeclares ==
  ASSUME NEW g, NEW ms, NEW d, NEW n \in g.nodes
  PROVE  /\ Assembled(g, ms, d).contract[n].io = Contract(g, ms, d, n).io
         /\ Declared(Contract(g, ms, d, n).io, ms, n) = DeclaredOutputs(g, ms, n)
<1>1. Contract(g, ms, d, n).io = IF n \in DOMAIN g.outputs THEN g.outputs[n] ELSE Undeclared
  BY DEF Contract
<1>2. Assembled(g, ms, d).contract[n] = Contract(g, ms, d, n)
  BY DEF Assembled
<1>3. QED
  BY <1>1, <1>2 DEF Declared, DeclaredOutputs

LEMMA AssembledIsFramed ==
  ASSUME NEW g, Sound(g), NEW ms, NEW d, Assembles(g, ms, d), Numbered(ms)
  PROVE  Framed(Assembled(g, ms, d)) /\ Planned(Assembled(g, ms, d)) = g.nodes
<1>1. PICK p : p = Assembled(g, ms, d)
  OBVIOUS
<1>2. /\ p.order = KahnOrder(g)
      /\ p.entries = [n \in g.nodes |-> ms[n].hosting]
      /\ p.wiring = [n \in g.nodes |-> ms[n].depends_on]
      /\ p.contract = [n \in g.nodes |-> Contract(g, ms, d, n)]
  BY <1>1 DEF Assembled
<1>3. PICK o : o = KahnOrder(g)
  OBVIOUS
<1>4. o \in Seq(g.nodes) /\ Distinct(o) /\ Forward(g, o) /\ {o[i] : i \in DOMAIN o} = g.nodes
  BY <1>3, SoundIsGraphic, KahnOrders DEF Sound
<1>5. Planned(p) = g.nodes
  BY <1>2, <1>3, <1>4 DEF Planned
<1>6. o \in Seq(Node)
  <2>1. g.nodes \subseteq Node
    BY DEF Sound
  <2>2. QED
    BY <1>4, <2>1
<1>7. ASSUME NEW i \in DOMAIN o, NEW k \in DOMAIN p.wiring[o[i]]
      PROVE  \E j \in 1..(i - 1) : o[j] = p.wiring[o[i]][k].producer
  <2>1. PICK n \in g.nodes : n = o[i]
    BY <1>4
  <2>2. p.wiring[n] = ms[n].depends_on /\ k \in DOMAIN ms[n].depends_on
    BY <1>2, <1>7, <2>1
  <2>3. ms[n].depends_on[k].producer \in Dependencies(g, n)
    BY <2>2, WireAligns
  <2>4. PICK j \in DOMAIN o : j < i /\ o[j] = ms[n].depends_on[k].producer
    BY <1>4, <2>1, <2>3 DEF Forward
  <2>5. j \in Nat \ {0} /\ i \in Nat
    BY <1>4
  <2>6. j \in 1..(i - 1)
    BY <2>4, <2>5
  <2>7. QED
    BY <2>1, <2>2, <2>4, <2>6
<1>8. FlowsForward(p)
  <2>1. p.order = o
    BY <1>2, <1>3
  <2>2. QED
    BY <1>7, <2>1, Zenon DEF FlowsForward
<1>9. p.order \in Seq(Node) /\ Distinct(p.order)
  BY <1>2, <1>3, <1>4, <1>6
<1>10. DOMAIN p.entries = g.nodes /\ DOMAIN p.wiring = g.nodes /\ DOMAIN p.contract = g.nodes
  BY <1>2
<1>11. QED
  BY <1>1, <1>5, <1>8, <1>9, <1>10 DEF Framed

LEMMA AssembledFits ==
  ASSUME NEW g, Sound(g), NEW ms, NEW d, Assembles(g, ms, d), Numbered(ms)
  PROVE  Fits(Assembled(g, ms, d), ms, d)
<1>1. PICK p : p = Assembled(g, ms, d)
  OBVIOUS
<1>2. Planned(p) = g.nodes
  BY <1>1, AssembledIsFramed
<1>3. \A n \in g.nodes : p.wiring[n] = ms[n].depends_on
  BY <1>1 DEF Assembled
<1>4. ASSUME NEW n \in g.nodes
      PROVE  Declared(p.contract[n].io, ms, n) = DeclaredOutputs(g, ms, n)
  BY <1>1, ContractDeclares
<1>5. ASSUME NEW n \in g.nodes, NEW i \in DOMAIN p.wiring[n]
      PROVE  WireFits(p, ms, d, n, i)
  <2>1. i \in DOMAIN ms[n].depends_on
    BY <1>3, <1>5
  <2>2. PICK w : w = ms[n].depends_on[i]
    OBVIOUS
  <2>3. i \in Nat
    BY <2>1 DEF Numbered, Assembles
  <2>4. /\ w.producer \in g.nodes
        /\ w.field \in DOMAIN DeclaredOutputs(g, ms, w.producer)
        /\ n \in Strict(d) =>
             /\ Gates.single_writer =>
                  \A j \in DOMAIN ms[n].depends_on : ms[n].depends_on[j].to = w.to => j = i
             /\ Gates.strict_types =>
                  Compatible(DeclaredOutputs(g, ms, w.producer)[w.field], ms[n].inputs[w.to])
    BY <2>1, <2>2, WireAligns
  <2>5. QED
    BY <1>2, <1>3, <1>4, <2>2, <2>3, <2>4 DEF WireFits
<1>6. Fits(p, ms, d)
  BY <1>2, <1>5 DEF Fits
<1>7. QED
  BY <1>1, <1>6
-----------------------------------------------------------------------------
(***************************************************************************)
(* PlanServesTheRun, part two: the invariant of the search and the plan.   *)
(***************************************************************************)

Searching ==
  /\ phase \in {"idle", "authored", "staffing", "staffed"}
  /\ phase # "idle" => Sound(spec)
  /\ phase \in {"staffing", "staffed"} =>
       /\ pool \in Pools /\ picked \in [spec.nodes -> Nat]
       /\ \A n \in spec.nodes : picked[n] \in DOMAIN pool[n]

Bounded ==
  /\ plan.revision \in 0..MaxRevisions /\ tries \in 0..(MaxRebinds + 1)
  /\ outcome \in {"none", "refused", "compiled", "WiringError", "RebindExhausted"}
  /\ dial \in [Node -> 0..3] /\ Executed \subseteq Node

PlanInv == Searching /\ Bounded /\ Framed(plan)

\* A manifest that is passed, and a candidate that is seated, number their wires.
LEMMA PassedIsNumbered ==
  ASSUME NEW ms \in ManifestSets
  PROVE  Numbered(ms)
<1>1. ASSUME NEW n \in DOMAIN ms PROVE DOMAIN ms[n].depends_on \subseteq Nat \ {0}
  <2>1. ms[n] \in Manifest
    BY CompileAssumption
  <2>2. PICK s : s = ms[n].depends_on /\ s \in Seq([producer : Node, field : {0, 1}, to : Node])
    BY <2>1 DEF Manifest
  <2>3. DOMAIN s \subseteq Nat \ {0}
    BY <2>2
  <2>4. QED
    BY <2>2, <2>3
<1>2. QED
  BY <1>1 DEF Numbered

LEMMA TeamIsNumbered ==
  ASSUME Searching, phase \in {"staffing", "staffed"}
  PROVE  Numbered(Team(picked))
<1>1. Sound(spec) /\ pool \in Pools /\ \A n \in spec.nodes : picked[n] \in DOMAIN pool[n]
  BY DEF Searching
<1>2. ASSUME NEW n \in spec.nodes
      PROVE  DOMAIN Team(picked)[n].depends_on \subseteq Nat \ {0}
  <2>1. PICK base : base = pool[n][picked[n]]
    OBVIOUS
  <2>2. n \in Node
    BY <1>1 DEF Sound
  <2>3. pool[n] \in Seq({m \in Manifest : m.outputs # Undeclared}) /\ picked[n] \in DOMAIN pool[n]
    BY <1>1, <2>2, CompileAssumption
  <2>4. base \in Manifest
    BY <2>1, <2>3
  <2>5. PICK sorted : sorted = Ascending(Dependencies(spec, n))
    OBVIOUS
  <2>6. Seated(spec, n, base).depends_on =
          [i \in DOMAIN sorted |-> [producer |-> sorted[i], field |-> Result, to |-> sorted[i]]]
    BY <2>4, <2>5 DEF Seated, Manifest
  <2>7. Cardinality(Dependencies(spec, n)) \in Nat
    BY <1>1, SoundIsGraphic, Neighbours, FS_CardinalityType
  <2>8. DOMAIN sorted = 1..Cardinality(Dependencies(spec, n))
    BY <2>5 DEF Ascending
  <2>9. Team(picked)[n] = Seated(spec, n, base)
    BY <2>1 DEF Team
  <2>10. QED
    BY <2>6, <2>7, <2>8, <2>9
<1>3. DOMAIN Team(picked) = spec.nodes
  BY DEF Team
<1>4. QED
  BY <1>2, <1>3 DEF Numbered

\* A plan pinned to its predecessor has the wires of the fresh compile, for a
\* node that ran had to keep them.
LEMMA PinnedIs ==
  ASSUME NEW g, NEW ms, NEW d, NEW new, new = Assembled(g, ms, d), Monotonic(plan, new),
         DOMAIN new.wiring = Planned(new), NEW p, p = Pinned(plan, new)
  PROVE  /\ p.order = new.order /\ p.revision = plan.revision + 1 /\ Planned(p) = Planned(new)
         /\ p.wiring = new.wiring
         /\ DOMAIN p.entries = Planned(new) /\ DOMAIN p.contract = Planned(new)
         /\ \A n \in Planned(new) :
              p.contract[n] = IF n \in Executed /\ plan.contract[n] # NoContract
                                THEN plan.contract[n] ELSE new.contract[n]
<1>1. /\ p.order = new.order
      /\ p.revision = plan.revision + 1
      /\ p.entries = [n \in Planned(new) |->
                        IF n \in Executed THEN plan.entries[n] ELSE new.entries[n]]
      /\ p.wiring = [n \in Planned(new) |->
                       IF n \in Executed THEN plan.wiring[n] ELSE new.wiring[n]]
      /\ p.contract = [n \in Planned(new) |->
                         IF n \in Executed /\ plan.contract[n] # NoContract
                           THEN plan.contract[n] ELSE new.contract[n]]
  BY DEF Pinned, Assembled
<1>2. \A n \in Executed : new.wiring[n] = plan.wiring[n]
  BY DEF Monotonic
<1>3. PICK wiring : wiring = new.wiring
  OBVIOUS
<1>4. \A n \in Planned(new) : p.wiring[n] = wiring[n]
  BY <1>1, <1>2, <1>3
<1>5. wiring = [n \in Planned(new) |-> wiring[n]]
  BY <1>3 DEF Assembled
<1>6. p.wiring = new.wiring
  BY <1>1, <1>3, <1>4, <1>5
<1>7. QED
  BY <1>1, <1>6 DEF Planned
\* The three ends of a compile.
LEMMA CompileCases ==
  ASSUME NEW ms, NEW d, Compile(ms, d)
  PROVE  /\ \/ UNCHANGED <<plan, manifests, dial>> /\ outcome' = "refused"
            \/ /\ plan = NoPlan /\ Assembles(spec, ms, d)
               /\ plan' = Assembled(spec, ms, d) /\ manifests' = ms /\ dial' = d /\ outcome' = "compiled"
            \/ /\ plan.revision + 1 <= MaxRevisions /\ Assembles(spec, ms, d)
               /\ Monotonic(plan, Assembled(spec, ms, d))
               /\ plan' = Pinned(plan, Assembled(spec, ms, d))
               /\ manifests' = ms /\ dial' = d /\ outcome' = "compiled"
         /\ phase' = "idle" /\ tries' = 0 /\ UNCHANGED ran
         /\ Redeclares \/ Faithful(spec, ms)
BY DEF Compile, Supersede, Adopt, Refuse, Recompiles

LEMMA PinnedIsFramed ==
  ASSUME NEW g, Sound(g), NEW ms, NEW d, Assembles(g, ms, d), Numbered(ms),
         Monotonic(plan, Assembled(g, ms, d))
  PROVE  Framed(Pinned(plan, Assembled(g, ms, d)))
<1>1. PICK new : new = Assembled(g, ms, d)
  OBVIOUS
<1>2. Framed(new) /\ Planned(new) = g.nodes
  BY <1>1, AssembledIsFramed
<1>3. PICK p : p = Pinned(plan, new)
  OBVIOUS
<1>4. /\ p.order = new.order /\ Planned(p) = Planned(new) /\ p.wiring = new.wiring
      /\ DOMAIN p.entries = Planned(new) /\ DOMAIN p.contract = Planned(new)
  BY <1>1, <1>2, <1>3, PinnedIs DEF Framed
<1>5. FlowsForward(p)
  BY <1>2, <1>4 DEF Framed, FlowsForward
<1>6. Framed(p)
  BY <1>2, <1>4, <1>5 DEF Framed
<1>7. QED
  BY <1>1, <1>3, <1>6

LEMMA CompileKeepsPlan ==
  ASSUME PlanInv, Sound(spec), NEW ms, Numbered(ms), NEW d \in Dials, Compile(ms, d)
  PROVE  PlanInv'
<1>1. d \in [Node -> 0..3] /\ MaxRevisions \in Nat /\ MaxRebinds \in Nat
  BY CompileAssumption
<1>2. phase' = "idle" /\ tries' = 0 /\ UNCHANGED ran
  BY CompileCases
<1>3. Searching'
  BY <1>2 DEF Searching
<1>4. CASE UNCHANGED <<plan, manifests, dial>> /\ outcome' = "refused"
  <2>1. Bounded'
    BY <1>1, <1>2, <1>4 DEF PlanInv, Bounded, Executed
  <2>2. Framed(plan)'
    BY <1>4 DEF PlanInv
  <2>3. QED
    BY <1>3, <2>1, <2>2 DEF PlanInv
<1>5. CASE /\ Assembles(spec, ms, d)
           /\ plan' = Assembled(spec, ms, d) /\ dial' = d /\ outcome' = "compiled"
  <2>1. Framed(plan')
    BY <1>5, AssembledIsFramed
  <2>2. plan'.revision = 0
    BY <1>5 DEF Assembled
  <2>3. Bounded'
    BY <1>1, <1>2, <1>5, <2>2 DEF PlanInv, Bounded, Executed
  <2>4. QED
    BY <1>3, <2>1, <2>3 DEF PlanInv
<1>6. CASE /\ plan.revision + 1 <= MaxRevisions /\ Assembles(spec, ms, d)
           /\ Monotonic(plan, Assembled(spec, ms, d))
           /\ plan' = Pinned(plan, Assembled(spec, ms, d)) /\ dial' = d /\ outcome' = "compiled"
  <2>1. Framed(plan')
    BY <1>6, PinnedIsFramed
  <2>2. plan'.revision = plan.revision + 1
    BY <1>6, PinnedKeeps
  <2>3. plan'.revision \in 0..MaxRevisions
    BY <1>1, <1>6, <2>2 DEF PlanInv, Bounded
  <2>4. Bounded'
    BY <1>1, <1>2, <1>6, <2>3 DEF PlanInv, Bounded, Executed
  <2>5. QED
    BY <1>3, <2>1, <2>4 DEF PlanInv
<1>7. QED
  BY <1>4, <1>5, <1>6, CompileCases

LEMMA InitPlanInv == Init => PlanInv
<1> SUFFICES ASSUME Init PROVE PlanInv
  OBVIOUS
<1>1. /\ phase = "idle" /\ plan = NoPlan /\ tries = 0 /\ outcome = "none"
      /\ dial = [n \in Node |-> 0] /\ ran = <<>>
  BY DEF Init
<1>2. MaxRevisions \in Nat /\ MaxRebinds \in Nat
  BY CompileAssumption
<1>3. Searching
  BY <1>1 DEF Searching
<1>4. plan.revision = 0 /\ Executed = {} /\ dial \in [Node -> 0..3]
  BY <1>1 DEF NoPlan, Executed
<1>5. Bounded
  BY <1>1, <1>2, <1>4 DEF Bounded
<1>6. <<>> \in Seq(Node) /\ DOMAIN <<>> = {}
  OBVIOUS
<1>7. plan.order = <<>> /\ plan.entries = <<>> /\ plan.wiring = <<>> /\ plan.contract = <<>>
  BY <1>1 DEF NoPlan
<1>8. Framed(plan)
  BY <1>6, <1>7 DEF Framed, Planned, FlowsForward, Distinct
<1>9. QED
  BY <1>3, <1>5, <1>8 DEF PlanInv

\* What an author hands on is sound: a plan author's answer is validated, a
\* template's is a chain.
LEMMA AuthorKeepsPlan ==
  ASSUME PlanInv, NEW g \in Specs, Author(g)
  PROVE  PlanInv'
<1>1. Searching'
  <2>1. CASE Authors(g)
    <3>1. Sound(g)
      BY <2>1, CompileAssumption DEF Authors, Sound
    <3>2. phase' \in {"authored", "idle"} /\ spec' = g
      BY <2>1 DEF Author
    <3>3. QED
      BY <3>1, <3>2 DEF Searching
  <2>2. CASE ~Authors(g)
    BY <2>2 DEF Author, Searching
  <2>3. QED
    BY <2>1, <2>2
<1>2. UNCHANGED <<plan, tries, dial, ran>> /\ outcome' \in {"none", "refused"}
  BY DEF Author, staffing
<1>3. Bounded' /\ Framed(plan)'
  BY <1>2 DEF PlanInv, Bounded, Executed
<1>4. QED
  BY <1>1, <1>3 DEF PlanInv

LEMMA TemplateKeepsPlan ==
  ASSUME PlanInv, NEW stages \in Shapes \cup Precedent, AuthorByTemplate(stages)
  PROVE  PlanInv'
<1>1. stages \in Seq(Node) /\ Distinct(stages)
  <2>1. CASE stages \in Shapes
    BY <2>1, CompileAssumption
  <2>2. CASE stages \in Precedent
    BY <2>2 DEF Precedent, PlanInv, Framed
  <2>3. QED
    BY <2>1, <2>2
<1>2. Sound(Chain(stages))
  BY <1>1, ChainIsSound
<1>3. phase' \in {"authored", "idle"} /\ spec' = Chain(stages)
  BY DEF AuthorByTemplate
<1>4. Searching'
  BY <1>2, <1>3 DEF Searching
<1>5. UNCHANGED <<plan, tries, dial, ran>> /\ outcome' \in {"none", "refused"}
  BY DEF AuthorByTemplate, staffing
<1>6. Bounded' /\ Framed(plan)'
  BY <1>5 DEF PlanInv, Bounded, Executed
<1>7. QED
  BY <1>4, <1>6 DEF PlanInv

LEMMA BeginStaffingKeepsPlan ==
  ASSUME PlanInv, NEW p \in Pools, BeginStaffing(p)
  PROVE  PlanInv'
<1>1. Sound(spec) /\ UNCHANGED spec
  BY DEF PlanInv, Searching, BeginStaffing
<1>2. Searching'
  <2>1. CASE \E n \in spec.nodes : p[n] = <<>>
    BY <2>1 DEF BeginStaffing, Searching
  <2>2. CASE \A n \in spec.nodes : p[n] # <<>>
    <3>1. pool' = p /\ picked' = [n \in spec.nodes |-> 1] /\ phase' = "staffing"
      BY <2>2 DEF BeginStaffing
    <3>2. ASSUME NEW n \in spec.nodes PROVE 1 \in DOMAIN p[n]
      <4>1. n \in Node
        BY <1>1 DEF Sound
      <4>2. PICK s : s = p[n] /\ s \in Seq({m \in Manifest : m.outputs # Undeclared}) /\ s # <<>>
        BY <2>2, <4>1, CompileAssumption
      <4>3. 1 \in DOMAIN s
        BY <4>2
      <4>4. QED
        BY <4>2, <4>3
    <3>3. picked' \in [spec.nodes -> Nat] /\ \A n \in spec.nodes : picked'[n] \in DOMAIN p[n]
      BY <3>1, <3>2
    <3>4. QED
      BY <1>1, <3>1, <3>3 DEF Searching
  <2>3. QED
    BY <2>1, <2>2
<1>3. UNCHANGED <<plan, dial, ran>> /\ tries' = 0 /\ outcome' \in {outcome, "RebindExhausted"}
  BY DEF BeginStaffing
<1>4. Bounded' /\ Framed(plan)'
  BY <1>3, CompileAssumption DEF PlanInv, Bounded, Executed
<1>5. QED
  BY <1>2, <1>4 DEF PlanInv

LEMMA RebindKeepsPlan ==
  ASSUME PlanInv, Rebind
  PROVE  PlanInv'
<1>1. PICK o : o = Offender
  OBVIOUS
<1>2. /\ phase = "staffing" /\ tries <= MaxRebinds /\ picked[o] < Len(pool[o])
      /\ picked' = [picked EXCEPT ![o] = @ + 1] /\ tries' = tries + 1
      /\ UNCHANGED <<phase, spec, pool>>
  BY <1>1 DEF Rebind, HasAnother
<1>3. /\ Sound(spec) /\ pool \in Pools /\ picked \in [spec.nodes -> Nat]
      /\ \A n \in spec.nodes : picked[n] \in DOMAIN pool[n]
  BY <1>2 DEF PlanInv, Searching
<1>4. ASSUME NEW n \in spec.nodes PROVE picked'[n] \in Nat /\ picked'[n] \in DOMAIN pool[n]
  <2>1. CASE n # o
    BY <1>2, <1>3, <2>1
  <2>2. CASE n = o
    <3>1. n \in Node
      BY <1>3 DEF Sound
    <3>2. PICK s : s = pool[n] /\ s \in Seq({m \in Manifest : m.outputs # Undeclared})
      BY <1>3, <3>1, CompileAssumption
    <3>3. picked'[n] = picked[n] + 1 /\ picked[n] \in Nat /\ picked[n] < Len(s)
      BY <1>2, <1>3, <2>2, <3>2
    <3>4. picked'[n] \in DOMAIN s
      BY <3>2, <3>3
    <3>5. QED
      BY <3>2, <3>3, <3>4
  <2>3. QED
    BY <2>1, <2>2
<1>5. picked' \in [spec.nodes -> Nat]
  BY <1>2, <1>3, <1>4
<1>6. Searching'
  BY <1>2, <1>3, <1>4, <1>5 DEF Searching
<1>7. UNCHANGED <<plan, dial, ran, outcome>> /\ MaxRebinds \in Nat
  BY CompileAssumption DEF Rebind
<1>8. Bounded' /\ Framed(plan)'
  BY <1>2, <1>7 DEF PlanInv, Bounded, Executed
<1>9. QED
  BY <1>6, <1>8 DEF PlanInv

LEMMA RunKeepsPlan ==
  ASSUME PlanInv, NEW n \in Node, RunNode(n)
  PROVE  PlanInv'
<1>1. UNCHANGED <<phase, plan, tries, dial>> /\ phase = "idle" /\ outcome' \in {"none", "WiringError"}
  BY DEF RunNode, staffing
<1>2. Executed' \subseteq Executed \cup {n}
  BY DEF RunNode, Executed
<1>3. Searching'
  BY <1>1 DEF Searching
<1>4. Bounded' /\ Framed(plan)'
  BY <1>1, <1>2 DEF PlanInv, Bounded
<1>5. QED
  BY <1>3, <1>4 DEF PlanInv

LEMMA StepPlanInv == PlanInv /\ [Next]_vars => PlanInv'
<1> SUFFICES ASSUME PlanInv, [Next]_vars PROVE PlanInv'
  OBVIOUS
<1>1. ASSUME NEW ms \in ManifestSets, NEW d \in Dials, CompileGiven(ms, d) PROVE PlanInv'
  <2>1. Sound(spec) /\ Numbered(ms) /\ Compile(ms, d)
    BY <1>1, PassedIsNumbered DEF CompileGiven, PlanInv, Searching
  <2>2. QED
    BY <2>1, CompileKeepsPlan
<1>2. ASSUME NEW d \in Dials, CompileStaffed(d) PROVE PlanInv'
  <2>1. phase = "staffed" /\ Compile(Team(picked), d)
    BY <1>2 DEF CompileStaffed
  <2>2. Sound(spec) /\ Numbered(Team(picked))
    BY <2>1, TeamIsNumbered DEF PlanInv, Searching
  <2>3. QED
    BY <2>1, <2>2, CompileKeepsPlan
<1>3. CASE Staffed
  <2>1. /\ phase = "staffing" /\ phase' = "staffed"
        /\ UNCHANGED <<spec, plan, pool, picked, tries, outcome, dial, ran>>
    BY <1>3 DEF Staffed, staffing
  <2>2. Searching'
    BY <2>1 DEF PlanInv, Searching
  <2>3. Bounded' /\ Framed(plan)'
    BY <2>1 DEF PlanInv, Bounded, Executed
  <2>4. QED
    BY <2>2, <2>3 DEF PlanInv
<1>4. CASE GiveUp
  <2>1. phase' = "idle" /\ outcome' = "RebindExhausted" /\ UNCHANGED <<plan, tries, dial, ran>>
    BY <1>4 DEF GiveUp, staffing
  <2>2. Searching'
    BY <2>1 DEF Searching
  <2>3. Bounded' /\ Framed(plan)'
    BY <2>1 DEF PlanInv, Bounded, Executed
  <2>4. QED
    BY <2>2, <2>3 DEF PlanInv
<1>5. CASE UNCHANGED vars
  <2>1. UNCHANGED <<phase, spec, plan, pool, picked, tries, outcome, dial, ran>>
    BY <1>5 DEF vars, staffing
  <2>2. Searching'
    BY <2>1 DEF PlanInv, Searching
  <2>3. Bounded' /\ Framed(plan)'
    BY <2>1 DEF PlanInv, Bounded, Executed
  <2>4. QED
    BY <2>2, <2>3 DEF PlanInv
<1>6. QED
  BY <1>1, <1>2, <1>3, <1>4, <1>5, AuthorKeepsPlan, TemplateKeepsPlan, BeginStaffingKeepsPlan,
     RebindKeepsPlan, RunKeepsPlan
     DEF Next

LEMMA PlanInvTypes ==
  ASSUME PlanInv
  PROVE  TypeOK /\ WiresAreForward
<1>1. Cardinality(Planned(plan)) = Len(plan.order)
  <2>1. PICK o : o = plan.order
    OBVIOUS
  <2>2. o \in Seq(Node) /\ Distinct(o)
    BY <2>1 DEF PlanInv, Framed
  <2>3. Cardinality({o[i] : i \in DOMAIN o}) = Len(o)
    BY <2>2, DistinctCounts
  <2>4. QED
    BY <2>1, <2>3 DEF Planned
<1>2. TypeOK
  BY <1>1 DEF PlanInv, Searching, Bounded, Framed, TypeOK
<1>3. WiresAreForward
  BY DEF PlanInv, Framed, FlowsForward, WiresAreForward
<1>4. QED
  BY <1>2, <1>3

\* Types, for every constant; a frozen plan has an entry, wires and a contract
\* for exactly the nodes of its order (ProvisioningPlan).
THEOREM TypeCorrect == Spec => []TypeOK
<1>1. PlanInv => TypeOK
  BY PlanInvTypes
<1>2. QED
  BY <1>1, InitPlanInv, StepPlanInv, PTL DEF Spec

\* The order a Supervisor walks serves the wiring it reads: whatever the
\* authors, the manifests and the dial do between recompiles, and though what
\* ran stays wired as it was, every wire comes from a node earlier in the order
\* (OrchestrationAssembler.assemble, recompile).
THEOREM WiresRunForward == Spec => []WiresAreForward
<1>1. PlanInv => WiresAreForward
  BY PlanInvTypes
<1>2. QED
  BY <1>1, InitPlanInv, StepPlanInv, PTL DEF Spec

-----------------------------------------------------------------------------
(***************************************************************************)
(* ReplayIsFaithful: what a resume replays, however the plan moved on.     *)
(***************************************************************************)

\* What a superseded plan put in a sequence, its successor does.
LEMMA OrderSurvives ==
  ASSUME NEW new, new.order \in Seq(Node), Monotonic(plan, new),
         NEW m, NEW n, Precedes(plan.order, m, n)
  PROVE  Precedes(new.order, m, n)
<1>1. PICK o : o = new.order
  OBVIOUS
<1>2. PICK places : places = {i \in DOMAIN o : o[i] \in Planned(plan)}
  OBVIOUS
<1>3. DOMAIN o = 1..Len(o) /\ Len(o) \in Nat
  BY <1>1
<1>4. places \subseteq Nat /\ places \subseteq DOMAIN o
  BY <1>2, <1>3
<1>5. IsFiniteSet(places)
  <2>1. IsFiniteSet(1..Len(o))
    BY <1>3, FS_Interval
  <2>2. places \subseteq 1..Len(o)
    BY <1>3, <1>4
  <2>3. QED
    BY <2>1, <2>2, FS_Subset
<1>6. PICK kept : kept = Ascending(places)
  OBVIOUS
<1>7. kept \in Seq(places) /\ \A i, j \in DOMAIN kept : i < j => kept[i] < kept[j]
  BY <1>4, <1>5, <1>6, AscendingLists
<1>8. \A i \in DOMAIN kept : kept[i] \in DOMAIN o
  <2>1. \A i \in DOMAIN kept : kept[i] \in places
    BY <1>7, Elements
  <2>2. QED
    BY <1>4, <2>1
<1>9. plan.order = [j \in DOMAIN kept |-> o[kept[j]]]
  BY <1>1, <1>2, <1>6 DEF Monotonic, Restricted
<1>10. PICK i, j \in DOMAIN plan.order : i < j /\ plan.order[i] = m /\ plan.order[j] = n
  BY DEF Precedes
<1>11. i \in DOMAIN kept /\ j \in DOMAIN kept /\ o[kept[i]] = m /\ o[kept[j]] = n
  BY <1>9, <1>10
<1>12. kept[i] \in DOMAIN o /\ kept[j] \in DOMAIN o /\ kept[i] < kept[j]
  BY <1>7, <1>8, <1>10, <1>11
<1>13. QED
  BY <1>1, <1>11, <1>12 DEF Precedes

\* What one node that ran is replayed as.
Replayed(n) ==
  /\ \A i, j \in DOMAIN ran[n].order :
       i < j => Precedes(plan.order, ran[n].order[i], ran[n].order[j])
  /\ \A k \in DOMAIN plan.wiring[n] :
       LET m == plan.wiring[n][k].producer
       IN  m \in Executed /\ Precedes(plan.order, m, n)
  /\ Payload(n) = ran[n].payload

LEMMA ReplayedEach == ReplayIsFaithful <=> \A n \in Executed : Replayed(n)
BY DEF ReplayIsFaithful, Replayed

\* The same wires overlay to the same payload.
LEMMA PayloadKept ==
  ASSUME NEW n, plan'.wiring[n] = plan.wiring[n]
  PROVE  Payload(n)' = Payload(n)
BY DEF Payload, Inputs

LEMMA NothingMoves ==
  ASSUME ReplayIsFaithful, UNCHANGED <<plan, ran>>
  PROVE  ReplayIsFaithful'
<1>1. Executed' = Executed /\ \A n : Payload(n)' = Payload(n)
  BY PayloadKept DEF Executed
<1>2. ASSUME NEW n \in Executed PROVE Replayed(n)'
  <2>1. Replayed(n)
    BY ReplayedEach
  <2>2. QED
    BY <1>1, <2>1 DEF Replayed
<1>3. QED
  BY <1>1, <1>2 DEF ReplayIsFaithful, Replayed

LEMMA CompileReplays ==
  ASSUME PlanInv, ExecutedSliceFrozen, ReplayIsFaithful, Sound(spec), NEW ms, Numbered(ms),
         NEW d, Compile(ms, d)
  PROVE  ReplayIsFaithful'
<1>1. UNCHANGED ran /\ Executed' = Executed
  BY DEF Compile, Executed
<1>2. CASE UNCHANGED plan
  BY <1>1, <1>2, NothingMoves
<1>3. CASE plan = NoPlan
  BY <1>1, <1>3, NothingRan DEF ReplayIsFaithful
<1>4. CASE /\ Assembles(spec, ms, d) /\ Monotonic(plan, Assembled(spec, ms, d))
           /\ plan' = Pinned(plan, Assembled(spec, ms, d))
  <2>1. PICK new : new = Assembled(spec, ms, d)
    OBVIOUS
  <2>2. new.order \in Seq(Node) /\ DOMAIN new.wiring = Planned(new)
    BY <1>4, <2>1, AssembledIsFramed DEF Framed
  <2>3. plan'.order = new.order /\ plan'.wiring = new.wiring
    BY <1>4, <2>1, <2>2, PinnedIs
  <2>4. \A n \in Executed : plan'.wiring[n] = plan.wiring[n]
    BY <1>4, <2>1, <2>3 DEF Monotonic
  <2>5. \A m, n : Precedes(plan.order, m, n) => Precedes(plan'.order, m, n)
    BY <1>4, <2>1, <2>2, <2>3, OrderSurvives
  <2>6. ASSUME NEW n \in Executed PROVE Replayed(n)'
    <3>1. Replayed(n)
      BY ReplayedEach
    <3>2. plan'.wiring[n] = plan.wiring[n] /\ ran'[n] = ran[n]
      BY <1>1, <2>4
    <3>3. Payload(n)' = ran'[n].payload
      BY <3>1, <3>2, PayloadKept DEF Replayed
    <3>4. \A i, j \in DOMAIN ran'[n].order :
            i < j => Precedes(plan'.order, ran'[n].order[i], ran'[n].order[j])
      BY <2>5, <3>1, <3>2 DEF Replayed
    <3>5. \A k \in DOMAIN plan'.wiring[n] :
            /\ plan'.wiring[n][k].producer \in Executed'
            /\ Precedes(plan'.order, plan'.wiring[n][k].producer, n)
      BY <1>1, <2>5, <3>1, <3>2 DEF Replayed
    <3>6. QED
      BY <3>3, <3>4, <3>5 DEF Replayed
  <2>7. QED
    BY <1>1, <2>6, ReplayedEach DEF ReplayIsFaithful, Replayed
<1>5. QED
  BY <1>2, <1>3, <1>4, CompileCases

LEMMA RunReplays ==
  ASSUME PlanInv, ReplayIsFaithful, NEW n, RunNode(n)
  PROVE  ReplayIsFaithful'
<1>1. UNCHANGED plan
  BY DEF RunNode
<1>2. CASE UNCHANGED ran
  BY <1>1, <1>2, NothingMoves
<1>3. CASE Extracts(n)
  <2>1. /\ Executed' = Executed \cup {n}
        /\ \A m \in Executed : ran'[m] = ran[m]
        /\ n \notin Executed /\ n \in Planned(plan)
        /\ ran'[n].order = plan.order /\ ran'[n].payload = Payload(n)
        /\ \A k \in DOMAIN plan.wiring[n] : plan.wiring[n][k].producer \in Executed
    BY <1>3 DEF RunNode, Runnable, Executed
  <2>2. \A m : Payload(m)' = Payload(m)
    BY <1>1, PayloadKept
  <2>3. ASSUME NEW m \in Executed PROVE Replayed(m)'
    <3>1. Replayed(m)
      BY ReplayedEach
    <3>2. QED
      BY <1>1, <2>1, <2>2, <3>1 DEF Replayed
  <2>4. ASSUME NEW k \in DOMAIN plan.wiring[n]
        PROVE  Precedes(plan.order, plan.wiring[n][k].producer, n)
    <3>1. PICK o : o = plan.order /\ o \in Seq(Node)
      BY DEF PlanInv, Framed
    <3>2. PICK i \in DOMAIN o : o[i] = n
      BY <2>1, <3>1 DEF Planned
    <3>3. PICK j \in 1..(i - 1) : o[j] = plan.wiring[n][k].producer
      BY <3>1, <3>2 DEF PlanInv, Framed, FlowsForward
    <3>4. j \in DOMAIN o /\ j < i
      BY <3>1, <3>2, <3>3
    <3>5. QED
      BY <3>1, <3>2, <3>3, <3>4 DEF Precedes
  <2>5. \A i, j \in DOMAIN plan.order : i < j => Precedes(plan.order, plan.order[i], plan.order[j])
    BY DEF Precedes
  <2>6. Replayed(n)'
    BY <1>1, <2>1, <2>2, <2>4, <2>5 DEF Replayed
  <2>7. \A m \in Executed' : Replayed(m)'
    BY <2>1, <2>3, <2>6
  <2>8. QED
    BY <2>7 DEF ReplayIsFaithful, Replayed
<1>4. QED
  BY <1>2, <1>3 DEF RunNode

LEMMA StepReplays ==
  PlanInv /\ ExecutedSliceFrozen /\ ReplayIsFaithful /\ [Next]_vars => ReplayIsFaithful'
<1> SUFFICES ASSUME PlanInv, ExecutedSliceFrozen, ReplayIsFaithful, [Next]_vars
             PROVE  ReplayIsFaithful'
  OBVIOUS
<1>1. CASE UNCHANGED <<plan, ran>>
  BY <1>1, NothingMoves
<1>2. ASSUME NEW ms \in ManifestSets, NEW d \in Dials, CompileGiven(ms, d)
      PROVE  ReplayIsFaithful'
  <2>1. Sound(spec) /\ Numbered(ms) /\ Compile(ms, d)
    BY <1>2, PassedIsNumbered DEF CompileGiven, PlanInv, Searching
  <2>2. QED
    BY <2>1, CompileReplays
<1>3. ASSUME NEW d \in Dials, CompileStaffed(d) PROVE ReplayIsFaithful'
  <2>1. phase = "staffed" /\ Compile(Team(picked), d)
    BY <1>3 DEF CompileStaffed
  <2>2. Sound(spec) /\ Numbered(Team(picked))
    BY <2>1, TeamIsNumbered DEF PlanInv, Searching
  <2>3. QED
    BY <2>1, <2>2, CompileReplays
<1>4. ASSUME NEW n \in Node, RunNode(n) PROVE ReplayIsFaithful'
  BY <1>4, RunReplays
<1>5. QED
  BY <1>1, <1>2, <1>3, <1>4
     DEF Next, vars, Author, AuthorByTemplate, BeginStaffing, Staffed, Rebind, GiveUp

\* A resume replays: over any chain of recompiles with other topologies,
\* manifests and dials, the walk of the present plan passes what an earlier
\* plan held in the sequence that one had, reaches every node that ran after
\* its producers, all of which ran, and would hand it the payload it got
\* (_check_monotonic, recompile, Supervisor._dispatch).
THEOREM ReplayFaithful == Spec => []ReplayIsFaithful
<1>1. Init => ExecutedSliceFrozen /\ ReplayIsFaithful
  BY DEF Init, ExecutedSliceFrozen, ReplayIsFaithful, Executed
<1>2. QED
  BY <1>1, InitPlanInv, StepPlanInv, StepKeeps, StepReplays, PTL DEF Spec

-----------------------------------------------------------------------------
(***************************************************************************)
(* TopologyIsJudged: what authors hand in is over the nodes there are.     *)
(***************************************************************************)

Drawn == spec.nodes \subseteq Node

LEMMA DrawnKept == PlanInv /\ Drawn /\ [Next]_vars => Drawn'
<1> SUFFICES ASSUME PlanInv, Drawn, [Next]_vars PROVE Drawn'
  OBVIOUS
<1>1. NoSpec.nodes = {}
  BY DEF NoSpec
<1>2. ASSUME NEW g \in Specs, Author(g) PROVE Drawn'
  BY <1>2, CompileAssumption DEF Author, Drawn
<1>3. ASSUME NEW stages \in Shapes \cup Precedent, AuthorByTemplate(stages) PROVE Drawn'
  <2>1. stages \in Seq(Node) /\ Distinct(stages)
    <3>1. CASE stages \in Shapes
      BY <3>1, CompileAssumption
    <3>2. CASE stages \in Precedent
      BY <3>2 DEF Precedent, PlanInv, Framed
    <3>3. QED
      BY <3>1, <3>2
  <2>2. Sound(Chain(stages))
    BY <2>1, ChainIsSound
  <2>3. QED
    BY <1>3, <2>2 DEF AuthorByTemplate, Sound, Drawn
<1>4. ASSUME NEW ms, NEW d, Compile(ms, d) PROVE Drawn'
  <2>1. spec' = NoSpec
    BY <1>4 DEF Compile
  <2>2. QED
    BY <1>1, <2>1 DEF Drawn
<1>5. ASSUME NEW n \in Node, RunNode(n) PROVE Drawn'
  <2>1. spec' = NoSpec
    BY <1>5 DEF RunNode
  <2>2. QED
    BY <1>1, <2>1 DEF Drawn
<1>6. ASSUME NEW p \in Pools, BeginStaffing(p) PROVE Drawn'
  BY <1>6 DEF BeginStaffing, Drawn
<1>7. CASE Staffed
  BY <1>7 DEF Staffed, Drawn
<1>8. CASE Rebind
  BY <1>8 DEF Rebind, Drawn
<1>9. CASE GiveUp
  BY <1>1, <1>9 DEF GiveUp, Drawn
<1>10. CASE UNCHANGED vars
  BY <1>10 DEF vars, Drawn
<1>11. QED
  BY <1>2, <1>3, <1>4, <1>5, <1>6, <1>7, <1>8, <1>9, <1>10
     DEF Next, CompileGiven, CompileStaffed

LEMMA DrawnIsJudged ==
  ASSUME Drawn
  PROVE  TopologyIsJudged
<1>1. SUFFICES ASSUME WellFormed(spec)
               PROVE  /\ CycleEdges(spec) = {e \in spec.edges : <<e[2], e[1]>> \in Follows(spec)}
                      /\ Validates(spec) <=> CycleEdges(spec) = {}
                      /\ Validates(spec) =>
                           \A i, j \in DOMAIN KahnOrder(spec) :
                             <<KahnOrder(spec)[i], KahnOrder(spec)[j]>> \in spec.edges => i < j
  BY DEF TopologyIsJudged
<1>2. spec.nodes \in SUBSET Node /\ IsFiniteSet(Node) /\ Node \subseteq Nat
  BY CompileAssumption DEF Drawn
<1>3. spec.nodes \subseteq Nat /\ IsFiniteSet(spec.nodes)
  BY <1>2, FS_Subset
<1>4. /\ CycleEdges(spec) = {e \in spec.edges : <<e[2], e[1]>> \in Follows(spec)}
      /\ Validates(spec) <=> CycleEdges(spec) = {}
  BY <1>1, <1>3, JudgesAgree
<1>5. Validates(spec) =>
        \A i, j \in DOMAIN KahnOrder(spec) :
          <<KahnOrder(spec)[i], KahnOrder(spec)[j]>> \in spec.edges => i < j
  BY <1>1, <1>3, KahnDecides
<1>6. QED
  BY <1>4, <1>5

\* Of every topology an author or a template hands in, classify_cycle_edges
\* names the edges that close a cycle, and topological_sort accepts it when
\* there is none, with every producer before its consumers.
THEOREM TopologyJudged == Spec => []TopologyIsJudged
<1>1. Init => Drawn
  BY DEF Init, NoSpec, Drawn
<1>2. Drawn => TopologyIsJudged
  BY DrawnIsJudged
<1>3. QED
  BY <1>1, <1>2, InitPlanInv, StepPlanInv, DrawnKept, PTL DEF Spec
-----------------------------------------------------------------------------
(***************************************************************************)
(* PlanServesTheRun, part three: what flows along the wires.               *)
(***************************************************************************)

\* A node that ran stands in the plan with its declaration, and it returned
\* what is declared of it now.
Kept(n) ==
  LET io == ran[n].contract.io
      promise == Declared(io, manifests, n)
  IN  /\ n \in Planned(plan) /\ plan.contract[n].io = io
      /\ \A f \in DOMAIN promise : f \in DOMAIN ran[n].fields /\ ran[n].fields[f] = promise[f]

WireServed(n, k) ==
  LET w == ran[n].wires[k]
  IN  ran[n].strict =>
        /\ Gates.single_writer => ran[n].payload[w.to] = w
        /\ Gates.strict_types => Compatible(ran[w.producer].fields[w.field], ran[n].wants[w.to])

Served(n) == \A k \in DOMAIN ran[n].wires : ran[n].wires[k].producer \in Executed /\ WireServed(n, k)

FitInv ==
  /\ outcome # "WiringError"
  /\ Fits(plan, manifests, dial)
  /\ \A n \in Executed : Kept(n)
  /\ \A n \in Executed : Served(n)

\* A faithful author leaves the declarations of what ran as they were.
LEMMA FaithfulDeclares ==
  ASSUME NEW g, NEW ms, NEW d, Faithful(g, ms), g.nodes \subseteq DOMAIN ms,
         NEW n \in Executed, n \in g.nodes
  PROVE  /\ Contract(g, ms, d, n).io = ran[n].contract.io
         /\ Declared(ran[n].contract.io, ms, n) = Declared(ran[n].contract.io, manifests, n)
<1> DEFINE h == [outputs |-> [m \in {n} |-> ran[n].contract.io]]
<1>1. /\ DeclaredOutputs(g, ms, n) = DeclaredOutputs(h, manifests, n)
      /\ Contract(g, ms, dial, n) = Contract(h, manifests, dial, n)
  BY DEF Faithful
<1>2. h.outputs = [m \in {n} |-> ran[n].contract.io] /\ n \in DOMAIN h.outputs
      /\ h.outputs[n] = ran[n].contract.io
  OBVIOUS
<1> HIDE DEF h
<1>3. Contract(h, manifests, dial, n).io = ran[n].contract.io
  BY <1>2 DEF Contract
<1>4. DeclaredOutputs(h, manifests, n) = Declared(ran[n].contract.io, manifests, n)
  BY <1>2 DEF DeclaredOutputs, Declared
<1>5. Contract(g, ms, d, n).io = Contract(g, ms, dial, n).io
  BY DEF Contract
<1>6. Contract(g, ms, d, n).io = ran[n].contract.io
  BY <1>1, <1>3, <1>5
<1>7. Declared(Contract(g, ms, d, n).io, ms, n) = DeclaredOutputs(g, ms, n)
  BY ContractDeclares
<1>8. QED
  BY <1>1, <1>4, <1>6, <1>7

\* A recompile by a faithful author: the declarations of the pinned plan are
\* those of the fresh one.
LEMMA PinnedFits ==
  ASSUME FitInv, NEW g, Sound(g), NEW ms, NEW d, Assembles(g, ms, d), Numbered(ms),
         Faithful(g, ms), Monotonic(plan, Assembled(g, ms, d))
  PROVE  /\ Fits(Pinned(plan, Assembled(g, ms, d)), ms, d)
         /\ \A n \in Executed :
              /\ n \in Planned(Pinned(plan, Assembled(g, ms, d)))
              /\ Pinned(plan, Assembled(g, ms, d)).contract[n].io = ran[n].contract.io
              /\ Declared(ran[n].contract.io, ms, n) = Declared(ran[n].contract.io, manifests, n)
<1>1. PICK new : new = Assembled(g, ms, d)
  OBVIOUS
<1>2. Framed(new) /\ Planned(new) = g.nodes /\ Fits(new, ms, d)
  BY <1>1, AssembledIsFramed, AssembledFits
<1>3. PICK p : p = Pinned(plan, new)
  OBVIOUS
<1>4. /\ Planned(p) = Planned(new) /\ p.wiring = new.wiring
      /\ \A n \in Planned(new) :
           p.contract[n] = IF n \in Executed /\ plan.contract[n] # NoContract
                             THEN plan.contract[n] ELSE new.contract[n]
  BY <1>1, <1>2, <1>3, PinnedIs DEF Framed
<1>5. g.nodes \subseteq DOMAIN ms
  BY DEF Assembles
<1>6. ASSUME NEW n \in Executed
      PROVE  /\ n \in Planned(new) /\ new.contract[n].io = ran[n].contract.io
             /\ Declared(ran[n].contract.io, ms, n) = Declared(ran[n].contract.io, manifests, n)
  <2>1. n \in Planned(new)
    BY <1>1 DEF Monotonic
  <2>2. new.contract[n].io = Contract(g, ms, d, n).io
    BY <1>1, <1>2, <2>1, ContractDeclares
  <2>3. QED
    BY <1>2, <1>5, <2>1, <2>2, FaithfulDeclares
<1>7. \A n \in Planned(new) : p.contract[n].io = new.contract[n].io
  <2>1. SUFFICES ASSUME NEW n \in Planned(new) PROVE p.contract[n].io = new.contract[n].io
    OBVIOUS
  <2>2. CASE n \in Executed
    <3>1. plan.contract[n].io = ran[n].contract.io
      BY <2>2 DEF FitInv, Kept
    <3>2. QED
      BY <1>4, <1>6, <2>2, <3>1
  <2>3. CASE n \notin Executed
    BY <1>4, <2>3
  <2>4. QED
    BY <2>2, <2>3
<1>8. ASSUME NEW n \in Planned(p), NEW i \in DOMAIN p.wiring[n]
      PROVE  WireFits(p, ms, d, n, i)
  <2>1. WireFits(new, ms, d, n, i)
    BY <1>2, <1>4 DEF Fits
  <2>2. PICK w : w = p.wiring[n][i]
    OBVIOUS
  <2>3. new.wiring[n][i] = w /\ w.producer \in Planned(new)
    BY <1>4, <2>1, <2>2 DEF WireFits
  <2>4. Declared(p.contract[w.producer].io, ms, w.producer) =
          Declared(new.contract[w.producer].io, ms, w.producer)
    BY <1>7, <2>3
  <2>5. QED
    BY <1>4, <2>1, <2>2, <2>3, <2>4 DEF WireFits
<1>9. Fits(p, ms, d)
  BY <1>8 DEF Fits
<1>10. \A n \in Executed : n \in Planned(p) /\ p.contract[n].io = ran[n].contract.io
  BY <1>4, <1>6, <1>7
<1>11. QED
  BY <1>1, <1>3, <1>6, <1>9, <1>10

LEMMA CompileFits ==
  ASSUME Redeclares = FALSE, FitInv, Sound(spec), NEW ms, Numbered(ms), NEW d, Compile(ms, d)
  PROVE  FitInv'
<1>1. UNCHANGED ran /\ Faithful(spec, ms)
  BY CompileCases
<1>2. Executed' = Executed /\ \A n \in Executed : Served(n)'
  <2>1. Executed' = Executed
    BY <1>1 DEF Executed
  <2>2. ASSUME NEW n \in Executed PROVE Served(n)'
    <3>1. Served(n)
      BY DEF FitInv
    <3>2. QED
      BY <1>1, <2>1, <3>1 DEF Served, WireServed
  <2>3. QED
    BY <2>1, <2>2
<1>3. CASE UNCHANGED <<plan, manifests, dial>> /\ outcome' = "refused"
  <2>1. \A n \in Executed : Kept(n)'
    BY <1>1, <1>3 DEF FitInv, Kept
  <2>2. Fits(plan, manifests, dial)'
    BY <1>3 DEF FitInv
  <2>3. QED
    BY <1>2, <1>3, <2>1, <2>2 DEF FitInv
<1>4. CASE /\ plan = NoPlan /\ Assembles(spec, ms, d)
           /\ plan' = Assembled(spec, ms, d) /\ manifests' = ms /\ dial' = d /\ outcome' = "compiled"
  <2>1. Planned(NoPlan) = {}
    BY DEF Planned, NoPlan
  <2>2. Executed = {}
    BY <1>4, <2>1 DEF FitInv, Kept
  <2>3. Fits(Assembled(spec, ms, d), ms, d)
    BY <1>4, AssembledFits
  <2>4. Fits(plan, manifests, dial)'
    BY <1>4, <2>3
  <2>5. QED
    BY <1>2, <1>4, <2>2, <2>4 DEF FitInv
<1>5. CASE /\ Assembles(spec, ms, d) /\ Monotonic(plan, Assembled(spec, ms, d))
           /\ plan' = Pinned(plan, Assembled(spec, ms, d))
           /\ manifests' = ms /\ dial' = d /\ outcome' = "compiled"
  <2>1. /\ Fits(plan', ms, d)
        /\ \A n \in Executed :
             /\ n \in Planned(plan') /\ plan'.contract[n].io = ran[n].contract.io
             /\ Declared(ran[n].contract.io, ms, n) = Declared(ran[n].contract.io, manifests, n)
    BY <1>1, <1>5, PinnedFits
  <2>2. Fits(plan, manifests, dial)'
    BY <1>5, <2>1
  <2>3. ASSUME NEW n \in Executed PROVE Kept(n)'
    <3>1. Kept(n)
      BY DEF FitInv
    <3>2. QED
      BY <1>1, <1>5, <2>1, <3>1 DEF Kept
  <2>4. QED
    BY <1>2, <1>5, <2>2, <2>3 DEF FitInv
<1>6. QED
  BY <1>3, <1>4, <1>5, CompileCases

\* An agent returns what is declared of it.
LEMMA ProducesPromised ==
  ASSUME NEW n, NEW f \in DOMAIN Declared(plan.contract[n].io, manifests, n)
  PROVE  f \in DOMAIN Produces(n) /\ Produces(n)[f] = Declared(plan.contract[n].io, manifests, n)[f]
<1>1. PICK io, schema : io = plan.contract[n].io /\ schema = manifests[n].outputs
  OBVIOUS
<1>2. Produces(n) = [x \in DOMAIN io \cup DOMAIN schema |-> IF x \in DOMAIN io THEN io[x] ELSE schema[x]]
  BY <1>1 DEF Produces
<1>3. CASE io # Undeclared
  BY <1>1, <1>2, <1>3 DEF Declared
<1>4. CASE io = Undeclared
  <2>1. DOMAIN io = {} /\ f \in DOMAIN schema
    BY <1>1, <1>4 DEF Undeclared, Declared
  <2>2. QED
    BY <1>1, <1>2, <1>4, <2>1 DEF Declared
<1>5. QED
  BY <1>3, <1>4

\* Where each input has one wire, the overlay is that wire.
LEMMA OneWriterWins ==
  ASSUME NEW n, NEW i \in DOMAIN plan.wiring[n], i \in Nat,
         \A j \in DOMAIN plan.wiring[n] : plan.wiring[n][j].to = plan.wiring[n][i].to => j = i
  PROVE  Payload(n)[plan.wiring[n][i].to] = plan.wiring[n][i]
<1>1. PICK wires : wires = plan.wiring[n]
  OBVIOUS
<1>2. PICK to : to = wires[i].to
  OBVIOUS
<1>3. {j \in DOMAIN wires : wires[j].to = to} = {i}
  BY <1>1, <1>2
<1>4. Max({i}) = i
  BY DEF Max
<1>5. to \in Inputs(n)
  BY <1>1, <1>2 DEF Inputs
<1>6. Payload(n) = [t \in Inputs(n) |-> wires[Max({j \in DOMAIN wires : wires[j].to = t})]]
  BY <1>1 DEF Payload
<1>7. Payload(n)[to] = wires[Max({j \in DOMAIN wires : wires[j].to = to})]
  BY <1>5, <1>6
<1>8. QED
  BY <1>1, <1>2, <1>3, <1>4, <1>7

LEMMA RunFits ==
  ASSUME FitInv, NEW n, RunNode(n)
  PROVE  FitInv'
<1>1. /\ n \in Planned(plan) /\ n \notin Executed
      /\ \A i \in DOMAIN plan.wiring[n] : plan.wiring[n][i].producer \in Executed
      /\ UNCHANGED <<plan, manifests, dial>>
  BY DEF RunNode, Runnable
<1>2. ASSUME NEW i \in DOMAIN plan.wiring[n]
      PROVE  LET w == plan.wiring[n][i]
                 promise == Declared(plan.contract[w.producer].io, manifests, w.producer)
             IN  /\ w.field \in DOMAIN promise
                 /\ w.field \in DOMAIN ran[w.producer].fields
                 /\ ran[w.producer].fields[w.field] = promise[w.field]
  <2>1. PICK w : w = plan.wiring[n][i]
    OBVIOUS
  <2>2. Kept(w.producer) /\ WireFits(plan, manifests, dial, n, i)
    BY <1>1, <2>1 DEF FitInv, Fits
  <2>3. PICK promise : promise = Declared(plan.contract[w.producer].io, manifests, w.producer)
    OBVIOUS
  <2>4. promise = Declared(ran[w.producer].contract.io, manifests, w.producer)
    BY <2>2, <2>3 DEF Kept
  <2>5. \A f \in DOMAIN promise :
          f \in DOMAIN ran[w.producer].fields /\ ran[w.producer].fields[f] = promise[f]
    BY <2>2, <2>4 DEF Kept
  <2>6. w.field \in DOMAIN promise
    BY <2>1, <2>2, <2>3 DEF WireFits
  <2>7. QED
    BY <2>1, <2>3, <2>5, <2>6
<1>3. Extracts(n)
  BY <1>2 DEF Extracts
<1>4. /\ ran' = [m \in Executed \cup {n} |->
                   IF m \in Executed THEN ran[m]
                   ELSE [entry |-> plan.entries[n], wires |-> plan.wiring[n],
                         contract |-> plan.contract[n], fields |-> Produces(n),
                         payload |-> Payload(n), wants |-> DeclaredInputs(manifests, n),
                         strict |-> n \in Strict(dial), order |-> plan.order]]
      /\ outcome' = "none"
  BY <1>3 DEF RunNode
<1>5. /\ Executed' = Executed \cup {n}
      /\ \A m \in Executed : ran'[m] = ran[m]
      /\ ran'[n].wires = plan.wiring[n] /\ ran'[n].contract = plan.contract[n]
      /\ ran'[n].fields = Produces(n) /\ ran'[n].payload = Payload(n)
      /\ ran'[n].wants = DeclaredInputs(manifests, n)
      /\ ran'[n].strict = (n \in Strict(dial))
  BY <1>1, <1>4 DEF Executed
<1>6. Fits(plan, manifests, dial)'
  BY <1>1 DEF FitInv
<1>7. ASSUME NEW m \in Executed PROVE Kept(m)'
  <2>1. Kept(m)
    BY DEF FitInv
  <2>2. QED
    BY <1>1, <1>5, <2>1 DEF Kept
<1>8. Kept(n)'
  BY <1>1, <1>5, ProducesPromised DEF Kept
<1>9. ASSUME NEW m \in Executed PROVE Served(m)'
  <2>1. Served(m)
    BY DEF FitInv
  <2>2. QED
    BY <1>5, <2>1 DEF Served, WireServed
<1>10. ASSUME NEW k \in DOMAIN plan.wiring[n]
       PROVE  WireServed(n, k)'
  <2>1. PICK w : w = plan.wiring[n][k]
    OBVIOUS
  <2>2. w.producer \in Executed /\ ran'[w.producer] = ran[w.producer]
    BY <1>1, <1>5, <2>1
  <2>3. ran'[n].wires[k] = w
    BY <1>5, <2>1
  <2>4. WireFits(plan, manifests, dial, n, k)
    BY <1>1 DEF FitInv, Fits
  <2>5. ASSUME n \in Strict(dial), Gates.single_writer
        PROVE  ran'[n].payload[w.to] = w
    <3>1. k \in Nat /\ \A j \in DOMAIN plan.wiring[n] :
                         plan.wiring[n][j].to = plan.wiring[n][k].to => j = k
      BY <2>4, <2>5 DEF WireFits
    <3>2. QED
      BY <1>5, <2>1, <3>1, OneWriterWins
  <2>6. ASSUME n \in Strict(dial), Gates.strict_types
        PROVE  Compatible(ran'[w.producer].fields[w.field], ran'[n].wants[w.to])
    <3>1. PICK promise : promise = Declared(plan.contract[w.producer].io, manifests, w.producer)
      OBVIOUS
    <3>2. Compatible(promise[w.field], manifests[n].inputs[w.to])
      BY <2>1, <2>4, <2>6, <3>1 DEF WireFits
    <3>3. ran[w.producer].fields[w.field] = promise[w.field]
      BY <1>2, <2>1, <3>1
    <3>4. ran'[n].wants[w.to] = manifests[n].inputs[w.to]
      BY <1>5 DEF DeclaredInputs
    <3>5. QED
      BY <2>2, <3>2, <3>3, <3>4
  <2>7. QED
    BY <1>5, <2>3, <2>5, <2>6 DEF WireServed
<1>11. Served(n)'
  BY <1>1, <1>5, <1>10 DEF Served
<1>12. QED
  BY <1>4, <1>5, <1>6, <1>7, <1>8, <1>9, <1>11 DEF FitInv

LEMMA InitFitInv == Init => FitInv
<1> SUFFICES ASSUME Init PROVE FitInv
  OBVIOUS
<1>1. outcome = "none" /\ Executed = {} /\ plan = NoPlan
  BY DEF Init, Executed
<1>2. Planned(NoPlan) = {}
  BY DEF Planned, NoPlan
<1>3. QED
  BY <1>1, <1>2 DEF FitInv, Fits

\* A step that leaves the plan and what ran alone.
LEMMA OtherFits ==
  ASSUME FitInv, UNCHANGED <<plan, manifests, dial, ran>>, outcome' # "WiringError"
  PROVE  FitInv'
<1>1. Executed' = Executed /\ Fits(plan, manifests, dial)'
  BY DEF FitInv, Executed
<1>2. ASSUME NEW n \in Executed PROVE Kept(n)' /\ Served(n)'
  <2>1. Kept(n) /\ Served(n)
    BY DEF FitInv
  <2>2. Kept(n)'
    BY <2>1 DEF Kept
  <2>3. Served(n)'
    BY <1>1, <2>1 DEF Served, WireServed
  <2>4. QED
    BY <2>2, <2>3
<1>3. QED
  BY <1>1, <1>2 DEF FitInv

LEMMA StepFitInv ==
  ASSUME Redeclares = FALSE
  PROVE  PlanInv /\ FitInv /\ [Next]_vars => FitInv'
<1> SUFFICES ASSUME PlanInv, FitInv, [Next]_vars PROVE FitInv'
  OBVIOUS
<1>1. ASSUME NEW ms \in ManifestSets, NEW d \in Dials, CompileGiven(ms, d) PROVE FitInv'
  <2>1. Sound(spec) /\ Numbered(ms) /\ Compile(ms, d)
    BY <1>1, PassedIsNumbered DEF CompileGiven, PlanInv, Searching
  <2>2. QED
    BY <2>1, CompileFits
<1>2. ASSUME NEW d \in Dials, CompileStaffed(d) PROVE FitInv'
  <2>1. phase = "staffed" /\ Compile(Team(picked), d)
    BY <1>2 DEF CompileStaffed
  <2>2. Sound(spec) /\ Numbered(Team(picked))
    BY <2>1, TeamIsNumbered DEF PlanInv, Searching
  <2>3. QED
    BY <2>1, <2>2, CompileFits
<1>3. ASSUME NEW n \in Node, RunNode(n) PROVE FitInv'
  BY <1>3, RunFits
<1>4. CASE \/ \E g \in Specs : Author(g)
           \/ \E stages \in Shapes \cup Precedent : AuthorByTemplate(stages)
           \/ \E p \in Pools : BeginStaffing(p)
           \/ Staffed \/ Rebind \/ GiveUp \/ UNCHANGED vars
  <2>1. UNCHANGED <<plan, manifests, dial, ran>>
        /\ outcome' \in {outcome, "none", "refused", "RebindExhausted"}
    BY <1>4 DEF Author, AuthorByTemplate, BeginStaffing, Staffed, Rebind, GiveUp, vars
  <2>2. outcome' # "WiringError"
    BY <2>1 DEF FitInv
  <2>3. QED
    BY <2>1, <2>2, OtherFits
<1>5. QED
  BY <1>1, <1>2, <1>3, <1>4 DEF Next

LEMMA FitInvServes ==
  ASSUME PlanInv, FitInv
  PROVE  PlanServesTheRun
<1>1. TypeOK /\ WiresAreForward
  BY PlanInvTypes
<1>2. PayloadsFit
  BY DEF FitInv, Served, WireServed, PayloadsFit
<1>3. QED
  BY <1>1, <1>2 DEF PlanServesTheRun

\* For authors who leave the declarations of what ran as they were, and for
\* every topology, manifest set, candidate pool, dial, gate and bound: no wire
\* of a plan breaks, and what a strict node got is on an input of its own, of a
\* type it accepts, however often the plan was superseded in between
\* (check_alignment, OrchestrationAssembler.recompile, Supervisor._dispatch).
THEOREM PlanServes ==
  ASSUME Redeclares = FALSE
  PROVE  Spec => []PlanServesTheRun
<1>1. Init => PlanInv /\ FitInv
  BY InitPlanInv, InitFitInv
<1>2. PlanInv /\ FitInv /\ [Next]_vars => PlanInv' /\ FitInv'
  BY StepPlanInv, StepFitInv
<1>3. PlanInv /\ FitInv => PlanServesTheRun
  BY FitInvServes
<1>4. QED
  BY <1>1, <1>2, <1>3, PTL DEF Spec
=============================================================================
