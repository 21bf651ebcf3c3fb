------------------------ MODULE DeliberationProofs -------------------------
(***************************************************************************)
(* Proofs about Deliberation: the digest of the inner graph, for every     *)
(* trail, budget, ceiling, answer of the seams and number of crashes.      *)
(***************************************************************************)
EXTENDS Deliberation, FiniteSetTheorems, WellFoundedInduction, TLAPS

(***************************************************************************)
(* The inductive invariant.  A marker has its payload (Marked) and a key   *)
(* of its own (Once); between the two writes of write_back the payload of  *)
(* the result in hand is on disk and no marker has its key (Pending).  The *)
(* pool of investigations does not matter: one digest is in hand at a time *)
(* and its key was looked up before its payload was written.               *)
(***************************************************************************)
Marked == \A i \in DOMAIN lane : lane[i].key \in DOMAIN raw /\ raw[lane[i].key] = lane[i].ok

Once == \A i, j \in DOMAIN lane : i # j => lane[i].key # lane[j].key

Pending ==
  digesting # NoResult =>
    /\ digesting.key \in DOMAIN raw /\ raw[digesting.key] = digesting.ok
    /\ \A i \in DOMAIN lane : lane[i].key # digesting.key

Lane == \E S : lane \in Seq(S)

IInv == Lane /\ Marked /\ Once /\ Pending

LEMMA Appended ==
  ASSUME NEW S, NEW s \in Seq(S), NEW e
  PROVE  /\ \E T : Append(s, e) \in Seq(T)
         /\ DOMAIN Append(s, e) = DOMAIN s \cup {Len(s) + 1}
         /\ Len(s) + 1 \notin DOMAIN s
         /\ Append(s, e)[Len(s) + 1] = e
         /\ \A i \in DOMAIN s : Append(s, e)[i] = s[i]
<1>1. s \in Seq(S \cup {e}) /\ e \in S \cup {e}
  OBVIOUS
<1>2. Append(s, e) \in Seq(S \cup {e})
  BY <1>1
<1>3. QED
  BY <1>1, <1>2

LEMMA InitIInv == Init => IInv
<1> SUFFICES ASSUME Init PROVE IInv
  OBVIOUS
<1>1. lane = <<>> /\ lane \in Seq({})
  BY DEF Init
<1>2. QED
  BY <1>1 DEF Init, IInv, Lane, Marked, Once, Pending

LEMMA OffloadKeeps ==
  ASSUME IInv, NEW h, NEW ok, Offload(h, ok)
  PROVE  IInv'
<1>1. /\ lane' = lane
      /\ raw' = [k \in {h} \cup DOMAIN raw |-> IF k = h THEN ok ELSE raw[k]]
      /\ digesting' = [key |-> h, ok |-> ok]
      /\ ~Seen(h)
  BY DEF Offload
<1>2. /\ DOMAIN raw' = {h} \cup DOMAIN raw
      /\ raw'[h] = ok
      /\ \A x \in DOMAIN raw : x # h => raw'[x] = raw[x]
  BY <1>1
<1>3. \A i \in DOMAIN lane : lane[i].key # h
  BY <1>1 DEF Seen
<1>4. Lane' /\ Once'
  BY <1>1 DEF IInv, Lane, Once
<1>5. Marked'
  BY <1>1, <1>2, <1>3 DEF IInv, Marked
<1>6. Pending'
  BY <1>1, <1>2, <1>3 DEF Pending
<1>7. QED
  BY <1>4, <1>5, <1>6 DEF IInv

LEMMA MarkKeeps ==
  ASSUME IInv, Mark
  PROVE  IInv'
<1>1. /\ digesting # NoResult
      /\ lane' = Append(lane, digesting)
      /\ digesting' = NoResult
      /\ raw' = raw
  BY DEF Mark
<1>2. PICK S : lane \in Seq(S)
  BY DEF IInv, Lane
<1>3. /\ Lane'
      /\ DOMAIN lane' = DOMAIN lane \cup {Len(lane) + 1}
      /\ Len(lane) + 1 \notin DOMAIN lane
      /\ lane'[Len(lane) + 1] = digesting
      /\ \A i \in DOMAIN lane : lane'[i] = lane[i]
  BY <1>1, <1>2, Appended DEF Lane
<1>4. /\ digesting.key \in DOMAIN raw /\ raw[digesting.key] = digesting.ok
      /\ \A i \in DOMAIN lane : lane[i].key # digesting.key
  BY <1>1 DEF IInv, Pending
<1>5. Marked'
  BY <1>1, <1>3, <1>4 DEF IInv, Marked
<1>6. Once'
  BY <1>3, <1>4 DEF IInv, Once
<1>7. Pending'
  BY <1>1 DEF Pending
<1>8. QED
  BY <1>3, <1>5, <1>6, <1>7 DEF IInv

\* A crash forgets the digest in hand; the lane and the payloads stay.
LEMMA CrashKeeps ==
  ASSUME IInv, NEW fresh, Crash(fresh)
  PROVE  IInv'
<1>1. lane' = lane /\ raw' = raw /\ digesting' = NoResult
  BY DEF Crash
<1>2. QED
  BY <1>1 DEF IInv, Lane, Marked, Once, Pending

LEMMA StepIInv == IInv /\ [Next]_vars => IInv'
<1> SUFFICES ASSUME IInv, [Next]_vars PROVE IInv'
  OBVIOUS
<1>1. CASE UNCHANGED <<lane, raw, digesting>>
  BY <1>1 DEF IInv, Lane, Marked, Once, Pending
<1>2. ASSUME NEW h, NEW ok, Offload(h, ok) PROVE IInv'
  BY <1>2, OffloadKeeps
<1>3. CASE Mark
  BY <1>3, MarkKeeps
<1>4. ASSUME NEW fresh, Crash(fresh) PROVE IInv'
  BY <1>4, CrashKeeps
<1>5. ASSUME Step PROVE IInv'
  <2>1. ASSUME NEW steps, Seed(steps) PROVE UNCHANGED <<lane, raw, digesting>>
    BY <2>1 DEF Seed
  <2>2. CASE BeginPass \/ Submit \/ BeginEngine
    BY <1>1, <2>2 DEF BeginPass, Submit, BeginEngine, disk
  <2>0. ASSUME NEW confident, Reuse(confident) PROVE UNCHANGED <<lane, raw, digesting>>
    BY <2>0 DEF Reuse
  <2>3. ASSUME NEW h, AlreadyDigested(h) PROVE UNCHANGED <<lane, raw, digesting>>
    BY <2>3 DEF AlreadyDigested, disk
  <2>4. CASE Observe \/ BeginChallenge \/ Uncountered \/ Counter \/ Strike \/ Converge
    BY <1>1, <2>4 DEF Observe, BeginChallenge, Uncountered, Counter, Strike, Converge, disk
  <2>5. ASSUME NEW verdict, Judge(verdict) PROVE UNCHANGED <<lane, raw, digesting>>
    BY <2>5 DEF Judge
  <2>6. ASSUME NEW candidates, Sharpen(candidates) PROVE UNCHANGED <<lane, raw, digesting>>
    BY <2>6 DEF Sharpen
  <2>7. ASSUME NEW src, NEW dst, CrossAttack(src, dst) PROVE UNCHANGED <<lane, raw, digesting>>
    BY <2>7 DEF CrossAttack
  <2>8. CASE SeamRaises \/ Lower \/ Unresolved
    BY <1>1, <2>8 DEF SeamRaises, Lower, Unresolved, disk
  <2>9. QED
    BY <1>1, <1>2, <1>3, <1>5, <2>0, <2>1, <2>2, <2>3, <2>4, <2>5, <2>6, <2>7, <2>8 DEF Step
<1>6. CASE UNCHANGED vars
  BY <1>1, <1>6 DEF vars, disk
<1>7. QED
  BY <1>4, <1>5, <1>6 DEF Next

\* A marker of the worker lane names a payload that is on disk and is the one it
\* was hashed from, and no key is marked twice, wherever the process died before
\* (InnerGraphDigest.write_back).
THEOREM MarkersBacked == Spec => []MarkersHaveTheirRaw
<1>1. IInv => MarkersHaveTheirRaw
  BY DEF IInv, Marked, Once, MarkersHaveTheirRaw
<1>2. QED
  BY <1>1, InitIInv, StepIInv, PTL DEF Spec

-----------------------------------------------------------------------------
(***************************************************************************)
(* Induction on the naturals, in the form the provers can use: about the   *)
(* members of a set.                                                       *)
(***************************************************************************)

\* The least element of a set of naturals: the intervals below its members
\* are finite sets, and strict inclusion orders those well.
LEMMA Least ==
  ASSUME NEW T, T \subseteq Nat, T # {}
  PROVE  \E x \in T : \A y \in T : x <= y
<1> DEFINE I == {0..n : n \in T}
<1>1. I \subseteq FiniteSubsetsOf(Nat)
  <2>1. SUFFICES ASSUME NEW n \in T PROVE 0..n \in FiniteSubsetsOf(Nat)
    OBVIOUS
  <2>2. 0..n \in SUBSET Nat
    OBVIOUS
  <2>3. IsFiniteSet(0..n)
    BY FS_Interval
  <2>4. QED
    BY <2>2, <2>3 DEF FiniteSubsetsOf
<1>2. I # {}
  OBVIOUS
<1>3. IsWellFoundedOn(StrictSubsetOrdering(Nat), FiniteSubsetsOf(Nat))
  BY FS_StrictSubsetOrderingWellFounded
<1>4. PICK x \in I : \A y \in I : ~(<<y, x>> \in StrictSubsetOrdering(Nat))
  <2> HIDE DEF I
  <2>1. QED
    BY <1>1, <1>2, <1>3, WFMin
<1>5. PICK m \in T : x = 0..m
  OBVIOUS
<1>6. ASSUME NEW y \in T, ~(m <= y)
      PROVE  FALSE
  <2>1. 0..y \in I
    OBVIOUS
  <2>2. y \in Nat /\ m \in Nat /\ y < m
    BY <1>6
  <2>3. 0..y \in SUBSET Nat /\ 0..m \in SUBSET Nat
    BY <2>2
  <2>4. 0..y \subseteq 0..m /\ 0..y # 0..m
    BY <2>2
  <2>5. <<0..y, 0..m>> \in StrictSubsetOrdering(Nat)
    BY <2>3, <2>4 DEF StrictSubsetOrdering
  <2>6. QED
    BY <1>4, <1>5, <2>1, <2>5
<1>7. QED
  BY <1>6

LEMMA Induct ==
  ASSUME NEW S, 0 \in S, \A n \in Nat : n \in S => n + 1 \in S
  PROVE  \A n \in Nat : n \in S
<1>1. SUFFICES ASSUME NEW n \in Nat \ S PROVE FALSE
  OBVIOUS
<1>2. PICK x \in Nat \ S : \A y \in Nat \ S : x <= y
  BY <1>1, Least
<1>3. x # 0 /\ x - 1 \in Nat
  BY <1>2
<1>4. x - 1 \in S
  BY <1>2, <1>3
<1>5. x - 1 + 1 \in S
  BY <1>3, <1>4
<1>6. QED
  BY <1>2, <1>3, <1>5

\* A recursion on bounded naturals whose step at n reads the values below n only.
Downward(D, V, F) ==
  /\ F \in [D \X [D -> V] -> V]
  /\ \A n \in D : \A f, g \in [D -> V] :
       (\A m \in D : m < n => f[m] = g[m]) => F[<<n, f>>] = F[<<n, g>>]

Solves(f, D, V, F) == f \in [D -> V] /\ \A n \in D : f[n] = F[<<n, f>>]

LEMMA RecursionDefines ==
  ASSUME NEW hi \in Nat, NEW D, D \subseteq 0..hi, NEW V, V # {}, NEW F, Downward(D, V, F)
  PROVE  \E f : Solves(f, D, V, F)
<1>0. \A n \in D : n \in Nat /\ n <= hi
  <2>1. \A n \in D : n \in 0..hi
    OBVIOUS
  <2>2. QED
    BY <2>1
<1> USE DEF Downward
<1> DEFINE S == {k \in Nat : \E f \in [D -> V] : \A n \in D : n < k => f[n] = F[<<n, f>>]}
<1>1. 0 \in S
  <2>1. PICK v \in V : TRUE
    OBVIOUS
  <2>2. [n \in D |-> v] \in [D -> V]
    OBVIOUS
  <2>3. \A n \in D : ~(n < 0)
    BY <1>0
  <2>4. QED
    BY <2>2, <2>3
<1>2. ASSUME NEW k \in Nat, k \in S
      PROVE  k + 1 \in S
  <2>1. PICK f \in [D -> V] : \A n \in D : n < k => f[n] = F[<<n, f>>]
    BY <1>2
  <2>2. CASE k \in D
    <3>1. PICK g : g = [f EXCEPT ![k] = F[<<k, f>>]]
      OBVIOUS
    <3>2. F[<<k, f>>] \in V
      BY <2>2
    <3>3. g \in [D -> V] /\ g[k] = F[<<k, f>>] /\ \A m \in D : m # k => g[m] = f[m]
      BY <2>2, <3>1, <3>2
    <3>4. ASSUME NEW n \in D, n < k + 1
          PROVE  g[n] = F[<<n, g>>]
      <4>1. \A m \in D : m < n => f[m] = g[m]
        <5>1. SUFFICES ASSUME NEW m \in D, m < n PROVE f[m] = g[m]
          OBVIOUS
        <5>2. m # k
          BY <1>0, <3>4, <5>1
        <5>3. QED
          BY <3>3, <5>2
      <4>2. F[<<n, f>>] = F[<<n, g>>]
        BY <3>3, <4>1
      <4>3. n = k \/ n < k
        BY <1>0, <3>4
      <4>4. QED
        BY <2>1, <3>3, <4>2, <4>3
    <3>5. g \in [D -> V] /\ \A n \in D : n < k + 1 => g[n] = F[<<n, g>>]
      BY <3>3, <3>4
    <3>6. k + 1 \in Nat
      OBVIOUS
    <3>7. QED
      BY <3>5, <3>6
  <2>3. CASE k \notin D
    <3>1. \A n \in D : n < k + 1 => n < k
      BY <1>0, <2>3
    <3>2. \A n \in D : n < k + 1 => f[n] = F[<<n, f>>]
      BY <2>1, <3>1
    <3>3. k + 1 \in Nat
      OBVIOUS
    <3>4. QED
      BY <3>2, <3>3
  <2>4. QED
    BY <2>2, <2>3
<1>3. hi + 1 \in S
  <2> HIDE DEF S
  <2>1. QED
    BY <1>1, <1>2, Induct
<1>4. \A n \in D : n < hi + 1
  BY <1>0
<1>5. QED
  BY <1>3, <1>4 DEF Solves

\* A finite set of naturals listed in increasing order.
LEMMA SortedLists ==
  ASSUME NEW S, S \subseteq Nat, IsFiniteSet(S)
  PROVE  /\ Sorted(S) \in Seq(S)
         /\ \A h \in S : \E i \in DOMAIN Sorted(S) : Sorted(S)[i] = h
<1> DEFINE Below(h) == {g \in S : g < h}
           Rank == [h \in S |-> Cardinality(Below(h)) + 1]
<1>1. Cardinality(S) \in Nat
  BY FS_CardinalityType
<1>2. ASSUME NEW h \in S
      PROVE  Cardinality(Below(h)) \in Nat /\ Cardinality(Below(h)) < Cardinality(S)
  <2>1. Below(h) \in SUBSET S /\ Below(h) # S
    BY <1>2
  <2>2. IsFiniteSet(Below(h)) /\ Cardinality(Below(h)) <= Cardinality(S)
        /\ Cardinality(Below(h)) # Cardinality(S)
    <3> HIDE DEF Below
    <3>1. QED
      BY <2>1, FS_Subset
  <2>3. Cardinality(Below(h)) \in Nat
    <3> HIDE DEF Below
    <3>1. QED
      BY <2>2, FS_CardinalityType
  <2>4. QED
    <3> HIDE DEF Below
    <3>1. QED
      BY <1>1, <2>2, <2>3
<1>3. ASSUME NEW h \in S, NEW g \in S, g < h
      PROVE  Cardinality(Below(g)) < Cardinality(Below(h))
  <2>0. g \in Nat /\ h \in Nat /\ ~(g < g)
    OBVIOUS
  <2>1. Below(g) \in SUBSET Below(h) /\ Below(g) # Below(h) /\ Below(h) \in SUBSET S
    <3>1. g \in Below(h) /\ g \notin Below(g) /\ Below(h) \subseteq S
      BY <1>3, <2>0
    <3>2. ASSUME NEW x \in Below(g) PROVE x \in Below(h)
      <4>1. x \in S /\ x < g /\ x \in Nat
        BY <3>2
      <4>2. x < h
        BY <1>3, <2>0, <4>1
      <4>3. QED
        BY <4>1, <4>2
    <3>3. QED
      BY <3>1, <3>2
  <2>2. IsFiniteSet(Below(h))
    <3> HIDE DEF Below
    <3>1. QED
      BY <2>1, FS_Subset
  <2>3. Cardinality(Below(g)) <= Cardinality(Below(h)) /\ Cardinality(Below(g)) # Cardinality(Below(h))
    <3> HIDE DEF Below
    <3>1. QED
      BY <2>1, <2>2, FS_Subset
  <2>4. QED
    <3> HIDE DEF Below
    <3>1. QED
      BY <1>2, <2>3
<1>4. Rank \in Injection(S, 1..Cardinality(S))
  <2> HIDE DEF Below
  <2>1. \A h \in S : Cardinality(Below(h)) + 1 \in 1..Cardinality(S)
    BY <1>1, <1>2
  <2>2. ASSUME NEW g \in S, NEW h \in S, Rank[g] = Rank[h]
        PROVE  g = h
    <3>1. Cardinality(Below(g)) = Cardinality(Below(h))
      BY <1>2, <2>2
    <3>2. ~(g < h) /\ ~(h < g)
      BY <1>2, <1>3, <3>1
    <3>3. g \in Nat /\ h \in Nat
      OBVIOUS
    <3>4. QED
      BY <3>2, <3>3
  <2>3. Rank \in [S -> 1..Cardinality(S)]
    BY <2>1
  <2>4. QED
    <3> HIDE DEF Rank
    <3>1. QED
      BY <2>2, <2>3 DEF Injection, IsInjective
<1>5. Rank \in Surjection(S, 1..Cardinality(S))
  <2>1. IsFiniteSet(1..Cardinality(S)) /\ Cardinality(1..Cardinality(S)) = Cardinality(S)
    BY <1>1, FS_Interval
  <2> HIDE DEF Rank
  <2>2. QED
    BY <1>4, <2>1, FS_Injection
<1>6. ASSUME NEW i \in 1..Cardinality(S)
      PROVE  \E h \in S : Cardinality(Below(h)) = i - 1
  <2> HIDE DEF Below
  <2>1. PICK h \in S : Rank[h] = i
    <3> HIDE DEF Rank
    <3>1. QED
      BY <1>5 DEF Surjection
  <2>2. QED
    BY <1>2, <2>1
<1>7. \A i \in 1..Cardinality(S) : Sorted(S)[i] \in S /\ Cardinality(Below(Sorted(S)[i])) = i - 1
  BY <1>6 DEF Sorted
<1>8. Sorted(S) \in [1..Cardinality(S) -> S]
  <2> DEFINE At(i) == CHOOSE h \in S : Cardinality(Below(h)) = i - 1
  <2>1. Sorted(S) = [i \in 1..Cardinality(S) |-> At(i)]
    BY Zenon DEF Sorted
  <2>2. \A i \in 1..Cardinality(S) : At(i) \in S
    BY <1>6
  <2> HIDE DEF At
  <2>3. QED
    BY <2>1, <2>2
<1>9. Sorted(S) \in Seq(S)
  BY <1>1, <1>8
<1>10. ASSUME NEW h \in S
       PROVE  \E i \in DOMAIN Sorted(S) : Sorted(S)[i] = h
  <2> HIDE DEF Below
  <2>1. PICK i \in Nat : i = Cardinality(Below(h)) + 1 /\ i \in 1..Cardinality(S)
    BY <1>1, <1>2
  <2>2. /\ Sorted(S)[i] \in S
        /\ Cardinality(Below(Sorted(S)[i])) = Cardinality(Below(h))
    BY <1>2, <1>7, <2>1
  <2>a. PICK g \in S : g = Sorted(S)[i] /\ Cardinality(Below(g)) = Cardinality(Below(h))
    BY <2>2
  <2>3. ~(Sorted(S)[i] < h) /\ ~(h < Sorted(S)[i])
    <3>1. ~(g < h)
      <4>1. SUFFICES ASSUME g < h PROVE FALSE
        OBVIOUS
      <4>2. QED
        BY <1>2, <1>3, <2>a, <4>1
    <3>2. ~(h < g)
      <4>1. SUFFICES ASSUME h < g PROVE FALSE
        OBVIOUS
      <4>2. QED
        BY <1>2, <1>3, <2>a, <4>1
    <3>3. QED
      BY <2>a, <3>1, <3>2
  <2>4. Sorted(S)[i] = h
    <3>1. Sorted(S)[i] \in Nat /\ h \in Nat
      BY <2>2
    <3>2. QED
      BY <2>3, <3>1
  <2>5. QED
    BY <1>8, <2>1, <2>4
<1>11. QED
  BY <1>9, <1>10

\* The largest element of a bounded set of naturals.
LEMMA Largest ==
  ASSUME NEW T, T # {}, NEW k \in Nat, T \subseteq 0..k
  PROVE  Max(T) \in T /\ \A x \in T : x <= Max(T)
<1> DEFINE U == {k - x : x \in T}
<1>0. \A x \in T : x \in Nat /\ x <= k
  <2>1. \A x \in T : x \in 0..k
    OBVIOUS
  <2>2. QED
    BY <2>1
<1>1. U \subseteq Nat /\ U # {}
  <2>1. \A x \in T : k - x \in Nat
    BY <1>0
  <2>2. QED
    BY <2>1
<1>2. PICK u \in U : \A v \in U : u <= v
  <2> HIDE DEF U
  <2>1. QED
    BY <1>1, Least
<1>3. PICK x \in T : u = k - x
  OBVIOUS
<1>4. \A y \in T : x >= y
  <2>1. SUFFICES ASSUME NEW y \in T PROVE x >= y
    OBVIOUS
  <2>2. k - x <= k - y /\ x \in Nat /\ y \in Nat
    BY <1>0, <1>2, <1>3
  <2>3. QED
    BY <2>2
<1>5. Max(T) \in T /\ \A y \in T : Max(T) >= y
  BY <1>4 DEF Max
<1>6. QED
  BY <1>5

-----------------------------------------------------------------------------
(***************************************************************************)
(* What the trail's mutations leave of it.  A sound log is a forest, its   *)
(* verdicts and markers come together, and its attacks are between two     *)
(* hypotheses; every mutation keeps what was there and stays sound.        *)
(***************************************************************************)
Sequenced(l) == \E S : l \in Seq(S)

Forest(l) ==
  \A h \in Hyps(l) :
    /\ l[h].depth \in Nat
    /\ IF l[h].parent = NoParent THEN l[h].depth = 0
       ELSE /\ l[h].parent \in Hyps(l) /\ l[h].parent < h
            /\ l[h].depth = l[l[h].parent].depth + 1

Judgements(l) ==
  /\ \A i \in DOMAIN l : l[i].kind = "verdict" =>
       /\ l[i].verdict # "none"
       /\ \E j \in DOMAIN l : l[j].kind = "resolved" /\ l[j].target = l[i].target
  /\ \A i \in DOMAIN l : l[i].kind = "resolved" =>
       \E j \in DOMAIN l : l[j].kind = "verdict" /\ l[j].target = l[i].target

Duels(l) ==
  \A i \in DOMAIN l : l[i].kind = "attack" =>
    l[i].src # l[i].dst /\ l[i].src \in Hyps(l) /\ l[i].dst \in Hyps(l)

Sound(l) == Sequenced(l) /\ Forest(l) /\ Judgements(l) /\ Duels(l)

Kept(l, m) == DOMAIN l \subseteq DOMAIN m /\ \A i \in DOMAIN l : m[i] = l[i]

LEMMA Spliced ==
  ASSUME NEW s, Sequenced(s), NEW t, Sequenced(t)
  PROVE  /\ Sequenced(s \o t)
         /\ Len(s) \in Nat /\ Len(t) \in Nat
         /\ DOMAIN s = 1..Len(s) /\ DOMAIN t = 1..Len(t)
         /\ Len(s \o t) = Len(s) + Len(t)
         /\ DOMAIN (s \o t) = 1..(Len(s) + Len(t))
         /\ Kept(s, s \o t)
         /\ \A i \in DOMAIN (s \o t) \ DOMAIN s :
              i - Len(s) \in DOMAIN t /\ (s \o t)[i] = t[i - Len(s)]
<1>1. PICK S : s \in Seq(S)
  BY DEF Sequenced
<1>2. PICK T : t \in Seq(T)
  BY DEF Sequenced
<1>3. s \in Seq(S \cup T) /\ t \in Seq(S \cup T)
  BY <1>1, <1>2
<1>4. s \o t \in Seq(S \cup T)
  BY <1>3
<1>5. Sequenced(s \o t)
  BY <1>4 DEF Sequenced
<1>6. Len(s) \in Nat /\ Len(t) \in Nat /\ DOMAIN s = 1..Len(s) /\ DOMAIN t = 1..Len(t)
      /\ Len(s \o t) = Len(s) + Len(t) /\ DOMAIN (s \o t) = 1..(Len(s) + Len(t))
  BY <1>3, <1>4
<1>7. Kept(s, s \o t)
  BY <1>3, <1>6 DEF Kept
<1>8. ASSUME NEW i \in DOMAIN (s \o t) \ DOMAIN s
      PROVE  i - Len(s) \in DOMAIN t /\ (s \o t)[i] = t[i - Len(s)]
  BY <1>3, <1>6
<1>9. QED
  BY <1>5, <1>6, <1>7, <1>8

LEMMA HypsKept ==
  ASSUME NEW l, NEW m, Kept(l, m)
  PROVE  /\ Hyps(l) = Hyps(m) \cap DOMAIN l
         /\ \A h \in Hyps(l) : h \in DOMAIN l /\ m[h] = l[h]
  BY DEF Kept, Hyps

LEMMA ResolvedIs ==
  ASSUME NEW l, NEW h
  PROVE  Resolved(l, h) <=> \E i \in DOMAIN l : l[i].kind = "resolved" /\ l[i].target = h
  BY DEF Resolved, OfKind

LEMMA AttacksAre ==
  ASSUME NEW l, NEW a, NEW b
  PROVE  <<a, b>> \in Attacks(l) <=>
           \E i \in DOMAIN l : l[i].kind = "attack" /\ l[i].src = a /\ l[i].dst = b
  BY DEF Attacks, OfKind

\* Hypotheses are appended, each one a root or a child of one there is.
LEMMA ForestGrows ==
  ASSUME NEW l, Sound(l), NEW m, Sequenced(m), Kept(l, m),
         NEW p \in Hyps(l) \cup {NoParent}, NEW d \in Nat,
         IF p = NoParent THEN d = 0 ELSE d = l[p].depth + 1,
         Len(l) \in Nat, DOMAIN l = 1..Len(l), DOMAIN m \subseteq Nat \ {0},
         \A i \in DOMAIN m \ DOMAIN l :
           m[i].kind = "hypothesis" /\ m[i].parent = p /\ m[i].depth = d
  PROVE  Sound(m) /\ Hyps(m) = Hyps(l) \cup (DOMAIN m \ DOMAIN l)
<1>0. Sequenced(l) /\ Forest(l) /\ Judgements(l) /\ Duels(l)
  BY DEF Sound
<1>3. \A i \in DOMAIN m \ DOMAIN l : \A j \in DOMAIN l : j < i
  OBVIOUS
<1>4. \A i \in DOMAIN m \ DOMAIN l :
        m[i].kind = "hypothesis" /\ m[i].parent = p /\ m[i].depth = d
  OBVIOUS
<1>5. \A i \in DOMAIN l : i \in DOMAIN m /\ m[i] = l[i]
  BY DEF Kept
<1>6. Hyps(m) = Hyps(l) \cup (DOMAIN m \ DOMAIN l)
  BY <1>4, <1>5 DEF Hyps
<1>7. Forest(m)
  <2>1. SUFFICES ASSUME NEW h \in Hyps(m)
                 PROVE  /\ m[h].depth \in Nat
                        /\ IF m[h].parent = NoParent THEN m[h].depth = 0
                           ELSE /\ m[h].parent \in Hyps(m) /\ m[h].parent < h
                                /\ m[h].depth = m[m[h].parent].depth + 1
    BY DEF Forest
  <2>2. CASE h \in Hyps(l)
    <3>1. m[h] = l[h] /\ \A x \in Hyps(l) : m[x] = l[x] /\ x \in Hyps(m)
      BY <1>5, <1>6, <2>2 DEF Hyps
    <3>2. PICK q : q = l[h].parent
      OBVIOUS
    <3>3. /\ l[h].depth \in Nat
          /\ IF q = NoParent THEN l[h].depth = 0
             ELSE q \in Hyps(l) /\ q < h /\ l[h].depth = l[q].depth + 1
      BY <1>0, <2>2, <3>2 DEF Forest
    <3>4. QED
      BY <3>1, <3>2, <3>3
  <2>3. CASE h \in DOMAIN m \ DOMAIN l
    <3>1. m[h].parent = p /\ m[h].depth = d
      BY <1>4, <2>3
    <3>2. CASE p = NoParent
      BY <3>1, <3>2
    <3>3. CASE p # NoParent
      <4>1. p \in DOMAIN l /\ p \in Hyps(m) /\ m[p] = l[p]
        BY <1>5, <1>6, <3>3 DEF Hyps
      <4>2. p < h
        BY <1>3, <2>3, <4>1
      <4>3. QED
        BY <3>1, <3>3, <4>1, <4>2
    <3>4. QED
      BY <3>2, <3>3
  <2>4. QED
    BY <1>6, <2>1, <2>2, <2>3
<1>8. Judgements(m)
  <2>1. ASSUME NEW i \in DOMAIN m, m[i].kind \in {"verdict", "resolved"}
        PROVE  i \in DOMAIN l /\ m[i] = l[i]
    BY <1>4, <1>5, <2>1
  <2>2. \A j \in DOMAIN l : j \in DOMAIN m /\ m[j] = l[j]
    BY <1>5
  <2>3. ASSUME NEW i \in DOMAIN m, m[i].kind = "verdict"
        PROVE  /\ m[i].verdict # "none"
               /\ \E j \in DOMAIN m : m[j].kind = "resolved" /\ m[j].target = m[i].target
    <3>1. i \in DOMAIN l /\ m[i] = l[i]
      BY <2>1, <2>3
    <3>2. QED
      BY <1>0, <2>2, <2>3, <3>1 DEF Judgements
  <2>4. ASSUME NEW i \in DOMAIN m, m[i].kind = "resolved"
        PROVE  \E j \in DOMAIN m : m[j].kind = "verdict" /\ m[j].target = m[i].target
    <3>1. i \in DOMAIN l /\ m[i] = l[i]
      BY <2>1, <2>4
    <3>2. QED
      BY <1>0, <2>2, <2>4, <3>1 DEF Judgements
  <2>5. QED
    BY <2>3, <2>4 DEF Judgements
<1>9. Duels(m)
  <2>1. ASSUME NEW i \in DOMAIN m, m[i].kind = "attack"
        PROVE  i \in DOMAIN l /\ m[i] = l[i]
    BY <1>4, <1>5, <2>1
  <2>2. QED
    BY <1>6, <2>1 DEF Sound, Duels
<1>10. QED
  BY <1>6, <1>7, <1>8, <1>9 DEF Sound

\* The depth of a root, or of a child of p.
DepthUnder(l, p, d) ==
  /\ p \in Hyps(l) \cup {NoParent} /\ d \in Nat
  /\ IF p = NoParent THEN d = 0 ELSE d = l[p].depth + 1

Proposes(t, p, d) ==
  \A i \in DOMAIN t : t[i].kind = "hypothesis" /\ t[i].parent = p /\ t[i].depth = d

LEMMA HypothesesAdded ==
  ASSUME NEW l, Sound(l), NEW t, Sequenced(t), NEW p, NEW d, DepthUnder(l, p, d), Proposes(t, p, d)
  PROVE  /\ Sound(l \o t) /\ Kept(l, l \o t)
         /\ Len(l) \in Nat /\ DOMAIN l = 1..Len(l) /\ Len(t) \in Nat
         /\ Len(l \o t) = Len(l) + Len(t) /\ DOMAIN (l \o t) = 1..(Len(l) + Len(t))
         /\ Hyps(l \o t) = Hyps(l) \cup (DOMAIN (l \o t) \ DOMAIN l)
         /\ \A i \in DOMAIN (l \o t) \ DOMAIN l :
              (l \o t)[i].parent = p /\ (l \o t)[i].depth = d
<1>1. Sequenced(l) /\ Sound(l)
  BY DEF Sound
<1>a. /\ p \in Hyps(l) \cup {NoParent} /\ d \in Nat
      /\ IF p = NoParent THEN d = 0 ELSE d = l[p].depth + 1
  BY DEF DepthUnder
<1>b. \A i \in DOMAIN t : t[i].kind = "hypothesis" /\ t[i].parent = p /\ t[i].depth = d
  BY DEF Proposes
<1>2. PICK m : m = l \o t
  OBVIOUS
<1>3. /\ Sequenced(m) /\ Kept(l, m)
      /\ Len(l) \in Nat /\ DOMAIN l = 1..Len(l) /\ Len(t) \in Nat
      /\ Len(m) = Len(l) + Len(t) /\ DOMAIN m = 1..(Len(l) + Len(t))
      /\ \A i \in DOMAIN m \ DOMAIN l : i - Len(l) \in DOMAIN t /\ m[i] = t[i - Len(l)]
  BY <1>1, <1>2, Spliced
<1>4. \A i \in DOMAIN m \ DOMAIN l :
        m[i].kind = "hypothesis" /\ m[i].parent = p /\ m[i].depth = d
  BY <1>3, <1>b
<1>5. DOMAIN m \subseteq Nat \ {0}
  BY <1>3
<1>6. Sound(m) /\ Hyps(m) = Hyps(l) \cup (DOMAIN m \ DOMAIN l)
  BY <1>3, <1>4, <1>5, <1>a, ForestGrows
<1>7. QED
  BY <1>2, <1>3, <1>4, <1>6

\* What RootHyps and Fanned append.
LEMMA Candidates ==
  ASSUME NEW c, Sequenced(c), NEW p, NEW d,
         NEW t, t = [i \in 1..Len(c) |-> Hypothesis(p, c[i], d)]
  PROVE  Sequenced(t) /\ Len(t) = Len(c) /\ Proposes(t, p, d)
<1>1. PICK k \in Nat : k = Len(c)
  BY DEF Sequenced
<1>2. PICK U : U = {t[i] : i \in 1..k}
  OBVIOUS
<1>3. DOMAIN t = 1..k /\ t \in [1..k -> U]
  BY <1>1, <1>2
<1>4. Proposes(t, p, d)
  BY DEF Hypothesis, Proposes
<1>5. t \in Seq(U) /\ Len(t) = k
  BY <1>3
<1>6. QED
  BY <1>1, <1>4, <1>5 DEF Sequenced

\* A verdict with its marker, or an attack, is appended: the forest is the same.
LEMMA RecordsAdded ==
  ASSUME NEW l, Sound(l), NEW m, Sequenced(m), Kept(l, m), Judgements(m), Duels(m),
         \A i \in DOMAIN m \ DOMAIN l : m[i].kind # "hypothesis"
  PROVE  Sound(m) /\ Hyps(m) = Hyps(l)
<1>1. \A i \in DOMAIN l : i \in DOMAIN m /\ m[i] = l[i]
  BY DEF Kept
<1>2. Hyps(m) = Hyps(l) /\ \A h \in Hyps(l) : m[h] = l[h]
  BY <1>1 DEF Hyps
<1>3. Forest(m)
  <2>1. SUFFICES ASSUME NEW h \in Hyps(m)
                 PROVE  /\ m[h].depth \in Nat
                        /\ IF m[h].parent = NoParent THEN m[h].depth = 0
                           ELSE /\ m[h].parent \in Hyps(m) /\ m[h].parent < h
                                /\ m[h].depth = m[m[h].parent].depth + 1
    BY DEF Forest
  <2>2. QED
    BY <1>2 DEF Sound, Forest
<1>4. QED
  BY <1>2, <1>3 DEF Sound

LEMMA JudgedIs ==
  ASSUME NEW l, Sound(l), NEW h, NEW v, v # "none"
  PROVE  /\ Sound(Judged(l, h, v)) /\ Kept(l, Judged(l, h, v))
         /\ Hyps(Judged(l, h, v)) = Hyps(l)
         /\ Resolved(Judged(l, h, v), h)
         /\ \A a, b : <<a, b>> \in Attacks(Judged(l, h, v)) <=> <<a, b>> \in Attacks(l)
<1> DEFINE t == << [kind |-> "verdict", target |-> h, verdict |-> v],
                   [kind |-> "resolved", target |-> h] >>
<1>1. PICK m : m = Judged(l, h, v)
  OBVIOUS
<1>2. Sequenced(t) /\ Len(t) = 2
  <2>1. t \in Seq({t[1], t[2]})
    OBVIOUS
  <2>2. QED
    BY <2>1 DEF Sequenced
<1>3. /\ t[1].kind = "verdict" /\ t[1].target = h /\ t[1].verdict = v
      /\ t[2].kind = "resolved" /\ t[2].target = h
  OBVIOUS
<1>4. m = l \o t
  BY <1>1 DEF Judged
<1> HIDE DEF t
<1>5. /\ Sequenced(m) /\ Kept(l, m)
      /\ Len(l) \in Nat /\ DOMAIN l = 1..Len(l) /\ DOMAIN m = 1..(Len(l) + 2)
      /\ \A i \in DOMAIN m \ DOMAIN l : i - Len(l) \in DOMAIN t /\ m[i] = t[i - Len(l)]
  <2>1. Sequenced(l)
    BY DEF Sound
  <2>2. /\ Sequenced(l \o t) /\ Kept(l, l \o t)
        /\ Len(l) \in Nat /\ DOMAIN l = 1..Len(l) /\ DOMAIN (l \o t) = 1..(Len(l) + Len(t))
        /\ \A i \in DOMAIN (l \o t) \ DOMAIN l : i - Len(l) \in DOMAIN t /\ (l \o t)[i] = t[i - Len(l)]
    BY <1>2, <2>1, Spliced
  <2>3. QED
    BY <1>2, <1>4, <2>2
<1>6. PICK x \in Nat, y \in Nat : x = Len(l) + 1 /\ y = Len(l) + 2
  BY <1>5
<1>7. /\ x \in DOMAIN m /\ y \in DOMAIN m /\ DOMAIN m \ DOMAIN l = {x, y}
      /\ m[x] = t[1] /\ m[y] = t[2]
  <2>1. x - Len(l) = 1 /\ y - Len(l) = 2 /\ x \in DOMAIN m \ DOMAIN l /\ y \in DOMAIN m \ DOMAIN l
    BY <1>5, <1>6
  <2>2. \A i \in DOMAIN m \ DOMAIN l : i = x \/ i = y
    BY <1>5, <1>6
  <2>3. QED
    BY <1>5, <2>1, <2>2
<1>8. \A i \in DOMAIN l : i \in DOMAIN m /\ m[i] = l[i]
  BY <1>5 DEF Kept
<1>9. Judgements(m)
  <2>1. ASSUME NEW i \in DOMAIN m, m[i].kind = "verdict"
        PROVE  /\ m[i].verdict # "none"
               /\ \E j \in DOMAIN m : m[j].kind = "resolved" /\ m[j].target = m[i].target
    <3>1. CASE i \in DOMAIN l
      BY <1>8, <2>1, <3>1 DEF Sound, Judgements
    <3>2. CASE i \notin DOMAIN l
      BY <1>3, <1>7, <2>1, <3>2
    <3>3. QED
      BY <3>1, <3>2
  <2>2. ASSUME NEW i \in DOMAIN m, m[i].kind = "resolved"
        PROVE  \E j \in DOMAIN m : m[j].kind = "verdict" /\ m[j].target = m[i].target
    <3>1. CASE i \in DOMAIN l
      BY <1>8, <2>2, <3>1 DEF Sound, Judgements
    <3>2. CASE i \notin DOMAIN l
      BY <1>3, <1>7, <2>2, <3>2
    <3>3. QED
      BY <3>1, <3>2
  <2>3. QED
    BY <2>1, <2>2 DEF Judgements
<1>10. \A i \in DOMAIN m \ DOMAIN l : m[i].kind # "hypothesis" /\ m[i].kind # "attack"
  BY <1>3, <1>7
<1>11. Duels(m)
  <2>1. \A x1 \in Hyps(l) : x1 \in Hyps(m)
    BY <1>8 DEF Hyps
  <2>2. ASSUME NEW i \in DOMAIN m, m[i].kind = "attack"
        PROVE  i \in DOMAIN l /\ m[i] = l[i]
    BY <1>8, <1>10, <2>2
  <2>3. QED
    BY <2>1, <2>2 DEF Sound, Duels
<1>12. Sound(m) /\ Hyps(m) = Hyps(l)
  BY <1>5, <1>9, <1>10, <1>11, RecordsAdded
<1>13. Resolved(m, h)
  BY <1>3, <1>7, ResolvedIs
<1>14. \A a, b : <<a, b>> \in Attacks(m) <=> <<a, b>> \in Attacks(l)
  <2>1. ASSUME NEW a, NEW b
        PROVE  <<a, b>> \in Attacks(m) <=> <<a, b>> \in Attacks(l)
    <3>1. <<a, b>> \in Attacks(m) <=>
            \E i \in DOMAIN m : m[i].kind = "attack" /\ m[i].src = a /\ m[i].dst = b
      BY AttacksAre
    <3>2. <<a, b>> \in Attacks(l) <=>
            \E i \in DOMAIN l : l[i].kind = "attack" /\ l[i].src = a /\ l[i].dst = b
      BY AttacksAre
    <3>3. QED
      BY <1>8, <1>10, <3>1, <3>2
  <2>2. QED
    BY Zenon, <2>1
<1>15. QED
  BY <1>1, <1>5, <1>12, <1>13, <1>14

LEMMA AttackedIs ==
  ASSUME NEW l, Sound(l), NEW a \in Hyps(l), NEW b \in Hyps(l), a # b
  PROVE  /\ Sound(Attacked(l, a, b)) /\ Kept(l, Attacked(l, a, b))
         /\ Hyps(Attacked(l, a, b)) = Hyps(l)
<1>1. CASE <<a, b>> \in Attacks(l)
  BY <1>1 DEF Attacked, Kept
<1>2. CASE <<a, b>> \notin Attacks(l)
  <2> DEFINE r == [kind |-> "attack", src |-> a, dst |-> b]
  <2>1. PICK m : m = Attacked(l, a, b)
    OBVIOUS
  <2>2. m = Append(l, r)
    BY <1>2, <2>1 DEF Attacked
  <2>3. r.kind = "attack" /\ r.src = a /\ r.dst = b
    OBVIOUS
  <2> HIDE DEF r
  <2>4. PICK S : l \in Seq(S)
    BY DEF Sound, Sequenced
  <2>5. /\ Sequenced(m) /\ Kept(l, m)
        /\ \A i \in DOMAIN m \ DOMAIN l : m[i] = r
    <3>1. /\ \E T : Append(l, r) \in Seq(T)
          /\ DOMAIN Append(l, r) = DOMAIN l \cup {Len(l) + 1}
          /\ Append(l, r)[Len(l) + 1] = r
          /\ \A i \in DOMAIN l : Append(l, r)[i] = l[i]
      BY <2>4, Appended
    <3>2. Sequenced(m)
      BY <2>2, <3>1 DEF Sequenced
    <3>3. QED
      BY <2>2, <3>1, <3>2 DEF Kept
  <2>6. \A i \in DOMAIN l : i \in DOMAIN m /\ m[i] = l[i]
    BY <2>5 DEF Kept
  <2>7. Judgements(m)
    <3>1. ASSUME NEW i \in DOMAIN m, m[i].kind \in {"verdict", "resolved"}
          PROVE  i \in DOMAIN l /\ m[i] = l[i]
      BY <2>3, <2>5, <2>6, <3>1
    <3>2. ASSUME NEW i \in DOMAIN m, m[i].kind = "verdict"
          PROVE  /\ m[i].verdict # "none"
                 /\ \E j \in DOMAIN m : m[j].kind = "resolved" /\ m[j].target = m[i].target
      BY <2>6, <3>1, <3>2 DEF Sound, Judgements
    <3>3. ASSUME NEW i \in DOMAIN m, m[i].kind = "resolved"
          PROVE  \E j \in DOMAIN m : m[j].kind = "verdict" /\ m[j].target = m[i].target
      BY <2>6, <3>1, <3>3 DEF Sound, Judgements
    <3>4. QED
      BY <3>2, <3>3 DEF Judgements
  <2>8. Duels(m)
    <3>1. \A x \in Hyps(l) : x \in Hyps(m)
      BY <2>6 DEF Hyps
    <3>2. QED
      BY <2>3, <2>5, <2>6, <3>1 DEF Sound, Duels
  <2>9. QED
    BY <2>1, <2>3, <2>5, <2>7, <2>8, RecordsAdded
<1>3. QED
  BY <1>1, <1>2

-----------------------------------------------------------------------------
(* The tree of an episode, and its open frontier *)

\* The function Subtree is written with.
Under(l, r) ==
  LET under[h \in Hyps(l)] == h = r \/ (l[h].parent # NoParent /\ under[l[h].parent])
  IN  under

\* The least member of a set of hypotheses.
LEMMA HypsAreNumbers ==
  ASSUME NEW l, Sound(l)
  PROVE  /\ Len(l) \in Nat /\ DOMAIN l = 1..Len(l)
         /\ Hyps(l) \subseteq 1..Len(l)
         /\ \A h \in Hyps(l) : h \in Nat /\ h > 0
<1>1. PICK S : l \in Seq(S)
  BY DEF Sound, Sequenced
<1>2. Len(l) \in Nat /\ DOMAIN l = 1..Len(l)
  BY <1>1
<1>3. Hyps(l) \subseteq 1..Len(l)
  BY <1>2 DEF Hyps
<1>4. \A h \in 1..Len(l) : h \in Nat /\ h > 0
  BY <1>2
<1>5. QED
  BY <1>2, <1>3, <1>4

LEMMA SubtreeIs ==
  ASSUME NEW l, Sound(l), NEW r
  PROVE  /\ Subtree(l, r) \subseteq Hyps(l)
         /\ \A h \in Hyps(l) :
              h \in Subtree(l, r) <=>
                h = r \/ (l[h].parent # NoParent /\ l[h].parent \in Subtree(l, r))
<1> DEFINE D == Hyps(l)
           Value(f, h) == h = r \/ (l[h].parent # NoParent /\ f[l[h].parent])
           F == [x \in D \X [D -> BOOLEAN] |-> Value(x[2], x[1])]
<1>1. \A h \in D : l[h].parent # NoParent => l[h].parent \in D /\ l[h].parent < h
  BY DEF Sound, Forest
<1>2. \A h \in D, f \in [D -> BOOLEAN] : Value(f, h) \in BOOLEAN
  <2> HIDE DEF D
  <2>1. QED
    BY <1>1
<1>3. \A h \in D, f \in [D -> BOOLEAN] : F[<<h, f>>] = Value(f, h)
  OBVIOUS
<1>4. F \in [D \X [D -> BOOLEAN] -> BOOLEAN]
  <2>1. \A x \in D \X [D -> BOOLEAN] : x[1] \in D /\ x[2] \in [D -> BOOLEAN]
    OBVIOUS
  <2> HIDE DEF Value
  <2>2. QED
    BY <1>2, <2>1
<1>5. ASSUME NEW h \in D, NEW f \in [D -> BOOLEAN], NEW g \in [D -> BOOLEAN],
             \A m \in D : m < h => f[m] = g[m]
      PROVE  F[<<h, f>>] = F[<<h, g>>]
  <2>1. l[h].parent # NoParent => f[l[h].parent] = g[l[h].parent]
    BY <1>1, <1>5
  <2>2. Value(f, h) = Value(g, h)
    BY <2>1
  <2>3. QED
    <3> HIDE DEF Value, F
    <3>1. QED
      BY <1>3, <2>2
<1>6. Downward(D, BOOLEAN, F)
  <2> HIDE DEF F, D
  <2>1. QED
    BY <1>4, <1>5 DEF Downward
<1>7. PICK f \in [D -> BOOLEAN] : \A h \in D : f[h] = Value(f, h)
  <2>1. BOOLEAN # {}
    OBVIOUS
  <2>2. Len(l) \in Nat /\ D \subseteq 0..Len(l)
    BY HypsAreNumbers
  <2> HIDE DEF F, D
  <2>3. PICK f : Solves(f, D, BOOLEAN, F)
    BY <1>6, <2>1, <2>2, RecursionDefines
  <2>4. f \in [D -> BOOLEAN] /\ \A h \in D : f[h] = F[<<h, f>>]
    BY <2>3 DEF Solves
  <2> HIDE DEF Value
  <2>5. QED
    BY <1>3, <2>4
<1>8. f = [h \in D |-> Value(f, h)]
  <2> HIDE DEF Value, D
  <2>1. QED
    BY <1>7
<1>9. Under(l, r) = [h \in D |-> Value(Under(l, r), h)]
  BY <1>8, Zenon DEF Under
<1>10. \A h \in D : Under(l, r)[h] <=> Value(Under(l, r), h)
  <2> HIDE DEF Value, D
  <2>1. QED
    BY <1>9
<1>11. Subtree(l, r) = {h \in Hyps(l) : Under(l, r)[h]}
  BY Zenon DEF Subtree, Under
<1>12. Subtree(l, r) \subseteq Hyps(l)
  BY <1>11
<1>13. ASSUME NEW h \in Hyps(l)
       PROVE  h \in Subtree(l, r) <=>
                h = r \/ (l[h].parent # NoParent /\ l[h].parent \in Subtree(l, r))
  <2>1. h \in Subtree(l, r) <=> Value(Under(l, r), h)
    BY <1>10, <1>11
  <2>2. l[h].parent # NoParent => (l[h].parent \in Subtree(l, r) <=> Under(l, r)[l[h].parent])
    BY <1>1, <1>11
  <2>3. QED
    BY <2>1, <2>2
<1>14. QED
  BY <1>12, <1>13

\* A node of the tree is its root or comes after it.
LEMMA SubtreeAbove ==
  ASSUME NEW l, Sound(l), NEW r \in Nat, NEW h \in Subtree(l, r)
  PROVE  h >= r
<1> DEFINE T == {x \in Subtree(l, r) : x < r}
<1>1. SUFFICES ASSUME ~(h >= r) PROVE FALSE
  OBVIOUS
<1>2. h \in T /\ T \subseteq Nat
  BY <1>1, SubtreeIs, HypsAreNumbers
<1>3. PICK x \in T : \A y \in T : x <= y
  <2> HIDE DEF T
  <2>1. QED
    BY <1>2, Least
<1>4. x \in Hyps(l) /\ x \in Subtree(l, r) /\ x < r /\ x # r
  BY SubtreeIs
<1>5. l[x].parent # NoParent /\ l[x].parent \in Subtree(l, r) /\ l[x].parent \in Hyps(l)
  BY <1>4, SubtreeIs
<1>6. l[x].parent < x
  BY <1>4, <1>5 DEF Sound, Forest
<1>7. l[x].parent \in Nat /\ x \in Nat
  BY <1>4, <1>5, HypsAreNumbers
<1>8. l[x].parent \in T
  BY <1>4, <1>5, <1>6, <1>7
<1>9. QED
  BY <1>3, <1>6, <1>7, <1>8

\* A mutation of the log leaves the old nodes in the trees they were in.
LEMMA SubtreeKept ==
  ASSUME NEW l, Sound(l), NEW m, Sound(m), Kept(l, m), NEW r
  PROVE  \A h \in Hyps(l) : h \in Hyps(m) /\ m[h] = l[h] /\ (h \in Subtree(m, r) <=> h \in Subtree(l, r))
<1> DEFINE T == {h \in Hyps(l) : ~(h \in Subtree(m, r) <=> h \in Subtree(l, r))}
<1>1. \A h \in Hyps(l) : h \in Hyps(m) /\ m[h] = l[h]
  BY HypsKept
<1>2. SUFFICES ASSUME T # {} PROVE FALSE
  BY <1>1
<1>3. T \subseteq Nat
  BY HypsAreNumbers
<1>4. PICK t \in T : \A y \in T : t <= y
  <2> HIDE DEF T
  <2>1. QED
    BY <1>2, <1>3, Least
<1>5. t \in Hyps(l) /\ t \in Hyps(m) /\ m[t] = l[t]
  BY <1>1
<1>6. PICK p : p = l[t].parent
  OBVIOUS
<1>7. /\ t \in Subtree(m, r) <=> t = r \/ (p # NoParent /\ p \in Subtree(m, r))
      /\ t \in Subtree(l, r) <=> t = r \/ (p # NoParent /\ p \in Subtree(l, r))
  BY <1>5, <1>6, SubtreeIs
<1>8. p # NoParent /\ ~(p \in Subtree(m, r) <=> p \in Subtree(l, r))
  BY <1>7
<1>9. p \in Hyps(l) /\ p < t
  BY <1>5, <1>6, <1>8 DEF Sound, Forest
<1>10. p \in T
  BY <1>8, <1>9
<1>11. t <= p /\ p \in Nat /\ t \in Nat
  BY <1>3, <1>4, <1>10
<1>12. QED
  BY <1>9, <1>11

\* An old node that is open after a mutation was open before it.
LEMMA OpenKept ==
  ASSUME NEW l, Sound(l), NEW m, Sound(m), Kept(l, m), NEW r, NEW h \in OpenFrontier(m, r), h \in Hyps(l)
  PROVE  h \in OpenFrontier(l, r)
<1>1. h \in Hyps(m) /\ m[h] = l[h] /\ h \in Subtree(l, r)
  BY SubtreeKept DEF OpenFrontier
<1>2. ~Resolved(l, h)
  <2>1. SUFFICES ASSUME Resolved(l, h) PROVE Resolved(m, h)
    BY DEF OpenFrontier
  <2>2. PICK i \in DOMAIN l : l[i].kind = "resolved" /\ l[i].target = h
    BY <2>1, ResolvedIs
  <2>3. i \in DOMAIN m /\ m[i] = l[i]
    BY DEF Kept
  <2>4. QED
    BY <2>2, <2>3, ResolvedIs
<1>3. Children(l, h) = {}
  <2>1. Children(l, h) \subseteq Children(m, h)
    BY SubtreeKept DEF Children
  <2>2. QED
    BY <2>1 DEF OpenFrontier
<1>4. QED
  BY <1>1, <1>2, <1>3 DEF OpenFrontier

LEMMA OpenIsMine ==
  ASSUME NEW l, Sound(l), NEW r
  PROVE  /\ OpenFrontier(l, r) \subseteq Subtree(l, r) /\ Subtree(l, r) \subseteq Hyps(l)
         /\ OpenFrontier(l, r) \subseteq Nat /\ IsFiniteSet(OpenFrontier(l, r))
         /\ IsFiniteSet(Subtree(l, r))
         /\ \A h \in OpenFrontier(l, r) : h \in Hyps(l) /\ l[h].depth \in Nat
<1>1. OpenFrontier(l, r) \subseteq Subtree(l, r) /\ Subtree(l, r) \subseteq Hyps(l)
  BY SubtreeIs DEF OpenFrontier
<1>2. Len(l) \in Nat /\ Hyps(l) \subseteq 1..Len(l) /\ IsFiniteSet(1..Len(l)) /\ Hyps(l) \subseteq Nat
  BY HypsAreNumbers, FS_Interval
<1>3. IsFiniteSet(OpenFrontier(l, r)) /\ IsFiniteSet(Subtree(l, r))
  <2>1. OpenFrontier(l, r) \in SUBSET (1..Len(l)) /\ Subtree(l, r) \in SUBSET (1..Len(l))
    BY <1>1, <1>2
  <2>2. QED
    BY <1>2, <2>1, FS_Subset
<1>4. \A h \in Hyps(l) : l[h].depth \in Nat
  BY DEF Sound, Forest
<1>5. QED
  BY <1>1, <1>2, <1>3, <1>4

-----------------------------------------------------------------------------
(***************************************************************************)
(* The labelling loop computes the grounded extension.  A pass only adds   *)
(* labels; what it labels "in" has all its attackers out and is in every   *)
(* fixed point of the defence function, what it labels "out" is attacked   *)
(* by an "in"; and as many passes as there are nodes leave nothing to add. *)
(***************************************************************************)
Labels(X) == UNION {[Y -> {"in", "out"}] : Y \in SUBSET X}

InOf(f) == {h \in DOMAIN f : f[h] = "in"}

DefendedIn(l, X, S) ==
  {h \in X : \A a \in AttackersWithin(l, X, h) : AttackersWithin(l, X, a) \cap S # {}}

\* A labelling the loop can be at.
Labelling(l, X, f) ==
  /\ f \in Labels(X)
  /\ \A h \in DOMAIN f :
       \/ f[h] = "in" /\ \A a \in AttackersWithin(l, X, h) : a \in DOMAIN f /\ f[a] = "out"
       \/ f[h] = "out" /\ \E a \in AttackersWithin(l, X, h) : a \in DOMAIN f /\ f[a] = "in"
  /\ \A T \in SUBSET X : DefendedIn(l, X, T) = T => InOf(f) \subseteq T

LEMMA PassIs ==
  ASSUME NEW l, NEW X, NEW f \in Labels(X)
  PROVE  LET g == Pass(l, X, f)
         IN  /\ g \in Labels(X) /\ DOMAIN f \subseteq DOMAIN g /\ DOMAIN g \subseteq X
             /\ \A h \in DOMAIN f : g[h] = f[h]
             /\ \A h \in DOMAIN g \ DOMAIN f :
                  \/ g[h] = "in" /\ \A a \in AttackersWithin(l, X, h) : a \in DOMAIN f /\ f[a] = "out"
                  \/ g[h] = "out" /\ \E a \in AttackersWithin(l, X, h) : a \in DOMAIN g /\ g[a] = "in"
             /\ \A h \in X :
                  \/ \A a \in AttackersWithin(l, X, h) : a \in DOMAIN f /\ f[a] = "out"
                  \/ \E a \in AttackersWithin(l, X, h) : a \in DOMAIN f /\ f[a] = "in"
                  => h \in DOMAIN g
<1> DEFINE in == {n \in X \ DOMAIN f : \A a \in AttackersWithin(l, X, n) : a \in DOMAIN f /\ f[a] = "out"}
           w == [n \in DOMAIN f \cup in |-> IF n \in in THEN "in" ELSE f[n]]
           out == {n \in X \ DOMAIN w : \E a \in AttackersWithin(l, X, n) : a \in DOMAIN w /\ w[a] = "in"}
           g == [n \in DOMAIN w \cup out |-> IF n \in out THEN "out" ELSE w[n]]
<1>1. Pass(l, X, f) = g
  BY DEF Pass
<1>2. PICK Y \in SUBSET X : f \in [Y -> {"in", "out"}]
  BY DEF Labels
<1>3. DOMAIN f = Y
  BY <1>2
<1>4. in \subseteq X /\ in \cap DOMAIN f = {}
  OBVIOUS
<1>5. \A h \in in : \A a \in AttackersWithin(l, X, h) : a \in DOMAIN f /\ f[a] = "out"
  OBVIOUS
<1>6. \A h \in X \ DOMAIN f :
        (\A a \in AttackersWithin(l, X, h) : a \in DOMAIN f /\ f[a] = "out") => h \in in
  OBVIOUS
<1> HIDE DEF in
<1>7. /\ DOMAIN w = DOMAIN f \cup in
      /\ \A h \in in : w[h] = "in"
      /\ \A h \in DOMAIN f : w[h] = f[h]
  BY <1>4
<1> HIDE DEF w
<1>8. /\ out \subseteq X /\ out \cap DOMAIN w = {}
      /\ \A h \in out : \E a \in AttackersWithin(l, X, h) : a \in DOMAIN w /\ w[a] = "in"
      /\ \A h \in X \ DOMAIN w :
           (\E a \in AttackersWithin(l, X, h) : a \in DOMAIN w /\ w[a] = "in") => h \in out
  OBVIOUS
<1> HIDE DEF out
<1>9. /\ DOMAIN g = DOMAIN w \cup out
      /\ \A h \in out : g[h] = "out"
      /\ \A h \in DOMAIN w : g[h] = w[h]
      /\ g = [n \in DOMAIN g |-> g[n]]
  BY <1>8
<1> HIDE DEF g
<1>10. DOMAIN g \subseteq X /\ \A h \in DOMAIN g : g[h] \in {"in", "out"}
  BY <1>2, <1>3, <1>4, <1>7, <1>8, <1>9
<1>11. g \in Labels(X)
  <2>1. g \in [DOMAIN g -> {"in", "out"}]
    BY <1>9, <1>10
  <2>2. QED
    BY <1>10, <2>1 DEF Labels
<1>12. DOMAIN f \subseteq DOMAIN g /\ \A h \in DOMAIN f : g[h] = f[h]
  BY <1>7, <1>9
<1>13. ASSUME NEW h \in DOMAIN g \ DOMAIN f
       PROVE  \/ g[h] = "in" /\ \A a \in AttackersWithin(l, X, h) : a \in DOMAIN f /\ f[a] = "out"
              \/ g[h] = "out" /\ \E a \in AttackersWithin(l, X, h) : a \in DOMAIN g /\ g[a] = "in"
  <2>1. CASE h \in in
    BY <1>5, <1>7, <1>9, <2>1
  <2>2. CASE h \in out
    BY <1>8, <1>9, <2>2
  <2>3. QED
    BY <1>7, <1>9, <2>1, <2>2
<1>14. ASSUME NEW h \in X,
              \/ \A a \in AttackersWithin(l, X, h) : a \in DOMAIN f /\ f[a] = "out"
              \/ \E a \in AttackersWithin(l, X, h) : a \in DOMAIN f /\ f[a] = "in"
       PROVE  h \in DOMAIN g
  <2>1. CASE h \in DOMAIN f
    BY <1>12, <2>1
  <2>2. CASE h \in in
    BY <1>7, <1>9, <2>2
  <2>3. CASE h \notin DOMAIN f /\ h \notin in
    <3>1. \E a \in AttackersWithin(l, X, h) : a \in DOMAIN f /\ f[a] = "in"
      BY <1>6, <1>14, <2>3
    <3>2. h \in out
      BY <1>7, <1>8, <2>3, <3>1
    <3>3. QED
      BY <1>9, <3>2
  <2>4. QED
    BY <2>1, <2>2, <2>3
<1>15. QED
  BY <1>1, <1>10, <1>11, <1>12, <1>13, <1>14

LEMMA PassLabels ==
  ASSUME NEW l, NEW X, NEW f, Labelling(l, X, f)
  PROVE  Labelling(l, X, Pass(l, X, f))
<1>1. PICK g : g = Pass(l, X, f)
  OBVIOUS
<1>2. f \in Labels(X)
  BY DEF Labelling
<1>3. /\ g \in Labels(X) /\ DOMAIN f \subseteq DOMAIN g
      /\ \A h \in DOMAIN f : g[h] = f[h]
      /\ \A h \in DOMAIN g \ DOMAIN f :
           \/ g[h] = "in" /\ \A a \in AttackersWithin(l, X, h) : a \in DOMAIN f /\ f[a] = "out"
           \/ g[h] = "out" /\ \E a \in AttackersWithin(l, X, h) : a \in DOMAIN g /\ g[a] = "in"
  BY <1>1, <1>2, PassIs
<1>4. ASSUME NEW h \in DOMAIN g
      PROVE  \/ g[h] = "in" /\ \A a \in AttackersWithin(l, X, h) : a \in DOMAIN g /\ g[a] = "out"
             \/ g[h] = "out" /\ \E a \in AttackersWithin(l, X, h) : a \in DOMAIN g /\ g[a] = "in"
  BY <1>3 DEF Labelling
<1>5. ASSUME NEW T \in SUBSET X, DefendedIn(l, X, T) = T, NEW h \in InOf(g)
      PROVE  h \in T
  <2>1. InOf(f) \subseteq T
    BY <1>5 DEF Labelling
  <2>2. CASE h \in DOMAIN f
    BY <1>3, <1>5, <2>1, <2>2 DEF InOf
  <2>3. CASE h \notin DOMAIN f
    <3>1. h \in X
      BY <1>3, <1>5 DEF InOf, Labels
    <3>2. \A a \in AttackersWithin(l, X, h) : a \in DOMAIN f /\ f[a] = "out"
      BY <1>3, <1>5, <2>3 DEF InOf
    <3>3. \A a \in AttackersWithin(l, X, h) : \E b \in AttackersWithin(l, X, a) : b \in InOf(f)
      BY <3>2 DEF Labelling, InOf
    <3>4. h \in DefendedIn(l, X, T)
      BY <2>1, <3>1, <3>3 DEF DefendedIn
    <3>5. QED
      BY <1>5, <3>4
  <2>4. QED
    BY <2>2, <2>3
<1>6. QED
  BY <1>1, <1>3, <1>4, <1>5 DEF Labelling

\* The function GroundedLabels is written with.
After(l, X) ==
  LET after[n \in 0 .. Cardinality(X)] ==
        IF n = 0 THEN [m \in {} |-> "in"] ELSE Pass(l, X, after[n - 1])
  IN  after

LEMMA AfterIs ==
  ASSUME NEW l, NEW X, IsFiniteSet(X)
  PROVE  /\ Cardinality(X) \in Nat
         /\ After(l, X)[0] = [m \in {} |-> "in"]
         /\ \A n \in 1 .. Cardinality(X) : After(l, X)[n] = Pass(l, X, After(l, X)[n - 1])
<1>1. PICK k \in Nat : k = Cardinality(X)
  BY FS_CardinalityType
<1> DEFINE D == 0 .. k
           None == [m \in {} |-> "in"]
           Value(f, n) == IF n = 0 THEN None ELSE Pass(l, X, f[n - 1])
           F == [x \in D \X [D -> Labels(X)] |-> Value(x[2], x[1])]
<1>2. None \in Labels(X)
  BY DEF Labels
<1>3. \A n \in D : n # 0 => n - 1 \in D /\ n - 1 < n
  OBVIOUS
<1>4. \A n \in D, f \in [D -> Labels(X)] : Value(f, n) \in Labels(X)
  <2> HIDE DEF D, None
  <2>1. ASSUME NEW n \in D, NEW f \in [D -> Labels(X)]
        PROVE  Value(f, n) \in Labels(X)
    <3>1. CASE n = 0
      BY <1>2, <3>1
    <3>2. CASE n # 0
      <4>1. f[n - 1] \in Labels(X)
        BY <1>3, <3>2
      <4>2. Pass(l, X, f[n - 1]) \in Labels(X)
        BY <4>1, PassIs
      <4>3. QED
        BY <3>2, <4>2
    <3>3. QED
      BY <3>1, <3>2
  <2>2. QED
    BY <2>1
<1>5. \A n \in D, f \in [D -> Labels(X)] : F[<<n, f>>] = Value(f, n)
  <2> HIDE DEF Value, D
  <2>1. QED
    OBVIOUS
<1>6. F \in [D \X [D -> Labels(X)] -> Labels(X)]
  <2>1. \A x \in D \X [D -> Labels(X)] : x[1] \in D /\ x[2] \in [D -> Labels(X)]
    OBVIOUS
  <2> HIDE DEF Value, D
  <2>2. QED
    BY <1>4, <2>1
<1>7. ASSUME NEW n \in D, NEW f \in [D -> Labels(X)], NEW g \in [D -> Labels(X)],
             \A m \in D : m < n => f[m] = g[m]
      PROVE  F[<<n, f>>] = F[<<n, g>>]
  <2> HIDE DEF D, F, None
  <2>1. n # 0 => f[n - 1] = g[n - 1]
    BY <1>3, <1>7
  <2>2. Value(f, n) = Value(g, n)
    BY <2>1
  <2> HIDE DEF Value
  <2>3. QED
    BY <1>5, <2>2
<1>8. Downward(D, Labels(X), F)
  <2> HIDE DEF F, D
  <2>1. QED
    BY <1>6, <1>7 DEF Downward
<1>9. PICK f \in [D -> Labels(X)] : \A n \in D : f[n] = Value(f, n)
  <2>1. D \subseteq 0 .. k /\ Labels(X) # {}
    BY <1>2
  <2> HIDE DEF F, D, Value
  <2>2. PICK f : Solves(f, D, Labels(X), F)
    BY <1>8, <2>1, RecursionDefines
  <2>3. f \in [D -> Labels(X)] /\ \A n \in D : f[n] = F[<<n, f>>]
    BY <2>2 DEF Solves
  <2>4. QED
    BY <1>5, <2>3
<1>10. f = [n \in D |-> Value(f, n)]
  <2> HIDE DEF Value, D
  <2>1. QED
    BY <1>9
<1>11. After(l, X) = [n \in D |-> Value(After(l, X), n)]
  <2>1. \E g : g = [n \in 0 .. Cardinality(X) |->
                      IF n = 0 THEN [m \in {} |-> "in"] ELSE Pass(l, X, g[n - 1])]
    BY <1>1, <1>10
  <2>2. After(l, X) = [n \in 0 .. Cardinality(X) |->
                      IF n = 0 THEN [m \in {} |-> "in"] ELSE Pass(l, X, After(l, X)[n - 1])]
    BY <2>1, Zenon DEF After
  <2>3. QED
    BY <1>1, <2>2
<1>12. \A n \in D : After(l, X)[n] = Value(After(l, X), n)
  <2> HIDE DEF Value, D
  <2>1. QED
    BY <1>11
<1>13. 0 \in D /\ \A n \in 1 .. k : n \in D /\ n # 0
  OBVIOUS
<1>14. QED
  <2>1. After(l, X)[0] = None
    BY <1>12, <1>13
  <2>2. \A n \in 1 .. k : After(l, X)[n] = Pass(l, X, After(l, X)[n - 1])
    <3> HIDE DEF D, None
    <3>1. QED
      BY <1>12, <1>13
  <2>3. QED
    BY <1>1, <2>1, <2>2

\* A pass that labels nothing new changes nothing.
Stable(l, X, f) == DOMAIN Pass(l, X, f) = DOMAIN f

LEMMA LabelsEnd ==
  ASSUME NEW l, NEW X, IsFiniteSet(X)
  PROVE  LET f == After(l, X)[Cardinality(X)] IN Labelling(l, X, f) /\ Stable(l, X, f)
<1> DEFINE K == Cardinality(X)
           Reached(n) == /\ Labelling(l, X, After(l, X)[n])
                         /\ \/ Cardinality(DOMAIN After(l, X)[n]) >= n
                            \/ Stable(l, X, After(l, X)[n])
           S == {n \in Nat : n <= K => Reached(n)}
<1>1. /\ K \in Nat
      /\ After(l, X)[0] = [m \in {} |-> "in"]
      /\ \A n \in 1 .. K : After(l, X)[n] = Pass(l, X, After(l, X)[n - 1])
  BY AfterIs
<1>2. ASSUME NEW f \in Labels(X)
      PROVE  DOMAIN f \in SUBSET X /\ IsFiniteSet(DOMAIN f) /\ Cardinality(DOMAIN f) \in Nat
             /\ f = [h \in DOMAIN f |-> f[h]]
  <2>1. DOMAIN f \in SUBSET X /\ f = [h \in DOMAIN f |-> f[h]]
    BY DEF Labels
  <2>2. IsFiniteSet(DOMAIN f)
    BY <2>1, FS_Subset
  <2>3. QED
    BY <2>1, <2>2, FS_CardinalityType
<1>3. 0 \in S
  <2>1. PICK f : f = [m \in {} |-> "in"]
    OBVIOUS
  <2>2. DOMAIN f = {} /\ f \in Labels(X)
    BY <2>1 DEF Labels
  <2>3. Cardinality(DOMAIN f) >= 0
    BY <1>2, <2>2
  <2>4. InOf(f) = {}
    BY <2>2 DEF InOf
  <2>5. Labelling(l, X, f)
    BY <2>2, <2>4 DEF Labelling
  <2>6. QED
    BY <1>1, <2>1, <2>3, <2>5
<1>4. ASSUME NEW n \in Nat, n \in S
      PROVE  n + 1 \in S
  <2>1. SUFFICES ASSUME n + 1 <= K PROVE Reached(n + 1)
    OBVIOUS
  <2>2. PICK k \in Nat : k = n + 1
    OBVIOUS
  <2>3. k \in 1 .. K /\ k - 1 = n /\ n <= K
    BY <1>1, <2>1, <2>2
  <2>4. PICK f : f = After(l, X)[n]
    OBVIOUS
  <2>5. PICK g : g = Pass(l, X, f)
    OBVIOUS
  <2>6. After(l, X)[k] = g
    BY <1>1, <2>3, <2>4, <2>5
  <2>7. Labelling(l, X, f) /\ (Cardinality(DOMAIN f) >= n \/ Stable(l, X, f))
    BY <1>4, <2>3, <2>4
  <2>8. Labelling(l, X, g)
    BY <2>5, <2>7, PassLabels
  <2>9. f \in Labels(X) /\ g \in Labels(X)
    BY <2>7, <2>8 DEF Labelling
  <2>10. DOMAIN f \subseteq DOMAIN g /\ \A h \in DOMAIN f : g[h] = f[h]
    BY <2>5, <2>9, PassIs
  <2>11. CASE Stable(l, X, f)
    <3>1. DOMAIN g = DOMAIN f
      BY <2>5, <2>11 DEF Stable
    <3>2. g = f
      BY <1>2, <2>9, <2>10, <3>1
    <3>3. Stable(l, X, g)
      BY <2>11, <3>2
    <3>4. QED
      BY <2>2, <2>6, <2>8, <3>3
  <2>12. CASE ~Stable(l, X, f) /\ Cardinality(DOMAIN f) >= n
    <3>1. DOMAIN g # DOMAIN f
      BY <2>5, <2>12 DEF Stable
    <3>2. IsFiniteSet(DOMAIN g) /\ DOMAIN f \in SUBSET (DOMAIN g)
      BY <1>2, <2>9, <2>10
    <3>3. Cardinality(DOMAIN f) <= Cardinality(DOMAIN g)
          /\ Cardinality(DOMAIN f) # Cardinality(DOMAIN g)
      BY <3>1, <3>2, FS_Subset
    <3>4. Cardinality(DOMAIN f) \in Nat /\ Cardinality(DOMAIN g) \in Nat
      BY <1>2, <2>9
    <3>5. Cardinality(DOMAIN g) >= k
      BY <2>2, <2>12, <3>3, <3>4
    <3>6. QED
      BY <2>2, <2>6, <2>8, <3>5
  <2>13. QED
    BY <2>7, <2>11, <2>12
<1>5. K \in S
  <2> HIDE DEF S, K
  <2>1. QED
    BY <1>1, <1>3, <1>4, Induct
<1>6. PICK f : f = After(l, X)[K]
  OBVIOUS
<1>7. Labelling(l, X, f) /\ (Cardinality(DOMAIN f) >= K \/ Stable(l, X, f))
  BY <1>1, <1>5, <1>6
<1>8. CASE Cardinality(DOMAIN f) >= K
  <2>1. f \in Labels(X)
    BY <1>7 DEF Labelling
  <2>2. DOMAIN f \in SUBSET X /\ Cardinality(DOMAIN f) \in Nat
    BY <1>2, <2>1
  <2>3. Cardinality(DOMAIN f) <= Cardinality(X)
        /\ (Cardinality(DOMAIN f) = Cardinality(X) => DOMAIN f = X)
    BY <2>2, FS_Subset
  <2>4. DOMAIN f = X
    BY <1>1, <1>8, <2>2, <2>3
  <2>5. DOMAIN f \subseteq DOMAIN Pass(l, X, f) /\ DOMAIN Pass(l, X, f) \subseteq X
    BY <2>1, PassIs
  <2>6. QED
    BY <1>6, <1>7, <2>4, <2>5 DEF Stable
<1>9. QED
  BY <1>6, <1>7, <1>8

\* Where the loop ends, the nodes "in" are a fixed point.
LEMMA StableIsFixed ==
  ASSUME NEW l, NEW X, NEW f, Labelling(l, X, f), Stable(l, X, f)
  PROVE  /\ DefendedIn(l, X, InOf(f)) = InOf(f)
         /\ \A a, b \in InOf(f) : <<a, b>> \notin Attacks(l)
<1>1. f \in Labels(X) /\ DOMAIN f \subseteq X
  BY DEF Labelling, Labels
<1>2. \A h \in DOMAIN f :
        \/ f[h] = "in" /\ \A a \in AttackersWithin(l, X, h) : a \in DOMAIN f /\ f[a] = "out"
        \/ f[h] = "out" /\ \E a \in AttackersWithin(l, X, h) : a \in DOMAIN f /\ f[a] = "in"
  BY DEF Labelling
<1>3. ASSUME NEW h \in X,
             \/ \A a \in AttackersWithin(l, X, h) : a \in DOMAIN f /\ f[a] = "out"
             \/ \E a \in AttackersWithin(l, X, h) : a \in DOMAIN f /\ f[a] = "in"
      PROVE  h \in DOMAIN f
  <2>1. h \in DOMAIN Pass(l, X, f)
    BY <1>1, <1>3, PassIs
  <2>2. QED
    BY <2>1 DEF Stable
<1>4. ASSUME NEW h \in InOf(f)
      PROVE  h \in DefendedIn(l, X, InOf(f))
  <2>1. h \in DOMAIN f /\ f[h] = "in" /\ h \in X
    BY <1>1 DEF InOf
  <2>2. \A a \in AttackersWithin(l, X, h) : a \in DOMAIN f /\ f[a] = "out"
    BY <1>2, <2>1
  <2>3. \A a \in AttackersWithin(l, X, h) : \E b \in AttackersWithin(l, X, a) : b \in InOf(f)
    BY <1>2, <2>2 DEF InOf
  <2>4. QED
    BY <2>1, <2>3 DEF DefendedIn
<1>5. ASSUME NEW h \in DefendedIn(l, X, InOf(f))
      PROVE  h \in InOf(f)
  <2>1. h \in X /\ \A a \in AttackersWithin(l, X, h) :
                     \E b \in AttackersWithin(l, X, a) : b \in DOMAIN f /\ f[b] = "in"
    BY <1>5 DEF DefendedIn, InOf
  <2>2. ASSUME NEW a \in AttackersWithin(l, X, h)
        PROVE  a \in DOMAIN f /\ f[a] = "out"
    <3>1. a \in X
      BY <2>2 DEF AttackersWithin
    <3>2. \E b \in AttackersWithin(l, X, a) : b \in DOMAIN f /\ f[b] = "in"
      BY <2>1, <2>2
    <3>3. a \in DOMAIN f
      BY <1>3, <3>1, <3>2
    <3>4. QED
      BY <1>2, <3>2, <3>3
  <2>3. h \in DOMAIN f
    BY <1>3, <2>1, <2>2
  <2>4. f[h] = "in"
    BY <1>2, <2>2, <2>3
  <2>5. QED
    BY <2>3, <2>4 DEF InOf
<1>6. ASSUME NEW a \in InOf(f), NEW b \in InOf(f), <<a, b>> \in Attacks(l)
      PROVE  FALSE
  <2>1. a \in AttackersWithin(l, X, b)
    BY <1>1, <1>6 DEF AttackersWithin, InOf
  <2>2. b \in DOMAIN f /\ f[b] = "in" /\ f[a] = "in"
    BY <1>6 DEF InOf
  <2>3. QED
    BY <1>2, <2>1, <2>2
<1>7. QED
  BY <1>4, <1>5, <1>6

\* grounded_labels: what it accepts is the least fixed point of the defence.
LEMMA AcceptedIsGrounded ==
  ASSUME NEW l, Sound(l), NEW r
  PROVE  LET X == Subtree(l, r)
             A == Accepted(l, r)
         IN  /\ A \subseteq X
             /\ DefendedIn(l, X, A) = A
             /\ \A T \in SUBSET X : DefendedIn(l, X, T) = T => A \subseteq T
             /\ \A a, b \in A : <<a, b>> \notin Attacks(l)
<1>1. PICK X : X = Subtree(l, r)
  OBVIOUS
<1>2. IsFiniteSet(X)
  BY <1>1, OpenIsMine
<1>3. PICK f : f = After(l, X)[Cardinality(X)]
  OBVIOUS
<1>4. Labelling(l, X, f) /\ Stable(l, X, f)
  BY <1>2, <1>3, LabelsEnd
<1>5. GroundedLabels(l, r) = [n \in X |-> IF n \in DOMAIN f THEN f[n] ELSE "undec"]
  <2>1. GroundedLabels(l, r) =
          [n \in Subtree(l, r) |->
             IF n \in DOMAIN After(l, Subtree(l, r))[Cardinality(Subtree(l, r))]
               THEN After(l, Subtree(l, r))[Cardinality(Subtree(l, r))][n] ELSE "undec"]
    BY Zenon DEF GroundedLabels, After
  <2>2. QED
    BY <1>1, <1>3, <2>1
<1>6. DOMAIN f \subseteq X
  BY <1>4 DEF Labelling, Labels
<1>7. Accepted(l, r) = InOf(f)
  BY <1>5, <1>6 DEF Accepted, InOf
<1>8. InOf(f) \subseteq X
  BY <1>6 DEF InOf
<1>9. \A T \in SUBSET X : DefendedIn(l, X, T) = T => InOf(f) \subseteq T
  BY <1>4 DEF Labelling
<1>10. QED
  BY <1>1, <1>4, <1>7, <1>8, <1>9, StableIsFixed

-----------------------------------------------------------------------------
(***************************************************************************)
(* The invariant of an episode.  The state has its types; the stages hand  *)
(* on nodes of this episode's own tree (Placed); the plan is the lowering  *)
(* of a converged debate (Lowering); and a pass that began with a frontier *)
(* of depth d or more ends with one of depth d + 1 or more, since TEST     *)
(* closes or replaces every node it visits and what CHALLENGE adds is a    *)
(* child of one of those (Deepening).                                      *)
(***************************************************************************)
Elems(s) == {s[i] : i \in DOMAIN s}

Stages == {"seed", "reuse", "pass", "dispatch", "observe", "test", "challenge", "strike",
           "raised", "lowered", "unresolved"}
RoundStages == {"test", "challenge", "strike"}

Typed ==
  /\ pc \in Stages
  /\ max_rounds \in Nat \ {0}
  /\ passes \in Nat /\ passes <= max_rounds
  /\ round \in Nat /\ round <= max_rounds
  /\ in_graph \in BOOLEAN
  /\ digesting \in Result /\ lane \in Seq(Result)

Placed ==
  /\ Sound(log)
  /\ pc = "seed" => root = NoParent /\ frontier = {} /\ working = {} /\ passes = 0
  /\ pc = "reuse" => passes = 0
  /\ pc # "seed" => root \in Hyps(log)
  /\ frontier \subseteq Mine /\ working \subseteq Mine
  /\ Sequenced(todo)
  /\ pc = "dispatch" => Elems(todo) \subseteq Mine
  /\ pc \in RoundStages => Elems(todo) \subseteq frontier
  /\ pc = "strike" => todo # <<>> /\ Len(log) \in Hyps(log) /\ Len(log) # Head(todo)
  /\ pc = "observe" => round < max_rounds

Lowering ==
  /\ pc # "lowered" => plan = NoPlan
  /\ pc = "lowered" => OpenFrontier(log, root) = {} /\ plan = Lowered(log, root)

AtLeast(l, F, k) == \A h \in F : l[h].depth >= k
AtLeastAfter(l, F, k) == \A h \in F : l[h].depth + 1 >= k

Deepening ==
  /\ pc \in {"pass", "challenge", "strike"} => AtLeast(log, OpenFrontier(log, root), passes)
  /\ pc \in {"dispatch", "observe"} => AtLeastAfter(log, OpenFrontier(log, root), passes)
  /\ pc \in RoundStages => AtLeastAfter(log, frontier, passes)
  /\ pc = "test" => AtLeast(log, OpenFrontier(log, root) \ Elems(todo), passes)
  /\ pc = "unresolved" => ~(max_rounds > DepthCap)

DInv == Typed /\ Placed /\ Lowering /\ Deepening

LEMMA HeadAndTail ==
  ASSUME NEW s, Sequenced(s), s # <<>>
  PROVE  /\ Head(s) \in Elems(s) /\ Sequenced(Tail(s))
         /\ Elems(Tail(s)) \subseteq Elems(s)
         /\ \A h \in Elems(s) : h = Head(s) \/ h \in Elems(Tail(s))
<1>1. PICK S : s \in Seq(S)
  BY DEF Sequenced
<1>2. /\ Len(s) \in Nat /\ Len(s) > 0 /\ DOMAIN s = 1 .. Len(s) /\ Head(s) = s[1]
      /\ Tail(s) \in Seq(S) /\ DOMAIN Tail(s) = 1 .. (Len(s) - 1)
      /\ \A i \in 1 .. (Len(s) - 1) : Tail(s)[i] = s[i + 1]
  BY <1>1
<1>3. Head(s) \in Elems(s)
  BY <1>2 DEF Elems
<1>4. Elems(Tail(s)) \subseteq Elems(s)
  BY <1>2 DEF Elems
<1>5. ASSUME NEW h \in Elems(s), h # Head(s)
      PROVE  h \in Elems(Tail(s))
  <2>1. PICK i \in DOMAIN s : s[i] = h
    BY DEF Elems
  <2>2. i # 1
    BY <1>2, <1>5, <2>1
  <2>3. PICK j \in 1 .. (Len(s) - 1) : i = j + 1
    <3>1. i - 1 \in 1 .. (Len(s) - 1) /\ i = (i - 1) + 1
      BY <1>2, <2>2
    <3>2. QED
      BY <3>1
  <2>4. Tail(s)[j] = h
    BY <1>2, <2>1, <2>3
  <2>5. QED
    BY <1>2, <2>4 DEF Elems
<1>6. QED
  BY <1>2, <1>3, <1>4, <1>5 DEF Sequenced

LEMMA Batch ==
  ASSUME NEW s, Sequenced(s), NEW n \in Nat, n <= Len(s)
  PROVE  /\ {s[i] : i \in 1 .. n} \subseteq Elems(s)
         /\ Sequenced(SubSeq(s, n + 1, Len(s)))
         /\ Elems(SubSeq(s, n + 1, Len(s))) \subseteq Elems(s)
<1>1. PICK S : s \in Seq(S)
  BY DEF Sequenced
<1>2. Len(s) \in Nat /\ DOMAIN s = 1 .. Len(s)
  BY <1>1
<1>3. {s[i] : i \in 1 .. n} \subseteq Elems(s)
  BY <1>2 DEF Elems
<1>4. PICK t : t = SubSeq(s, n + 1, Len(s))
  OBVIOUS
<1>5. t = [i \in 1 .. (Len(s) - n) |-> s[i + n]]
  <2>1. t = [i \in 1 .. (Len(s) - (n + 1) + 1) |-> s[i + (n + 1) - 1]]
    BY <1>2, <1>4
  <2>2. Len(s) - (n + 1) + 1 = Len(s) - n
    BY <1>2
  <2>3. \A i \in 1 .. (Len(s) - n) : i + (n + 1) - 1 = i + n
    BY <1>2
  <2>4. QED
    BY <2>1, <2>2, <2>3
<1>6. Len(s) - n \in Nat /\ \A i \in 1 .. (Len(s) - n) : i + n \in DOMAIN s
  BY <1>2
<1>7. \A i \in 1 .. (Len(s) - n) : s[i + n] \in S
  BY <1>1, <1>6
<1>8. DOMAIN t = 1 .. (Len(s) - n) /\ t \in Seq(S)
  BY <1>5, <1>6, <1>7
<1>9. Elems(t) \subseteq Elems(s)
  BY <1>5, <1>6, <1>8 DEF Elems
<1>10. QED
  BY <1>3, <1>4, <1>8, <1>9 DEF Sequenced

\* What a stage queues is what it listed.
LEMMA Queued ==
  ASSUME NEW S, S \subseteq Nat, IsFiniteSet(S)
  PROVE  Sequenced(Sorted(S)) /\ Elems(Sorted(S)) = S
<1>1. Sorted(S) \in Seq(S) /\ \A h \in S : \E i \in DOMAIN Sorted(S) : Sorted(S)[i] = h
  BY SortedLists
<1>2. PICK s : s = Sorted(S)
  OBVIOUS
<1>3. \A i \in DOMAIN s : s[i] \in S
  BY <1>1, <1>2
<1>4. Sequenced(s)
  BY <1>1, <1>2 DEF Sequenced
<1>5. Elems(s) = S
  BY <1>1, <1>2, <1>3 DEF Elems
<1>6. QED
  BY <1>2, <1>4, <1>5

LEMMA EmptyQueue == Sequenced(<<>>) /\ Elems(<<>>) = {}
<1>1. <<>> \in Seq({}) /\ DOMAIN <<>> = {}
  OBVIOUS
<1>2. QED
  BY <1>1 DEF Sequenced, Elems

\* What a mutation of the log leaves of the state that refers to it.
LEMMA Grown ==
  ASSUME NEW l, Sound(l), NEW m, Sound(m), Kept(l, m), NEW r
  PROVE  /\ Hyps(l) \subseteq Hyps(m)
         /\ Subtree(l, r) \subseteq Subtree(m, r) /\ Subtree(l, r) \subseteq Hyps(l)
         /\ \A h \in Hyps(l) : m[h] = l[h]
         /\ \A h \in OpenFrontier(m, r) : h \in Hyps(m) /\ (h \in Hyps(l) => h \in OpenFrontier(l, r))
<1>1. \A h \in Hyps(l) : h \in Hyps(m) /\ m[h] = l[h] /\ (h \in Subtree(m, r) <=> h \in Subtree(l, r))
  BY SubtreeKept
<1>2. Subtree(l, r) \subseteq Hyps(l)
  BY SubtreeIs
<1>3. \A h \in OpenFrontier(m, r) : h \in Hyps(m)
  BY OpenIsMine
<1>4. \A h \in OpenFrontier(m, r) : h \in Hyps(l) => h \in OpenFrontier(l, r)
  BY OpenKept
<1>5. QED
  BY <1>1, <1>2, <1>3, <1>4

LEMMA EmptySound == Sound(<<>>)
<1>1. Sequenced(<<>>) /\ DOMAIN <<>> = {}
  BY EmptyQueue
<1>2. Hyps(<<>>) = {}
  BY <1>1 DEF Hyps
<1>3. QED
  BY <1>1, <1>2 DEF Sound, Forest, Judgements, Duels

\* A candidate list as the records of its hypotheses, appended.
Appends(m, l, c, p, d) == m = l \o [i \in 1..Len(c) |-> Hypothesis(p, c[i], d)]

LEMMA CandidatesAdded ==
  ASSUME NEW l, Sound(l), NEW c, Sequenced(c), NEW p, NEW d, DepthUnder(l, p, d),
         NEW m, Appends(m, l, c, p, d)
  PROVE  /\ Sound(m) /\ Kept(l, m)
         /\ Len(l) \in Nat /\ Len(c) \in Nat /\ Len(m) = Len(l) + Len(c)
         /\ DOMAIN l = 1..Len(l) /\ DOMAIN m = 1..(Len(l) + Len(c))
         /\ Hyps(m) = Hyps(l) \cup (DOMAIN m \ DOMAIN l)
         /\ \A i \in Hyps(m) \ Hyps(l) : m[i].parent = p /\ m[i].depth = d
<1>1. PICK t : t = [i \in 1..Len(c) |-> Hypothesis(p, c[i], d)]
  OBVIOUS
<1>2. Sequenced(t) /\ Len(t) = Len(c) /\ Proposes(t, p, d)
  BY <1>1, Candidates
<1>3. m = l \o t
  BY <1>1 DEF Appends
<1>4. /\ Sound(l \o t) /\ Kept(l, l \o t)
      /\ Len(l) \in Nat /\ DOMAIN l = 1..Len(l) /\ Len(t) \in Nat
      /\ Len(l \o t) = Len(l) + Len(t) /\ DOMAIN (l \o t) = 1..(Len(l) + Len(t))
      /\ Hyps(l \o t) = Hyps(l) \cup (DOMAIN (l \o t) \ DOMAIN l)
      /\ \A i \in DOMAIN (l \o t) \ DOMAIN l :
           (l \o t)[i].parent = p /\ (l \o t)[i].depth = d
  BY <1>2, HypothesesAdded
<1>5. QED
  BY <1>2, <1>3, <1>4

\* What RootHyps and Fanned leave.
LEMMA RootAdded ==
  ASSUME NEW l, Sound(l)
  PROVE  LET m == RootHyps(l, <<FALSE>>)
         IN  Sound(m) /\ Kept(l, m) /\ Len(l) + 1 \in Hyps(m)
<1>1. PICK c : c = <<FALSE>>
  OBVIOUS
<1>2. Sequenced(c) /\ Len(c) = 1
  <2>1. c \in Seq(BOOLEAN) /\ Len(c) = 1
    BY <1>1
  <2>2. QED
    BY <2>1 DEF Sequenced
<1>3. PICK m : m = RootHyps(l, c)
  OBVIOUS
<1>4. PICK z, p : z = 0 /\ p = NoParent
  OBVIOUS
<1>5. Appends(m, l, c, p, z)
  BY <1>3, <1>4 DEF RootHyps, Appends
<1>6. DepthUnder(l, p, z)
  BY <1>4 DEF DepthUnder
<1>7. /\ Sound(m) /\ Kept(l, m)
      /\ Len(l) \in Nat /\ Len(c) \in Nat /\ Len(m) = Len(l) + Len(c)
      /\ DOMAIN l = 1..Len(l) /\ DOMAIN m = 1..(Len(l) + Len(c))
      /\ Hyps(m) = Hyps(l) \cup (DOMAIN m \ DOMAIN l)
      /\ \A i \in Hyps(m) \ Hyps(l) : m[i].parent = p /\ m[i].depth = z
  <2>1. Sequenced(c)
    BY <1>2
  <2>2. QED
    BY <1>5, <1>6, <2>1, CandidatesAdded
<1>8. PICK n \in Nat : n = Len(l) + 1
  BY <1>7
<1>9. n \in DOMAIN m \ DOMAIN l
  BY <1>2, <1>7, <1>8
<1>10. QED
  BY <1>1, <1>3, <1>7, <1>8, <1>9

LEMMA FannedIs ==
  ASSUME NEW l, Sound(l), NEW p \in Hyps(l), NEW c, Sequenced(c),
         NEW m, m = Fanned(l, p, c)
  PROVE  /\ Sound(m) /\ Kept(l, m)
         /\ Len(l) \in Nat /\ Len(c) \in Nat /\ Len(m) = Len(l) + Len(c)
         /\ DOMAIN l = 1..Len(l) /\ DOMAIN m = 1..(Len(l) + Len(c))
         /\ Hyps(m) = Hyps(l) \cup (DOMAIN m \ DOMAIN l)
         /\ \A i \in Hyps(m) \ Hyps(l) : m[i].parent = p /\ m[i].depth = l[p].depth + 1
         /\ l[p].depth \in Nat
<1>1. l[p].depth \in Nat
  <2>1. Forest(l)
    BY DEF Sound
  <2>2. QED
    BY <2>1 DEF Forest
<1>2. PICK d \in Nat : d = l[p].depth + 1
  BY <1>1
<1>4. Appends(m, l, c, p, d)
  BY <1>2 DEF Fanned, Appends
<1>5. p # NoParent
  BY HypsAreNumbers DEF NoParent
<1>6. DepthUnder(l, p, d)
  BY <1>2, <1>5 DEF DepthUnder
<1>7. /\ Sound(m) /\ Kept(l, m)
      /\ Len(l) \in Nat /\ Len(c) \in Nat /\ Len(m) = Len(l) + Len(c)
      /\ DOMAIN l = 1..Len(l) /\ DOMAIN m = 1..(Len(l) + Len(c))
      /\ Hyps(m) = Hyps(l) \cup (DOMAIN m \ DOMAIN l)
      /\ \A i \in Hyps(m) \ Hyps(l) : m[i].parent = p /\ m[i].depth = d
  BY <1>4, <1>6, CandidatesAdded
<1>8. QED
  BY <1>1, <1>2, <1>7

LEMMA InitDInv == Init => DInv
<1> SUFFICES ASSUME Init PROVE DInv
  OBVIOUS
<1>1. /\ log = <<>> /\ lane = <<>> /\ pc = "seed" /\ root = NoParent /\ passes = 0 /\ round = 0
      /\ in_graph = FALSE /\ todo = <<>> /\ working = {} /\ digesting = NoResult
      /\ frontier = {} /\ plan = NoPlan /\ max_rounds \in Budgets
  BY DEF Init
<1>2. max_rounds \in Nat \ {0} /\ passes <= max_rounds /\ round <= max_rounds
  BY <1>1, DeliberationAssumption
<1>3. lane \in Seq(Result) /\ digesting \in Result
  BY <1>1 DEF Result, NoResult
<1>4. Typed
  BY <1>1, <1>2, <1>3 DEF Typed, Stages
<1>5. Placed
  BY <1>1, EmptySound, EmptyQueue DEF Placed, RoundStages
<1>6. Lowering
  BY <1>1 DEF Lowering
<1>7. Deepening
  BY <1>1 DEF Deepening, RoundStages
<1>8. QED
  BY <1>4, <1>5, <1>6, <1>7 DEF DInv

LEMMA SeedDInv ==
  ASSUME DInv, NEW steps \in Nat, Seed(steps)
  PROVE  DInv'
<1>1. /\ pc = "seed" /\ log' = RootHyps(log, <<FALSE>>) /\ root' = Len(log) + 1
      /\ todo' = [i \in 1 .. steps |-> i] /\ pc' \in {"pass", "reuse"}
      /\ UNCHANGED <<lane, max_rounds, passes, round, in_graph, frontier, working, digesting, plan>>
  BY DEF Seed, engine
<1>2. Typed'
  BY <1>1 DEF DInv, Typed, Stages
<1>3. Sound(log) /\ frontier = {} /\ working = {} /\ passes = 0
  BY <1>1 DEF DInv, Placed
<1>4. Sound(log') /\ root' \in Hyps(log')
  BY <1>1, <1>3, RootAdded
<1>5. Sequenced(todo')
  <2>1. todo' \in Seq(Nat)
    BY <1>1
  <2>2. QED
    BY <2>1 DEF Sequenced
<1>6. Placed'
  BY <1>1, <1>3, <1>4, <1>5 DEF Placed, RoundStages
<1>7. Lowering'
  BY <1>1 DEF DInv, Lowering
<1>8. \A h \in OpenFrontier(log', root') : log'[h].depth \in Nat
  BY <1>4, OpenIsMine
<1>9. Deepening'
  BY <1>1, <1>3, <1>8 DEF Deepening, RoundStages, AtLeast
<1>10. QED
  BY <1>2, <1>6, <1>7, <1>9 DEF DInv

LEMMA ReuseDInv ==
  ASSUME DInv, NEW confident \in BOOLEAN, Reuse(confident)
  PROVE  DInv'
<1>1. /\ pc = "reuse" /\ log' = Fanned(log, root, [i \in DOMAIN todo |-> confident])
      /\ todo' = <<>> /\ pc' = "pass"
      /\ UNCHANGED <<lane, max_rounds, root, passes, round, in_graph, frontier, working, digesting, plan>>
  BY DEF Reuse, engine
<1>2. Typed'
  BY <1>1 DEF DInv, Typed, Stages
<1>3. Sound(log) /\ root \in Hyps(log) /\ passes = 0 /\ Sequenced(todo)
      /\ frontier \subseteq Mine /\ working \subseteq Mine
  BY <1>1 DEF DInv, Placed
<1>4. PICK c : c = [i \in DOMAIN todo |-> confident]
  OBVIOUS
<1>5. Sequenced(c)
  <2>1. PICK k \in Nat : DOMAIN todo = 1..k
    BY <1>3 DEF Sequenced
  <2>2. c \in Seq({confident})
    BY <1>4, <2>1
  <2>3. QED
    BY <2>2 DEF Sequenced
<1>6. Sound(log') /\ Kept(log, log')
  BY <1>1, <1>3, <1>4, <1>5, FannedIs
<1>7. root \in Hyps(log') /\ Subtree(log, root) \subseteq Subtree(log', root)
  BY <1>3, <1>6, Grown
<1>8. Placed'
  BY <1>1, <1>3, <1>6, <1>7, EmptyQueue DEF Placed, RoundStages, Mine
<1>9. Lowering'
  BY <1>1 DEF DInv, Lowering
<1>10. \A h \in OpenFrontier(log', root') : log'[h].depth \in Nat
  BY <1>6, OpenIsMine
<1>a. passes' = 0 /\ pc' = "pass"
  BY <1>1, <1>3
<1>b. \A h \in OpenFrontier(log', root') : log'[h].depth >= passes'
  BY <1>10, <1>a
<1>11. Deepening'
  BY <1>a, <1>b DEF Deepening, RoundStages, AtLeast
<1>12. QED
  BY <1>2, <1>8, <1>9, <1>11 DEF DInv

\* The frontier a pass lists is at depth passes or more, so passes + 1 after it.
LEMMA BeginPassDInv ==
  ASSUME DInv, BeginPass
  PROVE  DInv'
<1>1. /\ pc = "pass" /\ passes < max_rounds /\ passes' = passes + 1
      /\ todo' = Sorted(OpenFrontier(log, root)) /\ pc' = "dispatch"
      /\ UNCHANGED <<log, lane, max_rounds, root, round, in_graph, frontier, working, digesting, plan>>
  BY DEF BeginPass, engine, disk
<1>2. Typed'
  <2>1. passes' \in Nat /\ passes' <= max_rounds
    BY <1>1 DEF DInv, Typed
  <2>2. QED
    BY <1>1, <2>1 DEF DInv, Typed, Stages
<1>3. Sound(log) /\ root \in Hyps(log) /\ frontier \subseteq Mine /\ working \subseteq Mine
  BY <1>1 DEF DInv, Placed
<1>4. /\ OpenFrontier(log, root) \subseteq Mine
      /\ Sequenced(todo') /\ Elems(todo') = OpenFrontier(log, root)
  BY <1>1, <1>3, OpenIsMine, Queued DEF Mine
<1>5. Placed'
  BY <1>1, <1>3, <1>4 DEF Placed, RoundStages, Mine
<1>6. Lowering'
  BY <1>1 DEF DInv, Lowering
<1>7. \A h \in OpenFrontier(log, root) : log[h].depth + 1 >= passes'
  <2>1. SUFFICES ASSUME NEW h \in OpenFrontier(log, root) PROVE log[h].depth + 1 >= passes'
    OBVIOUS
  <2>2. log[h].depth \in Nat /\ log[h].depth >= passes /\ passes \in Nat
    BY <1>1, <1>3, OpenIsMine DEF DInv, Typed, Deepening, AtLeast
  <2>3. PICK d \in Nat : d = log[h].depth
    BY <2>2
  <2>4. d >= passes
    BY <2>2, <2>3
  <2>5. QED
    BY <1>1, <2>2, <2>3, <2>4
<1>8. Deepening'
  BY <1>1, <1>7 DEF Deepening, RoundStages, AtLeastAfter
<1>9. QED
  BY <1>2, <1>5, <1>6, <1>8 DEF DInv

LEMMA SubmitDInv ==
  ASSUME DInv, Submit
  PROVE  DInv'
<1>1. PICK n : /\ pc = "dispatch" /\ pc' = pc
               /\ n = (IF Len(todo) < Ceiling THEN Len(todo) ELSE Ceiling)
               /\ working' = {todo[i] : i \in 1 .. n}
               /\ todo' = SubSeq(todo, n + 1, Len(todo))
               /\ UNCHANGED <<log, lane, max_rounds, root, passes, round, in_graph, frontier,
                              digesting, plan>>
  BY DEF Submit, engine, disk
<1>2. Typed'
  BY <1>1 DEF DInv, Typed, Stages
<1>3. Sound(log) /\ root \in Hyps(log) /\ frontier \subseteq Mine /\ Elems(todo) \subseteq Mine
      /\ Sequenced(todo)
  BY <1>1 DEF DInv, Placed
<1>4. n \in Nat /\ n <= Len(todo)
  <2>1. Len(todo) \in Nat
    BY <1>3 DEF Sequenced
  <2>2. QED
    BY <1>1, <2>1, DeliberationAssumption
<1>5. working' \subseteq Mine /\ Sequenced(todo') /\ Elems(todo') \subseteq Mine
  BY <1>1, <1>3, <1>4, Batch
<1>6. Placed'
  BY <1>1, <1>3, <1>5 DEF Placed, RoundStages, Mine
<1>7. Lowering'
  BY <1>1 DEF DInv, Lowering
<1>8. Deepening'
  BY <1>1 DEF DInv, Deepening, RoundStages, AtLeastAfter
<1>9. QED
  BY <1>2, <1>6, <1>7, <1>8 DEF DInv

\* An investigation ends: the pool shrinks, the lane may grow.
LEMMA DigestDInv ==
  ASSUME DInv, \/ \E h \in working : AlreadyDigested(h) \/ \E ok \in BOOLEAN : Offload(h, ok)
               \/ Mark
  PROVE  DInv'
<1>1. /\ pc = "dispatch" /\ pc' = pc /\ working' \subseteq working
      /\ UNCHANGED <<log, max_rounds, root, passes, round, in_graph, todo, frontier, plan>>
  BY DEF AlreadyDigested, Offload, Mark, engine, disk
<1>2. Sound(log) /\ working \subseteq Mine
  BY DEF DInv, Placed
<1>3. working \subseteq Nat
  BY <1>2, OpenIsMine, HypsAreNumbers DEF Mine
<1>4. digesting \in Result /\ lane \in Seq(Result)
  BY DEF DInv, Typed
<1>5. digesting' \in Result /\ lane' \in Seq(Result)
  <2>1. ASSUME NEW h \in working, AlreadyDigested(h) PROVE digesting' \in Result /\ lane' \in Seq(Result)
    BY <1>4, <2>1 DEF AlreadyDigested, disk
  <2>2. ASSUME NEW h \in working, NEW ok \in BOOLEAN, Offload(h, ok)
        PROVE  digesting' \in Result /\ lane' \in Seq(Result)
    BY <1>3, <1>4, <2>2 DEF Offload, Result
  <2>3. CASE Mark
    <3>1. lane' = Append(lane, digesting) /\ digesting' = NoResult
      BY <2>3 DEF Mark
    <3>2. NoResult \in Result
      BY DEF Result, NoResult
    <3>3. QED
      BY <1>4, <3>1, <3>2
  <2>4. QED
    BY <2>1, <2>2, <2>3
<1>6. Typed'
  BY <1>1, <1>5 DEF DInv, Typed
<1>7. Placed'
  BY <1>1 DEF DInv, Placed, RoundStages, Mine
<1>8. Lowering'
  BY <1>1 DEF DInv, Lowering
<1>9. Deepening'
  BY <1>1 DEF DInv, Deepening, RoundStages, AtLeastAfter
<1>10. QED
  BY <1>6, <1>7, <1>8, <1>9 DEF DInv

LEMMA BeginEngineDInv ==
  ASSUME DInv, BeginEngine
  PROVE  DInv'
<1>1. /\ pc = "dispatch" /\ pc' = "observe" /\ round' = 0 /\ in_graph' = LangGraph
      /\ UNCHANGED <<log, lane, max_rounds, root, passes, todo, frontier, working, digesting, plan>>
  BY DEF BeginEngine, disk
<1>2. Typed'
  BY <1>1, DeliberationAssumption DEF DInv, Typed, Stages
<1>3. round' < max_rounds
  BY <1>1 DEF DInv, Typed
<1>4. Placed'
  BY <1>1, <1>3 DEF DInv, Placed, RoundStages, Mine
<1>5. Lowering'
  BY <1>1 DEF DInv, Lowering
<1>6. Deepening'
  BY <1>1 DEF DInv, Deepening, RoundStages, AtLeastAfter
<1>7. QED
  BY <1>2, <1>4, <1>5, <1>6 DEF DInv

LEMMA ObserveDInv ==
  ASSUME DInv, Observe
  PROVE  DInv'
<1>1. /\ pc = "observe" /\ pc' = "test" /\ round' = round + 1
      /\ frontier' = OpenFrontier(log, root) /\ todo' = Sorted(frontier')
      /\ UNCHANGED <<log, lane, max_rounds, root, passes, in_graph, working, digesting, plan>>
  BY DEF Observe, disk
<1>2. Typed'
  <2>1. round' \in Nat /\ round' <= max_rounds
    BY <1>1 DEF DInv, Typed, Placed
  <2>2. QED
    BY <1>1, <2>1 DEF DInv, Typed, Stages
<1>3. Sound(log) /\ root \in Hyps(log) /\ working \subseteq Mine
  BY <1>1 DEF DInv, Placed
<1>4. /\ frontier' \subseteq Mine
      /\ Sequenced(todo') /\ Elems(todo') = frontier'
  BY <1>1, <1>3, OpenIsMine, Queued DEF Mine
<1>5. Placed'
  BY <1>1, <1>3, <1>4 DEF Placed, RoundStages, Mine
<1>6. Lowering'
  BY <1>1 DEF DInv, Lowering
<1>7. AtLeastAfter(log, OpenFrontier(log, root), passes)
  BY <1>1 DEF DInv, Deepening
<1>8. Deepening'
  BY <1>1, <1>4, <1>7 DEF Deepening, RoundStages, AtLeastAfter, AtLeast
<1>9. QED
  BY <1>2, <1>5, <1>6, <1>8 DEF DInv

\* TEST closes the node it visits ...
LEMMA JudgeDInv ==
  ASSUME DInv, NEW v \in Verdicts, Judge(v)
  PROVE  DInv'
<1>1. /\ pc = "test" /\ pc' = pc /\ todo # <<>>
      /\ log' = Judged(log, Head(todo), v) /\ todo' = Tail(todo)
      /\ UNCHANGED <<lane, max_rounds, root, passes, round, in_graph, frontier, working, digesting, plan>>
  BY DEF Judge, Visited, engine
<1>2. Typed'
  BY <1>1 DEF DInv, Typed
<1>3. /\ Sound(log) /\ root \in Hyps(log) /\ frontier \subseteq Mine /\ working \subseteq Mine
      /\ Sequenced(todo) /\ Elems(todo) \subseteq frontier
  BY <1>1 DEF DInv, Placed, RoundStages
<1>4. /\ Sequenced(todo') /\ Elems(todo') \subseteq frontier
      /\ \A h \in Elems(todo) : h = Head(todo) \/ h \in Elems(todo')
  BY <1>1, <1>3, HeadAndTail
<1>5. v # "none"
  BY DeliberationAssumption
<1>6. /\ Sound(log') /\ Kept(log, log') /\ Hyps(log') = Hyps(log)
      /\ Resolved(log', Head(todo))
  BY <1>1, <1>3, <1>5, JudgedIs
<1>7. /\ Subtree(log, root) \subseteq Subtree(log', root) /\ Subtree(log, root) \subseteq Hyps(log)
      /\ \A h \in Hyps(log) : log'[h] = log[h]
      /\ \A h \in OpenFrontier(log', root) :
           h \in Hyps(log') /\ (h \in Hyps(log) => h \in OpenFrontier(log, root))
  BY <1>3, <1>6, Grown
<1>8. Placed'
  BY <1>1, <1>3, <1>4, <1>6, <1>7 DEF Placed, RoundStages, Mine
<1>9. Lowering'
  BY <1>1 DEF DInv, Lowering
<1>10. /\ AtLeastAfter(log, frontier, passes)
       /\ AtLeast(log, OpenFrontier(log, root) \ Elems(todo), passes)
  BY <1>1 DEF DInv, Deepening, RoundStages
<1>11. \A h \in frontier : log'[h].depth + 1 >= passes
  BY <1>3, <1>7, <1>10 DEF AtLeastAfter, Mine
<1>12. ASSUME NEW h \in OpenFrontier(log', root) \ Elems(todo')
       PROVE  log'[h].depth >= passes
  <2>1. h # Head(todo)
    BY <1>6 DEF OpenFrontier
  <2>2. h \in OpenFrontier(log, root) \ Elems(todo) /\ log'[h] = log[h]
    BY <1>4, <1>6, <1>7, <2>1
  <2>3. QED
    BY <1>10, <2>2 DEF AtLeast
<1>13. Deepening'
  BY <1>1, <1>11, <1>12 DEF Deepening, RoundStages, AtLeast, AtLeastAfter
<1>14. QED
  BY <1>2, <1>8, <1>9, <1>13 DEF DInv

\* ... or gives it children, one level deeper.
LEMMA SharpenDInv ==
  ASSUME DInv, NEW c \in Fanouts, Sharpen(c)
  PROVE  DInv'
<1>1. /\ pc = "test" /\ pc' = pc /\ todo # <<>>
      /\ log' = Fanned(log, Head(todo), c) /\ todo' = Tail(todo)
      /\ UNCHANGED <<lane, max_rounds, root, passes, round, in_graph, frontier, working, digesting, plan>>
  BY DEF Sharpen, Visited, engine
<1>2. Typed'
  BY <1>1 DEF DInv, Typed
<1>3. /\ Sound(log) /\ root \in Hyps(log) /\ frontier \subseteq Mine /\ working \subseteq Mine
      /\ Sequenced(todo) /\ Elems(todo) \subseteq frontier
  BY <1>1 DEF DInv, Placed, RoundStages
<1>4. /\ Sequenced(todo') /\ Elems(todo') \subseteq frontier /\ Head(todo) \in frontier
      /\ \A h \in Elems(todo) : h = Head(todo) \/ h \in Elems(todo')
  BY <1>1, <1>3, HeadAndTail
<1>5. PICK p : p = Head(todo) /\ p \in Hyps(log)
  BY <1>3, <1>4, OpenIsMine DEF Mine
<1>6. Sequenced(c) /\ Len(c) \in Nat /\ Len(c) > 0
  <2>1. c \in Seq(BOOLEAN) /\ c # <<>>
    BY DeliberationAssumption
  <2>2. QED
    BY <2>1 DEF Sequenced
<1>7. /\ Sound(log') /\ Kept(log, log')
      /\ Len(log) \in Nat /\ DOMAIN log = 1..Len(log) /\ DOMAIN log' = 1..(Len(log) + Len(c))
      /\ Hyps(log') = Hyps(log) \cup (DOMAIN log' \ DOMAIN log)
      /\ \A i \in Hyps(log') \ Hyps(log) : log'[i].parent = p /\ log'[i].depth = log[p].depth + 1
      /\ log[p].depth \in Nat
  <2>1. Sequenced(c) /\ Sound(log) /\ p \in Hyps(log)
    BY <1>3, <1>5, <1>6
  <2>2. PICK m : m = Fanned(log, p, c)
    OBVIOUS
  <2>3. /\ Sound(m) /\ Kept(log, m)
        /\ Len(log) \in Nat /\ Len(c) \in Nat /\ Len(m) = Len(log) + Len(c)
        /\ DOMAIN log = 1..Len(log) /\ DOMAIN m = 1..(Len(log) + Len(c))
        /\ Hyps(m) = Hyps(log) \cup (DOMAIN m \ DOMAIN log)
        /\ \A i \in Hyps(m) \ Hyps(log) : m[i].parent = p /\ m[i].depth = log[p].depth + 1
        /\ log[p].depth \in Nat
    BY ONLY <2>1, <2>2, FannedIs
  <2>4. QED
    BY <1>1, <1>5, <2>2, <2>3
<1>8. /\ Subtree(log, root) \subseteq Subtree(log', root) /\ Subtree(log, root) \subseteq Hyps(log)
      /\ \A h \in Hyps(log) : log'[h] = log[h]
      /\ \A h \in OpenFrontier(log', root) :
           h \in Hyps(log') /\ (h \in Hyps(log) => h \in OpenFrontier(log, root))
  BY <1>3, <1>7, Grown
<1>9. p \notin OpenFrontier(log', root)
  <2>1. PICK n \in Nat : n = Len(log) + 1
    BY <1>7
  <2>2. n \in DOMAIN log' \ DOMAIN log
    BY <1>6, <1>7, <2>1
  <2>3. n \in Hyps(log') /\ n \notin Hyps(log)
    BY <1>7, <2>2 DEF Hyps
  <2>4. n \in Children(log', p)
    BY <1>7, <2>3 DEF Children
  <2>5. QED
    BY <2>4 DEF OpenFrontier
<1>10. Placed'
  BY <1>1, <1>3, <1>4, <1>7, <1>8 DEF Placed, RoundStages, Mine
<1>11. Lowering'
  BY <1>1 DEF DInv, Lowering
<1>12. /\ AtLeastAfter(log, frontier, passes)
       /\ AtLeast(log, OpenFrontier(log, root) \ Elems(todo), passes)
  BY <1>1 DEF DInv, Deepening, RoundStages
<1>13. \A h \in frontier : log'[h].depth + 1 >= passes
  BY <1>3, <1>8, <1>12 DEF AtLeastAfter, Mine
<1>14. ASSUME NEW h \in OpenFrontier(log', root) \ Elems(todo')
       PROVE  log'[h].depth >= passes
  <2>1. CASE h \in Hyps(log)
    <3>1. h # Head(todo)
      BY <1>5, <1>9
    <3>2. h \in OpenFrontier(log, root) \ Elems(todo) /\ log'[h] = log[h]
      BY <1>4, <1>8, <2>1, <3>1
    <3>3. QED
      BY <1>12, <3>2 DEF AtLeast
  <2>2. CASE h \notin Hyps(log)
    <3>1. log'[h].depth = log[p].depth + 1
      BY <1>7, <1>8, <2>2
    <3>2. log[p].depth + 1 >= passes
      BY <1>4, <1>5, <1>12 DEF AtLeastAfter
    <3>3. QED
      BY <3>1, <3>2
  <2>3. QED
    BY <2>1, <2>2
<1>15. Deepening'
  BY <1>1, <1>13, <1>14 DEF Deepening, RoundStages, AtLeast, AtLeastAfter
<1>16. QED
  BY <1>2, <1>10, <1>11, <1>15 DEF DInv

LEMMA SeamRaisesDInv ==
  ASSUME DInv, SeamRaises
  PROVE  DInv'
<1>1. /\ pc \in {"test", "challenge"}
      /\ UNCHANGED <<log, lane, max_rounds, root, passes, working, digesting, plan>>
      /\ \/ pc' = "observe" /\ round' = 0 /\ in_graph' = FALSE /\ frontier' = {} /\ todo' = <<>>
         \/ pc' = "raised" /\ UNCHANGED <<round, in_graph, frontier, todo>>
  BY DEF SeamRaises, engine, disk
<1>3. 0 < max_rounds /\ 0 <= max_rounds
  BY DEF DInv, Typed
<1>2. Typed'
  <2>1. round' \in Nat /\ round' <= max_rounds /\ in_graph' \in BOOLEAN
    <3>1. CASE round' = 0 /\ in_graph' = FALSE
      BY <1>3, <3>1
    <3>2. CASE UNCHANGED <<round, in_graph>>
      BY <3>2 DEF DInv, Typed
    <3>3. QED
      BY <1>1, <3>1, <3>2
  <2>2. pc' \in Stages
    BY <1>1 DEF Stages
  <2>3. QED
    BY <1>1, <2>1, <2>2 DEF DInv, Typed
<1>4. Placed'
  BY <1>1, <1>3, EmptyQueue DEF DInv, Placed, RoundStages, Mine
<1>5. Lowering'
  BY <1>1 DEF DInv, Lowering
<1>6. ASSUME NEW h \in OpenFrontier(log, root)
      PROVE  log[h].depth + 1 >= passes
  <2>1. Sound(log) /\ Elems(todo) \subseteq frontier
    BY <1>1 DEF DInv, Placed, RoundStages
  <2>2. log[h].depth \in Nat /\ passes \in Nat
    BY <2>1, OpenIsMine DEF DInv, Typed
  <2>3. CASE h \in frontier
    BY <1>1, <2>3 DEF DInv, Deepening, RoundStages, AtLeastAfter
  <2>4. CASE h \notin frontier
    <3>1. log[h].depth >= passes
      BY <1>1, <2>1, <2>4 DEF DInv, Deepening, AtLeast
    <3>2. PICK d \in Nat : d = log[h].depth
      BY <2>2
    <3>3. QED
      BY <2>2, <3>1, <3>2
  <2>5. QED
    BY <2>3, <2>4
<1>7. Deepening'
  BY <1>1, <1>6 DEF Deepening, RoundStages, AtLeastAfter
<1>8. QED
  BY <1>2, <1>4, <1>5, <1>7 DEF DInv

LEMMA BeginChallengeDInv ==
  ASSUME DInv, BeginChallenge
  PROVE  DInv'
<1>1. /\ pc = "test" /\ pc' = "challenge" /\ todo = <<>> /\ todo' = Sorted(frontier)
      /\ UNCHANGED <<log, lane, max_rounds, root, passes, round, in_graph, frontier, working,
                     digesting, plan>>
  BY DEF BeginChallenge, engine, disk
<1>2. Typed'
  BY <1>1 DEF DInv, Typed, Stages
<1>3. Sound(log) /\ root \in Hyps(log) /\ frontier \subseteq Mine /\ working \subseteq Mine
  BY <1>1 DEF DInv, Placed
<1>4. Sequenced(todo') /\ Elems(todo') = frontier
  <2>1. IsFiniteSet(frontier)
    BY <1>3, OpenIsMine, FS_Subset DEF Mine
  <2>2. frontier \subseteq Nat
    BY <1>3, OpenIsMine, HypsAreNumbers DEF Mine
  <2>3. QED
    BY <1>1, <2>1, <2>2, Queued
<1>5. Placed'
  BY <1>1, <1>3, <1>4 DEF Placed, RoundStages, Mine
<1>6. Lowering'
  BY <1>1 DEF DInv, Lowering
<1>7. AtLeast(log, OpenFrontier(log, root), passes) /\ AtLeastAfter(log, frontier, passes)
  BY <1>1, EmptyQueue DEF DInv, Deepening, RoundStages, AtLeast
<1>8. Deepening'
  BY <1>1, <1>7 DEF Deepening, RoundStages, AtLeast, AtLeastAfter
<1>9. QED
  BY <1>2, <1>5, <1>6, <1>8 DEF DInv

\* The counter-argument is a child of a node of the frontier.
LEMMA CounterDInv ==
  ASSUME DInv, Counter
  PROVE  DInv'
<1>1. /\ pc = "challenge" /\ pc' = "strike" /\ todo # <<>>
      /\ log' = Fanned(log, Head(todo), <<FALSE>>)
      /\ UNCHANGED <<lane, max_rounds, root, passes, round, in_graph, frontier, todo, working,
                     digesting, plan>>
  BY DEF Counter, engine
<1>2. Typed'
  BY <1>1 DEF DInv, Typed, Stages
<1>3. /\ Sound(log) /\ root \in Hyps(log) /\ frontier \subseteq Mine /\ working \subseteq Mine
      /\ Sequenced(todo) /\ Elems(todo) \subseteq frontier
  BY <1>1 DEF DInv, Placed, RoundStages
<1>4. Head(todo) \in frontier
  BY <1>1, <1>3, HeadAndTail
<1>5. PICK p : p = Head(todo) /\ p \in Hyps(log)
  BY <1>3, <1>4, OpenIsMine DEF Mine
<1>6. PICK c : c = <<FALSE>>
  OBVIOUS
<1>7. Sequenced(c)
  <2>1. c \in Seq(BOOLEAN)
    BY <1>6
  <2>2. QED
    BY <2>1 DEF Sequenced
<1>8. Len(c) = 1
  BY <1>6
<1>9. /\ Sound(log') /\ Kept(log, log')
      /\ Len(log) \in Nat /\ Len(log') = Len(log) + Len(c)
      /\ DOMAIN log = 1..Len(log) /\ DOMAIN log' = 1..(Len(log) + Len(c))
      /\ Hyps(log') = Hyps(log) \cup (DOMAIN log' \ DOMAIN log)
      /\ \A i \in Hyps(log') \ Hyps(log) : log'[i].depth = log[p].depth + 1
      /\ log[p].depth \in Nat
  <2>1. Sequenced(c) /\ Sound(log) /\ p \in Hyps(log)
    BY <1>3, <1>5, <1>7
  <2>2. PICK m : m = Fanned(log, p, c)
    OBVIOUS
  <2>3. /\ Sound(m) /\ Kept(log, m)
        /\ Len(log) \in Nat /\ Len(c) \in Nat /\ Len(m) = Len(log) + Len(c)
        /\ DOMAIN log = 1..Len(log) /\ DOMAIN m = 1..(Len(log) + Len(c))
        /\ Hyps(m) = Hyps(log) \cup (DOMAIN m \ DOMAIN log)
        /\ \A i \in Hyps(m) \ Hyps(log) : m[i].parent = p /\ m[i].depth = log[p].depth + 1
        /\ log[p].depth \in Nat
    BY ONLY <2>1, <2>2, FannedIs
  <2>4. QED
    BY <1>1, <1>5, <1>6, <2>2, <2>3
<1>10. Len(log') \in Hyps(log') /\ Len(log') # Head(todo)
  <2>1. PICK n \in Nat : n = Len(log') /\ n \in DOMAIN log' \ DOMAIN log
    BY <1>8, <1>9
  <2>2. QED
    BY <1>5, <1>9, <2>1 DEF Hyps
<1>11. /\ Hyps(log) \subseteq Hyps(log')
       /\ Subtree(log, root) \subseteq Subtree(log', root) /\ Subtree(log, root) \subseteq Hyps(log)
       /\ \A h \in Hyps(log) : log'[h] = log[h]
       /\ \A h \in OpenFrontier(log', root) :
            h \in Hyps(log') /\ (h \in Hyps(log) => h \in OpenFrontier(log, root))
  BY <1>3, <1>9, Grown
<1>12. Placed'
  BY <1>1, <1>3, <1>9, <1>10, <1>11 DEF Placed, RoundStages, Mine
<1>13. Lowering'
  BY <1>1 DEF DInv, Lowering
<1>14. AtLeastAfter(log, frontier, passes) /\ AtLeast(log, OpenFrontier(log, root), passes)
  BY <1>1 DEF DInv, Deepening, RoundStages
<1>15. \A h \in frontier : log'[h].depth + 1 >= passes
  BY <1>3, <1>11, <1>14 DEF AtLeastAfter, Mine
<1>16. ASSUME NEW h \in OpenFrontier(log', root)
       PROVE  log'[h].depth >= passes
  <2>1. CASE h \in Hyps(log)
    BY <1>11, <1>14, <2>1 DEF AtLeast
  <2>2. CASE h \notin Hyps(log)
    <3>1. log'[h].depth = log[p].depth + 1
      BY <1>9, <1>11, <2>2
    <3>2. log[p].depth + 1 >= passes
      BY <1>4, <1>5, <1>14 DEF AtLeastAfter
    <3>3. QED
      BY <3>1, <3>2
  <2>3. QED
    BY <2>1, <2>2
<1>17. Deepening'
  BY <1>1, <1>15, <1>16 DEF Deepening, RoundStages, AtLeast, AtLeastAfter
<1>18. QED
  BY <1>2, <1>12, <1>13, <1>17 DEF DInv

\* An attack leaves the trees and the frontiers as they are.
LEMMA AttackDInv ==
  ASSUME DInv, \/ Strike \/ \E src, dst \in Hyps(log) : CrossAttack(src, dst)
  PROVE  DInv'
<1>1. /\ pc \in {"challenge", "strike"} /\ pc' = "challenge" /\ todo # <<>>
      /\ todo' \in {todo, Tail(todo)}
      /\ UNCHANGED <<lane, max_rounds, root, passes, round, in_graph, frontier, working, digesting, plan>>
  <2>1. CASE Strike
    BY <2>1 DEF Strike, Visited, engine, DInv, Placed
  <2>2. ASSUME NEW src, NEW dst, CrossAttack(src, dst)
        PROVE  /\ pc \in {"challenge", "strike"} /\ pc' = "challenge" /\ todo # <<>>
               /\ todo' \in {todo, Tail(todo)}
               /\ UNCHANGED <<lane, max_rounds, root, passes, round, in_graph, frontier, working,
                              digesting, plan>>
    BY <2>2 DEF CrossAttack, engine
  <2>3. QED
    BY <2>1, <2>2
<1>2. Typed'
  BY <1>1 DEF DInv, Typed, Stages
<1>3. /\ Sound(log) /\ root \in Hyps(log) /\ frontier \subseteq Mine /\ working \subseteq Mine
      /\ Sequenced(todo) /\ Elems(todo) \subseteq frontier
  BY <1>1 DEF DInv, Placed, RoundStages
<1>4. Sequenced(todo') /\ Elems(todo') \subseteq frontier
  BY <1>1, <1>3, HeadAndTail
<1>5. PICK a \in Hyps(log), b \in Hyps(log) : a # b /\ log' = Attacked(log, a, b)
  <2>1. CASE Strike
    <3>1. pc = "strike" /\ log' = Attacked(log, Len(log), Head(todo))
      BY <2>1 DEF Strike
    <3>2. Len(log) \in Hyps(log) /\ Len(log) # Head(todo)
      BY <3>1 DEF DInv, Placed
    <3>3. Head(todo) \in Hyps(log)
      BY <1>1, <1>3, HeadAndTail, OpenIsMine DEF Mine
    <3>4. QED
      BY <3>1, <3>2, <3>3
  <2>2. ASSUME NEW src \in Hyps(log), NEW dst \in Hyps(log), CrossAttack(src, dst)
        PROVE  src # dst /\ log' = Attacked(log, src, dst)
    BY <2>2 DEF CrossAttack
  <2>3. QED
    BY <2>1, <2>2
<1>6. Sound(log') /\ Kept(log, log') /\ Hyps(log') = Hyps(log)
  BY <1>3, <1>5, AttackedIs
<1>7. /\ Subtree(log, root) \subseteq Subtree(log', root) /\ Subtree(log, root) \subseteq Hyps(log)
      /\ \A h \in Hyps(log) : log'[h] = log[h]
      /\ \A h \in OpenFrontier(log', root) :
           h \in Hyps(log') /\ (h \in Hyps(log) => h \in OpenFrontier(log, root))
  BY <1>3, <1>6, Grown
<1>8. Placed'
  BY <1>1, <1>3, <1>4, <1>6, <1>7 DEF Placed, RoundStages, Mine
<1>9. Lowering'
  BY <1>1 DEF DInv, Lowering
<1>10. AtLeastAfter(log, frontier, passes) /\ AtLeast(log, OpenFrontier(log, root), passes)
  BY <1>1 DEF DInv, Deepening, RoundStages
<1>11. \A h \in frontier : log'[h].depth + 1 >= passes
  BY <1>3, <1>7, <1>10 DEF AtLeastAfter, Mine
<1>12. \A h \in OpenFrontier(log', root) : log'[h].depth >= passes
  BY <1>6, <1>7, <1>10 DEF AtLeast
<1>13. Deepening'
  BY <1>1, <1>11, <1>12 DEF Deepening, RoundStages, AtLeast, AtLeastAfter
<1>14. QED
  BY <1>2, <1>8, <1>9, <1>13 DEF DInv

LEMMA UncounteredDInv ==
  ASSUME DInv, Uncountered
  PROVE  DInv'
<1>1. /\ pc = "challenge" /\ pc' = pc /\ todo # <<>> /\ todo' = Tail(todo)
      /\ UNCHANGED <<log, lane, max_rounds, root, passes, round, in_graph, frontier, working,
                     digesting, plan>>
  BY DEF Uncountered, Visited, engine, disk
<1>2. Typed'
  BY <1>1 DEF DInv, Typed
<1>3. Sequenced(todo) /\ Elems(todo) \subseteq frontier
  BY <1>1 DEF DInv, Placed, RoundStages
<1>4. Sequenced(todo') /\ Elems(todo') \subseteq frontier
  BY <1>1, <1>3, HeadAndTail
<1>5. Placed'
  BY <1>1, <1>4 DEF DInv, Placed, RoundStages, Mine
<1>6. Lowering'
  BY <1>1 DEF DInv, Lowering
<1>7. Deepening'
  BY <1>1 DEF DInv, Deepening, RoundStages, AtLeast, AtLeastAfter
<1>8. QED
  BY <1>2, <1>5, <1>6, <1>7 DEF DInv

LEMMA ConvergeDInv ==
  ASSUME DInv, Converge
  PROVE  DInv'
<1>1. /\ pc = "challenge" /\ todo = <<>> /\ frontier' = OpenFrontier(log, root)
      /\ \/ pc' = "pass"
         \/ pc' = "observe" /\ ~(round >= max_rounds)
      /\ UNCHANGED <<log, lane, max_rounds, root, passes, round, in_graph, todo, working,
                     digesting, plan>>
  BY DEF Converge, disk
<1>2. Typed'
  BY <1>1 DEF DInv, Typed, Stages
<1>3. Sound(log) /\ root \in Hyps(log) /\ working \subseteq Mine /\ Sequenced(todo)
  BY <1>1 DEF DInv, Placed
<1>4. frontier' \subseteq Mine
  BY <1>1, <1>3, OpenIsMine DEF Mine
<1>5. pc' = "observe" => round' < max_rounds'
  BY <1>1 DEF DInv, Typed
<1>6. Placed'
  BY <1>1, <1>3, <1>4, <1>5 DEF Placed, RoundStages, Mine
<1>7. Lowering'
  BY <1>1 DEF DInv, Lowering
<1>8. ASSUME NEW h \in OpenFrontier(log, root)
      PROVE  log[h].depth >= passes /\ log[h].depth + 1 >= passes
  <2>1. log[h].depth >= passes
    BY <1>1 DEF DInv, Deepening, AtLeast
  <2>2. log[h].depth \in Nat /\ passes \in Nat
    BY <1>3, OpenIsMine DEF DInv, Typed
  <2>3. PICK d \in Nat : d = log[h].depth
    BY <2>2
  <2>4. QED
    BY <2>1, <2>2, <2>3
<1>9. Deepening'
  BY <1>1, <1>8 DEF Deepening, RoundStages, AtLeast, AtLeastAfter
<1>10. QED
  BY <1>2, <1>6, <1>7, <1>9 DEF DInv

LEMMA LowerDInv ==
  ASSUME DInv, Lower
  PROVE  DInv'
<1>1. /\ pc = "pass" /\ pc' = "lowered" /\ OpenFrontier(log, root) = {}
      /\ plan' = Lowered(log, root)
      /\ UNCHANGED <<log, lane, max_rounds, root, passes, round, in_graph, todo, frontier, working,
                     digesting>>
  BY DEF Lower, engine, disk
<1>2. Typed'
  BY <1>1 DEF DInv, Typed, Stages
<1>3. Placed'
  BY <1>1 DEF DInv, Placed, RoundStages, Mine
<1>4. Lowering'
  BY <1>1 DEF Lowering
<1>5. Deepening'
  BY <1>1 DEF Deepening, RoundStages
<1>6. QED
  BY <1>2, <1>3, <1>4, <1>5 DEF DInv

\* With more passes than levels the frontier of the last is empty.
LEMMA UnresolvedDInv ==
  ASSUME DInv, Unresolved
  PROVE  DInv'
<1>1. /\ pc = "pass" /\ pc' = "unresolved" /\ passes = max_rounds /\ OpenFrontier(log, root) # {}
      /\ UNCHANGED <<log, lane, max_rounds, root, passes, round, in_graph, todo, frontier, working,
                     digesting, plan>>
  BY DEF Unresolved, engine, disk
<1>2. Typed'
  BY <1>1 DEF DInv, Typed, Stages
<1>3. Placed'
  BY <1>1 DEF DInv, Placed, RoundStages, Mine
<1>4. Lowering'
  BY <1>1 DEF DInv, Lowering
<1>5. ~(max_rounds > DepthCap)
  <2>1. PICK h \in OpenFrontier(log, root) : TRUE
    BY <1>1
  <2>2. Sound(log)
    BY DEF DInv, Placed
  <2>3. PICK d \in Nat : d = log[h].depth
    BY <2>2, OpenIsMine
  <2>4. d <= DepthCap
    BY <2>3 DEF OpenFrontier
  <2>5. d >= max_rounds
    BY <1>1, <2>3 DEF DInv, Deepening, AtLeast
  <2>6. DepthCap \in Nat /\ max_rounds \in Nat
    BY TrailAssumption DEF DInv, Typed
  <2>7. QED
    BY <2>4, <2>5, <2>6
<1>6. Deepening'
  BY <1>1, <1>5 DEF Deepening, RoundStages
<1>7. QED
  BY <1>2, <1>3, <1>4, <1>6 DEF DInv

LEMMA CrashDInv ==
  ASSUME DInv, NEW fresh \in BOOLEAN, Crash(fresh)
  PROVE  DInv'
<1>1. /\ pc \notin {"lowered", "unresolved"} /\ pc' = "seed"
      /\ log' = (IF fresh THEN <<>> ELSE log)
      /\ root' = NoParent /\ passes' = 0 /\ round' = 0 /\ in_graph' = FALSE
      /\ todo' = <<>> /\ working' = {} /\ digesting' = NoResult /\ frontier' = {}
      /\ UNCHANGED <<lane, max_rounds, plan>>
  BY DEF Crash, Over
<1>2. Typed'
  <2>1. digesting' \in Result
    BY <1>1 DEF Result, NoResult
  <2>2. passes' <= max_rounds' /\ round' <= max_rounds'
    BY <1>1 DEF DInv, Typed
  <2>3. QED
    BY <1>1, <2>1, <2>2 DEF DInv, Typed, Stages
<1>3. Sound(log')
  BY <1>1, EmptySound DEF DInv, Placed
<1>4. Placed'
  BY <1>1, <1>3, EmptyQueue DEF Placed, RoundStages
<1>5. Lowering'
  BY <1>1 DEF DInv, Lowering
<1>6. Deepening'
  BY <1>1 DEF Deepening, RoundStages
<1>7. QED
  BY <1>2, <1>4, <1>5, <1>6 DEF DInv

LEMMA StepDInv == DInv /\ [Next]_vars => DInv'
<1> SUFFICES ASSUME DInv, [Next]_vars PROVE DInv'
  OBVIOUS
<1>1. ASSUME Step PROVE DInv'
  <2>1. ASSUME NEW steps \in {0} \cup Reusable, Seed(steps) PROVE DInv'
    BY <2>1, SeedDInv, DeliberationAssumption
  <2>2. ASSUME NEW confident \in BOOLEAN, Reuse(confident) PROVE DInv'
    BY <2>2, ReuseDInv
  <2>3. CASE BeginPass
    BY <2>3, BeginPassDInv
  <2>4. CASE Submit
    BY <2>4, SubmitDInv
  <2>5. CASE BeginEngine
    BY <2>5, BeginEngineDInv
  <2>6. CASE Mark \/ \E h \in working : AlreadyDigested(h) \/ \E ok \in BOOLEAN : Offload(h, ok)
    BY <2>6, DigestDInv
  <2>7. CASE Observe
    BY <2>7, ObserveDInv
  <2>8. CASE BeginChallenge
    BY <2>8, BeginChallengeDInv
  <2>9. CASE Uncountered
    BY <2>9, UncounteredDInv
  <2>10. CASE Counter
    BY <2>10, CounterDInv
  <2>11. CASE Strike \/ \E src, dst \in Hyps(log) : CrossAttack(src, dst)
    BY <2>11, AttackDInv
  <2>12. CASE Converge
    BY <2>12, ConvergeDInv
  <2>13. ASSUME NEW verdict \in Verdicts, Judge(verdict) PROVE DInv'
    BY <2>13, JudgeDInv
  <2>14. ASSUME NEW candidates \in Fanouts, Sharpen(candidates) PROVE DInv'
    BY <2>14, SharpenDInv
  <2>15. CASE SeamRaises
    BY <2>15, SeamRaisesDInv
  <2>16. CASE Lower
    BY <2>16, LowerDInv
  <2>17. CASE Unresolved
    BY <2>17, UnresolvedDInv
  <2>18. QED
    BY <1>1, <2>1, <2>2, <2>3, <2>4, <2>5, <2>6, <2>7, <2>8, <2>9, <2>10, <2>11, <2>12, <2>13,
       <2>14, <2>15, <2>16, <2>17 DEF Step
<1>2. ASSUME NEW fresh \in BOOLEAN, Crash(fresh) PROVE DInv'
  BY <1>2, CrashDInv
<1>3. CASE UNCHANGED vars
  <2>1. UNCHANGED <<log, lane, max_rounds, pc, root, passes, round, in_graph, todo, frontier,
                    working, digesting, plan>>
    BY <1>3 DEF vars, disk, engine
  <2>2. Typed' /\ Lowering'
    BY <2>1 DEF DInv, Typed, Lowering
  <2>3. Placed'
    BY <2>1 DEF DInv, Placed, Mine
  <2>4. Deepening'
    BY <2>1 DEF DInv, Deepening
  <2>5. QED
    BY <2>2, <2>3, <2>4 DEF DInv
<1>4. QED
  BY <1>1, <1>2, <1>3 DEF Next

\* A verdict is found for a hypothesis exactly when its marker is.
LEMMA VerdictsMarked ==
  ASSUME NEW l, Sound(l), NEW h
  PROVE  Resolved(l, h) <=> VerdictOf(l, h) # "none"
<1> DEFINE T == {i \in DOMAIN l : l[i].kind = "verdict" /\ l[i].target = h}
<1>1. Len(l) \in Nat /\ DOMAIN l = 1..Len(l)
  BY HypsAreNumbers
<1>2. VerdictOf(l, h) = IF T = {} THEN "none" ELSE l[Max(T)].verdict
  BY DEF VerdictOf
<1>3. \A i \in DOMAIN l : l[i].kind = "verdict" =>
        /\ l[i].verdict # "none"
        /\ \E j \in DOMAIN l : l[j].kind = "resolved" /\ l[j].target = l[i].target
  BY DEF Sound, Judgements
<1>4. \A i \in DOMAIN l : l[i].kind = "resolved" =>
        \E j \in DOMAIN l : l[j].kind = "verdict" /\ l[j].target = l[i].target
  BY DEF Sound, Judgements
<1>5. CASE T = {}
  <2>1. VerdictOf(l, h) = "none"
    BY <1>2, <1>5
  <2>2. ~Resolved(l, h)
    BY <1>4, <1>5, ResolvedIs
  <2>3. QED
    BY <2>1, <2>2
<1>6. CASE T # {}
  <2>1. T \subseteq 0..Len(l)
    BY <1>1
  <2>2. Max(T) \in T
    <3> HIDE DEF T
    <3>1. QED
      BY <1>1, <1>6, <2>1, Largest
  <2>3. PICK i \in T : i = Max(T)
    BY <2>2
  <2>4. VerdictOf(l, h) # "none"
    BY <1>2, <1>3, <1>6, <2>3
  <2>5. Resolved(l, h)
    BY <1>3, <2>3, ResolvedIs
  <2>6. QED
    BY <2>4, <2>5
<1>7. QED
  BY <1>5, <1>6

LEMMA LoweredIs ==
  ASSUME NEW l, Sound(l), NEW r
  PROVE  /\ Lowered(l, r).nodes = Accepted(l, r)
         /\ Lowered(l, r).nodes \subseteq Subtree(l, r)
         /\ Lowered(l, r).edges \subseteq Lowered(l, r).nodes \X Lowered(l, r).nodes
<1>1. Accepted(l, r) \subseteq Subtree(l, r)
  BY AcceptedIsGrounded
<1>2. QED
  BY <1>1 DEF Lowered

LEMMA DInvTypes == DInv => TypeOK
<1> SUFFICES ASSUME DInv PROVE TypeOK
  OBVIOUS
<1>1. passes \in 0 .. max_rounds /\ round \in 0 .. max_rounds
  BY DEF DInv, Typed
<1>2. pc \in Stages /\ in_graph \in BOOLEAN /\ digesting \in Result /\ lane \in Seq(Result)
  BY DEF DInv, Typed
<1>3. Sound(log) /\ root \in Hyps(log) \cup {NoParent} /\ frontier \cup working \subseteq Mine
  BY DEF DInv, Placed
<1>4. plan.nodes \subseteq DOMAIN log /\ plan.edges \subseteq plan.nodes \X plan.nodes
  <2>1. CASE plan = NoPlan
    BY <2>1 DEF NoPlan
  <2>2. CASE plan = Lowered(log, root)
    <3>1. Lowered(log, root).nodes \subseteq Hyps(log)
      BY <1>3, LoweredIs, SubtreeIs
    <3>2. Hyps(log) \subseteq DOMAIN log
      BY DEF Hyps
    <3>3. QED
      BY <1>3, <2>2, <3>1, <3>2, LoweredIs
  <2>3. QED
    BY <2>1, <2>2 DEF DInv, Lowering
<1>5. QED
  BY <1>1, <1>2, <1>3, <1>4 DEF TypeOK, Stages

\* A trail read back after any crash is sound: hypotheses form trees whose depths
\* count the steps from their root, a verdict and its marker come together, and
\* attacks are between two different hypotheses (FsTrailStore's mutations; and
\* the state has its types).
THEOREM TrailSound == Spec => []TrailIsSound
<1>1. DInv => TrailIsSound
  <2>1. SUFFICES ASSUME DInv PROVE TrailIsSound
    OBVIOUS
  <2>2. Sound(log) /\ TypeOK
    BY <2>1, DInvTypes DEF DInv, Placed
  <2>3. \A h \in Hyps(log) :
          IF log[h].parent = NoParent THEN log[h].depth = 0
          ELSE /\ log[h].parent \in Hyps(log) /\ log[h].parent < h
               /\ log[h].depth = log[log[h].parent].depth + 1
    BY <2>2 DEF Sound, Forest
  <2>4. \A h \in Hyps(log) : Resolved(log, h) <=> VerdictOf(log, h) # "none"
    BY <2>2, VerdictsMarked
  <2>5. ASSUME NEW a \in Attacks(log)
        PROVE  a[1] # a[2] /\ {a[1], a[2]} \subseteq Hyps(log)
    <3>1. PICK r \in OfKind(log, "attack") : a = <<r.src, r.dst>>
      BY DEF Attacks
    <3>2. PICK i \in DOMAIN log : log[i].kind = "attack" /\ r = log[i]
      BY DEF OfKind
    <3>3. QED
      BY <2>2, <3>1, <3>2 DEF Sound, Duels
  <2>6. QED
    BY <2>2, <2>3, <2>4, <2>5 DEF TrailIsSound
<1>2. QED
  BY <1>1, InitDInv, StepDInv, PTL DEF Spec

\* What form_plan returns is the grounded extension of this episode's tree, the
\* least set that defends exactly itself: grounded_labels computes it, over no
\* hypothesis an earlier episode left, and lower_to_dag takes it whole.
THEOREM PlanGrounded == Spec => []PlanIsGrounded
<1>1. DInv => PlanIsGrounded
  <2>1. SUFFICES ASSUME DInv, pc = "lowered"
                 PROVE  /\ OpenFrontier(log, root) = {}
                        /\ Grounded(plan.nodes)
                        /\ \A h \in plan.nodes : h >= root
                        /\ ~ \E e \in Attacks(log) : {e[1], e[2]} \subseteq plan.nodes
    BY DEF PlanIsGrounded
  <2>2. /\ Sound(log) /\ root \in Hyps(log)
        /\ OpenFrontier(log, root) = {} /\ plan = Lowered(log, root)
    BY <2>1 DEF DInv, Placed, Lowering
  <2>3. PICK A : A = Accepted(log, root)
    OBVIOUS
  <2>4. plan.nodes = A /\ A \subseteq Mine
    BY <2>2, <2>3, LoweredIs DEF Mine
  <2>5. \A S : Defended(S) = DefendedIn(log, Mine, S)
    BY DEF Defended, DefendedIn
  <2>6. /\ DefendedIn(log, Mine, A) = A
        /\ \A T \in SUBSET Mine : DefendedIn(log, Mine, T) = T => A \subseteq T
        /\ \A a, b \in A : <<a, b>> \notin Attacks(log)
    BY <2>2, <2>3, AcceptedIsGrounded DEF Mine
  <2>7. Grounded(A)
    BY <2>4, <2>5, <2>6 DEF Grounded
  <2>8. \A h \in A : h >= root
    BY <2>2, <2>4, SubtreeAbove, HypsAreNumbers DEF Mine
  <2>9. ASSUME NEW e \in Attacks(log), {e[1], e[2]} \subseteq A
        PROVE  FALSE
    <3>1. e = <<e[1], e[2]>>
      BY DEF Attacks
    <3>2. QED
      BY <2>6, <2>9, <3>1
  <2>10. QED
    BY <2>2, <2>4, <2>7, <2>8, <2>9
<1>2. QED
  BY <1>1, InitDInv, StepDInv, PTL DEF Spec

\* A budget of more rounds than the depth cap is never spent with the frontier
\* still open: require_resolved does not raise (form_plan, DksEngine.run).
THEOREM BudgetIsEnough == Spec => []BudgetSuffices
<1>1. DInv => BudgetSuffices
  BY DEF DInv, Deepening, BudgetSuffices
<1>2. QED
  BY <1>1, InitDInv, StepDInv, PTL DEF Spec
=============================================================================
