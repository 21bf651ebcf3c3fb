--------------------------- MODULE WaveRunProofs ---------------------------
(***************************************************************************)
(* Proofs about WaveRun, for every number of nodes, plan, mix of agents    *)
(* and of their fates, size of the pool and bound on attempts.             *)
(***************************************************************************)
EXTENDS WaveRun, FiniteSetTheorems, WellFoundedInduction, TLAPS

(***************************************************************************)
(* The inductive invariant.  A worker is there for a dispatched node only  *)
(* (Idle), and a node that has left in_flight was seen done (Observed);    *)
(* between two waves, and after the last, in_flight is empty (Drained), and*)
(* a run that breaks out of a drain waits for all of them (Joined).  The   *)
(* registry holds a token only while its attempt is inside run_registered  *)
(* (Registered), and a cancellation is pending only on a running task      *)
(* (Scheduled), whenever condemn happens to schedule it.                   *)
(***************************************************************************)
Idle == \A n \in Node : n \notin dispatched => worker[n] = "none"

Observed == \A n \in dispatched : n \notin in_flight => worker[n] = "done"

Drained == pc \in {"wave", "blocked", "returned", "raised"} => in_flight = {}

Joined == pc = "broken" => \A n \in dispatched : worker[n] = "done"

Registered == \A n \in tokens : n \in Node /\ Cancellable(n) /\ worker[n] \in {"running", "leaving"}

Scheduled ==
  /\ \A n \in cancelling : n \in Node /\ worker[n] = "running"
  /\ handle # NoHandle => handle[1] \in Node

Workers ==
  /\ worker \in [Node -> {"none", "queued", "attempt", "running", "leaving", "closing",
                          "settling", "done"}]
  /\ dispatched \subseteq Node
  /\ pc \in Ended \cup {"wave", "drain", "breaking", "blocked"}

IInv == Workers /\ Idle /\ Observed /\ Drained /\ Joined /\ Registered /\ Scheduled

LEMMA InitIInv == Init => IInv
BY DEF Init, IInv, Workers, Idle, Observed, Drained, Joined, Registered, Scheduled

\* A worker that goes on is that of a dispatched node, and no node but its own
\* is looked at: what was done stays done.
LEMMA WorkerMoves ==
  ASSUME IInv, NEW n \in Node, worker[n] \notin {"none", "done"},
         NEW at \in {"attempt", "running", "leaving", "closing", "settling", "done"},
         worker' = [worker EXCEPT ![n] = at],
         UNCHANGED <<setup, supVars>>
  PROVE  /\ Workers' /\ Idle' /\ Observed' /\ Drained' /\ Joined'
         /\ setup' = setup /\ handle' = handle /\ worker'[n] = at
         /\ \A m \in Node : m # n => worker'[m] = worker[m]
<1>1. UNCHANGED <<setup, handle, pc, in_flight, dispatched>>
  BY DEF supVars
<1>2. worker'[n] = at /\ \A m \in Node : m # n => worker'[m] = worker[m]
  BY DEF IInv, Workers
<1>3. n \in dispatched /\ n \in in_flight /\ pc # "broken"
  BY DEF IInv, Idle, Observed, Joined
<1>4. Workers'
  BY <1>1 DEF IInv, Workers
<1>5. Idle' /\ Observed' /\ Drained' /\ Joined'
  BY <1>1, <1>2, <1>3 DEF IInv, Workers, Idle, Observed, Drained, Joined
<1>6. QED
  BY <1>1, <1>2, <1>4, <1>5

-----------------------------------------------------------------------------
(* The steps of the workers *)

LEMMA StartKeeps ==
  ASSUME IInv, NEW n \in Node, Start(n)
  PROVE  IInv'
<1>1. worker[n] = "queued" /\ UNCHANGED <<setup, supVars, regVars>>
      /\ worker' = [worker EXCEPT ![n] = "attempt"]
  BY DEF Start
<1>2. /\ Workers' /\ Idle' /\ Observed' /\ Drained' /\ Joined'
      /\ setup' = setup /\ handle' = handle
      /\ \A m \in Node : m # n => worker'[m] = worker[m]
  BY <1>1, WorkerMoves
<1>3. n \notin tokens /\ n \notin cancelling /\ tokens' = tokens /\ cancelling' = cancelling
  BY <1>1 DEF regVars, IInv, Registered, Scheduled
<1>4. Registered' /\ Scheduled'
  BY <1>1, <1>2, <1>3 DEF IInv, Registered, Scheduled, Cancellable, Workers
<1>5. QED
  BY <1>2, <1>4 DEF IInv

LEMMA BeginKeeps ==
  ASSUME IInv, NEW n \in Node, Begin(n)
  PROVE  IInv'
<1>1. worker[n] = "attempt" /\ UNCHANGED <<setup, supVars>> /\ cancelling' = cancelling
  BY DEF Begin
<1>2. PICK at \in {"running", "leaving"} : worker' = [worker EXCEPT ![n] = at]
  BY DEF Begin
<1>3. /\ Workers' /\ Idle' /\ Observed' /\ Drained' /\ Joined' /\ setup' = setup /\ handle' = handle
      /\ worker'[n] = at /\ \A m \in Node : m # n => worker'[m] = worker[m]
  BY <1>1, <1>2, WorkerMoves
<1>4. tokens' = tokens \/ (Cancellable(n) /\ tokens' = tokens \cup {n})
  BY DEF Begin
<1>5. n \notin cancelling
  BY <1>1 DEF IInv, Scheduled
<1>6. Registered' /\ Scheduled'
  BY <1>1, <1>2, <1>3, <1>4, <1>5 DEF IInv, Registered, Scheduled, Cancellable, Workers
<1>7. QED
  BY <1>3, <1>6 DEF IInv

\* An attempt ends, by itself or by its cancellation.
LEMMA EndsKeeps ==
  ASSUME IInv, NEW n \in Node, Finish(n) \/ Cancelled(n)
  PROVE  IInv'
<1>1. /\ worker[n] = "running" /\ UNCHANGED <<setup, supVars>>
      /\ tokens' = tokens /\ cancelling' = cancelling \ {n}
  BY DEF Finish, Cancelled
<1>2. PICK at \in {"leaving", "settling"} :
        worker' = [worker EXCEPT ![n] = at] /\ (Cancellable(n) => at = "leaving")
  BY DEF Finish, Cancelled
<1>3. /\ Workers' /\ Idle' /\ Observed' /\ Drained' /\ Joined' /\ setup' = setup /\ handle' = handle
      /\ worker'[n] = at /\ \A m \in Node : m # n => worker'[m] = worker[m]
  BY <1>1, <1>2, WorkerMoves
<1>4. Registered' /\ Scheduled'
  BY <1>1, <1>2, <1>3 DEF IInv, Registered, Scheduled, Cancellable, Workers
<1>5. QED
  BY <1>3, <1>4 DEF IInv

LEMMA RevokeKeeps ==
  ASSUME IInv, NEW n \in Node, Revoke(n)
  PROVE  IInv'
<1>1. /\ worker[n] = "leaving" /\ UNCHANGED <<setup, supVars>>
      /\ tokens' = tokens \ {n} /\ cancelling' = cancelling
      /\ worker' = [worker EXCEPT ![n] = "closing"]
  BY DEF Revoke
<1>2. /\ Workers' /\ Idle' /\ Observed' /\ Drained' /\ Joined' /\ setup' = setup /\ handle' = handle
      /\ \A m \in Node : m # n => worker'[m] = worker[m]
  BY <1>1, WorkerMoves
<1>3. n \notin cancelling
  BY <1>1 DEF IInv, Scheduled
<1>4. Registered' /\ Scheduled'
  BY <1>1, <1>2, <1>3 DEF IInv, Registered, Scheduled, Cancellable, Workers
<1>5. QED
  BY <1>2, <1>4 DEF IInv

\* The loop closes, the attempt is settled: by then the node is in neither set.
LEMMA SettlesKeeps ==
  ASSUME IInv, NEW n \in Node,
         CloseLoop(n) \/ Admit(n) \/ Retry(n) \/ RecordFailure(n) \/ Escape(n)
  PROVE  IInv'
<1>1. /\ worker[n] \in {"closing", "settling"} /\ UNCHANGED <<setup, supVars, regVars>>
      /\ \E at \in {"settling", "attempt", "done"} : worker' = [worker EXCEPT ![n] = at]
  BY DEF CloseLoop, Admit, Retry, RecordFailure, Escape, Resolve
<1>2. /\ Workers' /\ Idle' /\ Observed' /\ Drained' /\ Joined' /\ setup' = setup /\ handle' = handle
      /\ \A m \in Node : m # n => worker'[m] = worker[m]
  BY <1>1, WorkerMoves
<1>3. n \notin tokens /\ n \notin cancelling /\ tokens' = tokens /\ cancelling' = cancelling
  BY <1>1 DEF regVars, IInv, Registered, Scheduled
<1>4. Registered' /\ Scheduled'
  BY <1>1, <1>2, <1>3 DEF IInv, Registered, Scheduled, Cancellable, Workers
<1>5. QED
  BY <1>2, <1>4 DEF IInv

-----------------------------------------------------------------------------
(* The steps of the supervisor's thread *)

\* A new wave is of nodes nobody has dispatched, and finds all others done.
LEMMA SubmitWaveKeeps ==
  ASSUME IInv, SubmitWave
  PROVE  IInv'
<1>1. /\ pc = "wave" /\ pc' = "drain"
      /\ dispatched' = dispatched \cup Wave /\ in_flight' = Wave
      /\ worker' = [n \in Node |-> IF n \in Wave THEN "queued" ELSE worker[n]]
      /\ setup' = setup /\ handle' = handle /\ tokens' = tokens /\ cancelling' = cancelling
  BY DEF SubmitWave, regVars
<1>2. Wave \subseteq Node \ dispatched
  BY DEF Wave, Open
<1>3. in_flight = {}
  BY <1>1 DEF IInv, Drained
<1>4. \A n \in tokens \cup cancelling : n \in dispatched
  BY DEF IInv, Registered, Scheduled, Idle
<1>5. Workers'
  BY <1>1, <1>2 DEF IInv, Workers
<1>6. Idle' /\ Drained' /\ Joined'
  BY <1>1, <1>2 DEF IInv, Idle, Drained, Joined
<1>7. Observed'
  BY <1>1, <1>2, <1>3 DEF IInv, Observed, Workers
<1>8. \A n \in dispatched : worker'[n] = worker[n]
  BY <1>1, <1>2 DEF IInv, Workers
<1>9. Registered' /\ Scheduled'
  BY <1>1, <1>4, <1>8 DEF IInv, Registered, Scheduled, Cancellable
<1>10. QED
  BY <1>5, <1>6, <1>7, <1>9 DEF IInv

\* The drain, the condemnations and the ends leave the workers alone.
LEMMA SupervisorKeeps ==
  ASSUME IInv,
         \/ NoWave \/ WaveDrained \/ RecordRemainder \/ DeliverToClosedLoop \/ Break
         \/ \E n \in Node : Condemn(n)
  PROVE  IInv'
<1>1. UNCHANGED <<setup, worker, in_flight, dispatched, tokens, cancelling>>
  BY DEF NoWave, WaveDrained, RecordRemainder, DeliverToClosedLoop, Break, Condemn, workVars, regVars
<1>2. Workers'
  BY <1>1 DEF IInv, Workers, NoWave, WaveDrained, RecordRemainder, DeliverToClosedLoop, Break,
              Condemn, Ended
<1>3. Idle' /\ Observed' /\ Registered'
  BY <1>1 DEF IInv, Idle, Observed, Registered, Cancellable
<1>4. Drained'
  BY <1>1 DEF IInv, Drained, NoWave, WaveDrained, RecordRemainder, DeliverToClosedLoop, Break, Condemn
<1>5. Joined'
  BY <1>1 DEF IInv, Joined, NoWave, WaveDrained, RecordRemainder, DeliverToClosedLoop, Break, Condemn
<1>6. handle' = handle \/ handle' = NoHandle \/ \E n \in Node : handle' = <<n, tries[n]>>
  BY DEF NoWave, WaveDrained, RecordRemainder, DeliverToClosedLoop, Break, Condemn
<1>7. Scheduled'
  BY <1>1, <1>6 DEF IInv, Scheduled
<1>8. QED
  BY <1>2, <1>3, <1>4, <1>5, <1>7 DEF IInv

LEMMA ObserveKeeps ==
  ASSUME IInv, NEW n \in Node, Observe(n)
  PROVE  IInv'
<1>1. /\ UNCHANGED <<setup, worker, dispatched, tokens, cancelling, handle, pc>>
      /\ worker[n] = "done" /\ in_flight' = in_flight \ {n} /\ pc = "drain"
  BY DEF Observe, workVars, regVars
<1>2. Workers' /\ Idle' /\ Drained' /\ Joined'
  BY <1>1 DEF IInv, Workers, Idle, Drained, Joined
<1>3. Observed' /\ Registered' /\ Scheduled'
  BY <1>1 DEF IInv, Observed, Registered, Scheduled, Cancellable
<1>4. QED
  BY <1>2, <1>3 DEF IInv

\* A cancellation is scheduled for a task that runs, or for none.
LEMMA DeliverKeeps ==
  ASSUME IInv, Deliver
  PROVE  IInv'
<1>1. /\ UNCHANGED <<setup, worker, dispatched, in_flight, tokens, pc>>
      /\ handle # NoHandle /\ handle' = NoHandle
      /\ \/ worker[handle[1]] = "running" /\ cancelling' = cancelling \cup {handle[1]}
         \/ cancelling' = cancelling
  BY DEF Deliver, workVars
<1>2. Workers' /\ Idle' /\ Observed' /\ Drained' /\ Joined'
  BY <1>1 DEF IInv, Workers, Idle, Observed, Drained, Joined
<1>3. Registered' /\ Scheduled'
  BY <1>1 DEF IInv, Registered, Scheduled, Cancellable
<1>4. QED
  BY <1>2, <1>3 DEF IInv

LEMMA NextIInv == IInv /\ [Next]_vars => IInv'
<1> SUFFICES ASSUME IInv, [Next]_vars PROVE IInv'
  OBVIOUS
<1>1. CASE SupervisorStep
  BY <1>1, SubmitWaveKeeps, SupervisorKeeps, ObserveKeeps, DeliverKeeps DEF SupervisorStep
<1>2. ASSUME NEW n \in Node, WorkerStep(n) PROVE IInv'
  BY <1>2, StartKeeps, BeginKeeps, EndsKeeps, RevokeKeeps, SettlesKeeps DEF WorkerStep
<1>3. CASE UNCHANGED vars
  <2>1. UNCHANGED <<setup, worker, dispatched, in_flight, tokens, cancelling, handle, pc>>
    BY <1>3 DEF vars, supVars, workVars, regVars
  <2>2. Workers' /\ Idle' /\ Observed' /\ Drained' /\ Joined'
    BY <2>1 DEF IInv, Workers, Idle, Observed, Drained, Joined
  <2>3. Registered' /\ Scheduled'
    BY <2>1 DEF IInv, Registered, Scheduled, Cancellable
  <2>4. QED
    BY <2>2, <2>3 DEF IInv
<1>4. QED
  BY <1>1, <1>2, <1>3 DEF Next

\* When run() has ended, by returning, raising the collected error or breaking
\* out of a drain, no worker can write to the store any more and the registry
\* holds nothing of the run (_run_parallel, CancelTokenRegistry).
THEOREM NothingIsLeft == Spec => []NothingAfterTheEnd
<1>1. IInv => NothingAfterTheEnd
  <2> SUFFICES ASSUME IInv, pc \in Ended
               PROVE  /\ \A n \in Node : worker[n] \in {"none", "done"}
                      /\ tokens = {} /\ cancelling = {}
    BY DEF NothingAfterTheEnd
  <2>1. \A n \in dispatched : worker[n] = "done"
    BY DEF IInv, Ended, Drained, Observed, Joined
  <2>2. \A n \in Node : worker[n] \in {"none", "done"}
    BY <2>1 DEF IInv, Idle
  <2>3. QED
    BY <2>2 DEF IInv, Registered, Scheduled
<1>2. QED
  BY <1>1, InitIInv, NextIInv, PTL DEF Spec

-----------------------------------------------------------------------------
(***************************************************************************)
(* Induction on the naturals, in the form the provers can use: about the   *)
(* members of a set.                                                       *)
(***************************************************************************)

\* The least element of a set of naturals: the intervals below its members
\* are finite sets, and strict inclusion orders those well.
LEMMA Least ==
  ASSUME NEW T, T \subseteq Nat, T # {}
  PROVE  \E x \in T : \A y \in T : x <= y
<1> DEFINE I == {0..n : n \in T}
<1>1. I \subseteq FiniteSubsetsOf(Nat)
  <2>1. SUFFICES ASSUME NEW n \in T PROVE 0..n \in FiniteSubsetsOf(Nat)
    OBVIOUS
  <2>2. 0..n \in SUBSET Nat
    OBVIOUS
  <2>3. IsFiniteSet(0..n)
    BY FS_Interval
  <2>4. QED
    BY <2>2, <2>3 DEF FiniteSubsetsOf
<1>2. I # {}
  OBVIOUS
<1>3. IsWellFoundedOn(StrictSubsetOrdering(Nat), FiniteSubsetsOf(Nat))
  BY FS_StrictSubsetOrderingWellFounded
<1>4. PICK x \in I : \A y \in I : ~(<<y, x>> \in StrictSubsetOrdering(Nat))
  <2> HIDE DEF I
  <2>1. QED
    BY <1>1, <1>2, <1>3, WFMin
<1>5. PICK m \in T : x = 0..m
  OBVIOUS
<1>6. ASSUME NEW y \in T, ~(m <= y)
      PROVE  FALSE
  <2>1. 0..y \in I
    OBVIOUS
  <2>2. y \in Nat /\ m \in Nat /\ y < m
    BY <1>6
  <2>3. 0..y \in SUBSET Nat /\ 0..m \in SUBSET Nat
    BY <2>2
  <2>4. 0..y \subseteq 0..m /\ 0..y # 0..m
    BY <2>2
  <2>5. <<0..y, 0..m>> \in StrictSubsetOrdering(Nat)
    BY <2>3, <2>4 DEF StrictSubsetOrdering
  <2>6. QED
    BY <1>4, <1>5, <2>1, <2>5
<1>7. QED
  BY <1>6

LEMMA Induct ==
  ASSUME NEW S, 0 \in S, \A n \in Nat : n \in S => n + 1 \in S
  PROVE  \A n \in Nat : n \in S
<1>1. SUFFICES ASSUME NEW n \in Nat \ S PROVE FALSE
  OBVIOUS
<1>2. PICK x \in Nat \ S : \A y \in Nat \ S : x <= y
  BY <1>1, Least
<1>3. x # 0 /\ x - 1 \in Nat
  BY <1>2
<1>4. x - 1 \in S
  BY <1>2, <1>3
<1>5. x - 1 + 1 \in S
  BY <1>3, <1>4
<1>6. QED
  BY <1>2, <1>3, <1>5

\* A recursion on bounded naturals whose step at n reads the values below n only.
Downward(D, V, F) ==
  /\ F \in [D \X [D -> V] -> V]
  /\ \A n \in D : \A f, g \in [D -> V] :
       (\A m \in D : m < n => f[m] = g[m]) => F[<<n, f>>] = F[<<n, g>>]

Solves(f, D, V, F) == f \in [D -> V] /\ \A n \in D : f[n] = F[<<n, f>>]

LEMMA RecursionDefines ==
  ASSUME NEW hi \in Nat, NEW D, D \subseteq 0..hi, NEW V, V # {}, NEW F, Downward(D, V, F)
  PROVE  \E f : Solves(f, D, V, F)
<1> USE DEF Downward
<1> DEFINE S == {k \in Nat : \E f \in [D -> V] : \A n \in D : n < k => f[n] = F[<<n, f>>]}
<1>0. \A n \in D : n \in Nat /\ n <= hi
  OBVIOUS
<1>1. 0 \in S
  <2>1. PICK v \in V : TRUE
    OBVIOUS
  <2>2. [n \in D |-> v] \in [D -> V]
    OBVIOUS
  <2>3. \A n \in D : ~(n < 0)
    BY <1>0
  <2>4. QED
    BY <2>2, <2>3
<1>2. ASSUME NEW k \in Nat, k \in S
      PROVE  k + 1 \in S
  <2>1. PICK f \in [D -> V] : \A n \in D : n < k => f[n] = F[<<n, f>>]
    BY <1>2
  <2>2. CASE k \in D
    <3>1. PICK g : g = [f EXCEPT ![k] = F[<<k, f>>]]
      OBVIOUS
    <3>2. F[<<k, f>>] \in V
      BY <2>2
    <3>3. g \in [D -> V] /\ g[k] = F[<<k, f>>] /\ \A m \in D : m # k => g[m] = f[m]
      BY <2>2, <3>1, <3>2
    <3>4. ASSUME NEW n \in D, n < k + 1
          PROVE  g[n] = F[<<n, g>>]
      <4>1. \A m \in D : m < n => f[m] = g[m]
        <5>1. SUFFICES ASSUME NEW m \in D, m < n PROVE f[m] = g[m]
          OBVIOUS
        <5>2. m # k
          BY <1>0, <3>4, <5>1
        <5>3. QED
          BY <3>3, <5>2
      <4>2. F[<<n, f>>] = F[<<n, g>>]
        BY <3>3, <4>1
      <4>3. n = k \/ n < k
        BY <1>0, <3>4
      <4>4. QED
        BY <2>1, <3>3, <4>2, <4>3
    <3>5. QED
      BY <3>3, <3>4
  <2>3. CASE k \notin D
    <3>1. \A n \in D : n < k + 1 => n < k
      BY <1>0, <2>3
    <3>2. \A n \in D : n < k + 1 => f[n] = F[<<n, f>>]
      BY <2>1, <3>1
    <3>3. k + 1 \in Nat
      OBVIOUS
    <3>4. QED
      BY <3>2, <3>3
  <2>4. QED
    BY <2>2, <2>3
<1>3. hi + 1 \in S
  <2> HIDE DEF S
  <2>1. QED
    BY <1>1, <1>2, Induct
<1>4. \A n \in D : n < hi + 1
  BY <1>0
<1>5. QED
  BY <1>3, <1>4 DEF Solves

-----------------------------------------------------------------------------
(* The definitions by recursion *)

SetupOK ==
  setup \in [wiring : Wirings, kind : Kinds, fate : [Node -> Fates],
             done : DoneSets, held : HeldSets,
             on_error : {"raise", "record"}, cancel_futile : BOOLEAN]

\* The classes a node ends with in the serial pass.
Class == {"done", "held", "hold", "validated", "preemptive_termination", "crash", "escaped"}

Good == {"done", "validated"}

LEMMA SetupTypes ==
  ASSUME SetupOK
  PROVE  /\ N \in Nat
         /\ setup.done \subseteq Node /\ setup.held \subseteq Node
         /\ setup.cancel_futile \in BOOLEAN /\ setup.on_error \in {"raise", "record"}
         /\ \A n \in Node : /\ n \in Nat
                            /\ setup.wiring[n] \subseteq Node
                            /\ \A p \in setup.wiring[n] : p < n
                            /\ setup.fate[n].fails \in 0..MaxAttempts
                            /\ setup.fate[n].how \in {"raises", "preempted", "escapes"}
<1> USE WaveAssumption
<1>1. /\ setup.wiring \in Wirings /\ setup.done \in DoneSets /\ setup.held \in HeldSets
      /\ setup.cancel_futile \in BOOLEAN /\ setup.on_error \in {"raise", "record"}
      /\ setup.fate \in [Node -> Fates]
  BY DEF SetupOK
<1>2. \A n \in Node : n \in Nat
  BY DEF Node
<1>3. \A n \in Node : setup.wiring[n] \subseteq Node /\ setup.wiring[n] \subseteq 1..(n - 1)
  BY <1>1
<1>4. \A n \in Node : \A p \in setup.wiring[n] : p < n
  BY <1>2, <1>3
<1>5. \A n \in Node : setup.fate[n] \in Fate
  BY <1>1
<1>6. \A n \in Node : /\ setup.fate[n].fails \in 0..MaxAttempts
                      /\ setup.fate[n].how \in {"raises", "preempted", "escapes"}
  BY <1>5 DEF Fate
<1>7. QED
  BY <1>1, <1>2, <1>3, <1>4, <1>6

LEMMA DispatchedClass ==
  ASSUME SetupOK, NEW n \in Node
  PROVE  Dispatched(n) \in {"validated", "preemptive_termination", "crash", "escaped"}
  BY SetupTypes DEF Dispatched

LEMMA SerialUnfolds ==
  ASSUME SetupOK
  PROVE  /\ Serial \in [Node -> Class]
         /\ \A n \in Node :
              Serial[n] = IF n \in setup.done THEN "done"
                          ELSE IF n \in setup.held THEN "held"
                          ELSE IF \E p \in setup.wiring[n] : Serial[p] \notin Good THEN "hold"
                          ELSE Dispatched(n)
<1> DEFINE Step(f, n) == IF n \in setup.done THEN "done"
                         ELSE IF n \in setup.held THEN "held"
                         ELSE IF \E p \in setup.wiring[n] : f[p] \notin Good THEN "hold"
                         ELSE Dispatched(n)
           F == [x \in Node \X [Node -> Class] |-> Step(x[2], x[1])]
<1>1. \A n \in Node, f \in [Node -> Class] : Step(f, n) \in Class
  BY DispatchedClass DEF Class
<1>2. \A n \in Node, f \in [Node -> Class] : F[<<n, f>>] = Step(f, n)
  OBVIOUS
<1>3. F \in [Node \X [Node -> Class] -> Class]
  <2>1. \A x \in Node \X [Node -> Class] : x[1] \in Node /\ x[2] \in [Node -> Class]
    OBVIOUS
  <2> HIDE DEF Step
  <2>2. QED
    BY <1>1, <2>1
<1>4. ASSUME NEW n \in Node, NEW f \in [Node -> Class], NEW g \in [Node -> Class],
             \A m \in Node : m < n => f[m] = g[m]
      PROVE  F[<<n, f>>] = F[<<n, g>>]
  <2>1. \A p \in setup.wiring[n] : f[p] = g[p]
    BY <1>4, SetupTypes
  <2>2. Step(f, n) = Step(g, n)
    BY <2>1
  <2>3. QED
    BY <1>2, <2>2
<1>5. Downward(Node, Class, F)
  <2> HIDE DEF F
  <2>1. QED
    BY <1>3, <1>4 DEF Downward
<1>6. PICK f \in [Node -> Class] : \A n \in Node : f[n] = Step(f, n)
  <2>1. Class # {} /\ N \in Nat /\ Node \subseteq 0..N
    BY SetupTypes DEF Class, Node
  <2> HIDE DEF F
  <2>2. PICK f : Solves(f, Node, Class, F)
    BY <1>5, <2>1, RecursionDefines
  <2>3. f \in [Node -> Class] /\ \A n \in Node : f[n] = F[<<n, f>>]
    BY <2>2 DEF Solves
  <2>4. QED
    BY <1>2, <2>3
<1>7. f = [n \in Node |-> Step(f, n)]
  <2> HIDE DEF Step
  <2>1. QED
    BY <1>6
<1>8. Serial = [n \in Node |-> Step(Serial, n)]
  BY <1>7 DEF Serial, Good
<1>9. \A n \in Node : Serial[n] = Step(Serial, n)
  <2> HIDE DEF Step
  <2>1. QED
    BY <1>8
<1>10. \A n \in Node : Step(Serial, n) \in Class
  BY DispatchedClass DEF Class
<1>11. Serial \in [Node -> Class]
  <2> HIDE DEF Step
  <2>1. QED
    BY <1>8, <1>10
<1>12. QED
  BY <1>9, <1>11

LEMMA SerialStays ==
  ASSUME setup' = setup
  PROVE  /\ Serial' = Serial /\ Depth' = Depth
         /\ \A n : Dispatched(n)' = Dispatched(n) /\ Consumers(n)' = Consumers(n)
<1>1. \A n : Dispatched(n)' = Dispatched(n)
  BY DEF Dispatched
<1>2. Serial' = Serial
  BY <1>1 DEF Serial
<1>3. Depth' = Depth
  BY DEF Depth
<1>4. \A n : Consumers(n)' = Consumers(n)
  BY DEF Consumers
<1>5. QED
  BY <1>1, <1>2, <1>3, <1>4

\* Among finitely many positions there is one whose value is greatest.
LEMMA Greatest ==
  ASSUME NEW f, NEW k \in Nat, NEW W, W \subseteq 0..k, W # {}, \A p \in W : f[p] \in Nat
  PROVE  \E p \in W : \A q \in W : f[p] >= f[q]
<1> DEFINE S == {i \in Nat : \A X \in SUBSET (0..i) :
                   X # {} /\ (\A p \in X : f[p] \in Nat) => \E p \in X : \A q \in X : f[p] >= f[q]}
<1>1. 0 \in S
  <2>1. SUFFICES ASSUME NEW X \in SUBSET (0..0), X # {}, \A p \in X : f[p] \in Nat
                 PROVE  \E p \in X : \A q \in X : f[p] >= f[q]
    OBVIOUS
  <2>2. \A p \in X : p = 0
    BY <2>1
  <2>3. PICK p \in X : TRUE
    BY <2>1
  <2>4. \A q \in X : f[p] >= f[q]
    <3>1. SUFFICES ASSUME NEW q \in X PROVE f[p] >= f[q]
      OBVIOUS
    <3>2. q = p /\ f[p] \in Nat
      BY <2>1, <2>2
    <3>3. QED
      BY <3>2
  <2>5. QED
    BY <2>4
<1>2. ASSUME NEW i \in Nat, i \in S
      PROVE  i + 1 \in S
  <2>1. SUFFICES ASSUME NEW X \in SUBSET (0..(i + 1)), X # {}, \A p \in X : f[p] \in Nat
                 PROVE  \E p \in X : \A q \in X : f[p] >= f[q]
    OBVIOUS
  <2>2. CASE X \subseteq {i + 1}
    <3>1. PICK p \in X : TRUE
      BY <2>1
    <3>2. \A q \in X : q = p /\ f[p] \in Nat
      BY <2>1, <2>2
    <3>3. \A q \in X : f[p] >= f[q]
      BY <3>2
    <3>4. QED
      BY <3>3
  <2>3. CASE ~(X \subseteq {i + 1})
    <3>1. X \ {i + 1} \in SUBSET (0..i) /\ X \ {i + 1} # {}
      BY <2>3
    <3>2. PICK p \in X \ {i + 1} : \A q \in X \ {i + 1} : f[p] >= f[q]
      BY <1>2, <2>1, <3>1
    <3>3. CASE i + 1 \in X /\ ~(f[p] >= f[i + 1])
      <4>1. \A q \in X : f[i + 1] >= f[q]
        BY <2>1, <3>2, <3>3
      <4>2. QED
        BY <3>3, <4>1
    <3>4. CASE i + 1 \notin X \/ f[p] >= f[i + 1]
      BY <3>2, <3>4
    <3>5. QED
      BY <3>3, <3>4
  <2>4. QED
    BY <2>2, <2>3
<1>3. k \in S
  <2> HIDE DEF S
  <2>1. QED
    BY <1>1, <1>2, Induct
<1>4. QED
  BY <1>3

\* The producers a node's depth is counted from.
Rest(n) == setup.wiring[n] \ setup.done

Deepest(f, n) == CHOOSE p \in Rest(n) : \A q \in Rest(n) : f[p] >= f[q]

LEMMA DeepestIs ==
  ASSUME SetupOK, NEW n \in Node, NEW f, Rest(n) # {}, \A p \in Rest(n) : f[p] \in Nat
  PROVE  Deepest(f, n) \in Rest(n) /\ \A q \in Rest(n) : f[Deepest(f, n)] >= f[q]
<1>1. Rest(n) \subseteq 0..N /\ N \in Nat
  BY SetupTypes DEF Rest, Node
<1>2. \E p \in Rest(n) : \A q \in Rest(n) : f[p] >= f[q]
  BY <1>1, Greatest
<1>3. QED
  BY <1>2 DEF Deepest

DepthStep(f, n) == IF n \in setup.done \/ setup.wiring[n] \subseteq setup.done THEN 0
                   ELSE 1 + f[Deepest(f, n)]

LEMMA DepthUnfolds ==
  ASSUME SetupOK
  PROVE  Depth = [n \in Node |-> DepthStep(Depth, n)]
<1> DEFINE Top(T) == CHOOSE d \in T : \A e \in T : d >= e
           Values(f, n) == {f[p] : p \in Rest(n)}
           Step(f, n) == IF n \in setup.done \/ setup.wiring[n] \subseteq setup.done THEN 0
                         ELSE 1 + Top(Values(f, n))
           F == [x \in Node \X [Node -> Nat] |-> Step(x[2], x[1])]
<1>0. \A n \in Node : /\ Rest(n) \subseteq Node
                      /\ n \in setup.done \/ setup.wiring[n] \subseteq setup.done \/ Rest(n) # {}
  BY SetupTypes DEF Rest
<1>1. ASSUME NEW n \in Node, NEW f \in [Node -> Nat], Rest(n) # {}
      PROVE  Top(Values(f, n)) \in Nat /\ Top(Values(f, n)) = f[Deepest(f, n)]
  <2>1. \A p \in Rest(n) : f[p] \in Nat
    BY <1>0
  <2>2. Deepest(f, n) \in Rest(n) /\ \A q \in Rest(n) : f[Deepest(f, n)] >= f[q]
    BY <1>1, <2>1, DeepestIs
  <2>3. PICK T : T = Values(f, n)
    OBVIOUS
  <2>4. f[Deepest(f, n)] \in T /\ \A e \in T : f[Deepest(f, n)] >= e
    BY <2>2, <2>3
  <2>5. Top(T) \in T /\ \A e \in T : Top(T) >= e
    <3> HIDE DEF Values
    <3>1. QED
      BY <2>4
  <2>6. T \subseteq Nat
    BY <2>1, <2>3
  <2> HIDE DEF Top, Values
  <2>7. Top(T) >= f[Deepest(f, n)] /\ f[Deepest(f, n)] >= Top(T) /\ Top(T) \in Nat
        /\ f[Deepest(f, n)] \in Nat
    BY <2>4, <2>5, <2>6
  <2>8. Top(T) = f[Deepest(f, n)]
    BY <2>7
  <2>9. QED
    BY <2>3, <2>7, <2>8
<1>2. \A n \in Node, f \in [Node -> Nat] : Step(f, n) \in Nat /\ Step(f, n) = DepthStep(f, n)
  <2> HIDE DEF Top, Values
  <2>1. QED
    BY <1>0, <1>1 DEF DepthStep
<1>3. \A n \in Node, f \in [Node -> Nat] : F[<<n, f>>] = Step(f, n)
  <2> HIDE DEF Step
  <2>1. QED
    OBVIOUS
<1>4. F \in [Node \X [Node -> Nat] -> Nat]
  <2>1. \A x \in Node \X [Node -> Nat] : x[1] \in Node /\ x[2] \in [Node -> Nat]
    OBVIOUS
  <2> HIDE DEF Step
  <2>2. QED
    BY <1>2, <2>1
<1>5. ASSUME NEW n \in Node, NEW f \in [Node -> Nat], NEW g \in [Node -> Nat],
             \A m \in Node : m < n => f[m] = g[m]
      PROVE  F[<<n, f>>] = F[<<n, g>>]
  <2>1. \A p \in Rest(n) : f[p] = g[p]
    BY <1>5, SetupTypes DEF Rest
  <2>2. Values(f, n) = Values(g, n)
    BY <2>1
  <2>3. Step(f, n) = Step(g, n)
    <3> HIDE DEF Top, Values
    <3>1. QED
      BY <2>2
  <2>4. QED
    BY <1>3, <2>3
<1>6. Downward(Node, Nat, F)
  <2> HIDE DEF F
  <2>1. QED
    BY <1>4, <1>5 DEF Downward
<1>7. PICK f \in [Node -> Nat] : \A n \in Node : f[n] = DepthStep(f, n)
  <2>1. Nat # {} /\ N \in Nat /\ Node \subseteq 0..N
    BY SetupTypes DEF Node
  <2> HIDE DEF F
  <2>2. PICK f : Solves(f, Node, Nat, F)
    BY <1>6, <2>1, RecursionDefines
  <2>3. f \in [Node -> Nat] /\ \A n \in Node : f[n] = F[<<n, f>>]
    BY <2>2 DEF Solves
  <2> HIDE DEF Step
  <2>4. QED
    BY <1>2, <1>3, <2>3
<1>8. f = [n \in Node |-> DepthStep(f, n)]
  BY <1>7
<1>9. \E g : g = [n \in Node |->
               IF n \in setup.done \/ setup.wiring[n] \subseteq setup.done THEN 0
               ELSE 1 + g[CHOOSE p \in setup.wiring[n] \ setup.done :
                            \A q \in setup.wiring[n] \ setup.done : g[p] >= g[q]]]
  BY <1>8 DEF DepthStep, Deepest, Rest
<1>10. Depth = [n \in Node |->
               IF n \in setup.done \/ setup.wiring[n] \subseteq setup.done THEN 0
               ELSE 1 + Depth[CHOOSE p \in setup.wiring[n] \ setup.done :
                                \A q \in setup.wiring[n] \ setup.done : Depth[p] >= Depth[q]]]
  BY <1>9, Zenon DEF Depth
<1>11. QED
  BY <1>10, Zenon DEF DepthStep, Deepest, Rest

LEMMA DepthFacts ==
  ASSUME SetupOK
  PROVE  \A n \in Node :
           /\ Depth[n] \in Nat
           /\ n \in setup.done \/ Rest(n) = {} => Depth[n] = 0
           /\ n \notin setup.done => \A p \in Rest(n) : Depth[p] < Depth[n]
           /\ n \notin setup.done /\ Rest(n) # {} => \E p \in Rest(n) : Depth[n] = Depth[p] + 1
<1>1. \A n \in Node : Depth[n] = DepthStep(Depth, n)
  BY DepthUnfolds
<1>2. \A n \in Node : setup.wiring[n] \subseteq setup.done <=> Rest(n) = {}
  BY DEF Rest
<1>3. \A n \in Node : Depth[n] \in Nat
  <2> DEFINE T == {n \in Node : Depth[n] \notin Nat}
  <2>1. SUFFICES ASSUME T # {} PROVE FALSE
    OBVIOUS
  <2>2. T \subseteq Nat
    BY SetupTypes
  <2>3. PICK n \in T : \A m \in T : n <= m
    BY <2>1, <2>2, Least
  <2>4. \A p \in Rest(n) : p \in Node /\ p < n /\ p \in Nat /\ n \in Nat
    BY SetupTypes DEF Rest
  <2>5. \A p \in Rest(n) : Depth[p] \in Nat
    BY <2>3, <2>4
  <2>6. CASE Rest(n) = {}
    BY <1>1, <1>2, <2>6 DEF DepthStep
  <2>7. CASE Rest(n) # {}
    <3>1. Deepest(Depth, n) \in Rest(n)
      BY <2>5, <2>7, DeepestIs
    <3>2. 1 + Depth[Deepest(Depth, n)] \in Nat
      BY <2>5, <3>1
    <3>3. QED
      BY <1>1, <3>2 DEF DepthStep
  <2>8. QED
    BY <2>6, <2>7
<1>4. SUFFICES ASSUME NEW n \in Node, n \notin setup.done, Rest(n) # {}
               PROVE  /\ \A p \in Rest(n) : Depth[p] < Depth[n]
                      /\ \E p \in Rest(n) : Depth[n] = Depth[p] + 1
  BY <1>1, <1>2, <1>3 DEF DepthStep
<1>5. \A p \in Rest(n) : Depth[p] \in Nat
  BY <1>3, SetupTypes DEF Rest
<1>6. Deepest(Depth, n) \in Rest(n) /\ \A q \in Rest(n) : Depth[Deepest(Depth, n)] >= Depth[q]
  BY <1>4, <1>5, DeepestIs
<1>7. Depth[n] = 1 + Depth[Deepest(Depth, n)]
  BY <1>1, <1>2, <1>4 DEF DepthStep
<1>8. PICK p \in Rest(n) : p = Deepest(Depth, n)
  BY <1>6
<1>9. QED
  BY <1>5, <1>6, <1>7, <1>8

\* A set that holds the consumers of a node, and of each of its members, holds
\* all the descendants.
LEMMA DescendantsWithin ==
  ASSUME SetupOK, NEW n \in Node, NEW T, Consumers(n) \subseteq T,
         \A m \in T : Consumers(m) \subseteq T
  PROVE  Descendants(n) \subseteq T
<1> DEFINE D == 0..N
           V == SUBSET Node
           Step(f, k) == IF k = 0 THEN Consumers(n)
                         ELSE f[k - 1] \cup UNION {Consumers(m) : m \in f[k - 1]}
           F == [x \in D \X [D -> V] |-> Step(x[2], x[1])]
<1>0. N \in Nat
  BY SetupTypes
<1>1. \A k \in D : k \in Nat /\ (k # 0 => k - 1 \in D /\ k - 1 < k)
  BY <1>0
<1>2. ASSUME NEW k \in D, NEW f \in [D -> V]
      PROVE  Step(f, k) \in V
  <2>1. \A m : Consumers(m) \subseteq Node
    BY DEF Consumers
  <2>2. k # 0 => f[k - 1] \subseteq Node
    BY <1>1
  <2>3. QED
    BY <2>1, <2>2
<1>3. \A k \in D, f \in [D -> V] : F[<<k, f>>] = Step(f, k)
  <2> HIDE DEF Step
  <2>1. QED
    OBVIOUS
<1>4. F \in [D \X [D -> V] -> V]
  <2>1. \A x \in D \X [D -> V] : x[1] \in D /\ x[2] \in [D -> V]
    OBVIOUS
  <2> HIDE DEF Step, D, V
  <2>2. QED
    BY <1>2, <2>1
<1>5. ASSUME NEW k \in D, NEW f \in [D -> V], NEW g \in [D -> V],
             \A m \in D : m < k => f[m] = g[m]
      PROVE  F[<<k, f>>] = F[<<k, g>>]
  <2>1. k # 0 => f[k - 1] = g[k - 1]
    BY <1>1, <1>5
  <2>2. Step(f, k) = Step(g, k)
    BY <2>1
  <2>3. QED
    BY <1>3, <2>2
<1>6. Downward(D, V, F)
  <2> HIDE DEF F, D, V
  <2>1. QED
    BY <1>4, <1>5 DEF Downward
<1>7. PICK f \in [D -> V] : \A k \in D : f[k] = Step(f, k)
  <2>1. V # {} /\ N \in Nat /\ D \subseteq 0..N
    BY <1>0
  <2> HIDE DEF F, D, V
  <2>2. PICK f : Solves(f, D, V, F)
    BY <1>6, <2>1, RecursionDefines
  <2>3. f \in [D -> V] /\ \A k \in D : f[k] = F[<<k, f>>]
    BY <2>2 DEF Solves
  <2> HIDE DEF Step
  <2>4. QED
    BY <1>3, <2>3
<1>8. f = [k \in 0..N |-> Step(f, k)]
  <2> HIDE DEF Step
  <2>1. QED
    BY <1>7
<1>9. PICK grow : /\ grow = [k \in 0..N |-> Step(grow, k)]
                  /\ Descendants(n) = grow[N]
  <2>1. \E g : g = [k \in 0..N |-> IF k = 0 THEN Consumers(n)
                                   ELSE g[k - 1] \cup UNION {Consumers(m) : m \in g[k - 1]}]
    BY <1>8
  <2>2. QED
    BY <2>1, Zenon DEF Descendants
<1>10. \A k \in 0..N : grow[k] = Step(grow, k)
  <2> HIDE DEF Step
  <2>1. QED
    BY <1>9
<1> DEFINE S == {k \in Nat : k \in 0..N => grow[k] \subseteq T}
<1>11. 0 \in S
  <2>1. 0 \in 0..N
    BY <1>0
  <2>2. grow[0] = Consumers(n)
    BY <1>10, <2>1
  <2>3. QED
    BY <2>2
<1>12. ASSUME NEW k \in Nat, k \in S
       PROVE  k + 1 \in S
  <2>1. SUFFICES ASSUME k + 1 \in 0..N PROVE grow[k + 1] \subseteq T
    OBVIOUS
  <2>2. k \in 0..N
    BY <1>0, <2>1
  <2>3. grow[k] \subseteq T
    BY <1>12, <2>2
  <2>4. k + 1 # 0 /\ k + 1 - 1 = k
    OBVIOUS
  <2>5. grow[k + 1] = grow[k] \cup UNION {Consumers(m) : m \in grow[k]}
    <3>1. \A h \in 0..N : h # 0 =>
            grow[h] = grow[h - 1] \cup UNION {Consumers(m) : m \in grow[h - 1]}
      BY <1>10
    <3>2. PICK h \in 0..N : h = k + 1 /\ h # 0 /\ h - 1 = k
      BY <2>1, <2>4
    <3>3. grow[h] = grow[h - 1] \cup UNION {Consumers(m) : m \in grow[h - 1]}
      BY <3>1, <3>2
    <3>4. QED
      BY <3>2, <3>3
  <2>6. QED
    BY <2>3, <2>5
<1>13. N \in S
  <2> HIDE DEF S
  <2>1. QED
    BY <1>0, <1>11, <1>12, Induct
<1>14. N \in 0..N
  BY <1>0
<1>15. QED
  BY <1>9, <1>13, <1>14

-----------------------------------------------------------------------------
(***************************************************************************)
(* The second invariant relates the run to the serial pass.  A worker      *)
(* settles on the class its node's fate has (Works), unless the node was   *)
(* condemned; only nodes the serial pass dispatches too are dispatched     *)
(* (Ran); a node is condemned only when nobody can consume its output or   *)
(* the run is going to raise (Condemned); what was observed is in errors   *)
(* when it escaped (Collected); and without cancellation the waves are the *)
(* layers of the plan, so the errors of one wave are of equal depth        *)
(* (Layered).  Final is what RecordRemainder makes of all this.            *)
(***************************************************************************)

\* The nodes completed before the run were completed under its plan: their
\* producers were completed too.
PlanKept == \A w \in Wirings, d \in DoneSets : \A n \in d : w[n] \subseteq d

\* The serial pass dispatches the node.
Runnable(n) ==
  /\ n \notin setup.done /\ n \notin setup.held
  /\ \A p \in setup.wiring[n] : Serial[p] \in Good

\* The serial pass never reaches these, for want of a producer or held.
Stuck == {m \in Node : Serial[m] \in {"hold", "held"}}

Doomed(n) == Consumers(n) # {} /\ Consumers(n) \subseteq Stuck

\* The attempt the node is at is one its fate and the policy lead to.
Attempted(n) ==
  /\ tries[n] \in 1..MaxAttempts
  /\ \/ tries[n] = 1
     \/ /\ tries[n] - 1 <= setup.fate[n].fails
        /\ \/ setup.fate[n].how = "preempted" /\ tries[n] = 2
           \/ setup.fate[n].how = "raises" /\ setup.on_error = "record"

Ending(n) ==
  \/ result[n] = AttemptEnds(n, tries[n])
  \/ result[n] = "cancelled" /\ n \in reasons

Settled(n) ==
  \/ result[n] # "escaped" /\ Dispatched(n) # "escaped" /\ written[n] = <<Dispatched(n)>>
  \/ result[n] = "escaped" /\ Dispatched(n) = "escaped" /\ written[n] = <<>>
  \/ result[n] # "escaped" /\ n \in reasons /\ written[n] = <<"futility_cancelled">>

Works(n) ==
  /\ worker[n] \in {"none", "queued"} => tries[n] = 0 /\ (pc # "returned" => written[n] = <<>>)
  /\ worker[n] \in {"attempt", "running", "leaving", "closing", "settling"} =>
       Attempted(n) /\ written[n] = <<>>
  /\ worker[n] \in {"leaving", "closing", "settling"} => Ending(n)
  /\ worker[n] = "done" => Settled(n)

Shapes ==
  /\ tries \in [Node -> 0..MaxAttempts]
  /\ result \in [Node -> {"none", "ok", "raises", "preempted", "escapes", "cancelled", "escaped"}]
  /\ written \in [Node -> Seq({"validated", "crash", "hold", "futility_cancelled",
                               "preemptive_termination"})]

Excused(n) == setup.cancel_futile /\ (errors # {} \/ (PlanKept => Doomed(n)))

Condemned ==
  /\ targets \subseteq in_flight
  /\ reasons \subseteq Node
  /\ \A n \in reasons \cup targets : Excused(n)
  /\ cancelling \subseteq reasons
  /\ handle # NoHandle => handle \in Node \X (1..MaxAttempts) /\ handle[1] \in reasons
  /\ targets # {} \/ handle # NoHandle => pc = "drain"

Collected ==
  /\ in_flight \subseteq dispatched
  /\ errors \subseteq dispatched \ in_flight
  /\ \A n \in dispatched \ in_flight : n \in errors <=> result[n] = "escaped"
  /\ errors # {} => pc \in {"drain", "breaking", "broken", "raised"}
  /\ pc = "raised" => errors # {}
  /\ pc = "blocked" => Wave = {}

Ran == \A n \in dispatched : Runnable(n)

Layered ==
  ~setup.cancel_futile =>
    \E d \in Nat :
      /\ dispatched = {n \in Node : Runnable(n) /\ Depth[n] < d}
      /\ \A n \in in_flight \cup errors : Depth[n] + 1 = d

Final ==
  pc = "returned" /\ (setup.cancel_futile => PlanKept) =>
    \A n \in Node :
      \/ written[n] = Recorded(Serial[n])
      \/ /\ setup.cancel_futile
         /\ written[n] = <<"futility_cancelled">>
         /\ Doomed(n)

RInv ==
  /\ IInv /\ SetupOK /\ Shapes
  /\ \A n \in Node : Works(n)
  /\ Condemned /\ Collected /\ Ran /\ Layered /\ Final

\* What is said of the setup alone stays.
LEMMA SetupStays ==
  ASSUME setup' = setup
  PROVE  /\ SetupOK' <=> SetupOK
         /\ \A n : (Runnable(n)' <=> Runnable(n)) /\ (Doomed(n)' <=> Doomed(n))
<1>1. SetupOK' <=> SetupOK
  BY DEF SetupOK
<1>2. \A n : Runnable(n)' <=> Runnable(n)
  BY SerialStays DEF Runnable
<1>3. Stuck' = Stuck
  BY SerialStays DEF Stuck
<1>4. \A n : Doomed(n)' <=> Doomed(n)
  BY <1>3, SerialStays DEF Doomed
<1>5. QED
  BY <1>1, <1>2, <1>4

LEMMA RunnableFacts ==
  ASSUME SetupOK, NEW n \in Node
  PROVE  /\ Runnable(n) => /\ Serial[n] = Dispatched(n)
                           /\ Serial[n] \in {"validated", "preemptive_termination", "crash", "escaped"}
         /\ ~Runnable(n) => Serial[n] \in {"done", "held", "hold"}
  BY SerialUnfolds, DispatchedClass DEF Runnable

LEMMA CompletedFacts ==
  ASSUME RInv, pc # "returned", NEW n \in Node
  PROVE  /\ n \in Completed <=> n \in setup.done \/ written[n] = <<"validated">>
         /\ n \in Completed => Serial[n] \in Good
         /\ n \in Completed \ setup.done =>
              n \in dispatched /\ worker[n] = "done" /\ Serial[n] = "validated"
<1>1. SetupOK /\ Works(n) /\ worker[n] \in {"none", "queued", "attempt", "running", "leaving",
                                            "closing", "settling", "done"}
  BY DEF RInv, IInv, Workers
<1>2. written[n] # <<>> => worker[n] = "done"
  BY <1>1 DEF Works
<1>3. written[n] = <<>> \/ \E c : written[n] = <<c>>
  BY <1>1, <1>2 DEF Works, Settled
<1>4. n \in Completed <=> n \in setup.done \/ written[n] = <<"validated">>
  BY <1>3 DEF Completed
<1>5. ASSUME n \notin setup.done, written[n] = <<"validated">>
      PROVE  n \in dispatched /\ worker[n] = "done" /\ Serial[n] = "validated"
  <2>1. worker[n] = "done" /\ n \in dispatched
    BY <1>2, <1>5 DEF RInv, IInv, Idle
  <2>2. Dispatched(n) = "validated"
    BY <1>1, <1>5, <2>1 DEF Works, Settled
  <2>3. Runnable(n)
    BY <2>1 DEF RInv, Ran
  <2>4. QED
    BY <1>1, <2>1, <2>2, <2>3, RunnableFacts
<1>6. n \in setup.done => Serial[n] = "done"
  BY <1>1, SerialUnfolds
<1>7. QED
  BY <1>4, <1>5, <1>6 DEF Good

\* Nobody downstream of a node without a good end is reached by the serial pass.
LEMMA StuckBelow ==
  ASSUME SetupOK, PlanKept, NEW n \in Node, Serial[n] \notin Good
  PROVE  Consumers(n) \subseteq Stuck
<1>1. SUFFICES ASSUME NEW m \in Node, n \in setup.wiring[m] PROVE Serial[m] \in {"hold", "held"}
  BY DEF Consumers, Stuck
<1>2. m \notin setup.done
  <2>1. SUFFICES ASSUME m \in setup.done PROVE FALSE
    OBVIOUS
  <2>2. n \in setup.done
    BY <1>1, <2>1 DEF PlanKept, SetupOK
  <2>3. Serial[n] = "done"
    BY <2>2, SerialUnfolds
  <2>4. QED
    BY <2>3 DEF Good
<1>3. QED
  BY <1>1, <1>2, SerialUnfolds

\* A member of a futility closure has consumers, and they are all stuck.
LEMMA ClosureIsDoomed ==
  ASSUME SetupOK, PlanKept, NEW n \in Node, Consumers(n) \subseteq Stuck,
         NEW among, NEW t \in FutilityClosure(n, among)
  PROVE  Doomed(t)
<1>1. ASSUME NEW m \in Stuck
      PROVE  Consumers(m) \subseteq Stuck
  <2>1. m \in Node /\ Serial[m] \notin Good
    BY DEF Stuck, Good
  <2>2. QED
    BY <2>1, StuckBelow
<1>2. Descendants(n) \subseteq Stuck
  BY <1>1, DescendantsWithin
<1>3. QED
  BY <1>2 DEF FutilityClosure, Doomed

-----------------------------------------------------------------------------
(* The steps of the workers *)

\* A step of one worker: the other nodes and what the supervisor knows stay.
LEMMA WorkerKeeps ==
  ASSUME RInv, IInv', NEW n \in Node, worker[n] \notin {"none", "done"},
         UNCHANGED <<setup, supVars, reasons>>,
         cancelling' \subseteq cancelling, Shapes', Works(n)',
         \A m \in Node : m # n => /\ written'[m] = written[m] /\ worker'[m] = worker[m]
                                  /\ tries'[m] = tries[m] /\ result'[m] = result[m]
  PROVE  RInv'
<1>1. UNCHANGED <<setup, pc, in_flight, dispatched, errors, targets, handle, reasons>>
  BY DEF supVars
<1>2. n \in in_flight /\ pc \notin {"blocked", "returned"}
  BY DEF RInv, IInv, Idle, Observed, Drained
<1>3. SetupOK' /\ \A m : (Runnable(m)' <=> Runnable(m)) /\ (Doomed(m)' <=> Doomed(m))
  BY <1>1, SetupStays DEF RInv
<1>4. ASSUME NEW m \in Node
      PROVE  Works(m)'
  <2>1. CASE m = n
    BY <2>1
  <2>2. CASE m # n
    <3>1. written'[m] = written[m] /\ worker'[m] = worker[m]
          /\ tries'[m] = tries[m] /\ result'[m] = result[m]
      BY <2>2
    <3>2. Works(m)
      BY DEF RInv
    <3>3. Attempted(m)' <=> Attempted(m)
      BY <1>1, <3>1 DEF Attempted
    <3>4. Ending(m)' <=> Ending(m)
      BY <1>1, <3>1 DEF Ending, AttemptEnds
    <3>5. Settled(m)' <=> Settled(m)
      BY <1>1, <3>1, SerialStays DEF Settled
    <3>6. QED
      BY <1>1, <3>1, <3>2, <3>3, <3>4, <3>5 DEF Works
  <2>3. QED
    BY <2>1, <2>2
<1>5. Condemned'
  BY <1>1, <1>3 DEF RInv, Condemned, Excused
<1>6. Collected'
  <2>1. \A m \in dispatched \ in_flight : m \in Node /\ m # n
    BY <1>2 DEF RInv, IInv, Workers
  <2>2. \A m \in dispatched' \ in_flight' : m \in errors' <=> result'[m] = "escaped"
    BY <1>1, <2>1 DEF RInv, Collected
  <2>3. QED
    BY <1>1, <1>2, <2>2 DEF RInv, Collected
<1>7. Ran'
  BY <1>1, <1>3 DEF RInv, Ran
<1>8. Layered'
  BY <1>1, <1>3, SerialStays DEF RInv, Layered
<1>9. Final'
  BY <1>1, <1>2 DEF Final
<1>10. QED
  BY <1>3, <1>4, <1>5, <1>6, <1>7, <1>8, <1>9 DEF RInv

LEMMA WorkerTypes ==
  ASSUME RInv, NEW n \in Node
  PROVE  /\ SetupOK /\ Works(n) /\ Shapes /\ IInv
         /\ n \in DOMAIN worker /\ n \in DOMAIN tries /\ n \in DOMAIN result /\ n \in DOMAIN written
         /\ tries[n] \in Nat /\ tries[n] <= MaxAttempts /\ MaxAttempts \in Nat /\ MaxAttempts >= 1
         /\ reasons \subseteq Node
<1>1. MaxAttempts \in Nat \ {0}
  BY WaveAssumption
<1>2. QED
  BY <1>1 DEF RInv, Shapes, IInv, Workers, Condemned

LEMMA StartRuns ==
  ASSUME RInv, IInv', NEW n \in Node, Start(n)
  PROVE  RInv'
<1>1. /\ worker[n] = "queued" /\ UNCHANGED <<setup, supVars, reasons, written, result, cancelling>>
      /\ worker' = [worker EXCEPT ![n] = "attempt"] /\ tries' = [tries EXCEPT ![n] = 1]
  BY DEF Start, regVars
<1>2. /\ worker'[n] = "attempt" /\ tries'[n] = 1
      /\ \A m \in Node : m # n => worker'[m] = worker[m] /\ tries'[m] = tries[m]
  BY <1>1, WorkerTypes DEF Shapes, IInv, Workers
<1>3. Shapes'
  BY <1>1, WorkerTypes DEF Shapes
<1>4. written[n] = <<>>
  <2>1. pc # "returned"
    BY <1>1 DEF RInv, IInv, Idle, Observed, Drained
  <2>2. QED
    BY <1>1, <2>1, WorkerTypes DEF Works
<1>5. Attempted(n)'
  BY <1>2, WorkerTypes DEF Attempted
<1>6. Works(n)'
  BY <1>1, <1>2, <1>4, <1>5 DEF Works
<1>7. QED
  BY <1>1, <1>2, <1>3, <1>6, WorkerKeeps

LEMMA BeginRuns ==
  ASSUME RInv, IInv', NEW n \in Node, Begin(n)
  PROVE  RInv'
<1>1. /\ worker[n] = "attempt" /\ UNCHANGED <<setup, supVars, tries, reasons, written, cancelling>>
      /\ \/ result' = result /\ worker' = [worker EXCEPT ![n] = "running"]
         \/ /\ n \in reasons /\ result' = [result EXCEPT ![n] = "cancelled"]
            /\ worker' = [worker EXCEPT ![n] = "leaving"]
  BY DEF Begin
<1>2. /\ worker'[n] = "running" \/ (worker'[n] = "leaving" /\ result'[n] = "cancelled" /\ n \in reasons)
      /\ \A m \in Node : m # n => worker'[m] = worker[m] /\ result'[m] = result[m]
  BY <1>1, WorkerTypes DEF Shapes, IInv, Workers
<1>3. Shapes'
  BY <1>1, WorkerTypes DEF Shapes
<1>4. Attempted(n) /\ written[n] = <<>>
  BY <1>1, WorkerTypes DEF Works
<1>5. Attempted(n)'
  BY <1>1, <1>4 DEF Attempted
<1>6. Works(n)'
  BY <1>1, <1>2, <1>4, <1>5 DEF Works, Ending
<1>7. QED
  BY <1>1, <1>2, <1>3, <1>6, WorkerKeeps

LEMMA EndsRun ==
  ASSUME RInv, IInv', NEW n \in Node, Finish(n) \/ Cancelled(n)
  PROVE  RInv'
<1>1. /\ worker[n] = "running" /\ UNCHANGED <<setup, supVars, tries, reasons, written>>
      /\ cancelling' = cancelling \ {n}
      /\ \E at \in {"leaving", "settling"} : worker' = [worker EXCEPT ![n] = at]
      /\ \/ result' = [result EXCEPT ![n] = AttemptEnds(n, tries[n])]
         \/ n \in reasons /\ result' = [result EXCEPT ![n] = "cancelled"]
  BY DEF Finish, Cancelled, RInv, Condemned
<1>2. AttemptEnds(n, tries[n]) \in {"ok", "raises", "preempted", "escapes"}
  BY WorkerTypes, SetupTypes DEF AttemptEnds
<1>3. /\ worker'[n] \in {"leaving", "settling"}
      /\ result'[n] = AttemptEnds(n, tries[n]) \/ (result'[n] = "cancelled" /\ n \in reasons)
      /\ \A m \in Node : m # n => worker'[m] = worker[m] /\ result'[m] = result[m]
  BY <1>1, WorkerTypes DEF Shapes, IInv, Workers
<1>4. Shapes'
  BY <1>1, <1>2, WorkerTypes DEF Shapes
<1>5. Attempted(n) /\ written[n] = <<>>
  BY <1>1, WorkerTypes DEF Works
<1>6. Attempted(n)'
  BY <1>1, <1>5 DEF Attempted
<1>7. Ending(n)'
  BY <1>1, <1>3 DEF Ending, AttemptEnds
<1>8. Works(n)'
  BY <1>1, <1>3, <1>5, <1>6, <1>7 DEF Works
<1>9. QED
  BY <1>1, <1>3, <1>4, <1>8, WorkerKeeps

LEMMA LeavesRun ==
  ASSUME RInv, IInv', NEW n \in Node, Revoke(n) \/ CloseLoop(n)
  PROVE  RInv'
<1>1. /\ worker[n] \in {"leaving", "closing"}
      /\ UNCHANGED <<setup, supVars, tries, reasons, written, result, cancelling>>
      /\ \E at \in {"closing", "settling"} : worker' = [worker EXCEPT ![n] = at]
  BY DEF Revoke, CloseLoop, regVars
<1>2. /\ worker'[n] \in {"closing", "settling"}
      /\ \A m \in Node : m # n => worker'[m] = worker[m]
  BY <1>1, WorkerTypes DEF IInv, Workers
<1>3. Shapes'
  BY <1>1, WorkerTypes DEF Shapes
<1>4. Attempted(n) /\ written[n] = <<>> /\ Ending(n)
  BY <1>1, WorkerTypes DEF Works
<1>5. Attempted(n)' /\ Ending(n)'
  BY <1>1, <1>4 DEF Attempted, Ending, AttemptEnds
<1>6. Works(n)'
  BY <1>1, <1>2, <1>4, <1>5 DEF Works
<1>7. QED
  BY <1>1, <1>2, <1>3, <1>6, WorkerKeeps

\* What an attempt that cannot be retried says of the node's fate.
LEMMA VerdictIsFate ==
  ASSUME RInv, NEW n \in Node, worker[n] = "settling", result[n] # "cancelled"
  PROVE  /\ result[n] = "ok" => Dispatched(n) = "validated"
         /\ result[n] = "preempted" /\ ~MayRetry(n) => Dispatched(n) = "preemptive_termination"
         /\ result[n] = "raises" /\ ~MayRetry(n) =>
              Dispatched(n) = IF setup.on_error = "record" THEN "crash" ELSE "escaped"
         /\ result[n] = "escapes" => Dispatched(n) = "escaped"
<1>1. PICK k \in Nat : k = tries[n] /\ k >= 1 /\ k <= MaxAttempts
  BY WorkerTypes DEF Works, Attempted
<1>2. PICK f \in Nat : f = setup.fate[n].fails
  BY WorkerTypes, SetupTypes
<1>3. PICK h \in {"raises", "preempted", "escapes"} : h = setup.fate[n].how
  BY WorkerTypes, SetupTypes
<1>4. result[n] = IF k <= f THEN h ELSE "ok"
  BY <1>1, <1>2, <1>3, WorkerTypes DEF Works, Ending, AttemptEnds
<1>5. k = 1 \/ (k - 1 <= f /\ ((h = "preempted" /\ k = 2) \/ (h = "raises" /\ setup.on_error = "record")))
  BY <1>1, <1>2, <1>3, WorkerTypes DEF Works, Attempted
<1>6. MaxAttempts \in Nat /\ setup.on_error \in {"raise", "record"}
  BY WorkerTypes, SetupTypes
<1>7. PICK b \in Nat : b = IF h = "preempted" THEN IF MaxAttempts > 1 THEN 2 ELSE 1
                           ELSE IF h = "raises" /\ setup.on_error = "record" THEN MaxAttempts ELSE 1
  BY <1>6
<1>8. Dispatched(n) = IF f < b THEN "validated"
                      ELSE CASE h = "preempted" -> "preemptive_termination"
                             [] h = "raises" -> IF setup.on_error = "record" THEN "crash" ELSE "escaped"
                             [] h = "escapes" -> "escaped"
  BY <1>2, <1>3, <1>7 DEF Dispatched
<1>9. MayRetry(n) <=> /\ k < MaxAttempts
                      /\ \/ result[n] = "preempted" /\ k = 1
                         \/ result[n] = "raises" /\ setup.on_error = "record"
  BY <1>1 DEF MayRetry
<1>10. ASSUME result[n] = "ok" PROVE Dispatched(n) = "validated"
  <2>1. f < k
    BY <1>4, <1>10
  <2>2. k <= b
    BY <1>1, <1>5, <1>6, <1>7
  <2>3. QED
    BY <1>8, <2>1, <2>2
<1>11. ASSUME result[n] # "ok" PROVE result[n] = h /\ k <= f
  BY <1>4, <1>11
<1>12. ASSUME result[n] = "preempted", ~MayRetry(n) PROVE Dispatched(n) = "preemptive_termination"
  <2>1. h = "preempted" /\ k <= f
    BY <1>11, <1>12
  <2>2. b <= k
    BY <1>1, <1>5, <1>6, <1>7, <1>9, <1>12, <2>1
  <2>3. QED
    BY <1>8, <2>1, <2>2
<1>13. ASSUME result[n] = "raises", ~MayRetry(n)
       PROVE  Dispatched(n) = IF setup.on_error = "record" THEN "crash" ELSE "escaped"
  <2>1. h = "raises" /\ k <= f
    BY <1>11, <1>13
  <2>2. b <= k
    BY <1>1, <1>5, <1>6, <1>7, <1>9, <1>13, <2>1
  <2>3. QED
    BY <1>8, <2>1, <2>2
<1>14. ASSUME result[n] = "escapes" PROVE Dispatched(n) = "escaped"
  <2>1. h = "escapes" /\ k <= f
    BY <1>11, <1>14
  <2>2. b = 1 /\ ~(f < b)
    BY <1>1, <1>7, <2>1
  <2>3. QED
    BY <1>8, <2>1, <2>2
<1>15. QED
  BY <1>10, <1>12, <1>13, <1>14

LEMMA RetryRuns ==
  ASSUME RInv, IInv', NEW n \in Node, Retry(n)
  PROVE  RInv'
<1>1. /\ worker[n] = "settling" /\ MayRetry(n)
      /\ UNCHANGED <<setup, supVars, written, result, reasons, cancelling>>
      /\ tries' = [tries EXCEPT ![n] = tries[n] + 1] /\ worker' = [worker EXCEPT ![n] = "attempt"]
  BY DEF Retry, regVars
<1>2. /\ worker'[n] = "attempt" /\ tries'[n] = tries[n] + 1
      /\ \A m \in Node : m # n => worker'[m] = worker[m] /\ tries'[m] = tries[m]
  BY <1>1, WorkerTypes DEF Shapes, IInv, Workers
<1>3. PICK k \in Nat : k = tries[n] /\ k >= 1 /\ k + 1 <= MaxAttempts
  BY <1>1, WorkerTypes DEF Works, Attempted, MayRetry
<1>4. Shapes'
  <2>1. tries[n] + 1 \in 0..MaxAttempts
    BY <1>3, WorkerTypes
  <2>2. QED
    BY <1>1, <2>1, WorkerTypes DEF Shapes
<1>5. result[n] = AttemptEnds(n, k) /\ written[n] = <<>>
  BY <1>1, <1>3, WorkerTypes DEF Works, Ending, MayRetry
<1>6. PICK f \in Nat : f = setup.fate[n].fails
  BY WorkerTypes, SetupTypes
<1>7. /\ k <= f /\ setup.fate[n].how = result[n]
      /\ \/ result[n] = "preempted" /\ k = 1
         \/ result[n] = "raises" /\ setup.on_error = "record"
  BY <1>1, <1>3, <1>5, <1>6 DEF AttemptEnds, MayRetry
<1>8. Attempted(n)'
  <2>1. tries'[n] \in 1..MaxAttempts /\ tries'[n] - 1 <= f
    BY <1>2, <1>3, <1>6, <1>7, WorkerTypes
  <2>2. result[n] = "preempted" => tries'[n] = 2
    BY <1>2, <1>3, <1>7
  <2>3. setup'.fate[n].fails = f /\ setup'.fate[n].how = result[n] /\ setup'.on_error = setup.on_error
    BY <1>1, <1>6, <1>7
  <2>4. QED
    BY <1>7, <2>1, <2>2, <2>3 DEF Attempted
<1>9. Works(n)'
  BY <1>1, <1>2, <1>5, <1>8 DEF Works
<1>10. QED
  BY <1>1, <1>2, <1>4, <1>9, WorkerKeeps

\* A worker is done, with at most one record and perhaps an escaped exception.
LEMMA ResolveRuns ==
  ASSUME RInv, IInv', NEW n \in Node, worker[n] = "settling", Resolve(n),
         UNCHANGED <<setup, supVars, tries, reasons, cancelling>>,
         \/ /\ result' = result /\ result[n] # "escaped"
            /\ \/ Dispatched(n) # "escaped" /\ Write(n, Dispatched(n))
               \/ n \in reasons /\ Write(n, "futility_cancelled")
         \/ /\ result' = [result EXCEPT ![n] = "escaped"]
            /\ written' = written /\ Dispatched(n) = "escaped"
  PROVE  RInv'
<1>1. /\ worker' = [worker EXCEPT ![n] = "done"] /\ written[n] = <<>>
  BY WorkerTypes DEF Resolve, Works
<1>2. /\ worker'[n] = "done"
      /\ \A m \in Node : m # n => worker'[m] = worker[m]
  BY <1>1, WorkerTypes DEF IInv, Workers
<1>3. PICK C : C = {"validated", "crash", "hold", "futility_cancelled", "preemptive_termination"}
  OBVIOUS
<1>4. Dispatched(n) # "escaped" => Dispatched(n) \in C
  BY <1>3, WorkerTypes, DispatchedClass
<1>5. \A c \in C : Append(written[n], c) = <<c>> /\ <<c>> \in Seq(C)
  BY <1>1
<1>6. \/ /\ result' = result /\ result[n] # "escaped"
         /\ \/ Dispatched(n) # "escaped" /\ written' = [written EXCEPT ![n] = <<Dispatched(n)>>]
            \/ n \in reasons /\ written' = [written EXCEPT ![n] = <<"futility_cancelled">>]
      \/ /\ result' = [result EXCEPT ![n] = "escaped"]
         /\ written' = written /\ Dispatched(n) = "escaped"
  BY <1>3, <1>4, <1>5 DEF Write
<1>7. Shapes'
  <2>1. written \in [Node -> Seq(C)]
    BY <1>3, WorkerTypes DEF Shapes
  <2>2. written' \in [Node -> Seq(C)]
    BY <1>3, <1>4, <1>5, <1>6, <2>1
  <2>3. QED
    BY <1>3, <1>6, <2>2, WorkerTypes DEF Shapes
<1>8. \A m \in Node : m # n => written'[m] = written[m] /\ result'[m] = result[m]
  BY <1>6, WorkerTypes DEF Shapes
<1>9. Settled(n)'
  <2>1. Dispatched(n)' = Dispatched(n)
    BY SerialStays
  <2>2. \/ /\ result'[n] # "escaped"
           /\ \/ Dispatched(n) # "escaped" /\ written'[n] = <<Dispatched(n)>>
              \/ n \in reasons /\ written'[n] = <<"futility_cancelled">>
        \/ result'[n] = "escaped" /\ written'[n] = <<>> /\ Dispatched(n) = "escaped"
    BY <1>1, <1>6, WorkerTypes DEF Shapes
  <2>3. QED
    BY <2>1, <2>2 DEF Settled
<1>10. Works(n)'
  BY <1>2, <1>9 DEF Works
<1>11. \A m \in Node : m # n => tries'[m] = tries[m]
  OBVIOUS
<1>12. QED
  BY <1>2, <1>7, <1>8, <1>10, <1>11, WorkerKeeps

LEMMA SettlesRun ==
  ASSUME RInv, IInv', NEW n \in Node, Admit(n) \/ RecordFailure(n) \/ Escape(n)
  PROVE  RInv'
<1>1. /\ worker[n] = "settling" /\ Resolve(n)
      /\ UNCHANGED <<setup, supVars, tries, reasons, cancelling>>
  BY DEF Admit, RecordFailure, Escape, regVars
<1>2. result[n] = "cancelled" => n \in reasons
  BY <1>1, WorkerTypes, SetupTypes DEF Works, Ending, AttemptEnds
<1>3. CASE Admit(n)
  <2>1. result[n] = "ok" /\ Write(n, "validated") /\ result' = result
    BY <1>3 DEF Admit
  <2>2. Dispatched(n) = "validated"
    BY <1>1, <2>1, VerdictIsFate
  <2>3. QED
    BY <1>1, <2>1, <2>2, ResolveRuns
<1>4. CASE RecordFailure(n)
  <2>1. /\ result' = result /\ ~MayRetry(n)
        /\ \/ result[n] = "cancelled" /\ Write(n, "futility_cancelled")
           \/ result[n] = "preempted" /\ Write(n, "preemptive_termination")
           \/ result[n] = "raises" /\ setup.on_error = "record" /\ Write(n, "crash")
    BY <1>4 DEF RecordFailure
  <2>2. \/ result[n] = "cancelled" /\ Write(n, "futility_cancelled")
        \/ Dispatched(n) # "escaped" /\ Write(n, Dispatched(n))
    BY <1>1, <2>1, VerdictIsFate
  <2>3. QED
    BY <1>1, <1>2, <2>1, <2>2, ResolveRuns
<1>5. CASE Escape(n)
  <2>1. /\ result' = [result EXCEPT ![n] = "escaped"] /\ written' = written
        /\ result[n] = "escapes" \/ (result[n] = "raises" /\ setup.on_error = "raise")
    BY <1>5 DEF Escape
  <2>2. Dispatched(n) = "escaped"
    BY <1>1, <2>1, VerdictIsFate DEF MayRetry
  <2>3. QED
    BY <1>1, <2>1, <2>2, ResolveRuns
<1>6. QED
  BY <1>3, <1>4, <1>5

-----------------------------------------------------------------------------
(* The steps of the supervisor's thread *)

\* A node seen to end without an exception has its serial record, or was condemned.
LEMMA SeenAsSerial ==
  ASSUME RInv, NEW n \in dispatched, n \notin in_flight, n \notin errors
  PROVE  /\ n \in Node /\ worker[n] = "done" /\ result[n] # "escaped"
         /\ \/ Serial[n] # "escaped" /\ written[n] = <<Serial[n]>>
            \/ n \in reasons /\ written[n] = <<"futility_cancelled">>
<1>1. n \in Node /\ worker[n] = "done" /\ result[n] # "escaped" /\ Runnable(n)
  BY DEF RInv, IInv, Workers, Observed, Collected, Ran
<1>2. Serial[n] = Dispatched(n)
  BY <1>1, WorkerTypes, RunnableFacts
<1>3. Settled(n)
  BY <1>1, WorkerTypes DEF Works
<1>4. QED
  BY <1>1, <1>2, <1>3 DEF Settled

LEMMA WaveIsRunnable ==
  ASSUME RInv, pc # "returned", NEW n \in Wave
  PROVE  n \in Node \ dispatched /\ Runnable(n)
<1>1. n \in Node \ dispatched /\ n \notin setup.done /\ n \notin setup.held
      /\ setup.wiring[n] \subseteq Completed
  BY DEF Wave, Open, Completed
<1>2. setup.wiring[n] \subseteq Node
  BY <1>1, WorkerTypes, SetupTypes
<1>3. \A p \in setup.wiring[n] : Serial[p] \in Good
  BY <1>1, <1>2, CompletedFacts
<1>4. QED
  BY <1>1, <1>3 DEF Runnable

\* Without cancellation a wave is the next layer of the plan.
LEMMA WaveIsLayer ==
  ASSUME RInv, pc = "wave", ~setup.cancel_futile, NEW d \in Nat,
         dispatched = {n \in Node : Runnable(n) /\ Depth[n] < d}
  PROVE  Wave = {n \in Node : Runnable(n) /\ Depth[n] = d}
<1>1. SetupOK /\ in_flight = {} /\ errors = {}
  BY DEF RInv, IInv, Drained, Collected
<1>2. \A n \in Node : Depth[n] \in Nat /\ (Runnable(n) => n \notin setup.done)
  BY <1>1, DepthFacts DEF Runnable
<1>3. ASSUME NEW n \in Wave
      PROVE  n \in Node /\ Runnable(n) /\ Depth[n] = d
  <2>1. n \in Node \ dispatched /\ Runnable(n)
    BY WaveIsRunnable
  <2>2. ~(Depth[n] < d)
    BY <2>1
  <2>3. CASE Rest(n) = {}
    BY <1>1, <1>2, <2>1, <2>2, <2>3, DepthFacts
  <2>4. CASE Rest(n) # {}
    <3>1. PICK p \in Rest(n) : Depth[n] = Depth[p] + 1
      BY <1>1, <1>2, <2>1, <2>4, DepthFacts
    <3>2. p \in Node /\ p \in Completed /\ p \notin setup.done
      BY <1>1, <2>1, <3>1, SetupTypes DEF Rest, Wave
    <3>3. p \in dispatched
      BY <3>2, CompletedFacts
    <3>4. Depth[p] < d
      BY <3>3
    <3>5. QED
      BY <1>2, <2>1, <2>2, <3>1, <3>2, <3>4
  <2>5. QED
    BY <2>3, <2>4
<1>4. ASSUME NEW n \in Node, Runnable(n), Depth[n] = d
      PROVE  n \in Wave
  <2>1. n \notin dispatched /\ n \notin setup.done /\ n \notin setup.held
    BY <1>2, <1>4 DEF Runnable
  <2>2. n \notin Completed
    BY <1>4, <2>1, CompletedFacts
  <2>3. ASSUME NEW p \in setup.wiring[n], p \notin setup.done
        PROVE  p \in Completed
    <3>1. p \in Node /\ p \in Rest(n) /\ Serial[p] \in Good
      BY <1>1, <1>4, <2>3, SetupTypes DEF Rest, Runnable
    <3>2. Serial[p] # "done"
      BY <1>1, <2>3, <3>1, SerialUnfolds, DispatchedClass
    <3>3. Serial[p] = "validated" /\ Runnable(p)
      BY <1>1, <3>1, <3>2, RunnableFacts DEF Good
    <3>4. Depth[p] < d
      BY <1>1, <1>4, <2>1, <3>1, DepthFacts
    <3>5. p \in dispatched
      BY <3>1, <3>3, <3>4
    <3>6. p \notin reasons
      BY DEF RInv, Condemned, Excused
    <3>7. written[p] = <<"validated">>
      BY <1>1, <3>3, <3>5, <3>6, SeenAsSerial
    <3>8. QED
      BY <3>1, <3>7, CompletedFacts
  <2>4. setup.wiring[n] \subseteq Completed
    BY <2>3 DEF Completed
  <2>5. QED
    BY <1>4, <2>1, <2>2, <2>4 DEF Wave, Open
<1>5. QED
  BY <1>3, <1>4

LEMMA SubmitWaveRuns ==
  ASSUME RInv, IInv', SubmitWave
  PROVE  RInv'
<1>1. /\ pc = "wave" /\ pc' = "drain"
      /\ dispatched' = dispatched \cup Wave /\ in_flight' = Wave
      /\ worker' = [n \in Node |-> IF n \in Wave THEN "queued" ELSE worker[n]]
      /\ UNCHANGED <<setup, written, errors, targets, handle, tries, result, reasons, cancelling>>
  BY DEF SubmitWave, regVars
<1>2. in_flight = {} /\ errors = {} /\ targets = {}
  BY <1>1 DEF RInv, IInv, Drained, Collected, Condemned
<1>3. SetupOK' /\ \A m : (Runnable(m)' <=> Runnable(m)) /\ (Doomed(m)' <=> Doomed(m))
  BY <1>1, SetupStays DEF RInv
<1>4. \A n \in Wave : n \in Node \ dispatched /\ Runnable(n)
  BY <1>1, WaveIsRunnable
<1>5. Shapes'
  BY <1>1 DEF RInv, Shapes
<1>6. ASSUME NEW n \in Node
      PROVE  Works(n)'
  <2>1. Works(n) /\ (n \in Wave => worker[n] = "none")
    BY <1>4 DEF RInv, IInv, Idle
  <2>2. worker'[n] = IF n \in Wave THEN "queued" ELSE worker[n]
    BY <1>1
  <2>3. /\ Attempted(n)' <=> Attempted(n)
        /\ Ending(n)' <=> Ending(n)
        /\ Settled(n)' <=> Settled(n)
    BY <1>1, SerialStays DEF Attempted, Ending, AttemptEnds, Settled
  <2>4. QED
    BY <1>1, <2>1, <2>2, <2>3 DEF Works
<1>7. Condemned'
  BY <1>1, <1>2, <1>3 DEF RInv, Condemned, Excused
<1>8. Collected'
  BY <1>1, <1>2, <1>4 DEF RInv, Collected
<1>9. Ran'
  BY <1>1, <1>3, <1>4 DEF RInv, Ran
<1>10. Layered'
  <2>1. SUFFICES ASSUME ~setup.cancel_futile PROVE Layered'
    BY <1>1 DEF Layered
  <2>2. PICK d \in Nat : dispatched = {n \in Node : Runnable(n) /\ Depth[n] < d}
    BY <2>1 DEF RInv, Layered
  <2>3. Wave = {n \in Node : Runnable(n) /\ Depth[n] = d}
    BY <1>1, <2>1, <2>2, WaveIsLayer
  <2>4. \A n \in Node : Depth[n] \in Nat
    BY DepthFacts DEF RInv
  <2>5. PICK e \in Nat : e = d + 1
    OBVIOUS
  <2>6. dispatched' = {n \in Node : Runnable(n) /\ Depth[n] < e}
    <3>1. \A n \in Node : Depth[n] < e <=> Depth[n] < d \/ Depth[n] = d
      BY <2>4, <2>5
    <3>2. QED
      BY <1>1, <2>2, <2>3, <3>1
  <2>7. \A n \in in_flight' \cup errors' : Depth[n] + 1 = e
    BY <1>1, <1>2, <2>3, <2>4, <2>5
  <2>8. QED
    BY <1>1, <1>3, <2>6, <2>7, SerialStays DEF Layered
<1>11. Final'
  BY <1>1 DEF Final
<1>12. QED
  BY <1>3, <1>5, <1>6, <1>7, <1>8, <1>9, <1>10, <1>11 DEF RInv

\* The steps of the supervisor that neither dispatch, observe nor write: what
\* is left to show is about the condemned and the errors.
LEMMA SupervisorRuns ==
  ASSUME RInv, IInv', Condemned', Collected', pc' # "returned", pc # "returned",
         UNCHANGED <<setup, written, in_flight, dispatched, errors, workVars>>,
         reasons \subseteq reasons'
  PROVE  RInv'
<1>1. UNCHANGED <<worker, tries, result>>
  BY DEF workVars
<1>2. SetupOK' /\ \A m : (Runnable(m)' <=> Runnable(m)) /\ (Doomed(m)' <=> Doomed(m))
  BY SetupStays DEF RInv
<1>3. Shapes'
  BY <1>1 DEF RInv, Shapes
<1>4. ASSUME NEW n \in Node
      PROVE  Works(n)'
  <2>1. Works(n)
    BY DEF RInv
  <2>2. /\ Attempted(n)' <=> Attempted(n)
        /\ Ending(n) => Ending(n)'
        /\ Settled(n) => Settled(n)'
    BY <1>1, SerialStays DEF Attempted, Ending, AttemptEnds, Settled
  <2>3. QED
    BY <1>1, <2>1, <2>2 DEF Works
<1>5. Ran'
  BY <1>2 DEF RInv, Ran
<1>6. Layered'
  BY <1>2, SerialStays DEF RInv, Layered
<1>7. Final'
  BY DEF Final
<1>8. QED
  BY <1>2, <1>3, <1>4, <1>5, <1>6, <1>7 DEF RInv

LEMMA SupervisorMoves ==
  ASSUME RInv, IInv', NoWave \/ WaveDrained \/ Break \/ DeliverToClosedLoop
  PROVE  RInv'
<1>1. UNCHANGED <<setup, written, in_flight, dispatched, errors, worker, tries, result, workVars,
                  reasons, cancelling>>
  BY DEF NoWave, WaveDrained, Break, DeliverToClosedLoop, workVars, regVars
<1>2. pc # "returned" /\ pc' # "returned"
  <2>1. handle # NoHandle => pc # "returned"
    BY DEF RInv, Condemned
  <2>2. QED
    BY <2>1 DEF NoWave, WaveDrained, Break, DeliverToClosedLoop
<1>3. Condemned'
  BY <1>1, SetupStays DEF NoWave, WaveDrained, Break, DeliverToClosedLoop, RInv, Condemned, Excused
<1>4. Collected'
  <2>1. Wave' = Wave
    BY <1>1 DEF Wave, Open, Completed
  <2>2. QED
    BY <1>1, <2>1 DEF NoWave, WaveDrained, Break, DeliverToClosedLoop, RInv, Collected
<1>5. QED
  BY <1>1, <1>2, <1>3, <1>4, SupervisorRuns

\* A node seen to end without an output condemns those nobody can consume
\* any more; one seen to escape condemns all, and the run will raise.
LEMMA ObserveRuns ==
  ASSUME RInv, IInv', NEW n \in Node, Observe(n)
  PROVE  RInv'
<1>1. /\ pc = "drain" /\ targets = {} /\ handle = NoHandle
      /\ n \in in_flight /\ worker[n] = "done"
      /\ in_flight' = in_flight \ {n}
      /\ errors' = IF result[n] = "escaped" THEN errors \cup {n} ELSE errors
      /\ targets' = IF ~setup.cancel_futile \/ n \in Completed THEN {}
                    ELSE IF result[n] = "escaped" THEN in_flight'
                    ELSE FutilityClosure(n, in_flight')
      /\ UNCHANGED <<setup, written, pc, dispatched, handle, worker, tries, result, reasons, cancelling>>
  BY DEF Observe, workVars, regVars
<1>2. SetupOK' /\ \A m : (Runnable(m)' <=> Runnable(m)) /\ (Doomed(m)' <=> Doomed(m))
  BY <1>1, SetupStays DEF RInv
<1>3. n \in dispatched /\ Runnable(n) /\ n \notin errors /\ Settled(n) /\ SetupOK
  BY <1>1 DEF RInv, Collected, Ran, Works
<1>4. Shapes' /\ Ran' /\ Final'
  BY <1>1, <1>2 DEF RInv, Shapes, Ran, Final
<1>5. ASSUME NEW m \in Node
      PROVE  Works(m)'
  <2>1. Works(m)
    BY DEF RInv
  <2>2. /\ Attempted(m)' <=> Attempted(m)
        /\ Ending(m)' <=> Ending(m)
        /\ Settled(m)' <=> Settled(m)
    BY <1>1, SerialStays DEF Attempted, Ending, AttemptEnds, Settled
  <2>3. QED
    BY <1>1, <2>1, <2>2 DEF Works
<1>6. ASSUME NEW t \in targets', errors' = {}, PlanKept
      PROVE  Doomed(t)
  <2>1. result[n] # "escaped" /\ n \notin Completed /\ t \in FutilityClosure(n, in_flight')
    BY <1>1, <1>6
  <2>2. Consumers(n) \subseteq Stuck
    <3>1. CASE written[n] = <<Dispatched(n)>>
      <4>1. Serial[n] = Dispatched(n) /\ Serial[n] # "done"
        BY <1>3, RunnableFacts
      <4>2. written[n] # <<"validated">>
        BY <1>1, <2>1, CompletedFacts
      <4>3. Serial[n] \notin Good
        BY <3>1, <4>1, <4>2 DEF Good
      <4>4. QED
        BY <1>3, <1>6, <4>3, StuckBelow
    <3>2. CASE n \in reasons
      <4>1. errors = {}
        BY <1>1, <1>6
      <4>2. QED
        BY <1>6, <3>2, <4>1 DEF RInv, Condemned, Excused, Doomed
    <3>3. QED
      BY <1>3, <2>1, <3>1, <3>2 DEF Settled
  <2>3. QED
    BY <1>3, <1>6, <2>1, <2>2, ClosureIsDoomed
<1>7. Condemned'
  <2>1. targets' \subseteq in_flight'
    BY <1>1 DEF FutilityClosure
  <2>2. targets' # {} => setup.cancel_futile
    BY <1>1
  <2>3. \A m \in targets' : Excused(m)'
    BY <1>1, <1>2, <1>6, <2>2 DEF Excused
  <2>4. \A m \in reasons : Excused(m)'
    BY <1>1, <1>2 DEF RInv, Condemned, Excused
  <2>5. QED
    BY <1>1, <2>1, <2>3, <2>4 DEF RInv, Condemned
<1>8. Collected'
  BY <1>1, <1>3 DEF RInv, Collected
<1>9. Layered'
  <2>1. in_flight' \cup errors' \subseteq in_flight \cup errors
    BY <1>1
  <2>2. QED
    BY <1>1, <1>2, <2>1, SerialStays DEF RInv, Layered
<1>10. QED
  BY <1>2, <1>4, <1>5, <1>7, <1>8, <1>9 DEF RInv

LEMMA CondemnRuns ==
  ASSUME RInv, IInv', NEW n \in Node, Condemn(n)
  PROVE  RInv'
<1>1. /\ n \in targets /\ handle = NoHandle
      /\ targets' = targets \ {n} /\ reasons' = reasons \cup {n}
      /\ handle' = IF n \in tokens THEN <<n, tries[n]>> ELSE NoHandle
      /\ UNCHANGED <<setup, written, pc, in_flight, dispatched, errors, workVars, cancelling>>
  BY DEF Condemn
<1>2. pc = "drain"
  BY <1>1 DEF RInv, Condemned
<1>3. \A m : Doomed(m)' <=> Doomed(m)
  BY <1>1, SetupStays
<1>4. n \in tokens => tries[n] \in 1..MaxAttempts
  BY WorkerTypes DEF IInv, Registered, Works, Attempted
<1>5. Condemned'
  <2>1. targets' \subseteq in_flight' /\ reasons' \subseteq Node /\ cancelling' \subseteq reasons'
    BY <1>1 DEF RInv, Condemned
  <2>2. \A m \in reasons' \cup targets' : Excused(m)'
    BY <1>1, <1>3 DEF RInv, Condemned, Excused
  <2>3. handle' # NoHandle => handle' \in Node \X (1..MaxAttempts) /\ handle'[1] \in reasons'
    BY <1>1, <1>4
  <2>4. QED
    BY <1>1, <1>2, <2>1, <2>2, <2>3 DEF Condemned
<1>6. Collected'
  BY <1>1, <1>2 DEF RInv, Collected, workVars
<1>7. QED
  BY <1>1, <1>2, <1>5, <1>6, SupervisorRuns

LEMMA DeliverRuns ==
  ASSUME RInv, IInv', Deliver
  PROVE  RInv'
<1>1. /\ handle # NoHandle /\ handle' = NoHandle
      /\ cancelling' \subseteq cancelling \cup {handle[1]}
      /\ UNCHANGED <<setup, written, pc, in_flight, dispatched, errors, targets, workVars, reasons>>
  BY DEF Deliver
<1>2. pc = "drain"
  BY <1>1 DEF RInv, Condemned
<1>3. \A m : Doomed(m)' <=> Doomed(m)
  BY <1>1, SetupStays
<1>4. Condemned'
  BY <1>1, <1>2, <1>3 DEF RInv, Condemned, Excused
<1>5. Collected'
  BY <1>1, <1>2 DEF RInv, Collected, workVars
<1>6. QED
  BY <1>1, <1>2, <1>4, <1>5, SupervisorRuns

\* When no wave is left, the nodes still open are those the serial pass blocks.
LEMMA OpenIsHold ==
  ASSUME RInv, pc = "blocked", setup.cancel_futile => PlanKept, NEW n \in Open
  PROVE  Serial[n] = "hold"
<1> DEFINE T == {m \in Open : Serial[m] # "hold"}
<1>1. SUFFICES ASSUME T # {} PROVE FALSE
  OBVIOUS
<1>2. SetupOK /\ in_flight = {} /\ errors = {} /\ Wave = {}
  BY DEF RInv, IInv, Drained, Collected
<1>3. T \subseteq Nat
  BY <1>2, SetupTypes DEF Open
<1>4. PICK t \in T : \A m \in T : t <= m
  BY <1>1, <1>3, Least
<1>5. t \in Node /\ t \notin Completed /\ t \notin setup.done /\ t \notin setup.held /\ t \notin dispatched
  BY <1>4 DEF Open, Completed
<1>6. \A p \in setup.wiring[t] : Serial[p] \in Good
  BY <1>2, <1>4, <1>5, SerialUnfolds
<1>7. PICK p \in setup.wiring[t] : p \notin Completed
  BY <1>2, <1>4, <1>5 DEF Wave
<1>8. p \in Node /\ p < t /\ p \in Nat /\ t \in Nat /\ p \notin setup.done
  BY <1>2, <1>5, <1>7, SetupTypes DEF Completed
<1>9. Serial[p] = "validated"
  <2>1. Serial[p] # "done"
    BY <1>2, <1>8, SerialUnfolds, DispatchedClass
  <2>2. QED
    BY <1>6, <1>7, <2>1 DEF Good
<1>10. Runnable(p)
  BY <1>2, <1>8, <1>9, RunnableFacts
<1>11. CASE p \in dispatched
  <2>1. p \in reasons
    BY <1>2, <1>7, <1>8, <1>9, <1>11, SeenAsSerial, CompletedFacts
  <2>2. Doomed(p)
    BY <1>2, <2>1 DEF RInv, Condemned, Excused
  <2>3. t \in Stuck
    BY <1>5, <1>7, <2>2 DEF Doomed, Consumers
  <2>4. Serial[t] = "held"
    BY <1>4, <2>3 DEF Stuck
  <2>5. QED
    BY <1>2, <1>5, <2>4, SerialUnfolds, DispatchedClass
<1>12. CASE p \notin dispatched
  <2>1. p \in Open
    BY <1>7, <1>8, <1>10, <1>12 DEF Open, Runnable
  <2>2. p \in T
    BY <1>9, <2>1
  <2>3. t <= p
    BY <1>4, <2>2
  <2>4. QED
    BY <1>8, <2>3
<1>13. QED
  BY <1>11, <1>12

\* The blocked remainder gets its records, and the run returns: every node has
\* the record of the serial pass, or was cut short and nobody misses it.
LEMMA RecordRemainderRuns ==
  ASSUME RInv, IInv', RecordRemainder
  PROVE  RInv'
<1>1. /\ pc = "blocked" /\ pc' = "returned"
      /\ written' = [n \in Node |-> IF n \in Remainder THEN Append(written[n], "hold") ELSE written[n]]
      /\ UNCHANGED <<setup, in_flight, dispatched, errors, targets, handle, worker, tries, result,
                     reasons, cancelling>>
  BY DEF RecordRemainder, workVars, regVars
<1>2. SetupOK' /\ \A m : (Runnable(m)' <=> Runnable(m)) /\ (Doomed(m)' <=> Doomed(m))
  BY <1>1, SetupStays DEF RInv
<1>3. SetupOK /\ in_flight = {} /\ errors = {} /\ Wave = {}
  BY <1>1 DEF RInv, IInv, Drained, Collected
<1>4. Remainder = Open
  BY <1>3 DEF Remainder, Wave
<1>5. /\ \A n \in Open : n \in Node /\ n \notin dispatched
      /\ \A n \in Node : n \notin dispatched => worker[n] = "none" /\ written[n] = <<>>
  BY <1>1 DEF Open, RInv, IInv, Idle, Works
<1>6. \A n \in Node : written'[n] = IF n \in Open THEN <<"hold">> ELSE written[n]
  <2>1. Append(<<>>, "hold") = <<"hold">>
    OBVIOUS
  <2>2. \A n \in Open : written[n] = <<>>
    BY <1>5
  <2>3. \A n \in Node : written'[n] = IF n \in Open THEN Append(written[n], "hold") ELSE written[n]
    BY <1>1, <1>4
  <2>4. QED
    BY <2>1, <2>2, <2>3
<1>7. Shapes'
  BY <1>1 DEF RInv, Shapes
<1>8. ASSUME NEW n \in Node
      PROVE  Works(n)'
  <2>1. Works(n) /\ (worker[n] # "none" => written'[n] = written[n])
    BY <1>5, <1>6 DEF RInv
  <2>2. /\ Attempted(n)' <=> Attempted(n)
        /\ Ending(n)' <=> Ending(n)
        /\ worker[n] = "done" => (Settled(n)' <=> Settled(n))
    BY <1>1, <2>1, SerialStays DEF Attempted, Ending, AttemptEnds, Settled
  <2>3. QED
    BY <1>1, <2>1, <2>2 DEF Works
<1>9. Condemned'
  BY <1>1, <1>2 DEF RInv, Condemned, Excused
<1>10. Collected'
  BY <1>1, <1>3 DEF RInv, Collected
<1>11. Ran' /\ Layered'
  BY <1>1, <1>2, SerialStays DEF RInv, Ran, Layered
<1>12. ASSUME setup.cancel_futile => PlanKept, NEW n \in Node
       PROVE  \/ written'[n] = Recorded(Serial[n])
              \/ /\ setup.cancel_futile
                 /\ written'[n] = <<"futility_cancelled">>
                 /\ Doomed(n)
  <2>1. CASE n \in Open
    BY <1>1, <1>6, <1>12, <2>1, OpenIsHold DEF Recorded
  <2>2. CASE n \in dispatched
    <3>1. written'[n] = written[n]
      BY <1>5, <1>6, <2>2
    <3>2. CASE n \in reasons
      BY <1>3, <1>12, <3>1, <3>2, SeenAsSerial, <2>2, RunnableFacts
      DEF RInv, Condemned, Excused, Ran, Recorded
    <3>3. CASE n \notin reasons
      <4>1. Serial[n] \in {"validated", "preemptive_termination", "crash"} /\ written[n] = <<Serial[n]>>
        BY <1>3, <2>2, <3>3, SeenAsSerial, RunnableFacts DEF RInv, Ran
      <4>2. QED
        BY <3>1, <4>1 DEF Recorded
    <3>4. QED
      BY <3>2, <3>3
  <2>3. CASE n \notin Open /\ n \notin dispatched
    <3>1. n \in setup.done \/ n \in setup.held
      BY <1>1, <2>3, CompletedFacts DEF Open
    <3>2. Serial[n] \in {"done", "held"}
      BY <1>3, <3>1, SerialUnfolds
    <3>3. QED
      BY <1>5, <1>6, <2>3, <3>2 DEF Recorded
  <2>4. QED
    BY <2>1, <2>2, <2>3
<1>13. Final'
  BY <1>1, <1>2, <1>12, SerialStays DEF Final, Recorded
<1>14. QED
  BY <1>2, <1>7, <1>8, <1>9, <1>10, <1>11, <1>13 DEF RInv

LEMMA InitRInv == Init => RInv
<1> SUFFICES ASSUME Init PROVE RInv
  OBVIOUS
<1>1. IInv
  BY InitIInv
<1>2. SetupOK
  BY DEF Init, SetupOK
<1>3. MaxAttempts \in Nat
  BY WaveAssumption
<1>4. Shapes
  BY <1>3 DEF Init, Shapes
<1>5. \A n \in Node : Works(n)
  BY DEF Init, Works
<1>6. Condemned /\ Collected /\ Ran /\ Final
  BY DEF Init, Condemned, Collected, Ran, Final
<1>7. Layered
  <2>1. 0 \in Nat /\ \A n \in Node : ~(Depth[n] < 0)
    BY <1>2, DepthFacts
  <2>2. QED
    BY <2>1 DEF Init, Layered
<1>8. QED
  BY <1>1, <1>2, <1>4, <1>5, <1>6, <1>7 DEF RInv

LEMMA NextRInv == RInv /\ [Next]_vars => RInv'
<1> SUFFICES ASSUME RInv, [Next]_vars PROVE RInv'
  OBVIOUS
<1>1. IInv'
  BY NextIInv DEF RInv
<1>2. CASE SupervisorStep
  BY <1>1, <1>2, SubmitWaveRuns, SupervisorMoves, RecordRemainderRuns, ObserveRuns, CondemnRuns,
     DeliverRuns DEF SupervisorStep
<1>3. ASSUME NEW n \in Node, WorkerStep(n) PROVE RInv'
  BY <1>1, <1>3, StartRuns, BeginRuns, EndsRun, LeavesRun, RetryRuns, SettlesRun DEF WorkerStep
<1>4. CASE UNCHANGED vars
  <2>1. UNCHANGED <<setup, written, pc, in_flight, dispatched, errors, targets, handle, worker, tries,
                    result, reasons, cancelling>>
    BY <1>4 DEF vars, supVars, workVars, regVars
  <2>2. SetupOK' /\ \A m : (Runnable(m)' <=> Runnable(m)) /\ (Doomed(m)' <=> Doomed(m))
    BY <2>1, SetupStays DEF RInv
  <2>3. Shapes' /\ Ran' /\ Condemned'
    BY <2>1, <2>2 DEF RInv, Shapes, Ran, Condemned, Excused
  <2>4. ASSUME NEW n \in Node
        PROVE  Works(n)'
    <3>1. Works(n)
      BY DEF RInv
    <3>2. /\ Attempted(n)' <=> Attempted(n)
          /\ Ending(n)' <=> Ending(n)
          /\ Settled(n)' <=> Settled(n)
      BY <2>1, SerialStays DEF Attempted, Ending, AttemptEnds, Settled
    <3>3. QED
      BY <2>1, <3>1, <3>2 DEF Works
  <2>5. Collected'
    <3>1. Wave' = Wave
      BY <2>1 DEF Wave, Open, Completed
    <3>2. QED
      BY <2>1, <3>1 DEF RInv, Collected
  <2>6. Layered' /\ Final'
    BY <2>1, <2>2, SerialStays DEF RInv, Layered, Final, Recorded
  <2>7. QED
    BY <1>1, <2>2, <2>3, <2>4, <2>5, <2>6 DEF RInv
<1>5. QED
  BY <1>2, <1>3, <1>4 DEF Next

\* Without cancellation the nodes that escape and were not reached lie deeper
\* than those whose exceptions were collected, all of one wave.
LEMMA EarliestIsRaised == RInv => RaisesEarliest
<1> SUFFICES ASSUME RInv, pc = "raised", ~setup.cancel_futile
             PROVE  /\ Raised \in Node /\ Serial[Raised] = "escaped"
                    /\ \A n \in Node : Serial[n] = "escaped" =>
                         \/ Depth[n] > Depth[Raised]
                         \/ Depth[n] = Depth[Raised] /\ n >= Raised
  BY DEF RaisesEarliest
<1>1. SetupOK /\ in_flight = {} /\ errors # {} /\ errors \subseteq dispatched /\ dispatched \subseteq Node
  BY DEF RInv, IInv, Workers, Drained, Collected
<1>2. errors \subseteq Nat
  BY <1>1, SetupTypes
<1>3. Raised \in errors /\ \A m \in errors : Raised <= m
  BY <1>1, <1>2, Least DEF Raised
<1>4. reasons = {}
  BY DEF RInv, Condemned, Excused
<1>5. ASSUME NEW n \in dispatched
      PROVE  n \in errors <=> Serial[n] = "escaped"
  <2>1. /\ n \in Node /\ Runnable(n) /\ worker[n] = "done"
        /\ n \in errors <=> result[n] = "escaped"
    BY <1>1 DEF RInv, IInv, Observed, Collected, Ran
  <2>2. Settled(n)
    BY <2>1 DEF RInv, Works
  <2>3. Serial[n] = Dispatched(n)
    BY <1>1, <2>1, RunnableFacts
  <2>4. QED
    BY <1>4, <2>1, <2>2, <2>3 DEF Settled
<1>6. PICK d \in Nat : /\ dispatched = {n \in Node : Runnable(n) /\ Depth[n] < d}
                       /\ \A n \in errors : Depth[n] + 1 = d
  BY DEF RInv, Layered
<1>7. \A n \in Node : Depth[n] \in Nat /\ n \in Nat
  BY <1>1, DepthFacts, SetupTypes
<1>8. ASSUME NEW n \in Node, Serial[n] = "escaped"
      PROVE  \/ Depth[n] > Depth[Raised]
             \/ Depth[n] = Depth[Raised] /\ n >= Raised
  <2>1. Runnable(n)
    BY <1>1, <1>8, RunnableFacts
  <2>2. Depth[Raised] + 1 = d /\ Depth[Raised] \in Nat /\ Raised \in Nat
    BY <1>1, <1>3, <1>6, <1>7
  <2>3. CASE n \in dispatched
    <3>1. n \in errors
      BY <1>5, <1>8, <2>3
    <3>2. Depth[n] + 1 = d /\ Raised <= n
      BY <1>3, <1>6, <3>1
    <3>3. QED
      BY <1>7, <2>2, <3>2
  <2>4. CASE n \notin dispatched
    <3>1. ~(Depth[n] < d)
      BY <1>6, <2>1, <2>4
    <3>2. QED
      BY <1>7, <2>2, <3>1
  <2>5. QED
    BY <2>3, <2>4
<1>9. QED
  BY <1>1, <1>3, <1>5, <1>8

\* The order in which the futures of a wave resolve shows nowhere in a run
\* without cancellation: when it returns the store holds what the serial pass
\* writes, and when it raises the exception is the first node's, in plan order,
\* of the first wave in which one escapes (_run_parallel).
THEOREM ParallelIsSerial == Spec => []EndsAsSerial
<1>1. RInv => EndsAsSerial
  <2> SUFFICES ASSUME RInv PROVE EndsAsSerial
    OBVIOUS
  <2>1. TypeOK
    BY DEF RInv, IInv, Workers, Registered, Scheduled, Shapes, Condemned, Collected, TypeOK
  <2>2. SameAsSerial
    BY DEF RInv, Final, SameAsSerial
  <2>3. QED
    BY <2>1, <2>2, EarliestIsRaised DEF EndsAsSerial
<1>2. QED
  BY <1>1, InitRInv, NextRInv, PTL DEF Spec

\* Cancellation prunes only what is provably futile, provided the nodes done
\* before the run were completed under the plan it is given (futility.py).
THEOREM OnlyFutileIsPruned == PlanKept => (Spec => []PrunesOnlyFutile)
<1>1. PlanKept /\ RInv => PrunesOnlyFutile
  <2> SUFFICES ASSUME PlanKept, RInv, pc = "returned", NEW n \in Node
               PROVE  \/ written[n] = Recorded(Serial[n])
                      \/ /\ setup.cancel_futile
                         /\ written[n] = <<"futility_cancelled">>
                         /\ Consumers(n) # {}
                         /\ \A m \in Consumers(n) : Serial[m] \notin {"done", "validated"}
    BY DEF PrunesOnlyFutile
  <2>1. \/ written[n] = Recorded(Serial[n])
        \/ setup.cancel_futile /\ written[n] = <<"futility_cancelled">> /\ Doomed(n)
    BY DEF RInv, Final
  <2>2. \A m \in Stuck : Serial[m] \notin {"done", "validated"}
    BY DEF Stuck
  <2>3. QED
    BY <2>1, <2>2 DEF Doomed
<1>2. SUFFICES ASSUME PlanKept PROVE Spec => []PrunesOnlyFutile
  OBVIOUS
<1>3. RInv => PrunesOnlyFutile
  BY <1>1, <1>2
<1>4. QED
  BY <1>3, InitRInv, NextRInv, PTL DEF Spec
=============================================================================
