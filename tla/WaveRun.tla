------------------------------ MODULE WaveRun ------------------------------
(***************************************************************************)
(* One parallel run of the Supervisor (execute/supervisor.py,              *)
(* _run_parallel) and the futility cancellation beside it                  *)
(* (execute/futility.py): waves of nodes whose producers have completed,   *)
(* dispatched on a bounded thread pool; a supervisor thread that drains    *)
(* each wave in completion order and condemns siblings nobody will consume *)
(* any more; harness workers (execute/harness_factory.py,                  *)
(* _harness_executor) that register a cancel token from inside their own   *)
(* event loop.  Every acquisition of the registry's lock is a step, and so *)
(* is what happens between two of them.                                    *)
(*                                                                         *)
(* Abstractions: of the store, the nodes completed before the run and the  *)
(* classes of the records this run writes, per node; of an agent, its fate *)
(* - how its attempts end, which the run cannot influence.                 *)
(***************************************************************************)
EXTENDS Naturals, Sequences, FiniteSets

CONSTANTS
  N,            \* nodes, numbered in plan.order
  Wirings,      \* the plans: node -> producers
  Kinds,        \* node -> "harness" | "plain" (_dispatch: no cancel token)
  Fates,        \* how a node's agent can behave
  DoneSets,     \* nodes completed by an earlier run
  HeldSets,     \* nodes governance withholds
  Pool,         \* max_workers
  MaxAttempts   \* max_attempts of the Supervisor

Node == 1..N

(* A fate: the first `fails` attempts of the node fail, in the way `how`:    *)
(* an exception, a stop by the node's own monitor (always for the same       *)
(* failure mode), or an exception no handler catches under any on_error,     *)
(* such as an output the store cannot hash.                                  *)
Fate == [fails : 0..MaxAttempts, how : {"raises", "preempted", "escapes"}]

ASSUME WaveAssumption ==
  /\ N \in Nat /\ Pool \in Nat \ {0} /\ MaxAttempts \in Nat \ {0}
  /\ \A w \in Wirings : w \in [Node -> SUBSET Node] /\ \A n \in Node : w[n] \subseteq 1..(n - 1)
  /\ Kinds \subseteq [Node -> {"harness", "plain"}]
  /\ Fates \subseteq Fate
  /\ DoneSets \subseteq SUBSET Node /\ HeldSets \subseteq SUBSET Node

VARIABLES
  setup,      \* what the run is given: wiring, kind, fate, done, held, on_error, cancel_futile
  written,    \* node -> classes of the records this run wrote for it
  \* the supervisor's thread
  pc,
  in_flight,  \* wave members not yet observed
  dispatched, \* nodes handed to a worker, each at most once
  errors,     \* nodes whose exception was observed
  targets,    \* nodes condemn_many has still to condemn
  handle,     \* the live token condemn holds once it has left the lock
  \* the workers
  worker,     \* node -> where its worker is
  tries,      \* node -> its attempt
  result,     \* node -> how the current attempt ended
  \* the registry and the event loops
  tokens,     \* nodes with a registered token (of their current attempt)
  reasons,    \* nodes condemned
  cancelling  \* nodes with a task.cancel() scheduled on their running loop

supVars == <<pc, in_flight, dispatched, errors, targets, handle>>
workVars == <<worker, tries, result>>
regVars == <<tokens, reasons, cancelling>>
vars == <<setup, written, supVars, workVars, regVars>>

NoHandle == <<>>
Ended == {"returned", "raised", "broken"}

Init ==
  /\ setup \in [wiring : Wirings, kind : Kinds, fate : [Node -> Fates],
                done : DoneSets, held : HeldSets,
                on_error : {"raise", "record"}, cancel_futile : BOOLEAN]
  /\ written = [n \in Node |-> <<>>]
  /\ pc = "wave"
  /\ in_flight = {} /\ dispatched = {} /\ errors = {} /\ targets = {} /\ handle = NoHandle
  /\ worker = [n \in Node |-> "none"]
  /\ tries = [n \in Node |-> 0]
  /\ result = [n \in Node |-> "none"]
  /\ tokens = {} /\ reasons = {} /\ cancelling = {}

Write(n, class) == written' = [written EXCEPT ![n] = Append(@, class)]

Completed == setup.done \cup {n \in Node : \E i \in DOMAIN written[n] : written[n][i] = "validated"}

-----------------------------------------------------------------------------
(* The graph of futility.py *)

\* invert_wiring
Consumers(n) == {m \in Node : n \in setup.wiring[m]}

\* descendants: the transitive consumers, by unfolding N times.
Descendants(n) ==
  LET grow[k \in 0..N] ==
        IF k = 0 THEN Consumers(n)
                 ELSE grow[k - 1] \cup UNION {Consumers(m) : m \in grow[k - 1]}
  IN  grow[N]

\* Mutant of FutilityClosure: without the test that keeps sinks out.
FutilityClosureOfSinks(failed, among) ==
  {n \in among \ {failed} : Consumers(n) \subseteq Descendants(failed)}

\* futility_closure
FutilityClosure(failed, among) ==
  {n \in among \ {failed} : Consumers(n) # {} /\ Consumers(n) \subseteq Descendants(failed)}

-----------------------------------------------------------------------------
(* The supervisor's thread *)

Open == Node \ (Completed \cup setup.held \cup dispatched)

\* Mutant of Wave: a producer need only be dispatched, whatever became of it.
WaveOfDispatched == {n \in Open : setup.wiring[n] \subseteq Completed \cup dispatched}

\* The current antichain.
Wave == {n \in Open : setup.wiring[n] \subseteq Completed}

SubmitWave ==
  /\ pc = "wave"
  /\ Wave # {}
  /\ dispatched' = dispatched \cup Wave
  /\ in_flight' = Wave
  /\ worker' = [n \in Node |-> IF n \in Wave THEN "queued" ELSE worker[n]]
  /\ pc' = "drain"
  /\ UNCHANGED <<setup, written, errors, targets, handle, tries, result, regVars>>

\* No dispatchable node: the blocked remainder is next.
NoWave ==
  /\ pc = "wave"
  /\ Wave = {}
  /\ pc' = "blocked"
  /\ UNCHANGED <<setup, written, in_flight, dispatched, errors, targets, handle, workVars, regVars>>

\* as_completed yields a future; how its node ended decides who is condemned.
Observe(n) ==
  /\ pc = "drain" /\ targets = {} /\ handle = NoHandle
  /\ n \in in_flight /\ worker[n] = "done"
  /\ in_flight' = in_flight \ {n}
  /\ errors' = IF result[n] = "escaped" THEN errors \cup {n} ELSE errors
  /\ targets' = IF ~setup.cancel_futile \/ n \in Completed THEN {}
                ELSE IF result[n] = "escaped" THEN in_flight'
                ELSE FutilityClosure(n, in_flight')
  /\ UNCHANGED <<setup, written, pc, dispatched, handle, workVars, regVars>>

\* condemn, under the lock: the reason is kept and the live token looked up.
Condemn(n) ==
  /\ n \in targets
  /\ handle = NoHandle
  /\ targets' = targets \ {n}
  /\ reasons' = reasons \cup {n}
  /\ handle' = IF n \in tokens THEN <<n, tries[n]>> ELSE NoHandle
  /\ UNCHANGED <<setup, written, pc, in_flight, dispatched, errors, workVars, tokens, cancelling>>

\* The loop a handle belongs to: open until its attempt's asyncio.run ends.
LoopOpen(h) == tries[h[1]] = h[2] /\ worker[h[1]] \in {"running", "leaving", "closing"}

\* condemn, after the lock: call_soon_threadsafe(task.cancel).
Deliver ==
  /\ handle # NoHandle
  /\ LoopOpen(handle)
  /\ cancelling' = IF worker[handle[1]] = "running" THEN cancelling \cup {handle[1]} ELSE cancelling
  /\ handle' = NoHandle
  /\ UNCHANGED <<setup, written, pc, in_flight, dispatched, errors, targets, workVars, tokens, reasons>>

\* ... raises RuntimeError on a closed loop; the exception leaves the drain,
\* and the pool's exit waits for the workers.
DeliverToClosedLoop ==
  /\ handle # NoHandle
  /\ ~LoopOpen(handle)
  /\ handle' = NoHandle /\ targets' = {}
  /\ pc' = "breaking"
  /\ UNCHANGED <<setup, written, in_flight, dispatched, errors, workVars, regVars>>

\* Mutant of Break: the pool is left without waiting for its workers.
BreakAtOnce ==
  /\ pc = "breaking"
  /\ pc' = "broken"
  /\ UNCHANGED <<setup, written, in_flight, dispatched, errors, targets, handle, workVars, regVars>>

Break ==
  /\ pc = "breaking"
  /\ \A n \in dispatched : worker[n] = "done"
  /\ pc' = "broken"
  /\ UNCHANGED <<setup, written, in_flight, dispatched, errors, targets, handle, workVars, regVars>>

\* The wave is drained: stop at a collected error, else look for another wave.
WaveDrained ==
  /\ pc = "drain" /\ targets = {} /\ handle = NoHandle
  /\ in_flight = {}
  /\ pc' = IF errors # {} THEN "raised" ELSE "wave"
  /\ UNCHANGED <<setup, written, in_flight, dispatched, errors, targets, handle, workVars, regVars>>

\* The exception run() raises: the earliest in plan.order.
Raised == CHOOSE n \in errors : \A m \in errors : n <= m

\* The blocked remainder, in plan.order; then run() returns.
Remainder == Open \ {n \in Open : setup.wiring[n] \subseteq Completed}

RecordRemainder ==
  /\ pc = "blocked"
  /\ written' = [n \in Node |-> IF n \in Remainder THEN Append(written[n], "hold") ELSE written[n]]
  /\ pc' = "returned"
  /\ UNCHANGED <<setup, in_flight, dispatched, errors, targets, handle, workVars, regVars>>

-----------------------------------------------------------------------------
(* The workers *)

Cancellable(n) == setup.cancel_futile /\ setup.kind[n] = "harness"

\* Mutant of Start: a resolved node keeps its thread.
StartUnlessUsed(n) ==
  /\ worker[n] = "queued"
  /\ Cardinality({m \in Node : worker[m] \notin {"none", "queued"}}) < Pool
  /\ worker' = [worker EXCEPT ![n] = "attempt"]
  /\ tries' = [tries EXCEPT ![n] = 1]
  /\ UNCHANGED <<setup, written, supVars, result, regVars>>

\* A pool thread takes a queued node.
Start(n) ==
  /\ worker[n] = "queued"
  /\ Cardinality({m \in Node : worker[m] \notin {"none", "queued", "done"}}) < Pool
  /\ worker' = [worker EXCEPT ![n] = "attempt"]
  /\ tries' = [tries EXCEPT ![n] = 1]
  /\ UNCHANGED <<setup, written, supVars, result, regVars>>

\* An attempt begins outside the registry, or registers its task (register,
\* under the lock): a node already condemned is cancelled on the spot.
Begin(n) ==
  /\ worker[n] = "attempt"
  /\ \/ /\ ~Cancellable(n)
        /\ worker' = [worker EXCEPT ![n] = "running"]
        /\ UNCHANGED <<result, tokens>>
     \/ /\ Cancellable(n) /\ n \notin reasons
        /\ tokens' = tokens \cup {n}
        /\ worker' = [worker EXCEPT ![n] = "running"]
        /\ UNCHANGED result
     \/ /\ Cancellable(n) /\ n \in reasons
        /\ result' = [result EXCEPT ![n] = "cancelled"]
        /\ worker' = [worker EXCEPT ![n] = "leaving"]
        /\ UNCHANGED tokens
  /\ UNCHANGED <<setup, written, supVars, tries, reasons, cancelling>>

\* How attempt k of a node ends when it is left alone.
AttemptEnds(n, k) == IF k <= setup.fate[n].fails THEN setup.fate[n].how ELSE "ok"

\* The attempt ends by itself, or a scheduled cancel reaches it first.
Finish(n) ==
  /\ worker[n] = "running"
  /\ result' = [result EXCEPT ![n] = AttemptEnds(n, tries[n])]
  /\ worker' = [worker EXCEPT ![n] = IF Cancellable(n) THEN "leaving" ELSE "settling"]
  /\ cancelling' = cancelling \ {n}
  /\ UNCHANGED <<setup, written, supVars, tries, tokens, reasons>>

Cancelled(n) ==
  /\ worker[n] = "running"
  /\ n \in cancelling
  /\ result' = [result EXCEPT ![n] = "cancelled"]
  /\ worker' = [worker EXCEPT ![n] = "leaving"]
  /\ cancelling' = cancelling \ {n}
  /\ UNCHANGED <<setup, written, supVars, tries, tokens, reasons>>

\* run_registered's finally, under the lock.
Revoke(n) ==
  /\ worker[n] = "leaving"
  /\ tokens' = tokens \ {n}
  /\ worker' = [worker EXCEPT ![n] = "closing"]
  /\ UNCHANGED <<setup, written, supVars, tries, result, reasons, cancelling>>

\* asyncio.run closes its loop.
CloseLoop(n) ==
  /\ worker[n] = "closing"
  /\ worker' = [worker EXCEPT ![n] = "settling"]
  /\ UNCHANGED <<setup, written, supVars, tries, result, regVars>>

Resolve(n) == worker' = [worker EXCEPT ![n] = "done"]

\* The output is admitted.
Admit(n) ==
  /\ worker[n] = "settling" /\ result[n] = "ok"
  /\ Write(n, "validated")
  /\ Resolve(n)
  /\ UNCHANGED <<setup, supVars, tries, result, regVars>>

\* The attempt failed and another is left: a monitor's stop is retried under
\* either on_error, but once per failure mode; an exception only under "record".
MayRetry(n) ==
  /\ tries[n] < MaxAttempts
  /\ \/ result[n] = "preempted" /\ tries[n] = 1
     \/ result[n] = "raises" /\ setup.on_error = "record"

Retry(n) ==
  /\ worker[n] = "settling"
  /\ MayRetry(n)
  /\ tries' = [tries EXCEPT ![n] = @ + 1]
  /\ worker' = [worker EXCEPT ![n] = "attempt"]
  /\ UNCHANGED <<setup, written, supVars, result, regVars>>

\* A terminal failure is recorded: a cancellation as futility, a monitor's stop
\* as preemptive_termination, both whatever on_error is.
RecordFailure(n) ==
  /\ worker[n] = "settling" /\ ~MayRetry(n)
  /\ \/ result[n] = "cancelled" /\ Write(n, "futility_cancelled")
     \/ result[n] = "preempted" /\ Write(n, "preemptive_termination")
     \/ result[n] = "raises" /\ setup.on_error = "record" /\ Write(n, "crash")
  /\ Resolve(n)
  /\ UNCHANGED <<setup, supVars, tries, result, regVars>>

\* ... or the exception escapes into the future.
Escape(n) ==
  /\ worker[n] = "settling"
  /\ \/ result[n] = "escapes"
     \/ result[n] = "raises" /\ setup.on_error = "raise"
  /\ result' = [result EXCEPT ![n] = "escaped"]
  /\ Resolve(n)
  /\ UNCHANGED <<setup, written, supVars, tries, regVars>>

SupervisorStep ==
  \/ SubmitWave \/ NoWave \/ WaveDrained \/ RecordRemainder
  \/ \E n \in Node : Observe(n) \/ Condemn(n)
  \/ Deliver \/ DeliverToClosedLoop \/ Break

WorkerStep(n) ==
  \/ Start(n) \/ Begin(n) \/ Finish(n) \/ Cancelled(n) \/ Revoke(n) \/ CloseLoop(n)
  \/ Admit(n) \/ Retry(n) \/ RecordFailure(n) \/ Escape(n)

Next == SupervisorStep \/ \E n \in Node : WorkerStep(n)

Spec == Init /\ [][Next]_vars

\* The supervisor's thread and every pool thread are scheduled, and every
\* attempt of an agent ends.
FairSpec == Spec /\ WF_vars(SupervisorStep) /\ \A n \in Node : WF_vars(WorkerStep(n))

-----------------------------------------------------------------------------
(* What a run should do, computed from its setup alone *)

\* How a node ends when it is dispatched and left alone.
Dispatched(n) ==
  LET f == setup.fate[n]
      budget == IF f.how = "preempted" THEN IF MaxAttempts > 1 THEN 2 ELSE 1
                ELSE IF f.how = "raises" /\ setup.on_error = "record" THEN MaxAttempts ELSE 1
  IN  IF f.fails < budget THEN "validated"
      ELSE CASE f.how = "preempted" -> "preemptive_termination"
             [] f.how = "raises" -> IF setup.on_error = "record" THEN "crash" ELSE "escaped"
             [] f.how = "escapes" -> "escaped"

\* The serial pass, node after node: the class each node's record has, "done"
\* for a node resumed, "held" for one withheld.
Serial ==
  LET ends[n \in Node] ==
        IF n \in setup.done THEN "done"
        ELSE IF n \in setup.held THEN "held"
        ELSE IF \E p \in setup.wiring[n] : ends[p] \notin {"done", "validated"} THEN "hold"
        ELSE Dispatched(n)
  IN  ends

\* The wave a node belongs to.
Depth ==
  LET depth[n \in Node] ==
        IF n \in setup.done \/ setup.wiring[n] \subseteq setup.done THEN 0
        ELSE 1 + depth[CHOOSE p \in setup.wiring[n] \ setup.done :
                         \A q \in setup.wiring[n] \ setup.done : depth[p] >= depth[q]]
  IN  depth

Recorded(class) == IF class \in {"done", "held", "escaped"} THEN <<>> ELSE <<class>>

-----------------------------------------------------------------------------
(* Properties *)

TypeOK ==
  /\ \A n \in Node : written[n] \in Seq({"validated", "crash", "hold", "futility_cancelled",
                                          "preemptive_termination"})
  /\ pc \in Ended \cup {"wave", "drain", "breaking", "blocked"}
  /\ in_flight \subseteq dispatched /\ dispatched \subseteq Node
  /\ errors \subseteq dispatched /\ targets \subseteq in_flight
  /\ handle = NoHandle \/ handle \in Node \X (1..MaxAttempts)
  /\ worker \in [Node -> {"none", "queued", "attempt", "running", "leaving", "closing",
                          "settling", "done"}]
  /\ tries \in [Node -> 0..MaxAttempts]
  /\ result \in [Node -> {"none", "ok", "raises", "preempted", "escapes", "cancelled", "escaped"}]
  /\ tokens \subseteq Node /\ reasons \subseteq Node /\ cancelling \subseteq Node

\* Without cancellation a parallel run that returns has written, for every
\* node, exactly the record the serial pass would have (run's docstring: the
\* same store contents for any `parallel`).
SameAsSerial ==
  pc = "returned" /\ ~setup.cancel_futile =>
    \A n \in Node : written[n] = Recorded(Serial[n])

\* With it, cancellation only prunes: a node the run cut short wrote one
\* futility record, none of its consumers could have completed, and it has
\* some; every other node is as in the serial pass.
PrunesOnlyFutile ==
  pc = "returned" =>
    \A n \in Node :
      \/ written[n] = Recorded(Serial[n])
      \/ /\ setup.cancel_futile
         /\ written[n] = <<"futility_cancelled">>
         /\ Consumers(n) # {}
         /\ \A m \in Consumers(n) : Serial[m] \notin {"done", "validated"}

\* Whichever future resolves first, the exception raised is that of the first
\* node, in plan order, of the first wave in which one escapes.
RaisesEarliest ==
  pc = "raised" /\ ~setup.cancel_futile =>
    LET escaping == {n \in Node : Serial[n] = "escaped"}
    IN  /\ Raised \in escaping
        /\ \A n \in escaping :
             \/ Depth[n] > Depth[Raised]
             \/ Depth[n] = Depth[Raised] /\ n >= Raised

\* A parallel run without cancellation ends as the serial pass does, whether it
\* returns or raises, and every intermediate state is one of a run.
EndsAsSerial == TypeOK /\ SameAsSerial /\ RaisesEarliest

\* Once run() has ended no worker is left to write to the store, and nothing
\* of the run is left in the registry.
NothingAfterTheEnd ==
  pc \in Ended =>
    /\ \A n \in Node : worker[n] \in {"none", "done"}
    /\ tokens = {} /\ cancelling = {}

\* Every run ends.
RunEnds == <>(pc \in Ended)

\* A condemnation that arrives after its token was revoked is a silent no-op
\* (CancelTokenRegistry's docstring): it never ends the run.
LateCondemnIsSilent == pc # "broken"
=============================================================================
