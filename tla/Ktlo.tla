------------------------------- MODULE Ktlo --------------------------------
(* The standing KTLO daemon of governor/ktlo.py: an event queue and a drift
   detector feed a loop that ticks, triages each signal and dispatches one
   episode for it.  Its triage consults the admission gates, and the fire and
   the seen key are committed after the episode, each in a read and a write of
   the store the daemons share: the protocol the docstrings of the gates lay
   down for their callers.  A daemon can die between any two steps; its queue
   dies with it, and its cells are in the store. *)
EXTENDS Admission, Sequences, SequencesExt

CONSTANTS Daemon,
          Tickets,      \* the signals the ticket system can surface
          Drifts,       \* the signals the drift detector can report
          Standing,     \* entities whose runtime is of the standing tier
          Scenarios,    \* the fleets to look at, each with its bounds
          MaxTicks      \* the daemon's own bound on its loop

\* Who is running, with which gate and lifetime; signals bounds what the ticket
\* system, drift and episodes surface, crashes how often a daemon dies, time the
\* clock.
Scenario == [daemons : SUBSET Daemon, mode : DetectionMode, lifetime : {"launch", "ktlo"},
             signals : Nat, crashes : Nat, time : Nat]

ASSUME KtloAssumption ==
    /\ MaxTicks \in Nat \ {0}
    /\ Tickets \cup Drifts \subseteq {s \in Signal : ~s.own}
    /\ Standing \subseteq Entity
    /\ Scenarios \subseteq Scenario

VARIABLES scenario,
          run,        \* [Daemon -> the state of its current run()]
          queue,      \* [Daemon -> the signals its event source holds]
          closed,     \* [Daemon -> whether its producer declared the end]
          budget,     \* the store's fire budget cells
          seen,       \* the store's cell of the admission gate
          crew,       \* the runtimes that are up, with when each was last active
          episodes,   \* history: the episodes that ran to their end
          now, surfaced, crashes

store == <<budget, seen>>
vars == <<scenario, run, queue, closed, store, crew, episodes,
          now, surfaced, crashes>>

NoTally == [seen |-> 0, closed |-> 0, investigated |-> 0, errors |-> 0, episodes |-> 0]

Started == [pc |-> "monitor", ticks |-> 0, copy |-> <<>>, batch |-> <<>>,
            drift |-> <<>>, tally |-> NoTally, read |-> NoCell, why |-> ""]
\* A daemon that is not of this fleet.
Absent == [Started EXCEPT !.pc = "ended"]

mode == scenario.mode
lifetime == scenario.lifetime

Init ==
    /\ scenario \in Scenarios
    /\ run = [d \in Daemon |-> IF d \in scenario.daemons THEN Started ELSE Absent]
    /\ queue = [d \in Daemon |-> <<>>]
    /\ closed = [d \in Daemon |-> FALSE]
    /\ budget = [e \in Entity |-> NoCell]
    /\ seen = NotSeen
    /\ crew = [e \in Entity |-> Never]
    /\ episodes = <<>>
    /\ now = 0 /\ surfaced = 0 /\ crashes = 0

At(d, pc) == run[d].pc = pc
Lasting(d) == run[d].pc \notin {"off", "ended"}
Head1(d) == Head(run[d].batch)

\* The ticket system surfaces an open ticket, again if it likes.
Enqueue(d, signal) ==
    /\ Lasting(d) /\ ~closed[d]
    /\ surfaced < scenario.signals
    /\ surfaced' = surfaced + 1
    /\ queue' = [queue EXCEPT ![d] = Append(@, signal)]
    /\ UNCHANGED <<scenario, run, closed, store, crew, episodes, now, crashes>>

Close(d) ==
    /\ Lasting(d) /\ ~closed[d]
    /\ closed' = [closed EXCEPT ![d] = TRUE]
    /\ UNCHANGED <<scenario, run, queue, store, crew, episodes, now, surfaced, crashes>>

\* The mutant: an empty tick is not counted.
PollUncounted(d) ==
    /\ At(d, "monitor")
    /\ run' = [run EXCEPT ![d].pc = "polled",
                          ![d].ticks = IF queue[d] = <<>> THEN @ ELSE @ + 1,
                          ![d].copy = queue[d]]
    /\ UNCHANGED <<scenario, queue, closed, store, crew, episodes, now, surfaced, crashes>>

\* One tick begins: poll() copies what is queued ...
Poll(d) ==
    /\ At(d, "monitor")
    /\ run' = [run EXCEPT ![d].pc = "polled", ![d].ticks = @ + 1, ![d].copy = queue[d]]
    /\ UNCHANGED <<scenario, queue, closed, store, crew, episodes, now, surfaced, crashes>>

\* ... and puts an empty list in its place, without a lock: what was enqueued
\* in between is gone.  Then comes what drift reports now.
Monitor(d, drift) ==
    /\ At(d, "polled")
    /\ Len(drift) <= scenario.signals - surfaced
    /\ surfaced' = surfaced + Len(drift)
    /\ run' = [run EXCEPT ![d].pc = "triage", ![d].copy = <<>>,
                          ![d].batch = run[d].copy \o drift, ![d].drift = drift,
                          ![d].tally.seen = @ + Len(run[d].copy \o drift)]
    /\ queue' = [queue EXCEPT ![d] = <<>>]
    /\ UNCHANGED <<scenario, closed, store, crew, episodes, now, crashes>>

Admitted(signal) ==
    /\ ~SelfTriggered(signal)
    /\ CanFire(budget[signal.entity], now)
    /\ Admits(mode, seen, signal)

\* The triage of the next signal drops it: a gate says no.
Drop(d) ==
    /\ At(d, "triage") /\ run[d].batch # <<>>
    /\ ~Admitted(Head1(d))
    /\ run' = [run EXCEPT ![d].batch = Tail(@), ![d].tally.closed = @ + 1]
    /\ UNCHANGED <<scenario, queue, closed, store, crew, episodes, now, surfaced, crashes>>

\* Or it dispatches an episode, which stands its runtime up when it is not.
Dispatch(d) ==
    /\ At(d, "triage") /\ run[d].batch # <<>>
    /\ Admitted(Head1(d))
    /\ run' = [run EXCEPT ![d].pc = "episode"]
    /\ crew' = [crew EXCEPT ![Head1(d).entity] = IF @ = Never THEN now ELSE @]
    /\ UNCHANGED <<scenario, queue, closed, store, episodes, now, surfaced, crashes>>

\* The episode raised: it is noted, and counted as investigated.
Raises(d) ==
    /\ At(d, "episode")
    /\ run' = [run EXCEPT ![d].pc = "triage", ![d].batch = Tail(@),
                          ![d].tally.errors = @ + 1, ![d].tally.investigated = @ + 1]
    /\ UNCHANGED <<scenario, queue, closed, store, crew, episodes, now, surfaced, crashes>>

\* The episode ran to its end; what it wrote may come back as a signal.
Completes(d, echoes) ==
    LET signal == Head1(d) IN
    /\ At(d, "episode")
    /\ echoes => surfaced < scenario.signals /\ ~closed[d]
    /\ surfaced' = IF echoes THEN surfaced + 1 ELSE surfaced
    /\ queue' = IF echoes THEN [queue EXCEPT ![d] = Append(@, [signal EXCEPT !.own = TRUE])]
                ELSE queue
    /\ run' = [run EXCEPT ![d].pc = "fire", ![d].tally.episodes = @ + 1,
                          ![d].tally.investigated = @ + 1]
    /\ crew' = [crew EXCEPT ![signal.entity] = now]
    /\ episodes' = Append(episodes, [entity |-> signal.entity, state |-> signal.state,
                                     own |-> signal.own, by |-> d, at |-> now,
                                     fired |-> Never, keyed |-> FALSE])
    /\ UNCHANGED <<scenario, closed, store, now, crashes>>

\* commit_fire reads the cell ...
ReadFire(d) ==
    /\ At(d, "fire")
    /\ run' = [run EXCEPT ![d].pc = "put_fire", ![d].read = budget[Head1(d).entity]]
    /\ UNCHANGED <<scenario, queue, closed, store, crew, episodes, now, surfaced, crashes>>

LastOf(d) == CHOOSE i \in 1 .. Len(episodes) :
                /\ episodes[i].by = d
                /\ \A j \in i + 1 .. Len(episodes) : episodes[j].by # d

\* ... and puts it back incremented.
PutFire(d) ==
    /\ At(d, "put_fire")
    /\ budget' = [budget EXCEPT ![Head1(d).entity] = Fired(run[d].read, now)]
    /\ episodes' = [episodes EXCEPT ![LastOf(d)].fired = now]
    /\ run' = [run EXCEPT ![d].pc = "key", ![d].read = NoCell]
    /\ UNCHANGED <<scenario, queue, closed, seen, crew, now, surfaced, crashes>>

\* The gate's commit reads the whole map ...
ReadKey(d) ==
    /\ At(d, "key")
    /\ run' = [run EXCEPT ![d].pc = "put_key", ![d].read = seen]
    /\ UNCHANGED <<scenario, queue, closed, store, crew, episodes, now, surfaced, crashes>>

\* ... and puts it back with the signal folded in.
PutKey(d) ==
    /\ At(d, "put_key")
    /\ seen' = Folded(mode, run[d].read, Head1(d))
    /\ episodes' = [episodes EXCEPT ![LastOf(d)].keyed = TRUE]
    /\ run' = [run EXCEPT ![d].pc = "triage", ![d].batch = Tail(@), ![d].read = NoCell]
    /\ UNCHANGED <<scenario, queue, closed, budget, crew, now, surfaced, crashes>>

\* The mutant: an empty queue ends the run.
DrainedOnQuiet(d) == queue[d] = <<>>

Drained(d) == closed[d] /\ queue[d] = <<>>

Why(d) ==
    IF lifetime = "launch" THEN "launch_complete"
    ELSE IF Drained(d) THEN "source_drained"
    ELSE IF run[d].ticks = MaxTicks THEN "tick_cap" ELSE ""

\* The batch is done: the run ends for one of the three reasons or ticks on.
EndTick(d) ==
    /\ At(d, "triage") /\ run[d].batch = <<>>
    /\ run' = [run EXCEPT ![d].pc = IF Why(d) = "" THEN "monitor" ELSE "ended",
                          ![d].why = Why(d)]
    /\ UNCHANGED <<scenario, queue, closed, store, crew, episodes, now, surfaced, crashes>>

\* The process dies: its queue and its tally are gone.
Crash(d) ==
    /\ Lasting(d) /\ crashes < scenario.crashes
    /\ crashes' = crashes + 1
    /\ run' = [run EXCEPT ![d] = [Started EXCEPT !.pc = "off"]]
    /\ queue' = [queue EXCEPT ![d] = <<>>]
    /\ closed' = [closed EXCEPT ![d] = FALSE]
    /\ UNCHANGED <<scenario, store, crew, episodes, now, surfaced>>

\* The mutant: the new daemon's budget gate is over a store of its own.
RestartWithOwnStore(d) ==
    /\ At(d, "off")
    /\ run' = [run EXCEPT ![d] = Started]
    /\ budget' = [e \in Entity |-> NoCell]
    /\ UNCHANGED <<scenario, queue, closed, seen, crew, episodes, now, surfaced, crashes>>

Restart(d) ==
    /\ At(d, "off")
    /\ run' = [run EXCEPT ![d] = Started]
    /\ UNCHANGED <<scenario, queue, closed, store, crew, episodes, now, surfaced, crashes>>

Up == {e \in Entity : crew[e] # Never}
InFlight == {Head1(d).entity : d \in {c \in Daemon : At(c, "episode")}}

\* Housekeeping between episodes: the caller tears down what cull returns.
Sweep ==
    \E gone \in Cull(Restrict(crew, Up), now, InFlight, Standing) :
        /\ gone # {}
        /\ crew' = [e \in Entity |-> IF e \in gone THEN Never ELSE crew[e]]
        /\ UNCHANGED <<scenario, run, queue, closed, store, episodes,
                       now, surfaced, crashes>>

Clock ==
    /\ now < scenario.time
    /\ now' = now + 1
    /\ UNCHANGED <<scenario, run, queue, closed, store, crew, episodes,
                   surfaced, crashes>>

Step(d) ==
    \/ Poll(d) \/ \E drift \in {<<>>} \cup {<<s>> : s \in Drifts} : Monitor(d, drift)
    \/ Drop(d) \/ Dispatch(d) \/ Raises(d)
    \/ \E echoes \in BOOLEAN : Completes(d, echoes)
    \/ ReadFire(d) \/ PutFire(d) \/ ReadKey(d) \/ PutKey(d)
    \/ EndTick(d) \/ Restart(d)

Next ==
    \/ \E d \in Daemon : Step(d) \/ Close(d) \/ Crash(d)
    \/ \E d \in Daemon, s \in Tickets : Enqueue(d, s)
    \/ Sweep \/ Clock

\* run() is a loop that nothing blocks, and a dead daemon is stood up again.
Spec == Init /\ [][Next]_vars /\ \A d \in Daemon : WF_vars(Step(d))

---------------------------------------------------------------------------
Index == 1 .. Len(episodes)

TypeOK ==
    /\ \A d \in Daemon :
        /\ run[d].pc \in {"monitor", "polled", "triage", "episode", "fire", "put_fire", "key",
                         "put_key", "off", "ended"}
        /\ run[d].ticks \in 0 .. MaxTicks
        /\ {run[d].batch, run[d].drift} \subseteq Seq(Signal)
        /\ run[d].pc = "polled" => run[d].copy \in Seq(Signal)
        /\ run[d].tally \in [DOMAIN NoTally -> Nat]
        /\ run[d].why \in {"", "launch_complete", "source_drained", "tick_cap"}
    /\ queue \in [Daemon -> Seq(Signal)] /\ closed \in [Daemon -> BOOLEAN]
    /\ budget \in [Entity -> [count : Nat, last : Nat \cup {Never}]]
    /\ DOMAIN seen \subseteq Entity \cup States
    /\ crew \in [Entity -> 0 .. now \cup {Never}]

\* What one daemon's crashes can lose: an episode that ran and whose fire, or
\* whose key, was not committed.
Lost(e) == {i \in Index : episodes[i].entity = e /\ episodes[i].fired = Never}

Committed(e) == {i \in Index : episodes[i].entity = e /\ episodes[i].fired # Never}

\* One daemon answered everything there was to answer so far.
Alone == \A i, j \in Index : episodes[i].by = episodes[j].by

\* The budget is burned by episodes that happened, never by more than happened:
\* two daemons that commit at once can lose a fire of an entity, not invent one.
\* While one daemon answers, the account is exact across its crashes: an entity
\* runs MaxFires times, and once more for each episode whose commit a crash cut
\* off; two committed fires are a cooldown apart.  (FireBudgetGate: consumption
\* is committed only after the durable commit.)
BudgetIsEarned ==
    \A e \in Entity :
        LET mine == {i \in Index : episodes[i].entity = e} IN
        /\ budget[e].count <= Cardinality(Committed(e))
        /\ Alone =>
             /\ budget[e].count = Cardinality(Committed(e))
             /\ Cardinality(mine) <= MaxFires + Cardinality(Lost(e))
             /\ \A i, j \in mine : i < j /\ episodes[i].fired # Never
                                     => episodes[j].at - episodes[i].fired >= Cooldown

\* The gate answers for what happened: a key of its map is one an episode ran
\* for, so that an undispatched signal never poisons it.  And while one daemon
\* answers, no episode repeats one whose key was committed: it has a new key, a
\* state that is not the last committed one, or an item nobody committed.
NoEpisodeRepeats ==
    /\ \A k \in DOMAIN seen : \E i \in Index :
          k = IF mode = "diff" THEN episodes[i].state ELSE episodes[i].entity
    /\ Alone => \A i, j \in Index :
        i < j /\ episodes[i].keyed =>
           \/ mode = "new_items" /\ episodes[i].entity # episodes[j].entity
           \/ mode = "diff" /\ episodes[i].state # episodes[j].state
           \/ mode = "state_change" /\
                \/ episodes[i].entity # episodes[j].entity
                \/ episodes[i].state # episodes[j].state
                \/ \E m \in i + 1 .. j - 1 : episodes[m].keyed
                                          /\ episodes[m].entity = episodes[i].entity

\* The store's two accounts answer for the episodes that ran.
GatesAnswerForEpisodes == BudgetIsEarned /\ NoEpisodeRepeats

\* The tally a run returns adds up and no signal it took is forgotten: each one
\* seen is dropped, was investigated (to an end or to an error) or is still to
\* be triaged, and a run that says its source is drained has drained it.  (With
\* the types of the state.)
TallyAddsUp ==
    /\ TypeOK
    /\ \A d \in Daemon :
        LET t == run[d].tally
            done == IF run[d].pc \in {"fire", "put_fire", "key", "put_key"} THEN 1 ELSE 0
        IN  /\ t.seen = t.closed + t.investigated + Len(run[d].batch) - done
            /\ t.investigated = t.errors + t.episodes
            /\ run[d].why = "source_drained"
                 => closed[d] /\ queue[d] = <<>> /\ run[d].batch = <<>>

\* A runtime at work is never torn down under its episode, and a fleet that
\* worked less than the long floor ago still has a runtime up.  (cull: the
\* active ones are untouchable and the freshest one is held to the long floor.)
FleetStaysWarm ==
    /\ \A e \in InFlight : crew[e] # Never
    /\ episodes # <<>> /\ now - Last(episodes).at < LongFloor => Up # {}

\* Every run() ends: at the drained source or at its cap on ticks.
DaemonEnds == \A d \in Daemon : <>[](run[d].pc = "ended")

\* "A standing daemon must not stop while drift is still firing".
DriftIsQuiet ==
    \A d \in Daemon : run[d].why = "source_drained" => run[d].drift = <<>>

\* "Each poll drains and returns everything enqueued since the last poll": when
\* it drops the list, it has copied all of it.
PollReturnsAll == \A d \in Daemon : At(d, "polled") => queue[d] = run[d].copy

\* "shared by any gate constructed over the same store": the count of an entity
\* is the number of fires that were committed for it, by whichever daemon.
EveryFireCounts ==
    \A e \in Entity :
        budget[e].count = Cardinality(Committed(e))
=============================================================================
