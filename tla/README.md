# A verification project for concursus

concursus compiles agent manifests into a frozen *plan* (a DAG of nodes wired by
typed references), runs the plan over an append-only *run log*, and lets a bounded
outer loop, the governor, replan between runs. This directory holds TLA+ modules
translated from that code, the TLC runs that check them, and theorems about them
that TLAPS proves. `PROJECT.json` maps every definition to the lines it models and
lists runs, mutants, findings, hazards and theorems; this file explains them.

## 1. The system

| Component | Code (`src/src/concursus/`) | State | Operations | What is hard | What makes it correct |
|---|---|---|---|---|---|
| Run log and in-process store | `state/statestore.py` | log, projection, attempt counters, clock | `put`, `get`, `completed`, `append_coordination_notice`, reload | failures between validated puts, puts that raise half-way | caches agree with the log; a reload answers alike; attempts grow |
| AgentCore Memory store | `state/statestore.py` | remote event log, local cache, epoch | `put`, `checkpoint`, warm and cold `replay` | lost responses, crash between calls, two resume paths | the two paths agree; what was acknowledged survives |
| File-vault store | `state/filevault.py` | note files, `.gen`, `.lock`, a copy per process | `put`, reads, run lease, version timeline | processes interleave; a put is cut short between two files | no stale read or write inside the lock; acknowledged notes stay |
| Supervisor, serial | `execute/supervisor.py` | position in the walk, the store | `run`, `_dispatch`, plan-identity guard | holds, retries, failures, resumes with the same or another plan | outputs are written once, from the right inputs; each node accounted for |
| Supervisor, parallel, with futility cancellation | `execute/supervisor.py`, `execute/futility.py` | wave, in-flight set, cancel tokens, condemned nodes | `_run_parallel`, `register`, `condemn`, `revoke` | threads, completion order, cancel racing registration, retry and end | same records as the serial pass; only futile work pruned |
| Harness executor | `execute/harness_factory.py`, `execute/harness.py` | attempt, remediated modes | attempt loop, record, admit | a fresh event loop per attempt; four kinds of failure | one record per node, bounded attempts |
| Deployment | `build/provision.py`, `build/ledger.py`, `build/trust.py` | ledger rows, reservations, runtimes on AWS | `provision_plan`, reserve/confirm/compensate, reconcile, gate | a death between the cloud and the ledger, lost responses, name clashes | rows name ready runtimes; each two-phase create is covered by an intent |
| Build plan synthesis | `build/build.py` | none | `build`, `fingerprint` | - | pure |
| DAG, manifests, resolver | `core/` | none | `validate`, `classify_cycle_edges`, `resolve_edges`, `check_alignment` | two judges of cycles, opt-in gates, last-wins overlays | judges agree; what the gates accept fits at run time |
| Assembler, planner | `assemble/` | the frozen plan | `plan_from_goal`, `assemble`, `recompile` | authors, manifests and trust move between compiles, while nodes run | what ran stays as it ran; the order only grows; wires go forward |
| Governor loop | `governor/loop.py`, `state.py`, `authoring.py` | context, checkpoint, plan history, round | planner, router, run_episode, collect, `staff_with_rebind` | resume in the middle of a round, sticky replan signals | bounded rounds; a resume repeats no completed work |
| Trust ladder, schedulers | `governor/scheduler.py` | earned grades | `decide`, `update_trust`, `project_context` | promotion against seeds and caps | grades move as outcomes say |
| Registry | `governor/registry.py` | version table over the store | `register_agent`, `fork`, `match_task` | versions from a log | the current version is the last |
| KTLO daemon and gates | `governor/ktlo.py` | event queue, fire budgets, seen keys, runtimes | `run`, `can_fire`, `commit_fire`, `admit`, `commit`, `cull` | read and write in two store calls; crash between episode and commit; sweeps between steps | the accounts answer for the episodes; no signal is forgotten; the fleet stays warm; runs end |
| Health monitor | `execute/monitor.py` | counters per run | `watch`, `remediation_for` | thresholds | - |
| Backends, object store | `execute/invoker.py`, `object_store.py`, `types.py` | none | invoke, get, put | transport | - |
| Knowledge transfer | `state/transfer.py` | vault files | transfer node | repeated transfers | idempotence |
| Derived reads of the log | `state/rundb.py`, `rungraph.py`, `runindex.py`, `capture.py`, `distill.py`, `precedent.py` | disposable indexes | rebuild, query | - | rebuildable |
| Reasoning | `reasoning/` | the trail, the worker lane with its payloads, the round | `form_plan`, `dispatch_frontier`, `write_back`, the engine's rounds, `lower_to_dag` | crash between two flushes, a fallback in the middle of a round, trees of dead episodes | the trail replays soundly; the plan is the grounded part of one's own tree; rounds suffice |
| Console, CLI | `ui/`, `cli.py` | none | rendering | - | - |

How they interact. The governor builds a plan with the assembler and hands it, with a
hold set, to a fresh Supervisor over the run's store. The Supervisor reads
`completed()` and `get()` and writes with `put()`; it is the only writer of node
records. Its workers call the harness, which calls the agents; in a parallel run the
workers share with the supervisor's thread the store and the cancel registry. The
stores talk to AgentCore Memory or to the file system. Deployment runs apart from all
that; its ledger is read when a plan is bound to ARNs. A standing KTLO daemon dispatches
one episode per admitted signal; deliberation turns a goal into the hypotheses a DAG is
lowered from.

## 2. Modules

    RecordLog   read model of a log: latest, completed, rebuild      (shared operators)
    RunLog      abstract: an append-only log with growing attempts
    Dataflow    abstract: each output produced once, from its producers' outputs

    StateStore   in-process store           implements RunLog
    MemoryStore  AgentCore Memory store     extends RecordLog
    FileVault    file-vault store           implements RunLog (acknowledged puts)
    Supervisor   serial runs, INSTANCEs StateStore; implements Dataflow
    WaveRun      a parallel run, compared with the serial pass it computes
    Deploy       provisioner, ledger and control plane
    Governor     the outer loop: rounds, trust ladder, checkpoint, resume
    AgentDag     topologies: Kahn's order, Tarjan's walk            (operators)
    Resolve      types, declarations and the alignment gates        (operators)
    Compile      authoring, staffing, assemble, recompile and the run between them
    Admission    budget, seen map, provenance and culler            (operators)
    Ktlo         the standing daemon over the gates' store
    Trail        what a log of hypotheses says                      (operators)
    Deliberation form_plan, the inner graph and the engine over one trail

    MCStateStore, MCSupervisor, ...        instances for TLC
    StateStoreProofs, SupervisorProofs, GovernorProofs, DeployProofs,
    WaveRunProofs, CompileProofs, KtloProofs, DeliberationProofs     theorems

**RecordLog** is `_is_newer` and `_index_records`: a record supersedes another of its
node by attempt, then by position in the log. `Completed`, `Rebuilt` and `TopAttempt`
are the three indexes every store derives. All of it is first-order, without
recursion, so that the proofs can use it.

**StateStore** has one action per method: `Put` (a node's output or failure), `PutRaises`
(`content_hash` fails after the counters moved), `Notice`, and `Reload`, which is what a
fresh durable store does with the log. A lock makes each method atomic in the code, and
so it is here. Outputs are values of a small set; equality stands for the content hash.

**Supervisor** is `run` at `parallel = 1` and `_dispatch`. `pc` says where the run is
(identity guard, walk, binding check, invoke, admit), `at` is the loop's node. Every `put`
of the code is the store's own `Put`. Runs follow one another on one store with any plan of
`Plan` and any hold set; `Crash` can come between any two steps and reloads the store.
`AssembleFails` and `AdmitRaises` are the two exceptions that leave `run()` whatever
`on_error` is.

**WaveRun** has two kinds of actors, the supervisor's thread and the workers, and the
registry between them. A step is what happens between two acquisitions of the registry's
lock, so a condemnation can fall between any two steps of a worker. A worker goes
`queued, attempt, running, leaving, closing, settling, done`: `leaving` is the `finally`
that revokes the token, `closing` the end of `asyncio.run`. How an agent behaves (its
*fate*) is chosen at the start, so that the serial pass of the same setup can be computed
(`Serial`) and compared with. A node's attempts are bounded by one `MaxAttempts`; the
harness gives side-effecting nodes a bound of 1, which a fate that fails at once shows
just as well. Output gates of the harness, which are not retried, are fates that fail on
every attempt.

**MemoryStore** keeps the remote log, the local cache and the epoch. `Load` is the lazy
replay before a read; `Warm` and `Cold` are the two paths as functions of the log.
`departed` records which uses and faults went beyond the supervisor's own discipline, so
that each property can name those it survives.

**FileVault** is the critical section step by step: `Enter` (lock, and reload if `.gen` has
moved), the note, the failures after it, `Bump`, `Return`. A note's name is made of the
record's address and attempt; a record of a crashed invocation is addressed below its node.
`Loaded` joins the notes clock by clock. Two notes of one clock and address, which a put cut short
can leave, come in any one order: the code sorts them by name.

**Deploy** is `provision_plan` with one action per call that reaches the ledger or the
control plane. `Settle` is the control plane finishing a create (external). A deploy can
die between any two calls, a create can take effect and its response be lost.

**Governor** is `GovernorLoop.run`: `pc` is the loop's node, `ctx` the context the nodes
hand on, `ckpt` the checkpoint store's entry, `ladder` the scheduler's earned grades. One
action per node of the loop, except that an episode is walked node by node (the loop of
`Supervisor.run`, with its holds and blocked producers) and that `collect` folds one outcome
at a time, in any order, since the code iterates over a set. `Raises` is an exception that
leaves a node: out of `run()`, or into the Python driver when LangGraph drives. `Crash` ends
the process between any two steps: store and checkpoint stay, ladder and context go. The DAG
is authored deterministically and every recompile pins the same order, so a plan is its
revision. What an agent answers is one of four outputs, by what the replan signal and the
ladder read of it. A setup says how the loop was built: scheduler, approval, auto-create,
checkpointer, gate, backend, error mode, seeds, who serves what. Checkpoint saves succeed.

**AgentDag** and **Resolve** are `core/dag.py` and `core/resolve.py` as operators on a
record of nodes and edges. `Walk` is one turn of Tarjan's recursion-free walk with its explicit
stack of frames, its lowlinks and component stack, `Turn` adds the outer loop over the nodes not
met, `Tarjan` is the walk after each of its turns; `KahnStep` is one round of the topological
order, `Kahn` the loop after each round.
`Aligned` is `check_alignment` with every gate: single writer per input, strict types,
cover of required inputs, declared I/O, each of them on all nodes or on the strict ones.

**Compile** puts the compiler around a run. `Author` and `AuthorByTemplate` are the two ways
to a topology (the complexity contract binds the model's answer only under `decompose=True`), `BeginStaffing`, `Rebind` and `GiveUp` the greedy search for a team whose types
align, `Compile` is `assemble` when there is no plan and `recompile` when there is: the
monotone guard, then the pins of what has run. `RunNode` is the part of the Supervisor that
reads what was compiled: the overlay of the wires and `extract`. The trust dial is read at
every compile, and moves.

**Ktlo** is the daemon's loop, step by step: the monitor, whose `poll()` copies the queue and
then replaces it (`Poll`, `Monitor`), so that a signal enqueued in between is lost; triage of the
next signal, episode, and the two commits, each a read and a write of the shared store. The source hands the gates to
the daemon's caller and says in their docstrings when to ask and when to commit; the model
composes them that way. An episode may raise, may bring its own write back as a signal, and
its runtime is in the fleet that `Sweep` culls at any moment. A crash takes queue and tally;
the cells stay. `Scenarios` are the fleets looked at: one standing daemon in each detection
mode, one that only launches, two daemons over one store.

**Deliberation** is `form_plan`. `Trail` reads the log of records: the file is replaced whole
on each flush, so one call's records are there together. The inner graph's threads finish in
any order and digest one at a time, payload before marker (`Offload`, `Mark`). A round of the
engine observes the frontier, has each open hypothesis judged or sharpened, and lets leaves
be countered, in two flushes (`Counter`, `Strike`); a seam that raises sends a LangGraph run
into the Python driver over the trail as it is (`SeamRaises`). The steps of a reused precedent
are confident, or, since `form_plan` does not hand `seed` its own confidence floor, open
(`Reuse`). A crash forms the plan anew on
the same trail, or on a fresh one beside the old lane.

**RunLog** and **Dataflow** are what the stores and the Supervisor promise. StateStore
and FileVault refine RunLog (for FileVault the log of acknowledged puts); Supervisor
refines Dataflow with the projection as its outputs.

## 3. Runs

| Run | Bounds | States | Shows |
|---|---|---|---|
| `state_store` | 2 nodes, 2 outputs, 4 records | 0.8 M | caches agree with the log, a reload answers alike, the log is honest about itself, RunLog is implemented |
| `supervisor` | 3 nodes, chain/fork/join, 2 runs, 2 attempts, 8 records | 0.2 M | completed is final, one plan, every node accounted for, Dataflow implemented, runs end |
| `wave_run` | 4 nodes, 2 plans, pool of 2, 2 attempts, 4 fates | 0.3 M | serial records and exception, only futile work pruned, nothing outlives the run, it ends |
| `wave_closed_loop` | same | - | a late condemnation ends the run (finding) |
| `memory_store` | 2 keys, 5 events, 1 crash, 2 kinds of departure | 1.7 M | warm = cold, acknowledged outputs survive, attempts grow |
| `memory_lost_checkpoint` | 2 keys, 4 events | - | a lost checkpoint response loses later outputs (finding) |
| `file_vault` | 2 processes, 2 keys, 3 puts per copy, 1 crash | 3.5 M | acknowledged notes stay, reads are fresh, equal generations mean equal contents |
| `deploy` | 4 nodes, 2 contents, 3 deploys, 1 crash | 0.15 M | rows are ready runtimes, intents cover creates, are settled once and before the walk, deploys end |
| `governor` | 3 nodes, 2 agents, 13 setups, 2 rounds, 3 runs | 0.3 M | trust moves once per completion, dispatch is cleared, withheld stays withheld, rounds are revisions and capped, runs end |
| `compile` | every graph of 3 nodes, some of 4; 9 manifest sets, 3 pools, 2 dials, 2 revisions | 60 k | both judges of a topology agree, a plan serves its run, what ran is frozen, a resume replays what ran |
| `ktlo` | 5 fleets: 2 daemons, 2 entities, 2-3 signals, 1 crash, 2 ticks, clock to 2 | 1.3 M | accounts answer for episodes, tallies add up, the fleet stays warm, runs end |
| `deliberation` | depth 1, 1-2 passes and rounds, 7 records, 2 attacks, 1 crash | 1.9 M | the trail is sound, the plan is grounded, the budget suffices, markers have their raw |

A property that says one thing of several parts is a conjunction of them, each with its own
comment: `LogIsHonest` is `AttemptsAgree` and `DedupRepeats`; `EndsAsSerial` is `SameAsSerial`
and `RaisesEarliest`; `NothingAckedIsLost` is `AckedIsDurable` and `ColdIsDurable`;
`CopiesAreCurrent` is `ReadsAreFresh` and `GenerationIsContent`; `IntentsAreSettled` is
`IntentsAlternate` and `OnlyOwnIntentsOpen`; `PlanServesTheRun` is `WiresAreForward` and
`PayloadsFit`; `GatesAnswerForEpisodes` is `BudgetIsEarned` and `NoEpisodeRepeats`. The type
invariant of a module is part of one of its properties; those of StateStore, Supervisor and
Governor are theorems of their own, those of MemoryStore, Deploy, Ktlo, WaveRun and
Deliberation part of the invariants proved about them.

Why the bounds are enough. *state_store*: the rules compare two records of a node at a
time; four records hold a validated one, a failure, a repeat and a later one, over two
nodes. *supervisor*: three nodes are the least with a chain, a fork and a join; the
second run is the first that resumes, and can change the plan; after it nothing new can
happen to a node that is not already completed or failed. *wave_run*: two sources, a
common consumer and another of only one of them is the least plan where a failure
condemns one sibling and not the other; a pool of two leaves a node queued; two attempts
give a retry with a fresh token. *memory_store*: five events leave room for two
checkpoints with records before, between and after. *file_vault*: three puts let a torn
note, its replacement and a later attempt follow each other; failures are addressed below
their node, as the Supervisor's crashes are, and the violation run has both addresses.
*deploy*: an intent is left open by the first deploy, settled by the second, met by the
third. *governor*: two agents let one serve two nodes, one completed and one open; a round
to make progress, a second to be capped, and a third run that resumes a resumed one.
*compile*: three nodes have every pattern of one and two cycles that Tarjan's walk can meet,
the graphs of four add nested and disjoint ones; a second revision is the first that has a
predecessor with executed nodes of two plans. *ktlo*: a state comes back to an earlier one
with the third signal, the budget of 2 is reached with the third episode that a crash lets
happen, the long floor is reached when the clock is; two daemons need one signal each to race.
*deliberation*: one level below the root is the least depth where a frontier can sink, and budgets
of one and of two lie on both sides of it; two attacks make a defence; one crash leaves a
tree and a lane behind.

Symmetry is used for keys and processes only in runs without liveness properties, and
no module distinguishes them. Deadlock is not checked: every one of these systems may
stop (a run returns, the bounds are spent); where something must happen next, a liveness
property says so.

**Fairness.** `Supervisor!FairSpec` has weak fairness of the run's own steps: one thread
that is scheduled, invocations that return or raise (the transports have timeouts).
`WaveRun!FairSpec` has it for the supervisor's thread and for each worker: threads of the
pool are scheduled by the operating system, and each attempt of an agent ends.
`Deploy!FairSpec` has it for the deploy's step: its calls return, and the wait for
readiness has a timeout. `Governor!FairSpec` has it for the loop's step: one thread, whose
episodes end (`RunEnds` of the Supervisor). `Ktlo!Spec` has it for each daemon's step:
`run()` is a loop nothing blocks, and a dead daemon is stood up again. Nothing is assumed of
crashes, starts of runs, or the control plane. The stores have no liveness property, their
methods being single steps; that a debate converges within its rounds is a safety property
(`BudgetSuffices`).

**Findings.** Two runs show a disagreement between the code and what it says of itself;
`PROJECT.json` quotes the lines. A condemnation delivered to a closed loop raises in the
drain; a checkpoint that was appended but whose response was lost makes a resume skip later
records.

Other disagreements have a configuration each, to be run by hand (`tlc -config X.cfg MCY.tla`
ends with a counterexample):

| Configuration | Module | Property | What the code does |
|---|---|---|---|
| `FileVaultTornNote.cfg` | MCFileVault | `NotesAreImmutable` | a put cut short after its note leaves `.gen` behind; a peer repeats the attempt number and overwrites the note (`filevault.py:1618` calls notes immutable) |
| `DeployAdopted.cfg` | MCDeploy | `AdoptedIsReused` | an adopted or confirmed intent without a row is not found by the reuse lookup (`provision.py:494` says reused, not re-created) |
| `GovernorFallback.cfg` | MCGovernor | `EachEarnsOnce` | a LangGraph drive that fails is started over without the checkpoint; trust moves twice (`loop.py:1259`) |
| `WaveRunReplanned.cfg` | MCWaveRun | `PrunesOnlyFutile` | a resume under a changed plan (the identity guard is off by default, `supervisor.py:358`) lets `futility_closure` (`futility.py:97`) walk through a node that an earlier run completed, and cancels a sibling whose consumer can still run (`supervisor.py:713` prunes when "EVERY consumer just became unreachable") |
| `CompileRedeclared.cfg` | MCCompile | `WiresHold` | re-declaring the outputs of a node that ran passes the monotone guard, which compares entries and wiring only; a later node's wire then raises `WiringError` |
| `CompileRebind.cfg` | MCCompile | `ExhaustedOnlyIfNoneAligns` | the search only ever advances one offender, and gives up although another combination aligns (`authoring.py:241`) |
| `KtloDrift.cfg` | MCKtlo | `DriftIsQuiet` | a run ends at its drained source in a tick in which drift fired: `_pending_drift` is always false (`ktlo.py:729`) |
| `KtloLostSignal.cfg` | MCKtlo | `PollReturnsAll` | `poll()` copies the list and replaces it without a lock: what is enqueued in between is dropped unread (`ktlo.py:100` says each poll returns everything enqueued since the last) |
| `KtloLostFire.cfg` | MCKtlo | `EveryFireCounts` | two daemons that commit at once lose a fire (`ktlo.py:245` calls the cell shared) |
| `DeliberationRejected.cfg` | MCDeliberation | `RejectedIsDropped` | labels come from attacks only, so a rejected hypothesis that nothing attacks becomes a node of the plan (`deliberate.py:162`; `test_lower_drops_rejected_hypotheses` does not reach it) |

What else the models of this group show. An executed node without an authored contract is not
pinned to having none: a recompile that declares its I/O gives it one. A template's fallback
of one node is not held to the complexity contract. Two daemons that race can lose a fire or
a key, never invent one; while one daemon answers, its accounts are exact across crashes but
for the episodes whose commit a crash cut off.

What else the governor's model shows, without a run of its own. An agent found below its bar
stays there for as long as its ladder lives (`WithheldForGood`, proved): all its nodes are
held with it, and only a completed node moves its grade. `_router`'s docstring expects that
"a later round's proposal clears them" (`governor/loop.py:1028`). A contradiction or a low
confidence among completed nodes is read again in every later round, since an episode's
outputs include those of completed nodes: such a run ends by a stall or the cap even with
every node done.

**Mutants.** Each property of a passing run has a mutant, in the module it is about or in
one that module is built from: the definition the code would have with a plausible slip (a dropped guard, a reset that is
missing, a swapped order). TLC finds the property violated for each of them.

## 4. Proofs

TLC checks the instances above; the theorems hold for every value of the constants that
satisfies the modules' assumptions, the named ASSUMEs each module begins with.

**StateStoreProofs.** The inductive invariant is `TypeOK /\ AttemptsAgree /\
ProjectionIsLog /\ NewestExist`. `ProjectionIsLog` alone is not inductive: that a new
record becomes the newest of its node needs its attempt to be above all others, which is
`AttemptsAgree`; and that a rebuild finds a record whenever there is a validated one needs
that a newest one exists (`NewestExist`), an induction over the log that the invariant
carries along instead, since the log grows by one record at a time. From it follow
`ProjectionHolds` (a rebuild would yield the very projection that put() maintained, so that a
reload changes no answer), `CompletedReadable` and `StoreImplementsRunLog` (every step of the store is a Put of RunLog or leaves the log alone). `LogHonest` needs in
addition that a node's later records have higher attempts (`Ordered`), so that the output a
repeat was compared with is that of the newest validated record before it.

About MemoryStore the module proves `MemoryAttemptsGrow`, `AcknowledgedIsKept` and
`ReplaysAgree`. Its invariant has a layer for each set of departures (`MemoryInv`): the raw log
has what was acknowledged whatever happened (`Durable`); unless something was put before the
first read, a rebuild was forced or a checkpoint lost its response, the open epoch is the one a
resume opens, so that nothing is written outside the window it reads (`Opened`); without
rewrites an acknowledged record stays the newest (`Held`); without lost puts a resume finds for
every record one that is no earlier, hence attempts grow across it (`Covered`); without either,
both paths find the same newest records and nothing validated was written again (`Agreed`). That
equal snapshots decide every read (`SnapshotDecides`) makes the last into `ReplayPathsAgree`.
What a replay reads is a recursive function of the log; what one more event does to it
(`RecordAdded`, `CheckpointAdded`) is proved by the induction described below.

About FileVault, for any number of processes, it proves `VaultIsDurable`,
`VaultCopiesAreCurrent` and `VaultImplementsRunLog`. Its invariant (`VaultInv`) starts from the
lock: whoever is in its critical section holds it and a copy of the present generation (`Locks`),
so one process is there at a time. A copy that is not stale has every acknowledged record, and its
counters bound its own records (`Copies`); hence the attempt a put takes is above every
acknowledged one of its node, and a note of that name, which a put cut short can have left, is
none of those (`InDoubt`). Until the put returns, the generation it has bumped, which nobody has
loaded yet (`Dated`), leaves all other copies stale. That equal generations mean equal contents
needs the note in hand as the only difference (`Whole`), and ends with the first put cut short.
`LoadedLists`, by the same induction, says that a reload reads every note and nothing else;
`RebuiltAppends`, that the projection put() maintains is the one a reload would build.

**SupervisorProofs.** The invariant adds to the store's own the control state: types of
the run's variables, what the dispatched node satisfies while it is in flight
(`Dispatched`: not completed, its producers completed, its payload the projection's
values), and `ValidatedIsNewest`. From it: `CompletedIsFinal` and
`RunsImplementDataflow` - each step is a `Produce` of Dataflow or a stutter, a crash with
its reload included, for any number of nodes, plans and runs. `OnePlanHolds` needs in
addition that a run past the guard follows the first recorded plan (`Guarded`).
`RunsAreExplained` is about runs that have returned; what is inductive says it of every node the
walk has passed: it is explained, and stays so, because its producers precede it and the walk
does not come back, while no node ahead has a record of this run.

**GovernorProofs.** None of the ladder's properties is inductive alone; `IInv` ties
together what lives in different places and survives different failures. Revisions count
rounds in the checkpoint as in the loop (`Rounds`), which gives `RoundsAreRevisionsHold`. Until
a checkpoint exists the ladder is at its seeds outside collect (`Unmoved`), so that what is
completed by then belongs to agents whose seed clears (`SeedCleared`); this is what makes a
restart *without* a checkpoint, with its empty completed set, harmless. What moved the ladder
is in the set the loop carries (`Booked`), which is the store's when a plan is made
(`Prefix`); the hold set stays right during an episode (`Current`). Together they exclude that a
withheld agent completes or earns anything (`Withheld`). From it: `EarnedOnceHolds`,
`WithheldForGoodHolds` and `DispatchIsClearedHolds`. The first two are about loops that
resume from a checkpoint (`Resumes`); without one the code does count twice.

**DeployProofs.** `RowsStand` and `IntentsCover`. A row is written after the wait, so the
invariant has what a deploy between its create and its row holds in hand (`AtNode`): the
runtime it waits for is the one it created, with its content, and stays ready. For the intents:
before a two-phase create the ledger has one for the content, which no later entry of
another key takes away, and a runtime has the name of the node it was created for (`Named`),
so that an intent for whose name nothing stands, which the reconciler compensates, covers none.
`IntentsSettle` follows the walk: the results are those of the plan's first nodes (`Visited`),
what is still to reconcile is what is open, each key once (`Reconciling`), and from then on what
is open belongs to the node at hand, until its create is confirmed, or to one that has failed
(`Owned`).

**WaveRunProofs.** `NothingIsLeft`: a run that has ended has no worker alive. A worker is
there for dispatched nodes only (`Idle`), who left `in_flight` was seen done (`Observed`), and a
run ends with `in_flight` empty (`Drained`) or after joining all of them (`Joined`). The
registry's part (`Registered`, `Scheduled`) is needed because a condemnation is delivered
after its lookup: it must find a running attempt, never revive a worker that is done.
A second invariant relates the run to the serial pass: a worker settles on the class its node's
fate has, unless it was condemned (`Works`); only nodes the serial pass dispatches are dispatched
(`Ran`); without cancellation the waves are the layers of the plan, so that the errors of one
wave are of equal depth (`Layered`); what escaped is in `errors` when it was observed
(`Collected`); a condemned node has no consumer left, or the run is going to raise (`Condemned`).
Hence `ParallelIsSerial` and, when the nodes done before the run had their producers done too
(`PlanKept`), `OnlyFutileIsPruned`. That hypothesis is what `WaveRunReplanned.cfg` shows cannot
be left out; it holds of every run whose predecessors ran the same plan.

**CompileProofs.** `SliceFrozen`: `ExecutedSliceFrozen` is inductive as it stands, whatever
authors, manifests and dial do, because what ran is in the prior plan's order, the guard keeps
it in the new one, and the pins take it from the prior plan.

`ReplayFaithful` is what recompile promises a resume: "a faithful replay of the prior plan". It
spans many recompiles, while the guard compares two plans. `OrderSurvives` says of one recompile
that two nodes of the old order stand in the same sequence in the new one, by way of the list
that the guard builds (`Restricted`); the theorem's invariant carries it from the plan that each
node ran under to the present one. The producers of what ran ran too, since a run is a prefix of
an order with wires running forward (`WiresRunForward`), and stay, with the pinned wiring, in front
of it; so the payload is made of the same outputs (`PayloadKept`).

`KahnDecides`: `topological_sort` lists every node once, producers first, exactly when the nodes
can be ranked along the edges. Its invariant (`KahnInv`) says that each node's producers stand
before it in what is out, that a node's indegree counts its producers not yet out, and that ready
are the nodes without any. `WiresRunForward` has it of every plan, since a plan's graph was
validated when it was compiled (`PlanInv`: the types, and that order, entries, wiring and
contracts are over one set of nodes). `PlanServes` adds what a wire meant when it was compiled
(`WireFits`), that what ran still has the outputs it was compiled with (`Kept`) and that what a
node was handed is what its producers declare (`Served`); it is the one theorem of this module
that needs `Redeclares = FALSE`, without which `CompileRedeclared.cfg` shows a wire that fails.

`JudgesAgree` is about the two judges of a topology, on any finite graph: `classify_cycle_edges`
returns the edges whose ends reach one another, and `topological_sort` accepts the graph exactly
when there is none. Reachability is declarative (`Follows` of Compile; in the proof `Leads`: every
set closed under successors that has the one has the other), so that neither algorithm is its own
reference. The argument for Tarjan's walk has four layers.

1. `Core` is its invariant over sets and functions. Nodes are numbered as they are met
   (`Numbers`); a component given out is a class of mutual reachability (`Judged`), and nothing
   leads out of what is given out. A node in hand, that is with a frame, reaches what is above it
   on the stack (`Reaches`), and what is on the stack reaches a node in hand numbered no later
   (`Returns`). A node on the stack that has no frame any more has had all its edges looked at
   (`Seen`). A lowlink is the number of a node reached (`Lowest`), and no edge looked at from what
   is left to a node leads below its lowlink (`Bounds`, `Nearest`).
2. Each thing a turn does to these sets keeps it: `CoreEnters`, `CoreLooks`, `CoreLeaves`, and
   `CoreRoots`, where a node whose lowlink is its own number takes its whole class off the stack.
3. The frames and the stack of the code carry it (`Walking`): a frame stands at the edge to the
   next one (`Nested`), the edges before it are looked at (`Passed`), and the stack rises with the
   numbers (`Rising`).
4. Every turn that is not idle begins a node or is done with one (`Advances`), so that 2 turns
   per node end the walk with all of them in components (`Spent`).

Among what Kahn's loop leaves over, every node has a producer, and the one with the fewest
ancestors lies on a cycle (`StuckHasCycle`). `TopologyJudged` has it of every graph the compiler
is handed, whose nodes are numbers (`Drawn`).

**KtloProofs.** `FleetWarm`. That a runtime at work is up (`Worked`) survives a sweep since
the active ones are excluded. That the fleet is warm is not inductive as said: it needs that
some runtime up was active since the last episode ended, or that the episode is as old as the
long floor (`Warm`). A sweep that takes the freshest runtime finds it idle for the long floor,
and it is at least as fresh as that one.
`TallyHolds` takes a run's hand into account: its batch, less the signal whose commits are still
to be written (`Tallied`). `GatesAnswer` has what the store says of the episodes that ran
(`Accounts`) and what a daemon owes for the one it is at (`Pledges`): the cell it read is no
more than what is committed and, as long as nobody else has run an episode, is as it read it.

**DeliberationProofs.** `MarkersBacked`: between the two writes of a digest the payload is on
disk and no marker has its key (`Pending`). Threads do not matter, as one digest is in hand at
a time; a crash leaves a payload without a marker, which the retry overwrites. `TrailSound`:
a sound log is a forest with its verdicts and markers beside one another, and every mutation
keeps what was there. `PlanGrounded` is about the labelling loop: a pass only adds labels, what
it labels "in" is in every fixed point of defence, and as many passes as there are nodes leave
nothing to add, so that the loop has the least fixed point; the invariant (`DInv`) says that the
stages hand on nodes of the episode's own tree (`Placed`) and that the plan is the lowering of a
converged debate (`Lowering`). `BudgetIsEnough` needs that a pass which began with a frontier of
some depth ends with a deeper one (`Deepening`): TEST closes or replaces every node it visits, and
what CHALLENGE adds is a child of one of those.

**Induction.** The library's induction theorems take an operator as a parameter and cannot be
cited here. The proofs that need one (depths of a trail, layers of a plan, passes of a loop,
reads of a log) take it from the well-foundedness of strict inclusion on finite subsets: a set
of naturals that is not empty has a least member (`Least`), a set that has 0 and successors is
all of them (`Induct`), and a function defined by recursion on the naturals exists
(`RecursionDefines`). Kahn's loop is had the same way (`KahnIs`); Tarjan's walk, turn by turn, by
`Induct` over its prefixes (`TurnsUnroll`).

Only model-checked: liveness (`RunEnds`, `DeployEnds`, `LoopEnds`, `DaemonEnds`), because
fairness and ENABLED are beyond the prover. Every invariant and refinement of a
passing run is stated by a theorem; those of MemoryStore and FileVault through the instances
`Memory` and `Vault` of StateStoreProofs. No module holds a RECURSIVE operator.

## 5. What is not modelled

Rendering of notes and consoles, transport and serialisation, the CLI, and what only reads
the log or copies from it: run projections, scope and cockpit, the health rules, the transfer
of notes into a vault. The registry's registrations and forks only append to the store. The
file vault's run lease is not taken by anything under `src/`, and its version timeline is a
history view no read depends on. The lease would have to be modelled once something takes it:
`RunHeartbeatLock.acquire` (`filevault.py:1575`) checks it and stamps it in two steps, so that two
supervisors can both believe they hold the run. A put cut short by its snapshot is modelled (`WriteFails`).

Assumed: one deploy at a time on a ledger file; load and the generation bump of the file
vault succeed, and a process has one thread; the governor's checkpoint store survives the
process and its saves succeed; one agent serves a node; the governor's DAG does not change
between rounds (Compile has the recompile of changing ones); one process owns a trail; who
re-plans leaves the declarations of executed nodes as they were (`Redeclares = FALSE` in the
run; of the theorems of CompileProofs only `PlanServes` needs it).

Worth doing next, in this order: the composition of Governor with Compile, so that rounds
recompile changing DAGs; two deploys on one ledger file; the lease, once something takes it.
