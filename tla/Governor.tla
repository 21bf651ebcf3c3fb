------------------------------ MODULE Governor ------------------------------
(***************************************************************************)
(* The governor's outer loop (governor/loop.py, GovernorLoop.run) around   *)
(* the Supervisor: plan or recompile, route by trust, run one episode,     *)
(* collect, decide; with the trust ladder (governor/scheduler.py), the     *)
(* round checkpoint and its resume, the episode gate, and the pure-Python  *)
(* driver a failing LangGraph drive falls back to.  A run may return,      *)
(* raise, or die with its process, and another may be started on the same  *)
(* store, checkpoint and - in the same process - ladder.                   *)
(*                                                                         *)
(* Abstractions: the DAG is authored deterministically, so every plan has  *)
(* the same order and wiring and a plan is its revision; of a node's       *)
(* output, what the replan signal and the ladder read; one agent, standing *)
(* or not, can serve a node.                                               *)
(***************************************************************************)
EXTENDS Integers, FiniteSets

CONSTANTS
  N,                \* nodes, numbered in plan.order
  Agent,
  Setups,           \* how loops are built, over which DAG (see Setup)
  MinAutonomy,      \* the bar of a side-effecting agent
  EscalationGrade,  \* the cap of a promotion
  MaxRounds, NoProgressN, MaxRevisions,
  MaxRuns           \* bound: calls of run()

Node == 1..N
Grade == 0..3

\* "yes" and "no" carry contradicting verdicts, "bad" says ok = False, "low"
\* has a confidence below the threshold.
Output == {"yes", "no", "bad", "low"}
Reason == {"none", "failure", "contradiction", "low_confidence"}

Setup == [wiring : [Node -> SUBSET Node],
          serves : [Node -> Agent],        \* who serves a node, once standing
          standing : SUBSET Agent,         \* agents in the process table at first
          answers : [Node -> SUBSET Output],  \* what a node's agent may return
          seed : [Agent -> Grade],
          side_effecting : SUBSET Agent, require_approval : BOOLEAN,
          on_error : {"raise", "record"},
          scheduler : BOOLEAN, auto_create : BOOLEAN, checkpointer : BOOLEAN,
          gate : BOOLEAN, backend : {"langgraph", "python"}]

ASSUME GovernorAssumption ==
  /\ N \in Nat /\ MaxRuns \in Nat
  /\ Setups \subseteq Setup
  /\ \A s \in Setups : \A n \in Node : s.wiring[n] \subseteq 1..(n - 1)
  /\ MinAutonomy \in Grade /\ EscalationGrade \in Grade
  /\ MaxRounds \in Nat \ {0} /\ NoProgressN \in Nat \ {0} /\ MaxRevisions \in Nat

VARIABLES
  setup,
  output, failed,  \* the store: outputs of completed nodes; nodes with a failed record
  ckpt,            \* the CheckpointStore's entry for the run id
  ladder,          \* the scheduler's _earned
  standing,        \* the registry's process table
  ctx,             \* what the loop carries from round to round
  pc,              \* the loop's node, or how run() ended
  driver,          \* who drives the nodes: "langgraph" | "python"
  held,            \* the router's hold set
  at,              \* the node the episode has reached
  to_earn,         \* nodes whose outcome collect has still to fold into the ladder
  terminated_by,
  runs,            \* calls of run()
  base,            \* history: the round this run() started from
  earns,           \* history: times a node's outcome moved this ladder
  withheld,        \* history: agents this ladder's routers found below their bar
  fell_back        \* history: a LangGraph drive failed since the ladder is seeded

durable == <<output, failed, ckpt>>
history == <<base, earns, withheld, fell_back>>
vars == <<setup, durable, ladder, standing, ctx, pc, driver, held, at, to_earn,
          terminated_by, runs, history>>

None == "none"
NoCheckpoint == [plans |-> 0, round |-> 0, no_progress |-> 0, prev_completed |-> 0, reason |-> None]
Ended == {"idle", "returned", "raised"}

\* _initial_ctx; plans counts state.plan_history, so the revision is plans - 1.
InitialCtx == [plans |-> 0, round |-> 0, completed |-> {}, prev_completed |-> 0,
               no_progress |-> 0, reason |-> None, done |-> FALSE, unmatched |-> {}]

Init ==
  /\ setup \in Setups
  /\ output = [n \in Node |-> None] /\ failed = {}
  /\ ckpt = NoCheckpoint
  /\ ladder = setup.seed /\ standing = setup.standing
  /\ ctx = InitialCtx /\ pc = "idle" /\ driver = "python"
  /\ held = {} /\ at = 1 /\ to_earn = {} /\ terminated_by = ""
  /\ runs = 0
  /\ base = 0 /\ earns = [n \in Node |-> 0] /\ withheld = {} /\ fell_back = FALSE

Completed == {n \in Node : output[n] # None}
Frontier == Node \ Completed

-----------------------------------------------------------------------------
(* The trust ladder *)

\* _required_bar
Bar(a) == IF a \in setup.side_effecting THEN MinAutonomy ELSE 0

\* decide: DISPATCH
NeedsApproval(a) == setup.require_approval /\ a \in setup.side_effecting

Clears(a) == ladder[a] >= Bar(a) /\ ~NeedsApproval(a)

Matched(n, table) == setup.serves[n] \in table

\* update_trust
Reearned(grade, outcome) ==
  IF outcome = "bad"
  THEN IF grade = 0 THEN 0 ELSE grade - 1
  ELSE IF grade + 1 <= EscalationGrade THEN grade + 1 ELSE EscalationGrade

-----------------------------------------------------------------------------
(* Starting, failing and dying *)

\* Mutant of Restored: the surviving prefix is not seeded.
RestoredUnseeded ==
  [InitialCtx EXCEPT !.plans = ckpt.plans, !.round = ckpt.round,
                     !.prev_completed = ckpt.prev_completed,
                     !.no_progress = ckpt.no_progress, !.reason = ckpt.reason]

\* _maybe_restore: assemble, then as many recompiles as the checkpoint counts;
\* the counters as saved; the completed set as the log has it now.
Restored ==
  [InitialCtx EXCEPT !.plans = ckpt.plans, !.round = ckpt.round, !.completed = Completed,
                     !.prev_completed = ckpt.prev_completed,
                     !.no_progress = ckpt.no_progress, !.reason = ckpt.reason]

StartRun ==
  /\ pc \in Ended
  /\ runs < MaxRuns
  /\ runs' = runs + 1
  /\ ctx' = IF ckpt = NoCheckpoint THEN InitialCtx ELSE Restored
  /\ base' = ctx'.round
  /\ driver' = setup.backend
  /\ pc' = "planner" /\ terminated_by' = ""
  /\ held' = {} /\ at' = 1 /\ to_earn' = {}
  /\ UNCHANGED <<setup, durable, ladder, standing, earns, withheld, fell_back>>

\* An exception leaves a node of the loop: run() raises it - or, when LangGraph
\* drives, _run_langgraph starts again in Python from _initial_ctx.
Raises ==
  /\ IF driver = "langgraph"
     THEN /\ driver' = "python" /\ pc' = "planner"
          /\ ctx' = InitialCtx /\ base' = 0 /\ fell_back' = TRUE
     ELSE /\ pc' = "raised"
          /\ UNCHANGED <<driver, ctx, base, fell_back>>
  /\ held' = {} /\ at' = 1
  /\ UNCHANGED <<to_earn, terminated_by, runs, earns, withheld>>

\* The process dies, or ends: the ladder is seeded again; the store and the
\* checkpoint survive.
Crash ==
  /\ pc # "idle"
  /\ pc' = "idle"
  /\ ladder' = setup.seed
  /\ earns' = [n \in Node |-> 0] /\ withheld' = {} /\ fell_back' = FALSE
  /\ ctx' = InitialCtx /\ base' = 0 /\ driver' = "python"
  /\ held' = {} /\ at' = 1 /\ to_earn' = {} /\ terminated_by' = ""
  /\ UNCHANGED <<setup, durable, standing, runs>>

-----------------------------------------------------------------------------
(* The nodes of the loop *)

\* recompile refuses a revision beyond max_revisions.
PlannerRefused ==
  /\ pc = "planner"
  /\ ctx.plans > MaxRevisions
  /\ Raises
  /\ UNCHANGED <<setup, durable, ladder, standing>>

\* assemble first, recompile and advance after.
Planner ==
  /\ pc = "planner"
  /\ ctx.plans <= MaxRevisions
  /\ ctx' = [ctx EXCEPT !.plans = @ + 1]
  /\ pc' = "router"
  /\ UNCHANGED <<setup, durable, ladder, standing, driver, held, at, to_earn,
                 terminated_by, runs, history>>

\* Mutant of Withhold: a hold set once computed is kept.
WithholdOnce(table) ==
  /\ held' = IF held # {} THEN held
             ELSE {n \in Frontier : ~Matched(n, table) \/ ~Clears(setup.serves[n])}
  /\ withheld' = withheld \cup {a \in {setup.serves[n] : n \in Frontier} \cap table : ~Clears(a)}
  /\ ctx' = [ctx EXCEPT !.unmatched = @ \cup {n \in Frontier : ~Matched(n, table)}]

\* propose_frontier and the hold set it yields, over a process table.
Withhold(table) ==
  /\ held' = {n \in Frontier : ~Matched(n, table) \/ ~Clears(setup.serves[n])}
  /\ withheld' = withheld \cup {a \in {setup.serves[n] : n \in Frontier} \cap table : ~Clears(a)}
  /\ ctx' = [ctx EXCEPT !.unmatched = @ \cup {n \in Frontier : ~Matched(n, table)}]

\* With auto_create, agents of unmatched nodes are spawned before the proposal;
\* any spawn may fail.
Router ==
  /\ pc = "router"
  /\ \/ /\ ~setup.scheduler
        /\ UNCHANGED <<standing, held, withheld, ctx>>
     \/ /\ setup.scheduler
        /\ \E spawned \in SUBSET {setup.serves[n] : n \in Frontier} :
             /\ ~setup.auto_create => spawned = {}
             /\ standing' = standing \cup spawned
             /\ Withhold(standing')
  /\ pc' = "run_episode" /\ at' = 1
  /\ UNCHANGED <<setup, durable, ladder, driver, to_earn, terminated_by, runs,
                 base, earns, fell_back>>

\* The gate, before anything is dispatched: collect folds nothing and
\* checkpoints nothing, and the loop ends.
GateStops(label) ==
  /\ pc = "run_episode" /\ at = 1
  /\ setup.gate
  /\ ctx' = [ctx EXCEPT !.completed = Completed]
  /\ terminated_by' = label
  /\ pc' = "returned"
  /\ UNCHANGED <<setup, durable, ladder, standing, driver, held, at, to_earn, runs, history>>

InEpisode == pc = "run_episode" /\ at <= N

\* The episode: Supervisor.run over the current plan, node by node.
SkipNode ==
  /\ InEpisode
  /\ at \in Completed \cup held
  /\ at' = at + 1
  /\ UNCHANGED <<setup, durable, ladder, standing, ctx, pc, driver, held, to_earn,
                 terminated_by, runs, history>>

\* Mutant of BlockedNode: the walk waits for the producer.
BlockedNodeWaits ==
  /\ InEpisode
  /\ at \notin Completed \cup held
  /\ ~(setup.wiring[at] \subseteq Completed)
  /\ failed' = failed \cup {at}
  /\ UNCHANGED <<setup, output, ckpt, ladder, standing, ctx, pc, driver, held, at, to_earn,
                 terminated_by, runs, history>>

BlockedNode ==
  /\ InEpisode
  /\ at \notin Completed \cup held
  /\ ~(setup.wiring[at] \subseteq Completed)
  /\ failed' = failed \cup {at}
  /\ at' = at + 1
  /\ UNCHANGED <<setup, output, ckpt, ladder, standing, ctx, pc, driver, held, to_earn,
                 terminated_by, runs, history>>

\* Mutant of Dispatchable: governance is not looked at.
DispatchableHeld ==
  /\ InEpisode
  /\ at \notin Completed
  /\ setup.wiring[at] \subseteq Completed

Dispatchable ==
  /\ InEpisode
  /\ at \notin Completed \cup held
  /\ setup.wiring[at] \subseteq Completed

NodeSucceeds(v) ==
  /\ Dispatchable
  /\ v \in setup.answers[at]
  /\ output' = [output EXCEPT ![at] = v]
  /\ at' = at + 1
  /\ UNCHANGED <<setup, failed, ckpt, ladder, standing, ctx, pc, driver, held, to_earn,
                 terminated_by, runs, history>>

\* A failure is recorded under "record"; under "raise", or when it is one no
\* handler of the Supervisor catches, the exception leaves the episode.
NodeFails ==
  /\ Dispatchable
  /\ \/ /\ setup.on_error = "record"
        /\ failed' = failed \cup {at}
        /\ at' = at + 1
        /\ UNCHANGED <<ctx, pc, driver, held, to_earn, terminated_by, runs, history>>
     \/ /\ Raises
        /\ UNCHANGED failed
  /\ UNCHANGED <<setup, output, ckpt, ladder, standing>>

\* Completed now and not in the prior round's set.
NewlyCompleted == Completed \ ctx.completed

\* The episode returns; collect starts.
EpisodeEnds ==
  /\ pc = "run_episode" /\ at > N
  /\ ctx' = [ctx EXCEPT !.round = @ + 1]
  /\ to_earn' = IF setup.scheduler THEN NewlyCompleted ELSE {}
  /\ pc' = "collect"
  /\ UNCHANGED <<setup, durable, ladder, standing, driver, held, at, terminated_by, runs, history>>

\* One outcome is folded into the ladder; collect iterates over a set, so the
\* order is any.
Earn(n) ==
  /\ pc = "collect"
  /\ n \in to_earn
  /\ ladder' = [ladder EXCEPT ![setup.serves[n]] = Reearned(@, output[n])]
  /\ to_earn' = to_earn \ {n}
  /\ earns' = [earns EXCEPT ![n] = @ + 1]
  /\ UNCHANGED <<setup, durable, standing, ctx, pc, driver, held, at, terminated_by, runs,
                 base, withheld, fell_back>>

\* _detect_replan_reason; the episode's outputs are those of all completed nodes.
ReplanReason ==
  LET outputs == {output[n] : n \in Completed}
  IN  IF "bad" \in outputs \/ failed \ Completed # {} THEN "failure"
      ELSE IF {"yes", "no"} \subseteq outputs THEN "contradiction"
      ELSE IF "low" \in outputs THEN "low_confidence"
      ELSE None

\* _save_checkpoint: a version and counters, no plan and no completed set.
Saved(c) == [plans |-> c.plans, round |-> c.round, no_progress |-> c.no_progress,
             prev_completed |-> c.prev_completed, reason |-> c.reason]

\* Progress is measured, the signal read, the checkpoint saved.
Collect ==
  /\ pc = "collect"
  /\ to_earn = {}
  /\ ctx' = [ctx EXCEPT !.completed = Completed,
                        !.prev_completed = Cardinality(Completed),
                        !.no_progress = IF Cardinality(Completed) > ctx.prev_completed
                                        THEN 0 ELSE @ + 1,
                        !.done = (Frontier = {}),
                        !.reason = ReplanReason]
  /\ ckpt' = IF setup.checkpointer THEN Saved(ctx') ELSE ckpt
  /\ pc' = "route"
  /\ UNCHANGED <<setup, output, failed, ladder, standing, driver, held, at, to_earn,
                 terminated_by, runs, history>>

Capped == ctx.round >= MaxRounds
Stalled == ctx.no_progress >= NoProgressN

\* Mutant of Verdict: a replan signal overrides the round cap.
VerdictUncapped ==
  IF ctx.reason # None THEN IF Stalled THEN "no_progress" ELSE "planner"
  ELSE IF ctx.done THEN "frontier_exhaust"
  ELSE IF Stalled THEN "no_progress"
  ELSE IF Capped THEN "round_cap" ELSE "planner"

\* _decide_route and _no_progress_label
Verdict ==
  LET stall == IF ctx.unmatched # {} /\ ctx.completed = {} THEN "unmatched_stall"
               ELSE "no_progress"
  IN  IF ctx.reason # None
      THEN IF Capped THEN "round_cap" ELSE IF Stalled THEN stall ELSE "planner"
      ELSE IF ctx.done THEN "frontier_exhaust"
      ELSE IF Stalled THEN stall
      ELSE IF Capped THEN "round_cap" ELSE "planner"

Route ==
  /\ pc = "route"
  /\ IF Verdict = "planner"
     THEN pc' = "planner" /\ UNCHANGED terminated_by
     ELSE pc' = "returned" /\ terminated_by' = Verdict
  /\ UNCHANGED <<setup, durable, ladder, standing, ctx, driver, held, at, to_earn, runs, history>>

Step ==
  \/ PlannerRefused \/ Planner \/ Router
  \/ \E label \in {"aborted", "paused"} : GateStops(label)
  \/ SkipNode \/ BlockedNode \/ (\E v \in Output : NodeSucceeds(v)) \/ NodeFails
  \/ EpisodeEnds \/ (\E n \in Node : Earn(n)) \/ Collect \/ Route

Next == StartRun \/ Step \/ Crash

Spec == Init /\ [][Next]_vars

\* The thread of run() is scheduled and the episodes' invokes end.
FairSpec == Spec /\ WF_vars(Step)

-----------------------------------------------------------------------------
(* Properties *)

Checkpoint == [plans : Nat, round : Nat, no_progress : Nat, prev_completed : 0..N,
               reason : Reason]
Context == [plans : Nat, round : Nat, completed : SUBSET Node, prev_completed : 0..N,
            no_progress : Nat, reason : Reason, done : BOOLEAN, unmatched : SUBSET Node]

TypeOK ==
  /\ setup \in Setups
  /\ output \in [Node -> Output \cup {None}] /\ failed \subseteq Node
  /\ ckpt \in Checkpoint
  /\ ladder \in [Agent -> Grade] /\ standing \subseteq Agent
  /\ ctx \in Context
  /\ pc \in Ended \cup {"planner", "router", "run_episode", "collect", "route"}
  /\ driver \in {"langgraph", "python"}
  /\ held \subseteq Node /\ at \in 1..(N + 1) /\ to_earn \subseteq Node
  /\ terminated_by \in {"", "aborted", "paused", "frontier_exhaust", "no_progress",
                        "unmatched_stall", "round_cap"}
  /\ runs \in Nat /\ base \in Nat
  /\ earns \in [Node -> Nat] /\ withheld \subseteq Agent /\ fell_back \in BOOLEAN

\* What the ladder's properties rest on: a checkpoint to resume from, and no
\* LangGraph drive that failed and was started over without it.
Resumes == setup.checkpointer /\ ~fell_back

\* However runs end and resume, a node's completion moves the ladder at most
\* once (_collect: "each node exactly ONCE, the round it finishes").
EarnedOnce == Resumes => \A n \in Node : earns[n] <= 1

\* The same of every loop with a checkpoint, as collect's docstring says it.
EachEarnsOnce == setup.checkpointer => \A n \in Node : earns[n] <= 1

\* A node is dispatched only while the agent that serves it stands and clears
\* its bar, although the hold set was computed before the episode.
DispatchIsCleared ==
  [][\A n \in Node : output'[n] # output[n] /\ setup.scheduler =>
       setup.serves[n] \in standing /\ Clears(setup.serves[n])]_vars

\* An agent withheld once is withheld for as long as the ladder lives: every
\* node of an agent is held with it, and only a completed node moves its grade.
WithheldForGood ==
  Resumes /\ pc = "run_episode" => \A a \in withheld : ~Clears(a)

\* Across returns, exceptions, crashes and gates, each round has a revision of
\* its own, its number; and a run() has its rounds capped, a resumed one to a
\* single round when the cap was reached before.
RoundsAreRevisions ==
  pc = "run_episode" =>
    /\ ctx.plans = ctx.round + 1
    /\ ctx.round < MaxRounds \/ ctx.round = base

\* Every run ends, whatever the signal says.
LoopEnds == pc \notin Ended ~> pc \in Ended
=============================================================================
