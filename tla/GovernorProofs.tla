--------------------------- MODULE GovernorProofs ---------------------------
(***************************************************************************)
(* Proofs about Governor, for every number of nodes, agents and setups,    *)
(* every bar, cap and bound, and every number of runs.                     *)
(***************************************************************************)
EXTENDS Governor, FiniteSetTheorems, TLAPS

(***************************************************************************)
(* The inductive invariant.  Revisions count rounds, in the checkpoint as  *)
(* in the loop (Rounds).  Until a checkpoint exists the ladder stands at   *)
(* its seeds outside collect (Unmoved), so that what is completed by then  *)
(* was completed by agents whose seed clears (SeedCleared).  What moved    *)
(* the ladder is in the completed set the loop carries (Booked), which is  *)
(* the store's whenever a plan is made, once a checkpoint exists (Prefix). *)
(* The hold set is right for as long as the episode lasts (Current): the   *)
(* ladder moves in collect only.  Hence an agent withheld completes        *)
(* nothing more and its grade stays (Withheld).                            *)
(***************************************************************************)
Rounds ==
  /\ ckpt.plans = ckpt.round
  /\ pc \in {"planner", "collect", "route"} => ctx.plans = ctx.round
  /\ pc \in {"router", "run_episode"} => ctx.plans = ctx.round + 1
  /\ pc \in {"planner", "router", "run_episode"} => ctx.round < MaxRounds \/ ctx.round = base
  /\ pc \in {"collect", "route"} => ctx.round > 0

Unmoved ==
  setup.checkpointer /\ ckpt.plans = 0 /\ pc # "collect" =>
    ladder = setup.seed /\ \A n \in Node : earns[n] = 0

SeedCleared ==
  setup.checkpointer /\ setup.scheduler /\ ckpt.plans = 0 =>
    \A n \in Completed :
      setup.seed[setup.serves[n]] >= Bar(setup.serves[n]) /\ ~NeedsApproval(setup.serves[n])

Booked ==
  Resumes =>
    \A n \in Node :
      /\ earns[n] <= 1
      /\ earns[n] = 1 => n \in Completed
      /\ pc \in {"planner", "router", "run_episode", "route"} /\ earns[n] = 1 => n \in ctx.completed
      /\ pc = "collect" /\ n \in to_earn => earns[n] = 0 /\ n \in Completed \ ctx.completed

Current ==
  pc = "run_episode" /\ setup.scheduler =>
    \A n \in Node \ (Completed \cup held) :
      setup.serves[n] \in standing /\ Clears(setup.serves[n])

Prefix ==
  Resumes /\ pc \in {"planner", "router", "route"} =>
    ctx.completed = Completed \/ ckpt.plans = 0

Withheld ==
  /\ withheld # {} => setup.scheduler
  /\ Resumes =>
       \A a \in withheld :
         /\ ~Clears(a)
         /\ pc \notin Ended =>
              \A n \in Completed : setup.serves[n] = a => n \in ctx.completed

IInv ==
  /\ TypeOK /\ Rounds /\ Unmoved /\ SeedCleared /\ Booked /\ Current /\ Prefix /\ Withheld

-----------------------------------------------------------------------------
(* Types *)

LEMMA SetupTypes ==
  ASSUME setup \in Setups
  PROVE  /\ setup \in Setup
         /\ \A n \in Node : setup.serves[n] \in Agent /\ setup.answers[n] \subseteq Output
         /\ setup.seed \in [Agent -> Grade] /\ setup.standing \subseteq Agent
BY GovernorAssumption DEF Setup

LEMMA CompletedCount == Cardinality(Completed) \in 0..N /\ Cardinality(Completed) \in Nat
<1>1. IsFiniteSet(Node) /\ Cardinality(Node) = N
  BY FS_Interval, GovernorAssumption DEF Node
<1>2. Completed \subseteq Node
  BY DEF Completed
<1>3. IsFiniteSet(Completed) /\ Cardinality(Completed) <= N /\ Cardinality(Completed) \in Nat
  BY <1>1, <1>2, FS_Subset, FS_CardinalityType
<1>4. QED
  BY <1>3, GovernorAssumption

LEMMA ReearnedType ==
  ASSUME NEW g \in Grade, NEW v
  PROVE  Reearned(g, v) \in Grade
BY GovernorAssumption DEF Reearned, Grade

LEMMA NodeBounds == 1 \in 1..(N + 1) /\ \A n \in Node : n \in 1..(N + 1) /\ n + 1 \in 1..(N + 1)
BY GovernorAssumption DEF Node

LEMMA InRange ==
  ASSUME at \in 1..(N + 1), InEpisode
  PROVE  at \in Node
BY GovernorAssumption DEF InEpisode, Node

\* Counting up.
LEMMA Counted ==
  /\ \A i \in Nat : i + 1 \in Nat
  /\ \A f \in [Node -> Nat], n \in Node : [f EXCEPT ![n] = @ + 1] \in [Node -> Nat]
  /\ \A c \in Context, i \in Nat : (IF i > c.prev_completed THEN 0 ELSE c.no_progress + 1) \in Nat
BY DEF Context

\* The updates of the loop's context.
LEMMA ContextUpdates ==
  ASSUME NEW c \in Context, NEW done \in SUBSET Node
  PROVE  /\ [c EXCEPT !.plans = @ + 1] \in Context
         /\ [c EXCEPT !.round = @ + 1] \in Context
         /\ [c EXCEPT !.completed = done] \in Context
         /\ [c EXCEPT !.unmatched = @ \cup done] \in Context
BY DEF Context

LEMMA InitialCtxType == InitialCtx \in Context
BY GovernorAssumption DEF InitialCtx, Context, Reason, None

LEMMA NoCheckpointType == NoCheckpoint \in Checkpoint
BY GovernorAssumption DEF NoCheckpoint, Checkpoint, Reason, None

LEMMA RestoredType ==
  ASSUME ckpt \in Checkpoint
  PROVE  Restored \in Context
BY InitialCtxType DEF Restored, Context, Checkpoint, Completed, InitialCtx

LEMMA ReplanReasonType == ReplanReason \in Reason
BY DEF ReplanReason, Reason, None

LEMMA InitType == Init => TypeOK
<1>1. SUFFICES ASSUME Init PROVE TypeOK
  OBVIOUS
<1>2. setup \in Setups /\ ladder \in [Agent -> Grade] /\ standing \subseteq Agent
  BY <1>1, SetupTypes DEF Init
<1>3. output \in [Node -> Output \cup {None}] /\ failed \subseteq Node
  BY <1>1 DEF Init
<1>4. ckpt \in Checkpoint /\ ctx \in Context /\ at \in 1..(N + 1)
  BY <1>1, InitialCtxType, NoCheckpointType, NodeBounds DEF Init
<1>5. earns \in [Node -> Nat] /\ withheld \subseteq Agent /\ fell_back \in BOOLEAN
  BY <1>1 DEF Init
<1>6. QED
  BY <1>1, <1>2, <1>3, <1>4, <1>5 DEF Init, TypeOK, Ended

LEMMA RaisesType ==
  ASSUME TypeOK, Raises
  PROVE  /\ ctx' \in Context /\ base' \in Nat /\ fell_back' \in BOOLEAN
         /\ driver' \in {"langgraph", "python"} /\ pc' \in {"planner", "raised"}
         /\ held' \subseteq Node /\ at' \in 1..(N + 1)
         /\ UNCHANGED <<to_earn, terminated_by, runs, earns, withheld>>
<1>1. CASE driver = "langgraph"
  <2>1. driver' = "python" /\ pc' = "planner" /\ ctx' = InitialCtx /\ base' = 0
        /\ fell_back' = TRUE
    BY <1>1 DEF Raises
  <2>2. held' = {} /\ at' = 1 /\ UNCHANGED <<to_earn, terminated_by, runs, earns, withheld>>
    BY DEF Raises
  <2>3. fell_back' \in BOOLEAN
    BY <2>1
  <2>4. base' \in Nat
    BY <2>1
  <2>5. QED
    BY <2>1, <2>2, <2>3, <2>4, InitialCtxType, NodeBounds
<1>2. CASE driver # "langgraph"
  <2>1. UNCHANGED <<driver, ctx, base, fell_back>> /\ pc' = "raised"
    BY <1>2 DEF Raises
  <2>2. held' = {} /\ at' = 1 /\ UNCHANGED <<to_earn, terminated_by, runs, earns, withheld>>
    BY DEF Raises
  <2>3. QED
    BY <2>1, <2>2, NodeBounds DEF TypeOK
<1>3. QED
  BY <1>1, <1>2

LEMMA TypeStep ==
  ASSUME TypeOK, [Next]_vars
  PROVE  TypeOK'
<1> USE DEF TypeOK, durable, history, Ended
<1>1. ASSUME StartRun PROVE TypeOK'
  <2>1. ctx' \in Context /\ base' \in Nat
    <3>1. ctx' \in Context
      BY <1>1, InitialCtxType, RestoredType DEF StartRun
    <3>2. QED
      BY <1>1, <3>1 DEF StartRun, Context
  <2>2. setup \in Setup
    BY SetupTypes
  <2>3. driver' \in {"langgraph", "python"}
    BY <1>1, <2>2 DEF StartRun, Setup
  <2>4. runs' \in Nat
    <3>1. runs' = runs + 1
      BY <1>1 DEF StartRun
    <3>2. QED
      BY <3>1, Counted
  <2>5. QED
    BY <1>1, <2>1, <2>3, <2>4, NodeBounds DEF StartRun
<1>2. ASSUME Crash PROVE TypeOK'
  <2>1. setup.seed \in [Agent -> Grade]
    BY SetupTypes
  <2>2. QED
    BY <1>2, <2>1, InitialCtxType, NodeBounds DEF Crash
<1>3. ASSUME PlannerRefused PROVE TypeOK'
  BY <1>3, RaisesType DEF PlannerRefused
<1>4. ASSUME Planner PROVE TypeOK'
  <2>1. ctx' \in Context
    BY <1>4, ContextUpdates DEF Planner
  <2>2. QED
    BY <1>4, <2>1 DEF Planner
<1>5. ASSUME Router PROVE TypeOK'
  <2>1. CASE ~setup.scheduler
    BY <1>5, <2>1, NodeBounds DEF Router
  <2>2. CASE setup.scheduler
    <3>1. PICK spawned \in SUBSET {setup.serves[n] : n \in Frontier} :
            standing' = standing \cup spawned /\ Withhold(standing')
      BY <1>5, <2>2 DEF Router
    <3>2. Frontier \subseteq Node
      BY DEF Frontier
    <3>3. \A n \in Frontier : setup.serves[n] \in Agent
      BY <3>2, SetupTypes
    <3>4. standing' \subseteq Agent
      <4>1. {setup.serves[n] : n \in Frontier} \subseteq Agent
        BY <3>3
      <4>2. QED
        BY <3>1, <4>1
    <3>5. held' \subseteq Node /\ withheld' \subseteq Agent
      BY <3>1, <3>2, <3>4 DEF Withhold
    <3>6. ctx' \in Context
      BY <3>1, <3>2 DEF Withhold, Context
    <3>7. QED
      BY <1>5, <3>4, <3>5, <3>6, NodeBounds DEF Router
  <2>3. QED
    BY <2>1, <2>2
<1>6. ASSUME NEW l \in {"aborted", "paused"}, GateStops(l) PROVE TypeOK'
  <2>1. ctx' \in Context
    BY <1>6 DEF GateStops, Context, Completed
  <2>2. QED
    BY <1>6, <2>1 DEF GateStops
<1>7. ASSUME SkipNode PROVE TypeOK'
  BY <1>7, NodeBounds, InRange DEF SkipNode, InEpisode
<1>8. ASSUME BlockedNode PROVE TypeOK'
  BY <1>8, NodeBounds, InRange DEF BlockedNode
<1>9. ASSUME NEW v \in Output, NodeSucceeds(v) PROVE TypeOK'
  BY <1>9, NodeBounds, InRange DEF NodeSucceeds, Dispatchable
<1>10. ASSUME NodeFails PROVE TypeOK'
  <2>1. InEpisode
    BY <1>10 DEF NodeFails, Dispatchable
  <2>2. CASE Raises /\ UNCHANGED failed
    BY <1>10, <2>2, RaisesType DEF NodeFails
  <2>3. CASE failed' = failed \cup {at} /\ at' = at + 1
             /\ UNCHANGED <<ctx, pc, driver, held, to_earn, terminated_by, runs, history>>
    BY <1>10, <2>1, <2>3, NodeBounds, InRange DEF NodeFails
  <2>4. QED
    BY <1>10, <2>2, <2>3 DEF NodeFails
<1>11. ASSUME EpisodeEnds PROVE TypeOK'
  <2>1. ctx' \in Context
    BY <1>11, ContextUpdates DEF EpisodeEnds
  <2>2. to_earn' \subseteq Node
    BY <1>11 DEF EpisodeEnds, NewlyCompleted, Completed
  <2>3. QED
    BY <1>11, <2>1, <2>2 DEF EpisodeEnds
<1>12. ASSUME NEW n \in Node, Earn(n) PROVE TypeOK'
  <2>1. setup.serves[n] \in Agent
    BY SetupTypes
  <2>2. Reearned(ladder[setup.serves[n]], output[n]) \in Grade
    BY <2>1, ReearnedType
  <2>3. ladder' \in [Agent -> Grade]
    BY <1>12, <2>2 DEF Earn
  <2>4. earns' \in [Node -> Nat] /\ to_earn' \subseteq Node
    <3>1. to_earn' = to_earn \ {n} /\ earns' = [earns EXCEPT ![n] = @ + 1]
      BY <1>12 DEF Earn
    <3>2. QED
      BY <3>1, Counted
  <2>5. QED
    BY <1>12, <2>3, <2>4 DEF Earn
<1>13. ASSUME Collect PROVE TypeOK'
  <2>1. Completed \subseteq Node
    BY DEF Completed
  <2>2. ctx' \in Context
    <3>1. PICK stalled \in Nat, reason \in Reason, count \in 0..N, done \in BOOLEAN :
            ctx' = [ctx EXCEPT !.completed = Completed, !.prev_completed = count,
                               !.no_progress = stalled, !.done = done, !.reason = reason]
      <4>1. (IF Cardinality(Completed) > ctx.prev_completed THEN 0 ELSE ctx.no_progress + 1) \in Nat
        <5>1. Cardinality(Completed) \in Nat
          BY CompletedCount
        <5>2. QED
          BY <5>1, Counted
      <4>2. QED
        BY <1>13, <4>1, ReplanReasonType, CompletedCount DEF Collect
    <3>2. QED
      BY <2>1, <3>1 DEF Context
  <2>3. ckpt' \in Checkpoint
    BY <1>13, <2>2 DEF Collect, Saved, Context, Checkpoint
  <2>4. QED
    BY <1>13, <2>2, <2>3 DEF Collect
<1>14. ASSUME Route PROVE TypeOK'
  BY <1>14 DEF Route, Verdict
<1>15. ASSUME UNCHANGED vars PROVE TypeOK'
  BY <1>15 DEF vars
<1>16. QED
  BY <1>1, <1>2, <1>3, <1>4, <1>5, <1>6, <1>7, <1>8, <1>9, <1>10, <1>11, <1>12, <1>13, <1>14,
     <1>15 DEF Next, Step

\* Every reachable state of every loop is well-typed: grades stay on the
\* ladder, counters are numbers, the hold set names nodes (TypeOK).
THEOREM TypesHold == Spec => []TypeOK
<1>1. Init => TypeOK
  BY InitType
<1>2. TypeOK /\ [Next]_vars => TypeOK'
  BY TypeStep
<1>3. QED
  BY <1>1, <1>2, PTL DEF Spec

-----------------------------------------------------------------------------
(* Rounds *)

LEMMA RoundsStep ==
  ASSUME TypeOK, Rounds, [Next]_vars
  PROVE  Rounds'
<1> USE DEF Rounds, durable, history
<1>1. MaxRounds \in Nat \ {0} /\ ctx \in Context /\ ckpt \in Checkpoint /\ base \in Nat
  BY GovernorAssumption DEF TypeOK
<1>2. ASSUME StartRun PROVE Rounds'
  BY <1>1, <1>2 DEF StartRun, Restored, InitialCtx
<1>3. ASSUME Crash PROVE Rounds'
  BY <1>3 DEF Crash
<1>4. ASSUME Raises, UNCHANGED ckpt PROVE Rounds'
  BY <1>1, <1>4 DEF Raises, InitialCtx
<1>5. ASSUME PlannerRefused PROVE Rounds'
  BY <1>4, <1>5 DEF PlannerRefused
<1>6. ASSUME Planner PROVE Rounds'
  BY <1>1, <1>6 DEF Planner, Context
<1>7. ASSUME Router PROVE Rounds'
  BY <1>1, <1>7 DEF Router, Withhold, Context
<1>8. ASSUME NEW l \in {"aborted", "paused"}, GateStops(l) PROVE Rounds'
  BY <1>8 DEF GateStops
<1>9. ASSUME SkipNode \/ BlockedNode \/ \E v \in Output : NodeSucceeds(v) PROVE Rounds'
  BY <1>9 DEF SkipNode, BlockedNode, NodeSucceeds
<1>10. ASSUME NodeFails PROVE Rounds'
  BY <1>4, <1>10 DEF NodeFails
<1>11. ASSUME EpisodeEnds PROVE Rounds'
  BY <1>1, <1>11 DEF EpisodeEnds, Context
<1>12. ASSUME NEW n \in Node, Earn(n) PROVE Rounds'
  BY <1>12 DEF Earn
<1>13. ASSUME Collect PROVE Rounds'
  BY <1>1, <1>13 DEF Collect, Saved, Context
<1>14. ASSUME Route PROVE Rounds'
  <2>1. Verdict = "planner" => ctx.round < MaxRounds
    BY <1>1 DEF Verdict, Capped, Context
  <2>2. QED
    BY <1>14, <2>1 DEF Route
<1>15. ASSUME UNCHANGED vars PROVE Rounds'
  BY <1>15 DEF vars
<1>16. QED
  BY <1>2, <1>3, <1>5, <1>6, <1>7, <1>8, <1>9, <1>10, <1>11, <1>12, <1>13, <1>14, <1>15
  DEF Next, Step

\* Across every way a run ends and resumes, an episode's revision is its round,
\* and its rounds are capped (RoundsAreRevisions).
THEOREM RoundsAreRevisionsHold == Spec => []RoundsAreRevisions
<1>1. Init => TypeOK /\ Rounds
  <2>1. Init => Rounds
    <3>1. Init => pc = "idle" /\ ckpt = NoCheckpoint
      BY DEF Init
    <3>2. QED
      BY <3>1 DEF Rounds, NoCheckpoint
  <2>2. QED
    BY <2>1, InitType
<1>2. TypeOK /\ Rounds /\ [Next]_vars => (TypeOK /\ Rounds)'
  BY TypeStep, RoundsStep
<1>3. TypeOK /\ Rounds => RoundsAreRevisions
  BY DEF Rounds, RoundsAreRevisions
<1>4. QED
  BY <1>1, <1>2, <1>3, PTL DEF Spec

-----------------------------------------------------------------------------
(* What a step leaves alone *)

LEMMA SetupFixed ==
  ASSUME [Next]_vars
  PROVE  setup' = setup
BY DEF Next, Step, vars, StartRun, Crash, PlannerRefused, Planner, Router, GateStops, SkipNode,
       BlockedNode, NodeSucceeds, NodeFails, EpisodeEnds, Earn, Collect, Route

\* Only a crash and collect's loop move the ladder.
LEMMA LadderFrame ==
  ASSUME [Next]_vars, ~Crash, \A n \in Node : ~Earn(n)
  PROVE  ladder' = ladder /\ earns' = earns
BY DEF Next, Step, vars, history, StartRun, PlannerRefused, Planner, Router, GateStops, SkipNode,
       BlockedNode, NodeSucceeds, NodeFails, EpisodeEnds, Collect, Route, Raises

\* Only a successful dispatch completes a node.
LEMMA OutputFrame ==
  ASSUME [Next]_vars, \A v \in Output : ~NodeSucceeds(v)
  PROVE  output' = output
BY DEF Next, Step, vars, durable, StartRun, Crash, PlannerRefused, Planner, Router, GateStops,
       SkipNode, BlockedNode, NodeFails, EpisodeEnds, Earn, Collect, Route

\* Only collect saves a checkpoint.
LEMMA CheckpointFrame ==
  ASSUME [Next]_vars, ~Collect
  PROVE  ckpt' = ckpt
BY DEF Next, Step, vars, durable, StartRun, Crash, PlannerRefused, Planner, Router, GateStops,
       SkipNode, BlockedNode, NodeSucceeds, NodeFails, EpisodeEnds, Earn, Route

LEMMA CompletedFrame == output' = output => Completed' = Completed
BY DEF Completed

LEMMA ClearsFrame ==
  ASSUME setup' = setup, ladder' = ladder
  PROVE  \A a : Clears(a)' <=> Clears(a)
BY DEF Clears, Bar, NeedsApproval

LEMMA SuccessCompletes ==
  ASSUME TypeOK, NEW v \in Output, NodeSucceeds(v)
  PROVE  Completed' = Completed \cup {at} /\ at \in Node /\ at \notin Completed \cup held
<1>1. at \in Node
  BY InRange DEF NodeSucceeds, Dispatchable, TypeOK
<1>2. output' = [output EXCEPT ![at] = v] /\ v # None
  BY DEF NodeSucceeds, Output, None
<1>3. Completed' = Completed \cup {at}
  BY <1>1, <1>2 DEF Completed, TypeOK
<1>4. QED
  BY <1>1, <1>3 DEF NodeSucceeds, Dispatchable

\* Loops stop resuming, and start to again with a new process only.
LEMMA ResumesFrame ==
  ASSUME [Next]_vars, ~Crash, Resumes'
  PROVE  Resumes
<1>1. UNCHANGED fell_back \/ fell_back' = TRUE
  BY DEF Next, Step, vars, history, StartRun, PlannerRefused, Planner, Router,
     GateStops, SkipNode, BlockedNode, NodeSucceeds, NodeFails, EpisodeEnds, Earn, Collect,
     Route, Raises
<1>2. QED
  BY <1>1, SetupFixed DEF Resumes

\* A resuming loop that raises ends its run.
LEMMA RaisesEnds ==
  ASSUME Raises, Resumes'
  PROVE  pc' = "raised"
BY DEF Raises, Resumes

-----------------------------------------------------------------------------
(* Before the first checkpoint, and the hold set *)

LEMMA UnmovedStep ==
  ASSUME TypeOK, Rounds, Unmoved, [Next]_vars
  PROVE  Unmoved'
<1> USE SetupFixed DEF Unmoved
<1>1. CASE Crash
  BY <1>1 DEF Crash
<1>2. ASSUME NEW n \in Node, Earn(n) PROVE Unmoved'
  BY <1>2 DEF Earn
<1>3. CASE Collect
  <2>1. setup.checkpointer => ckpt'.plans > 0
    BY <1>3 DEF Collect, Saved, Rounds
  <2>2. QED
    BY <1>3, <2>1 DEF Collect
<1>4. CASE ~Crash /\ ~Collect /\ \A n \in Node : ~Earn(n)
  <2>1. ladder' = ladder /\ earns' = earns /\ ckpt' = ckpt
    BY <1>4, LadderFrame, CheckpointFrame
  <2>2. pc = "collect" => pc' = "collect"
    BY <1>4 DEF Next, Step, vars, StartRun, Ended, PlannerRefused, Planner, Router, GateStops,
       SkipNode, BlockedNode, NodeSucceeds, NodeFails, Dispatchable, InEpisode, EpisodeEnds, Route
  <2>3. QED
    BY <2>1, <2>2
<1>5. QED
  BY <1>1, <1>2, <1>3, <1>4

LEMMA SeedClearedStep ==
  ASSUME TypeOK, Rounds, Unmoved, Current, SeedCleared, [Next]_vars
  PROVE  SeedCleared'
<1> USE SetupFixed DEF SeedCleared, Bar, NeedsApproval
<1>1. CASE Collect
  <2>1. setup.checkpointer => ckpt'.plans > 0
    BY <1>1 DEF Collect, Saved, Rounds
  <2>2. QED
    BY <2>1
<1>2. ASSUME NEW v \in Output, NodeSucceeds(v) PROVE SeedCleared'
  <2>1. ckpt' = ckpt /\ pc = "run_episode"
    BY <1>2 DEF NodeSucceeds, Dispatchable, InEpisode
  <2>2. SUFFICES ASSUME setup.checkpointer, setup.scheduler, ckpt.plans = 0
        PROVE  \A n \in Completed' : setup.seed[setup.serves[n]] >= Bar(setup.serves[n])
                                      /\ ~NeedsApproval(setup.serves[n])
    BY <2>1
  <2>3. setup.seed[setup.serves[at]] >= Bar(setup.serves[at]) /\ ~NeedsApproval(setup.serves[at])
    BY <1>2, <2>1, <2>2, SuccessCompletes DEF Current, Unmoved, Clears
  <2>4. QED
    BY <1>2, <2>2, <2>3, SuccessCompletes
<1>3. CASE ~Collect /\ \A v \in Output : ~NodeSucceeds(v)
  BY <1>3, OutputFrame, CompletedFrame, CheckpointFrame
<1>4. QED
  BY <1>1, <1>2, <1>3

LEMMA CurrentStep ==
  ASSUME TypeOK, Current, [Next]_vars
  PROVE  Current'
<1> USE SetupFixed DEF Current
<1>1. CASE Router
  <2>1. setup.scheduler => held' = {n \in Frontier : ~Matched(n, standing') \/ ~Clears(setup.serves[n])}
    BY <1>1 DEF Router, Withhold
  <2>2. UNCHANGED <<output, ladder>>
    BY <1>1 DEF Router, durable
  <2>3. QED
    BY <2>1, <2>2, CompletedFrame, ClearsFrame DEF Frontier, Matched
<1>2. ASSUME NEW v \in Output, NodeSucceeds(v) PROVE Current'
  <2>1. pc = "run_episode" /\ UNCHANGED <<ladder, standing, held>>
    BY <1>2 DEF NodeSucceeds, Dispatchable, InEpisode
  <2>2. QED
    BY <1>2, <2>1, SuccessCompletes, ClearsFrame
<1>3. CASE SkipNode \/ BlockedNode \/ UNCHANGED vars
  <2>1. UNCHANGED <<output, ladder, standing, held, pc>>
    BY <1>3 DEF SkipNode, BlockedNode, vars, durable
  <2>2. QED
    BY <2>1, CompletedFrame, ClearsFrame
<1>4. CASE NodeFails
  <2>1. CASE pc' # "run_episode"
    BY <2>1
  <2>2. CASE pc' = "run_episode"
    <3>1. UNCHANGED <<output, ladder, standing, held, pc>>
      BY <1>4, <2>2 DEF NodeFails, Raises
    <3>2. QED
      BY <3>1, CompletedFrame, ClearsFrame
  <2>3. QED
    BY <2>1, <2>2
<1>5. CASE pc' # "run_episode"
  BY <1>5
<1>6. QED
  BY <1>1, <1>2, <1>3, <1>4, <1>5 DEF Next, Step, StartRun, Crash, PlannerRefused, Raises, Planner,
     GateStops, EpisodeEnds, Earn, Collect, Route

-----------------------------------------------------------------------------
(* The ladder *)

LEMMA PrefixStep ==
  ASSUME TypeOK, Prefix, [Next]_vars
  PROVE  Prefix'
<1> SUFFICES ASSUME Resumes', pc' \in {"planner", "router", "route"}
    PROVE  (ctx.completed = Completed \/ ckpt.plans = 0)'
  BY DEF Prefix
<1>1. ctx \in Context
  BY DEF TypeOK
<1>2. ~Crash
  BY DEF Crash
<1>3. Resumes
  BY <1>2, ResumesFrame
<1>4. ~Raises
  BY RaisesEnds
<1>5. CASE StartRun
  <2>1. output' = output /\ ckpt' = ckpt
    BY <1>5 DEF StartRun, durable
  <2>2. ctx' = IF ckpt = NoCheckpoint THEN InitialCtx ELSE Restored
    BY <1>5 DEF StartRun
  <2>3. CASE ckpt = NoCheckpoint
    BY <2>1, <2>3 DEF NoCheckpoint
  <2>4. CASE ckpt # NoCheckpoint
    BY <2>1, <2>2, <2>4, CompletedFrame DEF Restored, InitialCtx
  <2>5. QED
    BY <2>3, <2>4
<1>6. CASE Planner
  <2>1. ctx'.completed = ctx.completed /\ UNCHANGED <<output, ckpt>> /\ pc = "planner"
    BY <1>1, <1>6 DEF Planner, durable, Context
  <2>2. QED
    BY <1>3, <2>1, CompletedFrame DEF Prefix
<1>7. CASE Collect
  <2>1. ctx'.completed = Completed /\ output' = output
    BY <1>1, <1>7 DEF Collect, Context
  <2>2. QED
    BY <2>1, CompletedFrame
<1>8. CASE Route \/ UNCHANGED vars
  <2>1. UNCHANGED <<output, ckpt, ctx>> /\ pc \in {"planner", "router", "route"}
    BY <1>8 DEF Route, vars, durable
  <2>2. QED
    BY <1>3, <2>1, CompletedFrame DEF Prefix
<1>9. QED
  BY <1>2, <1>4, <1>5, <1>6, <1>7, <1>8
  DEF Next, Step, PlannerRefused, Router, GateStops, SkipNode, BlockedNode, NodeSucceeds,
      NodeFails, Dispatchable, InEpisode, EpisodeEnds, Earn

LEMMA BookedStep ==
  ASSUME TypeOK, Rounds, Unmoved, Booked, [Next]_vars
  PROVE  Booked'
<1> USE DEF Booked
<1>1. CASE Crash
  <2>1. pc' = "idle" /\ \A n \in Node : earns'[n] = 0
    BY <1>1 DEF Crash
  <2>2. QED
    BY <2>1
<1>2. SUFFICES ASSUME ~Crash, Resumes'
      PROVE  Booked'
  BY <1>1
<1>3. Resumes /\ setup' = setup
  BY <1>2, ResumesFrame, SetupFixed
<1>4. ctx \in Context /\ earns \in [Node -> Nat] /\ to_earn \subseteq Node
  BY DEF TypeOK
<1>5. CASE StartRun
  <2>1. UNCHANGED <<output, ckpt, earns>> /\ pc # "collect" /\ pc' = "planner"
    BY <1>5 DEF StartRun, durable, Ended
  <2>2. ctx' = IF ckpt = NoCheckpoint THEN InitialCtx ELSE Restored
    BY <1>5 DEF StartRun
  <2>3. CASE ckpt = NoCheckpoint
    <3>1. \A n \in Node : earns[n] = 0
      BY <1>3, <2>1, <2>3 DEF Unmoved, Resumes, NoCheckpoint
    <3>2. QED
      BY <2>1, <3>1
  <2>4. CASE ckpt # NoCheckpoint
    <3>1. ctx'.completed = Completed
      BY <2>2, <2>4 DEF Restored, InitialCtx
    <3>2. QED
      BY <1>3, <2>1, <3>1, CompletedFrame
  <2>5. QED
    BY <2>3, <2>4
<1>6. CASE Raises /\ UNCHANGED output
  <2>1. pc' = "raised" /\ earns' = earns
    BY <1>2, <1>6, RaisesEnds DEF Raises
  <2>2. QED
    BY <1>3, <1>6, <2>1, CompletedFrame
<1>7. CASE PlannerRefused \/ NodeFails
  <2>1. CASE Raises /\ UNCHANGED output
    BY <1>6, <2>1
  <2>2. CASE UNCHANGED <<output, ctx, pc, to_earn, earns>>
    BY <1>3, <2>2, CompletedFrame
  <2>3. QED
    BY <1>7, <2>1, <2>2 DEF PlannerRefused, NodeFails, durable, history
<1>8. CASE Planner \/ Router
  <2>1. ctx'.completed = ctx.completed /\ UNCHANGED <<output, earns>>
    BY <1>4, <1>8 DEF Planner, Router, Withhold, durable, history, Context
  <2>2. pc \in {"planner", "router"} /\ pc' \in {"router", "run_episode"}
    BY <1>8 DEF Planner, Router
  <2>3. QED
    BY <1>3, <2>1, <2>2, CompletedFrame
<1>9. ASSUME NEW l \in {"aborted", "paused"}, GateStops(l) PROVE Booked'
  <2>1. UNCHANGED <<output, earns>> /\ pc' = "returned"
    BY <1>9 DEF GateStops, durable, history
  <2>2. QED
    BY <1>3, <2>1, CompletedFrame
<1>10. CASE SkipNode \/ BlockedNode \/ UNCHANGED vars
  <2>1. UNCHANGED <<output, ctx, pc, to_earn, earns>>
    BY <1>10 DEF SkipNode, BlockedNode, vars, durable, history
  <2>2. QED
    BY <1>3, <2>1, CompletedFrame
<1>11. ASSUME NEW v \in Output, NodeSucceeds(v) PROVE Booked'
  <2>1. UNCHANGED <<ctx, pc, to_earn, earns>> /\ pc = "run_episode"
    BY <1>11 DEF NodeSucceeds, Dispatchable, InEpisode, history
  <2>2. QED
    BY <1>3, <1>11, <2>1, SuccessCompletes
<1>12. CASE EpisodeEnds
  <2>1. ctx'.completed = ctx.completed /\ UNCHANGED <<output, earns>>
    BY <1>4, <1>12 DEF EpisodeEnds, durable, history, Context
  <2>2. to_earn' \subseteq Completed \ ctx.completed /\ pc = "run_episode" /\ pc' = "collect"
    BY <1>12 DEF EpisodeEnds, NewlyCompleted
  <2>3. \A n \in Node : earns[n] = 0 \/ earns[n] = 1
    BY <1>3, <1>4
  <2>4. QED
    BY <1>3, <2>1, <2>2, <2>3, CompletedFrame
<1>13. ASSUME NEW n \in Node, Earn(n) PROVE Booked'
  <2>1. UNCHANGED <<output, ctx, pc>> /\ pc = "collect" /\ n \in to_earn
    BY <1>13 DEF Earn, durable
  <2>2. to_earn' = to_earn \ {n} /\ earns' = [earns EXCEPT ![n] = @ + 1]
    BY <1>13 DEF Earn
  <2>3. earns[n] = 0 /\ n \in Completed
    BY <1>3, <2>1
  <2>4. earns'[n] = 1 /\ \A m \in Node \ {n} : earns'[m] = earns[m]
    BY <1>4, <2>2, <2>3
  <2>5. QED
    BY <1>3, <2>1, <2>2, <2>3, <2>4, CompletedFrame
<1>14. CASE Collect
  <2>1. ctx'.completed = Completed /\ UNCHANGED <<output, earns>> /\ pc' = "route"
    BY <1>4, <1>14 DEF Collect, history, Context
  <2>2. QED
    BY <1>3, <2>1, CompletedFrame
<1>15. CASE Route
  <2>1. UNCHANGED <<output, ctx, earns>> /\ pc = "route" /\ pc' \in {"planner", "returned"}
    BY <1>15 DEF Route, durable, history
  <2>2. QED
    BY <1>3, <2>1, CompletedFrame
<1>16. QED
  BY <1>2, <1>5, <1>7, <1>8, <1>9, <1>10, <1>11, <1>12, <1>13, <1>14, <1>15 DEF Next, Step

\* Until a checkpoint exists, what is completed clears: nothing else was let run.
LEMMA EarlyClears ==
  ASSUME Unmoved, SeedCleared, setup.checkpointer, setup.scheduler, ckpt.plans = 0,
         pc # "collect"
  PROVE  \A n \in Completed : Clears(setup.serves[n])
BY DEF Unmoved, SeedCleared, Clears

LEMMA WithheldStep ==
  ASSUME IInv, [Next]_vars
  PROVE  Withheld'
<1> USE DEF IInv
<1>1. CASE Crash
  BY <1>1 DEF Crash, Withheld
<1>2. SUFFICES ASSUME ~Crash
      PROVE  Withheld'
  BY <1>1
<1>3. setup' = setup /\ ctx \in Context
  BY SetupFixed DEF TypeOK
<1>4. withheld' # {} => setup.scheduler
  BY <1>2 DEF Withheld, Next, Step, vars, history, StartRun, PlannerRefused, Planner, Router,
     GateStops, SkipNode, BlockedNode, NodeSucceeds, NodeFails, EpisodeEnds, Earn, Collect,
     Route, Raises
<1>5. SUFFICES ASSUME Resumes', NEW a \in withheld'
      PROVE  /\ ~Clears(a)'
             /\ pc' \notin Ended => \A n \in Completed' : setup.serves[n] = a => n \in ctx'.completed
  BY <1>3, <1>4 DEF Withheld, Ended
<1>6. Resumes /\ setup.checkpointer /\ setup.scheduler
  BY <1>2, <1>4, <1>5, ResumesFrame DEF Resumes
<1>7. a \in withheld =>
        ~Clears(a) /\ (pc \notin Ended => \A n \in Completed : setup.serves[n] = a => n \in ctx.completed)
  BY <1>6 DEF Withheld
<1>8. CASE StartRun
  <2>1. UNCHANGED <<output, ladder, withheld>> /\ pc # "collect"
    BY <1>8 DEF StartRun, durable, Ended
  <2>2. ctx' = IF ckpt = NoCheckpoint THEN InitialCtx ELSE Restored
    BY <1>8 DEF StartRun
  <2>3. ~Clears(a) /\ ~Clears(a)'
    BY <1>3, <1>5, <1>7, <2>1, ClearsFrame
  <2>4. CASE ckpt = NoCheckpoint
    <3>1. \A n \in Completed : setup.serves[n] # a
      BY <1>6, <2>1, <2>3, <2>4, EarlyClears DEF NoCheckpoint
    <3>2. QED
      BY <2>1, <2>3, <3>1, CompletedFrame
  <2>5. CASE ckpt # NoCheckpoint
    <3>1. ctx'.completed = Completed
      BY <2>2, <2>5 DEF Restored, InitialCtx
    <3>2. QED
      BY <2>1, <2>3, <3>1, CompletedFrame
  <2>6. QED
    BY <2>4, <2>5
<1>9. CASE Router
  <2>1. UNCHANGED <<output, ladder>> /\ ctx'.completed = ctx.completed /\ pc = "router"
    BY <1>3, <1>9 DEF Router, Withhold, durable, Context
  <2>2. ~Clears(a)
    <3>1. CASE a \in withheld
      BY <1>7, <3>1
    <3>2. CASE a \notin withheld
      BY <1>5, <1>6, <1>9, <3>2 DEF Router, Withhold
    <3>3. QED
      BY <3>1, <3>2
  <2>3. \A n \in Completed : setup.serves[n] = a => n \in ctx.completed
    <3>1. CASE ctx.completed = Completed
      BY <3>1
    <3>2. CASE ckpt.plans = 0
      BY <1>6, <2>1, <2>2, <3>2, EarlyClears
    <3>3. QED
      BY <1>6, <2>1, <3>1, <3>2 DEF Prefix
  <2>4. QED
    BY <1>3, <2>1, <2>2, <2>3, CompletedFrame, ClearsFrame
<1>10. CASE Raises /\ UNCHANGED <<output, ladder>>
  <2>1. pc' = "raised" /\ withheld' = withheld
    BY <1>5, <1>10, RaisesEnds DEF Raises
  <2>2. QED
    BY <1>3, <1>5, <1>7, <1>10, <2>1, ClearsFrame DEF Ended
<1>11. ASSUME NEW v \in Output, NodeSucceeds(v)
       PROVE  /\ ~Clears(a)'
              /\ pc' \notin Ended =>
                   \A n \in Completed' : setup.serves[n] = a => n \in ctx'.completed
  <2>1. UNCHANGED <<ladder, withheld, ctx>> /\ pc = "run_episode"
    BY <1>11 DEF NodeSucceeds, Dispatchable, InEpisode, history
  <2>2. ~Clears(a) /\ \A n \in Completed : setup.serves[n] = a => n \in ctx.completed
    BY <1>5, <1>7, <2>1 DEF Ended
  <2>3. Clears(setup.serves[at])
    BY <1>6, <1>11, <2>1, SuccessCompletes DEF Current
  <2>4. QED
    BY <1>3, <1>11, <2>1, <2>2, <2>3, SuccessCompletes, ClearsFrame
<1>12. ASSUME NEW n \in Node, Earn(n)
       PROVE  /\ ~Clears(a)'
              /\ pc' \notin Ended =>
                   \A m \in Completed' : setup.serves[m] = a => m \in ctx'.completed
  <2>1. UNCHANGED <<output, ctx, withheld>> /\ pc = "collect" /\ n \in to_earn
    BY <1>12 DEF Earn, durable
  <2>2. ~Clears(a) /\ \A m \in Completed : setup.serves[m] = a => m \in ctx.completed
    BY <1>5, <1>7, <2>1 DEF Ended
  <2>3. n \in Completed /\ n \notin ctx.completed
    BY <1>6, <2>1 DEF Booked
  <2>4. setup.serves[n] # a
    BY <2>2, <2>3
  <2>5. ladder'[a] = ladder[a]
    BY <1>12, <1>5, <2>1, <2>4 DEF Earn, TypeOK
  <2>6. QED
    BY <1>3, <2>1, <2>2, <2>5, CompletedFrame DEF Clears, Bar, NeedsApproval
<1>13. CASE UNCHANGED <<output, ladder, withheld>> /\ pc \notin Ended
            /\ (ctx'.completed = Completed \/ ctx'.completed = ctx.completed)
  BY <1>3, <1>5, <1>7, <1>13, CompletedFrame, ClearsFrame
<1>14. CASE UNCHANGED vars
  BY <1>3, <1>5, <1>7, <1>14, CompletedFrame, ClearsFrame DEF vars, durable, history
<1>15. CASE Planner \/ SkipNode \/ BlockedNode \/ EpisodeEnds \/ Collect \/ Route
            \/ \E l \in {"aborted", "paused"} : GateStops(l)
  <2>1. UNCHANGED <<output, ladder, withheld>> /\ pc \notin Ended
    BY <1>15 DEF Planner, SkipNode, BlockedNode, InEpisode, EpisodeEnds, Collect, Route, GateStops,
       durable, history, Ended
  <2>2. ctx'.completed = Completed \/ ctx'.completed = ctx.completed
    BY <1>3, <1>15 DEF Planner, SkipNode, BlockedNode, EpisodeEnds, Collect, Route, GateStops,
       Context
  <2>3. QED
    BY <1>13, <2>1, <2>2
<1>16. CASE PlannerRefused \/ NodeFails
  <2>1. CASE Raises
    BY <1>10, <1>16, <2>1 DEF PlannerRefused, NodeFails, durable
  <2>2. CASE UNCHANGED <<ctx, pc, driver, held, to_earn, terminated_by, runs, history>>
    <3>1. UNCHANGED <<output, ladder, withheld>> /\ pc \notin Ended
      BY <1>16, <2>2 DEF PlannerRefused, NodeFails, Dispatchable, InEpisode, durable, history, Ended
    <3>2. QED
      BY <1>13, <2>2, <3>1
  <2>3. QED
    BY <1>16, <2>1, <2>2 DEF PlannerRefused, NodeFails
<1>17. QED
  BY <1>2, <1>8, <1>9, <1>11, <1>12, <1>14, <1>15, <1>16 DEF Next, Step

\* The inductive invariant: what a checkpoint, the loop's context, the ladder
\* and the hold set say of one another, over every step of every run.
THEOREM InvariantHolds == Spec => []IInv
<1>1. Init => IInv
  <2>1. Init => TypeOK
    BY InitType
  <2>2. Init => Rounds
    <3>1. Init => pc = "idle" /\ ckpt = NoCheckpoint
      BY DEF Init
    <3>2. QED
      BY <3>1 DEF Rounds, NoCheckpoint
  <2>3. Init => Unmoved /\ SeedCleared /\ Withheld
    <3>1. Init => ladder = setup.seed /\ Completed = {} /\ withheld = {}
      BY DEF Init, Completed
    <3>2. Init => \A n \in Node : earns[n] = 0
      BY DEF Init
    <3>3. QED
      BY <3>1, <3>2 DEF Unmoved, SeedCleared, Withheld
  <2>4. Init => Booked /\ Current /\ Prefix
    <3>1. Init => pc = "idle" /\ \A n \in Node : earns[n] = 0
      BY DEF Init
    <3>2. QED
      BY <3>1 DEF Booked, Current, Prefix
  <2>5. QED
    BY <2>1, <2>2, <2>3, <2>4 DEF IInv
<1>2. IInv /\ [Next]_vars => IInv'
  BY TypeStep, RoundsStep, UnmovedStep, SeedClearedStep, BookedStep, CurrentStep, PrefixStep,
     WithheldStep DEF IInv
<1>3. QED
  BY <1>1, <1>2, PTL DEF Spec

-----------------------------------------------------------------------------
(* What follows *)

\* However runs end and resume, a node's completion moves the ladder at most
\* once while checkpoints are resumed from (EarnedOnce).
THEOREM EarnedOnceHolds == Spec => []EarnedOnce
<1>1. IInv => EarnedOnce
  BY DEF IInv, Booked, EarnedOnce
<1>2. QED
  BY <1>1, InvariantHolds, PTL

\* An agent once found below its bar runs nothing more and stays below it for
\* as long as its ladder lives: trust is never earned back (WithheldForGood).
THEOREM WithheldForGoodHolds == Spec => []WithheldForGood
<1>1. IInv => WithheldForGood
  BY DEF IInv, Withheld, WithheldForGood
<1>2. QED
  BY <1>1, InvariantHolds, PTL

\* Whatever completes a node, its agent stands and clears its bar at that
\* moment, although the hold set is older (DispatchIsCleared).
THEOREM DispatchIsClearedHolds == Spec => DispatchIsCleared
<1> DEFINE Cleared == \A n \in Node : output'[n] # output[n] /\ setup.scheduler =>
                        setup.serves[n] \in standing /\ Clears(setup.serves[n])
<1>1. IInv /\ [Next]_vars => [Cleared]_vars
  <2>1. SUFFICES ASSUME IInv, [Next]_vars PROVE Cleared
    OBVIOUS
  <2>2. CASE \A v \in Output : ~NodeSucceeds(v)
    BY <2>1, <2>2, OutputFrame
  <2>3. ASSUME NEW v \in Output, NodeSucceeds(v) PROVE Cleared
    <3>1. pc = "run_episode" /\ output' = [output EXCEPT ![at] = v]
      BY <2>3 DEF NodeSucceeds, Dispatchable, InEpisode
    <3>2. at \in Node \ (Completed \cup held)
      BY <2>1, <2>3, SuccessCompletes DEF IInv
    <3>3. setup.scheduler => setup.serves[at] \in standing /\ Clears(setup.serves[at])
      BY <2>1, <3>1, <3>2 DEF IInv, Current
    <3>4. \A n \in Node : output'[n] # output[n] => n = at
      BY <2>1, <3>1 DEF IInv, TypeOK
    <3>5. QED
      BY <3>3, <3>4
  <2>4. QED
    BY <2>2, <2>3
<1>2. QED
  BY <1>1, InvariantHolds, PTL DEF Spec, DispatchIsCleared
=============================================================================
