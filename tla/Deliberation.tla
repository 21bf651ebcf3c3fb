---------------------------- MODULE Deliberation ----------------------------
(* Plan formation by bounded deliberation (reasoning/): form_plan seeds a goal
   on the trail, and while its frontier is open has the inner graph investigate
   the frontier in threads and digest each result to the worker lane, and the
   DKS engine test and challenge it round by round; then it lowers the trail to
   a DAG, or raises.  The process can die between any two writes and form the
   plan again on the same trail and lane.

   The scores behind the engine's bands are left out: any leaf of the frontier
   may be countered.  The investigator, the retriever and the counter-argument
   function are the caller's, and may answer anything. *)
EXTENDS Trail

CONSTANTS Budgets,        \* the max_rounds of form_plan and of the engine
          Ceiling,        \* of the inner graph's threads
          Reusable,       \* the decompositions a retriever may find (lengths)
          Fanouts,        \* the candidate lists an investigator may answer
          Verdicts,       \* the verdicts it may answer
          LangGraph,      \* whether the engine's graph can be built
          MaxAttacks,     \* bound on the attacks of the trail
          MaxRecords,     \* bound on its records
          MaxCrashes      \* bound

ASSUME DeliberationAssumption ==
    /\ Budgets \subseteq Nat \ {0} /\ Ceiling \in Nat \ {0}
    /\ Reusable \subseteq Nat /\ Fanouts \subseteq Seq(BOOLEAN) \ {<<>>}
    /\ Verdicts \subseteq {"ACCEPT", "REJECT", "UNDEC"} /\ LangGraph \in BOOLEAN
    /\ MaxAttacks \in Nat /\ MaxRecords \in Nat /\ MaxCrashes \in Nat

VARIABLES log,       \* trail.jsonl
          lane,      \* the markers of the worker lane, in the order appended
          raw,       \* the payload file of each key that has one
          max_rounds,
          pc, root,
          passes,    \* of form_plan
          round,     \* of the engine
          in_graph,  \* whether LangGraph drives it now, or the Python loop
          todo,      \* hypotheses the current stage still has to visit, in order
          working,   \* of those, the ones in the thread pool
          digesting, \* the result whose payload is written and marker is not
          frontier,  \* the frontier the engine observed
          plan,      \* what form_plan returned
          crashes

disk == <<log, lane, raw>>
engine == <<round, in_graph, frontier>>
vars == <<disk, max_rounds, pc, root, passes, engine, todo, working, digesting, plan, crashes>>

Result == [key : Nat, ok : BOOLEAN]
NoResult == [key |-> 0, ok |-> FALSE]
NoPlan == [nodes |-> {}, edges |-> {}]

\* The members of a set, in increasing order: the i-th has i - 1 before it.
Sorted(S) ==
    [i \in 1 .. Cardinality(S) |-> CHOOSE h \in S : Cardinality({g \in S : g < h}) = i - 1]

Init ==
    /\ log = <<>> /\ lane = <<>> /\ raw = [k \in {} |-> TRUE]
    /\ max_rounds \in Budgets
    /\ pc = "seed" /\ root = NoParent /\ passes = 0 /\ round = 0 /\ in_graph = FALSE
    /\ todo = <<>> /\ working = {} /\ digesting = NoResult /\ frontier = {}
    /\ plan = NoPlan /\ crashes = 0

Room(n) == Len(log) + n <= MaxRecords

---------------------------------------------------------------------------
(* Seeding the goal *)

\* The root, at confidence 0.0, whether or not a precedent is to be reused.
Seed(steps) ==
    /\ pc = "seed" /\ Room(1 + steps)
    /\ log' = RootHyps(log, <<FALSE>>)
    /\ root' = Len(log) + 1
    /\ todo' = [i \in 1 .. steps |-> i]
    /\ pc' = IF steps = 0 THEN "pass" ELSE "reuse"
    /\ UNCHANGED <<lane, raw, max_rounds, passes, engine, working, digesting, plan, crashes>>

\* The steps of the precedent, as children of one confidence.  form_plan does not
\* pass its floor on to seed: under a floor above seed's own they are open.
Reuse(confident) ==
    /\ pc = "reuse"
    /\ log' = Fanned(log, root, [i \in DOMAIN todo |-> confident])
    /\ todo' = <<>>
    /\ pc' = "pass"
    /\ UNCHANGED <<lane, raw, max_rounds, root, passes, engine, working, digesting, plan, crashes>>

---------------------------------------------------------------------------
(* The passes of form_plan and the inner graph *)

BeginPass ==
    /\ pc = "pass"
    /\ passes < max_rounds /\ OpenFrontier(log, root) # {}
    /\ passes' = passes + 1
    /\ todo' = Sorted(OpenFrontier(log, root))
    /\ pc' = "dispatch"
    /\ UNCHANGED <<disk, max_rounds, root, engine, working, digesting, plan, crashes>>

\* A batch of at most Ceiling hypotheses goes to the pool when the last is done.
Submit ==
    /\ pc = "dispatch" /\ working = {} /\ digesting = NoResult /\ todo # <<>>
    /\ \E n \in {IF Len(todo) < Ceiling THEN Len(todo) ELSE Ceiling} :
          /\ working' = {todo[i] : i \in 1 .. n}
          /\ todo' = SubSeq(todo, n + 1, Len(todo))
    /\ UNCHANGED <<disk, max_rounds, pc, root, passes, engine, digesting, plan, crashes>>

Seen(key) == \E i \in DOMAIN lane : lane[i].key = key

\* An investigation ends, in any order; a key the lane has is not digested again.
AlreadyDigested(h) ==
    /\ pc = "dispatch" /\ digesting = NoResult /\ h \in working
    /\ Seen(h)
    /\ working' = working \ {h}
    /\ UNCHANGED <<disk, max_rounds, pc, root, passes, engine, todo, digesting, plan, crashes>>

\* The mutant: the marker goes first.
MarkerFirst(h, ok) ==
    /\ pc = "dispatch" /\ digesting = NoResult /\ h \in working
    /\ ~Seen(h)
    /\ lane' = Append(lane, [key |-> h, ok |-> ok])
    /\ digesting' = [key |-> h, ok |-> ok]
    /\ UNCHANGED <<log, max_rounds, raw, pc, root, passes, engine, todo, working, plan, crashes>>

\* The payload is offloaded first ...
Offload(h, ok) ==
    /\ pc = "dispatch" /\ digesting = NoResult /\ h \in working
    /\ ~Seen(h)
    /\ raw' = [k \in {h} \cup DOMAIN raw |-> IF k = h THEN ok ELSE raw[k]]
    /\ digesting' = [key |-> h, ok |-> ok]
    /\ UNCHANGED <<log, max_rounds, lane, pc, root, passes, engine, todo, working, plan, crashes>>

\* ... and then the marker is appended, with the hash of the payload.
Mark ==
    /\ pc = "dispatch" /\ digesting # NoResult
    /\ lane' = Append(lane, digesting)
    /\ working' = working \ {digesting.key}
    /\ digesting' = NoResult
    /\ UNCHANGED <<log, max_rounds, raw, pc, root, passes, engine, todo, plan, crashes>>

BeginEngine ==
    /\ pc = "dispatch" /\ working = {} /\ todo = <<>> /\ digesting = NoResult
    /\ round' = 0 /\ in_graph' = LangGraph
    /\ pc' = "observe"
    /\ UNCHANGED <<disk, max_rounds, root, passes, frontier, todo, working, digesting, plan, crashes>>

---------------------------------------------------------------------------
(* A round of the engine *)

Observe ==
    /\ pc = "observe"
    /\ round' = round + 1
    /\ frontier' = OpenFrontier(log, root)
    /\ todo' = Sorted(frontier')
    /\ pc' = "test"
    /\ UNCHANGED <<disk, max_rounds, root, passes, in_graph, working, digesting, plan, crashes>>

Visited == todo' = Tail(todo)

\* TEST: the investigator answers with a verdict, or with nothing ("UNDEC") ...
Judge(verdict) ==
    /\ pc = "test" /\ todo # <<>> /\ Room(2)
    /\ log' = Judged(log, Head(todo), verdict)
    /\ Visited
    /\ UNCHANGED <<lane, raw, max_rounds, pc, root, passes, engine, working, digesting, plan, crashes>>

\* ... or with sharper hypotheses (an empty list is an answer with nothing) ...
Sharpen(candidates) ==
    /\ pc = "test" /\ todo # <<>> /\ Room(Len(candidates))
    /\ log' = Fanned(log, Head(todo), candidates)
    /\ Visited
    /\ UNCHANGED <<lane, raw, max_rounds, pc, root, passes, engine, working, digesting, plan, crashes>>

\* It, or the counter-argument function, raises.  Under LangGraph the Python
\* driver starts over, on the trail as it is; its own exceptions nobody catches.
SeamRaises ==
    /\ pc \in {"test", "challenge"} /\ todo # <<>>
    /\ IF in_graph
         THEN /\ pc' = "observe" /\ round' = 0 /\ in_graph' = FALSE
              /\ frontier' = {} /\ todo' = <<>>
         ELSE pc' = "raised" /\ UNCHANGED <<engine, todo>>
    /\ UNCHANGED <<disk, max_rounds, root, passes, working, digesting, plan, crashes>>

BeginChallenge ==
    /\ pc = "test" /\ todo = <<>>
    /\ todo' = Sorted(frontier)
    /\ pc' = "challenge"
    /\ UNCHANGED <<disk, max_rounds, root, passes, engine, working, digesting, plan, crashes>>

\* CHALLENGE: a leaf of this round's frontier gets a counter-argument: a child
\* of it, in one flush ...
Counter ==
    LET h == Head(todo) IN
    /\ pc = "challenge" /\ todo # <<>> /\ Room(2)
    /\ log[h].depth < DepthCap
    /\ Cardinality(Attacks(log)) < MaxAttacks
    /\ log' = Fanned(log, h, <<FALSE>>)
    /\ pc' = "strike"
    /\ UNCHANGED <<lane, raw, max_rounds, root, passes, engine, todo, working, digesting,
                   plan, crashes>>

\* ... that attacks it, in the next.
Strike ==
    /\ pc = "strike"
    /\ log' = Attacked(log, Len(log), Head(todo))
    /\ Visited
    /\ pc' = "challenge"
    /\ UNCHANGED <<lane, raw, max_rounds, root, passes, engine, working, digesting,
                   plan, crashes>>

\* The counter-argument function has the trail, and may attack on its own.
CrossAttack(src, dst) ==
    /\ pc = "challenge" /\ todo # <<>> /\ Room(1)
    /\ {src, dst} \subseteq Hyps(log) /\ src # dst
    /\ <<src, dst>> \notin Attacks(log)
    /\ Cardinality(Attacks(log)) < MaxAttacks
    /\ log' = Attacked(log, src, dst)
    /\ UNCHANGED <<lane, raw, max_rounds, pc, root, passes, engine, todo, working, digesting, plan, crashes>>

\* No counter-argument, or none of this band or depth.
Uncountered ==
    /\ pc = "challenge" /\ todo # <<>>
    /\ Visited
    /\ UNCHANGED <<disk, max_rounds, pc, root, passes, engine, working, digesting, plan, crashes>>

\* COMPILE, and the edge that follows it.
Converge ==
    /\ pc = "challenge" /\ todo = <<>>
    /\ frontier' = OpenFrontier(log, root)
    /\ pc' = IF frontier' = {} \/ round >= max_rounds THEN "pass" ELSE "observe"
    /\ UNCHANGED <<disk, max_rounds, root, passes, round, in_graph, todo, working, digesting, plan, crashes>>

---------------------------------------------------------------------------
(* Lowering *)

Lower ==
    /\ pc = "pass"
    /\ OpenFrontier(log, root) = {}
    /\ plan' = Lowered(log, root)
    /\ pc' = "lowered"
    /\ UNCHANGED <<disk, max_rounds, root, passes, engine, todo, working, digesting, crashes>>

\* require_resolved raises ThreadNotResolved.
Unresolved ==
    /\ pc = "pass"
    /\ passes = max_rounds /\ OpenFrontier(log, root) # {}
    /\ pc' = "unresolved"
    /\ UNCHANGED <<disk, max_rounds, root, passes, engine, todo, working, digesting, plan, crashes>>

Over == pc \in {"lowered", "unresolved"}

\* The process dies, or gives up on an exception, and forms its plan anew: on
\* the same trail, or (as a resumed governor does) on a fresh one.
Crash(fresh) ==
    /\ ~Over /\ pc # "seed" /\ crashes < MaxCrashes
    /\ crashes' = crashes + 1
    /\ log' = IF fresh THEN <<>> ELSE log
    /\ pc' = "seed" /\ root' = NoParent /\ passes' = 0 /\ round' = 0 /\ in_graph' = FALSE
    /\ todo' = <<>> /\ working' = {} /\ digesting' = NoResult /\ frontier' = {}
    /\ UNCHANGED <<lane, raw, max_rounds, plan>>

Step ==
    \/ \E steps \in {0} \cup Reusable : Seed(steps)
    \/ \E confident \in BOOLEAN : Reuse(confident)
    \/ BeginPass \/ Submit \/ BeginEngine \/ Mark
    \/ \E h \in working : AlreadyDigested(h) \/ \E ok \in BOOLEAN : Offload(h, ok)
    \/ Observe \/ BeginChallenge \/ Uncountered \/ Counter \/ Strike \/ Converge
    \/ \E verdict \in Verdicts : Judge(verdict)
    \/ \E candidates \in Fanouts : Sharpen(candidates)
    \/ \E src, dst \in Hyps(log) : CrossAttack(src, dst)
    \/ SeamRaises \/ Lower \/ Unresolved

Next == Step \/ \E fresh \in BOOLEAN : Crash(fresh)

Spec == Init /\ [][Next]_vars

---------------------------------------------------------------------------
Mine == Subtree(log, root)

TypeOK ==
    /\ pc \in {"seed", "reuse", "pass", "dispatch", "observe", "test", "challenge", "strike",
               "raised", "lowered", "unresolved"}
    /\ root \in Hyps(log) \cup {NoParent}
    /\ passes \in 0 .. max_rounds /\ round \in 0 .. max_rounds /\ in_graph \in BOOLEAN
    /\ frontier \cup working \subseteq Mine
    /\ digesting \in Result /\ lane \in Seq(Result)
    /\ plan.nodes \subseteq DOMAIN log /\ plan.edges \subseteq plan.nodes \X plan.nodes

\* Replay reads a sound trail after any crash: hypotheses form trees whose
\* depths count the steps from their root, every verdict has its marker and no
\* marker is without its verdict, no hypothesis attacks itself or something that
\* is none.  (With the types of the state.)
TrailIsSound ==
    /\ TypeOK
    /\ \A h \in Hyps(log) :
        IF log[h].parent = NoParent THEN log[h].depth = 0
        ELSE /\ log[h].parent \in Hyps(log) /\ log[h].parent < h
             /\ log[h].depth = log[log[h].parent].depth + 1
    /\ \A h \in Hyps(log) : Resolved(log, h) <=> VerdictOf(log, h) # "none"
    /\ \A a \in Attacks(log) : a[1] # a[2] /\ {a[1], a[2]} \subseteq Hyps(log)

\* The least set the characteristic function maps to itself.
Defended(S) ==
    {h \in Mine : \A a \in AttackersWithin(log, Mine, h) :
                     AttackersWithin(log, Mine, a) \cap S # {}}
Grounded(S) ==
    /\ S \subseteq Mine /\ Defended(S) = S
    /\ \A T \in SUBSET Mine : Defended(T) = T => S \subseteq T

\* A plan is lowered from a converged debate only, its nodes are exactly the
\* grounded extension of this episode's own tree, whatever earlier episodes left
\* on the trail, and none of them attacks another.
PlanIsGrounded ==
    pc = "lowered" =>
        /\ OpenFrontier(log, root) = {}
        /\ Grounded(plan.nodes)
        /\ \A h \in plan.nodes : h >= root
        /\ ~ \E e \in Attacks(log) : {e[1], e[2]} \subseteq plan.nodes

\* A round takes the frontier one level deeper or closes it, so that a budget of
\* more rounds than levels is never spent: the debate converges.
BudgetSuffices == max_rounds > DepthCap => pc # "unresolved"

\* A marker of the lane names a payload that is there and is the one it was
\* hashed from, and no key is digested twice, across crashes and retries.
MarkersHaveTheirRaw ==
    \A i, j \in DOMAIN lane :
        /\ lane[i].key \in DOMAIN raw /\ raw[lane[i].key] = lane[i].ok
        /\ i # j => lane[i].key # lane[j].key

\* "OUT (REJECT) hypotheses are dead-ends and dropped."
RejectedIsDropped ==
    pc = "lowered" => \A h \in plan.nodes : VerdictOf(log, h) # "REJECT"
=============================================================================
