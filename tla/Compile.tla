------------------------------- MODULE Compile ------------------------------
(***************************************************************************)
(* The compiler around a run (assemble/planner.py, assemble/assemble.py,   *)
(* governor/authoring.py): a plan author returns a topology, a manifest    *)
(* set is written for it or searched among candidates, assemble freezes    *)
(* both into a plan, nodes of the plan run, and recompile supersedes the   *)
(* plan with one that must leave what ran alone.                           *)
(*                                                                         *)
(* Abstractions: an author's answer is one of Specs; a build entry is the  *)
(* hosting content it was synthesized from; the trust ladder is a dial,    *)
(* node -> grade, read at every compile; the precedents and the frontier a *)
(* plan records, on which no compiled field depends, are left out; agents  *)
(* return every field their contract declares.                             *)
(***************************************************************************)
EXTENDS Resolve

CONSTANTS
  Node,          \* names a topology can have: 1..k, in the order of their sorting
  Specs,         \* what a plan author can return
  Shapes,        \* the stages the template knows, by keyword or for any goal
  ManifestSets,  \* the manifest sets a caller can pass: node -> manifest
  Pools,         \* what candidates_fn can offer: node -> sequence of manifests
  Dials,         \* trust at the time of a compile: node -> grade
  Gates,         \* the optional gates this assembler was built with
  MaxNodes, MaxDepth, MaxFanout,  \* the complexity contract
  MaxRevisions,  \* max_revisions
  MaxRebinds,    \* max_rebinds
  Redeclares     \* whether an author may change what a node that ran declares

Result == 0      \* _CAP_OUTPUT

Type == {"any", "str", "int", "obj"}

Manifest == [hosting : Nat, inputs : UNION {[S -> Type] : S \in SUBSET Node},
             outputs : UNION {[S -> Type] : S \in SUBSET {0, 1}},
             depends_on : Seq([producer : Node, field : {0, 1}, to : Node]),
             context : SUBSET Node, tiered : BOOLEAN]

\* Stages are distinct: the keyword shapes are, and _stages_from_precedent
\* takes each stage once.
Distinct(stages) == \A i, j \in DOMAIN stages : stages[i] = stages[j] => i = j

ASSUME CompileAssumption ==
  /\ Node \subseteq Nat /\ IsFiniteSet(Node)
  /\ \A g \in Specs : g.nodes \subseteq Node
  /\ \A stages \in Shapes : stages \in Seq(Node) /\ stages # <<>> /\ Distinct(stages)
  /\ \A ms \in ManifestSets : \A n \in DOMAIN ms : ms[n] \in Manifest
  /\ \A candidates \in Pools : \A n \in Node :
       candidates[n] \in Seq({m \in Manifest : m.outputs # Undeclared})
  /\ Dials \subseteq [Node -> 0..3]
  /\ Gates \in [strict_types : BOOLEAN, single_writer : BOOLEAN, full_input_cover : BOOLEAN,
                require_declared_io : BOOLEAN, strict : SUBSET Node]
  /\ MaxNodes \in Nat /\ MaxDepth \in Nat /\ MaxFanout \in Nat
  /\ MaxRevisions \in Nat /\ MaxRebinds \in Nat /\ Redeclares \in BOOLEAN

VARIABLES
  phase,      \* "idle", "authored", "staffing", "staffed"
  spec,       \* the author's last answer
  plan,       \* the frozen plan
  pool, picked, tries,  \* staff_with_rebind: candidates, the choice among them, assemblies tried
  outcome,    \* of the last call
  manifests,  \* history: the manifest set the plan was compiled from
  dial,       \* history: the dial it was compiled with
  ran         \* node -> what it ran with, for the nodes that ran

staffing == <<pool, picked, tries>>
vars == <<phase, spec, plan, staffing, outcome, manifests, dial, ran>>

NoPlan == [revision |-> 0, order |-> <<>>, entries |-> <<>>, wiring |-> <<>>, contract |-> <<>>]
NoSpec == [nodes |-> {}, edges |-> {}, outputs |-> <<>>]
NoContract == [io |-> Undeclared, tier |-> "none", context |-> {}]

Executed == DOMAIN ran

Init ==
  /\ phase = "idle" /\ spec = NoSpec /\ plan = NoPlan
  /\ pool = <<>> /\ picked = <<>> /\ tries = 0
  /\ outcome = "none" /\ manifests = <<>> /\ dial = [n \in Node |-> 0]
  /\ ran = <<>>

-----------------------------------------------------------------------------
(* plan_from_goal: what the plan author returns is lowered and checked. *)

\* _longest_path
Depth(g) ==
  LET depth[n \in g.nodes] == 1 + Max({0} \cup {depth[d] : d \in Dependencies(g, n)})
  IN  Max({0} \cup {depth[n] : n \in g.nodes})

\* _check_complexity
Simple(g) ==
  /\ Cardinality(g.nodes) <= MaxNodes
  /\ \A n \in g.nodes : Cardinality(Dependents(g, n)) <= MaxFanout
  /\ Depth(g) <= MaxDepth

\* _dag_from_spec
Authors(g) == WellFormed(g) /\ g.nodes # {} /\ Validates(g)

\* With a plan_model_fn; the complexity contract is checked for a caller who
\* asks to decompose, and for no other.
Author(g) ==
  /\ phase = "idle"
  /\ spec' = g
  /\ IF Authors(g)
       THEN \/ phase' = "authored" /\ outcome' = "none"
            \/ ~Simple(g) /\ phase' = "idle" /\ outcome' = "refused"
       ELSE phase' = "idle" /\ outcome' = "refused"
  /\ UNCHANGED <<plan, staffing, manifests, dial, ran>>

\* _stages_from_precedent, where the plan itself is the precedent: a shape of
\* one stage is no shape.
Precedent == IF Len(plan.order) > 1 THEN {plan.order} ELSE {}

\* The template's linear chain; _fallback_template is the chain of one node.
Chain(stages) ==
  [nodes |-> {stages[i] : i \in DOMAIN stages},
   edges |-> {<<stages[i], stages[i + 1]>> : i \in 1..(Len(stages) - 1)},
   outputs |-> <<>>]

\* Without a plan_model_fn: _template_decompose, or the fallback, which is not
\* checked.
AuthorByTemplate(stages) ==
  /\ phase = "idle"
  /\ spec' = Chain(stages)
  /\ IF Len(stages) = 1 \/ Simple(Chain(stages))
       THEN phase' = "authored" /\ outcome' = "none"
       ELSE phase' = "idle" /\ outcome' = "refused"
  /\ UNCHANGED <<plan, staffing, manifests, dial, ran>>

-----------------------------------------------------------------------------
(* assemble *)

\* make_trust_strictness: the nodes below L2_GUARDED.
Strict(d) == {n \in Node : d[n] < 2}

\* make_payload_tier
Tier(d, n) == IF d[n] > 2 THEN "high" ELSE IF d[n] = 2 THEN "guarded" ELSE "low"

\* project_context: low keeps the whole context, guarded its first key
\* (guardrails), high nothing.
Projected(keys, tier) ==
  CASE tier = "low" -> keys [] tier = "guarded" -> keys \cap {Min(Node)} [] OTHER -> {}

\* _author_payload_contract: the declared I/O always, the tier and the
\* projected context for a node whose manifest declares a context.
Contract(g, ms, d, n) ==
  LET dialled == ms[n].tiered /\ ms[n].context # {}
  IN  [io |-> IF n \in DOMAIN g.outputs THEN g.outputs[n] ELSE Undeclared,
       tier |-> IF dialled THEN Tier(d, n) ELSE "none",
       context |-> IF dialled THEN Projected(ms[n].context, Tier(d, n)) ELSE {}]

Gated(d) == [Gates EXCEPT !.strict = Strict(d)]

\* What assemble does not raise for: every manifest has an output schema,
\* the gate passes, every node has a manifest.
Assembles(g, ms, d) ==
  /\ \A n \in DOMAIN ms : ms[n].outputs # Undeclared
  /\ Aligned(g, ms, Gated(d))
  /\ g.nodes \subseteq DOMAIN ms

Assembled(g, ms, d) ==
  [revision |-> 0,
   order |-> KahnOrder(g),
   entries |-> [n \in g.nodes |-> ms[n].hosting],
   wiring |-> [n \in g.nodes |-> ms[n].depends_on],
   contract |-> [n \in g.nodes |-> Contract(g, ms, d, n)]]

-----------------------------------------------------------------------------
(* recompile *)

Planned(p) == {p.order[i] : i \in DOMAIN p.order}

\* [n for n in new_order if n in prior_set]
Restricted(order, S) ==
  LET kept == Ascending({i \in DOMAIN order : order[i] \in S})
  IN  [j \in DOMAIN kept |-> order[kept[j]]]

\* Mutant of Monotonic: nothing is dropped; the order is not looked at.
MonotonicAsSets(prior, new) ==
  /\ Planned(prior) \subseteq Planned(new)
  /\ \A n \in Executed : n \in Planned(new)

\* _check_monotonic
Monotonic(prior, new) ==
  /\ Restricted(new.order, Planned(prior)) = prior.order
  /\ \A n \in Executed :
       /\ n \in Planned(new)
       /\ new.entries[n] = prior.entries[n]
       /\ new.wiring[n] = prior.wiring[n]

\* What ran is pinned to the prior plan's entry, wiring and, if it had one,
\* contract; the rest takes the fresh compile's.
Pinned(prior, new) ==
  [new EXCEPT
     !.revision = prior.revision + 1,
     !.entries = [n \in Planned(new) |-> IF n \in Executed THEN prior.entries[n] ELSE new.entries[n]],
     !.wiring = [n \in Planned(new) |-> IF n \in Executed THEN prior.wiring[n] ELSE new.wiring[n]],
     !.contract = [n \in Planned(new) |->
                     IF n \in Executed /\ prior.contract[n] # NoContract
                       THEN prior.contract[n] ELSE new.contract[n]]]

Recompiles(g, ms, d) ==
  /\ plan.revision + 1 <= MaxRevisions
  /\ Assembles(g, ms, d)
  /\ Monotonic(plan, Assembled(g, ms, d))

\* An author who leaves the declarations of what ran as they were.
Faithful(g, ms) ==
  \A n \in Executed : n \in g.nodes \cap DOMAIN ms =>
    /\ DeclaredOutputs(g, ms, n) = DeclaredOutputs([outputs |-> [m \in {n} |-> ran[n].contract.io]],
                                                   manifests, n)
    /\ Contract(g, ms, dial, n) = Contract([outputs |-> [m \in {n} |-> ran[n].contract.io]],
                                           manifests, dial, n)

Adopt(p, ms, d) ==
  /\ plan' = p /\ manifests' = ms /\ dial' = d /\ outcome' = "compiled"

Refuse == outcome' = "refused" /\ UNCHANGED <<plan, manifests, dial>>

\* Mutant of Supersede: the fresh compile replaces the plan.
SupersedeByAssembly(ms, d) ==
  IF Assembles(spec, ms, d)
    THEN Adopt([Assembled(spec, ms, d) EXCEPT !.revision = plan.revision + 1], ms, d)
    ELSE Refuse

Supersede(ms, d) ==
  IF Recompiles(spec, ms, d) THEN Adopt(Pinned(plan, Assembled(spec, ms, d)), ms, d) ELSE Refuse

\* The first compile, or a recompile on top of the plan there is.
Compile(ms, d) ==
  /\ Redeclares \/ Faithful(spec, ms)
  /\ IF plan # NoPlan THEN Supersede(ms, d)
     ELSE IF Assembles(spec, ms, d) THEN Adopt(Assembled(spec, ms, d), ms, d) ELSE Refuse
  /\ phase' = "idle"
  /\ spec' = NoSpec
  /\ pool' = <<>> /\ picked' = <<>> /\ tries' = 0
  /\ UNCHANGED ran

CompileGiven(ms, d) == phase = "authored" /\ Compile(ms, d)

-----------------------------------------------------------------------------
(* staff_with_rebind: look for candidates whose types align. *)

\* One candidate, keyed to the node and wired to the node's producers, each
\* of which feeds the input of its own name.
Seated(g, n, base) ==
  LET producers == Dependencies(g, n)
      sorted == Ascending(producers)
  IN  [base EXCEPT
         !.inputs = [i \in DOMAIN base.inputs \cup producers |->
                       IF i \in DOMAIN base.inputs THEN base.inputs[i] ELSE "str"],
         !.depends_on = [i \in DOMAIN sorted |->
                           [producer |-> sorted[i], field |-> Result, to |-> sorted[i]]],
         !.context = {}, !.tiered = FALSE]

Team(picks) == [n \in spec.nodes |-> Seated(spec, n, pool[n][picks[n]])]

\* The default assembler of the search: the deep type gate, on every node.
TypeGate == [strict_types |-> TRUE, single_writer |-> FALSE, full_input_cover |-> FALSE,
             require_declared_io |-> FALSE, strict |-> Node]

\* A team is sought for a topology that nothing ran of yet.
BeginStaffing(p) ==
  /\ phase = "authored" /\ plan = NoPlan
  /\ pool' = p /\ picked' = [n \in spec.nodes |-> 1] /\ tries' = 0
  /\ IF \E n \in spec.nodes : p[n] = <<>>
       THEN phase' = "idle" /\ outcome' = "RebindExhausted"
       ELSE phase' = "staffing" /\ UNCHANGED outcome
  /\ UNCHANGED <<spec, plan, manifests, dial, ran>>

\* The team of the moment assembles: it is the answer.
Staffed ==
  /\ phase = "staffing" /\ tries <= MaxRebinds
  /\ Aligned(spec, Team(picked), TypeGate)
  /\ phase' = "staffed"
  /\ UNCHANGED <<spec, plan, staffing, outcome, manifests, dial, ran>>

\* The wire that fails first names a producer and a consumer.
Broken == FirstMisaligned(spec, Team(picked), TypeGate, KahnOrder(spec))

HasAnother(n) == picked[n] < Len(pool[n])

\* Who moves on to its next candidate: the producer, or else the consumer.
Offender == IF HasAnother(Broken.producer) THEN Broken.producer ELSE Broken.node

Rebind ==
  /\ phase = "staffing" /\ tries <= MaxRebinds
  /\ ~Aligned(spec, Team(picked), TypeGate)
  /\ HasAnother(Offender)
  /\ picked' = [picked EXCEPT ![Offender] = @ + 1]
  /\ tries' = tries + 1
  /\ UNCHANGED <<phase, spec, plan, pool, outcome, manifests, dial, ran>>

GiveUp ==
  /\ phase = "staffing"
  /\ \/ tries > MaxRebinds
     \/ ~Aligned(spec, Team(picked), TypeGate) /\ ~HasAnother(Offender)
  /\ phase' = "idle" /\ outcome' = "RebindExhausted"
  /\ UNCHANGED <<spec, plan, staffing, manifests, dial, ran>>

CompileStaffed(d) == phase = "staffed" /\ Compile(Team(picked), d)

-----------------------------------------------------------------------------
(* A node of the plan runs: its wires are read, its contract is produced. *)

Inputs(n) == {w.to : w \in {plan.wiring[n][i] : i \in DOMAIN plan.wiring[n]}}

\* The overlay of run(): the last wire of an input wins.
Payload(n) ==
  LET wires == plan.wiring[n]
      last(to) == Max({i \in DOMAIN wires : wires[i].to = to})
  IN  [to \in Inputs(n) |-> wires[last(to)]]

\* What the harness and validate_output make the agent return: every field
\* of the frozen declaration and of the manifest's schema.
Produces(n) ==
  LET io == plan.contract[n].io
      schema == manifests[n].outputs
  IN  [f \in DOMAIN io \cup DOMAIN schema |-> IF f \in DOMAIN io THEN io[f] ELSE schema[f]]

Runnable(n) ==
  /\ n \in Planned(plan) \ Executed
  /\ \A i \in DOMAIN plan.wiring[n] : plan.wiring[n][i].producer \in Executed

Extracts(n) ==
  \A i \in DOMAIN plan.wiring[n] :
    plan.wiring[n][i].field \in DOMAIN ran[plan.wiring[n][i].producer].fields

\* A node whose producers ran is run, unless extract raises: an output that
\* lacks the wired field.
RunNode(n) ==
  /\ phase = "idle" /\ Runnable(n)
  /\ IF Extracts(n)
       THEN /\ ran' = [m \in Executed \cup {n} |->
                         IF m \in Executed THEN ran[m]
                         ELSE [entry |-> plan.entries[n], wires |-> plan.wiring[n],
                               contract |-> plan.contract[n], fields |-> Produces(n),
                               payload |-> Payload(n), wants |-> DeclaredInputs(manifests, n),
                               strict |-> n \in Strict(dial), order |-> plan.order]]
            /\ outcome' = "none"
       ELSE outcome' = "WiringError" /\ UNCHANGED ran
  /\ spec' = NoSpec
  /\ UNCHANGED <<phase, plan, staffing, manifests, dial>>

Next ==
  \/ \E g \in Specs : Author(g)
  \/ \E stages \in Shapes \cup Precedent : AuthorByTemplate(stages)
  \/ \E ms \in ManifestSets, d \in Dials : CompileGiven(ms, d)
  \/ \E p \in Pools : BeginStaffing(p)
  \/ Staffed \/ Rebind \/ GiveUp
  \/ \E d \in Dials : CompileStaffed(d)
  \/ \E n \in Node : RunNode(n)

Spec == Init /\ [][Next]_vars

-----------------------------------------------------------------------------
(* Properties *)

\* Types; and a frozen plan has an entry, wires and a contract for exactly the
\* nodes of its order.
TypeOK ==
  /\ phase \in {"idle", "authored", "staffing", "staffed"}
  /\ {DOMAIN plan.entries, DOMAIN plan.wiring, DOMAIN plan.contract} = {Planned(plan)}
  /\ plan.revision \in 0..MaxRevisions /\ Cardinality(Planned(plan)) = Len(plan.order)
  /\ phase \in {"staffing", "staffed"} => \A n \in spec.nodes : picked[n] \in DOMAIN pool[n]
  /\ tries \in 0..(MaxRebinds + 1)
  /\ outcome \in {"none", "refused", "compiled", "WiringError", "RebindExhausted"}
  /\ dial \in [Node -> 0..3] /\ Executed \subseteq Node

\* What follows what: n follows m when it is in every set of nodes that holds
\* the dependents of m and those of its own members.
Follows(g) ==
  {e \in g.nodes \X g.nodes :
     \A S \in SUBSET g.nodes :
       (\A m \in S \cup {e[1]} : Dependents(g, m) \subseteq S) => e[2] \in S}

\* The two judges of a topology agree, with each other and with reachability:
\* classify_cycle_edges returns the edges both of whose ends reach one another
\* whatever the order in which Tarjan's walk meets them, topological_sort
\* accepts exactly the graphs without such an edge, and then puts every
\* producer before its consumers.
TopologyIsJudged ==
  WellFormed(spec) =>
    /\ CycleEdges(spec) = {e \in spec.edges : <<e[2], e[1]>> \in Follows(spec)}
    /\ Validates(spec) <=> CycleEdges(spec) = {}
    /\ Validates(spec) =>
         \A i, j \in DOMAIN KahnOrder(spec) :
           <<KahnOrder(spec)[i], KahnOrder(spec)[j]>> \in spec.edges => i < j

\* The order a Supervisor walks serves the wiring it reads: after any number
\* of recompiles with other topologies and other manifests, every wire of a
\* node comes from a node earlier in the order.
WiresAreForward ==
  \A i \in DOMAIN plan.order :
    \A k \in DOMAIN plan.wiring[plan.order[i]] :
      \E j \in 1..(i - 1) : plan.order[j] = plan.wiring[plan.order[i]][k].producer

\* What ran stays in the plan as it ran: its build entry, its wires and the
\* contract it had (the tier it was coached at included) are those of the plan
\* it ran under, however the author, the manifests and the trust dial moved on.
ExecutedSliceFrozen ==
  \A n \in Executed :
    /\ n \in Planned(plan)
    /\ plan.entries[n] = ran[n].entry
    /\ plan.wiring[n] = ran[n].wires
    /\ ran[n].contract # NoContract => plan.contract[n] = ran[n].contract

\* The gates keep what they promise at run time: no wire of a plan breaks,
\* and a node the dial called strict when it ran got each of its wires on an
\* input of its own, with a type it accepts.
PayloadsFit ==
  /\ outcome # "WiringError"
  /\ \A n \in Executed : \A k \in DOMAIN ran[n].wires :
       LET w == ran[n].wires[k]
       IN  ran[n].strict =>
             /\ Gates.single_writer => ran[n].payload[w.to] = w
             /\ Gates.strict_types => Compatible(ran[w.producer].fields[w.field], ran[n].wants[w.to])

\* The frozen plan serves the run that walks it, after any number of recompiles:
\* in its order, and in what flows along its wires.
PlanServesTheRun == TypeOK /\ WiresAreForward /\ PayloadsFit

Precedes(order, m, n) ==
  \E i, j \in DOMAIN order : i < j /\ order[i] = m /\ order[j] = n

\* recompile's contract (assemble/assemble.py:34-41): "resume must stay a
\* faithful replay of the prior plan".  A resume walks the plan of the moment;
\* for every node that ran, whatever plans came since, that walk passes the
\* nodes of the plan it ran under in the sequence they had there, reaches it
\* after producers which all ran, and would hand it the payload it was handed.
ReplayIsFaithful ==
  \A n \in Executed :
    /\ \A i, j \in DOMAIN ran[n].order :
         i < j => Precedes(plan.order, ran[n].order[i], ran[n].order[j])
    /\ \A k \in DOMAIN plan.wiring[n] :
         LET m == plan.wiring[n][k].producer
         IN  m \in Executed /\ Precedes(plan.order, m, n)
    /\ Payload(n) = ran[n].payload

\* staff_with_rebind (governor/authoring.py:241-242) "raises RebindExhausted
\* if no combination aligns within the bound": it gives up only then.
ExhaustedOnlyIfNoneAligns ==
  outcome = "RebindExhausted" /\ tries <= MaxRebinds =>
    ~\E picks \in [spec.nodes -> 1..3] :
       /\ \A n \in spec.nodes : picks[n] \in DOMAIN pool[n]
       /\ Aligned(spec, Team(picks), TypeGate)

\* recompile's contract (assemble/assemble.py:34-41): an edit to a node that
\* ran is rejected.  So a consumer compiled later finds the field it is wired
\* to in what its producer returned.
WiresHold == outcome # "WiringError"
=============================================================================
