------------------------------ MODULE AgentDag ------------------------------
(***************************************************************************)
(* The topology of a plan (core/dag.py): nodes and the edges               *)
(* producer -> consumer.  A name is a number, whose order is the order in  *)
(* which the code sorts names.                                             *)
(*                                                                         *)
(* The edges are a set: the code keeps a list without duplicates, whose    *)
(* order only its serialization shows.                                     *)
(***************************************************************************)
EXTENDS Naturals, Sequences, FiniteSets, FiniteSetsExt, SequencesExt

\* add_node and add_edge, as from_dict calls them: an edge joins two
\* different nodes of the graph, or the call raises.
WellFormed(g) ==
  \A e \in g.edges : e[1] \in g.nodes /\ e[2] \in g.nodes /\ e[1] # e[2]

Dependencies(g, n) == {e[1] : e \in {f \in g.edges : f[2] = n}}
Dependents(g, n) == {e[2] : e \in {f \in g.edges : f[1] = n}}

\* sorted: get_dependencies and get_dependents list their names in order.
Ascending(S) ==
  [i \in 1..Cardinality(S) |-> CHOOSE n \in S : Cardinality({m \in S : m < n}) = i - 1]

-----------------------------------------------------------------------------
(* topological_sort: Kahn's algorithm *)

\* One turn of the loop: the least ready node goes out and takes its edges
\* with it.
KahnStep(g, k) ==
  LET n == Min(k.ready)
      indegree == [m \in g.nodes |->
                     IF m \in Dependents(g, n) THEN k.indegree[m] - 1 ELSE k.indegree[m]]
  IN  [order |-> Append(k.order, n),
       indegree |-> indegree,
       ready |-> (k.ready \ {n}) \cup {m \in Dependents(g, n) : indegree[m] = 0}]

KahnStart(g) ==
  LET indegree == [n \in g.nodes |-> Cardinality(Dependencies(g, n))]
  IN  [order |-> <<>>, indegree |-> indegree, ready |-> {n \in g.nodes : indegree[n] = 0}]

\* The loop after each of its turns; it idles once nothing is ready.
Kahn(g) ==
  LET after[i \in 0..Cardinality(g.nodes)] ==
        IF i = 0 THEN KahnStart(g)
        ELSE IF after[i - 1].ready = {} THEN after[i - 1] ELSE KahnStep(g, after[i - 1])
  IN  after

KahnOrder(g) == Kahn(g)[Cardinality(g.nodes)].order

\* validate: topological_sort raises when nodes are left over.
Validates(g) == Len(KahnOrder(g)) = Cardinality(g.nodes)

-----------------------------------------------------------------------------
(* classify_cycle_edges: Tarjan's components with an explicit stack *)

\* One frame of the work stack: a node and how many of its successors the
\* loop has passed.
Frame(n, pos) == [node |-> n, pos |-> pos]

Fresh == [work |-> <<>>, index |-> <<>>, low |-> <<>>, stack |-> <<>>, components |-> {}]

OnStack(t, n) == \E i \in DOMAIN t.stack : t.stack[i] = n

Lowered(low, n, values) == [low EXCEPT ![n] = Min({low[n]} \cup values)]

\* The frame on top is a node met for the first time.
Enter(t, n) ==
  LET number == Cardinality(DOMAIN t.index)
      add(f) == [m \in DOMAIN f \cup {n} |-> IF m = n THEN number ELSE f[m]]
  IN  [t EXCEPT !.index = add(t.index), !.low = add(t.low), !.stack = Append(@, n)]

\* Mutant of Settle: the lowlink of a finished node does not reach its parent.
SettleAlone(t, n) ==
  LET bottom == CHOOSE i \in DOMAIN t.stack : t.stack[i] = n
      work == SubSeq(t.work, 1, Len(t.work) - 1)
  IN  IF t.low[n] = t.index[n]
        THEN [t EXCEPT !.work = work,
                       !.components = @ \cup {{t.stack[i] : i \in bottom..Len(t.stack)}},
                       !.stack = SubSeq(@, 1, bottom - 1)]
        ELSE [t EXCEPT !.work = work]

\* All successors are passed: a root takes its component off the stack, and
\* the parent, if any, hears of the lowlink.
Settle(t, n) ==
  LET bottom == CHOOSE i \in DOMAIN t.stack : t.stack[i] = n
      root == t.low[n] = t.index[n]
      work == SubSeq(t.work, 1, Len(t.work) - 1)
      low == IF work = <<>> THEN t.low
             ELSE Lowered(t.low, work[Len(work)].node, {t.low[n]})
  IN  [t EXCEPT
         !.work = work, !.low = low,
         !.components = IF root THEN @ \cup {{t.stack[i] : i \in bottom..Len(t.stack)}} ELSE @,
         !.stack = IF root THEN SubSeq(@, 1, bottom - 1) ELSE @]

\* One turn of the inner loop for the frame on top: go on to the first
\* successor that was never met, having looked at those before it.
Walk(g, top) ==
  LET n == top.work[Len(top.work)].node
      pos == top.work[Len(top.work)].pos
      t == IF pos = 0 THEN Enter(top, n) ELSE top
      sorted == Ascending(Dependents(g, n))
      unmet == {i \in (pos + 1)..Len(sorted) : sorted[i] \notin DOMAIN t.index}
      until == IF unmet = {} THEN Len(sorted) ELSE Min(unmet) - 1
      seen == {t.index[sorted[i]] : i \in {j \in (pos + 1)..until : OnStack(t, sorted[j])}}
      u == [t EXCEPT !.low = Lowered(@, n, seen)]
  IN  IF unmet = {} THEN Settle(u, n)
      ELSE [u EXCEPT !.work = Append(Append(SubSeq(@, 1, Len(@) - 1), Frame(n, until + 1)),
                                     Frame(sorted[until + 1], 0))]

\* One turn of the outer loop, or of the inner one.
Turn(g, t) ==
  LET unmet == g.nodes \ DOMAIN t.index
  IN  IF t.work # <<>> THEN Walk(g, t)
      ELSE IF unmet # {} THEN Walk(g, [t EXCEPT !.work = <<Frame(Min(unmet), 0)>>])
      ELSE t

\* The walk after each of its turns: a node is pushed once and popped once, so
\* that 2 turns per node are all there is.
Tarjan(g) ==
  LET after[i \in 0..(2 * Cardinality(g.nodes))] ==
        IF i = 0 THEN Fresh ELSE Turn(g, after[i - 1])
  IN  after

Components(g) == Tarjan(g)[2 * Cardinality(g.nodes)].components

CycleEdges(g) ==
  {e \in g.edges : \E c \in Components(g) : e[1] \in c /\ e[2] \in c /\ Cardinality(c) > 1}
=============================================================================
