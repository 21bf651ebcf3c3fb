------------------------------- MODULE Trail -------------------------------
(* The hypothesis trail of reasoning/trailstore.py: what a log of records says.
   A record's sequence number is its place in the log and a hypothesis is named
   by it; the log is replaced whole on every mutation, so the records one call
   appends are there together or not at all. *)
EXTENDS Integers, Sequences, FiniteSets, FiniteSetsExt, SequencesExt

CONSTANT DepthCap

ASSUME TrailAssumption == DepthCap \in Nat

NoParent == 0
\* A candidate is confident when it is at or above the confidence floor.
Hypothesis(parent, confident, depth) ==
    [kind |-> "hypothesis", parent |-> parent, confident |-> confident, depth |-> depth]

Hyps(log) == {i \in DOMAIN log : log[i].kind = "hypothesis"}
OfKind(log, kind) == {log[i] : i \in {j \in DOMAIN log : log[j].kind = kind}}

\* _build_model
Children(log, h) == {i \in Hyps(log) : log[i].parent = h}
Attacks(log) == {<<r.src, r.dst>> : r \in OfKind(log, "attack")}
Resolved(log, h) == \E r \in OfKind(log, "resolved") : r.target = h
VerdictOf(log, h) ==
    LET given == {i \in DOMAIN log : log[i].kind = "verdict" /\ log[i].target = h}
    IN  IF given = {} THEN "none" ELSE log[Max(given)].verdict

RootHyps(log, candidates) ==
    log \o [i \in 1 .. Len(candidates) |-> Hypothesis(NoParent, candidates[i], 0)]

\* The mutant: children are recorded at the depth of their parent.
FannedFlat(log, parent, candidates) ==
    log \o [i \in 1 .. Len(candidates) |->
               Hypothesis(parent, candidates[i], log[parent].depth)]

Fanned(log, parent, candidates) ==
    log \o [i \in 1 .. Len(candidates) |->
               Hypothesis(parent, candidates[i], log[parent].depth + 1)]

\* The mutant: the marker is left for a later flush.
JudgedUnmarked(log, h, verdict) ==
    Append(log, [kind |-> "verdict", target |-> h, verdict |-> verdict])

\* The verdict and its marker are flushed together.
Judged(log, h, verdict) ==
    log \o << [kind |-> "verdict", target |-> h, verdict |-> verdict],
              [kind |-> "resolved", target |-> h] >>

\* attack: idempotent, and never of oneself.
Attacked(log, src, dst) ==
    IF <<src, dst>> \in Attacks(log) THEN log
    ELSE Append(log, [kind |-> "attack", src |-> src, dst |-> dst])

\* The mutant: every hypothesis of the trail.
WholeTrail(log, root) == Hyps(log)

Subtree(log, root) ==
    LET under[h \in Hyps(log)] ==
            h = root \/ (log[h].parent # NoParent /\ under[log[h].parent])
    IN  {h \in Hyps(log) : under[h]}

OpenFrontier(log, root) ==
    {h \in Subtree(log, root) :
        /\ ~Resolved(log, h)
        /\ Children(log, h) = {}
        /\ log[h].depth <= DepthCap
        /\ ~log[h].confident}

AttackersWithin(log, nodes, h) == {a \in nodes : <<a, h>> \in Attacks(log)}

\* One pass of the labelling loop: first every label "in", then every "out".
Pass(log, nodes, label) ==
    LET in == {n \in nodes \ DOMAIN label :
                  \A a \in AttackersWithin(log, nodes, n) :
                      a \in DOMAIN label /\ label[a] = "out"}
        withIn == [n \in DOMAIN label \cup in |-> IF n \in in THEN "in" ELSE label[n]]
        out == {n \in nodes \ DOMAIN withIn :
                  \E a \in AttackersWithin(log, nodes, n) :
                      a \in DOMAIN withIn /\ withIn[a] = "in"}
    IN  [n \in DOMAIN withIn \cup out |-> IF n \in out THEN "out" ELSE withIn[n]]

GroundedLabels(log, root) ==
    LET nodes == Subtree(log, root)
        after[n \in 0 .. Cardinality(nodes)] ==
            IF n = 0 THEN [m \in {} |-> "in"] ELSE Pass(log, nodes, after[n - 1])
        settled == after[Cardinality(nodes)]
    IN  [n \in nodes |-> IF n \in DOMAIN settled THEN settled[n] ELSE "undec"]

\* lower_to_dag: the accepted hypotheses, edged along the accepted tree.
Accepted(log, root) ==
    LET label == GroundedLabels(log, root) IN {h \in DOMAIN label : label[h] = "in"}

Lowered(log, root) ==
    LET in == Accepted(log, root) IN
    [nodes |-> in,
     edges |-> {e \in in \X in : log[e[2]].parent = e[1]}]
=============================================================================
