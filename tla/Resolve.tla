------------------------------ MODULE Resolve -------------------------------
(***************************************************************************)
(* The compiler's gate over wiring (core/resolve.py): what the nodes       *)
(* declare, and when every depends_on edge lines up with it.               *)
(*                                                                         *)
(* A graph carries, next to its topology, the outputs its plan declares    *)
(* per node (inputs: the manifest's).  A manifest is what the gate reads   *)
(* of it: inputs and outputs map a field to its declared type, depends_on  *)
(* lists the wires in order, context are the keys of its static context.   *)
(***************************************************************************)
EXTENDS AgentDag

Undeclared == [f \in {} |-> "any"]

-----------------------------------------------------------------------------
(* The two schema blocks *)

\* _declared_outputs: the plan's declaration, the manifest's without one.
DeclaredOutputs(g, ms, n) ==
  IF n \in DOMAIN g.outputs /\ g.outputs[n] # Undeclared THEN g.outputs[n] ELSE ms[n].outputs

\* _declared_inputs
DeclaredInputs(ms, n) == ms[n].inputs

\* _types_compatible: only two known types can clash.
Compatible(s, t) == s = "any" \/ t = "any" \/ s = t

\* resolve_edges: a node's manifest is its wiring.
Wires(ms, n) == {ms[n].depends_on[i] : i \in DOMAIN ms[n].depends_on}

-----------------------------------------------------------------------------
(* check_alignment.  opt says which optional gates are on, and opt.strict  *)
(* which nodes strict_fn narrows the deep ones to.                         *)

\* Mutant of OneWriter: the gate looks for the same wire twice.
OneWriterOfAWire(ms, n, i) ==
  \A j \in 1..(i - 1) : ms[n].depends_on[j] # ms[n].depends_on[i]

OneWriter(ms, n, i) ==
  \A j \in 1..(i - 1) : ms[n].depends_on[j].to # ms[n].depends_on[i].to

\* One wire of a node, in the order in which the code checks it.
EdgeAligns(g, ms, opt, n, i) ==
  LET e == ms[n].depends_on[i]
  IN  /\ e.producer \in DOMAIN ms
      /\ e.field \in DOMAIN DeclaredOutputs(g, ms, e.producer)
      /\ e.to \in DOMAIN DeclaredInputs(ms, n)
      /\ opt.single_writer /\ n \in opt.strict => OneWriter(ms, n, i)
      /\ e.producer \in Dependencies(g, n)
      /\ opt.strict_types /\ n \in opt.strict =>
           Compatible(DeclaredOutputs(g, ms, e.producer)[e.field], DeclaredInputs(ms, n)[e.to])

\* full_input_cover: every input has a wire or a key of the static context.
Covered(ms, n) ==
  DOMAIN DeclaredInputs(ms, n) \subseteq {w.to : w \in Wires(ms, n)} \cup ms[n].context

NodeAligns(g, ms, opt, n) ==
  /\ opt.require_declared_io => DeclaredOutputs(g, ms, n) # Undeclared
  /\ \A i \in DOMAIN ms[n].depends_on : EdgeAligns(g, ms, opt, n, i)
  /\ opt.full_input_cover => Covered(ms, n)

Aligned(g, ms, opt) == \A n \in DOMAIN ms : NodeAligns(g, ms, opt, n)

\* The edge an AlignmentError names, for a check that walks the nodes in the
\* order given: the producer and the consumer of the first wire that fails.
FirstMisaligned(g, ms, opt, order) ==
  LET bad(n) == {i \in DOMAIN ms[n].depends_on : ~EdgeAligns(g, ms, opt, n, i)}
      k == Min({j \in DOMAIN order : ~NodeAligns(g, ms, opt, order[j])})
      n == order[k]
  IN  [node |-> n,
       producer |-> IF bad(n) = {} THEN n ELSE ms[n].depends_on[Min(bad(n))].producer]
=============================================================================
