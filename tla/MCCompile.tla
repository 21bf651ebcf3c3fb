----------------------------- MODULE MCCompile ------------------------------
(***************************************************************************)
(* Every topology over three names, some over four, and manifest sets that *)
(* trip each gate.                                                         *)
(***************************************************************************)
EXTENDS Compile

CONSTANTS Redeclarations  \* whether the plan author also declares other outputs

Names == 1..4
Three == 1..3

Str == [f \in {0} |-> "str"]
Num == [f \in {0} |-> "int"]
Both == [f \in {0, 1} |-> "str"]

Graph(nodes, edges) == [nodes |-> nodes, edges |-> edges, outputs |-> <<>>]
Declaring(g, n, fields) == [g EXCEPT !.outputs = [m \in {n} |-> fields]]

Pairs == {e \in Three \X Three : e[1] # e[2]}

Join == Graph(Three, {<<1, 3>>, <<2, 3>>})
Full == Graph(Three, {<<1, 2>>, <<2, 3>>, <<1, 3>>})

MCSpecs ==
  {Graph(Three, es) : es \in SUBSET Pairs}
  \cup {Graph({1, 2}, {<<1, 2>>}), Graph({1}, {}), Graph({}, {}), Graph({1}, {<<1, 2>>}),
        Graph({1, 2}, {<<1, 1>>})}
  \cup {Graph(Names, {<<1, 2>>, <<2, 3>>, <<3, 4>>, <<4, 2>>}),
        Graph(Names, {<<1, 3>>, <<3, 1>>, <<2, 4>>, <<4, 2>>, <<1, 2>>}),
        Graph(Names, {<<4, 3>>, <<3, 2>>, <<2, 1>>}),
        Graph(Names, {<<1, 4>>, <<4, 3>>, <<3, 1>>, <<2, 3>>, <<1, 2>>})}
  \cup (IF Redeclarations
          THEN {Declaring(Full, 1, Both), Declaring(Full, 1, Str),
                Declaring(Graph({1, 2}, {<<1, 2>>}), 1, Both)}
          ELSE {Declaring(Full, 1, Both)})

MCShapes == {<<1>>, <<2, 1, 3>>, <<1, 2, 3, 4>>}

Wire(p, f, to) == [producer |-> p, field |-> f, to |-> to]
Agent(inputs, outputs, wires) ==
  [hosting |-> 1, inputs |-> inputs, outputs |-> outputs, depends_on |-> wires,
   context |-> {}, tiered |-> FALSE]
Reads(S) == [i \in S |-> "str"]

Source == Agent(<<>>, Str, <<>>)
Chained == [n \in Three |->
  CASE n = 1 -> Source
    [] n = 2 -> Agent(Reads({1}), Str, <<Wire(1, 0, 1)>>)
    [] n = 3 -> Agent(Reads({2}), Str, <<Wire(2, 0, 2)>>)]
Joined == [n \in Three |->
  CASE n = 1 -> Source
    [] n = 2 -> Source
    [] n = 3 -> [Agent(Reads({1, 2, 3}), Str, <<Wire(1, 0, 1), Wire(2, 0, 2)>>)
                   EXCEPT !.context = {1, 3}, !.tiered = TRUE]]
Clash == [Joined EXCEPT ![3].depends_on = <<Wire(1, 0, 1), Wire(2, 0, 1)>>,
                        ![3].inputs = Reads({1})]
Rich == [Chained EXCEPT ![3] = Agent(Reads({1, 2}), Str, <<Wire(2, 0, 2), Wire(1, 1, 1)>>)]
Typed == [Chained EXCEPT ![2].outputs = Num]
Rehosted == [Joined EXCEPT ![2].hosting = 2]
Silent == [Chained EXCEPT ![3].outputs = Undeclared]
Pair == [n \in {1, 2} |-> Chained[n]]
Uncovered == [Joined EXCEPT ![2].inputs = Reads({1})]

MCManifestSets == {Chained, Joined, Clash, Rich, Typed, Rehosted, Silent, Pair, Uncovered}

\* Candidates: what they return, and what they want from a producer named 1.
\* The first search finds a team; in the second the only one that aligns is
\* the producer's first with the consumer's second.
Takes(t, outputs) == Agent([i \in {1} |-> t], outputs, <<>>)
MCPools ==
  {[n \in Names |-> IF n = 1 THEN <<Source, Agent(<<>>, Num, <<>>)>>
                    ELSE <<Takes("int", Str), Takes("str", Str)>>],
   [n \in Names |-> IF n = 1 THEN <<Source, Agent(<<>>, Num, <<>>)>>
                    ELSE <<Takes("obj", Str), Takes("str", Str)>>],
   [n \in Names |-> IF n = 3 THEN <<>> ELSE <<Source>>]}

Weak == [n \in Names |-> 0]
Mixed == [n \in Names |-> CASE n = 2 -> 2 [] n = 3 -> 3 [] OTHER -> 1]
MCDials == {Weak, Mixed}

AllGates == [strict_types |-> TRUE, single_writer |-> TRUE, full_input_cover |-> TRUE,
             require_declared_io |-> TRUE, strict |-> {}]
=============================================================================
