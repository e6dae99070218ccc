--------------------------- MODULE MCGraphBuilder ---------------------------
(* Files of up to two nodes and two edges over two keys and a stranger. *)
EXTENDS GraphBuilder

CONSTANTS k1, k2, stranger, x, y

MCKeys == {k1, k2, stranger}

MCNodes == {<<>>, <<Malformed>>} \cup
  {<<[pubkey |-> k1, alias |-> x], [pubkey |-> k, alias |-> y]>> : k \in {k1, k2}}

\* The doubles have fewer digits than the numbers.
MCRounded(n) == 4 * ((n + 2) \div 4)

\* Sums within the integers of SQLite, beyond them, and beyond the word.
MCEdge == [scid : {1, 2}, node1 : {k1}, node2 : MCKeys, capacity : {2, 6, 14}]

MCEdges == {<<>>, <<Malformed>>,
            <<[scid |-> 9, node1 |-> k1, node2 |-> k2, capacity |-> 1]>>}
  \cup {<<[scid |-> 1, node1 |-> k1, node2 |-> k2, capacity |-> 3], e>> : e \in MCEdge}

MCGraphs == [nodes : MCNodes, edges : MCEdges]
=============================================================================
