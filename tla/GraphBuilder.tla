----------------------------- MODULE GraphBuilder -----------------------------
(***************************************************************************)
(* graph-builder/src/main.rs: runs that turn a JSON graph into the two     *)
(* tables of a database.  A run reads the nodes and the edges one by one,  *)
(* drops and makes the tables, each statement a transaction of its own,    *)
(* and inserts every row in one.  It may fail or be stopped at any step;   *)
(* the next run finds the tables as they are.                              *)
(***************************************************************************)
EXTENDS Naturals, Sequences, FiniteSets, FiniteSetsExt

CONSTANTS
  Word,       \* a u64 counts modulo this: 2^64
  MaxInteger, \* the greatest integer of SQLite: 2^63 - 1
  Rounded(_), \* the REAL that SQLite takes for a greater one, the nearest it has
  Keys,       \* public keys
  Aliases,    \* names of nodes
  Scids,      \* channel ids
  Graphs,     \* what the files hold: nodes and edges in their order
  None        \* "no value"

ASSUME NumberAssumption ==
  /\ Word \in Nat \ {0} /\ MaxInteger \in Nat /\ MaxInteger < Word
  /\ Scids \subseteq 0 .. Word - 1

\* Something that is no node, or no edge: a member is missing, has another type or is
\* no 64-bit number.
Malformed == [malformed |-> TRUE]

Node == [pubkey : Keys, alias : Aliases]
Edge == [scid : Scids, node1 : Keys, node2 : Keys, capacity : 0 .. Word - 1]

ASSUME GraphAssumption ==
  Graphs \subseteq [nodes : Seq(Node \cup {Malformed}), edges : Seq(Edge \cup {Malformed})]

VARIABLES
  pc,     \* the step of the run
  graph,  \* the file of the run
  nodes,  \* the map of nodes: alias and capacity
  edges,  \* the map of edges: the two ends
  next,   \* the element of the array to read
  db      \* the tables; None before they are made and when they are dropped

vars == <<pc, graph, nodes, edges, next, db>>

Table(map) == {[key |-> k, row |-> map[k]] : k \in DOMAIN map}

NoMap == [k \in {} |-> None]

Put(map, key, value) ==
  [k \in DOMAIN map \cup {key} |-> IF k = key THEN value ELSE map[k]]

Init ==
  /\ pc = "idle"
  /\ graph \in Graphs
  /\ nodes = NoMap /\ edges = NoMap /\ next = 1
  /\ db = [nodes |-> None, edges |-> None]

\* A run is started with a file.
Start ==
  /\ pc \in {"idle", "done", "failed"}
  /\ pc' = "nodes"
  /\ graph' \in Graphs
  /\ nodes' = NoMap /\ edges' = NoMap /\ next' = 1
  /\ UNCHANGED db

Fail == pc' = "failed" /\ UNCHANGED <<graph, nodes, edges, next, db>>

\* The loop of process_nodes; a key that comes again is overwritten.
ProcessNode ==
  /\ pc = "nodes" /\ next <= Len(graph.nodes)
  /\ LET node == graph.nodes[next] IN
     \/ node = Malformed /\ Fail
     \/ /\ node # Malformed
        /\ nodes' = Put(nodes, node.pubkey, [alias |-> node.alias, capacity |-> 0])
        /\ next' = next + 1
        /\ UNCHANGED <<pc, graph, edges, db>>

NodesProcessed ==
  /\ pc = "nodes" /\ next > Len(graph.nodes)
  /\ pc' = "edges" /\ next' = 1
  /\ UNCHANGED <<graph, nodes, edges, db>>

\* Mutant of AddCapacity: an end that is not a node of the graph becomes one.
AddCapacityAnyway(map, key, capacity) ==
  Put(map, key, IF key \in DOMAIN map
                THEN [map[key] EXCEPT !.capacity = (@ + capacity) % Word]
                ELSE [alias |-> None, capacity |-> capacity])

\* nodes.get_mut: an end that is not a node of the graph is left out.  A sum that is no
\* u64 wraps in a release build.
AddCapacity(map, key, capacity) ==
  IF key \in DOMAIN map THEN [map EXCEPT ![key].capacity = (@ + capacity) % Word] ELSE map

Overflows(map, key, capacity) ==
  key \in DOMAIN map /\ map[key].capacity + capacity >= Word

\* The loop of process_edges.  A sum that is no u64 panics in a debug build.
ProcessEdge ==
  /\ pc = "edges" /\ next <= Len(graph.edges)
  /\ LET edge == graph.edges[next]
         one  == AddCapacity(nodes, edge.node1, edge.capacity)
     IN
     \/ edge = Malformed /\ Fail
     \/ /\ edge # Malformed
        /\ \/ Overflows(nodes, edge.node1, edge.capacity)
           \/ Overflows(one, edge.node2, edge.capacity)
        /\ Fail
     \/ /\ edge # Malformed
        /\ edges' = Put(edges, edge.scid, <<edge.node1, edge.node2>>)
        /\ nodes' = AddCapacity(one, edge.node2, edge.capacity)
        /\ next' = next + 1
        /\ UNCHANGED <<pc, graph, db>>

EdgesProcessed ==
  /\ pc = "edges" /\ next > Len(graph.edges)
  /\ pc' = "drop nodes"
  /\ UNCHANGED <<graph, nodes, edges, next, db>>

Statement(here, there, table, content) ==
  /\ pc = here
  /\ db' = [db EXCEPT ![table] = content]
  /\ pc' = there
  /\ UNCHANGED <<graph, nodes, edges, next>>

\* CREATE_DB, in no transaction.
DropNodes   == Statement("drop nodes", "create nodes", "nodes", None)
CreateNodes == Statement("create nodes", "drop edges", "nodes", {})
DropEdges   == Statement("drop edges", "create edges", "edges", None)
CreateEdges == Statement("create edges", "insert", "edges", {})

\* What an INTEGER column holds of a number given to it as a text.
Column(n) == IF n <= MaxInteger THEN n ELSE Rounded(n)

Stored(table) ==
  {[key |-> r.key, row |-> [alias |-> r.row.alias, capacity |-> Column(r.row.capacity)]] :
     r \in table}

\* An INTEGER PRIMARY KEY takes integers only.
LargeScids == {s \in Scids : s > MaxInteger}

\* Mutant of Insert: every row is a transaction of its own.
InsertNodesFirst ==
  /\ pc = "insert"
  /\ IF db.nodes = {} THEN pc' = pc /\ db' = [db EXCEPT !.nodes = Stored(Table(nodes))]
     ELSE pc' = "done" /\ db' = [db EXCEPT !.edges = Table(edges)]
  /\ UNCHANGED <<graph, nodes, edges, next>>

\* The transaction of dump: a row that does not fit takes all of them back.
Insert ==
  /\ pc = "insert"
  /\ \/ DOMAIN edges \cap LargeScids # {} /\ Fail
     \/ /\ DOMAIN edges \cap LargeScids = {}
        /\ db' = [nodes |-> Stored(Table(nodes)), edges |-> Table(edges)]
        /\ pc' = "done"
        /\ UNCHANGED <<graph, nodes, edges, next>>

Running == {"nodes", "edges", "drop nodes", "create nodes", "drop edges", "create edges",
            "insert"}

\* The run is killed, or the database answers with an error.
Stop ==
  /\ pc \in Running
  /\ Fail

Next ==
  \/ Start \/ ProcessNode \/ NodesProcessed \/ ProcessEdge \/ EdgesProcessed
  \/ DropNodes \/ CreateNodes \/ DropEdges \/ CreateEdges \/ Insert \/ Stop

Spec == Init /\ [][Next]_vars

-----------------------------------------------------------------------------
(* Properties.                                                             *)

TypeOK ==
  /\ pc \in {"idle", "done", "failed"} \cup Running
  /\ graph \in Graphs /\ next \in Nat \ {0}
  /\ DOMAIN nodes \subseteq Keys /\ DOMAIN edges \subseteq Scids
  /\ \A k \in DOMAIN nodes : nodes[k] \in [alias : Aliases, capacity : 0 .. Word - 1]
  /\ \A s \in DOMAIN edges : edges[s] \in Keys \X Keys
  /\ db = [nodes |-> db.nodes, edges |-> db.edges]

\* The ends of the edge that are this key: two for a channel with oneself.
Ends(edge, key) ==
  Cardinality({e \in {1, 2} : key = IF e = 1 THEN edge.node1 ELSE edge.node2})

\* The capacity of every edge that names a node, an edge that is there twice counted twice.
Capacity(g, key) ==
  MapThenSumSet(LAMBDA i : g.edges[i].capacity * Ends(g.edges[i], key), DOMAIN g.edges)

\* What the file says of a node: its last alias, and its capacity as far as a u64 has it.
Described(g, key) ==
  [alias |-> LET of == {i \in DOMAIN g.nodes : g.nodes[i].pubkey = key}
             IN  g.nodes[Max(of)].alias,
   capacity |-> Capacity(g, key) % Word]

NodesOf(g) == {[key |-> k, row |-> Described(g, k)] :
                 k \in {g.nodes[i].pubkey : i \in DOMAIN g.nodes}}

EdgesOf(g) == LET last == {i \in DOMAIN g.edges :
                             \A j \in i + 1 .. Len(g.edges) : g.edges[j].scid # g.edges[i].scid}
              IN  {[key |-> g.edges[i].scid, row |-> <<g.edges[i].node1, g.edges[i].node2>>] :
                     i \in last}

Tables(g) == [nodes |-> Stored(NodesOf(g)), edges |-> EdgesOf(g)]

Whole(g) ==
  /\ \A i \in DOMAIN g.nodes : g.nodes[i] # Malformed
  /\ \A i \in DOMAIN g.edges : g.edges[i] # Malformed

\* A run that ends well leaves the graph of its file, whatever runs were stopped before
\* it and wherever: the last alias of every node, the ends of every channel, and of every
\* node the sum of its capacities, to the last of them if the sum is an integer of
\* SQLite.  A greater one is there rounded, or wrapped around (graph-builder/src/main.rs:84-146).
DoneIsTheGraph ==
  pc = "done" =>
    /\ Whole(graph) /\ db = Tables(graph)
    /\ \A n \in db.nodes : Capacity(graph, n.key) <= MaxInteger
                            => n.row.capacity = Capacity(graph, n.key)

\* A stopped run leaves empty tables or none at worst, but that a stop between the DROP
\* statements leaves the edges of the old graph without its nodes: nodes and edges of two
\* graphs are never in the database together, nor a part of a table
\* (graph-builder/src/main.rs:84-103).
TablesMatch ==
  \/ db.nodes \in {None, {}} /\ db.edges \in {None, {}}
  \/ \E g \in Graphs : Whole(g) /\ db.edges = Tables(g).edges
                         /\ db.nodes \in {None, {}, Tables(g).nodes}

\* What makes them inductive: the maps are what the elements read so far describe, and
\* the tables are emptied one after the other.
NodesRead == IF pc = "nodes" THEN next - 1 ELSE Len(graph.nodes)
EdgesRead == IF pc = "nodes" THEN 0 ELSE IF pc = "edges" THEN next - 1 ELSE Len(graph.edges)

ReadSoFar == [nodes |-> SubSeq(graph.nodes, 1, NodesRead),
              edges |-> SubSeq(graph.edges, 1, EdgesRead)]

MapsInv ==
  pc \in Running =>
    /\ NodesRead <= Len(graph.nodes) /\ EdgesRead <= Len(graph.edges)
    /\ Whole(ReadSoFar)
    /\ Table(nodes) = NodesOf(ReadSoFar)
    /\ Table(edges) = EdgesOf(ReadSoFar)

StatementsInv ==
  /\ pc = "create nodes" => db.nodes = None
  /\ pc \in {"drop edges", "create edges", "insert"} => db.nodes = {}
  /\ pc = "create edges" => db.edges = None
  /\ pc = "insert" => db.edges = {}

IInv == TypeOK /\ MapsInv /\ StatementsInv /\ TablesMatch /\ DoneIsTheGraph
=============================================================================
