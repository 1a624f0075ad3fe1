------------------------------ MODULE AudioGraph ------------------------------
(***************************************************************************)
(* The routing graph (audio/graph.rs) and the processing of a block along  *)
(* it (audio/graph_engine.rs): nodes, edges, the refusal of cycles, the    *)
(* cached processing order, the serial chain of the rack.                  *)
(*                                                                         *)
(* An edge is the pair of its ends, since a second one between the same    *)
(* nodes is refused.  The iteration order of the hash maps is a choice.    *)
(* Positions in a chain and slots start at 1.                              *)
(***************************************************************************)
EXTENDS Integers, Sequences, FiniteSets, FiniteSetsExt, SequencesExt

CONSTANTS
  MaxId,     \* bound on node identifiers
  MaxEdges,  \* bound on the edges connect makes
  Kinds,     \* kinds of nodes that can be added by themselves
  NoOrder    \* the order is not cached

ASSUME AudioGraphAssumption ==
  MaxId \in Nat \ {0} /\ MaxEdges \in Nat /\ Kinds \subseteq {"Plugin", "Split", "Mix"}

VARIABLES
  nodes,         \* AudioGraph.nodes: identifier to kind and slot
  edges,         \* AudioGraph.edges
  next_node_id,
  cached_order   \* AudioGraph.cached_order

vars == <<nodes, edges, next_node_id, cached_order>>

Ids == 0..MaxId
Nodes == [kind : {"Input", "Output", "Plugin", "Split", "Mix"}, slot : Nat]

TypeOK ==
  /\ \E used \in SUBSET (0..(next_node_id - 1)) : nodes \in [used -> Nodes]
  /\ edges \subseteq (DOMAIN nodes) \X (DOMAIN nodes)
  /\ next_node_id \in 2..(MaxId + 1)
  /\ cached_order = NoOrder \/ cached_order \in Seq(DOMAIN nodes)

Node(kind, slot) == [kind |-> kind, slot |-> slot]
OfKind(kind) == {n \in DOMAIN nodes : nodes[n].kind = kind}
input_node == CHOOSE n \in DOMAIN nodes : nodes[n].kind = "Input"
output_node == CHOOSE n \in DOMAIN nodes : nodes[n].kind = "Output"

predecessors(n, ids, graph) == {m \in ids : <<m, n>> \in graph}
successors(n, ids, graph) == {m \in ids : <<n, m>> \in graph}

\* AudioGraph::new
Init ==
  /\ nodes = [n \in {0, 1} |-> Node(IF n = 0 THEN "Input" ELSE "Output", 0)]
  /\ edges = {<<0, 1>>}
  /\ next_node_id = 2
  /\ cached_order = NoOrder

-----------------------------------------------------------------------------
(* Cycles and orders *)

\* The search goes on to a node: from the loop of has_cycle or from the node
\* that is last on the path.
Visit(search, n) ==
  [search EXCEPT !.path = Append(@, n), !.visited = @ \cup {n}]

\* Mutant: a node that was visited before is no cycle, on the path or not.
SearchedByVisited(search, ids, graph) ==
  LET next == IF search.path = <<>> THEN ids \ search.visited
              ELSE successors(Last(search.path), ids, graph) \ search.visited
  IN  IF next # {} THEN Visit(search, CHOOSE n \in next : TRUE)
      ELSE IF search.path # <<>> THEN [search EXCEPT !.path = Front(@)]
      ELSE search

\* dfs_cycle_check: a call or a return.  The path is the stack of the calls, which
\* is what rec_stack holds; a node met on it closes a cycle.  A call on a node
\* that was visited and is not on the path returns at once and is left out.
Searched(search, ids, graph) ==
  LET next == IF search.path = <<>> THEN ids \ search.visited
              ELSE successors(Last(search.path), ids, graph)
                     \ (search.visited \ ToSet(search.path))
      n    == CHOOSE n \in next : TRUE
  IN  IF search.cycle THEN search
      ELSE IF next # {} THEN IF n \in ToSet(search.path) THEN [search EXCEPT !.cycle = TRUE]
                             ELSE Visit(search, n)
      ELSE IF search.path # <<>> THEN [search EXCEPT !.path = Front(@)]
      ELSE search

\* has_cycle: depth first from every node; each is entered and left at most once.
has_cycle(ids, graph) ==
  LET last == 2 * Cardinality(ids)
      search[k \in 0..last] ==
        IF k = 0 THEN [cycle |-> FALSE, visited |-> {}, path |-> <<>>]
        ELSE Searched(search[k - 1], ids, graph)
  IN  search[last].cycle

\* One turn of Kahn's algorithm: the first node of the queue is put to the order,
\* and those that have no other predecessor left to the queue, in any sequence.
Popped(run) ==
  IF run.queue = <<>> THEN {run}
  ELSE LET n     == Head(run.queue)
           after == [m \in DOMAIN nodes |->
                       run.in_degree[m] - (IF <<n, m>> \in edges THEN 1 ELSE 0)]
           ready == {m \in successors(n, DOMAIN nodes, edges) : after[m] = 0}
       IN  {[queue |-> Tail(run.queue) \o next, in_degree |-> after,
             order |-> Append(run.order, n)] : next \in SetToSeqs(ready)}

\* compute_topological_order: all the orders the algorithm may give; none if it
\* does not come to every node.
compute_topological_order ==
  LET count     == Cardinality(DOMAIN nodes)
      in_degree == [n \in DOMAIN nodes |-> Cardinality(predecessors(n, DOMAIN nodes, edges))]
      Starts    == {[queue |-> first, in_degree |-> in_degree, order |-> <<>>] :
                      first \in SetToSeqs({n \in DOMAIN nodes : in_degree[n] = 0})}
      runs[k \in 0..count] ==
        IF k = 0 THEN Starts ELSE UNION {Popped(run) : run \in runs[k - 1]}
  IN  {run.order : run \in {r \in runs[count] : Len(r.order) = count}}

\* topological_order: the cached order, if there is one.
Orders == IF cached_order # NoOrder THEN {cached_order} ELSE compute_topological_order

\* unwrap_or_default: without an order insert_in_chain goes on with an empty one.
OrdersOrEmpty == IF Orders = {} THEN {<<>>} ELSE Orders

topological_order ==
  /\ cached_order' \in Orders
  /\ UNCHANGED <<nodes, edges, next_node_id>>

-----------------------------------------------------------------------------
(* Operations on nodes and edges *)

add_node(kind, slot) ==
  /\ next_node_id <= MaxId
  /\ nodes' = [n \in DOMAIN nodes \cup {next_node_id} |->
                 IF n = next_node_id THEN Node(kind, slot) ELSE nodes[n]]
  /\ next_node_id' = next_node_id + 1
  /\ cached_order' = NoOrder
  /\ UNCHANGED edges

\* The edges go with the node; Input and Output stay.
remove_node(n) ==
  /\ nodes[n].kind \notin {"Input", "Output"}
  /\ nodes' = [m \in DOMAIN nodes \ {n} |-> nodes[m]]
  /\ edges' = {e \in edges : n \notin {e[1], e[2]}}
  /\ cached_order' = NoOrder
  /\ UNCHANGED next_node_id

Connectable(from, to) == from # to /\ <<from, to>> \notin edges

\* Mutant: the cached order is kept.
ConnectKeepsOrder(from, to) ==
  /\ Connectable(from, to)
  /\ ~has_cycle(DOMAIN nodes, edges \cup {<<from, to>>})
  /\ edges' = edges \cup {<<from, to>>}
  /\ UNCHANGED <<nodes, next_node_id, cached_order>>

\* The edge is tried, and taken back if it closes a cycle.
connect(from, to) ==
  /\ Connectable(from, to)
  /\ ~has_cycle(DOMAIN nodes, edges \cup {<<from, to>>})
  /\ edges' = edges \cup {<<from, to>>}
  /\ cached_order' = NoOrder
  /\ UNCHANGED <<nodes, next_node_id>>

disconnect(from, to) ==
  /\ <<from, to>> \in edges
  /\ edges' = edges \ {<<from, to>>}
  /\ cached_order' = NoOrder
  /\ UNCHANGED <<nodes, next_node_id>>

-----------------------------------------------------------------------------
(* Serial chains *)

Consecutive(path) == {<<path[i], path[i + 1]>> : i \in 1..(Len(path) - 1)}

\* rebuild_serial_chain, from_serial_chain: only Input and Output are kept.
rebuild_serial_chain(slots) ==
  LET new  == [i \in DOMAIN slots |-> next_node_id + i - 1]
      ends == {input_node, output_node}
  IN  /\ next_node_id + Len(slots) <= MaxId + 1
      /\ nodes' = [n \in ends \cup ToSet(new) |->
                     IF n \in ends THEN nodes[n]
                     ELSE Node("Plugin", slots[n - next_node_id + 1])]
      /\ edges' = Consecutive(<<input_node>> \o new \o <<output_node>>)
      /\ next_node_id' = next_node_id + Len(slots)
      /\ cached_order' = NoOrder

\* The nodes of the order but Input and Output.
Inner(order) ==
  LET inner[k \in 0..Len(order)] ==
        IF k = 0 THEN <<>>
        ELSE IF nodes[order[k]].kind \in {"Input", "Output"} THEN inner[k - 1]
        ELSE Append(inner[k - 1], order[k])
  IN  inner[Len(order)]

Before(inner, position) ==
  IF position = 1 \/ inner = <<>> THEN input_node
  ELSE IF position <= Len(inner) + 1 THEN inner[position - 1] ELSE Last(inner)
After(inner, position) == IF position > Len(inner) THEN output_node ELSE inner[position]

\* Mutant: the direct edge is not taken away.
InsertBeside(position, slot, order) ==
  LET before == Before(Inner(order), position)
      after  == After(Inner(order), position)
  IN  /\ next_node_id <= MaxId
      /\ nodes' = [n \in DOMAIN nodes \cup {next_node_id} |->
                     IF n = next_node_id THEN Node("Plugin", slot) ELSE nodes[n]]
      /\ next_node_id' = next_node_id + 1
      /\ edges' = edges \cup Consecutive(<<before, next_node_id, after>>)
      /\ cached_order' = NoOrder

\* connect(..).ok(): an edge that closes a cycle is left out.
ConnectedOk(ids, graph, edge) ==
  IF has_cycle(ids, graph \cup {edge}) THEN graph ELSE graph \cup {edge}

\* insert_in_chain: between the neighbours in the order.
insert_in_chain(position, slot, order) ==
  LET before == Before(Inner(order), position)
      after  == After(Inner(order), position)
  IN  /\ next_node_id <= MaxId
      /\ nodes' = [n \in DOMAIN nodes \cup {next_node_id} |->
                     IF n = next_node_id THEN Node("Plugin", slot) ELSE nodes[n]]
      /\ next_node_id' = next_node_id + 1
      /\ edges' = ConnectedOk(DOMAIN nodes \cup {next_node_id},
                              (edges \ {<<before, after>>}) \cup {<<before, next_node_id>>},
                              <<next_node_id, after>>)
      /\ cached_order' = NoOrder

adjust_slot_indices_after_remove(removed) ==
  /\ nodes' = [n \in DOMAIN nodes |-> [nodes[n] EXCEPT !.slot = IF @ > removed THEN @ - 1 ELSE @]]
  /\ UNCHANGED <<edges, next_node_id, cached_order>>

is_serial_chain ==
  \A n \in DOMAIN nodes :
    /\ nodes[n].kind \in {"Input", "Output", "Plugin"}
    /\ nodes[n].kind # "Input" => Cardinality(predecessors(n, DOMAIN nodes, edges)) = 1
    /\ nodes[n].kind # "Output" => Cardinality(successors(n, DOMAIN nodes, edges)) = 1

\* serial_chain_slots, of a serial chain
SlotsIn(order) == [i \in DOMAIN Inner(order) |-> nodes[Inner(order)[i]].slot]
serial_chain_slots == SlotsIn(CHOOSE order \in Orders : TRUE)

-----------------------------------------------------------------------------
(* Processing of a block *)

\* A signal is a set of terms that are added up.  A term names the node that
\* made it, what the node did, and the signal the node was given.
Made(n, how, from) == {[node |-> n, how |-> how, from |-> from]}

\* What a node makes of the sum of its predecessors' signals.  A plugin that is
\* bypassed or fails passes it through; an Output leaves its own buffer silent.
Produces(n, sum, passing) ==
  CASE nodes[n].kind = "Input"  -> Made(n, "generated", {})
    [] nodes[n].kind = "Plugin" -> Made(n, IF n \in passing THEN "passed" ELSE "processed", sum)
    [] nodes[n].kind = "Split"  -> Made(n, "copied", sum)
    [] nodes[n].kind = "Mix"    -> Made(n, "averaged", sum)
    [] OTHER                    -> {}

Sum(pool, n) == UNION {pool[m] : m \in predecessors(n, DOMAIN nodes, edges)}

\* A node's turn; the device gets what the Output node is given.
Turn(block, n, passing) ==
  [pool   |-> [block.pool EXCEPT ![n] = Produces(n, Sum(block.pool, n), passing)],
   device |-> IF nodes[n].kind = "Output" THEN Sum(block.pool, n) ELSE block.device]

\* process_graph: all buffers are cleared, then the nodes take their turns.
process_graph(order, passing) ==
  LET block[k \in 0..Len(order)] ==
        IF k = 0 THEN [pool |-> [n \in DOMAIN nodes |-> {}], device |-> {}]
        ELSE Turn(block[k - 1], order[k], passing)
  IN  block[Len(order)].device

-----------------------------------------------------------------------------
Next ==
  \/ topological_order
  \/ \E kind \in Kinds : add_node(kind, IF kind = "Plugin" THEN 1 ELSE 0)
  \/ \E n \in DOMAIN nodes : remove_node(n)
  \/ Cardinality(edges) < MaxEdges /\ \E from, to \in DOMAIN nodes : connect(from, to)
  \/ \E from, to \in DOMAIN nodes : disconnect(from, to)
  \/ \E n \in 0..2 : rebuild_serial_chain([i \in 1..n |-> i])
  \/ \E order \in OrdersOrEmpty, position \in 1..3 : insert_in_chain(position, 3, order)
  \/ adjust_slot_indices_after_remove(2)

Spec == Init /\ [][Next]_vars

-----------------------------------------------------------------------------
(* Properties *)

\* Of every set of nodes one has no predecessor in the set.
HasNoCycle(ids, graph) ==
  \A S \in (SUBSET ids) \ {{}} : \E n \in S : \A m \in S : <<m, n>> \notin graph

\* There is never a cycle: connect refuses the edge that closes one, and the other
\* operations do not look (connect, rebuild_serial_chain, insert_in_chain).
Acyclic == HasNoCycle(DOMAIN nodes, edges)

\* Whatever order was cached and whichever plugins pass, the device gets what
\* the graph says: each node's signal from those of all its predecessors
\* (topological_order, the invalidation of cached_order, process_graph).
DeviceGetsTheGraph ==
  cached_order # NoOrder =>
    \A passing \in SUBSET OfKind("Plugin") :
      LET signal[n \in DOMAIN nodes] ==
            Produces(n, UNION {signal[m] : m \in predecessors(n, DOMAIN nodes, edges)}, passing)
      IN  process_graph(cached_order, passing) =
            UNION {signal[m] : m \in predecessors(output_node, DOMAIN nodes, edges)}

\* Inserting into a serial chain gives the serial chain with the slot at that
\* place (insert_in_chain).
InsertKeepsChain ==
  [][\A position \in 1..3 :
       is_serial_chain /\ (\E order \in OrdersOrEmpty : insert_in_chain(position, 3, order)) =>
         /\ is_serial_chain'
         /\ serial_chain_slots' =
              InsertAt(serial_chain_slots,
                       IF position > Len(serial_chain_slots)
                       THEN Len(serial_chain_slots) + 1 ELSE position, 3)]_vars
=============================================================================
