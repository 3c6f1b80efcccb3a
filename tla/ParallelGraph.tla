---------------------------- MODULE ParallelGraph ----------------------------
(***************************************************************************)
(* The graph scheduler of parallel tasks (harness/parallel.py): a task is a*)
(* graph of nodes with dependencies, run on a fixed set of lanes.  Results *)
(* of dispatches arrive in any order, late or twice.                       *)
(***************************************************************************)
EXTENDS Naturals, Sequences, FiniteSets

CONSTANTS
    Order,        \* the nodes, in the order the task lists them
    LaneOrder,    \* the enabled lanes, sorted by lane_id
    MaxParallel   \* the values of max_parallel tried

Nodes == {Order[i] : i \in DOMAIN Order}
GraphLanes == {LaneOrder[i] : i \in DOMAIN LaneOrder}
NoNode == "none"

ASSUME ParallelGraphAssumption ==
    /\ Order \in Seq(Nodes) /\ LaneOrder \in Seq(GraphLanes)
    /\ \A i, j \in DOMAIN Order : Order[i] = Order[j] => i = j
    /\ \A i, j \in DOMAIN LaneOrder : LaneOrder[i] = LaneOrder[j] => i = j
    /\ Order # << >> /\ LaneOrder # << >>
    /\ MaxParallel \subseteq Nat \ {0}
    /\ NoNode \notin Nodes

VARIABLES
    task,    \* the accepted task: its dependencies and max_parallel
    graph,   \* the durable state: status, nodes, lanes, completed_order
    issued   \* every dispatch ever handed to a lane

graphVars == <<task, graph, issued>>

\* The nodes of completed_order.
Completed(g) == {g.completed[i] : i \in DOMAIN g.completed}

NODE_TERMINAL == {"DONE", "ERROR", "BLOCKED", "CANCELLED"}
NodeStatus == {"WAIT_DEP", "READY", "RUNNING", "DONE", "ERROR", "BLOCKED"}
Dispatches == [node : Nodes, generation : Nat, lane : GraphLanes]

GraphTypeOK ==
    /\ task \in [deps : [Nodes -> SUBSET Nodes], max : MaxParallel]
    /\ graph \in [status : NodeStatus \ {"WAIT_DEP"},
                  node : [Nodes -> [status : NodeStatus, generation : 0..1]],
                  lane : [GraphLanes -> Nodes \cup {NoNode}],
                  completed : Seq(Nodes)]
    /\ issued \subseteq Dispatches

\* A cycle is a set of nodes each of which waits for another of the set.
Acyclic(deps) ==
    \A S \in (SUBSET Nodes) \ {{}} : \E n \in S : deps[n] \cap S = {}

\* make_state refuses a task whose dependencies form a cycle.
GraphInit ==
    /\ task \in {t \in [deps : [Nodes -> SUBSET Nodes], max : MaxParallel] : Acyclic(t.deps)}
    /\ graph = [status |-> "READY",
                node |-> [n \in Nodes |-> [status |-> IF task.deps[n] = {} THEN "READY"
                                                      ELSE "WAIT_DEP",
                                           generation |-> 0]],
                lane |-> [l \in GraphLanes |-> NoNode],
                completed |-> << >>]
    /\ issued = {}

With(g, status) == \E n \in Nodes : g.node[n].status = status

\* Mutant of Settle: one finished dependency is enough.
SettleAny(node, n) ==
    LET of == {node[d].status : d \in task.deps[n]} IN
    IF node[n].status # "WAIT_DEP" THEN node
    ELSE IF of \cap {"ERROR", "BLOCKED", "CANCELLED"} # {}
         THEN [node EXCEPT ![n].status = "BLOCKED"]
    ELSE IF "DONE" \in of THEN [node EXCEPT ![n].status = "READY"]
    ELSE node

Settle(node, n) ==
    LET of == {node[d].status : d \in task.deps[n]} IN
    IF node[n].status # "WAIT_DEP" THEN node
    ELSE IF of \cap {"ERROR", "BLOCKED", "CANCELLED"} # {}
         THEN [node EXCEPT ![n].status = "BLOCKED"]
    ELSE IF of = {"DONE"} THEN [node EXCEPT ![n].status = "READY"]
    ELSE node

\* The nodes after one pass over the list, in which each sees those before it.
Pass(node) ==
    LET after[i \in 0..Len(Order)] == IF i = 0 THEN node ELSE Settle(after[i - 1], Order[i])
    IN  after[Len(Order)]

Overall(g) ==
    IF With(g, "ERROR") THEN "ERROR"
    ELSE IF With(g, "BLOCKED") THEN "BLOCKED"
    ELSE IF \A n \in Nodes : g.node[n].status = "DONE" THEN "DONE"
    ELSE IF With(g, "RUNNING") THEN "RUNNING" ELSE "READY"

\* One pass over the nodes in list order, then the status of the task.
Refresh(g) ==
    LET settled == [g EXCEPT !.node = Pass(g.node)]
    IN  [settled EXCEPT !.status = Overall(settled)]

\* The place of x among the elements of S, in the order.
Place(order, S, x) ==
    Cardinality({i \in DOMAIN order : order[i] \in S /\ \E j \in DOMAIN order : order[j] = x /\ i <= j})

\* The ready nodes, in order, on the idle lanes, in order, within max_parallel.
Picks(g) ==
    LET running == Cardinality({n \in Nodes : g.node[n].status = "RUNNING"})
        ready   == {n \in Nodes : g.node[n].status = "READY"}
        idle    == {l \in GraphLanes : g.lane[l] = NoNode}
        pairs   == {p \in ready \X idle :
                      /\ Place(Order, ready, p[1]) = Place(LaneOrder, idle, p[2])
                      /\ running + Place(Order, ready, p[1]) <= task.max}
    IN  IF g.status \in NODE_TERMINAL THEN {}
        ELSE {[node |-> p[1], lane |-> p[2], generation |-> g.node[p[1]].generation + 1] : p \in pairs}

\* The picked nodes run, each on the lane of its dispatch.
Started(g, picks) ==
    [g EXCEPT !.node = [n \in Nodes |->
                          IF \E d \in picks : d.node = n
                          THEN [status |-> "RUNNING", generation |-> g.node[n].generation + 1]
                          ELSE g.node[n]],
              !.lane = [l \in GraphLanes |->
                          IF \E d \in picks : d.lane = l
                          THEN (CHOOSE d \in picks : d.lane = l).node ELSE g.lane[l]]]

DispatchReady ==
    LET g == Refresh(graph) IN
    /\ Picks(g) # {}
    /\ issued' = issued \cup Picks(g)
    /\ graph' = Refresh(Started(g, Picks(g)))
    /\ UNCHANGED task

\* The pass alone may change a node: the call with nothing to dispatch.
RefreshOnly ==
    /\ Picks(Refresh(graph)) = {}
    /\ Refresh(graph) # graph
    /\ graph' = Refresh(graph)
    /\ UNCHANGED <<task, issued>>

\* Mutant of CompleteNode: the lane is not freed.
CompleteKeepingLane(d, pass) ==
    /\ graph.node[d.node].status = "RUNNING"
    /\ graph.node[d.node].generation = d.generation
    /\ graph.lane[d.lane] = d.node
    /\ graph' = Refresh(
         [graph EXCEPT !.node[d.node].status = IF pass THEN "DONE" ELSE "ERROR",
                       !.completed = IF pass THEN Append(@, d.node) ELSE @])
    /\ UNCHANGED <<task, issued>>

\* complete_node refuses a result that is not of the running dispatch.
CompleteNode(d, pass) ==
    /\ graph.node[d.node].status = "RUNNING"
    /\ graph.node[d.node].generation = d.generation
    /\ graph.lane[d.lane] = d.node
    /\ graph' = Refresh(
         [graph EXCEPT !.lane[d.lane] = NoNode,
                       !.node[d.node].status = IF pass THEN "DONE" ELSE "ERROR",
                       !.completed = IF pass THEN Append(@, d.node) ELSE @])
    /\ UNCHANGED <<task, issued>>

GraphNext ==
    \/ DispatchReady
    \/ RefreshOnly
    \/ \E d \in issued, pass \in BOOLEAN : CompleteNode(d, pass)

GraphSpec == GraphInit /\ [][GraphNext]_graphVars

-----------------------------------------------------------------------------
\* A node runs only on finished dependencies: every node that ran comes after
\* all its dependencies in completed_order, and a node that was never allowed
\* to run is never completed (parallel.py: refresh, the dependency barrier).
BarrierHeld ==
    \A n \in Nodes :
        /\ graph.node[n].generation > 0 => task.deps[n] \subseteq Completed(graph)
        /\ \A i \in DOMAIN graph.completed :
             graph.completed[i] = n
               => task.deps[n] \subseteq {graph.completed[j] : j \in 1..(i - 1)}

\* The scheduler is never stuck: a task that has not ended has a running node
\* or a node the next dispatch starts, for every acyclic graph and list order.
NeverStuck ==
    graph.status \notin NODE_TERMINAL
      => With(graph, "RUNNING") \/ Picks(Refresh(graph)) # {}
=============================================================================
