------------------------------- MODULE TaskGraph -------------------------------
(* Delta's task dependencies (pm/).  create_dependency checks that a new edge    *)
(* closes no cycle and then inserts it; the check reads the edges committed so   *)
(* far, at most MaxEdges of them, under the tenant's advisory lock.              *)
EXTENDS Integers, FiniteSets

CONSTANTS
    Tasks,
    Planners,     \* create_dependency calls in progress at once
    MaxEdges,     \* MAX_DEPENDENCY_EDGES_CONSIDERED
    NoPlanner

ASSUME GraphAssumption ==
    /\ IsFiniteSet(Tasks)
    /\ MaxEdges \in Nat
    /\ NoPlanner \notin Planners

VARIABLES
    edges,      \* committed task_dependencies rows, <<blocking, blocked>>
    planner,    \* planner[p]: where a call is, its edge, the edges it loaded
    graphLock   \* the call that holds the tenant's advisory lock

graphVars == <<edges, planner, graphLock>>

NoPlan == [at |-> "idle", edge |-> <<>>, seen |-> {}]

GraphInit ==
    /\ edges = {} /\ graphLock = NoPlanner
    /\ planner = [p \in Planners |-> NoPlan]

\* What the breadth-first search has visited when its queue is empty: the least set
\* with n that no edge in es leads out of.
ClosedUnder(es, S) == \A e \in es : e[1] \in S => e[2] \in S
Reached(es, n) ==
    {m \in Tasks : \A S \in SUBSET Tasks : n \in S /\ ClosedUnder(es, S) => m \in S}

_would_create_cycle(es, blocking, blocked) == blocking \in Reached(es, blocked)

-----------------------------------------------------------------------------
create_dependency(p, blocking, blocked) ==
    /\ planner[p].at = "idle"
    /\ blocking # blocked
    /\ planner' = [planner EXCEPT ![p] = [NoPlan EXCEPT !.at = "waits", !.edge = <<blocking, blocked>>]]
    /\ UNCHANGED <<edges, graphLock>>

MutNoGraphLock(p) ==
    /\ planner[p].at = "waits"
    /\ planner' = [planner EXCEPT ![p].at = "locked"]
    /\ UNCHANGED <<edges, graphLock>>

LockGraph(p) ==
    /\ planner[p].at = "waits" /\ graphLock = NoPlanner
    /\ graphLock' = p
    /\ planner' = [planner EXCEPT ![p].at = "locked"]
    /\ UNCHANGED edges

\* limit + 1 rows are fetched, so that the caller can see that there are more.
list_all_dependency_edges(p) ==
    /\ planner[p].at = "locked"
    /\ \E es \in SUBSET edges :
          /\ Cardinality(es) = IF Cardinality(edges) > MaxEdges + 1 THEN MaxEdges + 1
                               ELSE Cardinality(edges)
          /\ planner' = [planner EXCEPT ![p].at = "loaded", ![p].seen = es]
    /\ UNCHANGED <<edges, graphLock>>

\* Too many edges, a cycle, a duplicate (UNIQUE) or a failed commit: nothing is
\* written.
InsertDependency(p) ==
    LET e == planner[p].edge
    IN  /\ planner[p].at = "loaded"
        /\ \/ /\ Cardinality(planner[p].seen) <= MaxEdges
              /\ ~_would_create_cycle(planner[p].seen, e[1], e[2])
              /\ edges' = edges \cup {e}
           \/ UNCHANGED edges
        /\ graphLock' = NoPlanner
        /\ planner' = [planner EXCEPT ![p] = NoPlan]

GraphNext ==
    \E p \in Planners :
        \/ \E a, b \in Tasks : create_dependency(p, a, b)
        \/ LockGraph(p) \/ list_all_dependency_edges(p) \/ InsertDependency(p)

GraphSpec == GraphInit /\ [][GraphNext]_graphVars

-----------------------------------------------------------------------------
\* No task ever waits, directly or through others, for itself: not by two edges
\* added at once, and not past the number of edges the check loads
\* (create_dependency).
Acyclic == ~\E e \in edges : e[1] \in Reached(edges, e[2])
=============================================================================
