---------------------------- MODULE DagValidator ----------------------------
(****************************************************************************)
(* backend/src/workflow/dagValidator.ts, one loop iteration per action:     *)
(* topologicalSort, and getDownstreamNodes and getUpstreamNodes, which walk *)
(* the graph breadth first and then sort the part they visited.             *)
(*                                                                          *)
(* An input holds the node rows and the edge rows in the order the caller   *)
(* has them.  An adjacency list is the part of the edge rows that leaves    *)
(* its node, in their order, so an inner loop is a cursor over the rows.    *)
(*                                                                          *)
(* SortInit, SortNext and SortSpec have names of their own, so that a proof *)
(* may have this module beside the engine that calls it.                    *)
(****************************************************************************)
EXTENDS Dag

CONSTANTS
    Id,        \* node ids
    Inputs     \* the calls: [fn, target, nodes, edges]

Functions == {"topologicalSort", "getDownstreamNodes", "getUpstreamNodes"}
Input     == [fn : Functions, target : Id, nodes : Seq(Id),
              edges : Seq([src : Id, dst : Id])]

\* The node rows are distinct: their ids go through a Set.
ASSUME InputsAssumption ==
    /\ Inputs \subseteq Input
    /\ \A in \in Inputs : \A i, j \in DOMAIN in.nodes :
          in.nodes[i] = in.nodes[j] => i = j

VARIABLES
    input,      \* the arguments
    pc,         \* begin, walk, sort; then what is returned or thrown
    visited,    \* the nodes found so far; in topologicalSort, all of them
    queue,
    current,    \* the node last shifted from queue
    cursor,     \* the inner loop's position in the edge rows
    inDegree,
    sorted

sortVars == <<input, pc, visited, queue, current, cursor, inDegree, sorted>>

Returned == {"sorted", "cycle", "empty"}

nodeIds   == {input.nodes[i] : i \in DOMAIN input.nodes}
positions == DOMAIN input.edges
edge      == input.edges[cursor]

InnerLoop == cursor <= Len(input.edges)

SortInit ==
    /\ input \in Inputs
    /\ pc = "begin"
    /\ visited = {} /\ queue = <<>> /\ sorted = <<>>
    /\ current = input.target
    /\ cursor = Len(input.edges) + 1
    /\ inDegree = [n \in Id |-> 0]

----------------------------------------------------------------------------
(* topologicalSort, called with the nodes of S and the edges among them. *)

InRows(S, n) ==
    {i \in positions : input.edges[i].dst = n /\ input.edges[i].src \in S}

Degrees(S) == [n \in Id |-> IF n \in S THEN Cardinality(InRows(S, n)) ELSE 0]

\* The nodes of S that no row leads to, in the order of their rows.
Roots(S) ==
    LET found[k \in 0..Len(input.nodes)] ==
            IF k = 0 THEN <<>>
            ELSE IF input.nodes[k] \in S /\ InRows(S, input.nodes[k]) = {}
                 THEN Append(found[k - 1], input.nodes[k])
                 ELSE found[k - 1]
    IN  found[Len(input.nodes)]

BeginSort(S) ==
    /\ pc' = "sort"
    /\ visited' = S
    /\ inDegree' = Degrees(S)
    /\ queue' = Roots(S)
    /\ UNCHANGED <<input, current, cursor, sorted>>

Shift ==
    /\ queue # <<>> /\ ~InnerLoop
    /\ current' = Head(queue)
    /\ cursor' = 1

ShiftToSorted ==
    /\ pc = "sort"
    /\ Shift
    /\ queue' = Tail(queue)
    /\ sorted' = Append(sorted, Head(queue))
    /\ UNCHANGED <<input, pc, visited, inDegree>>

\* An edge of another node, or one that leaves the sorted part.
PassEdge ==
    /\ pc = "sort" /\ InnerLoop
    /\ edge.src # current \/ edge.dst \notin visited
    /\ cursor' = cursor + 1
    /\ UNCHANGED <<input, pc, visited, queue, current, inDegree, sorted>>

\* Mutant: a neighbour is queued at its first visited predecessor.
QueueAtFirstEdge ==
    /\ pc = "sort" /\ InnerLoop
    /\ edge.src = current /\ edge.dst \in visited
    /\ inDegree' = [inDegree EXCEPT ![edge.dst] = @ - 1]
    /\ queue' = IF inDegree[edge.dst] = Cardinality(InRows(visited, edge.dst))
                THEN Append(queue, edge.dst) ELSE queue
    /\ cursor' = cursor + 1
    /\ UNCHANGED <<input, pc, visited, current, sorted>>

TakeEdge ==
    /\ pc = "sort" /\ InnerLoop
    /\ edge.src = current /\ edge.dst \in visited
    /\ inDegree' = [inDegree EXCEPT ![edge.dst] = @ - 1]
    /\ queue' = IF inDegree[edge.dst] = 1 THEN Append(queue, edge.dst) ELSE queue
    /\ cursor' = cursor + 1
    /\ UNCHANGED <<input, pc, visited, current, sorted>>

\* Mutant: the length is compared with all the nodes of the caller.
EndSortOfAll ==
    /\ pc = "sort" /\ queue = <<>> /\ ~InnerLoop
    /\ pc' = IF Len(sorted) = Cardinality(nodeIds) THEN "sorted" ELSE "cycle"
    /\ UNCHANGED <<input, visited, queue, current, cursor, inDegree, sorted>>

EndSort ==
    /\ pc = "sort" /\ queue = <<>> /\ ~InnerLoop
    /\ pc' = IF Len(sorted) = Cardinality(visited) THEN "sorted" ELSE "cycle"
    /\ UNCHANGED <<input, visited, queue, current, cursor, inDegree, sorted>>

----------------------------------------------------------------------------
(* The walk of getDownstreamNodes and getUpstreamNodes. *)

SortAll ==
    /\ pc = "begin" /\ input.fn = "topologicalSort"
    /\ BeginSort(nodeIds)

UnknownTarget ==
    /\ pc = "begin" /\ input.fn # "topologicalSort"
    /\ input.target \notin nodeIds
    /\ pc' = "empty"
    /\ UNCHANGED <<input, visited, queue, current, cursor, inDegree, sorted>>

BeginWalk ==
    /\ pc = "begin" /\ input.fn # "topologicalSort"
    /\ input.target \in nodeIds
    /\ pc' = "walk"
    /\ visited' = {input.target}
    /\ queue' = <<input.target>>
    /\ UNCHANGED <<input, current, cursor, inDegree, sorted>>

\* Mutant: the queue is read at its head but not shifted.
PeekToWalk ==
    /\ pc = "walk"
    /\ Shift
    /\ UNCHANGED <<input, pc, visited, queue, inDegree, sorted>>

ShiftToWalk ==
    /\ pc = "walk"
    /\ Shift
    /\ queue' = Tail(queue)
    /\ UNCHANGED <<input, pc, visited, inDegree, sorted>>

\* The end of an edge the walk stands on and the end it looks at.
Near(e) == IF input.fn = "getUpstreamNodes" THEN e.dst ELSE e.src
Far(e)  == IF input.fn = "getUpstreamNodes" THEN e.src ELSE e.dst

WalkEdge ==
    /\ pc = "walk" /\ InnerLoop
    /\ LET isNew == Near(edge) = current /\ Far(edge) \in nodeIds \ visited
       IN  /\ visited' = IF isNew THEN visited \cup {Far(edge)} ELSE visited
           /\ queue' = IF isNew THEN Append(queue, Far(edge)) ELSE queue
    /\ cursor' = cursor + 1
    /\ UNCHANGED <<input, pc, current, inDegree, sorted>>

EndWalk ==
    /\ pc = "walk" /\ queue = <<>> /\ ~InnerLoop
    /\ BeginSort(visited)

----------------------------------------------------------------------------

SortNext ==
    \/ SortAll \/ UnknownTarget
    \/ BeginWalk \/ ShiftToWalk \/ WalkEdge \/ EndWalk
    \/ ShiftToSorted \/ PassEdge \/ TakeEdge \/ EndSort

SortSpec == SortInit /\ [][SortNext]_sortVars

\* A synchronous function runs on until it returns.
FairSortSpec == SortSpec /\ WF_sortVars(SortNext)

----------------------------------------------------------------------------
(* Properties. *)

\* The graph of the input, and the nodes the caller asked for.
Given == [nodes |-> nodeIds,
          edges |-> {e \in {input.edges[i] : i \in positions} :
                        e.src \in nodeIds /\ e.dst \in nodeIds}]

Asked ==
    CASE input.fn = "topologicalSort"    -> nodeIds
      [] input.fn = "getDownstreamNodes" -> Downstream(Given, input.target)
      [] input.fn = "getUpstreamNodes"   -> Upstream(Given, input.target)

HasCycle(S) ==
    LET next(m, n) == HasEdge(Given.edges, m, n)
    IN  \E m, n \in S : next(m, n) /\ m \in Closure(S, next, n)

\* dagValidator.ts:117: "The target node is always last in the returned
\* array"; and the failed node a retry starts from is always first.
TargetAtItsEnd ==
    /\ input.fn = "getUpstreamNodes" => sorted[Len(sorted)] = input.target
    /\ input.fn = "getDownstreamNodes" => sorted[1] = input.target

\* What the engine's model relies on: an order that is returned holds just
\* the nodes asked for, each once, is one of KahnOrders, and has the node
\* the caller named at its end.
ReturnsKahnOrder ==
    pc = "sorted" => sorted \in KahnOrders(Asked, Given.edges) /\ TargetAtItsEnd

\* Only a cycle among the nodes asked for is reported, and each is.
ReportsCycles ==
    /\ pc = "cycle" => HasCycle(Asked)
    /\ pc = "sorted" => ~HasCycle(Asked)

\* Every call returns or throws, with cycles and repeated edge rows too.
Returns == <>(pc \in Returned)
============================================================================
