-------------------------------- MODULE Dag --------------------------------
(****************************************************************************)
(* The graph vocabulary of a workflow definition, and the contract of       *)
(* backend/src/workflow/dagValidator.ts as its callers see it.              *)
(*                                                                          *)
(* A definition is a record [nodes, edges]; an edge is a record             *)
(* [src, dst, handle] and a definition has one edge at most from one node   *)
(* to another (the unique index of WorkflowEdge in schema.prisma).          *)
(*                                                                          *)
(* The rows of a workflow are read with no ORDER BY, so the order in which  *)
(* dagValidator receives nodes and edges is arbitrary.  KahnOrders(S, E) is *)
(* the set of the orders its queue can then produce.  Module DagValidator   *)
(* runs the three functions step by step and checks that they return only   *)
(* these.                                                                   *)
(****************************************************************************)
EXTENDS Naturals, FiniteSets, Sequences

Handles == {"true", "false", "none"}

InEdges(def, n)  == {e \in def.edges : e.dst = n}
OutEdges(def, n) == {e \in def.edges : e.src = n}

----------------------------------------------------------------------------
(* Reachability, breadth first: one layer more per index. *)

Grown(S, next(_, _), X) == X \cup {m \in S : \E l \in X : next(l, m)}

Closure(S, next(_, _), n) ==
    LET layer[k \in 0..Cardinality(S)] ==
            IF k = 0 THEN {n} ELSE Grown(S, next, layer[k - 1])
    IN  {m \in S : m \in layer[Cardinality(S)]}

HasEdge(E, m, n) == \E e \in E : e.src = m /\ e.dst = n

\* The node set getDownstreamNodes returns: empty when n is not a node.
Downstream(def, n) ==
    LET next(a, b) == HasEdge(def.edges, a, b)
    IN  IF n \in def.nodes THEN Closure(def.nodes, next, n) ELSE {}

\* The node set getUpstreamNodes returns: empty when n is not a node.
Upstream(def, n) ==
    LET next(a, b) == HasEdge(def.edges, b, a)
    IN  IF n \in def.nodes THEN Closure(def.nodes, next, n) ELSE {}

----------------------------------------------------------------------------
(* Kahn's algorithm with a first-in first-out queue.  A node enters the     *)
(* queue when its last predecessor leaves it, so nodes leave it in the      *)
(* order of the position of their last predecessor; ties follow the         *)
(* arbitrary order of the rows.                                             *)

Orderings(S) ==
    {p \in [1..Cardinality(S) -> S] :
        \A i, j \in 1..Cardinality(S) : i # j => p[i] # p[j]}

\* i's predecessors are all at positions <= k.
ReadyAfter(E, p, i, k) ==
    \A j \in DOMAIN p : HasEdge(E, p[j], p[i]) => j <= k

KahnOrders(S, E) ==
    {p \in Orderings(S) :
        /\ \A i \in DOMAIN p : ReadyAfter(E, p, i, i - 1)
        /\ \A i, j \in DOMAIN p, k \in 0..Cardinality(S) :
              i < j /\ ReadyAfter(E, p, j, k) => ReadyAfter(E, p, i, k)}

\* validateDag: the definition has an order, that is no cycle.
IsAcyclic(def) == KahnOrders(def.nodes, def.edges) # {}

\* What saveWorkflow lets through and the unique index keeps.
IsDefinition(def) ==
    /\ \A e \in def.edges : e.src \in def.nodes /\ e.dst \in def.nodes
    /\ \A e, f \in def.edges : e.src = f.src /\ e.dst = f.dst => e = f
    /\ IsAcyclic(def)
============================================================================
