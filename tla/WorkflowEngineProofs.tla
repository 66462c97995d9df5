------------------------ MODULE WorkflowEngineProofs ------------------------
(****************************************************************************)
(* Theorems about WorkflowEngine, for every set of workflows, nodes and     *)
(* calls; and, at the end, about the DagValidator it takes its orders from, *)
(* for every list of rows.  Both rest on the same lemmas on reachability.   *)
(****************************************************************************)
EXTENDS WorkflowEngine, DagValidator, Integers, FiniteSetTheorems, WellFoundedInduction, TLAPS

----------------------------------------------------------------------------
(* The operators of Dag. *)

\* An order of some nodes is a sequence of them.
LEMMA KahnOrdersAreSequences ==
    ASSUME NEW S \in SUBSET Node, NEW E, NEW p \in KahnOrders(S, E)
    PROVE  p \in Seq(S) /\ p \in Seq(Node)
<1>1. Cardinality(S) \in Nat
  BY FS_Subset, FS_CardinalityType, ConstantsAssumption
<1>2. p \in [1..Cardinality(S) -> S]
  BY DEF KahnOrders, Orderings
<1> QED
  BY <1>1, <1>2

\* What getUpstreamNodes and getDownstreamNodes return are nodes.
LEMMA WalksStayInside ==
    ASSUME NEW def, NEW n
    PROVE  Upstream(def, n) \subseteq def.nodes /\ Downstream(def, n) \subseteq def.nodes
BY DEF Upstream, Downstream, Closure

----------------------------------------------------------------------------
(* What getUpstreamNodes and getDownstreamNodes return.  Closure walks in as *)
(* many layers as there are nodes; that this is enough is by counting.       *)

\* A set of numbers has a least one.
LEMMA LeastNumber ==
    ASSUME NEW T \in SUBSET Nat, T # {}
    PROVE  \E x \in T : \A y \in T : x <= y
<1> DEFINE R == OpToRel(<, Nat)
<1>1. IsWellFoundedOn(R, Nat)
  BY NatLessThanWellFounded
<1>2. \A x, y \in Nat : <<y, x>> \in R <=> y < x
  BY DEF OpToRel
<1> HIDE DEF R
<1>3. PICK x \in T : \A y \in T : ~ (<<y, x>> \in R)
  BY <1>1, WFMin
<1>4. x \in Nat /\ \A y \in T : y \in Nat /\ ~(y < x)
  BY <1>2, <1>3
<1>5. \A y \in T : x <= y
  BY <1>4
<1> QED
  BY <1>5

\* One layer more of a walk from X along the pairs of R.
Wider(S, R, X) == X \cup {m \in S : \E l \in X : <<l, m>> \in R}

\* No pair of R leads out of X.
IsClosed(X, S, R) == \A l \in X, m \in S : <<l, m>> \in R => m \in X

\* The layers of a walk from n.
IsLayering(f, S, R, n, N) ==
    /\ f \in [0..N -> SUBSET S]
    /\ f[0] = {n}
    /\ \A k \in 1..N : f[k] = Wider(S, R, f[k - 1])

\* A walk has as many layers as one likes.
LEMMA LayersExist ==
    ASSUME NEW S, NEW R, NEW n \in S, NEW N \in Nat
    PROVE  \E f : IsLayering(f, S, R, n, N)
<1> DEFINE T == {k \in Nat : ~ \E f : IsLayering(f, S, R, n, k)}
<1>1. SUFFICES ASSUME T # {} PROVE FALSE
  OBVIOUS
<1>2. PICK k \in T : \A j \in T : k <= j
  <2> HIDE DEF T
  <2>1. T \in SUBSET Nat
    BY DEF T
  <2> QED
    BY <1>1, <2>1, LeastNumber
<1>3. k # 0
  <2>1. [i \in 0..0 |-> {n}] \in [0..0 -> SUBSET S]
    OBVIOUS
  <2>2. IsLayering([i \in 0..0 |-> {n}], S, R, n, 0)
    BY <2>1 DEF IsLayering
  <2> QED
    BY <2>2
<1>4. k - 1 \in Nat /\ k - 1 \notin T
  <2>1. k \in Nat /\ k - 1 \in Nat /\ ~(k <= k - 1)
    BY <1>3
  <2> QED
    BY <1>2, <2>1
<1>5. PICK f : IsLayering(f, S, R, n, k - 1)
  BY <1>4
<1> DEFINE g == [i \in 0..k |-> IF i = k THEN Wider(S, R, f[k - 1]) ELSE f[i]]
<1>6. IsLayering(g, S, R, n, k)
  <2>1. f[k - 1] \in SUBSET S /\ \A i \in 0..k : i # k => f[i] \in SUBSET S
    BY <1>4, <1>5 DEF IsLayering
  <2>2. Wider(S, R, f[k - 1]) \in SUBSET S
    BY <2>1 DEF Wider
  <2>3. g \in [0..k -> SUBSET S]
    BY <2>1, <2>2
  <2>4. g[0] = {n}
    BY <1>3, <1>4, <1>5 DEF IsLayering
  <2>5. ASSUME NEW j \in 1..k PROVE g[j] = Wider(S, R, g[j - 1])
    <3>1. j - 1 \in 0..k /\ j - 1 # k /\ g[j - 1] = f[j - 1]
      BY <1>4
    <3>2. CASE j = k
      BY <3>1, <3>2
    <3>3. CASE j # k
      <4>1. j \in 1..(k - 1) /\ g[j] = f[j]
        BY <1>4, <3>3
      <4> QED
        BY <1>5, <3>1, <4>1 DEF IsLayering
    <3> QED
      BY <3>2, <3>3
  <2> QED
    BY <2>3, <2>4, <2>5 DEF IsLayering
<1> QED
  BY <1>2, <1>6

\* A walk stays in every set that holds its start and is closed.
LEMMA LayersStay ==
    ASSUME NEW S, NEW R, NEW n \in S, NEW N \in Nat, NEW f, IsLayering(f, S, R, n, N),
           NEW X, n \in X, IsClosed(X, S, R)
    PROVE  \A k \in 0..N : f[k] \subseteq X
<1> USE DEF IsClosed
<1> DEFINE T == {k \in 0..N : ~(f[k] \subseteq X)}
<1>1. SUFFICES ASSUME T # {} PROVE FALSE
  OBVIOUS
<1>2. PICK k \in T : \A j \in T : k <= j
  <2> HIDE DEF T
  <2>1. T \in SUBSET Nat
    BY DEF T
  <2> QED
    BY <1>1, <2>1, LeastNumber
<1>3. k # 0
  BY DEF IsLayering
<1>4. k \in 1..N /\ k - 1 \in 0..N /\ ~(k <= k - 1)
  BY <1>3
<1>5. f[k - 1] \subseteq X
  BY <1>2, <1>4
<1>6. f[k] = Wider(S, R, f[k - 1])
  BY <1>4 DEF IsLayering
<1>7. f[k] \subseteq X
  BY <1>5, <1>6 DEF Wider
<1> QED
  BY <1>2, <1>7

\* A walk from n reaches its end within as many layers as there are nodes.
LEMMA LastLayerCloses ==
    ASSUME NEW S, IsFiniteSet(S), NEW R, NEW n \in S, NEW N \in Nat, N = Cardinality(S),
           NEW f, IsLayering(f, S, R, n, N)
    PROVE  Wider(S, R, f[N]) = f[N]
<1>1. \A k \in 0..N : /\ f[k] \subseteq S /\ IsFiniteSet(f[k])
                      /\ Cardinality(f[k]) \in Nat /\ Cardinality(f[k]) <= N
  BY FS_Subset, FS_CardinalityType DEF IsLayering
<1> DEFINE T == {k \in 0..N : Cardinality(f[k]) <= k}
<1>2. T \in SUBSET Nat /\ N \in T
  BY <1>1
<1>3. PICK k \in T : \A j \in T : k <= j
  <2> HIDE DEF T
  <2> QED
    BY <1>2, LeastNumber
<1>4. k # 0
  <2>1. Cardinality(f[0]) = 1
    BY FS_Singleton DEF IsLayering
  <2> QED
    BY <1>3, <2>1
<1>5. PICK h \in 0..N : k = h + 1
  <2>1. k - 1 \in 0..N /\ k = (k - 1) + 1
    BY <1>4
  <2> QED
    BY <2>1
<1>6. h \notin T
  BY <1>3, <1>5
<1>7. f[k] = Wider(S, R, f[h])
  <2>1. k \in 1..N /\ k - 1 = h
    BY <1>4, <1>5
  <2> QED
    BY <2>1 DEF IsLayering
<1>8. f[h] \subseteq f[k] /\ Cardinality(f[h]) >= Cardinality(f[k])
  <2>1. Cardinality(f[h]) \in Nat /\ Cardinality(f[h]) > h
    BY <1>1, <1>6
  <2>2. Cardinality(f[k]) \in Nat /\ Cardinality(f[k]) <= h + 1
    BY <1>1, <1>5
  <2>3. Cardinality(f[h]) >= Cardinality(f[k])
    BY <2>1, <2>2
  <2> QED
    BY <1>7, <2>3 DEF Wider
<1>9. f[h] = f[k]
  <2>1. Cardinality(f[h]) <= Cardinality(f[k]) /\ f[h] \in SUBSET f[k]
    BY <1>1, <1>8, FS_Subset
  <2>2. Cardinality(f[h]) = Cardinality(f[k])
    BY <1>1, <1>8, <2>1
  <2> QED
    BY <1>1, <2>1, <2>2, FS_Subset
<1>10. Wider(S, R, f[h]) = f[h]
  BY <1>7, <1>9
<1> DEFINE U == {j \in h..N : f[j] # f[h]}
<1>11. U = {}
  <2> SUFFICES ASSUME U # {} PROVE FALSE
    OBVIOUS
  <2>1. PICK j \in U : \A i \in U : j <= i
    <3> HIDE DEF U
    <3>1. U \in SUBSET Nat
      BY DEF U
    <3> QED
      BY <3>1, LeastNumber
  <2>2. j # h /\ j \in 1..N /\ j - 1 \in h..N /\ ~(j <= j - 1)
    OBVIOUS
  <2>3. f[j - 1] = f[h]
    BY <2>1, <2>2
  <2>4. f[j] = Wider(S, R, f[j - 1])
    BY <2>2 DEF IsLayering
  <2> QED
    BY <1>10, <2>1, <2>3, <2>4
<1>12. f[N] = f[h]
  BY <1>11
<1> QED
  BY <1>10, <1>12

\* The recursion that defines a walk.
IsWalk(f, S, R, n, N) ==
    f = [k \in 0..N |-> IF k = 0 THEN {n} ELSE Wider(S, R, f[k - 1])]

\* What the recursion defines are the layers.
LEMMA LayeringIsWalk ==
    ASSUME NEW S, NEW R, NEW n \in S, NEW N \in Nat, NEW f, IsLayering(f, S, R, n, N)
    PROVE  IsWalk(f, S, R, n, N)
<1>1. f = [k \in 0..N |-> f[k]]
  BY DEF IsLayering
<1>2. \A k \in 0..N : f[k] = IF k = 0 THEN {n} ELSE Wider(S, R, f[k - 1])
  BY DEF IsLayering
<1> QED
  BY <1>1, <1>2 DEF IsWalk

LEMMA WalkIsLayering ==
    ASSUME NEW S, NEW R, NEW n \in S, NEW N \in Nat, NEW f, IsWalk(f, S, R, n, N)
    PROVE  IsLayering(f, S, R, n, N)
<1> USE DEF IsWalk
<1>1. \A k \in 0..N : f[k] = IF k = 0 THEN {n} ELSE Wider(S, R, f[k - 1])
  OBVIOUS
<1>2. DOMAIN f = 0..N
  OBVIOUS
<1> DEFINE T == {k \in 0..N : ~(f[k] \subseteq S)}
<1>3. T = {}
  <2> SUFFICES ASSUME T # {} PROVE FALSE
    OBVIOUS
  <2>1. T \in SUBSET Nat
    OBVIOUS
  <2>2. PICK k \in T : \A j \in T : k <= j
    <3> HIDE DEF T
    <3> QED
      BY <2>1, LeastNumber
  <2>3. k # 0
    BY <1>1
  <2>4. k \in 1..N /\ k - 1 \in 0..N /\ ~(k <= k - 1)
    BY <2>3
  <2>5. f[k - 1] \subseteq S
    BY <2>2, <2>4
  <2>6. f[k] = Wider(S, R, f[k - 1])
    BY <1>1, <2>4
  <2> QED
    BY <2>5, <2>6 DEF Wider
<1>4. f \in [0..N -> SUBSET S]
  <2>1. f = [k \in 0..N |-> f[k]]
    OBVIOUS
  <2>2. \A k \in 0..N : f[k] \in SUBSET S
    BY <1>3
  <2> QED
    BY <2>1, <2>2
<1>5. f[0] = {n}
  BY <1>1
<1>6. ASSUME NEW k \in 1..N PROVE f[k] = Wider(S, R, f[k - 1])
  <2>1. k \in 0..N /\ k # 0
    OBVIOUS
  <2> QED
    BY <1>1, <2>1
<1> QED
  BY <1>4, <1>5, <1>6 DEF IsLayering

\* Every layer holds the start.
LEMMA LayersStart ==
    ASSUME NEW S, NEW R, NEW n \in S, NEW N \in Nat, NEW f, IsLayering(f, S, R, n, N)
    PROVE  n \in f[N]
<1> DEFINE T == {k \in 0..N : n \notin f[k]}
<1>1. SUFFICES ASSUME T # {} PROVE FALSE
  OBVIOUS
<1>2. T \in SUBSET Nat
  OBVIOUS
<1>3. PICK k \in T : \A j \in T : k <= j
  <2> HIDE DEF T
  <2> QED
    BY <1>1, <1>2, LeastNumber
<1>4. k # 0
  BY DEF IsLayering
<1>5. k \in 1..N /\ k - 1 \in 0..N /\ ~(k <= k - 1)
  BY <1>4
<1>6. n \in f[k - 1]
  BY <1>3, <1>5
<1>7. f[k] = Wider(S, R, f[k - 1])
  BY <1>5 DEF IsLayering
<1> QED
  BY <1>6, <1>7 DEF Wider

\* getUpstreamNodes: n, the nodes edges lead to them from, and no more.
LEMMA UpstreamCloses ==
    ASSUME NEW d, IsFiniteSet(d.nodes), NEW n \in d.nodes
    PROVE  /\ n \in Upstream(d, n)
           /\ \A e \in d.edges :
                 e.src \in d.nodes /\ e.dst \in Upstream(d, n) => e.src \in Upstream(d, n)
           /\ \A X :
                 n \in X /\ (\A e \in d.edges : e.src \in d.nodes /\ e.dst \in X => e.src \in X)
                    => Upstream(d, n) \subseteq X
<1> DEFINE N == Cardinality(d.nodes)
           R == {<<e.dst, e.src>> : e \in d.edges}
           Walk(f) == f = [k \in 0..Cardinality(d.nodes) |->
                             IF k = 0 THEN {n}
                             ELSE f[k - 1] \cup {m \in d.nodes : \E l \in f[k - 1] :
                                                                   HasEdge(d.edges, m, l)}]
           walk == CHOOSE f : Walk(f)
<1>1. Upstream(d, n) = {m \in d.nodes : m \in walk[N]}
  BY DEF Upstream, Closure, Grown
<1>2. N \in Nat
  BY FS_CardinalityType
<1>3. \A X : X \cup {m \in d.nodes : \E l \in X : HasEdge(d.edges, m, l)} = Wider(d.nodes, R, X)
  <2>1. \A l, m : HasEdge(d.edges, m, l) <=> <<l, m>> \in R
    BY DEF HasEdge
  <2> HIDE DEF R
  <2> QED
    BY <2>1 DEF Wider
<1>4. \A f : Walk(f) <=> IsWalk(f, d.nodes, R, n, N)
  <2> HIDE DEF R
  <2> QED
    BY <1>3 DEF IsWalk
<1> HIDE DEF R
<1>5. \E f : Walk(f)
  <2> HIDE DEF N, Walk
  <2>1. PICK f : IsLayering(f, d.nodes, R, n, N)
    BY <1>2, LayersExist
  <2>2. IsWalk(f, d.nodes, R, n, N)
    BY <1>2, <2>1, LayeringIsWalk
  <2> QED
    BY <1>4, <2>2
<1>6. Walk(walk)
  <2> HIDE DEF Walk
  <2> QED
    BY <1>5
<1> HIDE DEF Walk, walk
<1>7. IsLayering(walk, d.nodes, R, n, N)
  BY <1>2, <1>4, <1>6, WalkIsLayering
<1> HIDE DEF N
<1>8. walk[N] \subseteq d.nodes
  BY <1>2, <1>7 DEF IsLayering
<1>9. Upstream(d, n) = walk[N]
  BY <1>1, <1>8
<1>10. Wider(d.nodes, R, walk[N]) = walk[N]
  BY <1>2, <1>7, LastLayerCloses DEF N
<1>11. n \in walk[N]
  BY <1>2, <1>7, LayersStart
<1>12. \A e \in d.edges : e.src \in d.nodes /\ e.dst \in walk[N] => e.src \in walk[N]
  BY <1>10 DEF Wider, R
<1>13. ASSUME NEW X, n \in X,
              \A e \in d.edges : e.src \in d.nodes /\ e.dst \in X => e.src \in X
       PROVE  walk[N] \subseteq X
  <2>1. IsClosed(X, d.nodes, R)
    BY <1>13 DEF R, IsClosed
  <2>2. \A k \in 0..N : walk[k] \subseteq X
    BY <1>2, <1>7, <1>13, <2>1, LayersStay
  <2>3. N \in 0..N
    BY <1>2
  <2> QED
    BY <2>2, <2>3
<1> QED
  BY <1>9, <1>11, <1>12, <1>13

\* getDownstreamNodes: n, the nodes edges lead from them to, and no more.
LEMMA DownstreamCloses ==
    ASSUME NEW d, IsFiniteSet(d.nodes), NEW n \in d.nodes
    PROVE  /\ n \in Downstream(d, n)
           /\ \A e \in d.edges :
                 e.dst \in d.nodes /\ e.src \in Downstream(d, n) => e.dst \in Downstream(d, n)
           /\ \A X :
                 n \in X /\ (\A e \in d.edges : e.dst \in d.nodes /\ e.src \in X => e.dst \in X)
                    => Downstream(d, n) \subseteq X
<1> DEFINE N == Cardinality(d.nodes)
           R == {<<e.src, e.dst>> : e \in d.edges}
           Walk(f) == f = [k \in 0..Cardinality(d.nodes) |->
                             IF k = 0 THEN {n}
                             ELSE f[k - 1] \cup {m \in d.nodes : \E l \in f[k - 1] :
                                                                   HasEdge(d.edges, l, m)}]
           walk == CHOOSE f : Walk(f)
<1>1. Downstream(d, n) = {m \in d.nodes : m \in walk[N]}
  BY DEF Downstream, Closure, Grown
<1>2. N \in Nat
  BY FS_CardinalityType
<1>3. \A X : X \cup {m \in d.nodes : \E l \in X : HasEdge(d.edges, l, m)} = Wider(d.nodes, R, X)
  <2>1. \A l, m : HasEdge(d.edges, l, m) <=> <<l, m>> \in R
    BY DEF HasEdge
  <2> HIDE DEF R
  <2> QED
    BY <2>1 DEF Wider
<1>4. \A f : Walk(f) <=> IsWalk(f, d.nodes, R, n, N)
  <2> HIDE DEF R
  <2> QED
    BY <1>3 DEF IsWalk
<1> HIDE DEF R
<1>5. \E f : Walk(f)
  <2> HIDE DEF N, Walk
  <2>1. PICK f : IsLayering(f, d.nodes, R, n, N)
    BY <1>2, LayersExist
  <2>2. IsWalk(f, d.nodes, R, n, N)
    BY <1>2, <2>1, LayeringIsWalk
  <2> QED
    BY <1>4, <2>2
<1>6. Walk(walk)
  <2> HIDE DEF Walk
  <2> QED
    BY <1>5
<1> HIDE DEF Walk, walk
<1>7. IsLayering(walk, d.nodes, R, n, N)
  BY <1>2, <1>4, <1>6, WalkIsLayering
<1> HIDE DEF N
<1>8. walk[N] \subseteq d.nodes
  BY <1>2, <1>7 DEF IsLayering
<1>9. Downstream(d, n) = walk[N]
  BY <1>1, <1>8
<1>10. Wider(d.nodes, R, walk[N]) = walk[N]
  BY <1>2, <1>7, LastLayerCloses DEF N
<1>11. n \in walk[N]
  BY <1>2, <1>7, LayersStart
<1>12. \A e \in d.edges : e.dst \in d.nodes /\ e.src \in walk[N] => e.dst \in walk[N]
  BY <1>10 DEF Wider, R
<1>13. ASSUME NEW X, n \in X,
              \A e \in d.edges : e.dst \in d.nodes /\ e.src \in X => e.dst \in X
       PROVE  walk[N] \subseteq X
  <2>1. IsClosed(X, d.nodes, R)
    BY <1>13 DEF R, IsClosed
  <2>2. \A k \in 0..N : walk[k] \subseteq X
    BY <1>2, <1>7, <1>13, <2>1, LayersStay
  <2>3. N \in 0..N
    BY <1>2
  <2> QED
    BY <2>2, <2>3
<1> QED
  BY <1>9, <1>11, <1>12, <1>13

----------------------------------------------------------------------------
(* Type correctness. *)

\* A job that is moved on keeps its type.
LEMMA JobTypes ==
    ASSUME TypeOK, NEW r \in Run, NEW j \in Job, job' = [job EXCEPT ![r] = j]
    PROVE  job' \in [Run -> Job]
BY DEF TypeOK

\* A call that only moves on to another await keeps its type.
LEMMA GotoTypes ==
    ASSUME TypeOK, NEW r \in Run, NEW at \in Places, Goto(r, at)
    PROVE  job' \in [Run -> Job]
BY DEF TypeOK, Goto, Job

\* A call that enters executeNodes with a plan of nodes keeps its type.
LEMMA LaunchTypes ==
    ASSUME TypeOK, NEW r \in Run, NEW plan \in Seq(Node), NEW outs \in SUBSET Node,
           Launch(r, plan, outs)
    PROVE  job' \in [Run -> Job]
<1>1. \A x \in Job :
         [x EXCEPT !.pc = "prepare", !.idx = 0, !.plan = plan, !.outs = outs] \in Job
  BY DEF Job, Places, Executing
<1> QED
  BY <1>1 DEF Launch, TypeOK

\* Giving a lock back leaves a set of workflows.
LEMMA UnlockTypes ==
    ASSUME TypeOK, NEW r \in Run, Unlock(r)
    PROVE  activeExecutions' \subseteq Workflow
BY DEF TypeOK, Unlock

\* What a request names exists.
LEMMA RequestTypes ==
    ASSUME TypeOK, NEW r \in Run
    PROVE  /\ Kind(r) \in Kinds /\ Wf(r) \in Workflow /\ Target(r) \in Node
           /\ request[r].mocks \subseteq Node
           /\ Kind(r) = "retry" => Retried(r) \in Run
BY ConstantsAssumption DEF TypeOK, Request, Kind, Wf, Target, Retried

\* The row a call inserts is a run of a workflow.
LEMMA InsertRunTypes ==
    ASSUME TypeOK, NEW r \in Run, InsertRun(r)
    PROVE  run' \in [Run -> [status : RunStatus, wf : Workflow \cup {NoWorkflow}]]
BY RequestTypes DEF TypeOK, InsertRun, RunStatus

\* Taking a lock leaves a set of workflows.
LEMMA LockTypes ==
    ASSUME TypeOK, NEW r \in Run, Lock(r)
    PROVE  activeExecutions' \subseteq Workflow
BY RequestTypes DEF TypeOK, Lock

\* The current node of a loop that has not ended is a node.
LEMMA CurrentTypes ==
    ASSUME TypeOK, NEW r \in Run, ~AtEnd(r)
    PROVE  Current(r) \in Node
BY DEF TypeOK, Job, AtEnd, Current

\* The program starts with every variable of its type.
LEMMA InitTypes == Init => TypeOK
<1> SUFFICES ASSUME Init PROVE TypeOK
  OBVIOUS
<1>1. NewJob \in Job
  BY DEF NewJob, Job, NoDefinition, Definition, Places
<1>2. born \subseteq Node
  BY ConstantsAssumption DEF Init, Definition
<1> QED
  BY <1>1, <1>2, ConstantsAssumption
  DEF Init, TypeOK, NoRow, RunStatus, NodeRunStatus

\* A step that starts a run keeps the types.
LEMMA StartTypes ==
    ASSUME TypeOK, NEW r \in Run, Start(r)
    PROVE  TypeOK'
<1> USE DEF defs, rows
<1>1. job[r] \in Job /\ job[r].def \in Definition /\ job[r].def.nodes \subseteq Node
  BY DEF TypeOK, Job, Definition
<1>2. CASE StartWorkflow(r)
  <2>1. PICK plan \in KahnOrders(job[r].def.nodes, job[r].def.edges) : Launch(r, plan, {})
    BY <1>2 DEF StartWorkflow
  <2>2. job' \in [Run -> Job]
    BY <1>1, <2>1, KahnOrdersAreSequences, LaunchTypes
  <2> QED
    BY <1>2, <2>2, InsertRunTypes, LockTypes DEF StartWorkflow, TypeOK
<1>3. CASE StartMock(r)
  <2>1. job' \in [Run -> Job]
    <3>1. <<Target(r)>> \in Seq(Node) /\ request[r].mocks \in SUBSET Node
      BY RequestTypes
    <3> QED
      BY <1>3, <3>1, LaunchTypes DEF StartMock
  <2> QED
    BY <1>3, <2>1, InsertRunTypes, LockTypes DEF StartMock, TypeOK
<1>4. CASE StartCascade(r)
  <2>1. PICK plan \in KahnOrders(Upstream(job[r].def, Target(r)), job[r].def.edges) :
          Launch(r, plan, {})
    BY <1>4 DEF StartCascade
  <2>2. job' \in [Run -> Job]
    BY <1>1, <2>1, WalksStayInside, KahnOrdersAreSequences, LaunchTypes
  <2> QED
    BY <1>4, <2>2, InsertRunTypes, LockTypes DEF StartCascade, TypeOK
<1>5. CASE BeginHistory(r)
  <2>1. PICK plan \in KahnOrders(Upstream(job[r].def, Target(r)) \ {Target(r)},
                                 job[r].def.edges) :
          job' = [job EXCEPT ![r] = [@ EXCEPT !.pc = "history", !.plan = plan]]
    BY <1>5 DEF BeginHistory
  <2>2. plan \in Seq(Node)
    BY <1>1, WalksStayInside, KahnOrdersAreSequences
  <2>3. job' \in [Run -> Job]
    <3> DEFINE j == [job[r] EXCEPT !.pc = "history", !.plan = plan]
    <3>1. j \in Job
      BY <1>1, <2>2 DEF Job, Places, Starting
    <3>2. job' = [job EXCEPT ![r] = j]
      BY <2>1
    <3> HIDE DEF j
    <3> QED
      BY <3>1, <3>2 DEF TypeOK
  <2> QED
    BY <1>5, <2>3, InsertRunTypes DEF BeginHistory, TypeOK
<1>6. CASE FindOutput(r)
  <2>1. Current(r) \in Node
    BY <1>6, CurrentTypes DEF FindOutput
  <2>2. \A x \in Job : \A n \in Node, i \in Nat :
           [x EXCEPT !.outs = x.outs \cup {n}, !.idx = i] \in Job
    BY DEF Job
  <2>3. Past(r) \in Nat
    BY <1>1 DEF Past, Job
  <2> QED
    BY <1>1, <1>6, <2>1, <2>2, <2>3, JobTypes DEF FindOutput, TypeOK
<1>7. CASE MissOutput(r)
  BY <1>7, GotoTypes DEF MissOutput, TypeOK, Places, Starting
<1>8. CASE RejectHistory(r)
  BY <1>8, GotoTypes DEF RejectHistory, TypeOK, Places, Settled, RunStatus
<1>9. CASE StartHistory(r)
  <2>1. <<Target(r)>> \in Seq(Node) /\ job[r].outs \in SUBSET Node
    BY <1>1, RequestTypes DEF Job
  <2>2. job' \in [Run -> Job]
    BY <1>9, <2>1, LaunchTypes DEF StartHistory
  <2> QED
    BY <1>9, <2>2, LockTypes DEF StartHistory, TypeOK
<1>10. CASE RefuseRetry(r)
  BY <1>10, GotoTypes DEF RefuseRetry, TypeOK, Places, Settled
<1>11. CASE ReadFailedRun(r)
  <2> PICK n \in FailedNodes(Retried(r)) :
          \E plan \in KahnOrders(Downstream(job[r].def, n), job[r].def.edges) :
             job' = [job EXCEPT ![r] = [@ EXCEPT !.pc = "create", !.plan = plan,
                                !.outs = CompletedNodes(Retried(r)) \cap job[r].def.nodes]]
    BY <1>11 DEF ReadFailedRun
  <2>1. PICK plan \in KahnOrders(Downstream(job[r].def, n), job[r].def.edges) :
          job' = [job EXCEPT ![r] = [@ EXCEPT !.pc = "create", !.plan = plan,
                             !.outs = CompletedNodes(Retried(r)) \cap job[r].def.nodes]]
    OBVIOUS
  <2>2. plan \in Seq(Node)
    BY <1>1, WalksStayInside, KahnOrdersAreSequences
  <2>3. job' \in [Run -> Job]
    BY <1>1, <2>1, <2>2 DEF TypeOK, Job, Places, Starting
  <2> QED
    BY <1>11, <2>3 DEF ReadFailedRun, TypeOK
<1>12. CASE StartRetry(r)
  <2>1. job' \in [Run -> Job]
    BY <1>1, <1>12, LaunchTypes DEF StartRetry, Job
  <2> QED
    BY <1>12, <2>1, InsertRunTypes DEF StartRetry, TypeOK
<1>13. CASE WorkflowNotFound(r)
  BY <1>13, GotoTypes DEF WorkflowNotFound, TypeOK, Places, Settled
<1>14. CASE LoadWorkflow(r)
  <2>1. workflow[Wf(r)] \in Definition
    BY <1>14, RequestTypes DEF LoadWorkflow, TypeOK, WorkflowStored
  <2>2. job' \in [Run -> Job]
    <3> DEFINE j == [job[r] EXCEPT !.def = workflow[Wf(r)],
                        !.pc = IF Kind(r) = "retry" THEN "readRun" ELSE "create"]
    <3>1. j \in Job
      BY <1>1, <2>1 DEF Job, Places, Starting
    <3>2. job' = [job EXCEPT ![r] = j]
      BY <1>14 DEF LoadWorkflow
    <3> HIDE DEF j
    <3> QED
      BY <3>1, <3>2 DEF TypeOK
  <2> QED
    BY <1>14, <2>2 DEF LoadWorkflow, TypeOK
<1>15. CASE InsertRunFails(r)
  BY <1>15, GotoTypes DEF InsertRunFails, TypeOK, Places, Settled
<1> QED
  BY <1>2, <1>3, <1>4, <1>5, <1>6, <1>7, <1>8, <1>9, <1>10, <1>11, <1>12, <1>13,
     <1>14, <1>15 DEF Start

\* A node run that is written gets one of its states.
LEMMA SetNodeRunTypes ==
    ASSUME TypeOK, NEW r \in Run, NEW n \in Node, NEW status \in NodeRunStatus,
           SetNodeRun(r, n, status)
    PROVE  nodeRun' \in [Run -> [Node -> NodeRunStatus]]
BY DEF TypeOK, SetNodeRun

\* The edges around a node are edges.
LEMMA EdgeTypes ==
    ASSUME TypeOK, NEW r \in Run, NEW n, NEW result
    PROVE  /\ OutEdges(job[r].def, n) \subseteq Edge
           /\ InEdges(job[r].def, n) \subseteq Edge
           /\ Inactive(r, n, result) \subseteq Edge
BY DEF TypeOK, Job, Definition, OutEdges, InEdges, Inactive

\* What an executor leaves in the memory of its call.
LEMMA OutputTypes ==
    ASSUME TypeOK, NEW r \in Run, ~AtEnd(r), NEW result \in BOOLEAN
    PROVE  WithOutput(r, Current(r), result) \in Job
<1>1. \A x \in Job : \A n \in Node, B \in SUBSET Edge :
         [x EXCEPT !.outs = x.outs \cup {n}, !.blocked = x.blocked \cup B] \in Job
  BY DEF Job
<1>2. job[r] \in Job /\ Current(r) \in Node
  BY CurrentTypes DEF TypeOK
<1> QED
  BY <1>1, <1>2, EdgeTypes DEF WithOutput

\* A job in exec has a current node: what TypeOK needs beside itself.
ExecHasNode == \A r \in Run : At(r, "exec") => ~AtEnd(r)

\* A loop that leaves a node behind keeps its type.
LEMMA PassTypes ==
    ASSUME TypeOK, NEW r \in Run, job' = [job EXCEPT ![r].idx = Past(r)]
    PROVE  job' \in [Run -> Job]
<1>1. Past(r) \in Nat
  BY DEF Past, TypeOK, Job
<1> QED
  BY <1>1 DEF TypeOK, Job

\* A step of executeNodes keeps the types.
LEMMA ExecuteTypes ==
    ASSUME TypeOK, ExecHasNode, NEW r \in Run, Execute(r)
    PROVE  TypeOK'
<1> USE DEF defs, rows
<1>1. job[r] \in Job /\ Past(r) \in Nat
  BY DEF TypeOK, Job, Past
<1>2. CASE CreateNodeRuns(r)
  <2>1. nodeRun' \in [Run -> [Node -> NodeRunStatus]]
    BY <1>2 DEF CreateNodeRuns, TypeOK, NodeRunStatus
  <2> QED
    BY <1>2, <2>1, GotoTypes DEF CreateNodeRuns, TypeOK, Places, Executing
<1>3. CASE FetchNodeRuns(r)
  <2>1. {n \in Planned(r) : NodeRunStored(r, n)} \in SUBSET Node
    BY <1>1 DEF Planned, Job
  <2>2. \A x \in Job : \A M \in SUBSET Node : [x EXCEPT !.pc = "loop", !.mapped = M] \in Job
    BY DEF Job, Places, Executing
  <2> QED
    BY <1>1, <1>3, <2>1, <2>2, JobTypes DEF FetchNodeRuns, TypeOK
<1>4. CASE PassOver(r)
  BY <1>4, PassTypes DEF PassOver, TypeOK
<1>5. CASE SkipBlocked(r)
  <2>1. Current(r) \in Node
    BY <1>5, CurrentTypes DEF SkipBlocked, AtNode
  <2>2. \A x \in Job : \A B \in SUBSET Edge, i \in Nat :
           [x EXCEPT !.idx = i, !.blocked = x.blocked \cup B] \in Job
    BY DEF Job
  <2>3. job' \in [Run -> Job]
    BY <1>1, <1>5, <2>2, EdgeTypes, JobTypes DEF SkipBlocked
  <2> QED
    BY <1>5, <2>1, <2>3, SetNodeRunTypes DEF SkipBlocked, TypeOK, NodeRunStatus
<1>6. CASE SkipAfterFailure(r)
  <2>1. Current(r) \in Node
    BY <1>6, CurrentTypes DEF SkipAfterFailure, AtNode
  <2> QED
    BY <1>6, <2>1, PassTypes, SetNodeRunTypes DEF SkipAfterFailure, TypeOK, NodeRunStatus
<1>7. CASE StartNode(r)
  <2>1. Current(r) \in Node
    BY <1>7, CurrentTypes DEF StartNode, AtNode
  <2> QED
    BY <1>7, <2>1, GotoTypes, SetNodeRunTypes
    DEF StartNode, TypeOK, NodeRunStatus, Places, Executing
<1>8. CASE CompleteNode(r)
  <2>1. ~AtEnd(r) /\ Current(r) \in Node
    BY <1>8, CurrentTypes DEF CompleteNode, ExecHasNode
  <2>2. PICK result \in BOOLEAN :
          job' = [job EXCEPT ![r] = [WithOutput(r, Current(r), result) EXCEPT
                                        !.pc = "loop", !.idx = Past(r)]]
    BY <1>8 DEF CompleteNode
  <2>3. WithOutput(r, Current(r), result) \in Job
    BY <2>1, OutputTypes
  <2>4. \A x \in Job : \A i \in Nat : [x EXCEPT !.pc = "loop", !.idx = i] \in Job
    BY DEF Job, Places, Executing
  <2>5. job' \in [Run -> Job]
    BY <1>1, <2>2, <2>3, <2>4, JobTypes
  <2> QED
    BY <1>8, <2>1, <2>5, SetNodeRunTypes DEF CompleteNode, TypeOK, NodeRunStatus
<1>9. CASE FailNode(r)
  <2>1. Current(r) \in Node
    BY <1>9, CurrentTypes DEF FailNode, ExecHasNode
  <2>2. \A x \in Job : \A i \in Nat :
           [x EXCEPT !.pc = "loop", !.idx = i, !.failed = TRUE] \in Job
    BY DEF Job, Places, Executing
  <2>3. job' \in [Run -> Job]
    BY <1>1, <1>9, <2>2, JobTypes DEF FailNode
  <2> QED
    BY <1>9, <2>1, <2>3, SetNodeRunTypes DEF FailNode, TypeOK, NodeRunStatus
<1>10. CASE FailToStore(r)
  <2>1. ~AtEnd(r) /\ Current(r) \in Node
    BY <1>10, CurrentTypes DEF FailToStore, ExecHasNode
  <2>2. PICK result \in BOOLEAN :
          job' = [job EXCEPT ![r] = [WithOutput(r, Current(r), result) EXCEPT
                                        !.pc = "loop", !.idx = Past(r), !.failed = TRUE]]
    BY <1>10 DEF FailToStore
  <2>3. WithOutput(r, Current(r), result) \in Job
    BY <2>1, OutputTypes
  <2>4. \A x \in Job : \A i \in Nat :
           [x EXCEPT !.pc = "loop", !.idx = i, !.failed = TRUE] \in Job
    BY DEF Job, Places, Executing
  <2>5. job' \in [Run -> Job]
    BY <1>1, <2>2, <2>3, <2>4, JobTypes
  <2> QED
    BY <1>10, <2>1, <2>5, SetNodeRunTypes DEF FailToStore, TypeOK, NodeRunStatus
<1>11. CASE FinishRun(r)
  BY <1>11, GotoTypes DEF FinishRun, TypeOK, RunStatus, Places, Executing
<1>12. CASE Report(r)
  BY <1>12, GotoTypes, UnlockTypes DEF Report, TypeOK, Places, Settled
<1>13. CASE Abort(r)
  BY <1>13, GotoTypes, UnlockTypes DEF Abort, Die, TypeOK, Places, Settled
<1> QED
  BY <1>2, <1>3, <1>4, <1>5, <1>6, <1>7, <1>8, <1>9, <1>10, <1>11, <1>12, <1>13
  DEF Execute

\* Calls that are admitted, refused or broken off.
LEMMA CallTypes ==
    ASSUME TypeOK, NEW r \in Run, Call(r) \/ Break(r)
    PROVE  TypeOK'
<1> USE DEF defs, rows
<1>1. CASE Refuse(r) \/ Admit(r) \/ FaultAtStart(r)
  BY <1>1, GotoTypes
  DEF Refuse, Admit, FaultAtStart, TypeOK, Places, Starting, Settled
<1>2. CASE Fault(r)
  BY <1>2, GotoTypes, UnlockTypes DEF Fault, Die, TypeOK, Places, Settled
<1> QED
  BY <1>1, <1>2 DEF Call, Break

\* A save or a deletion keeps the types.
LEMMA EditTypes ==
    ASSUME TypeOK, NEW w \in Workflow, Edit(w)
    PROVE  TypeOK'
<1>1. CASE DeleteWorkflow(w)
  BY <1>1 DEF DeleteWorkflow, TypeOK, NoRow, RunStatus, NodeRunStatus
<1>2. ASSUME NEW d \in Edits[w], SaveWorkflow(w, d) PROVE TypeOK'
  <2>1. d \in Definition /\ d.nodes \subseteq Node
    BY ConstantsAssumption DEF Definition
  <2> QED
    BY <1>2, <2>1 DEF SaveWorkflow, TypeOK, NodeRunStatus
<1> QED
  BY <1>1, <1>2 DEF Edit

\* A restart keeps the types.
LEMMA RestartTypes ==
    ASSUME TypeOK, Restart
    PROVE  TypeOK'
<1>1. \A r \in Run : job[r] \in Job /\ [job[r] EXCEPT !.pc = "lost"] \in Job
  BY DEF TypeOK, Job, Places, Settled
<1> QED
  BY <1>1 DEF Restart, TypeOK, defs, rows

----------------------------------------------------------------------------
(* What the memory of a call and its rows have to do with each other. *)

RunInv(r) == RowsFit(r) /\ MemoryFits(r) /\ LoopFits(r) /\ NoneLeftBehind(r)

\* EngineInv says one thing of the definitions and one of each call.
LEMMA RunInvIsEngineInv == EngineInv <=> DefinitionsApart /\ \A r \in Run : RunInv(r)
BY DEF EngineInv, RunInv

\* Before the first call there is nothing to disagree about.
LEMMA InitInv == Init => EngineInv
<1> SUFFICES ASSUME Init PROVE EngineInv
  OBVIOUS
<1>1. DefinitionsApart
  BY DefinitionsAssumption
  DEF Init, DefinitionsApart, WorkflowStored, NewJob, NoDefinition
<1>2. ASSUME NEW r \in Run PROVE RunInv(r)
  <2>1. job[r] = NewJob /\ run[r] = NoRow /\ \A n \in Node : nodeRun[r][n] = "none"
    BY <1>2 DEF Init
  <2>2. RowsFit(r)
    BY <2>1 DEF RowsFit, RunStored, NodeRunStored, NewJob, NoRow
  <2>3. MemoryFits(r)
    BY <2>1 DEF MemoryFits, NewJob, At
  <2>4. LoopFits(r) /\ NoneLeftBehind(r)
    BY <2>1 DEF LoopFits, NoneLeftBehind, NewJob
  <2> QED
    BY <2>2, <2>3, <2>4 DEF RunInv
<1> QED
  BY <1>1, <1>2, RunInvIsEngineInv

\* A step that leaves a call's memory and rows, and the definitions, alone.
LEMMA RunInvFrame ==
    ASSUME NEW s \in Run, RunInv(s), job'[s] = job[s], run'[s] = run[s],
           nodeRun'[s] = nodeRun[s], workflow' = workflow
    PROVE  RunInv(s)'
<1> USE DEF At, AtEnd, Current, RunStored, NodeRunStored, NodeStored
<1>1. RowsFit(s)'
  BY DEF RunInv, RowsFit
<1>2. MemoryFits(s)'
  BY DEF RunInv, MemoryFits
<1>3. LoopFits(s)'
  BY DEF RunInv, LoopFits
<1>4. NoneLeftBehind(s)'
  BY DEF RunInv, NoneLeftBehind
<1> QED
  BY <1>1, <1>2, <1>3, <1>4 DEF RunInv

\* A step of one call leaves the others alone.
LEMMA StartFrame ==
    ASSUME TypeOK, NEW r \in Run, Start(r)
    PROVE  /\ UNCHANGED <<workflow, born, request>>
           /\ nodeRun' = nodeRun
           /\ \A s \in Run \ {r} : job'[s] = job[s] /\ run'[s] = run[s]
<1> USE DEF defs, rows, TypeOK, Goto, Launch, InsertRun
<1>1. CASE StartWorkflow(r) \/ StartMock(r) \/ StartCascade(r) \/ BeginHistory(r)
  BY <1>1 DEF StartWorkflow, StartMock, StartCascade, BeginHistory
<1>2. CASE FindOutput(r) \/ MissOutput(r) \/ RejectHistory(r) \/ StartHistory(r)
  BY <1>2 DEF FindOutput, MissOutput, RejectHistory, StartHistory
<1>3. CASE RefuseRetry(r) \/ ReadFailedRun(r) \/ StartRetry(r)
  BY <1>3 DEF RefuseRetry, ReadFailedRun, StartRetry
<1>4. CASE WorkflowNotFound(r) \/ LoadWorkflow(r) \/ InsertRunFails(r)
  BY <1>4 DEF WorkflowNotFound, LoadWorkflow, InsertRunFails
<1> QED
  BY <1>1, <1>2, <1>3, <1>4 DEF Start

\* Admitting, refusing or breaking off a call writes no row.
LEMMA CallFrame ==
    ASSUME TypeOK, NEW r \in Run, Call(r) \/ Break(r)
    PROVE  /\ UNCHANGED <<workflow, born, request, run, nodeRun>>
           /\ job'[r].def = job[r].def
           /\ \A s \in Run \ {r} : job'[s] = job[s]
<1>1. /\ UNCHANGED <<workflow, born, request, run, nodeRun>>
      /\ \E at \in Places : Goto(r, at)
  BY DEF Call, Break, Refuse, Admit, Fault, Die, FaultAtStart, Places, Settled,
         Starting, defs, rows
<1>2. job[r] \in Job
  BY DEF TypeOK
<1> QED
  BY <1>1, <1>2 DEF Goto, TypeOK, Job

\* A step of executeNodes leaves the other calls and the definitions alone.
LEMMA ExecuteFrame ==
    ASSUME TypeOK, NEW r \in Run, Execute(r)
    PROVE  /\ UNCHANGED <<workflow, born, request>>
           /\ job'[r].def = job[r].def
           /\ \A s \in Run \ {r} : /\ job'[s] = job[s] /\ run'[s] = run[s]
                                   /\ nodeRun'[s] = nodeRun[s]
<1> USE DEF defs, rows, TypeOK, Goto, SetNodeRun
<1>0. job[r] \in Job
  OBVIOUS
<1>1. CASE CreateNodeRuns(r)
  BY <1>0, <1>1 DEF CreateNodeRuns, Job
<1>2. CASE FetchNodeRuns(r)
  BY <1>0, <1>2 DEF FetchNodeRuns, Job
<1>3. CASE PassOver(r)
  BY <1>0, <1>3 DEF PassOver, Job
<1>4. CASE SkipBlocked(r)
  BY <1>0, <1>4, SMTT(20) DEF SkipBlocked, Job
<1>5. CASE SkipAfterFailure(r)
  BY <1>0, <1>5 DEF SkipAfterFailure, Job
<1>6. CASE StartNode(r)
  BY <1>0, <1>6 DEF StartNode, Job
<1>7. CASE CompleteNode(r)
  BY <1>0, <1>7, SMTT(20) DEF CompleteNode, WithOutput, Job
<1>8. CASE FailNode(r)
  BY <1>0, <1>8 DEF FailNode, Job
<1>9. CASE FailToStore(r)
  BY <1>0, <1>9, SMTT(20) DEF FailToStore, WithOutput, Job
<1>10. CASE FinishRun(r)
  BY <1>0, <1>10 DEF FinishRun, Job
<1>11. CASE Report(r)
  BY <1>0, <1>11 DEF Report, Job
<1>12. CASE Abort(r)
  BY <1>0, <1>12 DEF Abort, Die, Job
<1> QED
  BY <1>1, <1>2, <1>3, <1>4, <1>5, <1>6,
     <1>7, <1>8, <1>9, <1>10, <1>11, <1>12 DEF Execute

----------------------------------------------------------------------------
(* The shapes a step of a call has, seen from its own memory and rows. *)

IsInjectivePlan(plan) == \A i, k \in DOMAIN plan : plan[i] = plan[k] => i = k

\* The call has ended, or is about to report.
LEMMA EndedInv ==
    ASSUME NEW r \in Run, RunInv(r),
           job'[r].pc \in Settled \cup {"report"}, job'[r].plan = job[r].plan,
           nodeRun'[r] = nodeRun[r],
           run'[r] = run[r] \/ (RunStored(r) /\ run'[r].status # "none")
    PROVE  RunInv(r)'
<1> USE DEF Settled, At, AtEnd, RunStored, NodeRunStored
<1>1. RowsFit(r)'
  BY DEF RunInv, RowsFit
<1>2. MemoryFits(r)'
  BY DEF RunInv, MemoryFits, Starting
<1>3. LoopFits(r)' /\ NoneLeftBehind(r)'
  BY DEF LoopFits, NoneLeftBehind
<1> QED
  BY <1>1, <1>2, <1>3 DEF RunInv

\* The call has not created its node runs yet.
LEMMA EarlyInv ==
    ASSUME NEW r \in Run,
           job'[r].pc \in {"load", "readRun", "create", "history", "noHistory", "prepare"},
           ~job'[r].failed, job'[r].pc = "prepare" => job'[r].idx = 0,
           IsInjectivePlan(job'[r].plan),
           \A n \in Node : nodeRun'[r][n] = "none",
           run'[r] = NoRow \/ run'[r].status = "running",
           job'[r].pc \in {"load", "readRun", "create"} => run'[r] = NoRow
    PROVE  RunInv(r)'
<1> USE DEF At, AtEnd, RunStored, NodeRunStored
<1>1. RowsFit(r)'
  BY DEF RowsFit, NoRow
<1>2. MemoryFits(r)'
  BY DEF MemoryFits, IsInjectivePlan
<1>3. LoopFits(r)' /\ NoneLeftBehind(r)'
  BY DEF LoopFits, NoneLeftBehind
<1> QED
  BY <1>1, <1>2, <1>3 DEF RunInv

\* The loop leaves the current node behind with a final status.
LEMMA PastNodeInv ==
    ASSUME TypeOK, NEW r \in Run, RunInv(r), ~AtEnd(r),
           job[r].pc \in {"loop", "exec"}, NodeRunStored(r, Current(r)),
           NEW status \in {"completed", "skipped", "failed"},
           status = "failed" => job'[r].failed,
           job[r].failed => job'[r].failed,
           job'[r].pc = "loop", job'[r].idx = Past(r),
           job'[r].plan = job[r].plan, job'[r].def = job[r].def,
           job'[r].mapped = job[r].mapped,
           run'[r] = run[r], workflow' = workflow,
           SetNodeRun(r, Current(r), status)
    PROVE  RunInv(r)'
<1>1. /\ job[r].idx \in Nat /\ job[r].plan \in Seq(Node)
      /\ Current(r) \in Node /\ Current(r) = job[r].plan[job[r].idx + 1]
      /\ Past(r) = job[r].idx + 1 /\ Past(r) \in DOMAIN job[r].plan
  BY CurrentTypes DEF TypeOK, Job, AtEnd, Current, Past
<1>2. \A n \in Node : nodeRun'[r][n] = IF n = Current(r) THEN status ELSE nodeRun[r][n]
  BY <1>1 DEF SetNodeRun, TypeOK
<1>3. RowsFit(r)'
  BY <1>1, <1>2 DEF RunInv, RowsFit, RunStored, NodeRunStored
<1>4. MemoryFits(r)'
  BY DEF RunInv, MemoryFits, At, AtEnd, Starting
<1>5. LoopFits(r)'
  <2>1. \A n \in Node : nodeRun'[r][n] # "running"
    BY <1>2 DEF RunInv, LoopFits
  <2>2. \A n \in Node : nodeRun'[r][n] = "failed" => job'[r].failed
    BY <1>2 DEF RunInv, LoopFits
  <2>3. ASSUME NEW i \in DOMAIN job[r].plan, i > Past(r)
        PROVE  nodeRun'[r][job[r].plan[i]] \in {"none", "pending"}
    <3>1. job[r].plan[i] \in Node /\ job[r].plan[i] # Current(r)
      BY <1>1, <2>3 DEF RunInv, MemoryFits
    <3>2. i > job[r].idx + 1
      BY <1>1, <2>3
    <3> QED
      BY <1>2, <3>1, <3>2 DEF RunInv, LoopFits
  <2>4. ASSUME NEW i \in DOMAIN job'[r].plan,
               i > job'[r].idx + 1 \/ i = job'[r].idx + 1
        PROVE  nodeRun'[r][job'[r].plan[i]] \in {"none", "pending"}
    <3>1. i \in Nat /\ i > Past(r)
      BY <1>1, <2>4
    <3> QED
      BY <2>3, <3>1
  <2>5. job'[r].pc # "exec"
    OBVIOUS
  <2> QED
    BY <2>1, <2>2, <2>4, <2>5 DEF LoopFits, At
<1>6. NoneLeftBehind(r)'
  <2> SUFFICES ASSUME RunStored(r), NEW i \in DOMAIN job[r].plan,
                      job[r].plan[i] \in job[r].def.nodes, NodeStored(job[r].plan[i])
               PROVE  /\ nodeRun'[r][job[r].plan[i]] # "none"
                      /\ job[r].plan[i] \in job[r].mapped
                      /\ i <= Past(r) =>
                           nodeRun'[r][job[r].plan[i]] \in {"completed", "skipped", "failed"}
    BY DEF NoneLeftBehind, RunStored, NodeStored, NodeRunStored, At
  <2>1. /\ nodeRun[r][job[r].plan[i]] # "none"
        /\ job[r].plan[i] \in job[r].mapped
        /\ i <= job[r].idx =>
              nodeRun[r][job[r].plan[i]] \in {"completed", "skipped", "failed"}
    BY DEF RunInv, NoneLeftBehind, NodeRunStored, At
  <2>2. job[r].plan[i] \in Node
    BY <1>1
  <2>3. CASE i = Past(r)
    BY <1>1, <1>2, <2>1, <2>2, <2>3
  <2>4. CASE i # Past(r)
    <3>1. i \in Nat /\ (i <= Past(r) => i <= job[r].idx)
      BY <1>1, <2>4
    <3> QED
      BY <1>2, <2>1, <2>2, <3>1
  <2> QED
    BY <2>3, <2>4
<1> QED
  BY <1>3, <1>4, <1>5, <1>6 DEF RunInv

\* An order of nodes names each of them once.
LEMMA KahnOrdersAreInjective ==
    ASSUME NEW S, NEW E, NEW p \in KahnOrders(S, E)
    PROVE  IsInjectivePlan(p)
BY DEF KahnOrders, Orderings, IsInjectivePlan

\* A call that inserts its run is early, whatever plan it then has.
LEMMA InsertInv ==
    ASSUME TypeOK, NEW r \in Run, RunInv(r), InsertRun(r), nodeRun' = nodeRun,
           job'[r].pc \in {"history", "prepare"}, job'[r].failed = job[r].failed,
           job'[r].pc = "prepare" => job'[r].idx = 0,
           IsInjectivePlan(job'[r].plan)
    PROVE  RunInv(r)'
<1>1. /\ ~job'[r].failed
      /\ \A n \in Node : nodeRun'[r][n] = "none"
  BY DEF RunInv, RowsFit, MemoryFits, InsertRun, At, Starting, RunStored, NodeRunStored
<1>2. run'[r].status = "running"
  BY DEF InsertRun, TypeOK
<1> QED
  BY <1>1, <1>2, EarlyInv

\* A step that starts a run keeps memory and rows in step.
LEMMA StartInv ==
    ASSUME TypeOK, NEW r \in Run, RunInv(r), Start(r)
    PROVE  RunInv(r)'
<1> USE DEF defs, rows
<1>1. job \in [Run -> Job] /\ job[r] \in Job
  BY DEF TypeOK
<1>2. nodeRun' = nodeRun
  BY StartFrame
<1>3. CASE StartWorkflow(r)
  <2>1. PICK plan \in KahnOrders(job[r].def.nodes, job[r].def.edges) : Launch(r, plan, {})
    BY <1>3 DEF StartWorkflow
  <2>2. /\ job'[r].pc = "prepare" /\ job'[r].idx = 0 /\ job'[r].plan = plan
        /\ job'[r].failed = job[r].failed
    BY <1>1, <2>1 DEF Launch, Job
  <2> QED
    BY <1>2, <1>3, <2>2, KahnOrdersAreInjective, InsertInv DEF StartWorkflow
<1>4. CASE StartMock(r)
  <2>1. /\ job'[r].pc = "prepare" /\ job'[r].idx = 0 /\ job'[r].plan = <<Target(r)>>
        /\ job'[r].failed = job[r].failed
    BY <1>1, <1>4 DEF StartMock, Launch, Job
  <2>2. IsInjectivePlan(job'[r].plan)
    BY <2>1 DEF IsInjectivePlan
  <2> QED
    BY <1>2, <1>4, <2>1, <2>2, InsertInv DEF StartMock
<1>5. CASE StartCascade(r)
  <2>1. PICK plan \in KahnOrders(Upstream(job[r].def, Target(r)), job[r].def.edges) :
          Launch(r, plan, {})
    BY <1>5 DEF StartCascade
  <2>2. /\ job'[r].pc = "prepare" /\ job'[r].idx = 0 /\ job'[r].plan = plan
        /\ job'[r].failed = job[r].failed
    BY <1>1, <2>1 DEF Launch, Job
  <2> QED
    BY <1>2, <1>5, <2>2, KahnOrdersAreInjective, InsertInv DEF StartCascade
<1>6. CASE BeginHistory(r)
  <2>1. PICK plan \in KahnOrders(Upstream(job[r].def, Target(r)) \ {Target(r)},
                                 job[r].def.edges) :
          job' = [job EXCEPT ![r] = [@ EXCEPT !.pc = "history", !.plan = plan]]
    BY <1>6 DEF BeginHistory
  <2>2. /\ job'[r].pc = "history" /\ job'[r].plan = plan
        /\ job'[r].failed = job[r].failed
    BY <1>1, <2>1 DEF Job
  <2> QED
    BY <1>2, <1>6, <2>2, KahnOrdersAreInjective, InsertInv DEF BeginHistory
<1>7. CASE FindOutput(r) \/ MissOutput(r) \/ StartHistory(r)
  <2>1. job[r].pc = "history" /\ run' = run
    BY <1>7 DEF FindOutput, MissOutput, StartHistory, At
  <2>2. /\ job'[r].pc \in {"history", "noHistory", "prepare"}
        /\ job'[r].failed = job[r].failed
        /\ job'[r].pc = "prepare" => job'[r].idx = 0
        /\ job'[r].plan \in {job[r].plan, <<Target(r)>>}
    <3>1. CASE FindOutput(r)
      BY <1>1, <3>1 DEF FindOutput, Job, At
    <3>2. CASE MissOutput(r)
      BY <1>1, <3>2 DEF MissOutput, Goto, Job
    <3>3. CASE StartHistory(r)
      BY <1>1, <3>3 DEF StartHistory, Launch, Job
    <3> QED
      BY <1>7, <3>1, <3>2, <3>3
  <2>3. IsInjectivePlan(job'[r].plan)
    BY <2>2 DEF IsInjectivePlan, RunInv, MemoryFits
  <2>4. /\ \A n \in Node : nodeRun'[r][n] = "none"
        /\ run'[r] = NoRow \/ run'[r].status = "running"
        /\ ~job'[r].failed
    BY <1>2, <2>1, <2>2
    DEF RunInv, RowsFit, MemoryFits, Starting, RunStored, NodeRunStored
  <2> QED
    BY <2>2, <2>3, <2>4, EarlyInv
<1>8. CASE RejectHistory(r)
  <2>1. job'[r].pc = "rejected" /\ job'[r].plan = job[r].plan
    BY <1>1, <1>8 DEF RejectHistory, Goto, Job
  <2>2. run'[r] = run[r] \/ (RunStored(r) /\ run'[r].status # "none")
    BY <1>8 DEF RejectHistory, RunStored, TypeOK
  <2> QED
    BY <1>2, <2>1, <2>2, EndedInv DEF Settled
<1>9. CASE RefuseRetry(r) \/ WorkflowNotFound(r) \/ InsertRunFails(r)
  <2>1. job'[r].pc \in {"rejected", "died"} /\ job'[r].plan = job[r].plan /\ run' = run
    BY <1>1, <1>9 DEF RefuseRetry, WorkflowNotFound, InsertRunFails, Goto, Job
  <2> QED
    BY <1>2, <2>1, EndedInv DEF Settled
<1>10. CASE ReadFailedRun(r)
  <2> PICK n \in FailedNodes(Retried(r)) :
          \E plan \in KahnOrders(Downstream(job[r].def, n), job[r].def.edges) :
             job' = [job EXCEPT ![r] = [@ EXCEPT !.pc = "create", !.plan = plan,
                                !.outs = CompletedNodes(Retried(r)) \cap job[r].def.nodes]]
    BY <1>10 DEF ReadFailedRun
  <2>1. PICK plan \in KahnOrders(Downstream(job[r].def, n), job[r].def.edges) :
          job' = [job EXCEPT ![r] = [@ EXCEPT !.pc = "create", !.plan = plan,
                             !.outs = CompletedNodes(Retried(r)) \cap job[r].def.nodes]]
    OBVIOUS
  <2>2. job'[r].pc = "create" /\ job'[r].plan = plan /\ job'[r].failed = job[r].failed
    BY <1>1, <2>1 DEF Job
  <2>3. run' = run /\ job[r].pc = "readRun"
    BY <1>10 DEF ReadFailedRun, At
  <2>4. run'[r] = NoRow /\ ~job'[r].failed /\ \A m \in Node : nodeRun'[r][m] = "none"
    BY <1>2, <2>2, <2>3
    DEF RunInv, RowsFit, MemoryFits, Starting, RunStored, NodeRunStored
  <2> QED
    BY <2>2, <2>4, KahnOrdersAreInjective, EarlyInv
<1>11. CASE StartRetry(r)
  <2>1. /\ job'[r].pc = "prepare" /\ job'[r].idx = 0 /\ job'[r].plan = job[r].plan
        /\ job'[r].failed = job[r].failed
    BY <1>1, <1>11 DEF StartRetry, Launch, Job
  <2>2. IsInjectivePlan(job'[r].plan)
    BY <2>1 DEF IsInjectivePlan, RunInv, MemoryFits
  <2> QED
    BY <1>2, <1>11, <2>1, <2>2, InsertInv DEF StartRetry
<1>12. CASE LoadWorkflow(r)
  <2>1. /\ job'[r].pc \in {"readRun", "create"} /\ job'[r].plan = job[r].plan
        /\ job'[r].failed = job[r].failed
    BY <1>1, <1>12 DEF LoadWorkflow, Job
  <2>2. run' = run /\ job[r].pc = "load"
    BY <1>12 DEF LoadWorkflow, At
  <2>3. run'[r] = NoRow /\ ~job'[r].failed /\ \A m \in Node : nodeRun'[r][m] = "none"
    BY <1>2, <2>1, <2>2
    DEF RunInv, RowsFit, MemoryFits, Starting, RunStored, NodeRunStored
  <2>4. IsInjectivePlan(job'[r].plan)
    BY <2>1 DEF IsInjectivePlan, RunInv, MemoryFits
  <2> QED
    BY <2>1, <2>3, <2>4, EarlyInv
<1> QED
  BY <1>3, <1>4, <1>5, <1>6, <1>7, <1>8, <1>9, <1>10, <1>11, <1>12 DEF Start

\* A step that skips the current node.
LEMMA SkipInv ==
    ASSUME TypeOK, NEW r \in Run, RunInv(r), SkipBlocked(r) \/ SkipAfterFailure(r)
    PROVE  RunInv(r)'
<1>1. job \in [Run -> Job] /\ job[r] \in Job /\ Past(r) \in Nat
  BY DEF TypeOK, Job, Past
<1>2. /\ job[r].pc = "loop" /\ ~AtEnd(r) /\ NodeRunStored(r, Current(r))
      /\ SetNodeRun(r, Current(r), "skipped")
      /\ run' = run /\ workflow' = workflow
  BY DEF SkipBlocked, SkipAfterFailure, AtNode, At, defs
<1>3. /\ job'[r].pc = "loop" /\ job'[r].idx = Past(r)
      /\ job'[r].plan = job[r].plan /\ job'[r].def = job[r].def
      /\ job'[r].mapped = job[r].mapped /\ job'[r].failed = job[r].failed
  <2>1. CASE SkipBlocked(r)
    BY <1>1, <1>2, <2>1 DEF SkipBlocked, Job
  <2>2. CASE SkipAfterFailure(r)
    BY <1>1, <1>2, <2>2 DEF SkipAfterFailure, Job
  <2> QED
    BY <2>1, <2>2
<1> QED
  BY <1>2, <1>3, PastNodeInv

\* A step that ends the current node.
LEMMA EndNodeInv ==
    ASSUME TypeOK, NEW r \in Run, RunInv(r),
           CompleteNode(r) \/ FailNode(r) \/ FailToStore(r)
    PROVE  RunInv(r)'
<1>1. job \in [Run -> Job] /\ job[r] \in Job
  BY DEF TypeOK
<1>2. /\ job[r].pc = "exec" /\ ~AtEnd(r) /\ NodeRunStored(r, Current(r))
      /\ run' = run /\ workflow' = workflow
  BY DEF CompleteNode, FailNode, FailToStore, At, defs, RunInv, MemoryFits
<1>3. PICK status \in {"completed", "failed"} :
        /\ SetNodeRun(r, Current(r), status)
        /\ job'[r].pc = "loop" /\ job'[r].idx = Past(r)
        /\ job'[r].plan = job[r].plan /\ job'[r].def = job[r].def
        /\ job'[r].mapped = job[r].mapped
        /\ job'[r].failed = (job[r].failed \/ status = "failed")
  <2>1. CASE CompleteNode(r)
    BY <1>1, <2>1, Zenon DEF CompleteNode, WithOutput, Job
  <2>2. CASE FailNode(r)
    BY <1>1, <2>2 DEF FailNode, Job
  <2>3. CASE FailToStore(r)
    BY <1>1, <2>3 DEF FailToStore, WithOutput, Job
  <2> QED
    BY <2>1, <2>2, <2>3
<1> QED
  BY <1>2, <1>3, PastNodeInv

\* createNodeRunsBatch leaves one pending row for each planned node.
LEMMA CreateNodeRunsInv ==
    ASSUME TypeOK, NEW r \in Run, RunInv(r), CreateNodeRuns(r)
    PROVE  RunInv(r)'
<1>1. /\ job[r].pc = "prepare" /\ job[r].idx = 0 /\ ~job[r].failed
      /\ run[r].status \in {"none", "running"}
      /\ \A n \in Node : nodeRun[r][n] = "none"
  BY DEF CreateNodeRuns, At, RunInv, RowsFit, MemoryFits, NodeRunStored
<1>2. /\ job'[r].pc = "fetch" /\ job'[r].idx = 0 /\ ~job'[r].failed
      /\ job'[r].plan = job[r].plan /\ job'[r].def = job[r].def
      /\ run' = run /\ workflow' = workflow
  BY <1>1 DEF CreateNodeRuns, Goto, TypeOK, Job, defs
<1>3. /\ \A n \in Node : nodeRun'[r][n] = IF n \in Planned(r) THEN "pending" ELSE "none"
      /\ \A n \in Planned(r) : RunStored(r)
  BY <1>1 DEF CreateNodeRuns, TypeOK
<1>4. \A i \in DOMAIN job[r].plan : i \in Nat \ {0} /\ job[r].plan[i] \in Planned(r) \cap Node
  BY DEF Planned, TypeOK, Job
<1>5. RowsFit(r)'
  BY <1>1, <1>2, <1>3 DEF RunInv, RowsFit, RunStored, NodeRunStored
<1>6. MemoryFits(r)'
  BY <1>2 DEF RunInv, MemoryFits, At, Starting
<1>7. LoopFits(r)'
  BY <1>2, <1>3, <1>4 DEF LoopFits, At
<1>8. NoneLeftBehind(r)'
  BY <1>2, <1>3, <1>4 DEF NoneLeftBehind, At, NodeRunStored
<1> QED
  BY <1>5, <1>6, <1>7, <1>8 DEF RunInv

\* What the batch reads back is every planned node that is still stored.
LEMMA FetchNodeRunsInv ==
    ASSUME TypeOK, NEW r \in Run, RunInv(r), FetchNodeRuns(r)
    PROVE  RunInv(r)'
<1>1. job[r].pc = "fetch" /\ job[r].idx = 0
  BY DEF FetchNodeRuns, At, RunInv, MemoryFits
<1>2. /\ job'[r].pc = "loop" /\ job'[r].idx = 0 /\ job'[r].failed = job[r].failed
      /\ job'[r].plan = job[r].plan /\ job'[r].def = job[r].def
      /\ job'[r].mapped = {n \in Planned(r) : NodeRunStored(r, n)}
  BY <1>1 DEF FetchNodeRuns, TypeOK, Job
<1>3. run' = run /\ nodeRun' = nodeRun /\ workflow' = workflow
  BY DEF FetchNodeRuns, defs, rows
<1>4. RowsFit(r)'
  BY <1>1, <1>2, <1>3 DEF RunInv, RowsFit, RunStored, NodeRunStored
<1>5. MemoryFits(r)'
  BY <1>2 DEF RunInv, MemoryFits, At, Starting
<1>6. LoopFits(r)'
  BY <1>1, <1>2, <1>3 DEF RunInv, LoopFits, At
<1>7. NoneLeftBehind(r)'
  <2>1. \A i \in DOMAIN job[r].plan : i \in Nat \ {0} /\ job[r].plan[i] \in Planned(r)
    BY DEF Planned, TypeOK, Job
  <2> QED
    BY <1>1, <1>2, <1>3, <2>1
    DEF RunInv, NoneLeftBehind, RunStored, NodeStored, NodeRunStored, At
<1> QED
  BY <1>4, <1>5, <1>6, <1>7 DEF RunInv

\* The node the loop passes over has no row, or is not of the workflow.
LEMMA PassOverInv ==
    ASSUME TypeOK, NEW r \in Run, RunInv(r), PassOver(r)
    PROVE  RunInv(r)'
<1>1. /\ job[r].pc = "loop" /\ ~AtEnd(r)
      /\ Current(r) \notin job[r].def.nodes \cap job[r].mapped
  BY DEF PassOver, At
<1>2. /\ job'[r].pc = "loop" /\ job'[r].idx = job[r].idx + 1
      /\ job'[r].failed = job[r].failed /\ job'[r].mapped = job[r].mapped
      /\ job'[r].plan = job[r].plan /\ job'[r].def = job[r].def
  BY <1>1 DEF PassOver, Past, TypeOK, Job
<1>3. run' = run /\ nodeRun' = nodeRun /\ workflow' = workflow
  BY DEF PassOver, defs, rows
<1>4. /\ job[r].idx \in Nat /\ DOMAIN job[r].plan \subseteq Nat
      /\ Current(r) = job[r].plan[job[r].idx + 1]
  BY DEF TypeOK, Job, Current
<1>5. RowsFit(r)'
  BY <1>1, <1>2, <1>3 DEF RunInv, RowsFit, RunStored, NodeRunStored
<1>6. MemoryFits(r)'
  BY <1>2 DEF RunInv, MemoryFits, At, Starting
<1>7. LoopFits(r)'
  <2>1. ASSUME NEW i \in DOMAIN job[r].plan, i >= job[r].idx + 2
        PROVE  nodeRun[r][job[r].plan[i]] \in {"none", "pending"}
    <3>1. i > job[r].idx + 1
      BY <1>4, <2>1
    <3> QED
      BY <1>1, <3>1 DEF RunInv, LoopFits, At
  <2>2. ASSUME NEW i \in DOMAIN job'[r].plan,
               i > job'[r].idx + 1 \/ i = job'[r].idx + 1
        PROVE  nodeRun'[r][job'[r].plan[i]] \in {"none", "pending"}
    <3>1. i \in Nat /\ i >= job[r].idx + 2
      BY <1>2, <1>4, <2>2
    <3> QED
      BY <1>2, <1>3, <2>1, <3>1
  <2>3. /\ \A n \in Node : nodeRun'[r][n] # "running"
        /\ \A n \in Node : nodeRun'[r][n] = "failed" => job'[r].failed
    BY <1>1, <1>2, <1>3 DEF RunInv, LoopFits, At
  <2> QED
    BY <1>2, <2>2, <2>3 DEF LoopFits, At
<1>8. NoneLeftBehind(r)'
  <2> SUFFICES ASSUME RunStored(r), NEW i \in DOMAIN job[r].plan,
                      job[r].plan[i] \in job[r].def.nodes, NodeStored(job[r].plan[i])
               PROVE  /\ nodeRun[r][job[r].plan[i]] # "none"
                      /\ job[r].plan[i] \in job[r].mapped
                      /\ i <= job[r].idx + 1 =>
                           nodeRun[r][job[r].plan[i]] \in {"completed", "skipped", "failed"}
    BY <1>2, <1>3 DEF NoneLeftBehind, RunStored, NodeStored, NodeRunStored, At
  <2>1. /\ nodeRun[r][job[r].plan[i]] # "none"
        /\ job[r].plan[i] \in job[r].mapped
        /\ i <= job[r].idx =>
              nodeRun[r][job[r].plan[i]] \in {"completed", "skipped", "failed"}
    BY <1>1 DEF RunInv, NoneLeftBehind, NodeRunStored, At
  <2>2. i # job[r].idx + 1
    BY <1>1, <1>4, <2>1
  <2>3. i \in Nat /\ (i <= job[r].idx + 1 => i <= job[r].idx)
    BY <1>4, <2>2
  <2> QED
    BY <2>1, <2>3
<1> QED
  BY <1>5, <1>6, <1>7, <1>8 DEF RunInv

\* The node the loop starts becomes the only one that runs.
LEMMA StartNodeInv ==
    ASSUME TypeOK, NEW r \in Run, RunInv(r), StartNode(r)
    PROVE  RunInv(r)'
<1>1. /\ job[r].pc = "loop" /\ ~AtEnd(r) /\ ~job[r].failed
      /\ NodeRunStored(r, Current(r))
  BY DEF StartNode, AtNode, At
<1>2. /\ job'[r].pc = "exec" /\ job'[r].idx = job[r].idx
      /\ job'[r].failed = job[r].failed /\ job'[r].mapped = job[r].mapped
      /\ job'[r].plan = job[r].plan /\ job'[r].def = job[r].def
  BY <1>1 DEF StartNode, Goto, TypeOK, Job
<1>3. run' = run /\ workflow' = workflow
  BY DEF StartNode, defs
<1>4. /\ job[r].idx \in Nat /\ DOMAIN job[r].plan \subseteq Nat
      /\ job[r].idx + 1 \in DOMAIN job[r].plan
      /\ \A i \in DOMAIN job[r].plan : job[r].plan[i] \in Node
      /\ Current(r) = job[r].plan[job[r].idx + 1] /\ Current(r) \in Node
  BY <1>1, CurrentTypes DEF TypeOK, Job, Current, AtEnd
<1>5. \A n \in Node : nodeRun'[r][n] = IF n = Current(r) THEN "running" ELSE nodeRun[r][n]
  BY <1>4 DEF StartNode, SetNodeRun, TypeOK
<1>6. Current(r)' = Current(r)
  BY <1>2 DEF Current
<1>7. RowsFit(r)'
  BY <1>1, <1>2, <1>3, <1>4, <1>5 DEF RunInv, RowsFit, RunStored, NodeRunStored
<1>8. MemoryFits(r)'
  BY <1>1, <1>2 DEF RunInv, MemoryFits, At, AtEnd, Starting
<1>9. LoopFits(r)'
  <2>1. /\ \A n \in Node : nodeRun'[r][n] = "running" => n = Current(r)'
        /\ \A n \in Node : nodeRun'[r][n] = "failed" => job'[r].failed
        /\ nodeRun'[r][Current(r)'] = "running"
    BY <1>1, <1>2, <1>4, <1>5, <1>6 DEF RunInv, LoopFits, At
  <2>2. ASSUME NEW i \in DOMAIN job[r].plan, i > job[r].idx + 1
        PROVE  nodeRun'[r][job[r].plan[i]] \in {"none", "pending"}
    <3>1. job[r].plan[i] # Current(r)
      BY <1>4, <2>2 DEF RunInv, MemoryFits
    <3>2. nodeRun[r][job[r].plan[i]] \in {"none", "pending"}
      BY <1>1, <2>2 DEF RunInv, LoopFits
    <3> QED
      BY <1>4, <1>5, <3>1, <3>2
  <2> QED
    BY <1>2, <2>1, <2>2 DEF LoopFits, At
<1>10. NoneLeftBehind(r)'
  <2> SUFFICES ASSUME RunStored(r), NEW i \in DOMAIN job[r].plan,
                      job[r].plan[i] \in job[r].def.nodes, NodeStored(job[r].plan[i])
               PROVE  /\ nodeRun'[r][job[r].plan[i]] # "none"
                      /\ job[r].plan[i] \in job[r].mapped
                      /\ i <= job[r].idx =>
                           nodeRun'[r][job[r].plan[i]] \in {"completed", "skipped", "failed"}
    BY <1>2, <1>3 DEF NoneLeftBehind, RunStored, NodeStored, NodeRunStored, At
  <2>1. /\ nodeRun[r][job[r].plan[i]] # "none"
        /\ job[r].plan[i] \in job[r].mapped
        /\ i <= job[r].idx =>
              nodeRun[r][job[r].plan[i]] \in {"completed", "skipped", "failed"}
    BY <1>1 DEF RunInv, NoneLeftBehind, NodeRunStored, At
  <2>2. i <= job[r].idx => job[r].plan[i] # Current(r)
    BY <1>4 DEF RunInv, MemoryFits
  <2> QED
    BY <1>4, <1>5, <2>1, <2>2
<1> QED
  BY <1>7, <1>8, <1>9, <1>10 DEF RunInv

\* A step of executeNodes keeps memory and rows in step.
LEMMA ExecuteInv ==
    ASSUME TypeOK, NEW r \in Run, RunInv(r), Execute(r)
    PROVE  RunInv(r)'
<1>1. CASE FinishRun(r)
  <2>1. job'[r].pc = "report" /\ job'[r].plan = job[r].plan /\ nodeRun' = nodeRun
    BY <1>1 DEF FinishRun, Goto, TypeOK, Job
  <2>2. RunStored(r) /\ run'[r].status # "none"
    BY <1>1 DEF FinishRun, TypeOK
  <2> QED
    BY <2>1, <2>2, EndedInv
<1>2. CASE Report(r) \/ Abort(r)
  <2>1. job'[r].pc \in Settled /\ job'[r].plan = job[r].plan
    BY <1>2 DEF Report, Abort, Die, Goto, TypeOK, Job, Settled
  <2>2. run' = run /\ nodeRun' = nodeRun
    BY <1>2 DEF Report, Abort, Die, rows
  <2> QED
    BY <2>1, <2>2, EndedInv
<1> QED
  BY <1>1, <1>2, SkipInv, EndNodeInv, CreateNodeRunsInv, FetchNodeRunsInv,
     PassOverInv, StartNodeInv DEF Execute

\* Admitting, refusing or breaking off a call keeps memory and rows in step.
LEMMA CallInv ==
    ASSUME TypeOK, NEW r \in Run, RunInv(r), Call(r) \/ Break(r)
    PROVE  RunInv(r)'
<1>1. nodeRun' = nodeRun /\ run' = run /\ job[r] \in Job
  BY DEF TypeOK, Call, Break, Refuse, Admit, Fault, Die, FaultAtStart, rows
<1>2. CASE Admit(r)
  <2>1. /\ job[r].pc = "idle" /\ job'[r].pc = "load"
        /\ job'[r].plan = job[r].plan /\ job'[r].failed = job[r].failed
    BY <1>2 DEF Admit, At, Goto, TypeOK, Job
  <2>2. run'[r] = NoRow /\ ~job'[r].failed /\ \A m \in Node : nodeRun'[r][m] = "none"
    BY <1>1, <2>1 DEF RunInv, RowsFit, MemoryFits, RunStored, NodeRunStored
  <2>3. IsInjectivePlan(job'[r].plan)
    BY <2>1 DEF IsInjectivePlan, RunInv, MemoryFits
  <2> QED
    BY <2>1, <2>2, <2>3, EarlyInv
<1>3. CASE Refuse(r) \/ Fault(r) \/ FaultAtStart(r)
  <2>1. job'[r].pc \in Settled /\ job'[r].plan = job[r].plan
    BY <1>1, <1>3 DEF Refuse, Fault, FaultAtStart, Die, Goto, TypeOK, Job, Settled
  <2> QED
    BY <1>1, <2>1, EndedInv
<1> QED
  BY <1>2, <1>3 DEF Call, Break

\* The node rows that go with an edit or a deletion are those of nodes or
\* runs that go too.
LEMMA DroppedRowsInv ==
    ASSUME TypeOK, NEW r \in Run, RunInv(r), job'[r] = job[r],
           run'[r] \in {run[r], NoRow},
           \A n \in Node : nodeRun'[r][n] \in {nodeRun[r][n], "none"},
           run'[r] = NoRow => \A n \in Node : nodeRun'[r][n] = "none",
           \A n \in job[r].def.nodes :
              NodeStored(n)' /\ run'[r] # NoRow =>
                  NodeStored(n) /\ nodeRun'[r][n] = nodeRun[r][n]
    PROVE  RunInv(r)'
<1> USE DEF At, RunStored, NodeRunStored
<1>1. RowsFit(r)'
  BY DEF RunInv, RowsFit, NoRow
<1>2. MemoryFits(r)'
  BY DEF RunInv, MemoryFits, AtEnd
<1>3. LoopFits(r)'
  <2> SUFFICES ASSUME job[r].pc \in {"fetch", "loop", "exec"}
               PROVE  LoopFits(r)'
    BY DEF LoopFits
  <2>1. /\ \A n \in Node : nodeRun[r][n] = "running" => At(r, "exec") /\ n = Current(r)
        /\ \A n \in Node : nodeRun[r][n] = "failed" => job[r].failed
        /\ \A i \in DOMAIN job[r].plan :
              i > job[r].idx + 1 \/ (i = job[r].idx + 1 /\ ~At(r, "exec"))
                  => nodeRun[r][job[r].plan[i]] \in {"none", "pending"}
        /\ At(r, "exec") => nodeRun[r][Current(r)] \in {"none", "running"}
    BY DEF RunInv, LoopFits
  <2>2. Current(r)' = Current(r)
    BY DEF Current
  <2>3. \A i \in DOMAIN job[r].plan : job[r].plan[i] \in Node
    BY DEF TypeOK, Job
  <2>4. At(r, "exec") => nodeRun'[r][Current(r)] \in {"none", "running"}
    BY <2>1, CurrentTypes DEF RunInv, MemoryFits
  <2>5. \A i \in DOMAIN job[r].plan :
           i > job[r].idx + 1 \/ (i = job[r].idx + 1 /\ ~At(r, "exec"))
               => nodeRun'[r][job[r].plan[i]] \in {"none", "pending"}
    <3> SUFFICES ASSUME NEW i \in DOMAIN job[r].plan,
                        nodeRun[r][job[r].plan[i]] \in {"none", "pending"}
                 PROVE  nodeRun'[r][job[r].plan[i]] \in {"none", "pending"}
      BY <2>1
    <3> QED
      BY <2>3
  <2>6. /\ \A n \in Node : nodeRun'[r][n] = "running" => At(r, "exec") /\ n = Current(r)
        /\ \A n \in Node : nodeRun'[r][n] = "failed" => job[r].failed
    BY <2>1
  <2> QED
    BY <2>2, <2>4, <2>5, <2>6 DEF LoopFits
<1>4. NoneLeftBehind(r)'
  BY DEF RunInv, NoneLeftBehind, NoRow
<1> QED
  BY <1>1, <1>2, <1>3, <1>4 DEF RunInv
\* What an edit or a deletion drops: the rows of deleted nodes and of deleted
\* runs, and of no node that a call loaded and that is still stored.
LEMMA EditKeepsRows ==
    ASSUME TypeOK, DefinitionsApart, NEW w \in Workflow, Edit(w),
           NEW r \in Run, RowsFit(r)
    PROVE  /\ job' = job
           /\ run'[r] \in {run[r], NoRow}
           /\ \A n \in Node : nodeRun'[r][n] \in {nodeRun[r][n], "none"}
           /\ run'[r] = NoRow => \A n \in Node : nodeRun'[r][n] = "none"
           /\ \A n \in job[r].def.nodes :
                 NodeStored(n)' /\ run'[r] # NoRow =>
                     NodeStored(n) /\ nodeRun'[r][n] = nodeRun[r][n]
<1>1. job[r].def.nodes \subseteq born /\ job[r].def.nodes \subseteq Node
  BY DEF DefinitionsApart, TypeOK, Job, Definition
<1>2. WorkflowStored(w) /\ job' = job
  BY DEF Edit, SaveWorkflow, DeleteWorkflow
<1>3. run[r] = NoRow => \A n \in Node : nodeRun[r][n] = "none"
  BY DEF RowsFit, RunStored, NodeRunStored, NoRow
<1>4. \A v \in Workflow : WorkflowStored(v) /\ v # w =>
         workflow[v].nodes \cap workflow[w].nodes = {}
  BY <1>2 DEF DefinitionsApart
<1>5. CASE DeleteWorkflow(w)
  <2>1. run'[r] = IF run[r].wf = w THEN NoRow ELSE run[r]
    BY <1>5 DEF DeleteWorkflow
  <2>2. \A n \in Node : nodeRun'[r][n] = IF run[r].wf = w \/ n \in workflow[w].nodes
                                         THEN "none" ELSE nodeRun[r][n]
    BY <1>5 DEF DeleteWorkflow
  <2>3. ASSUME NEW n \in job[r].def.nodes, NodeStored(n)', run'[r] # NoRow
        PROVE  NodeStored(n) /\ nodeRun'[r][n] = nodeRun[r][n]
    <3>1. PICK v \in Workflow : workflow'[v] # Deleted /\ n \in workflow'[v].nodes
      BY <2>3 DEF NodeStored
    <3>2. v # w /\ workflow'[v] = workflow[v]
      BY <1>5, <3>1 DEF DeleteWorkflow, TypeOK
    <3>3. n \notin workflow[w].nodes
      BY <1>4, <3>1, <3>2 DEF WorkflowStored
    <3> QED
      BY <1>1, <2>1, <2>2, <2>3, <3>1, <3>2, <3>3 DEF NodeStored
  <2> QED
    BY <1>2, <1>3, <2>1, <2>2, <2>3
<1>6. ASSUME NEW d \in Edits[w], SaveWorkflow(w, d)
      PROVE  /\ run'[r] = run[r]
             /\ \A n \in Node : nodeRun'[r][n] \in {nodeRun[r][n], "none"}
             /\ \A n \in job[r].def.nodes :
                   NodeStored(n)' => NodeStored(n) /\ nodeRun'[r][n] = nodeRun[r][n]
  <2>1. run'[r] = run[r] /\ (d.nodes \ workflow[w].nodes) \cap born = {}
    BY <1>6 DEF SaveWorkflow
  <2>2. \A n \in Node : nodeRun'[r][n] = IF n \in workflow[w].nodes \ d.nodes
                                         THEN "none" ELSE nodeRun[r][n]
    BY <1>6 DEF SaveWorkflow
  <2>3. ASSUME NEW n \in job[r].def.nodes, NodeStored(n)'
        PROVE  NodeStored(n) /\ nodeRun'[r][n] = nodeRun[r][n]
    <3>1. PICK v \in Workflow : workflow'[v] # Deleted /\ n \in workflow'[v].nodes
      BY <2>3 DEF NodeStored
    <3>2. CASE v = w
      <4>1. n \in d.nodes
        BY <1>6, <3>1, <3>2 DEF SaveWorkflow, TypeOK
      <4>2. n \in workflow[w].nodes
        BY <1>1, <2>1, <4>1
      <4> QED
        BY <1>1, <1>2, <2>2, <4>1, <4>2 DEF NodeStored, WorkflowStored
    <3>3. CASE v # w
      <4>1. workflow'[v] = workflow[v]
        BY <1>6, <3>3 DEF SaveWorkflow, TypeOK
      <4>2. n \notin workflow[w].nodes
        BY <1>4, <3>1, <3>3, <4>1 DEF WorkflowStored
      <4> QED
        BY <1>1, <2>2, <3>1, <4>1, <4>2 DEF NodeStored
    <3> QED
      BY <3>2, <3>3
  <2> QED
    BY <2>1, <2>2, <2>3
<1> QED
  BY <1>2, <1>3, <1>5, <1>6 DEF Edit

\* An edit, or a deletion, leaves every call's memory in step with its rows.
LEMMA EditInv ==
    ASSUME TypeOK, DefinitionsApart, NEW w \in Workflow, Edit(w),
           NEW r \in Run, RunInv(r)
    PROVE  RunInv(r)'
<1>1. RowsFit(r)
  BY DEF RunInv
<1> QED
  BY <1>1, EditKeepsRows, DroppedRowsInv

\* A restart ends the calls that are under way and writes no row.
LEMMA RestartInv ==
    ASSUME TypeOK, Restart, NEW r \in Run, RunInv(r)
    PROVE  RunInv(r)'
<1>1. run' = run /\ nodeRun' = nodeRun /\ workflow' = workflow
  BY DEF Restart, rows, defs
<1>2. job'[r] = IF IsLive(r) THEN [job[r] EXCEPT !.pc = "lost"] ELSE job[r]
  BY DEF Restart
<1>3. CASE IsLive(r)
  <2>1. job'[r].pc = "lost" /\ job'[r].plan = job[r].plan
    BY <1>2, <1>3 DEF TypeOK, Job
  <2> QED
    BY <1>1, <2>1, EndedInv DEF Settled
<1>4. CASE ~IsLive(r)
  BY <1>1, <1>2, <1>4, RunInvFrame
<1> QED
  BY <1>3, <1>4

\* A call that starts keeps its definition, or loads the stored one.
LEMMA StartLoads ==
    ASSUME TypeOK, NEW r \in Run, Start(r)
    PROVE  job'[r].def = job[r].def \/ (WorkflowStored(Wf(r)) /\ job'[r].def = workflow[Wf(r)])
<1> USE DEF TypeOK, Goto, Launch, InsertRun
<1>0. job[r] \in Job
  OBVIOUS
<1>1. CASE StartWorkflow(r) \/ StartMock(r) \/ StartCascade(r)
  <2>1. PICK plan, outs : Launch(r, plan, outs)
    BY <1>1 DEF StartWorkflow, StartMock, StartCascade
  <2> QED
    BY <1>0, <2>1 DEF Job
<1>2. CASE BeginHistory(r)
  <2>1. PICK plan : job' = [job EXCEPT ![r] = [@ EXCEPT !.pc = "history", !.plan = plan]]
    BY <1>2 DEF BeginHistory
  <2> QED
    BY <1>0, <2>1 DEF Job
<1>3. CASE FindOutput(r) \/ MissOutput(r) \/ RejectHistory(r) \/ StartHistory(r)
  <2>1. CASE FindOutput(r)
    BY <1>0, <2>1 DEF FindOutput, Job
  <2>2. CASE MissOutput(r) \/ RejectHistory(r)
    BY <1>0, <2>2 DEF MissOutput, RejectHistory, Job
  <2>3. CASE StartHistory(r)
    BY <1>0, <2>3 DEF StartHistory, Job
  <2> QED
    BY <1>3, <2>1, <2>2, <2>3
<1>4. CASE ReadFailedRun(r)
  <2>1. PICK plan, outs :
          job' = [job EXCEPT ![r] = [@ EXCEPT !.pc = "create", !.plan = plan, !.outs = outs]]
    BY <1>4 DEF ReadFailedRun
  <2> QED
    BY <1>0, <2>1 DEF Job
<1>5. CASE RefuseRetry(r) \/ StartRetry(r)
  BY <1>0, <1>5 DEF RefuseRetry, StartRetry, Job
<1>6. CASE WorkflowNotFound(r) \/ LoadWorkflow(r) \/ InsertRunFails(r)
  BY <1>0, <1>6 DEF WorkflowNotFound, LoadWorkflow, InsertRunFails, Job
<1> QED
  BY <1>1, <1>2, <1>3, <1>4, <1>5, <1>6 DEF Start

\* The nodes of stored definitions, and of those a call loaded, stay apart.
LEMMA DefinitionsStayApart ==
    ASSUME TypeOK, DefinitionsApart, Next
    PROVE  DefinitionsApart'
<1>1. ASSUME NEW r \in Run, Call(r) \/ Execute(r) \/ Break(r)
      PROVE  DefinitionsApart'
  <2>1. workflow' = workflow /\ born' = born /\ \A s \in Run : job'[s].def = job[s].def
    <3>1. CASE Execute(r)
      BY <3>1, ExecuteFrame
    <3>2. CASE Call(r) \/ Break(r)
      BY <3>2, CallFrame
    <3> QED
      BY <1>1, <3>1, <3>2
  <2> QED
    BY <2>1 DEF DefinitionsApart, WorkflowStored
<1>2. ASSUME NEW r \in Run, Start(r)
      PROVE  DefinitionsApart'
  <2>1. workflow' = workflow /\ born' = born /\ \A s \in Run \ {r} : job'[s] = job[s]
    BY <1>2, StartFrame
  <2>2. job'[r].def = job[r].def \/ (WorkflowStored(Wf(r)) /\ job'[r].def = workflow[Wf(r)])
    BY <1>2, StartLoads
  <2>3. Wf(r) \in Workflow
    BY RequestTypes
  <2> QED
    BY <2>1, <2>2, <2>3 DEF DefinitionsApart, WorkflowStored
<1>3. ASSUME NEW w \in Workflow, DeleteWorkflow(w)
      PROVE  DefinitionsApart'
  BY <1>3 DEF DeleteWorkflow, DefinitionsApart, WorkflowStored, TypeOK
<1>4. ASSUME NEW w \in Workflow, NEW d \in Edits[w], SaveWorkflow(w, d)
      PROVE  DefinitionsApart'
  <2>1. /\ WorkflowStored(w) /\ (d.nodes \ workflow[w].nodes) \cap born = {}
        /\ born' = born \cup d.nodes /\ job' = job
        /\ workflow'[w] = d /\ \A v \in Workflow \ {w} : workflow'[v] = workflow[v]
    BY <1>4 DEF SaveWorkflow, TypeOK
  <2>2. \A v \in Workflow \ {w} : WorkflowStored(v) => workflow[v].nodes \cap d.nodes = {}
    BY <2>1 DEF DefinitionsApart
  <2> QED
    BY <2>1, <2>2 DEF DefinitionsApart, WorkflowStored
<1>5. CASE Restart
  <2>1. workflow' = workflow /\ born' = born /\ \A s \in Run : job'[s].def = job[s].def
    BY <1>5 DEF Restart, defs, TypeOK, Job
  <2> QED
    BY <2>1 DEF DefinitionsApart, WorkflowStored
<1> QED
  BY <1>1, <1>2, <1>3, <1>4, <1>5 DEF Next, Advance, Edit

----------------------------------------------------------------------------
(* The inductive invariant. *)

\* TypeOK alone is not inductive: that the current node of an executing call
\* exists is in EngineInv.
IInv == TypeOK /\ EngineInv

\* A step keeps the types.
LEMMA NextTypes ==
    ASSUME IInv, [Next]_vars
    PROVE  TypeOK'
<1> USE DEF IInv
<1>1. ExecHasNode
  BY DEF EngineInv, MemoryFits, ExecHasNode
<1>2. ASSUME NEW r \in Run, Call(r) \/ Advance(r) \/ Break(r) PROVE TypeOK'
  BY <1>1, <1>2, CallTypes, StartTypes, ExecuteTypes DEF Advance
<1>3. ASSUME NEW w \in Workflow, Edit(w) PROVE TypeOK'
  BY <1>3, EditTypes
<1>4. CASE UNCHANGED vars
  BY <1>4 DEF vars, TypeOK
<1> QED
  BY <1>2, <1>3, <1>4, RestartTypes DEF Next

\* A step of any call keeps memory and rows in step.
LEMMA NextInv ==
    ASSUME IInv, [Next]_vars
    PROVE  EngineInv'
<1> USE DEF IInv
<1>1. DefinitionsApart /\ \A r \in Run : RunInv(r)
  BY RunInvIsEngineInv
<1>2. DefinitionsApart'
  <2>1. CASE UNCHANGED vars
    BY <1>1, <2>1 DEF vars, DefinitionsApart, WorkflowStored
  <2> QED
    BY <1>1, <2>1, DefinitionsStayApart
<1>3. ASSUME NEW s \in Run PROVE RunInv(s)'
  <2>1. ASSUME NEW r \in Run, Start(r) PROVE RunInv(s)'
    <3>1. CASE s = r
      BY <1>1, <2>1, <3>1, StartInv
    <3>2. CASE s # r
      BY <1>1, <2>1, <3>2, StartFrame, RunInvFrame
    <3> QED
      BY <3>1, <3>2
  <2>2. ASSUME NEW r \in Run, Execute(r) PROVE RunInv(s)'
    <3>1. CASE s = r
      BY <1>1, <2>2, <3>1, ExecuteInv
    <3>2. CASE s # r
      BY <1>1, <2>2, <3>2, ExecuteFrame, RunInvFrame
    <3> QED
      BY <3>1, <3>2
  <2>3. ASSUME NEW r \in Run, Call(r) \/ Break(r) PROVE RunInv(s)'
    <3>1. CASE s = r
      BY <1>1, <2>3, <3>1, CallInv
    <3>2. CASE s # r
      BY <1>1, <2>3, <3>2, CallFrame, RunInvFrame
    <3> QED
      BY <3>1, <3>2
  <2>4. ASSUME NEW w \in Workflow, Edit(w) PROVE RunInv(s)'
    BY <1>1, <2>4, EditInv
  <2>5. CASE Restart
    BY <1>1, <2>5, RestartInv
  <2>6. CASE UNCHANGED vars
    BY <1>1, <2>6, RunInvFrame DEF vars
  <2> QED
    BY <2>1, <2>2, <2>3, <2>4, <2>5, <2>6 DEF Next, Advance
<1> QED
  BY <1>2, <1>3 DEF EngineInv, RunInv

\* IInv holds of every behaviour.
LEMMA Invariant == Spec => []IInv
<1>1. Init => IInv
  BY InitTypes, InitInv DEF IInv
<1>2. IInv /\ [Next]_vars => IInv'
  BY NextTypes, NextInv DEF IInv
<1> QED
  BY <1>1, <1>2, PTL DEF Spec

\* Whatever the workflows, requests, edits, faults and restarts, every
\* variable keeps its type.
THEOREM TypesAreCorrect == Spec => []TypeOK
BY Invariant, PTL DEF IInv

\* At every await of every call its memory agrees with its rows, though the
\* engine uses no transaction and definitions are edited and deleted under it.
THEOREM MemoryAgreesWithRows == Spec => []EngineInv
BY Invariant, PTL DEF IInv

----------------------------------------------------------------------------
(* The lock. *)

\* Only executeNode, which locks, ever looks up the history.
LockInv ==
    /\ NoOrphanLock
    /\ \A r \in Run : At(r, "history") => UsesLock(r)

\* The three things a step of a call may do about the lock: nothing while it
\* is not executing, take it and execute, or give it back.
LEMMA LockStep ==
    ASSUME NoOrphanLock, NEW r \in Run, request' = request,
           \A s \in Run \ {r} : job'[s] = job[s],
           \/ ~IsExecuting(r) /\ activeExecutions' = activeExecutions
           \/ /\ IsExecuting(r)'
              /\ \/ activeExecutions' = activeExecutions
                 \/ UsesLock(r) /\ Lock(r)
           \/ Unlock(r)
    PROVE  NoOrphanLock'
<1> SUFFICES ASSUME NEW w \in activeExecutions'
             PROVE  \E s \in Run : IsExecuting(s)' /\ UsesLock(s)' /\ Wf(s)' = w
  BY DEF NoOrphanLock
<1>1. \A s \in Run : UsesLock(s)' = UsesLock(s) /\ Wf(s)' = Wf(s)
  BY DEF UsesLock, Kind, Wf
<1>2. CASE w \in activeExecutions
  <2>1. PICK s \in Run : IsExecuting(s) /\ UsesLock(s) /\ Wf(s) = w
    BY <1>2 DEF NoOrphanLock
  <2>2. s # r => IsExecuting(s)'
    BY <2>1 DEF IsExecuting
  <2>3. s = r => IsExecuting(r)'
    BY <2>1 DEF Unlock
  <2> QED
    BY <1>1, <2>1, <2>2, <2>3
<1>3. CASE w \notin activeExecutions
  BY <1>1, <1>3 DEF Lock, Unlock
<1> QED
  BY <1>2, <1>3

\* A step that starts a run.
LEMMA StartLocks ==
    ASSUME TypeOK, LockInv, NEW r \in Run, Start(r)
    PROVE  LockInv'
<1> USE DEF defs, rows
<1>1. /\ request' = request /\ \A s \in Run \ {r} : job'[s] = job[s]
      /\ job[r] \in Job /\ \A s \in Run : UsesLock(s)' = UsesLock(s)
  BY StartFrame DEF TypeOK, UsesLock, Kind
<1>2. CASE StartWorkflow(r) \/ StartMock(r) \/ StartCascade(r) \/ StartHistory(r)
  <2>1. UsesLock(r) /\ Lock(r)
    BY <1>2 DEF StartWorkflow, StartMock, StartCascade, StartHistory, LockInv, UsesLock
  <2>2. PICK plan, outs : Launch(r, plan, outs)
    BY <1>2 DEF StartWorkflow, StartMock, StartCascade, StartHistory
  <2>3. job'[r].pc = "prepare"
    BY <1>1, <2>2 DEF Launch, TypeOK, Job
  <2> QED
    BY <1>1, <2>1, <2>3, LockStep DEF LockInv, IsExecuting, Executing, At
<1>3. CASE StartRetry(r)
  <2>1. job'[r].pc = "prepare"
    BY <1>1, <1>3 DEF StartRetry, Launch, TypeOK, Job
  <2> QED
    BY <1>1, <1>3, <2>1, LockStep DEF StartRetry, LockInv, IsExecuting, Executing, At
<1>4. CASE \/ BeginHistory(r) \/ FindOutput(r) \/ MissOutput(r) \/ RejectHistory(r)
           \/ RefuseRetry(r) \/ ReadFailedRun(r)
           \/ WorkflowNotFound(r) \/ LoadWorkflow(r) \/ InsertRunFails(r)
  <2>1. activeExecutions' = activeExecutions /\ ~IsExecuting(r)
    BY <1>4
    DEF BeginHistory, FindOutput, MissOutput, RejectHistory, RefuseRetry, ReadFailedRun,
        WorkflowNotFound, LoadWorkflow, InsertRunFails, InsertRun, At, IsExecuting, Executing
  <2>2. At(r, "history")' => UsesLock(r)
    <3> USE <1>1 DEF At, Goto, TypeOK, Job
    <3>1. CASE BeginHistory(r)
      BY <3>1 DEF BeginHistory, UsesLock
    <3>2. CASE FindOutput(r)
      BY <3>2 DEF FindOutput, LockInv
    <3>3. CASE MissOutput(r) \/ RejectHistory(r) \/ RefuseRetry(r)
      BY <3>3 DEF MissOutput, RejectHistory, RefuseRetry
    <3>4. CASE ReadFailedRun(r)
      <4>1. PICK plan, outs :
              job' = [job EXCEPT ![r] = [@ EXCEPT !.pc = "create", !.plan = plan, !.outs = outs]]
        BY <3>4 DEF ReadFailedRun
      <4> QED
        BY <4>1
    <3>5. CASE WorkflowNotFound(r) \/ LoadWorkflow(r) \/ InsertRunFails(r)
      BY <3>5 DEF WorkflowNotFound, LoadWorkflow, InsertRunFails
    <3> QED
      BY <1>4, <3>1, <3>2, <3>3, <3>4, <3>5
  <2> QED
    BY <1>1, <2>1, <2>2, LockStep DEF LockInv, At
<1> QED
  BY <1>2, <1>3, <1>4 DEF Start

\* A step of executeNodes.
LEMMA ExecuteLocks ==
    ASSUME TypeOK, LockInv, NEW r \in Run, Execute(r)
    PROVE  LockInv'
<1> USE DEF defs, rows
<1>1. /\ request' = request /\ \A s \in Run \ {r} : job'[s] = job[s]
      /\ job[r] \in Job /\ \A s \in Run : UsesLock(s)' = UsesLock(s)
  BY ExecuteFrame DEF TypeOK, UsesLock, Kind
<1>2. CASE Report(r) \/ Abort(r)
  <2>1. Unlock(r) /\ job'[r].pc # "history"
    BY <1>1, <1>2 DEF Report, Abort, Die, Goto, TypeOK, Job
  <2> QED
    BY <1>1, <2>1, LockStep DEF LockInv, At
<1>3. CASE \/ CreateNodeRuns(r) \/ FetchNodeRuns(r)
           \/ PassOver(r) \/ SkipBlocked(r) \/ SkipAfterFailure(r)
           \/ StartNode(r) \/ CompleteNode(r) \/ FailNode(r) \/ FailToStore(r)
           \/ FinishRun(r)
  <2>1. activeExecutions' = activeExecutions
    BY <1>3
    DEF CreateNodeRuns, FetchNodeRuns, PassOver, SkipBlocked, SkipAfterFailure,
        StartNode, CompleteNode, FailNode, FailToStore, FinishRun
  <2>2. job'[r].pc \in Executing
    <3>1. job[r] \in Job /\ job \in [Run -> Job]
      BY DEF TypeOK
    <3> USE <3>1 DEF Goto, Job, Executing, At
    <3>2. CASE CreateNodeRuns(r) \/ StartNode(r) \/ FinishRun(r)
      BY <3>2 DEF CreateNodeRuns, StartNode, FinishRun
    <3>3. CASE FetchNodeRuns(r)
      BY <3>3 DEF FetchNodeRuns
    <3>4. CASE PassOver(r) \/ SkipAfterFailure(r)
      BY <3>4 DEF PassOver, SkipAfterFailure, AtNode
    <3>5. CASE SkipBlocked(r)
      BY <3>5 DEF SkipBlocked, AtNode
    <3>6. CASE CompleteNode(r)
      BY <3>6 DEF CompleteNode, WithOutput
    <3>7. CASE FailToStore(r)
      BY <3>7 DEF FailToStore, WithOutput
    <3>8. CASE FailNode(r)
      BY <3>8 DEF FailNode
    <3> QED
      BY <1>3, <3>2, <3>3, <3>4, <3>5, <3>6, <3>7, <3>8
  <2> QED
    BY <1>1, <2>1, <2>2, LockStep DEF LockInv, At, IsExecuting, Executing
<1> QED
  BY <1>2, <1>3 DEF Execute

\* A call that is admitted, refused or broken off.
LEMMA CallLocks ==
    ASSUME TypeOK, LockInv, NEW r \in Run, Call(r) \/ Break(r)
    PROVE  LockInv'
<1>1. /\ request' = request /\ \A s \in Run \ {r} : job'[s] = job[s]
      /\ job[r] \in Job /\ \A s \in Run : UsesLock(s)' = UsesLock(s)
  BY CallFrame DEF TypeOK, UsesLock, Kind
<1>2. job'[r].pc # "history"
  BY <1>1
  DEF Call, Break, Refuse, Admit, Fault, Die, FaultAtStart, Goto, TypeOK, Job
<1>3. CASE Refuse(r) \/ Admit(r) \/ FaultAtStart(r)
  <2>1. ~IsExecuting(r) /\ activeExecutions' = activeExecutions
    BY <1>3 DEF Refuse, Admit, FaultAtStart, At, IsExecuting, Executing, Starting
  <2> QED
    BY <1>1, <1>2, <2>1, LockStep DEF LockInv, At
<1>4. CASE Fault(r)
  BY <1>1, <1>2, <1>4, LockStep DEF Fault, Die, LockInv, At
<1> QED
  BY <1>3, <1>4 DEF Call, Break

\* No error path of any call, no edit, deletion, fault or restart leaves a
\* workflow locked with nobody to unlock it.
THEOREM LocksHaveOwners == Spec => []NoOrphanLock
<1>1. Init => LockInv
  BY DEF Init, LockInv, NoOrphanLock, NewJob, At
<1>2. TypeOK /\ LockInv /\ [Next]_vars => LockInv'
  <2> SUFFICES ASSUME TypeOK, LockInv, [Next]_vars PROVE LockInv'
    OBVIOUS
  <2>1. ASSUME NEW r \in Run, Call(r) \/ Advance(r) \/ Break(r) PROVE LockInv'
    BY <2>1, CallLocks, StartLocks, ExecuteLocks DEF Advance
  <2>2. ASSUME NEW w \in Workflow, Edit(w) PROVE LockInv'
    <3>1. UNCHANGED <<activeExecutions, request, job>>
      BY <2>2 DEF Edit, SaveWorkflow, DeleteWorkflow
    <3> QED
      BY <3>1 DEF LockInv, NoOrphanLock, IsExecuting, UsesLock, Kind, Wf, At
  <2>3. CASE Restart
    <3>1. /\ activeExecutions' = {} /\ request' = request
          /\ \A r \in Run : job'[r].pc = "history" => job[r].pc = "history"
      BY <2>3 DEF Restart, TypeOK, Job
    <3> QED
      BY <3>1 DEF LockInv, NoOrphanLock, UsesLock, Kind, At
  <2>4. CASE UNCHANGED vars
    BY <2>4 DEF vars, LockInv, NoOrphanLock, IsExecuting, UsesLock, Kind, Wf, At
  <2> QED
    BY <2>1, <2>2, <2>3, <2>4 DEF Next
<1> QED
  BY <1>1, <1>2, TypesAreCorrect, PTL DEF Spec, LockInv

----------------------------------------------------------------------------
(* Refinement: one lemma for each way a step of the engine writes rows. *)

\* A call that has no row opens one.
LEMMA InsertOpens ==
    ASSUME TypeOK, NEW r \in Run, RunInv(r), InsertRun(r), nodeRun' = nodeRun
    PROVE  Lifecycle!Step(r)
<1>1. run[r] = NoRow /\ \A n \in Node : nodeRun[r][n] = "none"
  BY DEF InsertRun, RunInv, RowsFit, At, RunStored, NodeRunStored
<1>2. nodeRun[r] = [n \in Node |-> "none"]
  BY <1>1 DEF TypeOK
<1>3. Lifecycle!Open(r, Wf(r))
  BY <1>1, <1>2 DEF InsertRun, Lifecycle!Open, Lifecycle!NoRow, Lifecycle!NoRows, NoRow
<1> QED
  BY <1>3, RequestTypes DEF Lifecycle!Step

\* Starting a run opens its row, closes it as failed, or writes nothing.
LEMMA StartRefines ==
    ASSUME TypeOK, NEW r \in Run, RunInv(r), Start(r)
    PROVE  Lifecycle!Step(r) \/ UNCHANGED rows
<1> USE DEF rows
<1>1. nodeRun' = nodeRun
  BY StartFrame
<1>2. CASE InsertRun(r)
  BY <1>1, <1>2, InsertOpens
<1>3. CASE RejectHistory(r)
  <2>1. CASE ~RunStored(r)
    BY <1>3, <2>1 DEF RejectHistory
  <2>2. CASE RunStored(r)
    <3>1. run[r].status = "running" /\ \A n \in Node : nodeRun[r][n] = "none"
      BY <1>3, <2>2 DEF RejectHistory, At, RunInv, RowsFit, RunStored, NodeRunStored
    <3>2. Lifecycle!Close(r, "failed")
      BY <1>3, <2>2, <3>1
      DEF RejectHistory, Lifecycle!Close, Lifecycle!IsOpen, Lifecycle!IsNot
    <3> QED
      BY <3>2 DEF Lifecycle!Step
  <2> QED
    BY <2>1, <2>2
<1>4. CASE \/ FindOutput(r) \/ MissOutput(r) \/ StartHistory(r)
           \/ RefuseRetry(r) \/ ReadFailedRun(r)
           \/ WorkflowNotFound(r) \/ LoadWorkflow(r) \/ InsertRunFails(r)
  BY <1>4
  DEF FindOutput, MissOutput, StartHistory, RefuseRetry, ReadFailedRun,
      WorkflowNotFound, LoadWorkflow, InsertRunFails
<1> QED
  BY <1>2, <1>3, <1>4
  DEF Start, StartWorkflow, StartMock, StartCascade, BeginHistory, StartRetry

\* In the loop of executeNodes, the run of a stored node run is open, and a
\* node run that is not the current one does not run.
LEMMA LoopIsOpen ==
    ASSUME TypeOK, NEW r \in Run, RunInv(r), NEW n \in Node, NodeRunStored(r, n),
           job[r].pc \in {"loop", "exec"}
    PROVE  run[r].status = "running"
BY DEF RunInv, RowsFit, RunStored

\* A step of the loop that comes to the current node finds it pending.
LEMMA AtNodeIsPending ==
    ASSUME TypeOK, NEW r \in Run, RunInv(r), AtNode(r)
    PROVE  /\ Current(r) \in Node
           /\ run[r].status = "running"
           /\ nodeRun[r][Current(r)] = "pending"
           /\ \A n \in Node : nodeRun[r][n] # "running"
           /\ ~job[r].failed => \A n \in Node : nodeRun[r][n] # "failed"
<1>1. /\ job[r].pc = "loop" /\ ~AtEnd(r) /\ NodeRunStored(r, Current(r))
      /\ Current(r) \in Node
  BY CurrentTypes DEF AtNode, At
<1>2. LoopFits(r)
  BY DEF RunInv
<1>3. job[r].idx + 1 \in DOMAIN job[r].plan /\ Current(r) = job[r].plan[job[r].idx + 1]
  BY <1>1 DEF TypeOK, Job, AtEnd, Current
<1>4. nodeRun[r][Current(r)] \in {"none", "pending"}
  BY <1>1, <1>2, <1>3 DEF LoopFits, At
<1> QED
  BY <1>1, <1>2, <1>4, LoopIsOpen DEF LoopFits, At, NodeRunStored

\* A step that ends the current node finds it running.
LEMMA ExecIsRunning ==
    ASSUME TypeOK, NEW r \in Run, RunInv(r), At(r, "exec"), NodeRunStored(r, Current(r))
    PROVE  /\ Current(r) \in Node
           /\ run[r].status = "running"
           /\ nodeRun[r][Current(r)] = "running"
<1>1. Current(r) \in Node
  BY CurrentTypes DEF RunInv, MemoryFits
<1> QED
  BY <1>1, LoopIsOpen DEF RunInv, LoopFits, At, NodeRunStored

\* What executeNodes writes is a step of the lifecycle of its run.
LEMMA ExecuteRefines ==
    ASSUME TypeOK, NEW r \in Run, RunInv(r), Execute(r)
    PROVE  Lifecycle!Step(r) \/ UNCHANGED rows
<1> USE DEF rows
<1>1. CASE CreateNodeRuns(r)
  <2>1. run' = run /\ \A n \in Node : nodeRun[r][n] = "none"
    BY <1>1 DEF CreateNodeRuns, At, RunInv, RowsFit, NodeRunStored
  <2>2. Planned(r) \subseteq Node
    BY DEF Planned, TypeOK, Job
  <2>3. nodeRun[r] = [n \in Node |-> "none"]
    BY <2>1 DEF TypeOK
  <2>4. nodeRun' = [nodeRun EXCEPT ![r] =
                       [n \in Node |-> IF n \in Planned(r) THEN "pending" ELSE "none"]]
    BY <1>1, <2>1 DEF CreateNodeRuns
  <2>5. CASE Planned(r) = {}
    BY <2>1, <2>3, <2>4, <2>5 DEF TypeOK
  <2>6. CASE Planned(r) # {}
    <3>1. run[r].status = "running"
      BY <1>1, <2>6 DEF CreateNodeRuns, At, RunInv, RowsFit, RunStored
    <3>2. Lifecycle!Plan(r, Planned(r))
      BY <2>1, <2>3, <2>4, <3>1 DEF Lifecycle!Plan, Lifecycle!IsOpen, Lifecycle!NoRows
    <3> QED
      BY <2>2, <3>2 DEF Lifecycle!Step
  <2> QED
    BY <2>5, <2>6
<1>2. CASE SkipBlocked(r) \/ SkipAfterFailure(r)
  <2>1. AtNode(r) /\ run' = run /\ SetNodeRun(r, Current(r), "skipped")
    BY <1>2 DEF SkipBlocked, SkipAfterFailure
  <2>2. Lifecycle!SkipNode(r, Current(r))
    BY <2>1, AtNodeIsPending
    DEF Lifecycle!SkipNode, Lifecycle!IsOpen, Lifecycle!IsNot, Lifecycle!Moves, SetNodeRun
  <2> QED
    BY <2>1, <2>2, AtNodeIsPending DEF Lifecycle!Step
<1>3. CASE StartNode(r)
  <2>1. AtNode(r) /\ run' = run /\ SetNodeRun(r, Current(r), "running") /\ ~job[r].failed
    BY <1>3 DEF StartNode
  <2>2. Lifecycle!BeginNode(r, Current(r))
    BY <2>1, AtNodeIsPending
    DEF Lifecycle!BeginNode, Lifecycle!IsOpen, Lifecycle!IsNot, Lifecycle!Moves, SetNodeRun
  <2> QED
    BY <2>1, <2>2, AtNodeIsPending DEF Lifecycle!Step
<1>4. CASE CompleteNode(r) \/ FailNode(r) \/ FailToStore(r)
  <2>1. PICK s \in {"completed", "failed"} : SetNodeRun(r, Current(r), s)
    BY <1>4 DEF CompleteNode, FailNode, FailToStore
  <2>2. At(r, "exec") /\ NodeRunStored(r, Current(r)) /\ run' = run
    BY <1>4 DEF CompleteNode, FailNode, FailToStore
  <2>3. Lifecycle!EndNode(r, Current(r), s)
    BY <2>1, <2>2, ExecIsRunning
    DEF Lifecycle!EndNode, Lifecycle!IsOpen, Lifecycle!Moves, SetNodeRun
  <2> QED
    BY <2>2, <2>3, ExecIsRunning DEF Lifecycle!Step
<1>5. CASE FinishRun(r)
  <2>1. /\ run[r].status = "running"
        /\ \A n \in Node : nodeRun[r][n] # "running"
        /\ ~job[r].failed => \A n \in Node : nodeRun[r][n] # "failed"
    BY <1>5 DEF FinishRun, At, RunInv, RowsFit, LoopFits, RunStored
  <2>2. PICK s \in {"completed", "failed"} :
          /\ run' = [run EXCEPT ![r].status = s] /\ nodeRun' = nodeRun
          /\ s = "completed" => ~job[r].failed
    BY <1>5 DEF FinishRun
  <2>3. Lifecycle!Close(r, s)
    BY <2>1, <2>2 DEF Lifecycle!Close, Lifecycle!IsOpen, Lifecycle!IsNot
  <2> QED
    BY <2>3 DEF Lifecycle!Step
<1>6. CASE FetchNodeRuns(r) \/ PassOver(r) \/ Report(r) \/ Abort(r)
  BY <1>6 DEF FetchNodeRuns, PassOver, Report, Abort, Die
<1> QED
  BY <1>1, <1>2, <1>3, <1>4, <1>5, <1>6 DEF Execute

\* An edit or a deletion drops whole runs, and nodes from every run.
LEMMA EditRefines ==
    ASSUME TypeOK, \A r \in Run : RunInv(r), NEW w \in Workflow, Edit(w)
    PROVE  Lifecycle!Drop
<1> DEFINE gone  == {r \in Run : run'[r] = NoRow}
           nodes == {n \in Node : \A r \in Run : nodeRun'[r][n] = "none"}
<1>1. \A r \in Run : run[r] = NoRow => \A n \in Node : nodeRun[r][n] = "none"
  BY DEF RunInv, RowsFit, RunStored, NodeRunStored, NoRow
<1>2. SUFFICES /\ run' = [r \in Run |-> IF r \in gone THEN NoRow ELSE run[r]]
               /\ nodeRun' = [r \in Run |-> [n \in Node |->
                     IF r \in gone \/ n \in nodes THEN "none" ELSE nodeRun[r][n]]]
  BY DEF Lifecycle!Drop, Lifecycle!NoRow, NoRow
<1>3. CASE DeleteWorkflow(w)
  <2>1. run' = [r \in Run |-> IF run[r].wf = w THEN NoRow ELSE run[r]]
    BY <1>3 DEF DeleteWorkflow
  <2>2. nodeRun' = [r \in Run |-> [n \in Node |->
                       IF run[r].wf = w \/ n \in workflow[w].nodes
                       THEN "none" ELSE nodeRun[r][n]]]
    BY <1>3 DEF DeleteWorkflow
  <2>3. \A r \in Run : r \in gone <=> run[r].wf = w \/ run[r] = NoRow
    BY <2>1
  <2>4. \A n \in Node : n \in workflow[w].nodes => n \in nodes
    BY <2>2
  <2>5. \A n \in nodes, r \in Run : nodeRun'[r][n] = "none"
    OBVIOUS
  <2>6. run' = [r \in Run |-> IF r \in gone THEN NoRow ELSE run[r]]
    BY <2>1, <2>3
  <2>7. ASSUME NEW r \in Run, NEW n \in Node
        PROVE  nodeRun'[r][n] = IF r \in gone \/ n \in nodes THEN "none" ELSE nodeRun[r][n]
    <3> HIDE DEF gone, nodes
    <3> QED
      BY <1>1, <2>2, <2>3, <2>4, <2>5
  <2>8. nodeRun' = [r \in Run |-> [n \in Node |-> nodeRun'[r][n]]]
    BY <2>2
  <2> HIDE DEF gone, nodes
  <2> QED
    BY <2>6, <2>7, <2>8
<1>4. ASSUME NEW d \in Edits[w], SaveWorkflow(w, d)
      PROVE  /\ run' = [r \in Run |-> IF r \in gone THEN NoRow ELSE run[r]]
             /\ nodeRun' = [r \in Run |-> [n \in Node |->
                   IF r \in gone \/ n \in nodes THEN "none" ELSE nodeRun[r][n]]]
  <2>1. run' = run
    BY <1>4 DEF SaveWorkflow
  <2>2. nodeRun' = [r \in Run |-> [n \in Node |->
                       IF n \in workflow[w].nodes \ d.nodes THEN "none" ELSE nodeRun[r][n]]]
    BY <1>4 DEF SaveWorkflow
  <2>3. \A r \in Run : r \in gone <=> run[r] = NoRow
    BY <2>1
  <2>4. \A n \in Node : n \in workflow[w].nodes \ d.nodes => n \in nodes
    BY <2>2
  <2>5. \A n \in nodes, r \in Run : nodeRun'[r][n] = "none"
    OBVIOUS
  <2>6. run' = [r \in Run |-> IF r \in gone THEN NoRow ELSE run[r]]
    BY <2>1, <2>3 DEF TypeOK
  <2>7. ASSUME NEW r \in Run, NEW n \in Node
        PROVE  nodeRun'[r][n] = IF r \in gone \/ n \in nodes THEN "none" ELSE nodeRun[r][n]
    <3> HIDE DEF gone, nodes
    <3> QED
      BY <1>1, <2>2, <2>3, <2>4, <2>5
  <2>8. nodeRun' = [r \in Run |-> [n \in Node |-> nodeRun'[r][n]]]
    BY <2>2
  <2> HIDE DEF gone, nodes
  <2> QED
    BY <2>6, <2>7, <2>8
<1> QED
  BY <1>3, <1>4 DEF Edit

\* The engine implements the life the run history promises: calls that
\* overlap, edits, deletions, faults and restarts included, a run's rows open
\* once, run one node at a time, never start a node after a failure, and
\* close once.
THEOREM RowsFollowLifecycle == Spec => FollowsLifecycle
<1>1. Init => Lifecycle!Init
  BY DEF Init, Lifecycle!Init, NoRow, Lifecycle!NoRow, Lifecycle!NoRows
<1>2. IInv /\ [Next]_vars => [Lifecycle!Next]_<<run, nodeRun>>
  <2> SUFFICES ASSUME IInv, [Next]_vars PROVE Lifecycle!Next \/ UNCHANGED rows
    BY DEF rows
  <2>1. TypeOK /\ \A r \in Run : RunInv(r)
    BY RunInvIsEngineInv DEF IInv
  <2>2. ASSUME NEW r \in Run, Advance(r) PROVE Lifecycle!Next \/ UNCHANGED rows
    BY <2>1, <2>2, StartRefines, ExecuteRefines DEF Advance, Lifecycle!Next
  <2>3. ASSUME NEW r \in Run, Call(r) \/ Break(r) PROVE UNCHANGED rows
    BY <2>1, <2>3, CallFrame DEF rows
  <2>4. ASSUME NEW w \in Workflow, Edit(w) PROVE Lifecycle!Next
    BY <2>1, <2>4, EditRefines DEF Lifecycle!Next
  <2>5. CASE Restart \/ UNCHANGED vars
    BY <2>5 DEF Restart, vars, rows
  <2> QED
    BY <2>2, <2>3, <2>4, <2>5 DEF Next
<1> QED
  BY <1>1, <1>2, Invariant, PTL DEF Spec, FollowsLifecycle, Lifecycle!Spec

----------------------------------------------------------------------------
(* A completed run is whole. *)

WholeRun(r) ==
    run[r].status = "completed" =>
        \A n \in Planned(r) \cap job[r].def.nodes :
            NodeStored(n) => nodeRun[r][n] \in {"completed", "skipped"}

\* A step that leaves the plan and the rows of a run alone.
LEMMA WholeRunFrame ==
    ASSUME NEW r \in Run, WholeRun(r), job'[r].plan = job[r].plan,
           job'[r].def = job[r].def, run'[r] = run[r], nodeRun'[r] = nodeRun[r],
           workflow' = workflow
    PROVE  WholeRun(r)'
BY DEF WholeRun, Planned, NodeStored

\* A run that is being started is not completed, nor does starting complete it.
LEMMA StartWhole ==
    ASSUME TypeOK, NEW r \in Run, RunInv(r), Start(r)
    PROVE  WholeRun(r)'
<1>1. run[r].status \in {"none", "running"}
  BY DEF Start, StartWorkflow, StartMock, StartCascade, BeginHistory, StartRetry, InsertRun,
         FindOutput, MissOutput, RejectHistory, StartHistory, RefuseRetry, ReadFailedRun,
         WorkflowNotFound, LoadWorkflow, InsertRunFails, At, RunInv, RowsFit, RunStored
<1>2. run'[r].status # "completed"
  <2>1. CASE InsertRun(r)
    BY <2>1 DEF InsertRun, TypeOK
  <2>2. CASE RejectHistory(r)
    BY <1>1, <2>2 DEF RejectHistory, TypeOK
  <2>3. CASE run' = run
    BY <1>1, <2>3
  <2> QED
    BY <2>1, <2>2, <2>3
    DEF Start, StartWorkflow, StartMock, StartCascade, BeginHistory, StartRetry,
        FindOutput, MissOutput, StartHistory, RefuseRetry, ReadFailedRun,
        WorkflowNotFound, LoadWorkflow, InsertRunFails, rows
<1> QED
  BY <1>2 DEF WholeRun

\* Only FinishRun completes a run, and it finds every planned node that is
\* still stored completed or skipped.
LEMMA ExecuteWhole ==
    ASSUME TypeOK, NEW r \in Run, RunInv(r), WholeRun(r), Execute(r)
    PROVE  WholeRun(r)'
<1>1. CASE FinishRun(r)
  <2>1. /\ job[r].pc = "loop" /\ job[r].idx >= Len(job[r].plan) /\ RunStored(r)
        /\ nodeRun' = nodeRun /\ workflow' = workflow
    BY <1>1 DEF FinishRun, At, AtEnd, defs
  <2>2. job'[r].plan = job[r].plan /\ job'[r].def = job[r].def
    BY <1>1 DEF FinishRun, Goto, TypeOK, Job
  <2>3. run'[r].status = "completed" => ~job[r].failed
    BY <1>1 DEF FinishRun, TypeOK
  <2>4. \A i \in DOMAIN job[r].plan : i <= job[r].idx
    BY <2>1 DEF TypeOK, Job
  <2>5. ~job[r].failed => \A n \in Node : nodeRun[r][n] # "failed"
    BY <2>1 DEF RunInv, LoopFits
  <2>6. \A i \in DOMAIN job[r].plan :
           job[r].plan[i] \in job[r].def.nodes /\ NodeStored(job[r].plan[i]) =>
               nodeRun[r][job[r].plan[i]] \in {"completed", "skipped", "failed"}
    BY <2>1, <2>4 DEF RunInv, NoneLeftBehind
  <2>7. Planned(r) \subseteq Node
    BY DEF Planned, TypeOK, Job
  <2> QED
    BY <2>1, <2>2, <2>3, <2>5, <2>6, <2>7 DEF WholeRun, Planned, NodeStored
<1>2. CASE Report(r) \/ Abort(r)
  <2>1. job'[r].plan = job[r].plan /\ job'[r].def = job[r].def
    BY <1>2 DEF Report, Abort, Die, Goto, TypeOK, Job
  <2> QED
    BY <1>2, <2>1, WholeRunFrame DEF Report, Abort, Die, rows, defs
<1>3. CASE \/ CreateNodeRuns(r) \/ FetchNodeRuns(r)
           \/ PassOver(r) \/ SkipBlocked(r) \/ SkipAfterFailure(r)
           \/ StartNode(r) \/ CompleteNode(r) \/ FailNode(r) \/ FailToStore(r)
  <2>1. job[r].pc \in {"prepare", "fetch", "loop", "exec"} /\ run' = run
    BY <1>3
    DEF CreateNodeRuns, FetchNodeRuns, PassOver, SkipBlocked, SkipAfterFailure,
        StartNode, CompleteNode, FailNode, FailToStore, AtNode, At, rows
  <2> QED
    BY <2>1 DEF RunInv, RowsFit, WholeRun
<1> QED
  BY <1>1, <1>2, <1>3 DEF Execute

\* A call that is admitted, refused or broken off writes no row.
LEMMA CallWhole ==
    ASSUME TypeOK, NEW r \in Run, WholeRun(r), Call(r) \/ Break(r)
    PROVE  WholeRun(r)'
<1>1. job'[r].plan = job[r].plan
  BY DEF Call, Break, Refuse, Admit, Fault, Die, FaultAtStart, Goto, TypeOK, Job
<1> QED
  BY <1>1, CallFrame, WholeRunFrame

\* A run the history shows as completed has completed or skipped every node
\* of its plan that is of its workflow and still stored, whatever was saved,
\* deleted, retried, failed or restarted before or since.
THEOREM CompletedRunsAreWhole == Spec => []CompletedRunIsWhole
<1> DEFINE Whole == \A r \in Run : WholeRun(r)
<1>1. Init => Whole
  BY DEF Init, WholeRun, NoRow
<1>2. IInv /\ Whole /\ [Next]_vars => Whole'
  <2> SUFFICES ASSUME IInv, Whole, [Next]_vars, NEW s \in Run PROVE WholeRun(s)'
    OBVIOUS
  <2>1. TypeOK /\ DefinitionsApart /\ \A r \in Run : RunInv(r)
    BY RunInvIsEngineInv DEF IInv
  <2>2. ASSUME NEW r \in Run, Start(r) PROVE WholeRun(s)'
    <3>1. CASE s = r
      BY <2>1, <2>2, <3>1, StartWhole
    <3>2. CASE s # r
      BY <2>1, <2>2, <3>2, StartFrame, WholeRunFrame
    <3> QED
      BY <3>1, <3>2
  <2>3. ASSUME NEW r \in Run, Execute(r) PROVE WholeRun(s)'
    <3>1. CASE s = r
      BY <2>1, <2>3, <3>1, ExecuteWhole
    <3>2. CASE s # r
      BY <2>1, <2>3, <3>2, ExecuteFrame, WholeRunFrame
    <3> QED
      BY <3>1, <3>2
  <2>4. ASSUME NEW r \in Run, Call(r) \/ Break(r) PROVE WholeRun(s)'
    <3>1. CASE s = r
      BY <2>1, <2>4, <3>1, CallWhole
    <3>2. CASE s # r
      BY <2>1, <2>4, <3>2, CallFrame, WholeRunFrame
    <3> QED
      BY <3>1, <3>2
  <2>5. ASSUME NEW w \in Workflow, Edit(w) PROVE WholeRun(s)'
    <3>1. RowsFit(s)
      BY <2>1 DEF RunInv
    <3>2. run'[s] = NoRow \/ run'[s] = run[s]
      BY <2>1, <2>5, <3>1, EditKeepsRows
    <3>3. CASE run'[s] = NoRow
      BY <3>3 DEF WholeRun, NoRow
    <3>4. CASE run'[s] = run[s] /\ run'[s] # NoRow
      <4>1. job' = job /\ \A n \in job[s].def.nodes :
               NodeStored(n)' => NodeStored(n) /\ nodeRun'[s][n] = nodeRun[s][n]
        BY <2>1, <2>5, <3>1, <3>4, EditKeepsRows
      <4> QED
        BY <3>4, <4>1 DEF WholeRun, Planned
    <3> QED
      BY <3>2, <3>3, <3>4
  <2>6. CASE Restart
    <3>1. /\ job'[s].plan = job[s].plan /\ job'[s].def = job[s].def
          /\ UNCHANGED <<run, nodeRun, workflow>>
      BY <2>6 DEF Restart, rows, defs, TypeOK, Job, IInv
    <3> QED
      BY <3>1, WholeRunFrame
  <2>7. CASE UNCHANGED vars
    BY <2>7, WholeRunFrame DEF vars
  <2> QED
    BY <2>2, <2>3, <2>4, <2>5, <2>6, <2>7 DEF Next, Advance
<1>3. Whole => CompletedRunIsWhole
  BY DEF WholeRun, CompletedRunIsWhole
<1> QED
  BY <1>1, <1>2, <1>3, Invariant, PTL DEF Spec

----------------------------------------------------------------------------
(* Branches. *)

\* The edges of a definition join two of its nodes.
Joins(d) == \A e \in d.edges : e.src \in d.nodes /\ e.dst \in d.nodes /\ e.src # e.dst

GraphsFit ==
    /\ \A w \in Workflow : WorkflowStored(w) => Joins(workflow[w])
    /\ \A r \in Run : Joins(job[r].def)

\* A plan follows the edges, and only planned nodes have rows.
PlanFits(r) ==
    /\ job[r].pc \in {"idle", "load"} => job[r].plan = <<>>
    /\ \A i, k \in DOMAIN job[r].plan :
          HasEdge(job[r].def.edges, job[r].plan[k], job[r].plan[i]) => k < i
    /\ \A n \in Node : NodeRunStored(r, n) => n \in Planned(r)

\* What is blocked, and why: edges out of branches and of skipped nodes; and
\* all of those, as long as nothing failed.
BlockedFits(r) ==
    /\ job[r].blocked \subseteq job[r].def.edges
    /\ job[r].pc \in {"idle"} \cup Starting => job[r].blocked = {}
    /\ RunStored(r) => \A e \in job[r].blocked :
          e.src \in Branch \/ nodeRun[r][e.src] = "skipped" \/ ~NodeStored(e.src)
    /\ \A n \in Node : nodeRun[r][n] = "skipped" /\ ~job[r].failed =>
          OutEdges(job[r].def, n) \subseteq job[r].blocked
    /\ \A o \in Branch : nodeRun[r][o] = "completed" =>
          \E result \in BOOLEAN : Inactive(r, o, result) \subseteq job[r].blocked

\* A node that ran had an edge that was open and stays so.
OpenFits(r) ==
    \A n \in Node : Ran(r, n) /\ InEdges(job[r].def, n) # {} =>
        /\ ~(InEdges(job[r].def, n) \subseteq job[r].blocked)
        /\ \E f \in InEdges(job[r].def, n) : nodeRun[r][f.src] # "skipped"

\* A node is skipped behind branches and skipped nodes only, until one fails.
SkipsFit(r) ==
    \A n \in Node : nodeRun[r][n] = "skipped" /\ ~job[r].failed =>
        /\ InEdges(job[r].def, n) # {}
        /\ \A f \in InEdges(job[r].def, n) :
              f.src \in Branch \/ nodeRun[r][f.src] = "skipped" \/ ~NodeStored(f.src)

BranchFits(r) == PlanFits(r) /\ BlockedFits(r) /\ OpenFits(r) /\ SkipsFit(r)

BranchInv == GraphsFit /\ \A r \in Run : BranchFits(r)

\* An order of some nodes lists all of them, each after those before it.
LEMMA KahnOrdersAreWhole ==
    ASSUME NEW S \in SUBSET Node, NEW E, NEW p \in KahnOrders(S, E)
    PROVE  /\ {p[i] : i \in DOMAIN p} = S
           /\ \A i, k \in DOMAIN p : HasEdge(E, p[k], p[i]) => k < i
<1>1. IsFiniteSet(S) /\ Cardinality(S) \in Nat
  BY FS_Subset, FS_CardinalityType, ConstantsAssumption
<1>2. PICK N \in Nat : N = Cardinality(S)
  BY <1>1
<1>3. /\ p \in [1..N -> S] /\ \A i, k \in 1..N : i # k => p[i] # p[k]
      /\ \A i \in DOMAIN p : ReadyAfter(E, p, i, i - 1)
  BY <1>2 DEF KahnOrders, Orderings
<1>4. IsFiniteSet(1..N) /\ Cardinality(1..N) = N
  BY FS_Interval
<1>5. p \in Injection(1..N, S)
  BY <1>3 DEF Injection, IsInjective
<1>6. p \in Surjection(1..N, S)
  BY <1>1, <1>2, <1>4, <1>5, FS_Injection
<1>7. {p[i] : i \in DOMAIN p} = S
  BY <1>3, <1>6 DEF Surjection
<1>8. ASSUME NEW i \in DOMAIN p, NEW k \in DOMAIN p, HasEdge(E, p[k], p[i])
      PROVE  k < i
  <2>1. k <= i - 1 /\ i \in Nat /\ k \in Nat
    BY <1>3, <1>8 DEF ReadyAfter
  <2> QED
    BY <2>1
<1> QED
  BY <1>7, <1>8

\* A definition joins two nodes by each edge: it has no cycle.
LEMMA DefinitionsJoin ==
    ASSUME NEW d \in Definition, IsDefinition(d)
    PROVE  Joins(d)
<1>1. PICK p : p \in KahnOrders(d.nodes, d.edges)
  BY DEF IsDefinition, IsAcyclic
<1>2. d.nodes \in SUBSET Node
  BY DEF Definition
<1>3. /\ {p[i] : i \in DOMAIN p} = d.nodes
      /\ \A i, k \in DOMAIN p : HasEdge(d.edges, p[k], p[i]) => k < i
  BY <1>1, <1>2, KahnOrdersAreWhole
<1>4. p \in Seq(Node)
  BY <1>1, <1>2, KahnOrdersAreSequences
<1>5. ASSUME NEW e \in d.edges, e.src = e.dst
      PROVE  FALSE
  <2>1. PICK i \in DOMAIN p : p[i] = e.src
    BY <1>3, <1>5 DEF IsDefinition
  <2>2. HasEdge(d.edges, p[i], p[i])
    BY <1>5, <2>1 DEF HasEdge
  <2>3. i \in Nat
    BY <1>4
  <2> QED
    BY <1>3, <2>2, <2>3
<1> QED
  BY <1>5 DEF Joins, IsDefinition

\* What is stored and what was loaded joins nodes.
LEMMA GraphsStayFit ==
    ASSUME TypeOK, GraphsFit, Next
    PROVE  GraphsFit'
<1>1. ASSUME NEW r \in Run, Call(r) \/ Execute(r) \/ Break(r)
      PROVE  GraphsFit'
  <2>1. workflow' = workflow /\ \A s \in Run : job'[s].def = job[s].def
    <3>1. CASE Execute(r)
      BY <3>1, ExecuteFrame
    <3>2. CASE Call(r) \/ Break(r)
      BY <3>2, CallFrame
    <3> QED
      BY <1>1, <3>1, <3>2
  <2> QED
    BY <2>1 DEF GraphsFit, WorkflowStored
<1>2. ASSUME NEW r \in Run, Start(r)
      PROVE  GraphsFit'
  <2>1. workflow' = workflow /\ \A s \in Run \ {r} : job'[s] = job[s]
    BY <1>2, StartFrame
  <2>2. job'[r].def = job[r].def \/ (WorkflowStored(Wf(r)) /\ job'[r].def = workflow[Wf(r)])
    BY <1>2, StartLoads
  <2>3. Wf(r) \in Workflow
    BY RequestTypes
  <2> QED
    BY <2>1, <2>2, <2>3 DEF GraphsFit, WorkflowStored
<1>3. ASSUME NEW w \in Workflow, DeleteWorkflow(w)
      PROVE  GraphsFit'
  BY <1>3 DEF DeleteWorkflow, GraphsFit, WorkflowStored, TypeOK
<1>4. ASSUME NEW w \in Workflow, NEW d \in Edits[w], SaveWorkflow(w, d)
      PROVE  GraphsFit'
  <2>1. /\ job' = job
        /\ workflow'[w] = d /\ \A v \in Workflow \ {w} : workflow'[v] = workflow[v]
    BY <1>4 DEF SaveWorkflow, TypeOK
  <2>2. Joins(d)
    BY ConstantsAssumption, DefinitionsAssumption, DefinitionsJoin
  <2> QED
    BY <2>1, <2>2 DEF GraphsFit, WorkflowStored
<1>5. CASE Restart
  <2>1. workflow' = workflow /\ \A s \in Run : job'[s].def = job[s].def
    BY <1>5 DEF Restart, defs, TypeOK, Job
  <2> QED
    BY <2>1 DEF GraphsFit, WorkflowStored
<1> QED
  BY <1>1, <1>2, <1>3, <1>4, <1>5 DEF Next, Advance, Edit

\* As long as nothing is stored for a run, only its plan matters.
LEMMA EarlyBranch ==
    ASSUME NEW r \in Run, job'[r].blocked = {}, job'[r].pc \notin {"idle", "load"},
           \A n \in Node : nodeRun'[r][n] = "none",
           \A i, k \in DOMAIN job'[r].plan :
              HasEdge(job'[r].def.edges, job'[r].plan[k], job'[r].plan[i]) => k < i
    PROVE  BranchFits(r)'
<1>1. PlanFits(r)'
  BY DEF PlanFits, NodeRunStored
<1>2. BlockedFits(r)'
  BY ConstantsAssumption DEF BlockedFits
<1>3. OpenFits(r)' /\ SkipsFit(r)'
  BY DEF OpenFits, SkipsFit, Ran
<1> QED
  BY <1>1, <1>2, <1>3 DEF BranchFits

\* A step that keeps the memory of a call and drops rows at most: those of
\* nodes that are not stored any more, or all of them with the run.
LEMMA KeptBranch ==
    ASSUME NEW r \in Run, BranchFits(r), Joins(job[r].def), job[r].def.nodes \subseteq Node,
           job'[r].def = job[r].def, job'[r].plan = job[r].plan,
           job'[r].blocked = job[r].blocked, job'[r].failed = job[r].failed,
           job'[r].pc \in {"idle"} \cup Starting => job[r].pc \in {"idle"} \cup Starting,
           job'[r].pc \in {"idle", "load"} => job[r].pc \in {"idle", "load"},
           run'[r] = NoRow \/ RunStored(r),
           \A n \in Node : nodeRun'[r][n] \in {nodeRun[r][n], "none"},
           run'[r] = NoRow => \A n \in Node : nodeRun'[r][n] = "none",
           \A n \in job[r].def.nodes :
              NodeStored(n)' /\ run'[r] # NoRow =>
                  NodeStored(n) /\ nodeRun'[r][n] = nodeRun[r][n]
    PROVE  BranchFits(r)'
<1> USE DEF RunStored
<1>0. /\ \A e \in job[r].def.edges : e.src \in job[r].def.nodes /\ e.src \in Node
      /\ \A n \in Node : nodeRun'[r][n] # "none" => nodeRun[r][n] = nodeRun'[r][n]
  BY DEF Joins
<1>1. PlanFits(r)'
  BY <1>0 DEF BranchFits, PlanFits, Planned, NodeRunStored
<1>2. BlockedFits(r)'
  <2>1. BlockedFits(r)
    BY DEF BranchFits
  <2>2. ASSUME run'[r] # NoRow, NEW e \in job[r].blocked
        PROVE  e.src \in Branch \/ nodeRun'[r][e.src] = "skipped" \/ ~NodeStored(e.src)'
    <3>1. e.src \in job[r].def.nodes /\ RunStored(r)
      BY <1>0, <2>1, <2>2 DEF BlockedFits
    <3>2. e.src \in Branch \/ nodeRun[r][e.src] = "skipped" \/ ~NodeStored(e.src)
      BY <2>1, <3>1 DEF BlockedFits
    <3> QED
      BY <2>2, <3>1, <3>2
  <2>3. RunStored(r)' => run'[r] # NoRow
    BY DEF NoRow
  <2>4. \A n \in Node : nodeRun'[r][n] = "skipped" /\ ~job'[r].failed =>
           OutEdges(job'[r].def, n) \subseteq job'[r].blocked
    BY <1>0, <2>1 DEF BlockedFits
  <2>5. \A o \in Branch : nodeRun'[r][o] = "completed" =>
           \E result \in BOOLEAN : Inactive(r, o, result)' \subseteq job'[r].blocked
    BY <1>0, <2>1, ConstantsAssumption DEF BlockedFits, Inactive
  <2> QED
    BY <2>1, <2>2, <2>3, <2>4, <2>5 DEF BlockedFits
<1>3. OpenFits(r)'
  <2> SUFFICES ASSUME NEW n \in Node, Ran(r, n)', InEdges(job[r].def, n) # {}
               PROVE  /\ ~(InEdges(job[r].def, n) \subseteq job[r].blocked)
                      /\ \E f \in InEdges(job[r].def, n) : nodeRun'[r][f.src] # "skipped"
    BY DEF OpenFits
  <2>1. Ran(r, n)
    BY <1>0 DEF Ran
  <2>2. PICK f \in InEdges(job[r].def, n) : nodeRun[r][f.src] # "skipped"
    BY <2>1 DEF BranchFits, OpenFits
  <2>3. f.src \in Node
    BY <1>0, <2>2 DEF InEdges
  <2> QED
    BY <1>0, <2>1, <2>2, <2>3 DEF BranchFits, OpenFits
<1>4. SkipsFit(r)'
  <2> SUFFICES ASSUME NEW n \in Node, nodeRun'[r][n] = "skipped", ~job[r].failed
               PROVE  /\ InEdges(job[r].def, n) # {}
                      /\ \A f \in InEdges(job[r].def, n) :
                            \/ f.src \in Branch
                            \/ nodeRun'[r][f.src] = "skipped"
                            \/ ~NodeStored(f.src)'
    BY DEF SkipsFit
  <2>1. nodeRun[r][n] = "skipped" /\ run'[r] # NoRow
    BY <1>0
  <2>2. /\ InEdges(job[r].def, n) # {}
        /\ \A f \in InEdges(job[r].def, n) :
              f.src \in Branch \/ nodeRun[r][f.src] = "skipped" \/ ~NodeStored(f.src)
    BY <2>1 DEF BranchFits, SkipsFit
  <2>3. \A f \in InEdges(job[r].def, n) : f.src \in job[r].def.nodes
    BY <1>0 DEF InEdges
  <2> QED
    BY <2>1, <2>2, <2>3
<1> QED
  BY <1>1, <1>2, <1>3, <1>4 DEF BranchFits

\* A step that writes no row of a call, or closes its run.
LEMMA QuietBranch ==
    ASSUME TypeOK, NEW r \in Run, RowsFit(r), BranchFits(r), Joins(job[r].def),
           job'[r].def = job[r].def, job'[r].plan = job[r].plan,
           job'[r].blocked = job[r].blocked, job'[r].failed = job[r].failed,
           job'[r].pc \in {"idle"} \cup Starting => job[r].pc \in {"idle"} \cup Starting,
           job'[r].pc \in {"idle", "load"} => job[r].pc \in {"idle", "load"},
           run'[r] = run[r] \/ (RunStored(r) /\ RunStored(r)'),
           nodeRun'[r] = nodeRun[r], workflow' = workflow
    PROVE  BranchFits(r)'
<1>1. job[r].def.nodes \subseteq Node
  BY DEF TypeOK, Job, Definition
<1>2. run'[r] = NoRow \/ RunStored(r)
  BY DEF RowsFit
<1>3. run'[r] = NoRow => \A n \in Node : nodeRun[r][n] = "none"
  BY DEF RowsFit, RunStored, NodeRunStored, NoRow
<1>4. \A n : NodeStored(n)' => NodeStored(n)
  BY DEF NodeStored
<1> QED
  BY <1>1, <1>2, <1>3, <1>4, KeptBranch

\* Starting a run plans along the edges of the definition it loaded.
LEMMA StartBranch ==
    ASSUME TypeOK, NEW r \in Run, RunInv(r), Joins(job[r].def), BranchFits(r), Start(r)
    PROVE  BranchFits(r)'
<1> USE DEF At, Goto, InsertRun, Launch, defs, rows
<1>0. /\ job \in [Run -> Job] /\ job[r] \in Job
      /\ RowsFit(r) /\ PlanFits(r)
      /\ job[r].def.nodes \in SUBSET Node
  BY DEF TypeOK, RunInv, BranchFits, Job, Definition
<1>1. job[r].pc \in Starting => job[r].blocked = {}
  BY DEF BranchFits, BlockedFits
<1>2. nodeRun' = nodeRun /\ workflow' = workflow
  BY StartFrame
<1>3. job[r].pc \in {"load", "create", "readRun", "history"} =>
         \A n \in Node : nodeRun[r][n] = "none"
  BY <1>0 DEF RowsFit, NodeRunStored
<1>4. ASSUME NEW S \in SUBSET Node, NEW p \in KahnOrders(S, job[r].def.edges),
             job[r].pc \in {"create", "readRun"}, job'[r].pc \notin {"idle", "load"},
             job'[r].def = job[r].def, job'[r].blocked = job[r].blocked, job'[r].plan = p
      PROVE  BranchFits(r)'
  <2>1. \A i, k \in DOMAIN p : HasEdge(job[r].def.edges, p[k], p[i]) => k < i
    BY KahnOrdersAreWhole
  <2>2. \A n \in Node : nodeRun'[r][n] = "none"
    BY <1>2, <1>3, <1>4
  <2>3. job'[r].blocked = {}
    BY <1>1, <1>4 DEF Starting
  <2> QED
    BY <1>4, <2>1, <2>2, <2>3, EarlyBranch
<1>5. ASSUME job[r].pc \in {"create", "history"}, job'[r].pc = "prepare",
             job'[r].def = job[r].def, job'[r].blocked = job[r].blocked,
             job'[r].plan = <<Target(r)>>
      PROVE  BranchFits(r)'
  <2>1. ~HasEdge(job[r].def.edges, Target(r), Target(r))
    BY DEF HasEdge, Joins
  <2>2. \A i, k \in DOMAIN <<Target(r)>> :
           ~HasEdge(job[r].def.edges, <<Target(r)>>[k], <<Target(r)>>[i])
    BY <2>1
  <2>3. \A n \in Node : nodeRun'[r][n] = "none"
    BY <1>2, <1>3, <1>5
  <2>4. job'[r].blocked = {}
    BY <1>1, <1>5 DEF Starting
  <2>5. job'[r].pc \notin {"idle", "load"}
    BY <1>5
  <2> HIDE DEF HasEdge
  <2>6. \A i, k \in DOMAIN job'[r].plan :
           HasEdge(job'[r].def.edges, job'[r].plan[k], job'[r].plan[i]) => k < i
    BY <1>5, <2>2
  <2> QED
    BY <2>3, <2>4, <2>5, <2>6, EarlyBranch
<1>6. CASE StartWorkflow(r)
  <2>1. PICK p \in KahnOrders(job[r].def.nodes, job[r].def.edges) : Launch(r, p, {})
    BY <1>6 DEF StartWorkflow
  <2>2. /\ job[r].pc = "create" /\ job'[r].pc = "prepare" /\ job'[r].plan = p
        /\ job'[r].def = job[r].def /\ job'[r].blocked = job[r].blocked
    BY <1>0, <1>6, <2>1 DEF StartWorkflow, Job
  <2> QED
    BY <1>0, <1>4, <2>2
<1>7. CASE StartMock(r)
  <2>1. /\ job[r].pc = "create" /\ job'[r].pc = "prepare" /\ job'[r].plan = <<Target(r)>>
        /\ job'[r].def = job[r].def /\ job'[r].blocked = job[r].blocked
    BY <1>0, <1>7 DEF StartMock, Job
  <2> QED
    BY <1>5, <2>1
<1>8. CASE StartCascade(r)
  <2>1. PICK p \in KahnOrders(Upstream(job[r].def, Target(r)), job[r].def.edges) :
           Launch(r, p, {})
    BY <1>8 DEF StartCascade
  <2>2. /\ job[r].pc = "create" /\ job'[r].pc = "prepare" /\ job'[r].plan = p
        /\ job'[r].def = job[r].def /\ job'[r].blocked = job[r].blocked
    BY <1>0, <1>8, <2>1 DEF StartCascade, Job
  <2>3. Upstream(job[r].def, Target(r)) \in SUBSET Node
    BY <1>0, WalksStayInside
  <2> QED
    BY <1>4, <2>2, <2>3
<1>9. CASE BeginHistory(r)
  <2>1. PICK p \in KahnOrders(Upstream(job[r].def, Target(r)) \ {Target(r)},
                              job[r].def.edges) :
           job' = [job EXCEPT ![r] = [@ EXCEPT !.pc = "history", !.plan = p]]
    BY <1>9 DEF BeginHistory
  <2>2. /\ job[r].pc = "create" /\ job'[r].pc = "history" /\ job'[r].plan = p
        /\ job'[r].def = job[r].def /\ job'[r].blocked = job[r].blocked
    BY <1>0, <1>9, <2>1 DEF BeginHistory, Job
  <2>3. Upstream(job[r].def, Target(r)) \ {Target(r)} \in SUBSET Node
    BY <1>0, WalksStayInside
  <2> QED
    BY <1>4, <2>2, <2>3
<1>10. CASE StartHistory(r)
  <2>1. /\ job[r].pc = "history" /\ job'[r].pc = "prepare" /\ job'[r].plan = <<Target(r)>>
        /\ job'[r].def = job[r].def /\ job'[r].blocked = job[r].blocked
    BY <1>0, <1>10 DEF StartHistory, Job
  <2> QED
    BY <1>5, <2>1
<1>11. CASE ReadFailedRun(r)
  <2>1. PICK n \in FailedNodes(Retried(r)) :
           \E p \in KahnOrders(Downstream(job[r].def, n), job[r].def.edges) :
              job' = [job EXCEPT ![r] = [@ EXCEPT !.pc = "create", !.plan = p,
                                 !.outs = CompletedNodes(Retried(r)) \cap job[r].def.nodes]]
    BY <1>11 DEF ReadFailedRun
  <2>2. PICK p \in KahnOrders(Downstream(job[r].def, n), job[r].def.edges) :
           job' = [job EXCEPT ![r] = [@ EXCEPT !.pc = "create", !.plan = p,
                              !.outs = CompletedNodes(Retried(r)) \cap job[r].def.nodes]]
    BY <2>1
  <2>3. /\ job'[r].pc = "create" /\ job'[r].plan = p
        /\ job'[r].def = job[r].def /\ job'[r].blocked = job[r].blocked
    BY <1>0, <2>2 DEF Job
  <2>4. job[r].pc = "readRun"
    BY <1>11 DEF ReadFailedRun
  <2>5. Downstream(job[r].def, n) \in SUBSET Node
    BY <1>0, WalksStayInside
  <2> QED
    BY <1>4, <2>3, <2>4, <2>5
<1>12. CASE StartRetry(r)
  <2>1. /\ job[r].pc = "create" /\ job'[r].pc = "prepare" /\ job'[r].plan = job[r].plan
        /\ job'[r].def = job[r].def /\ job'[r].blocked = job[r].blocked
    BY <1>0, <1>12 DEF StartRetry, Job
  <2>2. job'[r].blocked = {} /\ \A n \in Node : nodeRun'[r][n] = "none"
    BY <1>1, <1>2, <1>3, <2>1 DEF Starting
  <2> QED
    BY <1>0, <2>1, <2>2, EarlyBranch DEF PlanFits
<1>13. CASE LoadWorkflow(r)
  <2>1. /\ job[r].pc = "load" /\ job'[r].pc \in {"readRun", "create"}
        /\ job'[r].plan = job[r].plan /\ job'[r].blocked = job[r].blocked
    BY <1>0, <1>13 DEF LoadWorkflow, Job
  <2>2. job'[r].plan = <<>> /\ DOMAIN job'[r].plan = {}
    BY <1>0, <2>1 DEF PlanFits
  <2>3. job'[r].blocked = {} /\ \A n \in Node : nodeRun'[r][n] = "none"
    BY <1>1, <1>2, <1>3, <2>1 DEF Starting
  <2> QED
    BY <2>1, <2>2, <2>3, EarlyBranch
<1>14. CASE \/ FindOutput(r) \/ MissOutput(r) \/ RejectHistory(r)
            \/ RefuseRetry(r) \/ WorkflowNotFound(r) \/ InsertRunFails(r)
  <2>1. /\ job'[r].plan = job[r].plan /\ job'[r].blocked = job[r].blocked
        /\ job'[r].def = job[r].def /\ job'[r].failed = job[r].failed
        /\ job[r].pc \in Starting /\ job'[r].pc \notin {"idle", "load"}
    <3>1. CASE FindOutput(r)
      BY <1>0, <3>1 DEF FindOutput, Job, Starting
    <3>2. CASE MissOutput(r) \/ RejectHistory(r)
      BY <1>0, <3>2 DEF MissOutput, RejectHistory, Job, Starting
    <3>3. CASE RefuseRetry(r) \/ WorkflowNotFound(r) \/ InsertRunFails(r)
      BY <1>0, <3>3 DEF RefuseRetry, WorkflowNotFound, InsertRunFails, Job, Starting
    <3> QED
      BY <1>14, <3>1, <3>2, <3>3
  <2>2. run'[r] = run[r] \/ (RunStored(r) /\ run'[r].status = "failed")
    BY <1>14 DEF FindOutput, MissOutput, RejectHistory, RefuseRetry, WorkflowNotFound,
                 InsertRunFails, TypeOK
  <2> QED
    BY <1>0, <1>2, <2>1, <2>2, QuietBranch DEF RunStored
<1> QED
  BY <1>6, <1>7, <1>8, <1>9, <1>10, <1>11, <1>12, <1>13, <1>14 DEF Start

\* What has run or was skipped lies before the current node: no edge leads to
\* it from there.
LEMMA NothingBehind ==
    ASSUME TypeOK, NEW r \in Run, RunInv(r), Joins(job[r].def), PlanFits(r),
           job[r].pc \in {"loop", "exec"}, ~AtEnd(r),
           NEW e \in job[r].def.edges, e.src = Current(r), e.dst \in Node
    PROVE  /\ e.dst # Current(r)
           /\ nodeRun[r][e.dst] \in {"none", "pending"}
<1>1. job[r].idx + 1 \in DOMAIN job[r].plan /\ Current(r) = job[r].plan[job[r].idx + 1]
  BY DEF TypeOK, Job, AtEnd, Current
<1>2. e.dst # Current(r)
  BY DEF Joins
<1>3. ASSUME nodeRun[r][e.dst] \notin {"none", "pending"}
      PROVE  FALSE
  <2>1. PICK i \in DOMAIN job[r].plan : job[r].plan[i] = e.dst
    BY <1>3 DEF PlanFits, NodeRunStored, Planned
  <2>2. HasEdge(job[r].def.edges, job[r].plan[job[r].idx + 1], job[r].plan[i])
    BY <1>1, <2>1 DEF HasEdge
  <2>3. job[r].idx + 1 < i
    BY <1>1, <2>1, <2>2 DEF PlanFits
  <2>4. i \in Nat /\ job[r].idx \in Nat
    BY <2>1 DEF TypeOK, Job
  <2>5. nodeRun[r][job[r].plan[i]] \in {"none", "pending"}
    BY <2>1, <2>3, <2>4 DEF RunInv, LoopFits
  <2> QED
    BY <1>3, <2>1, <2>5
<1> QED
  BY <1>2, <1>3

\* The loop writes the row of the current node, and blocks its out-edges only.
LEMMA WroteBranch ==
    ASSUME TypeOK, NEW r \in Run, RunInv(r), Joins(job[r].def), BranchFits(r),
           job[r].pc \in {"loop", "exec"}, ~AtEnd(r), Current(r) \in Node, RunStored(r),
           nodeRun[r][Current(r)] = IF At(r, "exec") THEN "running" ELSE "pending",
           NEW status \in {"running", "completed", "failed", "skipped"},
           SetNodeRun(r, Current(r), status), run' = run, workflow' = workflow,
           job'[r].pc \in {"loop", "exec"},
           job'[r].def = job[r].def, job'[r].plan = job[r].plan,
           job[r].failed => job'[r].failed,
           job[r].blocked \subseteq job'[r].blocked,
           job'[r].blocked \subseteq job[r].blocked \cup OutEdges(job[r].def, Current(r)),
           job'[r].blocked # job[r].blocked => Current(r) \in Branch \/ status = "skipped",
           status = "running" =>
              ~job[r].failed /\ ~IsBlocked(r, Current(r)) /\ job'[r].blocked = job[r].blocked,
           status \in {"completed", "failed"} => At(r, "exec"),
           status = "skipped" /\ ~job'[r].failed =>
              /\ IsBlocked(r, Current(r))
              /\ OutEdges(job[r].def, Current(r)) \subseteq job'[r].blocked,
           status = "completed" =>
              \E result \in BOOLEAN : Inactive(r, Current(r), result) \subseteq job'[r].blocked
    PROVE  BranchFits(r)'
<1> DEFINE c == Current(r)
           def == job[r].def
<1>1. /\ \A n \in Node : nodeRun'[r][n] = IF n = c THEN status ELSE nodeRun[r][n]
      /\ \A n : NodeStored(n)' <=> NodeStored(n)
      /\ RunStored(r)'
  BY DEF SetNodeRun, TypeOK, NodeStored, RunStored
<1>2. /\ \A e \in def.edges : e.src \in Node /\ e.dst \in Node /\ e.src # e.dst
      /\ \A n : InEdges(def, n) \subseteq def.edges /\ OutEdges(def, n) \subseteq def.edges
  BY DEF Joins, TypeOK, Job, Definition, InEdges, OutEdges
<1>3. PlanFits(r) /\ BlockedFits(r) /\ OpenFits(r) /\ SkipsFit(r)
  BY DEF BranchFits
<1>4. \A e \in def.edges : e.src = c =>
         e.dst # c /\ nodeRun[r][e.dst] \in {"none", "pending"}
  BY <1>2, <1>3, NothingBehind
<1>5. ASSUME NEW n \in Node, nodeRun'[r][n] \notin {"none", "pending"},
             NEW f \in InEdges(def, n)
      PROVE  /\ f \in def.edges /\ f.src # c /\ f \notin OutEdges(def, c)
             /\ nodeRun'[r][f.src] = nodeRun[r][f.src]
  <2>1. f \in def.edges /\ f.dst = n
    BY DEF InEdges
  <2>2. f.src # c
    BY <1>1, <1>4, <1>5, <2>1
  <2> QED
    BY <1>1, <1>2, <2>1, <2>2 DEF OutEdges
<1>6. nodeRun[r][c] \in {"running", "pending"} /\ c \in Node /\ nodeRun'[r][c] = status
  BY <1>1
<1>7. PlanFits(r)'
  <2>1. c \in Planned(r)
    BY <1>3, <1>6 DEF PlanFits, NodeRunStored
  <2>2. \A n \in Node : nodeRun'[r][n] # "none" => n \in Planned(r)
    BY <1>1, <1>3, <2>1 DEF PlanFits, NodeRunStored
  <2> QED
    BY <1>3, <2>2 DEF PlanFits, NodeRunStored, Planned
<1>8. BlockedFits(r)'
  <2>1. \A e \in job'[r].blocked :
           e.src \in Branch \/ nodeRun'[r][e.src] = "skipped" \/ ~NodeStored(e.src)
    <3> SUFFICES ASSUME NEW e \in job'[r].blocked
                 PROVE  e.src \in Branch \/ nodeRun'[r][e.src] = "skipped" \/ ~NodeStored(e.src)
      OBVIOUS
    <3>1. CASE e \in job[r].blocked
      <4>1. e.src \in Node
        BY <1>2, <1>3, <3>1 DEF BlockedFits
      <4>2. e.src \in Branch \/ nodeRun[r][e.src] = "skipped" \/ ~NodeStored(e.src)
        BY <1>3, <3>1 DEF BlockedFits
      <4> QED
        BY <1>1, <1>6, <4>1, <4>2
    <3>2. CASE e \notin job[r].blocked
      <4>1. e.src = c /\ (c \in Branch \/ status = "skipped")
        BY <3>2 DEF OutEdges
      <4> QED
        BY <1>6, <4>1
    <3> QED
      BY <3>1, <3>2
  <2>2. ASSUME NEW n \in Node, nodeRun'[r][n] = "skipped", ~job'[r].failed
        PROVE  OutEdges(def, n) \subseteq job'[r].blocked
    <3>1. CASE n = c
      BY <1>6, <2>2, <3>1
    <3>2. CASE n # c
      <4>1. OutEdges(def, n) \subseteq job[r].blocked
        BY <1>1, <1>3, <2>2, <3>2 DEF BlockedFits
      <4> QED
        BY <4>1
    <3> QED
      BY <3>1, <3>2
  <2>3. ASSUME NEW o \in Branch, nodeRun'[r][o] = "completed"
        PROVE  \E result \in BOOLEAN : Inactive(r, o, result)' \subseteq job'[r].blocked
    <3>1. o \in Node
      BY ConstantsAssumption
    <3>2. \A result : Inactive(r, o, result)' = Inactive(r, o, result)
      BY DEF Inactive
    <3>3. CASE o = c
      BY <1>6, <2>3, <3>2, <3>3
    <3>4. CASE o # c
      <4>1. PICK result \in BOOLEAN : Inactive(r, o, result) \subseteq job[r].blocked
        BY <1>1, <1>3, <2>3, <3>1, <3>4 DEF BlockedFits
      <4> QED
        BY <3>2, <4>1
    <3> QED
      BY <3>3, <3>4
  <2>4. job'[r].blocked \subseteq def.edges
    BY <1>2, <1>3 DEF BlockedFits
  <2>5. job'[r].pc \notin {"idle"} \cup Starting
    BY DEF Starting
  <2> QED
    BY <1>1, <2>1, <2>2, <2>3, <2>4, <2>5 DEF BlockedFits
<1>9. OpenFits(r)'
  <2> SUFFICES ASSUME NEW n \in Node, Ran(r, n)', InEdges(def, n) # {}
               PROVE  /\ \E f \in InEdges(def, n) : f \notin job'[r].blocked
                      /\ \E f \in InEdges(def, n) : nodeRun'[r][f.src] # "skipped"
    BY DEF OpenFits
  <2>0. nodeRun'[r][n] \notin {"none", "pending"}
    BY DEF Ran
  <2>1. CASE Ran(r, n)
    <3>1. PICK f \in InEdges(def, n) : f \notin job[r].blocked
      BY <1>3, <2>1 DEF OpenFits
    <3>2. PICK g \in InEdges(def, n) : nodeRun[r][g.src] # "skipped"
      BY <1>3, <2>1 DEF OpenFits
    <3>3. f \notin job'[r].blocked
      BY <1>5, <2>0, <3>1
    <3>4. nodeRun'[r][g.src] # "skipped"
      BY <1>5, <2>0, <3>2
    <3> QED
      BY <3>3, <3>4
  <2>2. CASE ~Ran(r, n)
    <3>1. n = c /\ status = "running"
      BY <1>1, <1>6, <2>2 DEF Ran, At
    <3>2. PICK f \in InEdges(def, c) : f \notin job[r].blocked
      BY <3>1 DEF IsBlocked
    <3>3. nodeRun[r][f.src] # "skipped"
      <4>1. f \in OutEdges(def, f.src) /\ f.src \in Node
        BY <1>2 DEF InEdges, OutEdges
      <4> QED
        BY <1>3, <3>1, <3>2, <4>1 DEF BlockedFits
    <3>4. nodeRun'[r][f.src] # "skipped"
      BY <1>5, <2>0, <3>1, <3>3
    <3> QED
      BY <3>1, <3>2, <3>4
  <2> QED
    BY <2>1, <2>2
<1>10. SkipsFit(r)'
  <2> SUFFICES ASSUME NEW n \in Node, nodeRun'[r][n] = "skipped", ~job'[r].failed
               PROVE  /\ InEdges(def, n) # {}
                      /\ \A f \in InEdges(def, n) :
                            f.src \in Branch \/ nodeRun'[r][f.src] = "skipped" \/ ~NodeStored(f.src)
    BY <1>1 DEF SkipsFit
  <2>1. CASE n # c
    <3>1. /\ InEdges(def, n) # {}
          /\ \A f \in InEdges(def, n) :
                f.src \in Branch \/ nodeRun[r][f.src] = "skipped" \/ ~NodeStored(f.src)
      BY <1>1, <1>3, <2>1 DEF SkipsFit
    <3> QED
      BY <1>5, <3>1
  <2>2. CASE n = c
    <3>1. IsBlocked(r, c)
      BY <1>6, <2>2
    <3>2. InEdges(def, c) # {} /\ InEdges(def, c) \subseteq job[r].blocked
      BY <3>1 DEF IsBlocked
    <3>3. \A f \in InEdges(def, c) :
             f.src \in Branch \/ nodeRun[r][f.src] = "skipped" \/ ~NodeStored(f.src)
      BY <1>3, <3>2 DEF BlockedFits
    <3> QED
      BY <1>5, <2>2, <3>2, <3>3
  <2> QED
    BY <2>1, <2>2
<1> QED
  BY <1>7, <1>8, <1>9, <1>10 DEF BranchFits

\* A step of executeNodes skips what branches and skipped nodes cut off.
LEMMA ExecuteBranch ==
    ASSUME TypeOK, NEW r \in Run, RunInv(r), Joins(job[r].def), BranchFits(r), Execute(r)
    PROVE  BranchFits(r)'
<1> USE DEF At, Goto
<1>0. /\ job \in [Run -> Job] /\ job[r] \in Job
      /\ RowsFit(r) /\ PlanFits(r)
  BY DEF TypeOK, RunInv, BranchFits
<1>1. CASE CreateNodeRuns(r)
  <2>1. /\ \A n \in Node : nodeRun'[r][n] \in {"none", "pending"}
        /\ \A n \in Node : nodeRun'[r][n] # "none" => n \in Planned(r)
    BY <1>0, <1>1 DEF CreateNodeRuns, TypeOK, RowsFit, NodeRunStored
  <2>2. /\ job'[r].def = job[r].def /\ job'[r].plan = job[r].plan
        /\ job'[r].blocked = job[r].blocked /\ job'[r].pc = "fetch"
    BY <1>0, <1>1 DEF CreateNodeRuns, Job
  <2>3. PlanFits(r)'
    BY <1>0, <2>1, <2>2 DEF PlanFits, NodeRunStored, Planned
  <2>4. run' = run /\ workflow' = workflow /\ job[r].pc = "prepare"
        /\ \A n \in Node : nodeRun[r][n] = "none"
    BY <1>0, <1>1 DEF CreateNodeRuns, defs, RowsFit, NodeRunStored
  <2>5. /\ job[r].blocked \subseteq job[r].def.edges
        /\ RunStored(r) => \A e \in job[r].blocked : e.src \in Branch \/ ~NodeStored(e.src)
    <3>1. \A e \in job[r].def.edges : e.src \in Node
      BY <1>0 DEF Job, Definition, Edge
    <3> QED
      BY <2>4, <3>1 DEF BranchFits, BlockedFits
  <2>6. BlockedFits(r)'
    <3>1. \A n : NodeStored(n)' <=> NodeStored(n)
      BY <2>4 DEF NodeStored
    <3>2. RunStored(r)' <=> RunStored(r)
      BY <2>4 DEF RunStored
    <3> QED
      BY <2>1, <2>2, <2>5, <3>1, <3>2, ConstantsAssumption DEF BlockedFits, Starting
  <2>7. OpenFits(r)' /\ SkipsFit(r)'
    BY <2>1 DEF OpenFits, SkipsFit, Ran
  <2> QED
    BY <2>3, <2>6, <2>7 DEF BranchFits
<1>2. CASE FetchNodeRuns(r) \/ PassOver(r) \/ FinishRun(r) \/ Report(r) \/ Abort(r)
  <2>1. /\ job'[r].plan = job[r].plan /\ job'[r].blocked = job[r].blocked
        /\ job'[r].def = job[r].def /\ job'[r].failed = job[r].failed
        /\ job'[r].pc \notin {"idle", "load"} \cup Starting
    <3>1. CASE FetchNodeRuns(r)
      BY <1>0, <3>1 DEF FetchNodeRuns, Job, Starting
    <3>2. CASE PassOver(r)
      BY <1>0, <3>2 DEF PassOver, Job, Starting
    <3>3. CASE FinishRun(r) \/ Report(r) \/ Abort(r)
      BY <1>0, <3>3 DEF FinishRun, Report, Abort, Die, Job, Starting
    <3> QED
      BY <1>2, <3>1, <3>2, <3>3
  <2>2. /\ run'[r] = run[r] \/ (RunStored(r) /\ RunStored(r)')
        /\ nodeRun' = nodeRun /\ workflow' = workflow
    BY <1>2 DEF FetchNodeRuns, PassOver, FinishRun, Report, Abort, Die, rows, defs,
                RunStored, TypeOK
  <2> QED
    BY <1>0, <2>1, <2>2, QuietBranch
<1>3. ASSUME AtNode(r)
      PROVE  /\ job[r].pc = "loop" /\ ~AtEnd(r) /\ Current(r) \in Node /\ RunStored(r)
             /\ nodeRun[r][Current(r)] = "pending"
  BY <1>3, AtNodeIsPending DEF AtNode, RunStored
<1>4. ASSUME job[r].pc = "exec", NodeRunStored(r, Current(r))
      PROVE  /\ ~AtEnd(r) /\ Current(r) \in Node /\ RunStored(r)
             /\ nodeRun[r][Current(r)] = "running"
  BY <1>4, ExecIsRunning DEF RunInv, MemoryFits, RunStored
<1>5. CASE SkipBlocked(r)
  <2>1. /\ AtNode(r) /\ IsBlocked(r, Current(r)) /\ SetNodeRun(r, Current(r), "skipped")
        /\ run' = run /\ workflow' = workflow
    BY <1>5 DEF SkipBlocked, defs
  <2>2. /\ job'[r].def = job[r].def /\ job'[r].plan = job[r].plan /\ job'[r].pc = "loop"
        /\ job'[r].failed = job[r].failed
        /\ job'[r].blocked = job[r].blocked \cup OutEdges(job[r].def, Current(r))
    BY <1>0, <1>3, <1>5, <2>1 DEF SkipBlocked, Job
  <2> QED
    BY <1>3, <2>1, <2>2, WroteBranch
<1>6. CASE SkipAfterFailure(r)
  <2>1. /\ AtNode(r) /\ job[r].failed /\ SetNodeRun(r, Current(r), "skipped")
        /\ run' = run /\ workflow' = workflow
    BY <1>6 DEF SkipAfterFailure, defs
  <2>2. /\ job'[r].def = job[r].def /\ job'[r].plan = job[r].plan /\ job'[r].pc = "loop"
        /\ job'[r].failed = job[r].failed /\ job'[r].blocked = job[r].blocked
    BY <1>0, <1>3, <1>6, <2>1 DEF SkipAfterFailure, Job
  <2> QED
    BY <1>3, <2>1, <2>2, WroteBranch
<1>7. CASE StartNode(r)
  <2>1. /\ AtNode(r) /\ ~job[r].failed /\ ~IsBlocked(r, Current(r))
        /\ SetNodeRun(r, Current(r), "running") /\ run' = run /\ workflow' = workflow
    BY <1>7 DEF StartNode, defs
  <2>2. /\ job'[r].def = job[r].def /\ job'[r].plan = job[r].plan /\ job'[r].pc = "exec"
        /\ job'[r].failed = job[r].failed /\ job'[r].blocked = job[r].blocked
    BY <1>0, <1>7 DEF StartNode, Job
  <2> QED
    BY <1>3, <2>1, <2>2, WroteBranch
<1>8. CASE CompleteNode(r) \/ FailToStore(r)
  <2>1. PICK status \in {"completed", "failed"} : SetNodeRun(r, Current(r), status)
    BY <1>8 DEF CompleteNode, FailToStore
  <2>2. /\ job[r].pc = "exec" /\ NodeRunStored(r, Current(r))
        /\ run' = run /\ workflow' = workflow
    BY <1>8 DEF CompleteNode, FailToStore, defs
  <2>3. PICK result \in BOOLEAN :
           /\ job'[r].def = job[r].def /\ job'[r].plan = job[r].plan /\ job'[r].pc = "loop"
           /\ job[r].failed => job'[r].failed
           /\ job'[r].blocked = job[r].blocked \cup Inactive(r, Current(r), result)
    <3>1. CASE CompleteNode(r)
      <4>1. PICK result \in BOOLEAN :
               job' = [job EXCEPT ![r] = [WithOutput(r, Current(r), result) EXCEPT
                                             !.pc = "loop", !.idx = Past(r)]]
        BY <3>1 DEF CompleteNode
      <4> QED
        BY <1>0, <4>1 DEF WithOutput, Job
    <3>2. CASE FailToStore(r)
      <4>1. PICK result \in BOOLEAN :
               job' = [job EXCEPT ![r] = [WithOutput(r, Current(r), result) EXCEPT
                                             !.pc = "loop", !.idx = Past(r), !.failed = TRUE]]
        BY <3>2 DEF FailToStore
      <4> QED
        BY <1>0, <4>1 DEF WithOutput, Job
    <3> QED
      BY <1>8, <3>1, <3>2
  <2>4. /\ Inactive(r, Current(r), result) \subseteq OutEdges(job[r].def, Current(r))
        /\ Inactive(r, Current(r), result) # {} => Current(r) \in Branch
    BY DEF Inactive
  <2>5. /\ job'[r].blocked \subseteq job[r].blocked \cup OutEdges(job[r].def, Current(r))
        /\ job'[r].blocked # job[r].blocked => Current(r) \in Branch
    BY <2>3, <2>4
  <2> QED
    BY <1>4, <2>1, <2>2, <2>3, <2>5, WroteBranch
<1>9. CASE FailNode(r)
  <2>1. /\ job[r].pc = "exec" /\ NodeRunStored(r, Current(r))
        /\ SetNodeRun(r, Current(r), "failed") /\ run' = run /\ workflow' = workflow
    BY <1>9 DEF FailNode, defs
  <2>2. /\ job'[r].def = job[r].def /\ job'[r].plan = job[r].plan /\ job'[r].pc = "loop"
        /\ job'[r].failed /\ job'[r].blocked = job[r].blocked
    BY <1>0, <1>9 DEF FailNode, Job
  <2> QED
    BY <1>4, <2>1, <2>2, WroteBranch
<1> QED
  BY <1>1, <1>2, <1>5, <1>6, <1>7, <1>8, <1>9 DEF Execute

\* No step makes a run skip what no branch cut off.
LEMMA NextBranch ==
    ASSUME IInv, BranchInv, [Next]_vars
    PROVE  BranchInv'
<1>1. /\ TypeOK /\ DefinitionsApart /\ GraphsFit
      /\ \A r \in Run : /\ RunInv(r) /\ RowsFit(r) /\ BranchFits(r)
                        /\ Joins(job[r].def) /\ job[r].def.nodes \subseteq Node
  BY RunInvIsEngineInv DEF IInv, BranchInv, GraphsFit, TypeOK, Job, Definition, RunInv
<1>2. GraphsFit'
  <2>1. CASE UNCHANGED vars
    BY <1>1, <2>1 DEF vars, GraphsFit, WorkflowStored
  <2> QED
    BY <1>1, <2>1, GraphsStayFit
<1>3. ASSUME NEW s \in Run PROVE BranchFits(s)'
  <2>1. ASSUME job'[s] = job[s], run'[s] = run[s], nodeRun'[s] = nodeRun[s],
               workflow' = workflow
        PROVE  BranchFits(s)'
    BY <1>1, <2>1, QuietBranch
  <2>2. ASSUME NEW r \in Run, Start(r) PROVE BranchFits(s)'
    <3>1. CASE s = r
      BY <1>1, <2>2, <3>1, StartBranch
    <3>2. CASE s # r
      BY <1>1, <2>1, <2>2, <3>2, StartFrame
    <3> QED
      BY <3>1, <3>2
  <2>3. ASSUME NEW r \in Run, Execute(r) PROVE BranchFits(s)'
    <3>1. CASE s = r
      BY <1>1, <2>3, <3>1, ExecuteBranch
    <3>2. CASE s # r
      BY <1>1, <2>1, <2>3, <3>2, ExecuteFrame
    <3> QED
      BY <3>1, <3>2
  <2>4. ASSUME NEW r \in Run, Call(r) \/ Break(r) PROVE BranchFits(s)'
    <3>1. workflow' = workflow /\ run' = run /\ nodeRun' = nodeRun
      BY <1>1, <2>4, CallFrame
    <3>2. /\ job'[s].def = job[s].def /\ job'[s].plan = job[s].plan
          /\ job'[s].blocked = job[s].blocked /\ job'[s].failed = job[s].failed
          /\ job'[s].pc \in {"idle"} \cup Starting => job[s].pc \in {"idle"} \cup Starting
          /\ job'[s].pc \in {"idle", "load"} => job[s].pc \in {"idle", "load"}
      <4>1. PICK at \in {"load", "rejected", "died"} :
              job' = [job EXCEPT ![r].pc = at] /\ (at = "load" => job[r].pc = "idle")
        BY <2>4 DEF Call, Break, Refuse, Admit, Fault, Die, FaultAtStart, Goto, At
      <4> QED
        BY <1>1, <4>1 DEF TypeOK, Job, Starting
    <3> QED
      BY <1>1, <3>1, <3>2, QuietBranch
  <2>5. ASSUME NEW w \in Workflow, Edit(w) PROVE BranchFits(s)'
    <3>1. /\ job' = job
          /\ run'[s] \in {run[s], NoRow}
          /\ \A n \in Node : nodeRun'[s][n] \in {nodeRun[s][n], "none"}
          /\ run'[s] = NoRow => \A n \in Node : nodeRun'[s][n] = "none"
          /\ \A n \in job[s].def.nodes :
                NodeStored(n)' /\ run'[s] # NoRow =>
                    NodeStored(n) /\ nodeRun'[s][n] = nodeRun[s][n]
      BY <1>1, <2>5, EditKeepsRows
    <3>2. run'[s] = NoRow \/ RunStored(s)
      BY <1>1, <3>1 DEF RowsFit
    <3> QED
      BY <1>1, <3>1, <3>2, KeptBranch
  <2>6. CASE Restart
    <3>1. /\ job'[s].def = job[s].def /\ job'[s].plan = job[s].plan
          /\ job'[s].blocked = job[s].blocked /\ job'[s].failed = job[s].failed
          /\ job'[s].pc \in {job[s].pc, "lost"}
          /\ workflow' = workflow /\ run' = run /\ nodeRun' = nodeRun
      BY <1>1, <2>6 DEF Restart, rows, defs, TypeOK, Job
    <3> QED
      BY <1>1, <3>1, QuietBranch DEF Starting
  <2>7. CASE UNCHANGED vars
    BY <2>1, <2>7 DEF vars
  <2> QED
    BY <2>2, <2>3, <2>4, <2>5, <2>6, <2>7 DEF Next, Advance
<1> QED
  BY <1>2, <1>3 DEF BranchInv

\* Before anything runs nothing is blocked.
LEMMA InitBranch ==
    ASSUME Init
    PROVE  BranchInv
<1>1. /\ workflow = Initial
      /\ \A r \in Run : job[r] = NewJob /\ \A n \in Node : nodeRun[r][n] = "none"
  BY DEF Init
<1>2. \A w \in Workflow : Joins(Initial[w])
  BY ConstantsAssumption, DefinitionsAssumption, DefinitionsJoin
<1>3. GraphsFit
  BY <1>1, <1>2 DEF GraphsFit, NewJob, NoDefinition, Joins
<1>4. ASSUME NEW r \in Run PROVE BranchFits(r)
  <2>1. job[r].plan = <<>> /\ job[r].blocked = {}
    BY <1>1 DEF NewJob
  <2> QED
    BY <1>1, <2>1, ConstantsAssumption
    DEF BranchFits, PlanFits, BlockedFits, OpenFits, SkipsFit, Ran, NodeRunStored
<1> QED
  BY <1>3, <1>4 DEF BranchInv

\* The two arms of a completed branch are not both open.
LEMMA OneArmRuns ==
    ASSUME TypeOK, NEW r \in Run, BranchFits(r), NEW n \in Node, NEW m \in Node, NEW o \in Branch,
           Ran(r, n), Ran(r, m), nodeRun[r][o] = "completed",
           ArmOf(r, n, o, "true"), ArmOf(r, m, o, "false")
    PROVE  FALSE
<1>1. PICK result \in BOOLEAN : Inactive(r, o, result) \subseteq job[r].blocked
  BY DEF BranchFits, BlockedFits
<1>2. PICK e \in job[r].def.edges :
         e.src = o /\ e.handle = "true" /\ InEdges(job[r].def, n) = {e}
  BY DEF ArmOf
<1>3. PICK f \in job[r].def.edges :
         f.src = o /\ f.handle = "false" /\ InEdges(job[r].def, m) = {f}
  BY DEF ArmOf
<1>4. e \notin job[r].blocked /\ f \notin job[r].blocked
  BY <1>2, <1>3 DEF BranchFits, OpenFits
<1>5. e \in OutEdges(job[r].def, o) /\ f \in OutEdges(job[r].def, o)
  BY <1>2, <1>3 DEF OutEdges
<1>6. CASE result = TRUE
  BY <1>1, <1>3, <1>4, <1>5, <1>6 DEF Inactive
<1>7. CASE result = FALSE
  BY <1>1, <1>2, <1>4, <1>5, <1>7 DEF Inactive
<1> QED
  BY <1>6, <1>7

\* Branches decide what runs and what is skipped, through chains of skipped
\* nodes and joins, whatever is edited, deleted, retried or restarted on the
\* way: nothing runs behind skipped nodes only, the two arms of a branch do
\* not both run, and nothing is skipped without a cause.
THEOREM BranchesDecide == Spec => []BranchDecidesSkips
<1>1. Init => BranchInv
  BY InitBranch
<1>2. IInv /\ BranchInv /\ [Next]_vars => BranchInv'
  BY NextBranch
<1>3. IInv /\ BranchInv => BranchDecidesSkips
  <2> SUFFICES ASSUME TypeOK, NEW r \in Run, BranchFits(r), NEW n \in Node
               PROVE  /\ Ran(r, n) /\ InEdges(job[r].def, n) # {} =>
                            \E f \in InEdges(job[r].def, n) : nodeRun[r][f.src] # "skipped"
                      /\ nodeRun[r][n] = "skipped" /\ ~job[r].failed =>
                            /\ InEdges(job[r].def, n) # {}
                            /\ \A f \in InEdges(job[r].def, n) :
                                  \/ f.src \in Branch
                                  \/ nodeRun[r][f.src] = "skipped"
                                  \/ ~NodeStored(f.src)
                      /\ \A m \in Node, o \in Branch :
                            Ran(r, n) /\ Ran(r, m) /\ nodeRun[r][o] = "completed" =>
                                ~(ArmOf(r, n, o, "true") /\ ArmOf(r, m, o, "false"))
    BY DEF BranchDecidesSkips, BranchInv, IInv
  <2>1. Ran(r, n) /\ InEdges(job[r].def, n) # {} =>
           \E f \in InEdges(job[r].def, n) : nodeRun[r][f.src] # "skipped"
    BY DEF BranchFits, OpenFits
  <2>2. nodeRun[r][n] = "skipped" /\ ~job[r].failed =>
           /\ InEdges(job[r].def, n) # {}
           /\ \A f \in InEdges(job[r].def, n) :
                 f.src \in Branch \/ nodeRun[r][f.src] = "skipped" \/ ~NodeStored(f.src)
    BY DEF BranchFits, SkipsFit
  <2> QED
    BY <2>1, <2>2, OneArmRuns
<1> QED
  BY <1>1, <1>2, <1>3, Invariant, PTL DEF Spec

----------------------------------------------------------------------------
(* Inputs. *)

\* A full run and a cascade plan the nodes before a node with it, a retry the
\* nodes behind it; only executeNode looks up the history, and only
\* retryFromFailed another run.
PlanCloses(r) ==
    /\ Kind(r) \in {"workflow", "cascade"} =>
          \A e \in job[r].def.edges : e.dst \in Planned(r) => e.src \in Planned(r)
    /\ Kind(r) = "retry" =>
          \A e \in job[r].def.edges : e.src \in Planned(r) => e.dst \in Planned(r)
    /\ job[r].pc \in {"history", "noHistory"} => Kind(r) = "history"
    /\ job[r].pc = "readRun" => Kind(r) = "retry"

\* The call has the outputs of the rows it completed, and a retry those of the
\* run it retries, in which nothing happens any more.
Done       == Settled \cup {"report"}
HasOutputs == {"create", "prepare", "fetch", "loop", "exec"}

OutputsFit(r) ==
    /\ \A n \in Node : nodeRun[r][n] = "completed" => n \in job[r].outs
    /\ Kind(r) = "retry" /\ job[r].pc \in HasOutputs =>
          /\ job[Retried(r)].pc \in Done
          /\ CompletedNodes(Retried(r)) \cap job[r].def.nodes \subseteq job[r].outs

\* A row points at a node that is stored.
RowsStand(r) == \A n \in Node : NodeRunStored(r, n) => NodeStored(n)

InputsFit(r) == PlanCloses(r) /\ OutputsFit(r) /\ RowsStand(r)

\* The run a retry names is a call.
LEMMA RetriesNameRuns ==
    ASSUME TypeOK, NEW r \in Run, Kind(r) = "retry"
    PROVE  Retried(r) \in Run
BY ConstantsAssumption DEF TypeOK, Kind, Retried

\* A call that is done completes no node any more, whoever takes a step.
LEMMA DoneStays ==
    ASSUME TypeOK, DefinitionsApart, \A r \in Run : RowsFit(r), [Next]_vars,
           NEW s \in Run, job[s].pc \in Done
    PROVE  job'[s].pc \in Done /\ CompletedNodes(s)' \subseteq CompletedNodes(s)
<1> USE DEF Done, Settled
<1>1. SUFFICES /\ job'[s].pc \in Done
               /\ \A n \in Node : nodeRun'[s][n] \in {nodeRun[s][n], "none"}
  BY DEF CompletedNodes
<1>2. ASSUME NEW r \in Run, Start(r)
      PROVE  s # r
  BY <1>2
  DEF Start, StartWorkflow, StartMock, StartCascade, BeginHistory, FindOutput, MissOutput,
      RejectHistory, StartHistory, RefuseRetry, ReadFailedRun, StartRetry,
      WorkflowNotFound, LoadWorkflow, InsertRunFails, InsertRun, At
<1>3. ASSUME NEW r \in Run, Start(r) PROVE <1>1!1
  BY <1>2, <1>3, StartFrame
<1>4. ASSUME NEW r \in Run, Execute(r) PROVE <1>1!1
  <2>1. CASE s # r
    BY <1>4, <2>1, ExecuteFrame
  <2>2. CASE s = r
    <3>1. Report(r)
      BY <1>4, <2>2
      DEF Execute, CreateNodeRuns, FetchNodeRuns, PassOver, SkipBlocked, SkipAfterFailure,
          StartNode, CompleteNode, FailNode, FailToStore, FinishRun, Abort, RowIsGone,
          AtNode, At
    <3>2. job'[r].pc \in {"resolved", "died"} /\ nodeRun' = nodeRun
      BY <3>1 DEF Report, Goto, TypeOK, Job, rows
    <3> QED
      BY <2>2, <3>2
  <2> QED
    BY <2>1, <2>2
<1>5. ASSUME NEW r \in Run, Call(r) \/ Break(r) PROVE <1>1!1
  <2>1. nodeRun' = nodeRun
    BY <1>5, CallFrame
  <2>2. CASE s # r
    BY <1>5, <2>1, <2>2, CallFrame
  <2>3. CASE s = r
    <3>1. Fault(r) /\ job'[r].pc = "died"
      BY <1>5, <2>3
      DEF Call, Break, Refuse, Admit, Fault, FaultAtStart, Die, Goto, At, Starting, TypeOK, Job
    <3> QED
      BY <2>1, <2>3, <3>1
  <2> QED
    BY <2>2, <2>3
<1>6. ASSUME NEW w \in Workflow, Edit(w) PROVE <1>1!1
  BY <1>6, EditKeepsRows
<1>7. CASE Restart
  BY <1>7 DEF Restart, rows, TypeOK, Job
<1>8. CASE UNCHANGED vars
  BY <1>8 DEF vars
<1> QED
  BY <1>3, <1>4, <1>5, <1>6, <1>7, <1>8 DEF Next, Advance

\* No row outlives the node it points at.
LEMMA RowsKeepStanding ==
    ASSUME TypeOK, DefinitionsApart, \A r \in Run : RowsStand(r), [Next]_vars
    PROVE  \A s \in Run : RowsStand(s)'
<1> SUFFICES ASSUME NEW s \in Run, NEW n \in Node, nodeRun'[s][n] # "none"
             PROVE  NodeStored(n)'
  BY DEF RowsStand, NodeRunStored
<1>1. ASSUME workflow' = workflow, nodeRun[s][n] # "none"
      PROVE  NodeStored(n)'
  BY <1>1 DEF RowsStand, NodeRunStored, NodeStored
<1>2. ASSUME NEW r \in Run, Start(r) PROVE NodeStored(n)'
  BY <1>1, <1>2, StartFrame
<1>3. ASSUME NEW r \in Run, Execute(r) PROVE NodeStored(n)'
  <2>1. workflow' = workflow
    BY <1>3, ExecuteFrame
  <2>2. CASE s # r
    BY <1>1, <1>3, <2>1, <2>2, ExecuteFrame
  <2>3. CASE CreateNodeRuns(s)
    <3>1. n \in Planned(s) \/ nodeRun[s][n] # "none"
      BY <2>3 DEF CreateNodeRuns, TypeOK
    <3>2. n \in Planned(s) => NodeStored(n)
      BY <2>3 DEF CreateNodeRuns
    <3> QED
      BY <1>1, <2>1, <3>1, <3>2 DEF NodeStored
  <2>4. CASE s = r /\ ~CreateNodeRuns(s)
    <3>1. CASE FetchNodeRuns(s) \/ PassOver(s) \/ FinishRun(s) \/ Report(s) \/ Abort(s)
      BY <1>1, <2>1, <3>1 DEF FetchNodeRuns, PassOver, FinishRun, Report, Abort, Die, rows
    <3>2. CASE \/ SkipBlocked(s) \/ SkipAfterFailure(s) \/ StartNode(s)
               \/ CompleteNode(s) \/ FailNode(s) \/ FailToStore(s)
      <4>1. NodeRunStored(s, Current(s)) /\ \E status : SetNodeRun(s, Current(s), status)
        BY <3>2 DEF SkipBlocked, SkipAfterFailure, StartNode, CompleteNode, FailNode,
                    FailToStore, AtNode
      <4>2. nodeRun[s][n] # "none"
        BY <4>1 DEF SetNodeRun, NodeRunStored, TypeOK
      <4> QED
        BY <1>1, <2>1, <4>2
    <3> QED
      BY <1>3, <2>4, <3>1, <3>2 DEF Execute
  <2> QED
    BY <2>2, <2>3, <2>4
<1>4. ASSUME NEW r \in Run, Call(r) \/ Break(r) PROVE NodeStored(n)'
  BY <1>1, <1>4, CallFrame
<1>5. ASSUME NEW w \in Workflow, Edit(w) PROVE NodeStored(n)'
  <2>1. CASE DeleteWorkflow(w)
    <3>1. n \notin workflow[w].nodes /\ nodeRun[s][n] # "none"
      BY <2>1 DEF DeleteWorkflow
    <3>2. PICK v \in Workflow : workflow[v] # Deleted /\ n \in workflow[v].nodes
      BY <3>1 DEF RowsStand, NodeRunStored, NodeStored
    <3>3. workflow'[v] = workflow[v]
      BY <2>1, <3>1, <3>2 DEF DeleteWorkflow, TypeOK
    <3> QED
      BY <3>2, <3>3 DEF NodeStored
  <2>2. ASSUME NEW d \in Edits[w], SaveWorkflow(w, d) PROVE NodeStored(n)'
    <3>1. n \notin workflow[w].nodes \ d.nodes /\ nodeRun[s][n] # "none"
      BY <2>2 DEF SaveWorkflow
    <3>2. PICK v \in Workflow : workflow[v] # Deleted /\ n \in workflow[v].nodes
      BY <3>1 DEF RowsStand, NodeRunStored, NodeStored
    <3>3. d # Deleted
      BY ConstantsAssumption
    <3>4. workflow'[v] = IF v = w THEN d ELSE workflow[v]
      BY <2>2 DEF SaveWorkflow, TypeOK
    <3> QED
      BY <3>1, <3>2, <3>3, <3>4 DEF NodeStored
  <2> QED
    BY <1>5, <2>1, <2>2 DEF Edit
<1>6. CASE Restart \/ UNCHANGED vars
  BY <1>1, <1>6 DEF Restart, vars, rows, defs
<1> QED
  BY <1>2, <1>3, <1>4, <1>5, <1>6 DEF Next, Advance

\* A step that keeps the plan of a call and takes no output from it.
LEMMA KeptInputs ==
    ASSUME TypeOK, NEW r \in Run, PlanCloses(r), OutputsFit(r), request' = request,
           job'[r].def = job[r].def, job'[r].plan = job[r].plan,
           job[r].outs \subseteq job'[r].outs,
           \A n \in Node : nodeRun'[r][n] = "completed" =>
              nodeRun[r][n] = "completed" \/ n \in job'[r].outs,
           job'[r].pc \in {"history", "noHistory"} => job[r].pc \in {"history", "noHistory"},
           job'[r].pc = "readRun" => job[r].pc = "readRun",
           job'[r].pc \in HasOutputs => job[r].pc \in HasOutputs,
           \A s \in Run : job[s].pc \in Done =>
              job'[s].pc \in Done /\ CompletedNodes(s)' \subseteq CompletedNodes(s)
    PROVE  PlanCloses(r)' /\ OutputsFit(r)'
<1>1. Kind(r)' = Kind(r) /\ Retried(r)' = Retried(r)
  BY DEF Kind, Retried
<1>2. PlanCloses(r)'
  BY <1>1 DEF PlanCloses, Planned
<1>3. \A n \in Node : nodeRun'[r][n] = "completed" => n \in job'[r].outs
  BY DEF OutputsFit
<1>4. ASSUME Kind(r) = "retry", job'[r].pc \in HasOutputs, NEW q \in Run, q = Retried(r)
      PROVE  /\ job'[q].pc \in Done
             /\ CompletedNodes(q)' \cap job'[r].def.nodes \subseteq job'[r].outs
  <2>1. job[q].pc \in Done /\ CompletedNodes(q) \cap job[r].def.nodes \subseteq job[r].outs
    BY <1>4 DEF OutputsFit
  <2>2. job'[q].pc \in Done /\ CompletedNodes(q)' \subseteq CompletedNodes(q)
    BY <2>1
  <2> QED
    BY <2>1, <2>2
<1>5. OutputsFit(r)'
  BY <1>1, <1>3, <1>4, RetriesNameRuns DEF OutputsFit
<1> QED
  BY <1>2, <1>5

\* The nodes a call may walk over are finitely many.
LEMMA LoadedIsFinite ==
    ASSUME TypeOK, NEW r \in Run
    PROVE  IsFiniteSet(job[r].def.nodes) /\ job[r].def.nodes \in SUBSET Node
<1>1. job[r].def.nodes \in SUBSET Node
  BY DEF TypeOK, Job, Definition
<1> QED
  BY <1>1, FS_Subset, ConstantsAssumption

\* A call without node rows has no output to account for, except a retry.
LEMMA EarlyOutputs ==
    ASSUME NEW r \in Run, \A n \in Node : nodeRun'[r][n] = "none",
           Kind(r)' # "retry" \/ job'[r].pc \notin HasOutputs
    PROVE  OutputsFit(r)'
BY DEF OutputsFit

\* Starting a run plans what the nodes need, or what needs them, and a retry
\* takes the outputs over.
LEMMA StartInputs ==
    ASSUME TypeOK, NEW r \in Run, \A s \in Run : RowsFit(s), Joins(job[r].def), PlanFits(r),
           PlanCloses(r), OutputsFit(r), Start(r),
           \A s \in Run : job[s].pc \in Done =>
              job'[s].pc \in Done /\ CompletedNodes(s)' \subseteq CompletedNodes(s)
    PROVE  PlanCloses(r)' /\ OutputsFit(r)'
<1> USE DEF At, Goto, InsertRun, Launch, HasOutputs
<1>0. /\ job \in [Run -> Job] /\ job[r] \in Job
      /\ IsFiniteSet(job[r].def.nodes) /\ job[r].def.nodes \in SUBSET Node
  BY LoadedIsFinite DEF TypeOK
<1>1. nodeRun' = nodeRun /\ request' = request /\ Kind(r)' = Kind(r) /\ Retried(r)' = Retried(r)
  BY StartFrame DEF Kind, Retried
<1>2. job[r].pc \in Starting => \A n \in Node : nodeRun'[r][n] = "none"
  BY <1>1 DEF RowsFit, NodeRunStored, Starting
<1>3. CASE StartWorkflow(r)
  <2>1. PICK p \in KahnOrders(job[r].def.nodes, job[r].def.edges) : Launch(r, p, {})
    BY <1>3 DEF StartWorkflow
  <2>2. /\ job[r].pc = "create" /\ job'[r].pc = "prepare" /\ job'[r].plan = p
        /\ job'[r].def = job[r].def /\ Kind(r) = "workflow"
    BY <1>0, <1>3, <2>1 DEF StartWorkflow, Job
  <2>3. {p[i] : i \in DOMAIN p} = job[r].def.nodes
    BY <1>0, KahnOrdersAreWhole
  <2>4. PlanCloses(r)'
    BY <1>1, <2>2, <2>3 DEF PlanCloses, Planned, Joins
  <2>5. OutputsFit(r)'
    BY <1>1, <1>2, <2>2, EarlyOutputs DEF Starting
  <2> QED
    BY <2>4, <2>5
<1>4. CASE StartCascade(r)
  <2>1. PICK p \in KahnOrders(Upstream(job[r].def, Target(r)), job[r].def.edges) :
           Launch(r, p, {})
    BY <1>4 DEF StartCascade
  <2>2. /\ job[r].pc = "create" /\ job'[r].pc = "prepare" /\ job'[r].plan = p
        /\ job'[r].def = job[r].def /\ Kind(r) = "cascade"
    BY <1>0, <1>4, <2>1 DEF StartCascade, Job
  <2>3. {p[i] : i \in DOMAIN p} = Upstream(job[r].def, Target(r))
    <3>1. Upstream(job[r].def, Target(r)) \in SUBSET Node
      BY <1>0, WalksStayInside
    <3> QED
      BY <3>1, KahnOrdersAreWhole
  <2>4. \A e \in job[r].def.edges : e.dst \in Upstream(job[r].def, Target(r)) =>
           e.src \in Upstream(job[r].def, Target(r))
    <3>1. CASE Target(r) \in job[r].def.nodes
      BY <1>0, <3>1, UpstreamCloses DEF Joins
    <3>2. CASE Target(r) \notin job[r].def.nodes
      BY <3>2 DEF Upstream
    <3> QED
      BY <3>1, <3>2
  <2>5. PlanCloses(r)'
    BY <1>1, <2>2, <2>3, <2>4 DEF PlanCloses, Planned
  <2>6. OutputsFit(r)'
    BY <1>1, <1>2, <2>2, EarlyOutputs DEF Starting
  <2> QED
    BY <2>5, <2>6
<1>5. CASE StartMock(r) \/ BeginHistory(r) \/ StartHistory(r)
  <2>1. Kind(r) \in {"mock", "history"} /\ job[r].pc \in Starting
    BY <1>5 DEF StartMock, BeginHistory, StartHistory, PlanCloses, Starting
  <2>2. /\ job'[r].pc \in {"history", "noHistory"} => Kind(r) = "history"
        /\ job'[r].pc # "readRun"
    <3>1. CASE StartMock(r)
      BY <1>0, <3>1 DEF StartMock, Job
    <3>2. CASE BeginHistory(r)
      <4>1. job'[r].pc = "history"
        BY <1>0, <3>2 DEF BeginHistory, Job
      <4> QED
        BY <3>2, <4>1 DEF BeginHistory
    <3>3. CASE StartHistory(r)
      BY <1>0, <3>3 DEF StartHistory, Job
    <3> QED
      BY <1>5, <3>1, <3>2, <3>3
  <2>3. PlanCloses(r)'
    BY <1>1, <2>1, <2>2 DEF PlanCloses
  <2>4. OutputsFit(r)'
    BY <1>1, <1>2, <2>1, EarlyOutputs
  <2> QED
    BY <2>3, <2>4
<1>6. CASE LoadWorkflow(r)
  <2>1. /\ job[r].pc = "load" /\ job'[r].plan = job[r].plan
        /\ job'[r].pc = IF Kind(r) = "retry" THEN "readRun" ELSE "create"
    BY <1>0, <1>6 DEF LoadWorkflow, Job
  <2>2. Planned(r)' = {}
    BY <2>1 DEF PlanFits, Planned
  <2>3. PlanCloses(r)'
    BY <1>1, <2>1, <2>2 DEF PlanCloses
  <2>4. OutputsFit(r)'
    BY <1>1, <1>2, <2>1, EarlyOutputs DEF Starting
  <2> QED
    BY <2>3, <2>4
<1>7. CASE ReadFailedRun(r)
  <2>1. PICK n \in FailedNodes(Retried(r)) :
           \E p \in KahnOrders(Downstream(job[r].def, n), job[r].def.edges) :
              job' = [job EXCEPT ![r] = [@ EXCEPT !.pc = "create", !.plan = p,
                                 !.outs = CompletedNodes(Retried(r)) \cap job[r].def.nodes]]
    BY <1>7 DEF ReadFailedRun
  <2>2. PICK p \in KahnOrders(Downstream(job[r].def, n), job[r].def.edges) :
           job' = [job EXCEPT ![r] = [@ EXCEPT !.pc = "create", !.plan = p,
                              !.outs = CompletedNodes(Retried(r)) \cap job[r].def.nodes]]
    BY <2>1
  <2>3. /\ job'[r].pc = "create" /\ job'[r].plan = p /\ job'[r].def = job[r].def
        /\ job'[r].outs = CompletedNodes(Retried(r)) \cap job[r].def.nodes
    BY <1>0, <2>2 DEF Job
  <2>4. {p[i] : i \in DOMAIN p} = Downstream(job[r].def, n)
    <3>1. Downstream(job[r].def, n) \in SUBSET Node
      BY <1>0, WalksStayInside
    <3> QED
      BY <3>1, KahnOrdersAreWhole
  <2>5. \A e \in job[r].def.edges : e.src \in Downstream(job[r].def, n) =>
           e.dst \in Downstream(job[r].def, n)
    <3>1. CASE n \in job[r].def.nodes
      BY <1>0, <3>1, DownstreamCloses DEF Joins
    <3>2. CASE n \notin job[r].def.nodes
      BY <3>2 DEF Downstream
    <3> QED
      BY <3>1, <3>2
  <2>6. Kind(r) = "retry"
    BY <1>7 DEF ReadFailedRun, PlanCloses
  <2>7. PlanCloses(r)'
    BY <1>1, <2>3, <2>4, <2>5, <2>6 DEF PlanCloses, Planned
  <2>8. OutputsFit(r)'
    <3>1. PICK q \in Run : q = Retried(r)
      BY <2>6, RetriesNameRuns
    <3>2. run[q].status = "failed"
      BY <1>7, <3>1 DEF ReadFailedRun, IsRetryable
    <3>3. job[q].pc \in Done
      BY <1>0, <3>2 DEF RowsFit, RunStored, Done, Settled, Job, Places, Starting, Executing
    <3>4. job'[q].pc \in Done /\ CompletedNodes(q)' \subseteq CompletedNodes(q)
      BY <3>3
    <3>5. \A m \in Node : nodeRun'[r][m] = "none"
      BY <1>2, <1>7 DEF ReadFailedRun, Starting
    <3> QED
      BY <1>1, <2>3, <3>1, <3>4, <3>5 DEF OutputsFit
  <2> QED
    BY <2>7, <2>8
<1>8. CASE StartRetry(r)
  <2>1. /\ job[r].pc = "create" /\ job'[r].pc = "prepare" /\ job'[r].plan = job[r].plan
        /\ job'[r].def = job[r].def /\ job'[r].outs = job[r].outs
    BY <1>0, <1>8 DEF StartRetry, Job
  <2> QED
    BY <1>1, <2>1, KeptInputs
<1>9. CASE FindOutput(r)
  <2>1. /\ job[r].pc = "history" /\ job'[r].pc = "history" /\ job'[r].plan = job[r].plan
        /\ job'[r].def = job[r].def /\ job[r].outs \subseteq job'[r].outs
    BY <1>0, <1>9 DEF FindOutput, Job
  <2> QED
    BY <1>1, <2>1, KeptInputs
<1>10. CASE \/ MissOutput(r) \/ RejectHistory(r) \/ RefuseRetry(r)
            \/ WorkflowNotFound(r) \/ InsertRunFails(r)
  <2>1. /\ job'[r].plan = job[r].plan /\ job'[r].def = job[r].def
        /\ job'[r].outs = job[r].outs
        /\ \/ job[r].pc = "history" /\ job'[r].pc = "noHistory"
           \/ job'[r].pc \in {"rejected", "died"}
    BY <1>0, <1>10 DEF MissOutput, RejectHistory, RefuseRetry, WorkflowNotFound,
                       InsertRunFails, Job
  <2> QED
    BY <1>1, <2>1, KeptInputs
<1> QED
  BY <1>3, <1>4, <1>5, <1>6, <1>7, <1>8, <1>9, <1>10 DEF Start

\* A step of executeNodes keeps the output of every node it completes.
LEMMA ExecuteInputs ==
    ASSUME TypeOK, NEW r \in Run, PlanCloses(r), OutputsFit(r), Execute(r),
           \A s \in Run : job[s].pc \in Done =>
              job'[s].pc \in Done /\ CompletedNodes(s)' \subseteq CompletedNodes(s)
    PROVE  PlanCloses(r)' /\ OutputsFit(r)'
<1> USE DEF At, Goto, HasOutputs
<1>0. job \in [Run -> Job] /\ job[r] \in Job
  BY DEF TypeOK
<1>1. request' = request /\ job'[r].def = job[r].def
  BY ExecuteFrame
<1>2. CASE CreateNodeRuns(r)
  <2>1. \A n \in Node : nodeRun'[r][n] \in {"pending", nodeRun[r][n]}
    BY <1>2 DEF CreateNodeRuns, TypeOK
  <2>2. /\ job[r].pc = "prepare" /\ job'[r].pc = "fetch"
        /\ job'[r].plan = job[r].plan /\ job'[r].outs = job[r].outs
    BY <1>0, <1>2 DEF CreateNodeRuns, Job
  <2> QED
    BY <1>1, <2>1, <2>2, KeptInputs
<1>3. CASE FetchNodeRuns(r)
  <2>1. /\ job[r].pc = "fetch" /\ job'[r].pc = "loop" /\ nodeRun' = nodeRun
        /\ job'[r].plan = job[r].plan /\ job'[r].outs = job[r].outs
    BY <1>0, <1>3 DEF FetchNodeRuns, Job, rows
  <2> QED
    BY <1>1, <2>1, KeptInputs
<1>4. CASE PassOver(r)
  <2>1. /\ job[r].pc = "loop" /\ job'[r].pc = "loop" /\ nodeRun' = nodeRun
        /\ job'[r].plan = job[r].plan /\ job'[r].outs = job[r].outs
    BY <1>0, <1>4 DEF PassOver, Job, rows
  <2> QED
    BY <1>1, <2>1, KeptInputs
<1>5. CASE SkipBlocked(r) \/ SkipAfterFailure(r) \/ StartNode(r) \/ FailNode(r) \/ FailToStore(r)
  <2>1. PICK status \in {"skipped", "running", "failed"} : SetNodeRun(r, Current(r), status)
    BY <1>5 DEF SkipBlocked, SkipAfterFailure, StartNode, FailNode, FailToStore
  <2>2. \A n \in Node : nodeRun'[r][n] \in {status, nodeRun[r][n]}
    BY <2>1 DEF SetNodeRun, TypeOK
  <2>3. /\ job[r].pc \in {"loop", "exec"} /\ job'[r].pc \in {"loop", "exec"}
        /\ job'[r].plan = job[r].plan /\ job[r].outs \subseteq job'[r].outs
    <3>1. CASE SkipBlocked(r)
      BY <1>0, <3>1 DEF SkipBlocked, AtNode, Job
    <3>2. CASE SkipAfterFailure(r)
      BY <1>0, <3>2 DEF SkipAfterFailure, AtNode, Job
    <3>3. CASE StartNode(r)
      BY <1>0, <3>3 DEF StartNode, AtNode, Job
    <3>4. CASE FailNode(r)
      BY <1>0, <3>4 DEF FailNode, Job
    <3>5. CASE FailToStore(r)
      <4>1. PICK result \in BOOLEAN :
               job' = [job EXCEPT ![r] = [WithOutput(r, Current(r), result) EXCEPT
                                             !.pc = "loop", !.idx = Past(r), !.failed = TRUE]]
        BY <3>5 DEF FailToStore
      <4>2. job[r].pc = "exec"
        BY <3>5 DEF FailToStore
      <4> QED
        BY <1>0, <4>1, <4>2 DEF WithOutput, Job
    <3> QED
      BY <1>5, <3>1, <3>2, <3>3, <3>4, <3>5
  <2> QED
    BY <1>1, <2>2, <2>3, KeptInputs
<1>6. CASE CompleteNode(r)
  <2>1. PICK result \in BOOLEAN :
           job' = [job EXCEPT ![r] = [WithOutput(r, Current(r), result) EXCEPT
                                         !.pc = "loop", !.idx = Past(r)]]
    BY <1>6 DEF CompleteNode
  <2>2. job[r].pc = "exec" /\ SetNodeRun(r, Current(r), "completed")
    BY <1>6 DEF CompleteNode
  <2>3. /\ job'[r].pc = "loop" /\ job'[r].plan = job[r].plan
        /\ job'[r].outs = job[r].outs \cup {Current(r)}
    BY <1>0, <2>1 DEF WithOutput, Job
  <2>4. \A n \in Node : n = Current(r) \/ nodeRun'[r][n] = nodeRun[r][n]
    BY <2>2 DEF SetNodeRun, TypeOK
  <2> QED
    BY <1>1, <2>2, <2>3, <2>4, KeptInputs
<1>7. CASE FinishRun(r) \/ Report(r) \/ Abort(r)
  <2>1. /\ job'[r].pc \in {"report", "resolved", "died"} /\ nodeRun' = nodeRun
        /\ job'[r].plan = job[r].plan /\ job'[r].outs = job[r].outs
    BY <1>0, <1>7 DEF FinishRun, Report, Abort, Die, Job, rows
  <2> QED
    BY <1>1, <2>1, KeptInputs
<1> QED
  BY <1>2, <1>3, <1>4, <1>5, <1>6, <1>7 DEF Execute

\* A node starts with every input its run has to offer.
LEMMA NextInputs ==
    ASSUME IInv, BranchInv, \A r \in Run : InputsFit(r), [Next]_vars
    PROVE  \A s \in Run : InputsFit(s)'
<1>1. /\ TypeOK /\ DefinitionsApart
      /\ \A r \in Run : /\ RunInv(r) /\ RowsFit(r) /\ PlanFits(r) /\ Joins(job[r].def)
                        /\ PlanCloses(r) /\ OutputsFit(r) /\ RowsStand(r)
  BY RunInvIsEngineInv DEF IInv, BranchInv, BranchFits, GraphsFit, InputsFit, RunInv
<1>2. \A s \in Run : RowsStand(s)'
  BY <1>1, RowsKeepStanding
<1>3. \A s \in Run : job[s].pc \in Done =>
         job'[s].pc \in Done /\ CompletedNodes(s)' \subseteq CompletedNodes(s)
  BY <1>1, DoneStays
<1>4. ASSUME NEW s \in Run PROVE PlanCloses(s)' /\ OutputsFit(s)'
  <2>1. ASSUME job'[s] = job[s], request' = request,
               \A n \in Node : nodeRun'[s][n] \in {nodeRun[s][n], "none"}
        PROVE  PlanCloses(s)' /\ OutputsFit(s)'
    BY <1>1, <1>3, <2>1, KeptInputs
  <2>2. ASSUME NEW r \in Run, Start(r) PROVE PlanCloses(s)' /\ OutputsFit(s)'
    <3>1. CASE s = r
      BY <1>1, <1>3, <2>2, <3>1, StartInputs
    <3>2. CASE s # r
      BY <1>1, <2>1, <2>2, <3>2, StartFrame
    <3> QED
      BY <3>1, <3>2
  <2>3. ASSUME NEW r \in Run, Execute(r) PROVE PlanCloses(s)' /\ OutputsFit(s)'
    <3>1. CASE s = r
      BY <1>1, <1>3, <2>3, <3>1, ExecuteInputs
    <3>2. CASE s # r
      BY <1>1, <2>1, <2>3, <3>2, ExecuteFrame
    <3> QED
      BY <3>1, <3>2
  <2>4. ASSUME NEW r \in Run, Call(r) \/ Break(r) PROVE PlanCloses(s)' /\ OutputsFit(s)'
    <3>1. request' = request /\ nodeRun' = nodeRun
      BY <1>1, <2>4, CallFrame
    <3>2. PICK at \in {"load", "rejected", "died"} : job' = [job EXCEPT ![r].pc = at]
      BY <2>4 DEF Call, Break, Refuse, Admit, Fault, Die, FaultAtStart, Goto
    <3>3. /\ job'[s].def = job[s].def /\ job'[s].plan = job[s].plan
          /\ job'[s].outs = job[s].outs /\ job'[s].pc \in {job[s].pc, "load", "rejected", "died"}
      BY <1>1, <3>2 DEF TypeOK, Job
    <3> QED
      BY <1>1, <1>3, <3>1, <3>3, KeptInputs DEF HasOutputs
  <2>5. ASSUME NEW w \in Workflow, Edit(w) PROVE PlanCloses(s)' /\ OutputsFit(s)'
    <3>1. job' = job /\ \A n \in Node : nodeRun'[s][n] \in {nodeRun[s][n], "none"}
      BY <1>1, <2>5, EditKeepsRows
    <3>2. request' = request
      BY <2>5 DEF Edit, SaveWorkflow, DeleteWorkflow
    <3> QED
      BY <2>1, <3>1, <3>2
  <2>6. CASE Restart
    <3>1. /\ job'[s].def = job[s].def /\ job'[s].plan = job[s].plan
          /\ job'[s].outs = job[s].outs /\ job'[s].pc \in {job[s].pc, "lost"}
          /\ nodeRun' = nodeRun /\ request' = request
      BY <1>1, <2>6 DEF Restart, rows, TypeOK, Job
    <3> QED
      BY <1>1, <1>3, <3>1, KeptInputs DEF HasOutputs
  <2>7. CASE UNCHANGED vars
    BY <2>1, <2>7 DEF vars
  <2> QED
    BY <2>2, <2>3, <2>4, <2>5, <2>6, <2>7 DEF Next, Advance
<1> QED
  BY <1>2, <1>4 DEF InputsFit

\* Whatever node before the current one its plan leaves out, or did not
\* complete, there is a reason for it.
LEMMA InputsAreThere ==
    ASSUME TypeOK, NEW r \in Run, RunInv(r), Joins(job[r].def), PlanFits(r), InputsFit(r),
           At(r, "exec"), Kind(r) \in {"workflow", "cascade", "retry"},
           NEW m \in Upstream(job[r].def, Current(r)),
           m \notin job[r].outs, m # Current(r)
    PROVE  IF m \in Planned(r) THEN nodeRun[r][m] \in {"skipped", "none"}
           ELSE Kind(r) = "retry" /\ nodeRun[Retried(r)][m] # "completed"
<1> DEFINE c == Current(r)
           def == job[r].def
           plan == job[r].plan
           Before == {n \in def.nodes : /\ \A i \in DOMAIN plan : plan[i] = n => i <= job[r].idx + 1
                                        /\ Kind(r) = "retry" \/ n \in Planned(r)}
<1>1. /\ job[r].idx \in Nat /\ job[r].idx + 1 \in DOMAIN plan /\ c = plan[job[r].idx + 1]
      /\ DOMAIN plan \subseteq Nat /\ Planned(r) = {plan[i] : i \in DOMAIN plan}
  BY DEF RunInv, MemoryFits, TypeOK, Job, AtEnd, Current, Planned
<1>2. c \in def.nodes /\ m \in def.nodes /\ m \in Node
  <2>1. def.nodes \subseteq Node
    BY DEF TypeOK, Job, Definition
  <2> QED
    BY <2>1, WalksStayInside DEF Upstream
<1>3. c \in Before
  <2>1. \A i \in DOMAIN plan : plan[i] = c => i = job[r].idx + 1
    BY <1>1 DEF RunInv, MemoryFits
  <2> QED
    BY <1>1, <1>2, <2>1
<1>4. ASSUME NEW e \in def.edges, e.dst \in Before
      PROVE  e.src \in Before
  <2>1. e.src \in Planned(r) => e.dst \in Planned(r)
    BY <1>4 DEF InputsFit, PlanCloses
  <2>2. Kind(r) # "retry" => e.src \in Planned(r)
    BY <1>4 DEF InputsFit, PlanCloses
  <2>3. ASSUME NEW i \in DOMAIN plan, plan[i] = e.src
        PROVE  i <= job[r].idx + 1
    <3>1. PICK j \in DOMAIN plan : plan[j] = e.dst
      BY <1>1, <2>1, <2>3
    <3>2. HasEdge(def.edges, plan[i], plan[j])
      BY <2>3, <3>1 DEF HasEdge
    <3>3. i < j
      BY <3>2 DEF PlanFits
    <3>4. j <= job[r].idx + 1
      BY <1>4, <3>1
    <3> QED
      BY <1>1, <3>3, <3>4
  <2> QED
    BY <2>2, <2>3 DEF Joins
<1>5. m \in Before
  <2> HIDE DEF Before
  <2>1. Upstream(def, c) \subseteq Before
    BY <1>2, <1>3, <1>4, LoadedIsFinite, UpstreamCloses
  <2> QED
    BY <2>1
<1>6. CASE m \in Planned(r)
  <2>1. PICK i \in DOMAIN plan : plan[i] = m
    BY <1>1, <1>6
  <2>2. i <= job[r].idx + 1 /\ i # job[r].idx + 1
    BY <1>1, <1>5, <2>1
  <2>3. i <= job[r].idx
    BY <1>1, <2>2
  <2>4. nodeRun[r][m] \notin {"completed", "failed", "running"}
    BY <1>2 DEF InputsFit, OutputsFit, RunInv, MemoryFits, LoopFits, At
  <2>5. nodeRun[r][m] # "pending"
    <3> SUFFICES ASSUME nodeRun[r][m] = "pending" PROVE FALSE
      OBVIOUS
    <3>1. RunStored(r) /\ NodeStored(m)
      BY <1>2 DEF InputsFit, RowsStand, RunInv, RowsFit, NodeRunStored
    <3>2. nodeRun[r][m] \in {"completed", "skipped", "failed"}
      BY <1>2, <2>1, <2>3, <3>1 DEF RunInv, NoneLeftBehind, At
    <3> QED
      BY <3>2
  <2>6. nodeRun[r][m] \in NodeRunStatus
    BY <1>2 DEF TypeOK
  <2> QED
    BY <1>6, <2>4, <2>5, <2>6 DEF NodeRunStatus
<1>7. CASE m \notin Planned(r)
  <2>1. Kind(r) = "retry"
    BY <1>5, <1>7
  <2>2. CompletedNodes(Retried(r)) \cap def.nodes \subseteq job[r].outs
    BY <2>1 DEF InputsFit, OutputsFit, At, HasOutputs
  <2> QED
    BY <1>2, <1>7, <2>1, <2>2 DEF CompletedNodes
<1> QED
  BY <1>6, <1>7

\* A node never starts without an upstream output its templates name, unless
\* its run skipped that node or retries a run that had not completed it,
\* however edits, deletions, other runs and restarts fall in between.
THEOREM InputsAreExplained == Spec => []MissingInputsExplained
<1> DEFINE AllFit == \A r \in Run : InputsFit(r)
<1>1. Init => IInv /\ BranchInv
  BY InitTypes, InitInv, InitBranch DEF IInv
<1>2. Init => AllFit
  BY DEF Init, InputsFit, PlanCloses, OutputsFit, RowsStand, NewJob, NoDefinition, HasOutputs,
         NodeRunStored
<1>3. IInv /\ [Next]_vars => IInv'
  BY NextTypes, NextInv DEF IInv
<1>4. IInv /\ BranchInv /\ [Next]_vars => BranchInv'
  BY NextBranch
<1>5. IInv /\ BranchInv /\ AllFit /\ [Next]_vars => AllFit'
  BY NextInputs
<1>6. IInv /\ BranchInv /\ AllFit => MissingInputsExplained
  BY RunInvIsEngineInv, InputsAreThere
  DEF IInv, BranchInv, BranchFits, GraphsFit, MissingInputsExplained
<1> QED
  BY <1>1, <1>2, <1>3, <1>4, <1>5, <1>6, PTL DEF Spec

----------------------------------------------------------------------------
(* The validator: dagValidator.ts for every list of rows.  Its variables are *)
(* apart from those of the engine, which takes the orders of KahnOrders.     *)

Contains(s, x) == \E i \in DOMAIN s : s[i] = x
NoRepeats(s)   == \A i, j \in DOMAIN s : s[i] = s[j] => i = j

\* The members of s that are in T, in their order, up to each position.
IsFilter(f, s, T, N) ==
    f = [k \in 0..N |-> IF k = 0 THEN <<>>
                        ELSE IF s[k] \in T THEN Append(f[k - 1], s[k])
                        ELSE f[k - 1]]

LEMMA FiltersExist ==
    ASSUME NEW s, NEW T, NEW N \in Nat
    PROVE  \E f : IsFilter(f, s, T, N)
<1> DEFINE U == {k \in Nat : ~ \E f : IsFilter(f, s, T, k)}
<1>1. SUFFICES ASSUME U # {} PROVE FALSE
  OBVIOUS
<1>2. PICK k \in U : \A j \in U : k <= j
  <2> HIDE DEF U
  <2>1. U \in SUBSET Nat
    BY DEF U
  <2> QED
    BY <1>1, <2>1, LeastNumber
<1>3. k # 0
  <2>1. IsFilter([i \in 0..0 |-> <<>>], s, T, 0)
    BY DEF IsFilter
  <2> QED
    BY <2>1
<1>4. k - 1 \in Nat /\ k - 1 \notin U
  <2>1. k \in Nat /\ k - 1 \in Nat /\ ~(k <= k - 1)
    BY <1>3
  <2> QED
    BY <1>2, <2>1
<1>5. PICK f : IsFilter(f, s, T, k - 1)
  BY <1>4
<1> DEFINE next == IF s[k] \in T THEN Append(f[k - 1], s[k]) ELSE f[k - 1]
           g == [i \in 0..k |-> IF i = k THEN next ELSE f[i]]
<1>6. IsFilter(g, s, T, k)
  <2>1. ASSUME NEW i \in 0..k
        PROVE  g[i] = IF i = 0 THEN <<>>
                      ELSE IF s[i] \in T THEN Append(g[i - 1], s[i])
                      ELSE g[i - 1]
    <3>1. CASE i = k
      <4>1. k - 1 \in 0..k /\ k - 1 # k /\ g[k - 1] = f[k - 1]
        BY <1>3, <1>4
      <4>2. g[k] = next
        BY <1>3
      <4> QED
        BY <1>3, <3>1, <4>1, <4>2
    <3>2. CASE i # k
      <4>1. i \in 0..(k - 1) /\ g[i] = f[i]
        BY <1>4, <3>2
      <4>2. i # 0 => i - 1 \in 0..k /\ i - 1 # k /\ g[i - 1] = f[i - 1]
        BY <3>2
      <4>3. f[i] = IF i = 0 THEN <<>>
                   ELSE IF s[i] \in T THEN Append(f[i - 1], s[i])
                   ELSE f[i - 1]
        BY <1>5, <4>1 DEF IsFilter
      <4> QED
        BY <4>1, <4>2, <4>3
    <3> QED
      BY <3>1, <3>2
  <2>2. g = [i \in 0..k |-> g[i]]
    OBVIOUS
  <2> HIDE DEF g
  <2> QED
    BY <2>1, <2>2 DEF IsFilter
<1> QED
  BY <1>2, <1>6

\* The members of s up to position k that are in T, once each.
Filters(g, S, s, T, k) ==
    /\ g \in Seq(S) /\ NoRepeats(g)
    /\ \A x : Contains(g, x) <=> x \in T /\ \E j \in 1..k : s[j] = x

\* A filter has the members of s up to its position that are in T, once.
LEMMA FilterKeeps ==
    ASSUME NEW S, NEW s \in Seq(S), NoRepeats(s), NEW T,
           NEW f, IsFilter(f, s, T, Len(s))
    PROVE  \A k \in 0..Len(s) : Filters(f[k], S, s, T, k)
<1> DEFINE N == Len(s)
           U == {k \in 0..N : ~Filters(f[k], S, s, T, k)}
<1> USE DEF Filters
<1>0. N \in Nat /\ DOMAIN s = 1..N /\ \A j \in 1..N : s[j] \in S
  OBVIOUS
<1>1. SUFFICES ASSUME U # {} PROVE FALSE
  OBVIOUS
<1>2. PICK k \in U : \A j \in U : k <= j
  <2> HIDE DEF U
  <2>1. U \in SUBSET Nat
    BY <1>0 DEF U
  <2> QED
    BY <1>1, <2>1, LeastNumber
<1>3. k # 0
  <2>1. f[0] = <<>>
    BY <1>0 DEF IsFilter
  <2>2. Filters(f[0], S, s, T, 0)
    BY <2>1 DEF Contains, NoRepeats
  <2> QED
    BY <2>2
<1>4. k \in 1..N /\ k - 1 \in 0..N /\ ~(k <= k - 1)
  BY <1>0, <1>3
<1>5. Filters(f[k - 1], S, s, T, k - 1)
  BY <1>2, <1>4
<1>6. f[k] = IF s[k] \in T THEN Append(f[k - 1], s[k]) ELSE f[k - 1]
  BY <1>3, <1>4 DEF IsFilter
<1>7. \A x : (\E j \in 1..k : s[j] = x) <=> s[k] = x \/ \E j \in 1..(k - 1) : s[j] = x
  BY <1>4
<1>8. CASE s[k] \notin T
  BY <1>2, <1>5, <1>6, <1>7, <1>8
<1>9. CASE s[k] \in T
  <2> DEFINE h == f[k - 1]
  <2>1. h \in Seq(S) /\ f[k] = Append(h, s[k]) /\ s[k] \in S
    BY <1>0, <1>4, <1>5, <1>6, <1>9
  <2>2. ~Contains(h, s[k])
    <3>1. \A j \in 1..(k - 1) : s[j] # s[k]
      BY <1>0, <1>4 DEF NoRepeats
    <3> QED
      BY <1>5, <3>1
  <2>3. /\ f[k] \in Seq(S) /\ DOMAIN f[k] = 1..(Len(h) + 1) /\ Len(h) \in Nat /\ DOMAIN h = 1..Len(h)
        /\ f[k][Len(h) + 1] = s[k] /\ \A i \in 1..Len(h) : f[k][i] = h[i]
    BY <2>1
  <2>4. NoRepeats(h)
    BY <1>5
  <2>5. NoRepeats(f[k])
    <3> HIDE DEF h
    <3> QED
      BY <2>2, <2>3, <2>4 DEF NoRepeats, Contains
  <2>6. \A x : Contains(f[k], x) <=> x = s[k] \/ Contains(h, x)
    <3> HIDE DEF h
    <3> QED
      BY <2>3 DEF Contains
  <2>7. Filters(f[k], S, s, T, k)
    BY <1>5, <1>7, <1>9, <2>3, <2>5, <2>6
  <2> QED
    BY <1>2, <2>7
<1> QED
  BY <1>8, <1>9

\* The roots the sort starts from are the nodes no row leads to, once each.
LEMMA RootsFound ==
    ASSUME input.nodes \in Seq(Id), NoRepeats(input.nodes), NEW S
    PROVE  /\ Roots(S) \in Seq(Id) /\ NoRepeats(Roots(S))
           /\ \A x : Contains(Roots(S), x) <=>
                        x \in S /\ x \in nodeIds /\ InRows(S, x) = {}
<1> DEFINE N == Len(input.nodes)
           T == {n \in S : InRows(S, n) = {}}
           Found(f) == f = [k \in 0..Len(input.nodes) |->
                              IF k = 0 THEN <<>>
                              ELSE IF input.nodes[k] \in S /\ InRows(S, input.nodes[k]) = {}
                                   THEN Append(f[k - 1], input.nodes[k])
                                   ELSE f[k - 1]]
           found == CHOOSE f : Found(f)
<1>1. Roots(S) = found[N]
  BY DEF Roots
<1>2. N \in Nat /\ DOMAIN input.nodes = 1..N
  OBVIOUS
<1>3. \A f : Found(f) <=> IsFilter(f, input.nodes, T, N)
  BY DEF IsFilter
<1> HIDE DEF T
<1>4. \E f : Found(f)
  <2> HIDE DEF Found
  <2> QED
    BY <1>2, <1>3, FiltersExist
<1>5. Found(found)
  <2> HIDE DEF Found
  <2> QED
    BY <1>4
<1> HIDE DEF Found, found
<1>6. \A k \in 0..N : Filters(found[k], Id, input.nodes, T, k)
  <2>1. IsFilter(found, input.nodes, T, Len(input.nodes))
    BY <1>3, <1>5
  <2> QED
    BY <2>1, FilterKeeps
<1>7. \A x : x \in nodeIds <=> \E j \in 1..N : input.nodes[j] = x
  BY <1>2 DEF nodeIds
<1>8. N \in 0..N
  BY <1>2
<1> HIDE DEF N
<1> QED
  BY <1>1, <1>6, <1>7, <1>8 DEF T, Filters

----------------------------------------------------------------------------
(* The walk of getDownstreamNodes and getUpstreamNodes. *)

Walking == {"begin", "walk", "empty"}

ValidatorShape ==
    /\ input \in Input /\ NoRepeats(input.nodes)
    /\ pc \in {"begin", "walk", "sort"} \cup Returned
    /\ visited \subseteq nodeIds
    /\ queue \in Seq(visited) /\ sorted \in Seq(visited)
    /\ cursor \in 1..(Len(input.edges) + 1)
    /\ inDegree \in [Id -> Int]
    /\ pc \in Walking => sorted = <<>>
    /\ pc = "begin" => ~InnerLoop
    /\ InnerLoop => current \in visited

\* What a node already shifted leads to is visited: of the last one, by the
\* rows before the cursor.
Followed ==
    \A m \in visited, i \in positions :
        LET e == input.edges[i]
        IN  /\ ~Contains(queue, m) /\ Near(e) = m /\ (m = current => i < cursor)
            /\ Far(e) \in nodeIds
            => Far(e) \in visited

WalkFits ==
    /\ pc = "walk" =>
          /\ input.fn # "topologicalSort"
          /\ input.target \in visited
          /\ visited \subseteq Asked
          /\ Followed
    /\ pc \notin Walking => visited = Asked

LEMMA InputFields ==
    ASSUME input \in Input
    PROVE  /\ input.nodes \in Seq(Id) /\ input.target \in Id
           /\ input.fn \in Functions
           /\ Len(input.edges) \in Nat /\ positions = 1..Len(input.edges)
           /\ \A i \in positions : input.edges[i] \in [src : Id, dst : Id]
           /\ nodeIds \subseteq Id
<1> DEFINE Row == [src : Id, dst : Id]
<1>1. input.edges \in Seq(Row)
  BY DEF Input
<1>2. input.nodes \in Seq(Id) /\ input.target \in Id /\ input.fn \in Functions
  BY DEF Input
<1>3. \A i \in DOMAIN input.nodes : input.nodes[i] \in Id
  BY <1>2
<1>4. nodeIds \subseteq Id
  BY <1>3 DEF nodeIds
<1>5. Len(input.edges) \in Nat /\ positions = 1..Len(input.edges)
  BY <1>1 DEF positions
<1>6. \A i \in positions : input.edges[i] \in Row
  <2> HIDE DEF Row
  <2> QED
    BY <1>1 DEF positions
<1> QED
  BY <1>2, <1>4, <1>5, <1>6

LEMMA NodesAreFinite ==
    ASSUME input \in Input
    PROVE  IsFiniteSet(nodeIds)
<1> DEFINE N == Len(input.nodes)
<1>1. N \in Nat /\ DOMAIN input.nodes = 1..N /\ input.nodes \in Seq(Id)
  BY InputFields
<1>2. IsFiniteSet(1..N)
  BY <1>1, FS_Interval
<1>3. input.nodes \in [1..N -> nodeIds]
  BY <1>1 DEF nodeIds
<1>4. input.nodes \in Surjection(1..N, nodeIds)
  BY <1>1, <1>3 DEF Surjection, nodeIds
<1> QED
  BY <1>2, <1>4, FS_Surjection

\* Which node the walk looks at from another one.
Leads(m, n) ==
    \E i \in positions : Near(input.edges[i]) = m /\ Far(input.edges[i]) = n

\* The nodes asked for are the target, those it leads to, and no more.
LEMMA AskedCloses ==
    ASSUME input \in Input, input.fn # "topologicalSort",
           input.target \in nodeIds
    PROVE  /\ input.target \in Asked
           /\ Asked \subseteq nodeIds
           /\ \A m \in Asked, n \in nodeIds :
                 Leads(m, n) => n \in Asked
           /\ \A X :
                 /\ input.target \in X
                 /\ \A m \in X \cap nodeIds, n \in nodeIds : Leads(m, n) => n \in X
                 => Asked \subseteq X
<1> DEFINE G == Given
           S == nodeIds
           t == input.target
<1>1. G.nodes = S /\ IsFiniteSet(G.nodes)
  BY NodesAreFinite DEF Given
<1>2. \A e \in G.edges : e.src \in S /\ e.dst \in S
  BY DEF Given
<1>3. \A m, n \in S : (\E e \in G.edges : e.src = m /\ e.dst = n)
                         <=> \E i \in positions : input.edges[i].src = m /\ input.edges[i].dst = n
  BY DEF Given
<1>4. CASE input.fn = "getUpstreamNodes"
  <2>1. Asked = Upstream(G, t)
    BY <1>4 DEF Asked
  <2>2. \A m, n \in S : Leads(m, n) <=> \E e \in G.edges : e.src = n /\ e.dst = m
    BY <1>3, <1>4 DEF Leads, Near, Far
  <2> HIDE DEF G
  <2>3. /\ t \in Upstream(G, t)
        /\ \A e \in G.edges : e.src \in G.nodes /\ e.dst \in Upstream(G, t) => e.src \in Upstream(G, t)
        /\ \A X : t \in X /\ (\A e \in G.edges : e.src \in G.nodes /\ e.dst \in X => e.src \in X)
                     => Upstream(G, t) \subseteq X
    BY <1>1, UpstreamCloses
  <2>4. Upstream(G, t) \subseteq S
    BY <1>1 DEF Upstream, Closure
  <2>5. ASSUME NEW m \in Upstream(G, t), NEW n \in S, Leads(m, n)
        PROVE  n \in Upstream(G, t)
    BY <1>1, <2>2, <2>3, <2>4, <2>5
  <2>6. ASSUME NEW X, t \in X,
               \A m \in X \cap S, n \in S : Leads(m, n) => n \in X
        PROVE  Upstream(G, t) \subseteq X
    <3>1. ASSUME NEW e \in G.edges, e.dst \in X
          PROVE  e.src \in X
      BY <1>2, <2>2, <2>6, <3>1
    <3> QED
      BY <2>3, <2>6, <3>1
  <2> QED
    BY <2>1, <2>3, <2>4, <2>5, <2>6
<1>5. CASE input.fn = "getDownstreamNodes"
  <2>1. Asked = Downstream(G, t)
    BY <1>5 DEF Asked
  <2>2. \A m, n \in S : Leads(m, n) <=> \E e \in G.edges : e.src = m /\ e.dst = n
    BY <1>3, <1>5 DEF Leads, Near, Far
  <2> HIDE DEF G
  <2>3. /\ t \in Downstream(G, t)
        /\ \A e \in G.edges :
              e.dst \in G.nodes /\ e.src \in Downstream(G, t) => e.dst \in Downstream(G, t)
        /\ \A X : t \in X /\ (\A e \in G.edges : e.dst \in G.nodes /\ e.src \in X => e.dst \in X)
                     => Downstream(G, t) \subseteq X
    BY <1>1, DownstreamCloses
  <2>4. Downstream(G, t) \subseteq S
    BY <1>1 DEF Downstream, Closure
  <2>5. ASSUME NEW m \in Downstream(G, t), NEW n \in S, Leads(m, n)
        PROVE  n \in Downstream(G, t)
    BY <1>1, <2>2, <2>3, <2>4, <2>5
  <2>6. ASSUME NEW X, t \in X,
               \A m \in X \cap S, n \in S : Leads(m, n) => n \in X
        PROVE  Downstream(G, t) \subseteq X
    <3>1. ASSUME NEW e \in G.edges, e.src \in X
          PROVE  e.dst \in X
      BY <1>2, <2>2, <2>6, <3>1
    <3> QED
      BY <2>3, <2>6, <3>1
  <2> QED
    BY <2>1, <2>3, <2>4, <2>5, <2>6
<1> QED
  BY <1>4, <1>5, InputFields DEF Functions

----------------------------------------------------------------------------
(* The shape of a call. *)

LEMMA InRowsAreFinite ==
    ASSUME input \in Input, NEW S, NEW n
    PROVE  /\ IsFiniteSet(InRows(S, n))
           /\ Cardinality(InRows(S, n)) \in Nat
<1>1. IsFiniteSet(positions)
  BY InputFields, FS_Interval
<1>2. InRows(S, n) \in SUBSET positions
  BY DEF InRows
<1> QED
  BY <1>1, <1>2, FS_Subset, FS_CardinalityType

\* A sequence over one set whose members are in another is one over that.
LEMMA MembersDecide ==
    ASSUME NEW T, NEW S, NEW s \in Seq(T), \A i \in DOMAIN s : s[i] \in S
    PROVE  s \in Seq(S)
OBVIOUS

LEMMA BeginSortShape ==
    ASSUME ValidatorShape, pc \in {"begin", "walk"}, ~InnerLoop,
           NEW S \in SUBSET nodeIds, BeginSort(S)
    PROVE  ValidatorShape'
<1> USE DEF ValidatorShape
<1>1. /\ pc' = "sort" /\ visited' = S /\ queue' = Roots(S)
      /\ inDegree' = Degrees(S)
      /\ input' = input /\ current' = current /\ cursor' = cursor /\ sorted' = <<>>
  BY DEF BeginSort, Walking
<1>2. nodeIds' = nodeIds /\ InnerLoop' = InnerLoop
  BY <1>1 DEF nodeIds, InnerLoop
<1>3. Roots(S) \in Seq(S)
  <2>1. /\ Roots(S) \in Seq(Id)
        /\ \A x : Contains(Roots(S), x) => x \in S
    BY InputFields, RootsFound
  <2>2. \A i \in DOMAIN Roots(S) : Roots(S)[i] \in S
    BY <2>1 DEF Contains
  <2> QED
    BY <2>1, <2>2, MembersDecide
<1>4. Degrees(S) \in [Id -> Int]
  BY InRowsAreFinite DEF Degrees
<1>5. <<>> \in Seq(S)
  OBVIOUS
<1>6. input' \in Input /\ NoRepeats(input'.nodes)
  BY <1>1
<1>7. cursor' \in 1..(Len(input'.edges) + 1)
  BY <1>1
<1> QED
  BY <1>1, <1>2, <1>3, <1>4, <1>5, <1>6, <1>7 DEF Walking

\* The inner loop looks at a row.
LEMMA RowAtCursor ==
    ASSUME ValidatorShape, InnerLoop
    PROVE  /\ cursor \in positions /\ edge = input.edges[cursor]
           /\ edge.src \in Id /\ edge.dst \in Id
           /\ cursor + 1 \in 1..(Len(input.edges) + 1)
<1>1. cursor \in positions
  BY InputFields DEF ValidatorShape, InnerLoop
<1>2. cursor + 1 \in 1..(Len(input.edges) + 1)
  BY InputFields DEF ValidatorShape, InnerLoop
<1>3. input.edges[cursor] \in [src : Id, dst : Id]
  BY <1>1, InputFields DEF ValidatorShape
<1> QED
  BY <1>1, <1>2, <1>3 DEF edge

LEMMA ShapeSteps ==
    ASSUME ValidatorShape, SortNext
    PROVE  ValidatorShape'
<1> USE DEF ValidatorShape
<1>0. input \in Input /\ Len(input.edges) \in Nat
  BY InputFields
<1>1. CASE SortAll
  <2>1. pc = "begin" /\ ~InnerLoop
    BY <1>1 DEF SortAll
  <2>2. nodeIds \in SUBSET nodeIds
    OBVIOUS
  <2> QED
    BY <1>1, <2>1, <2>2, BeginSortShape DEF SortAll
<1>2. CASE UnknownTarget
  BY <1>2 DEF UnknownTarget, nodeIds, InnerLoop, Returned, Walking
<1>3. CASE BeginWalk
  <2>1. /\ pc = "begin" /\ pc' = "walk" /\ visited' = {input.target} /\ queue' = <<input.target>>
        /\ input' = input /\ current' = current /\ cursor' = cursor
        /\ inDegree' = inDegree /\ sorted' = sorted /\ sorted = <<>>
        /\ input.target \in nodeIds
    BY <1>3 DEF BeginWalk, Walking
  <2>2. queue' \in Seq(visited') /\ sorted' \in Seq(visited')
    BY <2>1
  <2>3. nodeIds' = nodeIds /\ ~InnerLoop'
    BY <2>1 DEF nodeIds, InnerLoop
  <2> QED
    BY <2>1, <2>2, <2>3
<1>4. CASE ShiftToWalk
  <2>1. /\ pc = "walk" /\ pc' = pc /\ visited' = visited /\ queue # <<>> /\ queue' = Tail(queue)
        /\ current' = Head(queue) /\ cursor' = 1
        /\ input' = input /\ inDegree' = inDegree /\ sorted' = sorted
    BY <1>4 DEF ShiftToWalk, Shift
  <2>2. queue' \in Seq(visited') /\ current' \in visited'
    BY <2>1
  <2>3. nodeIds' = nodeIds
    BY <2>1 DEF nodeIds
  <2>4. cursor' \in 1..(Len(input'.edges) + 1)
    BY <1>0, <2>1
  <2> QED
    BY <2>1, <2>2, <2>3, <2>4
<1>5. CASE WalkEdge
  <2> DEFINE far == Far(edge)
             isNew == Near(edge) = current /\ far \in nodeIds \ visited
  <2>1. /\ pc = "walk" /\ pc' = pc /\ InnerLoop
        /\ visited' = IF isNew THEN visited \cup {far} ELSE visited
        /\ queue' = IF isNew THEN Append(queue, far) ELSE queue
        /\ cursor' = cursor + 1
        /\ input' = input /\ current' = current /\ inDegree' = inDegree /\ sorted' = sorted
    BY <1>5 DEF WalkEdge
  <2> HIDE DEF far
  <2>2. visited' \subseteq nodeIds /\ visited \subseteq visited'
    BY <2>1
  <2>3. queue \in Seq(visited') /\ sorted' \in Seq(visited')
    BY <2>1, <2>2, MembersDecide
  <2>4. queue' \in Seq(visited')
    <3>1. CASE isNew
      <4>1. queue' = Append(queue, far) /\ far \in visited'
        BY <2>1, <3>1
      <4> HIDE DEF isNew
      <4> QED
        BY <2>3, <4>1
    <3>2. CASE ~isNew
      <4>1. queue' = queue
        BY <2>1, <3>2
      <4> QED
        BY <2>3, <4>1
    <3> QED
      BY <3>1, <3>2
  <2>5. nodeIds' = nodeIds
    BY <2>1 DEF nodeIds
  <2>6. cursor' \in 1..(Len(input'.edges) + 1)
    BY <2>1, RowAtCursor
  <2>7. current' \in visited'
    BY <2>1, <2>2
  <2> QED
    BY <2>1, <2>2, <2>3, <2>4, <2>5, <2>6, <2>7
<1>6. CASE EndWalk
  <2>1. pc = "walk" /\ ~InnerLoop /\ visited \in SUBSET nodeIds
    BY <1>6 DEF EndWalk
  <2> QED
    BY <1>6, <2>1, BeginSortShape DEF EndWalk
<1>7. CASE ShiftToSorted
  <2>1. /\ pc = "sort" /\ pc' = pc /\ visited' = visited /\ queue # <<>> /\ queue' = Tail(queue)
        /\ current' = Head(queue) /\ cursor' = 1 /\ sorted' = Append(sorted, Head(queue))
        /\ input' = input /\ inDegree' = inDegree
    BY <1>7 DEF ShiftToSorted, Shift
  <2>2. queue' \in Seq(visited') /\ current' \in visited' /\ sorted' \in Seq(visited')
    BY <2>1
  <2>3. nodeIds' = nodeIds
    BY <2>1 DEF nodeIds
  <2>4. cursor' \in 1..(Len(input'.edges) + 1)
    BY <1>0, <2>1
  <2> QED
    BY <2>1, <2>2, <2>3, <2>4 DEF Walking
<1>8. CASE PassEdge
  <2>1. /\ pc = "sort" /\ InnerLoop /\ cursor' = cursor + 1
        /\ UNCHANGED <<input, pc, visited, queue, current, inDegree, sorted>>
    BY <1>8 DEF PassEdge
  <2>2. nodeIds' = nodeIds /\ cursor' \in 1..(Len(input'.edges) + 1)
    BY <2>1, RowAtCursor DEF nodeIds
  <2> QED
    BY <2>1, <2>2 DEF Walking
<1>9. CASE TakeEdge
  <2> DEFINE n == edge.dst
  <2>1. /\ pc = "sort" /\ InnerLoop /\ cursor' = cursor + 1 /\ n \in visited
        /\ inDegree' = [inDegree EXCEPT ![n] = @ - 1]
        /\ queue' = IF inDegree[n] = 1 THEN Append(queue, n) ELSE queue
        /\ UNCHANGED <<input, pc, visited, current, sorted>>
    BY <1>9 DEF TakeEdge
  <2>2. nodeIds' = nodeIds /\ cursor' \in 1..(Len(input'.edges) + 1) /\ n \in Id
    BY <2>1, RowAtCursor DEF nodeIds
  <2> HIDE DEF n
  <2>3. queue' \in Seq(visited') /\ inDegree' \in [Id -> Int]
    BY <2>1, <2>2
  <2> QED
    BY <2>1, <2>2, <2>3 DEF Walking
<1>10. CASE EndSort
  <2>1. /\ pc = "sort" /\ pc' \in {"sorted", "cycle"}
        /\ UNCHANGED <<input, visited, queue, current, cursor, inDegree, sorted>>
    BY <1>10 DEF EndSort
  <2> QED
    BY <2>1 DEF nodeIds, InnerLoop, Returned, Walking
<1> QED
  BY <1>1, <1>2, <1>3, <1>4, <1>5, <1>6, <1>7, <1>8, <1>9, <1>10 DEF SortNext

----------------------------------------------------------------------------
(* The walk finds just the nodes asked for. *)

\* The graph and the nodes asked for depend on the arguments alone.
LEMMA ArgumentsStay ==
    ASSUME input' = input
    PROVE  /\ nodeIds' = nodeIds /\ positions' = positions
           /\ Asked' = Asked /\ Given' = Given
           /\ \A S, n : InRows(S, n)' = InRows(S, n)
<1>1. nodeIds' = nodeIds /\ positions' = positions
  BY DEF nodeIds, positions
<1>2. Given' = Given
  BY <1>1 DEF Given
<1>3. Asked' = Asked
  BY <1>1, <1>2 DEF Asked
<1>4. \A S, n : InRows(S, n)' = InRows(S, n)
  BY <1>1 DEF InRows
<1> QED
  BY <1>1, <1>2, <1>3, <1>4

LEMMA WalkSteps ==
    ASSUME ValidatorShape, WalkFits, SortNext
    PROVE  WalkFits'
<1> USE DEF WalkFits
<1>0. input \in Input /\ Len(input.edges) \in Nat /\ positions = 1..Len(input.edges)
  BY InputFields DEF ValidatorShape
<1>1. CASE SortAll
  <2>1. pc' = "sort" /\ visited' = nodeIds /\ input' = input
        /\ input.fn = "topologicalSort"
    BY <1>1 DEF SortAll, BeginSort
  <2>2. Asked = nodeIds
    BY <2>1 DEF Asked
  <2> QED
    BY <2>1, <2>2, ArgumentsStay DEF Walking
<1>2. CASE UnknownTarget
  BY <1>2 DEF UnknownTarget, Walking
<1>3. CASE BeginWalk
  <2>1. /\ pc = "begin" /\ pc' = "walk" /\ visited' = {input.target} /\ queue' = <<input.target>>
        /\ input' = input /\ input.fn # "topologicalSort" /\ input.target \in nodeIds
    BY <1>3 DEF BeginWalk
  <2>2. visited' \subseteq Asked'
    BY <1>0, <2>1, AskedCloses, ArgumentsStay
  <2>3. Followed'
    <3>1. queue'[1] = input.target /\ 1 \in DOMAIN queue'
      BY <2>1
    <3>2. \A m \in visited' : Contains(queue', m)
      BY <2>1, <3>1 DEF Contains
    <3> QED
      BY <3>2 DEF Followed
  <2> QED
    BY <2>1, <2>2, <2>3 DEF Walking
<1>4. CASE ShiftToWalk
  <2>1. /\ pc = "walk" /\ pc' = pc /\ visited' = visited /\ queue # <<>> /\ queue' = Tail(queue)
        /\ current' = Head(queue) /\ cursor' = 1 /\ ~InnerLoop /\ input' = input
    BY <1>4 DEF ShiftToWalk, Shift
  <2>2. \A m : Contains(queue, m) => m = current' \/ Contains(queue', m)
    <3>1. queue \in Seq(visited)
      BY DEF ValidatorShape
    <3>2. ASSUME NEW i \in DOMAIN queue, i # 1
          PROVE  i - 1 \in DOMAIN queue' /\ queue'[i - 1] = queue[i]
      BY <2>1, <3>1, <3>2
    <3>3. current' = queue[1]
      BY <2>1, <3>1
    <3> QED
      BY <3>2, <3>3 DEF Contains
  <2>3. \A i \in positions : i < cursor /\ ~(i < cursor')
    BY <1>0, <2>1 DEF InnerLoop, ValidatorShape
  <2>4. \A i \in positions :
           /\ input'.edges[i] = input.edges[i]
           /\ Near(input.edges[i])' = Near(input.edges[i])
           /\ Far(input.edges[i])' = Far(input.edges[i])
    BY <2>1 DEF Near, Far
  <2>5. Followed'
    <3> SUFFICES ASSUME NEW m \in visited', NEW i \in positions,
                        ~Contains(queue', m), Near(input.edges[i]) = m, m # current',
                        Far(input.edges[i]) \in nodeIds
                 PROVE  Far(input.edges[i]) \in visited
      BY <2>1, <2>3, <2>4, ArgumentsStay DEF Followed, Near, Far
    <3>1. ~Contains(queue, m) /\ m \in visited
      BY <2>1, <2>2
    <3> QED
      BY <2>1, <2>3, <3>1 DEF Followed
  <2> QED
    BY <2>1, <2>5, ArgumentsStay DEF Walking
<1>5. CASE WalkEdge
  <2> DEFINE far == Far(edge)
             near == Near(edge)
             isNew == near = current /\ far \in nodeIds \ visited
  <2>1. /\ pc = "walk" /\ pc' = pc /\ InnerLoop
        /\ visited' = IF isNew THEN visited \cup {far} ELSE visited
        /\ queue' = IF isNew THEN Append(queue, far) ELSE queue
        /\ cursor' = cursor + 1 /\ input' = input /\ current' = current
    BY <1>5 DEF WalkEdge
  <2>2. /\ cursor \in positions /\ edge = input.edges[cursor] /\ cursor \in Nat
        /\ current \in visited /\ visited \subseteq nodeIds /\ queue \in Seq(visited)
    BY <2>1, <1>0, RowAtCursor DEF ValidatorShape
  <2>3. visited' \subseteq Asked'
    <3>1. ASSUME isNew PROVE far \in Asked
      <4>1. Leads(current, far)
        BY <2>2, <3>1 DEF Leads
      <4>2. current \in Asked /\ input.target \in nodeIds
        BY <2>1, <2>2
      <4> QED
        BY <1>0, <2>1, <3>1, <4>1, <4>2, AskedCloses
    <3>2. Asked' = Asked
      BY <2>1, ArgumentsStay
    <3> HIDE DEF far, isNew
    <3> QED
      BY <2>1, <3>1, <3>2
  <2>4. Followed'
    <3>1. \A i \in positions :
             /\ input'.edges[i] = input.edges[i]
             /\ Near(input.edges[i])' = Near(input.edges[i])
             /\ Far(input.edges[i])' = Far(input.edges[i])
      BY <2>1 DEF Near, Far
    <3> SUFFICES ASSUME NEW m \in visited', NEW i \in positions,
                        ~Contains(queue', m), Near(input.edges[i]) = m,
                        m = current => i < cursor + 1,
                        Far(input.edges[i]) \in nodeIds
                 PROVE  Far(input.edges[i]) \in visited'
      BY <2>1, <3>1, ArgumentsStay DEF Followed, Near, Far
    <3>2. isNew => far \in visited' /\ visited \subseteq visited'
      BY <2>1
    <3>3. isNew => Contains(queue', far) /\ \A x : Contains(queue, x) => Contains(queue', x)
      <4> HIDE DEF far
      <4>1. ASSUME isNew
            PROVE  /\ Len(queue) + 1 \in DOMAIN queue' /\ queue'[Len(queue) + 1] = far
                   /\ \A j \in DOMAIN queue : j \in DOMAIN queue' /\ queue'[j] = queue[j]
        BY <2>1, <2>2, <4>1
      <4> QED
        BY <4>1 DEF Contains
    <3>4. ~isNew => visited' = visited /\ queue' = queue
      BY <2>1
    <3>5. m \in visited /\ ~Contains(queue, m)
      <4>1. CASE isNew
        <5>1. visited' = visited \cup {far}
          BY <2>1, <4>1
        <5> HIDE DEF far, isNew
        <5> QED
          BY <3>3, <4>1, <5>1
      <4>2. CASE ~isNew
        BY <3>4, <4>2
      <4> QED
        BY <4>1, <4>2
    <3>6. CASE m = current /\ i = cursor
      <4>1. near = current /\ far = Far(input.edges[i])
        BY <2>2, <3>6
      <4>2. CASE isNew
        BY <3>2, <4>1, <4>2
      <4>3. CASE ~isNew
        BY <3>4, <4>1, <4>3
      <4> QED
        BY <4>2, <4>3
    <3>7. CASE ~(m = current /\ i = cursor)
      <4>1. m = current => i < cursor
        BY <1>0, <2>2, <3>7
      <4>2. Far(input.edges[i]) \in visited
        BY <2>1, <3>5, <4>1 DEF Followed
      <4> QED
        BY <3>2, <3>4, <4>2
    <3> QED
      BY <3>6, <3>7
  <2>5. input.target \in visited'
    BY <2>1
  <2> QED
    BY <2>1, <2>3, <2>4, <2>5 DEF Walking
<1>6. CASE EndWalk
  <2>1. /\ pc = "walk" /\ pc' = "sort" /\ queue = <<>> /\ ~InnerLoop
        /\ visited' = visited /\ input' = input
    BY <1>6 DEF EndWalk, BeginSort
  <2>2. \A m \in visited, n \in nodeIds : Leads(m, n) => n \in visited
    <3>1. \A m : ~Contains(queue, m)
      BY <2>1 DEF Contains
    <3>2. \A i \in positions : i < cursor
      BY <1>0, <2>1 DEF InnerLoop, ValidatorShape
    <3>3. Followed
      BY <2>1
    <3> QED
      BY <3>1, <3>2, <3>3 DEF Followed, Leads
  <2>3. Asked \subseteq visited
    <3>1. input.target \in visited /\ input.target \in nodeIds /\ input.fn # "topologicalSort"
      BY <2>1 DEF ValidatorShape
    <3> QED
      BY <1>0, <2>2, <3>1, AskedCloses
  <2> QED
    BY <2>1, <2>3, ArgumentsStay DEF Walking
<1>7. CASE ShiftToSorted \/ PassEdge \/ TakeEdge \/ EndSort
  <2>1. pc = "sort" /\ pc' \in {"sort", "sorted", "cycle"} /\ visited' = visited /\ input' = input
    BY <1>7 DEF ShiftToSorted, PassEdge, TakeEdge, EndSort
  <2> QED
    BY <2>1, ArgumentsStay DEF Walking
<1> QED
  BY <1>1, <1>2, <1>3, <1>4, <1>5, <1>6, <1>7 DEF SortNext

----------------------------------------------------------------------------
(* The sort: the nodes taken and those that wait, in one line. *)

Source(i) == input.edges[i].src
Into(n)   == InRows(visited, n)

\* The row has lowered the degree of the node it leads to.
Taken(i) == Contains(sorted, Source(i)) /\ (Source(i) = current => i < cursor)
Left(n)  == {i \in Into(n) : ~Taken(i)}
Line     == sorted \o queue

\* The rows into the node at position i come from the first k nodes taken.
ReadyBy(i, k) == \A r \in Into(Line[i]) : \E l \in 1..k : sorted[l] = Source(r)

Counted     == \A n \in visited : inDegree[n] = Cardinality(Left(n))
LineIsReady == \A n \in visited : Contains(Line, n) <=> Left(n) = {}
LineFollows ==
    \A i \in DOMAIN Line : \A r \in Into(Line[i]) :
        \E l \in 1..Len(sorted) : l < i /\ sorted[l] = Source(r)
LineInOrder ==
    \A i, j \in DOMAIN Line, k \in 0..Len(sorted) :
        i < j /\ ReadyBy(j, k) => ReadyBy(i, k)

SortFits ==
    pc = "sort" =>
        /\ NoRepeats(Line)
        /\ InnerLoop => sorted # <<>> /\ current = sorted[Len(sorted)]
        /\ Counted /\ LineIsReady /\ LineFollows /\ LineInOrder

LEMMA LineParts ==
    ASSUME NEW S, NEW s \in Seq(S), NEW q \in Seq(S)
    PROVE  /\ s \o q \in Seq(S) /\ Len(s) \in Nat /\ Len(q) \in Nat
           /\ Len(s \o q) = Len(s) + Len(q)
           /\ DOMAIN (s \o q) = 1..(Len(s) + Len(q))
           /\ DOMAIN s = 1..Len(s) /\ DOMAIN q = 1..Len(q)
           /\ \A i \in 1..Len(s) : (s \o q)[i] = s[i]
           /\ \A i \in 1..Len(q) : (s \o q)[Len(s) + i] = q[i]
OBVIOUS

LEMMA SequencesAgree ==
    ASSUME NEW S, NEW s \in Seq(S), NEW t \in Seq(S), Len(s) = Len(t),
           \A i \in 1..Len(s) : s[i] = t[i]
    PROVE  s = t
OBVIOUS

\* Shifting the queue to the nodes taken leaves the line as it is.
LEMMA ShiftKeepsLine ==
    ASSUME NEW S, NEW s \in Seq(S), NEW q \in Seq(S), q # <<>>
    PROVE  Append(s, Head(q)) \o Tail(q) = s \o q
<1> DEFINE a == Append(s, Head(q))
           b == Tail(q)
<1>1. /\ a \in Seq(S) /\ b \in Seq(S) /\ Len(q) \in Nat \ {0} /\ Len(s) \in Nat
      /\ Len(a) = Len(s) + 1 /\ Len(b) = Len(q) - 1
      /\ \A i \in 1..Len(s) : a[i] = s[i]
      /\ a[Len(s) + 1] = q[1]
      /\ \A i \in 1..(Len(q) - 1) : b[i] = q[i + 1]
  OBVIOUS
<1> HIDE DEF a, b
<1>2. /\ a \o b \in Seq(S) /\ s \o q \in Seq(S)
      /\ Len(a \o b) = Len(s) + Len(q) /\ Len(s \o q) = Len(s) + Len(q)
  <2>1. a \o b \in Seq(S) /\ Len(a \o b) = Len(a) + Len(b)
    BY <1>1, LineParts
  <2>2. s \o q \in Seq(S) /\ Len(s \o q) = Len(s) + Len(q)
    BY LineParts
  <2>3. Len(a) + Len(b) = Len(s) + Len(q)
    BY <1>1
  <2> QED
    BY <2>1, <2>2, <2>3
<1>3. ASSUME NEW i \in 1..(Len(s) + Len(q))
      PROVE  (a \o b)[i] = (s \o q)[i]
  <2>1. CASE i <= Len(s)
    <3>1. (s \o q)[i] = s[i]
      BY <1>1, <2>1, LineParts
    <3>2. (a \o b)[i] = a[i]
      BY <1>1, <2>1, LineParts
    <3> QED
      BY <1>1, <2>1, <3>1, <3>2
  <2>2. CASE i = Len(s) + 1
    <3>1. (s \o q)[Len(s) + 1] = q[1]
      BY <1>1, LineParts
    <3>2. (a \o b)[i] = a[i]
      BY <1>1, <2>2, LineParts
    <3> QED
      BY <1>1, <2>2, <3>1, <3>2
  <2>3. CASE i > Len(s) + 1
    <3> DEFINE j == i - (Len(s) + 1)
    <3>1. j \in 1..Len(b) /\ j + 1 \in 1..Len(q) /\ i = Len(a) + j /\ i = Len(s) + (j + 1)
      BY <1>1, <2>3
    <3>2. (s \o q)[Len(s) + (j + 1)] = q[j + 1]
      BY <3>1, LineParts
    <3>3. (a \o b)[Len(a) + j] = b[j]
      BY <1>1, <3>1, LineParts
    <3>4. b[j] = q[j + 1]
      BY <1>1, <3>1
    <3> QED
      BY <3>1, <3>2, <3>3, <3>4
  <2> QED
    BY <1>1, <2>1, <2>2, <2>3
<1>4. a \o b = s \o q
  BY <1>2, <1>3, SequencesAgree
<1> QED
  BY <1>4 DEF a, b

LEMMA BeginSortFits ==
    ASSUME ValidatorShape, pc \in {"begin", "walk"}, ~InnerLoop,
           NEW S \in SUBSET nodeIds, BeginSort(S)
    PROVE  SortFits'
<1>1. /\ pc' = "sort" /\ visited' = S /\ queue' = Roots(S)
      /\ inDegree' = Degrees(S)
      /\ input' = input /\ current' = current /\ cursor' = cursor /\ sorted' = <<>>
  BY DEF BeginSort, Walking, ValidatorShape
<1>2. ~InnerLoop' /\ S \subseteq Id
  BY <1>1, InputFields DEF InnerLoop, ValidatorShape
<1>3. \A n : Into(n)' = InRows(S, n)
  BY <1>1, ArgumentsStay DEF Into, InRows, positions
<1>4. \A n : Left(n)' = InRows(S, n)
  <2>1. \A x : ~Contains(<<>>, x)
    BY DEF Contains
  <2> QED
    BY <1>1, <1>3, <2>1 DEF Left, Taken
<1>5. Line' = Roots(S) /\ Roots(S) \in Seq(Id) /\ NoRepeats(Roots(S))
  <2>1. Roots(S) \in Seq(Id) /\ NoRepeats(Roots(S))
    BY RootsFound, InputFields DEF ValidatorShape
  <2>2. <<>> \o Roots(S) = Roots(S)
    BY <2>1
  <2> QED
    BY <1>1, <2>1, <2>2 DEF Line
<1>6. \A x : Contains(Line', x) <=> x \in S /\ InRows(S, x) = {}
  <2>1. \A x : Contains(Roots(S), x) <=>
                 x \in S /\ x \in nodeIds /\ InRows(S, x) = {}
    BY RootsFound, InputFields DEF ValidatorShape
  <2> QED
    BY <1>5, <2>1
<1>7. Counted'
  BY <1>1, <1>2, <1>4 DEF Counted, Degrees
<1>8. LineIsReady'
  BY <1>1, <1>4, <1>6 DEF LineIsReady, Contains
<1>9. \A i \in DOMAIN Line' : Into(Line[i])' = {}
  BY <1>3, <1>6 DEF Contains
<1>10. LineFollows' /\ LineInOrder'
  BY <1>9 DEF LineFollows, LineInOrder, ReadyBy
<1> QED
  BY <1>1, <1>2, <1>5, <1>7, <1>8, <1>10 DEF SortFits

\* Where the line stands, with what an unchanged line leaves alone.
LEMMA LineFacts ==
    ASSUME ValidatorShape
    PROVE  /\ Line \in Seq(visited) /\ sorted \in Seq(visited) /\ queue \in Seq(visited)
           /\ Len(sorted) \in Nat /\ Len(queue) \in Nat
           /\ Len(Line) = Len(sorted) + Len(queue)
           /\ DOMAIN Line = 1..Len(Line) /\ DOMAIN sorted = 1..Len(sorted)
           /\ \A i \in 1..Len(sorted) : Line[i] = sorted[i]
           /\ \A i \in 1..Len(queue) : Line[Len(sorted) + i] = queue[i]
<1>1. sorted \in Seq(visited) /\ queue \in Seq(visited)
  BY DEF ValidatorShape
<1> QED
  BY <1>1, LineParts DEF Line

LEMMA ShiftFits ==
    ASSUME ValidatorShape, SortFits, ShiftToSorted
    PROVE  SortFits'
<1> DEFINE N == Len(sorted)
           h == Head(queue)
<1>1. /\ pc = "sort" /\ pc' = pc /\ visited' = visited /\ queue # <<>> /\ queue' = Tail(queue)
      /\ current' = h /\ cursor' = 1 /\ sorted' = Append(sorted, h)
      /\ input' = input /\ inDegree' = inDegree /\ ~InnerLoop
  BY DEF ShiftToSorted, Shift
<1>2. NoRepeats(Line) /\ Counted /\ LineIsReady /\ LineFollows /\ LineInOrder
  BY <1>1 DEF SortFits
<1>3. Line' = Line
  <2>1. sorted \in Seq(visited) /\ queue \in Seq(visited)
    BY DEF ValidatorShape
  <2> QED
    BY <1>1, <2>1, ShiftKeepsLine DEF Line
<1>4. /\ Len(sorted') = N + 1 /\ sorted'[N + 1] = h /\ h = Line[N + 1]
      /\ N + 1 \in DOMAIN Line /\ N \in Nat /\ N + 1 \in DOMAIN sorted'
      /\ \A l \in 1..N : sorted'[l] = sorted[l]
  <2>1. sorted \in Seq(visited) /\ queue \in Seq(visited) /\ Len(queue) \in Nat \ {0} /\ h = queue[1]
    BY <1>1 DEF ValidatorShape
  <2>2. Line[N + 1] = queue[1] /\ N + 1 \in DOMAIN Line
    BY <2>1, LineFacts
  <2> QED
    BY <1>1, <2>1, <2>2
<1>5. \A n : Into(n)' = Into(n)
  BY <1>1, ArgumentsStay DEF Into
<1>6. ASSUME NEW i \in positions
      PROVE  Taken(i)' <=> Taken(i)
  <2>1. Source(i)' = Source(i)
    BY <1>1 DEF Source
  <2>2. i < cursor /\ ~(i < cursor')
    BY <1>1, InputFields DEF InnerLoop, ValidatorShape
  <2>3. Taken(i) <=> Contains(sorted, Source(i))
    BY <2>2 DEF Taken
  <2>4. \A x : Contains(sorted', x) <=> Contains(sorted, x) \/ x = h
    <3>1. DOMAIN sorted = 1..N /\ DOMAIN sorted' = 1..(N + 1)
      BY <1>1, <1>4, LineFacts
    <3> HIDE DEF N, h
    <3> QED
      BY <1>4, <3>1 DEF Contains
  <2>5. ~Contains(sorted, h)
    <3>1. \A l \in 1..N : Line[l] = sorted[l] /\ l \in DOMAIN Line /\ l # N + 1
      BY <1>4, LineFacts
    <3> QED
      BY <1>2, <1>4, <3>1, LineFacts DEF Contains, NoRepeats
  <2> QED
    BY <1>1, <2>1, <2>2, <2>3, <2>4, <2>5 DEF Taken
<1>7. \A n : Left(n)' = Left(n)
  <2>1. \A n : Into(n) \subseteq positions
    BY DEF Into, InRows
  <2> QED
    BY <1>5, <1>6, <2>1 DEF Left
<1>8. Counted' /\ LineIsReady'
  BY <1>1, <1>2, <1>3, <1>7 DEF Counted, LineIsReady
<1>9. \A r : Source(r)' = Source(r)
  BY <1>1 DEF Source
<1>10. LineFollows'
  <2> SUFFICES ASSUME NEW i \in DOMAIN Line, NEW r \in Into(Line[i])
               PROVE  \E l \in 1..Len(sorted') : l < i /\ sorted'[l] = Source(r)
    BY <1>3, <1>5, <1>9 DEF LineFollows
  <2>1. PICK l \in 1..N : l < i /\ sorted[l] = Source(r)
    BY <1>2 DEF LineFollows
  <2>2. l \in 1..Len(sorted')
    BY <1>4
  <2> QED
    BY <1>4, <2>1, <2>2
<1>11. \A i, k : k \in 0..N => (ReadyBy(i, k)' <=> ReadyBy(i, k))
  <2> SUFFICES ASSUME NEW i, NEW k \in 0..N
               PROVE  ReadyBy(i, k)' <=> ReadyBy(i, k)
    OBVIOUS
  <2>1. 1..k \subseteq 1..N
    BY <1>4
  <2>2. \A l \in 1..k : sorted'[l] = sorted[l]
    BY <1>4, <2>1
  <2> QED
    BY <1>3, <1>5, <1>9, <2>2 DEF ReadyBy
<1>12. ASSUME NEW i \in DOMAIN Line, NEW k, k = N + 1
       PROVE  ReadyBy(i, k)'
  <2> SUFFICES ASSUME NEW r \in Into(Line[i])
               PROVE  \E l \in 1..(N + 1) : sorted'[l] = Source(r)
    BY <1>3, <1>5, <1>9, <1>12 DEF ReadyBy
  <2>1. PICK l \in 1..N : l < i /\ sorted[l] = Source(r)
    BY <1>2 DEF LineFollows
  <2>2. l \in 1..(N + 1)
    BY <1>4
  <2> QED
    BY <1>4, <2>1, <2>2
<1>13. LineInOrder'
  <2> SUFFICES ASSUME NEW i \in DOMAIN Line, NEW j \in DOMAIN Line, NEW k \in 0..(N + 1),
                      i < j, ReadyBy(j, k)'
               PROVE  ReadyBy(i, k)'
    BY <1>3, <1>4 DEF LineInOrder
  <2>1. CASE k = N + 1
    BY <1>12, <2>1
  <2>2. CASE k # N + 1
    <3>1. k \in 0..N
      BY <1>4, <2>2
    <3> QED
      BY <1>2, <1>11, <3>1 DEF LineInOrder
  <2> QED
    BY <2>1, <2>2
<1>14. sorted' # <<>> /\ current' = sorted'[Len(sorted')]
  BY <1>1, <1>4
<1> QED
  BY <1>2, <1>3, <1>8, <1>10, <1>13, <1>14 DEF SortFits

LEMMA PassFits ==
    ASSUME ValidatorShape, SortFits, PassEdge
    PROVE  SortFits'
<1>1. /\ pc = "sort" /\ InnerLoop /\ cursor' = cursor + 1
      /\ edge.src # current \/ edge.dst \notin visited
      /\ UNCHANGED <<input, pc, visited, queue, current, inDegree, sorted>>
  BY DEF PassEdge
<1>2. /\ NoRepeats(Line) /\ Counted /\ LineIsReady /\ LineFollows /\ LineInOrder
      /\ sorted # <<>> /\ current = sorted[Len(sorted)]
  BY <1>1 DEF SortFits
<1>3. Line' = Line /\ \A r : Source(r)' = Source(r)
  BY <1>1 DEF Line, Source
<1>4. \A n : Into(n)' = Into(n)
  BY <1>1, ArgumentsStay DEF Into
<1>5. ASSUME NEW n \in visited, NEW i \in Into(n)
      PROVE  Taken(i)' <=> Taken(i)
  <2>1. i \in positions /\ input.edges[i].dst = n
    BY DEF Into, InRows
  <2>2. CASE i = cursor
    <3>1. Source(i) # current
      BY <1>1, <2>1, <2>2 DEF Source, edge
    <3> QED
      BY <1>1, <1>3, <3>1 DEF Taken
  <2>3. CASE i # cursor
    <3>1. i < cursor + 1 <=> i < cursor
      BY <2>1, <2>3, InputFields DEF ValidatorShape
    <3> QED
      BY <1>1, <1>3, <3>1 DEF Taken
  <2> QED
    BY <2>2, <2>3
<1>6. \A n \in visited : Left(n)' = Left(n)
  BY <1>4, <1>5 DEF Left
<1>7. Counted' /\ LineIsReady'
  BY <1>1, <1>2, <1>3, <1>6 DEF Counted, LineIsReady
<1>8. LineFollows'
  BY <1>1, <1>2, <1>3, <1>4 DEF LineFollows
<1>9. \A i, k : ReadyBy(i, k)' <=> ReadyBy(i, k)
  BY <1>1, <1>3, <1>4 DEF ReadyBy
<1>10. LineInOrder'
  BY <1>1, <1>2, <1>3, <1>9 DEF LineInOrder
<1> QED
  BY <1>1, <1>2, <1>3, <1>7, <1>8, <1>10 DEF SortFits

LEMMA LeftIsFinite ==
    ASSUME ValidatorShape, NEW n
    PROVE  IsFiniteSet(Left(n)) /\ Cardinality(Left(n)) \in Nat
<1>1. IsFiniteSet(Into(n))
  BY InRowsAreFinite DEF Into, ValidatorShape
<1>2. Left(n) \in SUBSET Into(n)
  BY DEF Left
<1> QED
  BY <1>1, <1>2, FS_Subset, FS_CardinalityType

LEMMA TakeFits ==
    ASSUME ValidatorShape, SortFits, TakeEdge
    PROVE  SortFits'
<1> PICK N : N = Len(sorted)
  OBVIOUS
<1> PICK n : n = edge.dst
  OBVIOUS
<1>1. /\ pc = "sort" /\ pc' = pc /\ InnerLoop /\ edge.src = current /\ n \in visited
      /\ inDegree' = [inDegree EXCEPT ![n] = @ - 1]
      /\ queue' = IF inDegree[n] = 1 THEN Append(queue, n) ELSE queue
      /\ cursor' = cursor + 1
      /\ input' = input /\ visited' = visited /\ current' = current /\ sorted' = sorted
  BY DEF TakeEdge
<1>2. /\ NoRepeats(Line) /\ Counted /\ LineIsReady /\ LineFollows /\ LineInOrder
      /\ sorted # <<>> /\ current = sorted[N]
  BY <1>1 DEF SortFits
<1>3. /\ cursor \in positions /\ Source(cursor) = current /\ input.edges[cursor].dst = n
      /\ current \in visited /\ n \in Id
  BY <1>1, RowAtCursor DEF Source, ValidatorShape
<1>4. /\ Line \in Seq(visited) /\ sorted \in Seq(visited) /\ queue \in Seq(visited)
      /\ N \in Nat \ {0} /\ Len(Line) \in Nat /\ N <= Len(Line)
      /\ DOMAIN Line = 1..Len(Line) /\ DOMAIN sorted = 1..N
      /\ \A i \in 1..N : Line[i] = sorted[i]
  BY <1>2, LineFacts
<1>5. \A r : Source(r)' = Source(r)
  BY <1>1 DEF Source
<1>6. \A m : Into(m)' = Into(m)
  BY <1>1, ArgumentsStay DEF Into
<1>7. cursor \in Into(n) /\ ~Taken(cursor)
  <2>1. ~(cursor < cursor)
    BY <1>3, InputFields DEF ValidatorShape
  <2> QED
    BY <1>3, <2>1 DEF Into, InRows, Taken, Source
<1>8. ASSUME NEW i \in positions
      PROVE  Taken(i)' <=> Taken(i) \/ i = cursor
  <2>1. i < cursor + 1 <=> i < cursor \/ i = cursor
    BY <1>3, InputFields DEF ValidatorShape
  <2>2. Contains(sorted, current)
    BY <1>2, <1>4 DEF Contains
  <2> QED
    BY <1>1, <1>3, <1>5, <2>1, <2>2 DEF Taken
<1>9. \A m : Left(m)' = Left(m) \ {cursor}
  <2>1. \A m : Into(m) \subseteq positions
    BY DEF Into, InRows
  <2> QED
    BY <1>6, <1>8, <2>1 DEF Left
<1>10. \A m : m # n => Left(m)' = Left(m)
  <2>1. \A m : m # n => cursor \notin Left(m)
    BY <1>3 DEF Left, Into, InRows
  <2> QED
    BY <1>9, <2>1
<1>11. /\ inDegree[n] = Cardinality(Left(n)) /\ IsFiniteSet(Left(n)) /\ inDegree[n] \in Nat
       /\ cursor \in Left(n) /\ Cardinality(Left(n) \ {cursor}) = inDegree[n] - 1
  <2>1. cursor \in Left(n)
    BY <1>7 DEF Left
  <2>2. inDegree[n] = Cardinality(Left(n)) /\ IsFiniteSet(Left(n)) /\ Cardinality(Left(n)) \in Nat
    BY <1>1, <1>2, LeftIsFinite DEF Counted
  <2> QED
    BY <2>1, <2>2, FS_RemoveElement
<1>12. Counted'
  <2> SUFFICES ASSUME NEW m \in visited
               PROVE  inDegree'[m] = Cardinality(Left(m)')
    BY <1>1 DEF Counted
  <2>1. m \in Id /\ inDegree \in [Id -> Int]
    BY InputFields DEF ValidatorShape
  <2>2. CASE m = n
    BY <1>1, <1>9, <1>11, <2>1, <2>2
  <2>3. CASE m # n
    BY <1>1, <1>2, <1>10, <2>1, <2>3 DEF Counted
  <2> QED
    BY <2>2, <2>3
<1>13. ~Contains(Line, n)
  BY <1>1, <1>2, <1>11 DEF LineIsReady
<1>14. CASE inDegree[n] = 1
  <2> PICK M : M = Len(Line) + 1
    OBVIOUS
  <2>1. /\ Line' \in Seq(visited) /\ DOMAIN Line' = 1..M /\ Line'[M] = n
        /\ \A i \in 1..Len(Line) : Line'[i] = Line[i]
    <3>1. queue' = Append(queue, n)
      BY <1>1, <1>14
    <3>2. Line' = Append(Line, n)
      <4>1. sorted \o Append(queue, n) = Append(sorted \o queue, n)
        BY <1>1, <1>4
      <4> QED
        BY <1>1, <3>1, <4>1 DEF Line
    <3> QED
      BY <1>1, <1>4, <3>2
  <2>2. M \in Nat /\ 1..M = 1..Len(Line) \cup {M} /\ \A i \in 1..Len(Line) : i < M
    <3>1. \A K \in Nat : 1..(K + 1) = 1..K \cup {K + 1}
      OBVIOUS
    <3> QED
      BY <1>4, <3>1
  <2>3. Left(n)' = {}
    <3>1. IsFiniteSet(Left(n) \ {cursor}) /\ Cardinality(Left(n) \ {cursor}) = 0
      BY <1>11, <1>14, FS_RemoveElement
    <3> QED
      BY <1>9, <3>1, FS_EmptySet
  <2>4. NoRepeats(Line')
    BY <1>2, <1>4, <1>13, <2>1, <2>2 DEF NoRepeats, Contains
  <2>5. LineIsReady'
    <3>1. \A m : Contains(Line', m) <=> Contains(Line, m) \/ m = n
      BY <1>4, <2>1, <2>2 DEF Contains
    <3> QED
      BY <1>1, <1>2, <1>10, <2>3, <3>1 DEF LineIsReady
  <2>6. \A r \in Into(n) : \E l \in 1..N : sorted[l] = Source(r)
    <3> SUFFICES ASSUME NEW r \in Into(n)
                 PROVE  Contains(sorted, Source(r))
      BY <1>4 DEF Contains
    <3>1. Taken(r)'
      BY <1>6, <2>3 DEF Left
    <3> QED
      BY <1>1, <1>5, <3>1 DEF Taken
  <2>7. LineFollows'
    <3> SUFFICES ASSUME NEW i \in 1..M, NEW r \in Into(Line'[i])
                 PROVE  \E l \in 1..N : l < i /\ sorted[l] = Source(r)
      BY <1>1, <1>5, <1>6, <2>1 DEF LineFollows
    <3>1. CASE i = M
      <4>1. PICK l \in 1..N : sorted[l] = Source(r)
        BY <2>1, <2>6, <3>1
      <4>2. l < M
        BY <1>4, <2>2
      <4> QED
        BY <3>1, <4>1, <4>2
    <3>2. CASE i \in 1..Len(Line)
      BY <1>2, <1>4, <2>1, <3>2 DEF LineFollows
    <3> QED
      BY <2>2, <3>1, <3>2
  <2>8. ASSUME NEW i \in 1..Len(Line), NEW k
        PROVE  ReadyBy(i, k)' <=> ReadyBy(i, k)
    BY <1>1, <1>5, <1>6, <2>1 DEF ReadyBy
  <2>9. ASSUME NEW k \in 0..N, ReadyBy(M, k)'
        PROVE  k = N
    <3>1. \A r \in Into(n) : \E l \in 1..k : sorted[l] = Source(r)
      BY <1>1, <1>5, <1>6, <2>1, <2>9 DEF ReadyBy
    <3>2. PICK l \in 1..k : sorted[l] = Source(cursor)
      BY <1>7, <3>1
    <3>3. l \in 1..N /\ l \in DOMAIN Line /\ N \in DOMAIN Line /\ Line[l] = Line[N]
      BY <1>2, <1>3, <1>4, <3>2
    <3>4. l = N
      BY <1>2, <3>3 DEF NoRepeats
    <3> QED
      BY <1>4, <3>4
  <2>10. ASSUME NEW i \in 1..Len(Line)
         PROVE  \A k : k = N => ReadyBy(i, k)
    BY <1>2, <1>4 DEF ReadyBy, LineFollows
  <2>11. LineInOrder'
    <3> SUFFICES ASSUME NEW i \in 1..M, NEW j \in 1..M, NEW k \in 0..N, i < j, ReadyBy(j, k)'
                 PROVE  ReadyBy(i, k)'
      BY <1>1, <2>1 DEF LineInOrder
    <3>1. i \in 1..Len(Line)
      BY <1>4, <2>2
    <3>2. CASE j = M
      <4>1. k = N
        BY <2>9, <3>2
      <4> QED
        BY <2>8, <2>10, <3>1, <4>1
    <3>3. CASE j \in 1..Len(Line)
      BY <1>2, <1>4, <2>8, <3>1, <3>3 DEF LineInOrder
    <3> QED
      BY <2>2, <3>2, <3>3
  <2> QED
    BY <1>1, <1>2, <1>12, <2>4, <2>5, <2>7, <2>11 DEF SortFits
<1>15. CASE inDegree[n] # 1
  <2>1. queue' = queue /\ Line' = Line
    BY <1>1, <1>15 DEF Line
  <2>2. Left(n)' # {} /\ Left(n) # {}
    <3>1. Cardinality(Left(n) \ {cursor}) # 0
      BY <1>11, <1>15
    <3> QED
      BY <1>9, <1>11, <3>1, FS_EmptySet
  <2>3. LineIsReady'
    BY <1>1, <1>2, <1>10, <2>1, <2>2 DEF LineIsReady
  <2>4. LineFollows'
    BY <1>1, <1>2, <1>5, <1>6, <2>1 DEF LineFollows
  <2>5. \A i, k : ReadyBy(i, k)' <=> ReadyBy(i, k)
    BY <1>1, <1>5, <1>6, <2>1 DEF ReadyBy
  <2>6. LineInOrder'
    BY <1>1, <1>2, <2>1, <2>5 DEF LineInOrder
  <2> QED
    BY <1>1, <1>2, <1>12, <2>1, <2>3, <2>4, <2>6 DEF SortFits
<1> QED
  BY <1>14, <1>15

LEMMA SortSteps ==
    ASSUME ValidatorShape, SortFits, SortNext
    PROVE  SortFits'
<1>1. CASE SortAll
  <2>1. pc = "begin" /\ ~InnerLoop
    BY <1>1 DEF SortAll, ValidatorShape
  <2>2. nodeIds \in SUBSET nodeIds
    OBVIOUS
  <2> QED
    BY <1>1, <2>1, <2>2, BeginSortFits DEF SortAll
<1>2. CASE EndWalk
  <2>1. pc = "walk" /\ ~InnerLoop /\ visited \in SUBSET nodeIds
    BY <1>2 DEF EndWalk, ValidatorShape
  <2> QED
    BY <1>2, <2>1, BeginSortFits DEF EndWalk
<1>3. CASE ShiftToSorted
  BY <1>3, ShiftFits
<1>4. CASE PassEdge
  BY <1>4, PassFits
<1>5. CASE TakeEdge
  BY <1>5, TakeFits
<1>6. CASE \/ UnknownTarget \/ BeginWalk \/ ShiftToWalk
           \/ WalkEdge \/ EndSort
  <2>1. pc' # "sort"
    BY <1>6 DEF UnknownTarget, BeginWalk, ShiftToWalk,
           WalkEdge, EndSort
  <2> QED
    BY <2>1 DEF SortFits
<1> QED
  BY <1>1, <1>2, <1>3, <1>4, <1>5, <1>6 DEF SortNext

----------------------------------------------------------------------------
(* Orders and cycles. *)

LEMMA FirstNumbers ==
    ASSUME NEW N \in Nat
    PROVE  IsFiniteSet(1..N) /\ Cardinality(1..N) = N
BY FS_Interval

\* An order of a finite set has all of it.
LEMMA OrdersCover ==
    ASSUME NEW S, IsFiniteSet(S), NEW E, NEW p \in KahnOrders(S, E)
    PROVE  /\ Cardinality(S) \in Nat
           /\ p \in [1..Cardinality(S) -> S]
           /\ \A x \in S : \E i \in 1..Cardinality(S) : p[i] = x
<1> DEFINE N == Cardinality(S)
<1>1. N \in Nat
  BY FS_CardinalityType
<1>2. p \in [1..N -> S] /\ \A i, j \in 1..N : i # j => p[i] # p[j]
  BY DEF KahnOrders, Orderings
<1>3. IsFiniteSet(1..N) /\ Cardinality(1..N) = N
  BY <1>1, FirstNumbers
<1> HIDE DEF N
<1>4. p \in Injection(1..N, S)
  BY <1>2 DEF Injection, IsInjective
<1>5. p \in Surjection(1..N, S)
  BY <1>3, <1>4, FS_Injection DEF N
<1> QED
  BY <1>1, <1>2, <1>5 DEF Surjection, N

\* The nodes of an order from one position on are closed under its edges.
LEMMA TailIsClosed ==
    ASSUME NEW S, IsFiniteSet(S), NEW E, NEW p \in KahnOrders(S, E),
           NEW i \in 1..Cardinality(S), NEW m \in S, NEW n \in S, HasEdge(E, m, n),
           \E j \in 1..Cardinality(S) : i <= j /\ p[j] = m
    PROVE  \E j \in 1..Cardinality(S) : i < j /\ p[j] = n
<1>1. PICK j \in 1..Cardinality(S) : i <= j /\ p[j] = m
  OBVIOUS
<1>2. PICK l \in 1..Cardinality(S) : p[l] = n
  BY OrdersCover
<1>3. DOMAIN p = 1..Cardinality(S) /\ Cardinality(S) \in Nat
  BY OrdersCover
<1>4. j <= l - 1
  BY <1>1, <1>2, <1>3 DEF KahnOrders, ReadyAfter
<1> QED
  BY <1>1, <1>2, <1>3, <1>4

\* A graph with an order has no edge back to a node it leads from.
LEMMA OrderMeansNoCycle ==
    ASSUME NEW S, IsFiniteSet(S), NEW E, NEW p \in KahnOrders(S, E),
           NEW m \in S, NEW n \in S, HasEdge(E, m, n)
    PROVE  m \notin Downstream([nodes |-> S, edges |-> E], n)
<1> DEFINE N == Cardinality(S)
           d == [nodes |-> S, edges |-> E]
<1>1. N \in Nat /\ DOMAIN p = 1..N /\ \A x \in S : \E i \in 1..N : p[i] = x
  BY OrdersCover
<1>2. PICK i \in 1..N : p[i] = n
  BY <1>1
<1> DEFINE X == {x \in S : \E j \in 1..N : i <= j /\ p[j] = x}
<1>3. n \in X
  BY <1>1, <1>2
<1>4. \A e \in E : e.dst \in S /\ e.src \in X => e.dst \in X
  <2> SUFFICES ASSUME NEW e \in E, e.dst \in S, e.src \in X
               PROVE  e.dst \in X
    OBVIOUS
  <2>1. HasEdge(E, e.src, e.dst)
    BY DEF HasEdge
  <2>2. PICK j \in 1..N : i < j /\ p[j] = e.dst
    BY <2>1, TailIsClosed
  <2> QED
    BY <1>1, <2>2
<1>5. Downstream(d, n) \subseteq X
  <2>1. d.nodes = S /\ d.edges = E
    OBVIOUS
  <2> HIDE DEF d, X
  <2> QED
    BY <1>3, <1>4, <2>1, DownstreamCloses
<1>6. m \notin X
  <2> SUFFICES ASSUME NEW j \in 1..N, i <= j, p[j] = m
               PROVE  FALSE
    OBVIOUS
  <2>1. j <= i - 1
    BY <1>1, <1>2 DEF KahnOrders, ReadyAfter
  <2> QED
    BY <1>1, <2>1
<1> QED
  BY <1>5, <1>6

\* In a set where every node has a predecessor, some edge closes a cycle.
LEMMA NoRootMeansCycle ==
    ASSUME NEW S, IsFiniteSet(S), NEW E, NEW U \in SUBSET S, U # {},
           \A n \in U : \E m \in U : HasEdge(E, m, n)
    PROVE  \E m, n \in S : HasEdge(E, m, n) /\ m \in Downstream([nodes |-> S, edges |-> E], n)
<1> DEFINE d == [nodes |-> S, edges |-> E]
           Reach(n) == Downstream(d, n)
           Missed(n) == Cardinality(S) - Cardinality(Reach(n))
           T == {Missed(n) : n \in U}
<1>1. d.nodes = S /\ d.edges = E
  OBVIOUS
<1> HIDE DEF d
<1>2. ASSUME NEW n \in S
      PROVE  /\ Reach(n) \in SUBSET S /\ IsFiniteSet(Reach(n))
             /\ Cardinality(Reach(n)) \in Nat /\ Cardinality(S) \in Nat
             /\ Missed(n) \in Nat
  <2>1. Reach(n) \in SUBSET S
    BY <1>1 DEF Downstream, Closure
  <2> HIDE DEF Reach
  <2>2. IsFiniteSet(Reach(n)) /\ Cardinality(Reach(n)) <= Cardinality(S)
    BY <2>1, FS_Subset
  <2>3. Cardinality(Reach(n)) \in Nat /\ Cardinality(S) \in Nat
    BY <2>2, FS_CardinalityType
  <2> QED
    BY <2>1, <2>2, <2>3
<1>3. PICK n \in U : \A m \in U : Missed(n) <= Missed(m)
  <2>1. T \in SUBSET Nat /\ T # {}
    BY <1>2
  <2>2. PICK t \in T : \A u \in T : t <= u
    <3> HIDE DEF T
    <3> QED
      BY <2>1, LeastNumber
  <2> QED
    BY <2>2
<1>4. PICK m \in U : HasEdge(E, m, n)
  OBVIOUS
<1>5. m \in Reach(n)
  <2> SUFFICES ASSUME m \notin Reach(n) PROVE FALSE
    OBVIOUS
  <2>1. PICK e \in E : e.src = m /\ e.dst = n
    BY <1>4 DEF HasEdge
  <2>2. m \in Reach(m) /\ n \in Reach(m)
    BY <1>1, <2>1, DownstreamCloses
  <2>3. \A f \in E : f.dst \in S /\ f.src \in Reach(m) => f.dst \in Reach(m)
    BY <1>1, DownstreamCloses
  <2>4. Reach(n) \subseteq Reach(m)
    <3> DEFINE X == Reach(m)
    <3>1. n \in X /\ \A f \in E : f.dst \in S /\ f.src \in X => f.dst \in X
      BY <2>2, <2>3
    <3> HIDE DEF X
    <3>2. Reach(n) \subseteq X
      BY <1>1, <3>1, DownstreamCloses
    <3> QED
      BY <3>2 DEF X
  <2>5. m \in S /\ n \in S
    OBVIOUS
  <2> HIDE DEF Reach
  <2>6. /\ IsFiniteSet(Reach(m)) /\ Cardinality(Reach(m)) \in Nat /\ Cardinality(Reach(n)) \in Nat
        /\ Cardinality(S) \in Nat
    BY <1>2, <2>5
  <2>7. Cardinality(Reach(n)) <= Cardinality(Reach(m)) /\ Cardinality(Reach(n)) # Cardinality(Reach(m))
    BY <2>2, <2>4, <2>6, FS_Subset
  <2> QED
    BY <1>3, <2>6, <2>7
<1> QED
  BY <1>4, <1>5 DEF d

\* The validator's word for a cycle.
LEMMA CycleIsEdgeBack ==
    ASSUME NEW S
    PROVE  HasCycle(S) <=>
              \E m, n \in S : /\ HasEdge(Given.edges, m, n)
                              /\ m \in Downstream([nodes |-> S, edges |-> Given.edges], n)
<1> DEFINE d == [nodes |-> S, edges |-> Given.edges]
<1>1. d.nodes = S /\ d.edges = Given.edges
  OBVIOUS
<1> HIDE DEF d
<1>2. HasCycle(S) <=>
         \E m, n \in S : HasEdge(Given.edges, m, n) /\ m \in Downstream(d, n)
  BY <1>1 DEF HasCycle, Downstream
<1> QED
  BY <1>2 DEF d

----------------------------------------------------------------------------
(* What is returned or reported. *)

ResultFits ==
    /\ pc = "sorted" =>
          /\ Len(sorted) = Cardinality(visited)
          /\ sorted \in KahnOrders(visited, Given.edges)
    /\ pc = "cycle" =>
          \E U \in SUBSET visited :
              /\ U # {}
              /\ \A n \in U : \E m \in U : HasEdge(Given.edges, m, n)

\* A walk is started from a node of the graph only.
TargetIsNode ==
    pc \notin {"begin", "empty"} /\ input.fn # "topologicalSort"
        => input.target \in nodeIds

ValidatorInv == ValidatorShape /\ WalkFits /\ SortFits /\ ResultFits /\ TargetIsNode

\* The rows into a node are the edges of the graph.
LEMMA RowsAreEdges ==
    ASSUME ValidatorShape, NEW m \in visited, NEW n \in visited
    PROVE  HasEdge(Given.edges, m, n) <=> \E r \in Into(n) : Source(r) = m
<1>1. m \in nodeIds /\ n \in nodeIds
  BY DEF ValidatorShape
<1> QED
  BY <1>1 DEF HasEdge, Given, Into, InRows, Source

LEMMA EndFits ==
    ASSUME ValidatorShape, SortFits, EndSort
    PROVE  ResultFits'
<1> PICK N : N = Len(sorted)
  OBVIOUS
<1> PICK E : E = Given.edges
  OBVIOUS
<1>1. /\ pc = "sort" /\ queue = <<>> /\ ~InnerLoop
      /\ pc' = IF N = Cardinality(visited) THEN "sorted" ELSE "cycle"
      /\ input' = input /\ visited' = visited /\ sorted' = sorted
  BY DEF EndSort
<1>2. /\ NoRepeats(Line) /\ LineIsReady /\ LineFollows /\ LineInOrder
  BY <1>1 DEF SortFits
<1>3. /\ Line = sorted /\ sorted \in Seq(visited) /\ N \in Nat /\ DOMAIN sorted = 1..N
      /\ \A i \in 1..N : sorted[i] \in visited
  <2>1. sorted \in Seq(visited)
    BY DEF ValidatorShape
  <2>2. sorted \o <<>> = sorted
    BY <2>1
  <2> QED
    BY <1>1, <2>1, <2>2 DEF Line
<1>4. Given.edges' = E
  BY <1>1, ArgumentsStay
<1>5. IsFiniteSet(visited) /\ IsFiniteSet(1..N) /\ Cardinality(1..N) = N
  <2>1. IsFiniteSet(visited)
    BY NodesAreFinite, FS_Subset DEF ValidatorShape
  <2>2. N \in Nat
    BY <1>3
  <2>3. IsFiniteSet(1..N) /\ Cardinality(1..N) = N
    BY <2>2, FirstNumbers
  <2> QED
    BY <2>1, <2>3
<1>6. CASE N = Cardinality(visited)
  <2>1. pc' = "sorted"
    BY <1>1, <1>6
  <2>2. sorted \in Orderings(visited)
    <3>1. \A i, j \in 1..N : i # j => sorted[i] # sorted[j]
      BY <1>2, <1>3 DEF NoRepeats
    <3>2. sorted \in [1..N -> visited]
      BY <1>3
    <3> QED
      BY <1>6, <3>1, <3>2 DEF Orderings
  <2>3. ASSUME NEW i \in 1..N, NEW k \in 0..N
        PROVE  ReadyAfter(E, sorted, i, k) <=> ReadyBy(i, k)
    <3>1. \A j \in 1..N :
             HasEdge(E, sorted[j], sorted[i]) <=> \E r \in Into(sorted[i]) : Source(r) = sorted[j]
      BY <1>3, RowsAreEdges
    <3>2. ASSUME ReadyAfter(E, sorted, i, k), NEW r \in Into(sorted[i])
          PROVE  \E l \in 1..k : sorted[l] = Source(r)
      <4>1. PICK l \in 1..N : l < i /\ sorted[l] = Source(r)
        BY <1>2, <1>3 DEF LineFollows
      <4>2. l <= k
        BY <1>3, <3>1, <3>2, <4>1 DEF ReadyAfter
      <4> QED
        BY <4>1, <4>2
    <3>3. ASSUME ReadyBy(i, k), NEW j \in 1..N, HasEdge(E, sorted[j], sorted[i])
          PROVE  j <= k
      <4>1. PICK r \in Into(sorted[i]) : Source(r) = sorted[j]
        BY <3>1, <3>3
      <4>2. PICK l \in 1..k : sorted[l] = sorted[j]
        BY <1>3, <3>3, <4>1 DEF ReadyBy
      <4>3. l \in 1..N /\ l = j
        BY <1>2, <1>3, <4>2 DEF NoRepeats
      <4> QED
        BY <4>2, <4>3
    <3> QED
      BY <1>3, <3>2, <3>3 DEF ReadyAfter, ReadyBy
  <2>4. ASSUME NEW i \in 1..N
        PROVE  ReadyAfter(E, sorted, i, i - 1)
    <3>1. \A r \in Into(sorted[i]) : \E l \in 1..(i - 1) : sorted[l] = Source(r)
      BY <1>2, <1>3 DEF LineFollows
    <3>2. i - 1 \in 0..N
      BY <1>3
    <3>3. ReadyBy(i, i - 1)
      BY <1>3, <3>1 DEF ReadyBy
    <3> QED
      BY <2>3, <3>2, <3>3
  <2>5. ASSUME NEW i \in 1..N, NEW j \in 1..N, NEW k \in 0..N, i < j,
               ReadyAfter(E, sorted, j, k)
        PROVE  ReadyAfter(E, sorted, i, k)
    BY <1>2, <1>3, <2>3, <2>5 DEF LineInOrder
  <2>6. sorted \in KahnOrders(visited, E)
    BY <1>3, <1>6, <2>2, <2>4, <2>5 DEF KahnOrders
  <2> QED
    BY <1>1, <1>4, <1>6, <2>1, <2>6 DEF ResultFits
<1>7. CASE N # Cardinality(visited)
  <2> DEFINE U == {n \in visited : ~Contains(sorted, n)}
  <2>1. pc' = "cycle"
    BY <1>1, <1>7
  <2>2. U # {}
    <3> SUFFICES ASSUME U = {} PROVE FALSE
      OBVIOUS
    <3>1. \A n \in visited : \E i \in 1..N : sorted[i] = n
      BY <1>3 DEF Contains
    <3>2. sorted \in [1..N -> visited] /\ \A i, j \in 1..N : sorted[i] = sorted[j] => i = j
      BY <1>2, <1>3 DEF NoRepeats
    <3>3. sorted \in Surjection(1..N, visited) /\ sorted \in Injection(1..N, visited)
      BY <3>1, <3>2 DEF Surjection, Injection, IsInjective
    <3> QED
      BY <1>5, <1>7, <3>3, FS_Surjection
  <2>3. ASSUME NEW n \in U
        PROVE  \E m \in U : HasEdge(E, m, n)
    <3>1. n \in visited /\ Left(n) # {}
      BY <1>2, <1>3 DEF LineIsReady
    <3>2. PICK r \in Left(n) : TRUE
      BY <3>1
    <3>3. r \in Into(n) /\ ~Taken(r) /\ r \in positions /\ Source(r) \in visited
      BY <3>2 DEF Left, Into, InRows, Source
    <3>4. r < cursor
      BY <1>1, <3>3, InputFields DEF ValidatorShape, InnerLoop
    <3>5. Source(r) \in U
      BY <3>3, <3>4 DEF Taken
    <3> QED
      BY <3>1, <3>3, <3>5, RowsAreEdges
  <2>4. U \in SUBSET visited
    OBVIOUS
  <2> HIDE DEF U
  <2>5. \E V \in SUBSET visited : V # {} /\ \A n \in V : \E m \in V : HasEdge(E, m, n)
    BY <2>2, <2>3, <2>4
  <2> QED
    BY <1>1, <1>4, <2>1, <2>5 DEF ResultFits
<1> QED
  BY <1>6, <1>7

LEMMA ResultSteps ==
    ASSUME ValidatorShape, SortFits, WalkFits, TargetIsNode, SortNext
    PROVE  ResultFits' /\ TargetIsNode'
<1>1. CASE EndSort
  <2>1. pc = "sort" /\ input' = input
    BY <1>1 DEF EndSort
  <2>2. TargetIsNode'
    BY <2>1, ArgumentsStay DEF TargetIsNode
  <2> QED
    BY <1>1, <2>2, EndFits
<1>2. CASE \/ SortAll \/ UnknownTarget
           \/ BeginWalk \/ ShiftToWalk \/ WalkEdge \/ EndWalk
           \/ ShiftToSorted \/ PassEdge \/ TakeEdge
  <2>1. pc' \notin {"sorted", "cycle"} /\ input' = input
    BY <1>2 DEF SortAll, UnknownTarget, BeginWalk,
           ShiftToWalk, WalkEdge, EndWalk, BeginSort,
           ShiftToSorted, PassEdge, TakeEdge
  <2>2. pc' \notin {"begin", "empty"} /\ input.fn # "topologicalSort"
          => input.target \in nodeIds
    BY <1>2 DEF TargetIsNode, SortAll, UnknownTarget, BeginWalk,
           ShiftToWalk, WalkEdge, EndWalk, BeginSort,
           ShiftToSorted, PassEdge, TakeEdge
  <2>3. TargetIsNode'
    BY <2>1, <2>2, ArgumentsStay DEF TargetIsNode
  <2> QED
    BY <2>1, <2>3 DEF ResultFits
<1> QED
  BY <1>1, <1>2 DEF SortNext

LEMMA InitValidator ==
    ASSUME SortInit
    PROVE  ValidatorInv
<1>1. /\ input \in Input /\ NoRepeats(input.nodes)
      /\ pc = "begin" /\ visited = {} /\ queue = <<>> /\ sorted = <<>>
      /\ cursor = Len(input.edges) + 1 /\ inDegree = [n \in Id |-> 0]
  BY InputsAssumption DEF SortInit, NoRepeats
<1>2. Len(input.edges) \in Nat
  BY <1>1, InputFields
<1>3. cursor \in 1..(Len(input.edges) + 1) /\ ~InnerLoop
  BY <1>1, <1>2 DEF InnerLoop
<1>4. inDegree \in [Id -> Int] /\ <<>> \in Seq(visited)
  BY <1>1
<1>5. ValidatorShape
  BY <1>1, <1>3, <1>4 DEF ValidatorShape, Walking
<1> QED
  BY <1>1, <1>5 DEF ValidatorInv, WalkFits, SortFits, ResultFits, TargetIsNode, Walking

LEMMA ValidatorStutters ==
    ASSUME ValidatorInv, UNCHANGED sortVars
    PROVE  ValidatorInv'
<1>1. UNCHANGED <<input, pc, visited, queue, current, cursor, inDegree, sorted>>
  BY DEF sortVars
<1>2. ValidatorShape' /\ WalkFits' /\ TargetIsNode'
  BY <1>1, ArgumentsStay DEF ValidatorInv, ValidatorShape, WalkFits, Followed, TargetIsNode,
         InnerLoop, Near, Far
<1>3. ResultFits'
  BY <1>1, ArgumentsStay DEF ValidatorInv, ResultFits
<1>4. SortFits'
  <2>1. Line' = Line /\ \A r : Source(r)' = Source(r)
    BY <1>1 DEF Line, Source
  <2>2. \A n : Into(n)' = Into(n)
    BY <1>1, ArgumentsStay DEF Into
  <2>3. \A n : Left(n)' = Left(n)
    BY <1>1, <2>1, <2>2 DEF Left, Taken
  <2>4. \A i, k : ReadyBy(i, k)' <=> ReadyBy(i, k)
    BY <1>1, <2>1, <2>2 DEF ReadyBy
  <2>5. (Counted' <=> Counted) /\ (LineIsReady' <=> LineIsReady)
    BY <1>1, <2>1, <2>3 DEF Counted, LineIsReady
  <2>6. (LineFollows' <=> LineFollows) /\ (LineInOrder' <=> LineInOrder)
    BY <1>1, <2>1, <2>2, <2>4 DEF LineFollows, LineInOrder
  <2> QED
    BY <1>1, <2>1, <2>5, <2>6 DEF ValidatorInv, SortFits, InnerLoop
<1> QED
  BY <1>2, <1>3, <1>4 DEF ValidatorInv

LEMMA ValidatorInvariant == SortSpec => []ValidatorInv
<1>1. SortInit => ValidatorInv
  BY InitValidator
<1>2. ValidatorInv /\ [SortNext]_sortVars => ValidatorInv'
  <2> SUFFICES ASSUME ValidatorInv, SortNext PROVE ValidatorInv'
    BY ValidatorStutters
  <2> QED
    BY ShapeSteps, WalkSteps, SortSteps, ResultSteps DEF ValidatorInv
<1> QED
  BY <1>1, <1>2, PTL DEF SortSpec

\* The node a walk starts from is at the end of the order it is to be at.
LEMMA TargetEndsOrder ==
    ASSUME ValidatorInv, pc = "sorted"
    PROVE  TargetAtItsEnd
<1> PICK A : A = Asked
  OBVIOUS
<1> PICK E : E = Given.edges
  OBVIOUS
<1> PICK t : t = input.target
  OBVIOUS
<1> PICK N : N = Len(sorted)
  OBVIOUS
<1> SUFFICES ASSUME input.fn # "topologicalSort"
             PROVE  TargetAtItsEnd
  BY DEF TargetAtItsEnd
<1>1. /\ input \in Input /\ visited = A /\ sorted \in Seq(A) /\ t \in nodeIds
      /\ N = Cardinality(A) /\ sorted \in KahnOrders(A, E)
  BY DEF ValidatorInv, ValidatorShape, WalkFits, ResultFits, TargetIsNode, Walking
<1>2. /\ t \in A /\ A \subseteq nodeIds
      /\ \A m \in A, n \in nodeIds : Leads(m, n) => n \in A
      /\ \A X :
            /\ t \in X
            /\ \A m \in X \cap nodeIds, n \in nodeIds : Leads(m, n) => n \in X
            => A \subseteq X
  BY <1>1, AskedCloses
<1>3. IsFiniteSet(A)
  BY <1>1, <1>2, NodesAreFinite, FS_Subset
<1>4. N \in Nat /\ DOMAIN sorted = 1..N /\ \A x \in A : \E i \in 1..N : sorted[i] = x
  BY <1>1, <1>3, OrdersCover
<1>5. \A i, j \in 1..N : sorted[i] \in A /\ (sorted[i] = sorted[j] => i = j)
  BY <1>1, <1>4 DEF KahnOrders, Orderings
<1>6. \A i, j \in 1..N : HasEdge(E, sorted[j], sorted[i]) => j < i
  <2>1. \A i, j \in 1..N : HasEdge(E, sorted[j], sorted[i]) => j <= i - 1
    BY <1>1, <1>4 DEF KahnOrders, ReadyAfter
  <2> QED
    BY <1>4, <2>1
<1>7. PICK q \in 1..N : sorted[q] = t
  BY <1>2, <1>4
<1>8. CASE input.fn = "getUpstreamNodes"
  <2>1. \A m, n \in nodeIds : Leads(m, n) => HasEdge(E, n, m)
    BY <1>8 DEF Leads, HasEdge, Given, Near, Far
  <2> DEFINE X == {sorted[j] : j \in 1..q}
  <2>2. t \in X
    BY <1>7
  <2>3. ASSUME NEW m \in X, NEW n \in nodeIds, Leads(m, n)
        PROVE  n \in X
    <3>1. PICK j \in 1..q : sorted[j] = m
      OBVIOUS
    <3>2. j \in 1..N /\ m \in A
      BY <1>4, <1>5, <1>7, <3>1
    <3>3. PICK l \in 1..N : sorted[l] = n
      BY <1>2, <1>4, <2>3, <3>2
    <3>4. l < j
      BY <1>2, <1>6, <2>1, <2>3, <3>1, <3>2, <3>3
    <3>5. l \in 1..q
      BY <1>4, <1>7, <3>1, <3>4
    <3> QED
      BY <3>3, <3>5
  <2>4. A \subseteq X
    <3> HIDE DEF X
    <3> QED
      BY <1>2, <2>2, <2>3
  <2>5. N \in 1..N
    BY <1>4, <1>7
  <2>6. PICK j \in 1..q : sorted[j] = sorted[N]
    BY <1>5, <2>4, <2>5
  <2>7. j \in 1..N
    BY <1>4, <1>7, <2>6
  <2>8. j = N
    BY <1>5, <2>5, <2>6, <2>7
  <2>9. q = N
    BY <1>4, <1>7, <2>6, <2>8
  <2> QED
    BY <1>7, <1>8, <2>9 DEF TargetAtItsEnd
<1>9. CASE input.fn = "getDownstreamNodes"
  <2>1. \A m, n \in nodeIds : Leads(m, n) => HasEdge(E, m, n)
    BY <1>9 DEF Leads, HasEdge, Given, Near, Far
  <2> DEFINE X == {sorted[j] : j \in q..N}
  <2>2. t \in X
    BY <1>7
  <2>3. ASSUME NEW m \in X, NEW n \in nodeIds, Leads(m, n)
        PROVE  n \in X
    <3>1. PICK j \in q..N : sorted[j] = m
      OBVIOUS
    <3>2. j \in 1..N /\ m \in A
      BY <1>4, <1>5, <1>7, <3>1
    <3>3. PICK l \in 1..N : sorted[l] = n
      BY <1>2, <1>4, <2>3, <3>2
    <3>4. j < l
      BY <1>2, <1>6, <2>1, <2>3, <3>1, <3>2, <3>3
    <3>5. l \in q..N
      BY <1>4, <1>7, <3>1, <3>3, <3>4
    <3> QED
      BY <3>3, <3>5
  <2>4. A \subseteq X
    <3> HIDE DEF X
    <3> QED
      BY <1>2, <2>2, <2>3
  <2>5. 1 \in 1..N
    BY <1>4, <1>7
  <2>6. PICK j \in q..N : sorted[j] = sorted[1]
    BY <1>5, <2>4, <2>5
  <2>7. j \in 1..N
    BY <1>4, <1>7, <2>6
  <2>8. j = 1
    BY <1>5, <2>5, <2>6, <2>7
  <2>9. q = 1
    BY <1>4, <1>7, <2>6, <2>8
  <2> QED
    BY <1>7, <1>9, <2>9 DEF TargetAtItsEnd
<1> QED
  BY <1>1, <1>8, <1>9, InputFields DEF Functions

\* An order that topologicalSort, getDownstreamNodes or getUpstreamNodes
\* returns has just the nodes asked for, is one that Kahn's algorithm can
\* produce, and has the node a walk starts from at its end.
THEOREM SortsAreKahnOrders == SortSpec => []ReturnsKahnOrder
<1>1. ValidatorInv => ReturnsKahnOrder
  <2> SUFFICES ASSUME ValidatorInv, pc = "sorted"
               PROVE  ReturnsKahnOrder
    BY DEF ReturnsKahnOrder
  <2>1. visited = Asked /\ sorted \in KahnOrders(visited, Given.edges)
    BY DEF ValidatorInv, WalkFits, ResultFits, Walking
  <2>2. sorted \in KahnOrders(Asked, Given.edges)
    BY <2>1
  <2> QED
    BY <2>2, TargetEndsOrder DEF ReturnsKahnOrder
<1> QED
  BY <1>1, ValidatorInvariant, PTL

\* The error of topologicalSort tells of a cycle among the nodes asked for,
\* and an order is returned only where there is none.
THEOREM CyclesAreReported == SortSpec => []ReportsCycles
<1>1. ValidatorInv => ReportsCycles
  <2> SUFFICES ASSUME ValidatorInv, pc \in {"sorted", "cycle"}
               PROVE  ReportsCycles
    BY DEF ReportsCycles
  <2> PICK A : A = visited
    OBVIOUS
  <2>1. A = Asked /\ IsFiniteSet(A)
    BY NodesAreFinite, FS_Subset DEF ValidatorInv, ValidatorShape, WalkFits, Walking
  <2> PICK E : E = Given.edges
    OBVIOUS
  <2>2. CASE pc = "sorted"
    <3>1. sorted \in KahnOrders(A, E)
      BY <2>2 DEF ValidatorInv, ResultFits
    <3>2. ~HasCycle(A)
      BY <2>1, <3>1, OrderMeansNoCycle, CycleIsEdgeBack
    <3> QED
      BY <2>1, <2>2, <3>2 DEF ReportsCycles
  <2>3. CASE pc = "cycle"
    <3>1. PICK U \in SUBSET A : U # {} /\ \A n \in U : \E m \in U : HasEdge(E, m, n)
      BY <2>3 DEF ValidatorInv, ResultFits
    <3>2. HasCycle(A)
      BY <2>1, <3>1, NoRootMeansCycle, CycleIsEdgeBack
    <3> QED
      BY <2>1, <2>3, <3>2 DEF ReportsCycles
  <2> QED
    BY <2>2, <2>3
<1> QED
  BY <1>1, ValidatorInvariant, PTL

\* What validateDag decides: an error from topologicalSort means that the
\* definition has no order at all, so saveWorkflow refuses no acyclic one.
THEOREM ErrorsMeanNoOrder == SortSpec => [](pc = "cycle" => KahnOrders(Asked, Given.edges) = {})
<1>1. ValidatorInv => (pc = "cycle" => KahnOrders(Asked, Given.edges) = {})
  <2> PICK A : A = visited
    OBVIOUS
  <2> PICK E : E = Given.edges
    OBVIOUS
  <2> SUFFICES ASSUME ValidatorInv, pc = "cycle", NEW p \in KahnOrders(Asked, Given.edges)
               PROVE  FALSE
    OBVIOUS
  <2>1. A = Asked /\ IsFiniteSet(A) /\ p \in KahnOrders(A, E)
    BY NodesAreFinite, FS_Subset DEF ValidatorInv, ValidatorShape, WalkFits, Walking
  <2>2. PICK U \in SUBSET A : U # {} /\ \A n \in U : \E m \in U : HasEdge(E, m, n)
    BY DEF ValidatorInv, ResultFits
  <2>3. \E m, n \in A : HasEdge(E, m, n) /\ m \in Downstream([nodes |-> A, edges |-> E], n)
    BY <2>1, <2>2, NoRootMeansCycle
  <2> QED
    BY <2>1, <2>3, OrderMeansNoCycle
<1> QED
  BY <1>1, ValidatorInvariant, PTL

----------------------------------------------------------------------------
(* What is left to do: phases, then nodes to shift, then rows to read. *)

Phase ==
    CASE pc = "begin" -> 3 [] pc = "walk" -> 2 [] pc = "sort" -> 1 [] OTHER -> 0

ToShift ==
    CASE pc = "walk" -> Cardinality(nodeIds) - Cardinality(visited) + Len(queue)
      [] pc = "sort" -> Cardinality(visited) - Len(sorted)
      [] OTHER -> 0

ToRead == Len(input.edges) + 1 - cursor

Descends ==
    /\ Phase \in Nat /\ ToShift \in Nat /\ ToRead \in Nat
    /\ \/ Phase' < Phase
       \/ Phase' = Phase /\ ToShift' < ToShift
       \/ Phase' = Phase /\ ToShift' = ToShift /\ ToRead' < ToRead

LEMMA WorkIsCounted ==
    ASSUME ValidatorInv
    PROVE  /\ Phase \in Nat /\ ToShift \in Nat /\ ToRead \in Nat
           /\ IsFiniteSet(visited) /\ Cardinality(visited) \in Nat
           /\ Cardinality(nodeIds) \in Nat
<1>1. ValidatorShape
  BY DEF ValidatorInv
<1>2. Phase \in Nat
  BY DEF Phase
<1>3. ToRead \in Nat
  BY <1>1, InputFields DEF ValidatorShape, ToRead
<1>4. /\ IsFiniteSet(visited) /\ Cardinality(visited) \in Nat
      /\ Cardinality(nodeIds) \in Nat
      /\ Cardinality(visited) <= Cardinality(nodeIds)
  BY <1>1, NodesAreFinite, FS_Subset, FS_CardinalityType DEF ValidatorShape
<1>5. ToShift \in Nat
  <2>1. CASE pc = "walk"
    <3>1. Len(queue) \in Nat
      BY <1>1, LineFacts
    <3> QED
      BY <1>4, <2>1, <3>1 DEF ToShift
  <2>2. CASE pc = "sort"
    <3>1. NoRepeats(Line)
      BY <2>2 DEF ValidatorInv, SortFits
    <3> PICK N : N = Len(sorted)
      OBVIOUS
    <3>2. /\ N \in Nat /\ sorted \in [1..N -> visited]
          /\ \A i \in 1..N : i \in DOMAIN Line /\ Line[i] = sorted[i]
      BY <1>1, LineFacts
    <3>3. sorted \in Injection(1..N, visited)
      BY <3>1, <3>2 DEF NoRepeats, Injection, IsInjective
    <3>4. Cardinality(1..N) = N
      BY <3>2, FirstNumbers
    <3>5. N <= Cardinality(visited)
      BY <1>4, <3>3, <3>4, FS_Injection
    <3> QED
      BY <1>4, <2>2, <3>2, <3>5 DEF ToShift
  <2>3. CASE pc \notin {"walk", "sort"}
    BY <2>3 DEF ToShift
  <2> QED
    BY <2>1, <2>2, <2>3
<1> QED
  BY <1>2, <1>3, <1>4, <1>5

LEMMA OneFewer ==
    ASSUME NEW K \in Nat, NEW c \in Nat
    PROVE  K + 1 - (c + 1) < K + 1 - c
OBVIOUS

LEMMA ReadingCounts ==
    ASSUME cursor \in Nat, Len(input.edges) \in Nat, input' = input, cursor' = cursor + 1
    PROVE  ToRead' < ToRead
<1> PICK K \in Nat : K = Len(input.edges)
  OBVIOUS
<1> PICK c \in Nat : c = cursor
  OBVIOUS
<1>1. ToRead = K + 1 - c
  BY DEF ToRead
<1>2. ToRead' = K + 1 - (c + 1)
  BY DEF ToRead
<1>3. K + 1 - (c + 1) < K + 1 - c
  BY OneFewer
<1> QED
  BY <1>1, <1>2, <1>3

LEMMA StepsDescend ==
    ASSUME ValidatorInv, SortNext
    PROVE  Descends
<1>0. ValidatorShape /\ Phase \in Nat /\ ToShift \in Nat /\ ToRead \in Nat
  BY WorkIsCounted DEF ValidatorInv
<1>1. CASE \/ SortAll \/ UnknownTarget \/ BeginWalk
           \/ EndWalk \/ EndSort
  <2>1. Phase' < Phase
    BY <1>1 DEF SortAll, UnknownTarget, BeginWalk,
           EndWalk, EndSort, BeginSort, Phase
  <2> QED
    BY <1>0, <2>1 DEF Descends
<1>2. CASE ShiftToWalk
  <2>1. /\ pc = "walk" /\ pc' = pc /\ queue # <<>> /\ queue' = Tail(queue)
        /\ input' = input /\ visited' = visited
    BY <1>2 DEF ShiftToWalk, Shift
  <2>2. Len(queue') = Len(queue) - 1 /\ Len(queue) \in Nat
    BY <1>0, <2>1 DEF ValidatorShape
  <2>3. Phase' = Phase /\ ToShift' < ToShift
    BY <2>1, <2>2, WorkIsCounted, ArgumentsStay DEF Phase, ToShift
  <2> QED
    BY <1>0, <2>3 DEF Descends
<1>3. CASE WalkEdge
  <2> DEFINE far == Far(edge)
             isNew == Near(edge) = current /\ far \in nodeIds \ visited
  <2>1. /\ pc = "walk" /\ pc' = pc /\ InnerLoop
        /\ visited' = IF isNew THEN visited \cup {far} ELSE visited
        /\ queue' = IF isNew THEN Append(queue, far) ELSE queue
        /\ cursor' = cursor + 1 /\ input' = input
    BY <1>3 DEF WalkEdge
  <2>2. /\ Len(queue) \in Nat /\ cursor \in Nat /\ Len(input.edges) \in Nat
        /\ queue \in Seq(visited)
    BY <1>0, InputFields DEF ValidatorShape
  <2>3. Cardinality(visited') - Len(queue') = Cardinality(visited) - Len(queue)
        /\ Cardinality(visited') \in Nat /\ Len(queue') \in Nat
    <3>1. CASE isNew
      <4>1. visited' = visited \cup {far} /\ queue' = Append(queue, far) /\ far \notin visited
        BY <2>1, <3>1
      <4>2. Cardinality(visited') = Cardinality(visited) + 1
        BY <4>1, WorkIsCounted, FS_AddElement
      <4>3. Len(queue') = Len(queue) + 1
        <5> HIDE DEF far, isNew
        <5> QED
          BY <2>2, <4>1
      <4> QED
        BY <2>2, <4>2, <4>3, WorkIsCounted
    <3>2. CASE ~isNew
      <4>1. visited' = visited /\ queue' = queue
        BY <2>1, <3>2
      <4> QED
        BY <2>2, <4>1, WorkIsCounted
    <3> QED
      BY <3>1, <3>2
  <2>4. Phase' = Phase /\ ToShift' = ToShift
    <3>1. Cardinality(nodeIds)' = Cardinality(nodeIds)
      BY <2>1, ArgumentsStay
    <3> HIDE DEF far, isNew
    <3> QED
      BY <2>1, <2>2, <2>3, <3>1, WorkIsCounted DEF Phase, ToShift
  <2>5. ToRead' < ToRead
    BY <2>1, <2>2, ReadingCounts
  <2> QED
    BY <1>0, <2>4, <2>5 DEF Descends
<1>4. CASE ShiftToSorted
  <2>1. /\ pc = "sort" /\ pc' = pc /\ visited' = visited /\ sorted' = Append(sorted, Head(queue))
        /\ queue # <<>>
    BY <1>4 DEF ShiftToSorted, Shift
  <2>2. Len(sorted') = Len(sorted) + 1 /\ Len(sorted) \in Nat
    BY <1>0, <2>1 DEF ValidatorShape
  <2>3. Phase' = Phase /\ ToShift' < ToShift
    BY <2>1, <2>2, WorkIsCounted DEF Phase, ToShift
  <2> QED
    BY <1>0, <2>3 DEF Descends
<1>5. CASE PassEdge \/ TakeEdge
  <2>1. /\ pc = "sort" /\ pc' = pc /\ visited' = visited /\ sorted' = sorted
        /\ cursor' = cursor + 1 /\ input' = input
    BY <1>5 DEF PassEdge, TakeEdge
  <2>2. cursor \in Nat /\ Len(input.edges) \in Nat
    BY <1>0, InputFields DEF ValidatorShape
  <2>3. Phase' = Phase /\ ToShift' = ToShift
    BY <2>1 DEF Phase, ToShift
  <2>4. ToRead' < ToRead
    BY <2>1, <2>2, ReadingCounts
  <2> QED
    BY <1>0, <2>3, <2>4 DEF Descends
<1> QED
  BY <1>1, <1>2, <1>3, <1>4, <1>5 DEF SortNext

\* No call runs on for ever, with cycles and repeated edge rows too: each
\* step goes to a later phase, shifts a node or reads a row, and there are
\* finitely many of each.
THEOREM EveryStepDescends == SortSpec => [][Descends]_sortVars
<1>1. ValidatorInv /\ [SortNext]_sortVars => [Descends]_sortVars
  BY StepsDescend
<1> QED
  BY <1>1, ValidatorInvariant, PTL DEF SortSpec

============================================================================
