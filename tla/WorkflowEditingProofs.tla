------------------------- MODULE WorkflowEditingProofs -------------------------
(****************************************************************************)
(* Theorems about WorkflowEditing: the rows stay a graph the engine can     *)
(* run, ids never return, only overlapping saves lose work, and the editor  *)
(* catches up.                                                              *)
(****************************************************************************)
EXTENDS WorkflowEditing, FiniteSetTheorems, TLAPS

----------------------------------------------------------------------------
(* Renaming the nodes of a graph. *)

\* The order of a graph, renamed, is an order of the renamed graph.
LEMMA RenamedOrder ==
    ASSUME NEW S, IsFiniteSet(S), NEW T, NEW h \in Bijection(S, T), NEW E, NEW F,
           \A m, n \in S : HasEdge(E, m, n) <=> HasEdge(F, h[m], h[n]),
           NEW p \in KahnOrders(S, E)
    PROVE  [i \in DOMAIN p |-> h[p[i]]] \in KahnOrders(T, F)
<1> DEFINE q == [i \in DOMAIN p |-> h[p[i]]]
<1>1. IsFiniteSet(T) /\ Cardinality(T) = Cardinality(S)
  BY FS_Bijection DEF ExistsBijection
<1>2. Cardinality(S) \in Nat
  BY FS_CardinalityType
<1>3. /\ p \in [1..Cardinality(S) -> S]
      /\ \A i, j \in 1..Cardinality(S) : i # j => p[i] # p[j]
      /\ \A i \in DOMAIN p : ReadyAfter(E, p, i, i - 1)
      /\ \A i, j \in DOMAIN p, k \in 0..Cardinality(S) :
              i < j /\ ReadyAfter(E, p, j, k) => ReadyAfter(E, p, i, k)
  BY DEF KahnOrders, Orderings
<1>4. /\ h \in [S -> T]
      /\ \A m, n \in S : m # n => h[m] # h[n]
  BY DEF Bijection, Injection, Surjection, IsInjective
<1>5. q \in Orderings(T)
  BY <1>1, <1>3, <1>4 DEF Orderings
<1>6. DOMAIN q = DOMAIN p /\ \A i \in DOMAIN p : q[i] = h[p[i]]
  OBVIOUS
<1>7. ASSUME NEW i \in DOMAIN p, NEW k
      PROVE  ReadyAfter(F, q, i, k) <=> ReadyAfter(E, p, i, k)
  <2>1. \A j \in DOMAIN p : HasEdge(E, p[j], p[i]) <=> HasEdge(F, q[j], q[i])
    BY <1>3, <1>6
  <2> QED
    BY <2>1, <1>6 DEF ReadyAfter
<1>8. \A i \in DOMAIN q : ReadyAfter(F, q, i, i - 1)
  BY <1>3, <1>6, <1>7
<1>9. \A i, j \in DOMAIN q, k \in 0..Cardinality(T) :
         i < j /\ ReadyAfter(F, q, j, k) => ReadyAfter(F, q, i, k)
  BY <1>1, <1>3, <1>6, <1>7
<1> HIDE DEF q
<1>10. q \in KahnOrders(T, F)
  BY <1>5, <1>8, <1>9 DEF KahnOrders
<1> QED
  BY <1>10 DEF q

----------------------------------------------------------------------------
(* The shape of the state. *)

Calls == [pc : {"idle", "reread", "save"}, copy : Definition, base : Nat,
          node : SUBSET Key, content : SUBSET Edit]
Loads == [pc : {"none", "asked", "read"}, copy : Definition]
Saves == [pc : {"none", "asked", "saved"}, copy : Definition]

ServerShape ==
    /\ stored \in Definition /\ stored.nodes \subseteq born /\ born \subseteq Id
    /\ version \in 0..MaxSaves /\ used \subseteq Edit
    /\ call \in [Agent -> Calls] /\ notices \in 0..version

PageShape ==
    /\ editor \in Definition /\ isOpen \in BOOLEAN /\ dirty \in BOOLEAN /\ missed \in BOOLEAN
    /\ edits \in 0..MaxEdits /\ latest \in 0..MaxLoads
    /\ load \in [1..MaxLoads -> Loads] /\ save \in Saves
    /\ \A k \in 1..MaxLoads : k > latest => load[k] = NoLoad
    /\ save.pc = "none" => save = NoSave

\* What is kept has its shape; nodes are stored under ids handed out, and no
\* load was asked for after the latest.
Shape == ServerShape /\ PageShape

(* What the editor waits for, as long as it missed nothing. *)

Loading == \E k \in 1..MaxLoads : k = latest /\ load[k].pc # "none"

Follows ==
    ~missed =>
        /\ ~(Loading /\ save # NoSave)
        /\ \A k \in 1..MaxLoads : k = latest /\ load[k].pc = "read" => load[k].copy = stored \/ notices > 0
        /\ save.pc = "saved" => save.copy = stored \/ notices > 0
        /\ isOpen /\ ~dirty => editor = stored \/ notices > 0 \/ Loading \/ save.pc = "saved"

(* What a copy lost of the definition it was made from. *)

EditsLost(d, c) == {p \in (d.nodes \cap c.nodes) \X Edit : p[2] \in d.content[p[1]] \ c.content[p[1]]}
EdgesLost(d, c) == {e \in d.edges : {e.src, e.dst} \subseteq c.nodes /\ ~HasEdge(c.edges, e.src, e.dst)}

OneLoss(d, c) ==
    \/ EdgesLost(d, c) = {} /\ d.nodes \subseteq c.nodes /\ \E p : EditsLost(d, c) \subseteq {p}
    \/ EditsLost(d, c) = {} /\ d.nodes \subseteq c.nodes /\ \E e : EdgesLost(d, c) \subseteq {e}
    \/ EditsLost(d, c) = {} /\ EdgesLost(d, c) = {} /\ \E n : d.nodes \ c.nodes \subseteq {n}

\* A tool that saves on top of what it read loses one thing at most.
CallFits(a) ==
    /\ call[a].pc # "idle" => call[a].base <= version
    /\ call[a].pc = "save" /\ call[a].base = version => OneLoss(stored, call[a].copy)
    /\ call[a].pc = "reread" /\ call[a].base = version =>
          \E n, o : call[a].node = {n} /\ stored.content[n] \ call[a].content \subseteq {o}

CopiesFit == \A a \in Agent : CallFits(a)

----------------------------------------------------------------------------
(* The operators on definitions. *)

LEMMA DefinitionParts ==
    ASSUME NEW d \in Definition
    PROVE  d.nodes \subseteq Key /\ d.edges \subseteq Edge /\ d.content \in [Key -> SUBSET Edit]
BY DEF Definition

LEMMA DefinitionOf ==
    ASSUME NEW N \in SUBSET Key, NEW E \in SUBSET Edge, NEW C \in [Key -> SUBSET Edit]
    PROVE  [nodes |-> N, edges |-> E, content |-> C] \in Definition
BY DEF Definition

LEMMA ClosedIsDefinition == Closed \in Definition
BY DEF Closed, Definition

LEMMA BuildSaveInputType ==
    ASSUME NEW d \in Definition
    PROVE  /\ BuildSaveInput(d) \in Definition
           /\ BuildSaveInput(d).nodes = d.nodes /\ BuildSaveInput(d).content = d.content
           /\ BuildSaveInput(d).edges = {[e EXCEPT !.handle = "none"] : e \in d.edges}
<1>1. \A e \in d.edges : [e EXCEPT !.handle = "none"] \in Edge
  BY DefinitionParts DEF Edge, Handles
<1> QED
  BY <1>1 DEF BuildSaveInput, Definition

LEMMA WithoutNodeType ==
    ASSUME NEW d \in Definition, NEW n \in Key
    PROVE  WithoutNode(d, n) \in Definition
BY DEF WithoutNode, Definition

LEMMA WithEdgeType ==
    ASSUME NEW d \in Definition, NEW e \in Edge
    PROVE  WithEdge(d, e) \in Definition
BY DEF WithEdge, Definition

LEMMA WithNodeType ==
    ASSUME NEW d \in Definition, NEW n \in Key, NEW C \in SUBSET Edit
    PROVE  WithNode(d, n, C) \in Definition
BY DEF WithNode, Definition

\* The definition with other contents.
LEMMA ContentType ==
    ASSUME NEW d \in Definition, NEW C \in [Key -> SUBSET Edit]
    PROVE  [d EXCEPT !.content = C] \in Definition
BY DEF Definition

----------------------------------------------------------------------------
(* What a save stores. *)

At(new, n) == IF n \in DOMAIN new THEN new[n] ELSE n

LEMMA SavedParts ==
    ASSUME NEW copy, NEW new
    PROVE  /\ Saved(copy, new).nodes = {At(new, n) : n \in copy.nodes}
           /\ Saved(copy, new).edges =
                {[src |-> At(new, e.src), dst |-> At(new, e.dst), handle |-> e.handle] : e \in copy.edges}
           /\ Saved(copy, new).content =
                [k \in Key |-> UNION {copy.content[n] : n \in {m \in copy.nodes : At(new, m) = k}}]
BY DEF Saved, At

\* Two nodes of a copy are stored under two ids of the database; one that is
\* stored keeps its id, another gets one that was never handed out.
LEMMA AtIsInjective ==
    ASSUME ServerShape, NEW copy \in Definition, NEW new \in Renamings(copy)
    PROVE  /\ \A n \in copy.nodes : At(new, n) \in Id
           /\ \A n \in copy.nodes \cap stored.nodes : At(new, n) = n
           /\ \A n \in copy.nodes : n \notin stored.nodes => At(new, n) \notin born
           /\ \A m, n \in copy.nodes : At(new, m) = At(new, n) => m = n
<1>1. /\ new \in [copy.nodes \ stored.nodes -> Id \ born]
      /\ \A m, n \in DOMAIN new : new[m] = new[n] => m = n
  BY DEF Renamings
<1>2. stored.nodes \subseteq born /\ born \subseteq Id
  BY DEF ServerShape
<1>3. \A n \in copy.nodes : n \notin stored.nodes => n \in DOMAIN new /\ At(new, n) = new[n]
  BY <1>1 DEF At
<1>4. \A n \in stored.nodes : n \notin DOMAIN new /\ At(new, n) = n
  BY <1>1 DEF At
<1> QED
  BY <1>1, <1>2, <1>3, <1>4

\* A copy that passes the validation is stored as a definition.
LEMMA SavedIsDefinition ==
    ASSUME ServerShape, NEW copy \in Definition, IsDefinition(copy), NEW new \in Renamings(copy)
    PROVE  /\ Saved(copy, new) \in Definition
           /\ Saved(copy, new).nodes \subseteq Id
           /\ IsDefinition(Saved(copy, new))
<1> DEFINE d == Saved(copy, new)
<1>1. /\ \A n \in copy.nodes : At(new, n) \in Id
      /\ \A m, n \in copy.nodes : At(new, m) = At(new, n) => m = n
  BY AtIsInjective
<1>2. /\ d.nodes = {At(new, n) : n \in copy.nodes}
      /\ d.edges = {[src |-> At(new, e.src), dst |-> At(new, e.dst), handle |-> e.handle] : e \in copy.edges}
      /\ d.content = [k \in Key |-> UNION {copy.content[n] : n \in {m \in copy.nodes : At(new, m) = k}}]
  BY SavedParts
<1>3. /\ copy.nodes \subseteq Key /\ copy.edges \subseteq Edge /\ copy.content \in [Key -> SUBSET Edit]
      /\ \A e \in copy.edges : e.src \in copy.nodes /\ e.dst \in copy.nodes
      /\ \A e, f \in copy.edges : e.src = f.src /\ e.dst = f.dst => e = f
      /\ KahnOrders(copy.nodes, copy.edges) # {}
  BY DefinitionParts DEF IsDefinition, IsAcyclic
<1>4. d.nodes \subseteq Id
  BY <1>1, <1>2
<1>5. d \in Definition
  <2>1. d.edges \subseteq Edge
    <3> SUFFICES ASSUME NEW e \in copy.edges
                 PROVE  [src |-> At(new, e.src), dst |-> At(new, e.dst), handle |-> e.handle] \in Edge
      BY <1>2
    <3>1. e.handle \in Handles
      BY <1>3 DEF Edge
    <3>2. At(new, e.src) \in Key /\ At(new, e.dst) \in Key
      BY <1>1, <1>3 DEF Key
    <3> QED
      BY <3>1, <3>2 DEF Edge
  <2>2. d.content \in [Key -> SUBSET Edit]
    <3> SUFFICES ASSUME NEW k \in Key
                 PROVE  UNION {copy.content[n] : n \in {m \in copy.nodes : At(new, m) = k}} \in SUBSET Edit
      BY <1>2
    <3>1. \A n \in copy.nodes : copy.content[n] \in SUBSET Edit
      BY <1>3
    <3> QED
      BY <3>1
  <2>3. d.nodes \subseteq Key
    BY <1>4 DEF Key
  <2>4. d = [nodes |-> d.nodes, edges |-> d.edges, content |-> d.content]
    BY DEF Saved
  <2> HIDE DEF d
  <2> QED
    BY <2>1, <2>2, <2>3, <2>4, DefinitionOf
<1>6. \A e \in d.edges : e.src \in d.nodes /\ e.dst \in d.nodes
  BY <1>2, <1>3
<1>7. \A e, f \in d.edges : e.src = f.src /\ e.dst = f.dst => e = f
  <2> SUFFICES ASSUME NEW e \in copy.edges, NEW f \in copy.edges,
                      At(new, e.src) = At(new, f.src), At(new, e.dst) = At(new, f.dst)
               PROVE  e = f
    BY <1>2
  <2> QED
    BY <1>1, <1>3
<1>8. KahnOrders(d.nodes, d.edges) # {}
  <2> DEFINE h == [n \in copy.nodes |-> At(new, n)]
  <2>1. h \in Bijection(copy.nodes, d.nodes)
    <3>1. h \in [copy.nodes -> d.nodes]
      BY <1>2
    <3>2. \A m, n \in copy.nodes : h[m] = h[n] => m = n
      BY <1>1
    <3>3. \A k \in d.nodes : \E n \in copy.nodes : h[n] = k
      BY <1>2
    <3> HIDE DEF h, d
    <3> QED
      BY <3>1, <3>2, <3>3 DEF Bijection, Injection, Surjection, IsInjective
  <2>2. IsFiniteSet(copy.nodes)
    BY <1>3, EditingAssumption, FS_Subset, FS_Union DEF Key
  <2>3. ASSUME NEW m \in copy.nodes, NEW n \in copy.nodes
        PROVE  HasEdge(copy.edges, m, n) <=> HasEdge(d.edges, h[m], h[n])
    <3>1. ASSUME NEW e \in copy.edges, e.src = m, e.dst = n
          PROVE  HasEdge(d.edges, h[m], h[n])
      <4> DEFINE f == [src |-> At(new, e.src), dst |-> At(new, e.dst), handle |-> e.handle]
      <4>1. f \in d.edges /\ f.src = h[m] /\ f.dst = h[n]
        BY <1>2, <3>1
      <4> QED
        BY <4>1 DEF HasEdge
    <3>2. ASSUME NEW f \in d.edges, f.src = h[m], f.dst = h[n]
          PROVE  HasEdge(copy.edges, m, n)
      <4>1. PICK e \in copy.edges : f.src = At(new, e.src) /\ f.dst = At(new, e.dst)
        BY <1>2
      <4>2. e.src = m /\ e.dst = n
        BY <1>1, <1>3, <3>2, <4>1
      <4> QED
        BY <4>2 DEF HasEdge
    <3> HIDE DEF d, h
    <3> QED
      BY <3>1, <3>2 DEF HasEdge
  <2>4. PICK p : p \in KahnOrders(copy.nodes, copy.edges)
    BY <1>3
  <2> HIDE DEF d, h
  <2> QED
    BY <2>1, <2>2, <2>3, <2>4, RenamedOrder
<1> HIDE DEF d
<1> QED
  BY <1>4, <1>5, <1>6, <1>7, <1>8 DEF d, IsDefinition, IsAcyclic

----------------------------------------------------------------------------
(* The shape of the state is kept. *)

LEMMA CommitStores ==
    ASSUME ServerShape, NEW copy \in Definition, Commit(copy)
    PROVE  /\ stored' \in Definition /\ stored'.nodes \subseteq born' /\ born' \subseteq Id
           /\ version' = version + 1 /\ version' \in 0..MaxSaves /\ used' = used
           /\ IsDefinition(stored') /\ stored'.nodes \subseteq Id
<1>1. IsDefinition(copy) /\ version' = version + 1 /\ version < MaxSaves /\ used' = used
  BY DEF Commit
<1>2. PICK new \in Renamings(copy) : stored' = Saved(copy, new) /\ born' = born \cup stored'.nodes
  BY DEF Commit
<1>3. stored' \in Definition /\ IsDefinition(stored') /\ stored'.nodes \subseteq Id
  BY <1>1, <1>2, SavedIsDefinition
<1> QED
  BY <1>1, <1>2, <1>3, EditingAssumption DEF ServerShape

LEMMA CallTypes ==
    ASSUME NEW a \in Agent, ServerShape
    PROVE  /\ NoCall \in Calls
           /\ \A copy \in Definition : Reads(a, copy) => call' \in [Agent -> Calls]
           /\ \A n \in Key, C \in SUBSET Edit : Finds(a, n, C) => call' \in [Agent -> Calls]
<1>1. NoCall \in Calls
  BY ClosedIsDefinition DEF NoCall, Calls
<1>0. version \in Nat /\ call \in [Agent -> Calls]
  BY EditingAssumption DEF ServerShape
<1>2. ASSUME NEW copy \in Definition, Reads(a, copy)
      PROVE  call' \in [Agent -> Calls]
  <2>1. [NoCall EXCEPT !.pc = "save", !.copy = copy, !.base = version] \in Calls
    BY <1>0, <1>1 DEF NoCall, Calls
  <2> QED
    BY <1>0, <1>2, <2>1 DEF Reads
<1>3. ASSUME NEW n \in Key, NEW C \in SUBSET Edit, Finds(a, n, C)
      PROVE  call' \in [Agent -> Calls]
  <2>1. [NoCall EXCEPT !.pc = "reread", !.base = version, !.node = {n}, !.content = C] \in Calls
    BY <1>0, ClosedIsDefinition DEF NoCall, Calls
  <2> QED
    BY <1>0, <1>3, <2>1 DEF Finds
<1> QED
  BY <1>1, <1>2, <1>3

\* A tool that reads keeps a copy; one that looks for a node keeps its content.
LEMMA ToolReads ==
    ASSUME Shape, NEW a \in Agent,
           AddNode(a) \/ DeleteNode(a) \/ ConnectNodes(a) \/ DisconnectNodes(a) \/ Reflow(a)
    PROVE  /\ Begins(a) /\ used \subseteq used' /\ used' \subseteq Edit
           /\ \E copy \in Definition : Reads(a, copy)
<1> DEFINE d == BuildSaveInput(stored)
<1>0. /\ stored \in Definition /\ used \subseteq Edit /\ stored.nodes \subseteq Key
      /\ stored.edges \subseteq Edge
  BY DefinitionParts DEF Shape, ServerShape
<1>1. d \in Definition
  BY <1>0, BuildSaveInputType
<1>2. CASE AddNode(a)
  <2>1. PICK t \in Temp \ stored.nodes, e \in Edit \ used :
           Reads(a, WithNode(d, t, {e})) /\ used' = used \cup {e}
    BY <1>2 DEF AddNode
  <2>2. WithNode(d, t, {e}) \in Definition
    BY <1>1, <2>1, WithNodeType DEF Key
  <2> HIDE DEF d
  <2> QED
    BY <1>0, <1>2, <2>1, <2>2 DEF AddNode
<1>3. CASE DeleteNode(a)
  <2>1. PICK n \in stored.nodes : Reads(a, WithoutNode(d, n))
    BY <1>3 DEF DeleteNode
  <2>2. WithoutNode(d, n) \in Definition
    BY <1>0, <1>1, <2>1, WithoutNodeType
  <2> HIDE DEF d
  <2> QED
    BY <1>0, <1>3, <2>1, <2>2 DEF DeleteNode
<1>4. CASE ConnectNodes(a)
  <2>1. PICK m, n \in stored.nodes, h \in Offered :
           Reads(a, WithEdge(d, [src |-> m, dst |-> n, handle |-> h]))
    BY <1>4 DEF ConnectNodes
  <2>2. [src |-> m, dst |-> n, handle |-> h] \in Edge
    BY <1>0, <2>1, EditingAssumption DEF Edge
  <2>3. WithEdge(d, [src |-> m, dst |-> n, handle |-> h]) \in Definition
    BY <1>1, <2>2, WithEdgeType
  <2> HIDE DEF d
  <2> QED
    BY <1>0, <1>4, <2>1, <2>3 DEF ConnectNodes
<1>5. CASE DisconnectNodes(a)
  <2>1. PICK e \in stored.edges :
           Reads(a, [d EXCEPT !.edges = @ \ {[e EXCEPT !.handle = "none"]}])
    BY <1>5 DEF DisconnectNodes
  <2>2. [d EXCEPT !.edges = @ \ {[e EXCEPT !.handle = "none"]}] \in Definition
    <3> HIDE DEF d
    <3> QED
      BY <1>1 DEF Definition
  <2> HIDE DEF d
  <2> QED
    BY <1>0, <1>5, <2>1, <2>2 DEF DisconnectNodes
<1>6. CASE Reflow(a)
  BY <1>0, <1>6 DEF Reflow
<1> QED
  BY <1>2, <1>3, <1>4, <1>5, <1>6

LEMMA ToolFinds ==
    ASSUME Shape, NEW a \in Agent, UpdateNode(a) \/ PatchNode(a)
    PROVE  /\ Begins(a) /\ used \subseteq used' /\ used' \subseteq Edit
           /\ \E n \in stored.nodes, C \in SUBSET Edit :
                 Finds(a, n, C) /\ \E o : stored.content[n] \ C \subseteq {o}
<1>0. /\ stored \in Definition /\ used \subseteq Edit /\ stored.nodes \subseteq Key
      /\ stored.content \in [Key -> SUBSET Edit]
  BY DefinitionParts DEF Shape, ServerShape
<1>1. CASE UpdateNode(a)
  <2>1. PICK n \in stored.nodes, e \in Edit \ used :
           Finds(a, n, stored.content[n] \cup {e}) /\ used' = used \cup {e}
    BY <1>1 DEF UpdateNode
  <2>2. stored.content[n] \cup {e} \in SUBSET Edit
    BY <1>0
  <2>3. stored.content[n] \ (stored.content[n] \cup {e}) \subseteq {e}
    OBVIOUS
  <2>4. used' = used \cup {e} /\ Begins(a)
    BY <1>1, <2>1 DEF UpdateNode
  <2> QED
    BY <1>0, <2>1, <2>2, <2>3, <2>4
<1>2. CASE PatchNode(a)
  <2>0. PICK n \in stored.nodes, e \in Edit \ used :
           \E o \in stored.content[n] :
               Finds(a, n, (stored.content[n] \ {o}) \cup {e}) /\ used' = used \cup {e}
    BY <1>2 DEF PatchNode
  <2>1. PICK o \in stored.content[n] :
           Finds(a, n, (stored.content[n] \ {o}) \cup {e}) /\ used' = used \cup {e}
    BY <2>0
  <2>2. (stored.content[n] \ {o}) \cup {e} \in SUBSET Edit
    BY <1>0
  <2>3. stored.content[n] \ ((stored.content[n] \ {o}) \cup {e}) \subseteq {o}
    OBVIOUS
  <2>4. used' = used \cup {e} /\ Begins(a)
    BY <1>2, <2>1 DEF PatchNode
  <2> QED
    BY <1>0, <2>1, <2>2, <2>3, <2>4
<1> QED
  BY <1>1, <1>2

LEMMA RereadTypes ==
    ASSUME ServerShape, NEW a \in Agent, RereadToUpdate(a)
    PROVE  call' \in [Agent -> Calls]
<1>1. /\ call[a] \in Calls /\ stored \in Definition /\ stored.content \in [Key -> SUBSET Edit]
      /\ call \in [Agent -> Calls] /\ call[a].content \in SUBSET Edit
  BY DefinitionParts DEF ServerShape, Calls
<1> DEFINE C == [k \in Key |-> IF k \in call[a].node THEN call[a].content ELSE stored.content[k]]
<1>2. C \in [Key -> SUBSET Edit]
  BY <1>1
<1> HIDE DEF C
<1>3. [call[a] EXCEPT !.pc = "save", !.copy = [stored EXCEPT !.content = C]] \in Calls
  <2>1. [stored EXCEPT !.content = C] \in Definition
    BY <1>1, <1>2, ContentType
  <2> QED
    BY <1>1, <2>1 DEF Calls
<1>4. NoCall \in Calls
  BY CallTypes
<1>5. call' = [call EXCEPT ![a] =
                  IF call[a].node \subseteq stored.nodes
                  THEN [call[a] EXCEPT !.pc = "save", !.copy = [stored EXCEPT !.content = C]]
                  ELSE NoCall]
  BY DEF RereadToUpdate, C
<1> QED
  BY <1>1, <1>3, <1>4, <1>5

LEMMA ServerStays ==
    ASSUME ServerShape, UNCHANGED <<stored, born, version>>, notices' \in 0..version,
           used' \subseteq Edit, call' \in [Agent -> Calls]
    PROVE  ServerShape'
BY DEF ServerShape

LEMMA PageStays ==
    ASSUME PageShape, UNCHANGED page
    PROVE  PageShape'
BY DEF PageShape, page

LEMMA ToolKeepsShape ==
    ASSUME Shape, NEW a \in Agent, Tool(a)
    PROVE  Shape'
<1> USE DEF Shape
<1>1. CASE AddNode(a) \/ DeleteNode(a) \/ ConnectNodes(a) \/ DisconnectNodes(a) \/ Reflow(a)
  <2>1. Begins(a) /\ used' \subseteq Edit /\ call' \in [Agent -> Calls]
    BY <1>1, ToolReads, CallTypes
  <2> QED
    BY <2>1, ServerStays, PageStays DEF Begins, ServerShape
<1>2. CASE UpdateNode(a) \/ PatchNode(a)
  <2>0. stored.nodes \subseteq Key
    BY DefinitionParts DEF ServerShape
  <2>1. Begins(a) /\ used' \subseteq Edit /\ call' \in [Agent -> Calls]
    BY <1>2, <2>0, ToolFinds, CallTypes
  <2> QED
    BY <2>1, ServerStays, PageStays DEF Begins, ServerShape
<1>3. CASE RereadToUpdate(a)
  <2>1. call' \in [Agent -> Calls] /\ UNCHANGED <<server, live, notices, page>>
    BY <1>3, RereadTypes DEF RereadToUpdate
  <2> QED
    BY <2>1, ServerStays, PageStays DEF server, ServerShape
<1>4. CASE SaveOfTool(a)
  <2>1. call[a].copy \in Definition /\ version \in Nat /\ notices \in 0..version
    BY EditingAssumption DEF ServerShape, Calls
  <2>2. Commit(call[a].copy) /\ call' = [call EXCEPT ![a] = NoCall]
    BY <1>4 DEF SaveOfTool
  <2>3. /\ stored' \in Definition /\ stored'.nodes \subseteq born' /\ born' \subseteq Id
        /\ version' = version + 1 /\ version' \in 0..MaxSaves /\ used' = used
    BY <2>1, <2>2, CommitStores
  <2>4. call' \in [Agent -> Calls]
    BY <2>2, CallTypes DEF ServerShape
  <2>5. notices' \in 0..version'
    BY <1>4, <2>1, <2>3 DEF SaveOfTool
  <2>6. ServerShape'
    BY <2>3, <2>4, <2>5 DEF ServerShape
  <2>7. PageShape'
    <3>1. /\ UNCHANGED <<editor, isOpen, dirty, edits, latest, load, save>>
          /\ missed' \in BOOLEAN
      BY <1>4 DEF SaveOfTool
    <3> QED
      BY <3>1 DEF PageShape
  <2> QED
    BY <2>6, <2>7
<1>5. CASE ToolFails(a)
  <2>1. call' \in [Agent -> Calls] /\ UNCHANGED <<server, live, notices, page>>
    BY <1>5, CallTypes DEF ToolFails, ServerShape
  <2> QED
    BY <2>1, ServerStays, PageStays DEF server, ServerShape
<1>6. CASE EndRound(a)
  <2>1. UNCHANGED <<server, call, notices, page>>
    BY <1>6 DEF EndRound
  <2> QED
    BY <2>1, ServerStays, PageStays DEF server, ServerShape
<1> QED
  BY <1>1, <1>2, <1>3, <1>4, <1>5, <1>6 DEF Tool

----------------------------------------------------------------------------
(* The steps of the page. *)

\* What a step of the user in the editor leaves alone, and what it makes.
LEMMA UserEdits ==
    ASSUME Shape,
           \/ UserAddsNode \/ UserRemovesNode \/ UserConfigures \/ UserConnects \/ UserDisconnects
    PROVE  /\ Edits /\ editor' \in Definition
           /\ used \subseteq used' /\ used' \subseteq Edit
<1>0. /\ editor \in Definition /\ used \subseteq Edit /\ editor.nodes \subseteq Key
      /\ editor.edges \subseteq Edge /\ editor.content \in [Key -> SUBSET Edit]
  BY DefinitionParts DEF Shape, ServerShape, PageShape
<1>1. CASE UserAddsNode
  <2>1. PICK t \in Temp \ editor.nodes : editor' = WithNode(editor, t, {})
    BY <1>1 DEF UserAddsNode
  <2>2. WithNode(editor, t, {}) \in Definition
    BY <1>0, <2>1, WithNodeType DEF Key
  <2> QED
    BY <1>0, <1>1, <2>1, <2>2 DEF UserAddsNode
<1>2. CASE UserRemovesNode
  <2>1. PICK n \in editor.nodes : editor' = WithoutNode(editor, n)
    BY <1>2 DEF UserRemovesNode
  <2>2. WithoutNode(editor, n) \in Definition
    BY <1>0, <2>1, WithoutNodeType
  <2> QED
    BY <1>0, <1>2, <2>1, <2>2 DEF UserRemovesNode
<1>3. CASE UserConfigures
  <2>1. PICK n \in editor.nodes, e \in Edit \ used :
           editor' = [editor EXCEPT !.content[n] = @ \cup {e}] /\ used' = used \cup {e}
    BY <1>3 DEF UserConfigures
  <2>2. [editor EXCEPT !.content[n] = @ \cup {e}] \in Definition
    <3>1. n \in Key /\ editor.content[n] \cup {e} \in SUBSET Edit
      BY <1>0, <2>1
    <3> QED
      BY <1>0, <3>1 DEF Definition
  <2>3. Edits
    BY <1>3 DEF UserConfigures
  <2> QED
    BY <1>0, <2>1, <2>2, <2>3
<1>4. CASE UserConnects
  <2>1. PICK m, n \in editor.nodes, h \in Offered :
           editor' = WithEdge(editor, [src |-> m, dst |-> n, handle |-> h])
    BY <1>4 DEF UserConnects
  <2>2. [src |-> m, dst |-> n, handle |-> h] \in Edge
    BY <1>0, <2>1, EditingAssumption DEF Edge
  <2>3. WithEdge(editor, [src |-> m, dst |-> n, handle |-> h]) \in Definition
    BY <1>0, <2>2, WithEdgeType
  <2> QED
    BY <1>0, <1>4, <2>1, <2>3 DEF UserConnects
<1>5. CASE UserDisconnects
  <2>1. PICK e \in editor.edges : editor' = [editor EXCEPT !.edges = @ \ {e}]
    BY <1>5 DEF UserDisconnects
  <2>2. editor' \in Definition
    BY <1>0, <2>1 DEF Definition
  <2> QED
    BY <1>0, <1>5, <2>2 DEF UserDisconnects
<1> QED
  BY <1>1, <1>2, <1>3, <1>4, <1>5

LEMMA Bounds == MaxLoads \in Nat /\ MaxSaves \in Nat /\ MaxEdits \in Nat
BY EditingAssumption

\* Every load that was asked for has its own slot.
LEMMA AskLoadTypes ==
    ASSUME PageShape, AskLoad
    PROVE  /\ latest + 1 \in 1..MaxLoads /\ latest' = latest + 1
           /\ load' \in [1..MaxLoads -> Loads]
           /\ \A k \in 1..MaxLoads :
                 load'[k] = IF k = latest' THEN [NoLoad EXCEPT !.pc = "asked"] ELSE load[k]
           /\ \A k \in 1..MaxLoads : k > latest' => load'[k] = NoLoad
           /\ missed' = (missed \/ save # NoSave)
<1>1. latest \in 0..MaxLoads /\ latest < MaxLoads /\ latest' = latest + 1
  BY DEF PageShape, AskLoad
<1>2. [NoLoad EXCEPT !.pc = "asked"] \in Loads
  BY ClosedIsDefinition DEF NoLoad, Loads
<1>3. load \in [1..MaxLoads -> Loads] /\ \A k \in 1..MaxLoads : k > latest => load[k] = NoLoad
  BY DEF PageShape
<1>4. load' = [load EXCEPT ![latest + 1] = [NoLoad EXCEPT !.pc = "asked"]]
  BY DEF AskLoad
<1>5. latest + 1 \in 1..MaxLoads
  BY <1>1, Bounds
<1>6. \A k \in 1..MaxLoads : k > latest' => k > latest /\ k # latest + 1
  BY <1>1, Bounds
<1> QED
  BY <1>1, <1>2, <1>3, <1>4, <1>5, <1>6 DEF AskLoad

LEMMA LoadStepTypes ==
    ASSUME Shape, NEW k \in 1..MaxLoads, ReadForLoad(k) \/ ReceiveLoad(k) \/ LoadFails(k)
    PROVE  /\ load' \in [1..MaxLoads -> Loads]
           /\ \A j \in 1..MaxLoads : j > latest' => load'[j] = NoLoad
           /\ \A j \in 1..MaxLoads : j # k => load'[j] = load[j]
           /\ latest' = latest /\ k <= latest
<1>1. /\ load \in [1..MaxLoads -> Loads] /\ latest \in 0..MaxLoads /\ stored \in Definition
      /\ \A j \in 1..MaxLoads : j > latest => load[j] = NoLoad
  BY DEF Shape, PageShape, ServerShape
<1>2. [pc |-> "read", copy |-> stored] \in Loads /\ NoLoad \in Loads
  BY <1>1, ClosedIsDefinition DEF NoLoad, Loads
<1>3. latest' = latest
  BY DEF ReadForLoad, ReceiveLoad, LoadFails
<1>4. \/ load' = [load EXCEPT ![k] = [pc |-> "read", copy |-> stored]]
      \/ load' = [load EXCEPT ![k] = NoLoad]
  BY DEF ReadForLoad, ReceiveLoad, LoadFails
<1>5. load[k] # NoLoad
  BY DEF ReadForLoad, ReceiveLoad, LoadFails, NoLoad
<1>6. k <= latest
  BY <1>1, <1>5, Bounds
<1> QED
  BY <1>1, <1>2, <1>3, <1>4, <1>6, Bounds

LEMMA PageKeepsShape ==
    ASSUME Shape, Page
    PROVE  Shape'
<1> USE Bounds DEF Shape
<1>0. /\ editor \in Definition /\ isOpen \in BOOLEAN /\ dirty \in BOOLEAN /\ missed \in BOOLEAN
      /\ edits \in 0..MaxEdits /\ latest \in 0..MaxLoads /\ save \in Saves
      /\ load \in [1..MaxLoads -> Loads]
      /\ save.pc = "none" => save = NoSave
      /\ \A k \in 1..MaxLoads : k > latest => load[k] = NoLoad
  BY DEF PageShape
<1>1. /\ notices \in 0..version /\ version \in Nat /\ used \subseteq Edit
      /\ call \in [Agent -> Calls]
  BY DEF ServerShape
<1>2. CASE OpenEditor \/ TakeNotice
  <2>1. AskLoad /\ notices' \in 0..version /\ UNCHANGED <<server, call, editor, isOpen, dirty, edits, save>>
    BY <1>1, <1>2 DEF OpenEditor, TakeNotice
  <2>2. ServerShape'
    BY <1>1, <2>1, ServerStays DEF server
  <2>3. latest' \in 0..MaxLoads /\ missed' \in BOOLEAN
    BY <1>0, <2>1, AskLoadTypes
  <2>4. PageShape'
    BY <1>0, <2>1, <2>3, AskLoadTypes DEF PageShape
  <2> QED
    BY <2>2, <2>4
<1>3. CASE CloseEditor
  <2>1. /\ UNCHANGED <<server, call, edits, load, save>> /\ notices' = 0
        /\ editor' = Closed /\ isOpen' = FALSE /\ dirty' = FALSE
        /\ latest < MaxLoads /\ latest' = latest + 1 /\ missed' = (missed \/ save # NoSave)
    BY <1>3 DEF CloseEditor
  <2>2. ServerShape'
    BY <1>1, <2>1, ServerStays DEF server
  <2>3. latest' \in 0..MaxLoads /\ missed' \in BOOLEAN /\ \A k \in 1..MaxLoads : k > latest' => k > latest
    BY <1>0, <2>1
  <2>4. PageShape'
    BY <1>0, <2>1, <2>3, ClosedIsDefinition DEF PageShape
  <2> QED
    BY <2>2, <2>4
<1>4. CASE UserAddsNode \/ UserRemovesNode \/ UserConfigures \/ UserConnects \/ UserDisconnects
  <2>1. Edits /\ editor' \in Definition /\ used' \subseteq Edit
    BY <1>4, UserEdits
  <2>2. ServerShape'
    BY <1>1, <2>1, ServerStays DEF Edits
  <2>3. /\ UNCHANGED <<isOpen, latest, load, save, missed>>
        /\ dirty' = TRUE /\ edits' \in 0..MaxEdits
    BY <1>0, <2>1 DEF Edits
  <2>4. PageShape'
    BY <1>0, <2>1, <2>3 DEF PageShape
  <2> QED
    BY <2>2, <2>4
<1>5. CASE AskSave
  <2>1. /\ UNCHANGED <<server, call, notices, editor, isOpen, dirty, edits, latest, load>>
        /\ save' = [pc |-> "asked", copy |-> editor] /\ missed' \in BOOLEAN
    BY <1>5 DEF AskSave
  <2>2. save' \in Saves /\ save'.pc # "none"
    BY <1>0, <2>1 DEF Saves
  <2>3. ServerShape'
    BY <1>1, <2>1, ServerStays DEF server
  <2>4. PageShape'
    BY <1>0, <2>1, <2>2 DEF PageShape
  <2> QED
    BY <2>3, <2>4
<1>6. CASE SaveOfEditor
  <2>1. /\ UNCHANGED <<call, notices, editor, isOpen, dirty, edits, latest, load, missed>>
        /\ Commit(save.copy) /\ save' = [pc |-> "saved", copy |-> stored']
    BY <1>6 DEF SaveOfEditor
  <2>2. /\ stored' \in Definition /\ stored'.nodes \subseteq born' /\ born' \subseteq Id
        /\ version' = version + 1 /\ version' \in 0..MaxSaves /\ used' = used
    BY <1>0, <2>1, CommitStores DEF Saves
  <2>3. save' \in Saves /\ save'.pc # "none"
    BY <2>1, <2>2 DEF Saves
  <2>4. notices' \in 0..version'
    BY <1>1, <2>1, <2>2
  <2>5. ServerShape'
    BY <1>1, <2>1, <2>2, <2>4 DEF ServerShape
  <2>6. PageShape'
    BY <1>0, <2>1, <2>3 DEF PageShape
  <2> QED
    BY <2>5, <2>6
<1>7. CASE ReceiveSave \/ SaveFails
  <2>1. /\ UNCHANGED <<server, call, notices, edits, latest, load, missed>> /\ save' = NoSave
        /\ editor' \in Definition /\ isOpen' \in BOOLEAN /\ dirty' \in BOOLEAN
    BY <1>0, <1>7 DEF ReceiveSave, SaveFails, Saves
  <2>2. ServerShape'
    BY <1>1, <2>1, ServerStays DEF server
  <2>3. NoSave \in Saves
    BY ClosedIsDefinition DEF NoSave, Saves
  <2>4. PageShape'
    BY <1>0, <2>1, <2>3 DEF PageShape
  <2> QED
    BY <2>2, <2>4
<1>8. ASSUME NEW k \in 1..MaxLoads, ReadForLoad(k) \/ ReceiveLoad(k) \/ LoadFails(k)
      PROVE  Shape'
  <2>1. /\ UNCHANGED <<server, call, notices, edits, save>>
        /\ missed' \in BOOLEAN /\ isOpen' \in BOOLEAN /\ dirty' \in BOOLEAN
    BY <1>0, <1>8 DEF ReadForLoad, ReceiveLoad, LoadFails, Shows
  <2>2. editor' \in Definition
    <3>1. load[k].copy \in Definition
      BY <1>0 DEF Loads
    <3> QED
      BY <1>0, <1>8, <3>1 DEF ReadForLoad, ReceiveLoad, LoadFails, Shows
  <2>3. ServerShape'
    BY <1>1, <2>1, ServerStays DEF server
  <2>4. PageShape'
    BY <1>0, <1>8, <2>1, <2>2, LoadStepTypes DEF PageShape
  <2> QED
    BY <2>3, <2>4
<1> QED
  BY <1>2, <1>3, <1>4, <1>5, <1>6, <1>7, <1>8 DEF Page

LEMMA InitShape == Init => Shape
<1> SUFFICES ASSUME Init PROVE Shape
  OBVIOUS
<1>1. /\ Initial \in Definition /\ Initial.nodes \subseteq Id
      /\ Initial.content \in [Key -> SUBSET Edit]
  BY EditingAssumption, DefinitionParts
<1>2. used \subseteq Edit
  BY <1>1 DEF Init
<1>3. NoCall \in Calls /\ NoLoad \in Loads /\ NoSave \in Saves
  BY ClosedIsDefinition DEF NoCall, NoLoad, NoSave, Calls, Loads, Saves
<1>4. ServerShape
  BY <1>1, <1>2, <1>3, Bounds DEF Init, ServerShape
<1>5. PageShape
  <2>1. load \in [1..MaxLoads -> Loads] /\ \A k \in 1..MaxLoads : load[k] = NoLoad
    BY <1>3 DEF Init
  <2>2. 0 \in 0..MaxLoads /\ 0 \in 0..MaxEdits
    BY Bounds
  <2> QED
    BY <1>3, <2>1, <2>2, ClosedIsDefinition DEF Init, PageShape
<1> QED
  BY <1>4, <1>5 DEF Shape

LEMMA NextShape == Shape /\ [Next]_vars => Shape'
<1> SUFFICES ASSUME Shape, [Next]_vars PROVE Shape'
  OBVIOUS
<1>1. CASE UNCHANGED vars
  BY <1>1 DEF Shape, ServerShape, PageShape, vars, server, page
<1> QED
  BY <1>1, PageKeepsShape, ToolKeepsShape DEF Next

LEMMA ShapeAlways == Spec => []Shape
BY InitShape, NextShape, PTL DEF Spec

\* Every variable has its type.
THEOREM TypeCorrect == Spec => []TypeOK
<1>1. Shape => TypeOK
  <2> SUFFICES ASSUME Shape PROVE TypeOK
    OBVIOUS
  <2>1. notices \in 0..MaxSaves
    BY Bounds DEF Shape, ServerShape
  <2>2. /\ \A a \in Agent : call[a].pc \in {"idle", "reread", "save"} /\ call[a].copy \in Definition
        /\ \A k \in 1..MaxLoads : load[k].pc \in {"none", "asked", "read"} /\ load[k].copy \in Definition
        /\ save.copy \in Definition
    BY DEF Shape, ServerShape, PageShape, Calls, Loads, Saves
  <2> QED
    BY <2>1, <2>2 DEF Shape, ServerShape, PageShape, TypeOK
<1> QED
  BY <1>1, ShapeAlways, PTL

----------------------------------------------------------------------------
(* The rows. *)

\* A step writes the rows by a save, of a tool or of the editor, or not at all.
LEMMA Writers ==
    ASSUME Shape, [Next]_vars
    PROVE  \/ UNCHANGED <<stored, born, version>>
           \/ \E copy \in Definition : Commit(copy)
<1>1. \A a \in Agent : call[a].copy \in Definition
  BY DEF Shape, ServerShape, Calls
<1>2. save.copy \in Definition
  BY DEF Shape, PageShape, Saves
<1>3. CASE Page
  BY <1>2, <1>3
  DEF Page, OpenEditor, CloseEditor, TakeNotice, UserAddsNode, UserRemovesNode, UserConfigures,
      UserConnects, UserDisconnects, Edits, AskSave, SaveOfEditor, ReceiveSave, SaveFails,
      ReadForLoad, ReceiveLoad, LoadFails, server
<1>4. ASSUME NEW a \in Agent, Tool(a)
      PROVE  UNCHANGED <<stored, born, version>> \/ Commit(call[a].copy)
  BY <1>4
  DEF Tool, AddNode, DeleteNode, ConnectNodes, DisconnectNodes, UpdateNode, PatchNode,
      RereadToUpdate, Reflow, SaveOfTool, ToolFails, EndRound, Begins, server
<1>5. CASE UNCHANGED vars
  BY <1>5 DEF vars, server
<1> QED
  BY <1>1, <1>3, <1>4, <1>5 DEF Next

\* Whatever copies meet, the rows stay a graph the engine can run.
THEOREM RowsStayAGraph == Spec => []StoredIsDefinition
<1>1. Init => StoredIsDefinition
  BY EditingAssumption DEF Init, StoredIsDefinition
<1>2. Shape /\ StoredIsDefinition /\ [Next]_vars => StoredIsDefinition'
  <2> SUFFICES ASSUME Shape, StoredIsDefinition, [Next]_vars PROVE StoredIsDefinition'
    OBVIOUS
  <2>1. CASE UNCHANGED <<stored, born, version>>
    BY <2>1 DEF StoredIsDefinition
  <2>2. CASE \E copy \in Definition : Commit(copy)
    BY <2>2, CommitStores DEF Shape, StoredIsDefinition
  <2> QED
    BY <2>1, <2>2, Writers
<1> QED
  BY <1>1, <1>2, ShapeAlways, PTL DEF Spec

LEMMA CommitKeepsOrMakesIds ==
    ASSUME ServerShape, NEW copy \in Definition, Commit(copy), NEW n \in stored'.nodes, n \in born
    PROVE  n \in stored.nodes
<1>1. PICK new \in Renamings(copy) : stored' = Saved(copy, new)
  BY DEF Commit
<1>2. stored'.nodes = {At(new, m) : m \in copy.nodes}
  BY <1>1, SavedParts
<1>3. PICK m \in copy.nodes : n = At(new, m)
  BY <1>2
<1> QED
  BY <1>3, AtIsInjective

\* An id that left the workflow never comes back.
THEOREM IdsStayGone == Spec => IdsNeverReturn
<1>1. Shape /\ [Next]_vars => [\A n \in born : n \notin stored.nodes => n \notin stored'.nodes]_vars
  <2> SUFFICES ASSUME Shape, [Next]_vars, NEW n \in born, n \notin stored.nodes
               PROVE  n \notin stored'.nodes
    OBVIOUS
  <2>1. CASE UNCHANGED <<stored, born, version>>
    BY <2>1
  <2>2. CASE \E copy \in Definition : Commit(copy)
    BY <2>2, CommitKeepsOrMakesIds DEF Shape
  <2> QED
    BY <2>1, <2>2, Writers
<1> QED
  BY <1>1, ShapeAlways, PTL DEF Spec, IdsNeverReturn

----------------------------------------------------------------------------
(* What the editor shows. *)

\* A step of a tool leaves the page alone, or is a save.
LEMMA ToolKeepsPage ==
    ASSUME NEW a \in Agent, Tool(a), ~SaveOfTool(a)
    PROVE  UNCHANGED <<stored, version, notices, page>>
BY DEF Tool, AddNode, DeleteNode, ConnectNodes, DisconnectNodes, UpdateNode, PatchNode,
       RereadToUpdate, Reflow, ToolFails, EndRound, Begins, server

LEMMA FollowsFrame ==
    ASSUME Follows, UNCHANGED <<stored, notices, editor, isOpen, dirty, latest, load, save, missed>>
    PROVE  Follows'
BY DEF Follows, Loading

LEMMA SaveOfToolFollows ==
    ASSUME Shape, Follows, NEW a \in Agent, SaveOfTool(a), ~missed'
    PROVE  Follows'
<1>1. /\ UNCHANGED <<editor, isOpen, dirty, latest, load, save>> /\ ~missed
      /\ a \in attached \/ (~isOpen /\ ~IsLoading /\ save = NoSave)
      /\ a \in attached => notices' = notices + 1
  BY DEF SaveOfTool
<1>2. Loading <=> IsLoading
  BY DEF Loading, IsLoading, Shape, PageShape
<1>3. ~(Loading /\ save # NoSave)
  BY <1>1 DEF Follows
<1>4. CASE a \in attached
  <2>1. notices' > 0
    BY <1>1, <1>4, Bounds DEF Shape, ServerShape
  <2> QED
    BY <1>1, <1>3, <2>1 DEF Follows, Loading
<1>5. CASE ~isOpen /\ ~IsLoading /\ save = NoSave
  BY <1>1, <1>2, <1>5 DEF Follows, Loading, NoSave
<1> QED
  BY <1>1, <1>4, <1>5

LEMMA AskLoadFollows ==
    ASSUME Shape, AskLoad, UNCHANGED save, ~missed'
    PROVE  Follows'
<1>1. save' = NoSave
  BY AskLoadTypes DEF Shape
<1>2. latest' \in 1..MaxLoads /\ load'[latest'].pc = "asked"
  BY AskLoadTypes DEF Shape, NoLoad
<1>3. Loading'
  BY <1>2 DEF Loading
<1> QED
  BY <1>1, <1>2, <1>3 DEF Follows, NoSave

LEMMA LoadStepFollows ==
    ASSUME Shape, Follows, NEW k \in 1..MaxLoads, ~missed',
           ReadForLoad(k) \/ ReceiveLoad(k) \/ LoadFails(k)
    PROVE  Follows'
<1>1. /\ ~missed /\ latest' = latest /\ UNCHANGED <<stored, notices, save>>
      /\ load \in [1..MaxLoads -> Loads]
  BY DEF ReadForLoad, ReceiveLoad, LoadFails, server, Shape, PageShape
<1>2. \A j \in 1..MaxLoads : j # k => load'[j] = load[j]
  BY LoadStepTypes
<1>3. CASE k # latest
  <2>1. UNCHANGED <<editor, isOpen, dirty>>
    BY <1>3 DEF ReadForLoad, ReceiveLoad, LoadFails
  <2>2. Loading' <=> Loading
    BY <1>1, <1>2, <1>3 DEF Loading
  <2> QED
    BY <1>1, <1>2, <1>3, <2>1, <2>2 DEF Follows
<1>4. CASE k = latest
  <2>1. Loading /\ save = NoSave
    BY <1>1, <1>4 DEF Loading, Follows, ReadForLoad, ReceiveLoad, LoadFails
  <2>2. CASE ReadForLoad(k)
    <3>1. load'[k] = [pc |-> "read", copy |-> stored] /\ UNCHANGED <<editor, isOpen, dirty>>
      BY <1>1, <2>2 DEF ReadForLoad
    <3>2. Loading'
      BY <1>1, <1>4, <3>1 DEF Loading
    <3> QED
      BY <1>1, <1>4, <2>1, <3>1, <3>2 DEF Follows, NoSave
  <2>3. CASE ReceiveLoad(k)
    <3>1. /\ load'[k] = NoLoad /\ editor' = load[k].copy
          /\ load[k].copy = stored \/ notices > 0
      BY <1>1, <1>4, <2>3 DEF ReceiveLoad, Shows, Follows
    <3>2. ~Loading'
      BY <1>1, <1>4, <3>1 DEF Loading, NoLoad
    <3> QED
      BY <1>1, <1>4, <2>1, <3>1, <3>2 DEF Follows, NoSave, NoLoad
  <2>4. CASE LoadFails(k)
    BY <1>4, <2>4 DEF LoadFails
  <2> QED
    BY <2>2, <2>3, <2>4
<1> QED
  BY <1>3, <1>4

LEMMA PageFollows ==
    ASSUME Shape, Follows, Page, ~missed'
    PROVE  Follows'
<1>0. /\ load \in [1..MaxLoads -> Loads] /\ latest \in 0..MaxLoads
      /\ \A k \in 1..MaxLoads : k > latest => load[k] = NoLoad
      /\ save.pc = "none" => save = NoSave
  BY DEF Shape, PageShape
<1>1. CASE OpenEditor \/ TakeNotice
  BY <1>1, AskLoadFollows DEF OpenEditor, TakeNotice
<1>2. CASE CloseEditor
  <2>1. /\ ~isOpen' /\ save' = NoSave /\ load' = load /\ latest' = latest + 1 /\ ~missed
    BY <1>2 DEF CloseEditor
  <2>2. ~Loading'
    BY <1>0, <2>1, Bounds DEF Loading, NoLoad
  <2> QED
    BY <2>1, <2>2 DEF Follows, Loading, NoSave
<1>3. CASE UserAddsNode \/ UserRemovesNode \/ UserConfigures \/ UserConnects \/ UserDisconnects
  <2>1. dirty' /\ UNCHANGED <<stored, notices, latest, load, save, missed>>
    BY <1>3, UserEdits DEF Edits
  <2> QED
    BY <2>1 DEF Follows, Loading
<1>4. CASE AskSave
  <2>1. /\ save'.pc = "asked" /\ ~IsLoading /\ save = NoSave /\ ~missed
        /\ UNCHANGED <<stored, notices, editor, isOpen, dirty, latest, load>>
    BY <1>4 DEF AskSave, server
  <2>2. ~Loading /\ ~Loading'
    BY <1>0, <2>1 DEF Loading, IsLoading
  <2> QED
    BY <2>1, <2>2 DEF Follows, Loading, NoSave
<1>5. CASE SaveOfEditor
  <2>1. /\ save # NoSave /\ save' = [pc |-> "saved", copy |-> stored'] /\ ~missed
        /\ UNCHANGED <<latest, load>>
    BY <1>5 DEF SaveOfEditor, NoSave
  <2>2. ~Loading /\ ~Loading'
    BY <2>1 DEF Follows, Loading
  <2> QED
    BY <2>1, <2>2 DEF Follows, Loading
<1>6. CASE ReceiveSave
  <2>1. /\ save.pc = "saved" /\ save' = NoSave /\ editor' = save.copy /\ ~missed
        /\ UNCHANGED <<stored, notices, latest, load>>
    BY <1>6 DEF ReceiveSave, server
  <2>2. save # NoSave /\ (save.copy = stored \/ notices > 0)
    BY <2>1 DEF Follows, NoSave
  <2>3. ~Loading /\ ~Loading'
    BY <2>1, <2>2 DEF Follows, Loading
  <2> QED
    BY <2>1, <2>2, <2>3 DEF Follows, Loading, NoSave
<1>7. CASE SaveFails
  <2>1. /\ save.pc = "asked" /\ save' = NoSave /\ ~missed
        /\ UNCHANGED <<stored, notices, editor, isOpen, dirty, latest, load>>
    BY <1>7 DEF SaveFails, server
  <2> QED
    BY <2>1 DEF Follows, Loading, NoSave
<1>8. ASSUME NEW k \in 1..MaxLoads, ReadForLoad(k) \/ ReceiveLoad(k) \/ LoadFails(k)
      PROVE  Follows'
  BY <1>8, LoadStepFollows
<1> QED
  BY <1>1, <1>2, <1>3, <1>4, <1>5, <1>6, <1>7, <1>8 DEF Page

\* Once all is quiet, an editor without unsaved edits shows what is stored.
THEOREM EditorFollows == Spec => []EditorCatchesUp
<1>1. Init => Follows
  BY Bounds DEF Init, Follows, Loading, NoLoad, NoSave
<1>2. Shape /\ Follows /\ [Next]_vars => Follows'
  <2> SUFFICES ASSUME Shape, Follows, [Next]_vars PROVE Follows'
    OBVIOUS
  <2>1. CASE missed'
    BY <2>1 DEF Follows
  <2>2. CASE UNCHANGED vars
    BY <2>2, FollowsFrame DEF vars, server, page
  <2>3. CASE ~missed' /\ Page
    BY <2>3, PageFollows
  <2>4. ASSUME ~missed', NEW a \in Agent, Tool(a)
        PROVE  Follows'
    <3>1. CASE SaveOfTool(a)
      BY <2>4, <3>1, SaveOfToolFollows
    <3>2. CASE ~SaveOfTool(a)
      BY <2>4, <3>2, ToolKeepsPage, FollowsFrame DEF page
    <3> QED
      BY <3>1, <3>2
  <2> QED
    BY <2>1, <2>2, <2>3, <2>4 DEF Next
<1>3. Shape /\ Follows => EditorCatchesUp
  <2> SUFFICES ASSUME Shape, Follows, Quiet, isOpen, ~dirty, ~missed PROVE editor = stored
    BY DEF EditorCatchesUp
  <2>1. ~Loading
    BY DEF Shape, PageShape, Quiet, Loading, NoLoad
  <2> QED
    BY <2>1 DEF Follows, Quiet, NoSave
<1> QED
  BY <1>1, <1>2, <1>3, ShapeAlways, PTL DEF Spec

----------------------------------------------------------------------------
(* What a save loses. *)

\* Each tool makes a copy that lost one thing at most.
LEMMA ReadsLoseOne ==
    ASSUME Shape, StoredIsDefinition, NEW a \in Agent,
           AddNode(a) \/ DeleteNode(a) \/ ConnectNodes(a) \/ DisconnectNodes(a) \/ Reflow(a)
    PROVE  \E copy \in Definition : Reads(a, copy) /\ OneLoss(stored, copy)
<1> DEFINE d == BuildSaveInput(stored)
<1>0. /\ stored \in Definition /\ stored.nodes \subseteq Key /\ stored.edges \subseteq Edge
      /\ stored.content \in [Key -> SUBSET Edit]
      /\ \A e \in stored.edges : e.src \in stored.nodes /\ e.dst \in stored.nodes
      /\ \A e, f \in stored.edges : e.src = f.src /\ e.dst = f.dst => e = f
  BY DefinitionParts DEF Shape, ServerShape, StoredIsDefinition, IsDefinition
<1>1. /\ d \in Definition /\ d.nodes = stored.nodes /\ d.content = stored.content
      /\ d.edges = {[e EXCEPT !.handle = "none"] : e \in stored.edges}
  BY <1>0, BuildSaveInputType
<1>2. \A e \in stored.edges : LET f == [e EXCEPT !.handle = "none"]
                              IN  f \in d.edges /\ f.src = e.src /\ f.dst = e.dst
  BY <1>0, <1>1 DEF Edge
<1> HIDE DEF d
<1>4. CASE AddNode(a)
  <2>1. PICK t \in Temp \ stored.nodes, e \in Edit : Reads(a, WithNode(d, t, {e}))
    BY <1>4 DEF AddNode, d
  <2> DEFINE c == WithNode(d, t, {e})
  <2>2. c \in Definition
    BY <1>1, <2>1, WithNodeType DEF Key
  <2>3. /\ c.nodes = stored.nodes \cup {t} /\ c.edges = d.edges
        /\ \A n \in stored.nodes : c.content[n] = stored.content[n]
    BY <1>0, <1>1, <2>1 DEF WithNode, Definition, Key
  <2> HIDE DEF c
  <2>4. EditsLost(stored, c) = {} /\ EdgesLost(stored, c) = {}
    BY <1>2, <2>3 DEF EditsLost, EdgesLost, HasEdge
  <2> QED
    BY <2>1, <2>2, <2>3, <2>4 DEF OneLoss, c
<1>5. CASE DeleteNode(a)
  <2>1. PICK n \in stored.nodes : Reads(a, WithoutNode(d, n))
    BY <1>5 DEF DeleteNode, d
  <2> DEFINE c == WithoutNode(d, n)
  <2>2. c \in Definition
    BY <1>0, <1>1, <2>1, WithoutNodeType
  <2>3. /\ c.nodes = stored.nodes \ {n} /\ c.edges = {f \in d.edges : f.src # n /\ f.dst # n}
        /\ \A m \in stored.nodes : m # n => c.content[m] = stored.content[m]
    BY <1>0, <1>1, <2>1 DEF WithoutNode, Definition
  <2> HIDE DEF c
  <2>4. EditsLost(stored, c) = {}
    BY <2>3 DEF EditsLost
  <2>5. EdgesLost(stored, c) = {}
    <3> SUFFICES ASSUME NEW e \in stored.edges, {e.src, e.dst} \subseteq c.nodes
                 PROVE  HasEdge(c.edges, e.src, e.dst)
      BY DEF EdgesLost
    <3>1. e.src # n /\ e.dst # n
      BY <2>3
    <3>2. PICK f \in d.edges : f.src = e.src /\ f.dst = e.dst
      BY <1>2
    <3>3. f \in c.edges
      BY <2>3, <3>1, <3>2
    <3> QED
      BY <3>2, <3>3 DEF HasEdge
  <2>6. stored.nodes \ c.nodes \subseteq {n}
    BY <2>3
  <2> QED
    BY <2>1, <2>2, <2>4, <2>5, <2>6 DEF OneLoss, c
<1>6. CASE ConnectNodes(a)
  <2>1. PICK m, n \in stored.nodes, h \in Offered :
           Reads(a, WithEdge(d, [src |-> m, dst |-> n, handle |-> h]))
    BY <1>6 DEF ConnectNodes, d
  <2> DEFINE f == [src |-> m, dst |-> n, handle |-> h]
             c == WithEdge(d, f)
  <2>2. f \in Edge
    BY <1>0, <2>1, EditingAssumption DEF Edge
  <2> HIDE DEF f
  <2>3. c \in Definition
    BY <1>1, <2>2, WithEdgeType
  <2>4. c.nodes = stored.nodes /\ d.edges \subseteq c.edges /\ c.content = stored.content
    BY <1>1 DEF WithEdge, Definition
  <2> HIDE DEF c
  <2>5. EditsLost(stored, c) = {} /\ EdgesLost(stored, c) = {}
    BY <1>2, <2>4 DEF EditsLost, EdgesLost, HasEdge
  <2> QED
    BY <2>1, <2>3, <2>4, <2>5 DEF OneLoss, c, f
<1>7. CASE DisconnectNodes(a)
  <2>1. PICK e \in stored.edges :
           Reads(a, [d EXCEPT !.edges = @ \ {[e EXCEPT !.handle = "none"]}])
    BY <1>7 DEF DisconnectNodes, d
  <2> DEFINE c == [d EXCEPT !.edges = @ \ {[e EXCEPT !.handle = "none"]}]
  <2>2. /\ c \in Definition /\ c.nodes = stored.nodes /\ c.content = stored.content
        /\ c.edges = d.edges \ {[e EXCEPT !.handle = "none"]}
    BY <1>1 DEF Definition
  <2> HIDE DEF c
  <2>3. EditsLost(stored, c) = {}
    BY <2>2 DEF EditsLost
  <2>4. EdgesLost(stored, c) \subseteq {e}
    <3> SUFFICES ASSUME NEW f \in stored.edges, f # e
                 PROVE  HasEdge(c.edges, f.src, f.dst)
      BY DEF EdgesLost
    <3> DEFINE g == [f EXCEPT !.handle = "none"]
    <3>1. g \in d.edges /\ g.src = f.src /\ g.dst = f.dst
      BY <1>2
    <3>2. f.src # e.src \/ f.dst # e.dst
      BY <1>0
    <3>3. [e EXCEPT !.handle = "none"].src = e.src /\ [e EXCEPT !.handle = "none"].dst = e.dst
      BY <1>2
    <3>4. g # [e EXCEPT !.handle = "none"]
      BY <3>1, <3>2, <3>3
    <3> HIDE DEF g
    <3> QED
      BY <2>2, <3>1, <3>4 DEF HasEdge
  <2> QED
    BY <2>1, <2>2, <2>3, <2>4 DEF OneLoss, c
<1>8. CASE Reflow(a)
  <2>1. EditsLost(stored, stored) = {} /\ EdgesLost(stored, stored) = {}
    BY DEF EditsLost, EdgesLost, HasEdge
  <2> QED
    BY <1>0, <1>8, <2>1 DEF OneLoss, Reflow
<1> QED
  BY <1>4, <1>5, <1>6, <1>7, <1>8

\* The tool that an agent is in is not disturbed by another step, but for its
\* base: a save leaves it behind.
LEMMA OthersFit ==
    ASSUME Shape, NEW a \in Agent, CallFits(a), call'[a] = call[a],
           UNCHANGED <<stored, version>> \/ version' = version + 1
    PROVE  CallFits(a)'
<1>1. call[a].base \in Nat /\ version \in Nat
  BY Bounds DEF Shape, ServerShape, Calls
<1>2. CASE UNCHANGED <<stored, version>>
  BY <1>2 DEF CallFits
<1>3. CASE version' = version + 1
  BY <1>1, <1>3 DEF CallFits
<1> QED
  BY <1>2, <1>3

LEMMA IdleFits ==
    ASSUME NEW a \in Agent, call'[a] = NoCall
    PROVE  CallFits(a)'
BY DEF CallFits, NoCall

LEMMA ToolFits ==
    ASSUME Shape, StoredIsDefinition, NEW a \in Agent, CallFits(a), Tool(a)
    PROVE  CallFits(a)'
<1>0. /\ call \in [Agent -> Calls] /\ version \in Nat
      /\ stored \in Definition /\ stored.nodes \subseteq Key
  BY Bounds, DefinitionParts DEF Shape, ServerShape
<1>1. CASE AddNode(a) \/ DeleteNode(a) \/ ConnectNodes(a) \/ DisconnectNodes(a) \/ Reflow(a)
  <2>1. PICK copy \in Definition : Reads(a, copy) /\ OneLoss(stored, copy)
    BY <1>1, ReadsLoseOne
  <2>2. call'[a].pc = "save" /\ call'[a].copy = copy /\ call'[a].base = version
    BY <1>0, <2>1 DEF Reads, NoCall
  <2>3. UNCHANGED <<stored, version>>
    BY <1>1, ToolReads DEF Begins
  <2> QED
    BY <1>0, <2>1, <2>2, <2>3 DEF CallFits
<1>2. CASE UpdateNode(a) \/ PatchNode(a)
  <2>1. PICK n \in stored.nodes, C \in SUBSET Edit :
           Finds(a, n, C) /\ \E o : stored.content[n] \ C \subseteq {o}
    BY <1>2, ToolFinds
  <2>2. /\ call'[a].pc = "reread" /\ call'[a].base = version
        /\ call'[a].node = {n} /\ call'[a].content = C
    BY <1>0, <2>1 DEF Finds, NoCall
  <2>3. UNCHANGED <<stored, version>>
    BY <1>2, ToolFinds DEF Begins
  <2> QED
    BY <1>0, <2>1, <2>2, <2>3 DEF CallFits
<1>3. CASE RereadToUpdate(a)
  <2> DEFINE c == [stored EXCEPT !.content =
                      [k \in Key |-> IF k \in call[a].node THEN call[a].content ELSE stored.content[k]]]
  <2>1. /\ call[a].pc = "reread" /\ UNCHANGED <<stored, version>>
        /\ call' = [call EXCEPT ![a] =
                       IF call[a].node \subseteq stored.nodes
                       THEN [call[a] EXCEPT !.pc = "save", !.copy = c] ELSE NoCall]
    BY <1>3 DEF RereadToUpdate, server
  <2>2. call[a] \in Calls /\ call[a].content \in SUBSET Edit
    BY <1>0 DEF Calls
  <2> HIDE DEF c
  <2>3. CASE ~(call[a].node \subseteq stored.nodes)
    BY <1>0, <2>1, <2>3, IdleFits
  <2>4. CASE call[a].node \subseteq stored.nodes
    <3>1. call'[a].pc = "save" /\ call'[a].copy = c /\ call'[a].base = call[a].base
      BY <1>0, <2>1, <2>2, <2>4 DEF Calls
    <3>2. call[a].base <= version
      BY <2>1 DEF CallFits
    <3>3. ASSUME call[a].base = version
          PROVE  OneLoss(stored, c)
      <4>1. PICK n, o : call[a].node = {n} /\ stored.content[n] \ call[a].content \subseteq {o}
        BY <2>1, <3>3 DEF CallFits
      <4> DEFINE C == [k \in Key |-> IF k \in call[a].node THEN call[a].content ELSE stored.content[k]]
      <4>2. c = [stored EXCEPT !.content = C]
        BY DEF c
      <4>3. \A m \in stored.nodes : C[m] = IF m = n THEN call[a].content ELSE stored.content[m]
        BY <1>0, <4>1
      <4> HIDE DEF C
      <4>4. c.nodes = stored.nodes /\ c.edges = stored.edges /\ c.content = C
        BY <1>0, <4>2 DEF Definition
      <4>5. \A m \in stored.nodes : c.content[m] = IF m = n THEN call[a].content ELSE stored.content[m]
        BY <4>3, <4>4
      <4>6. EditsLost(stored, c) \subseteq {<<n, o>>}
        BY <4>1, <4>5 DEF EditsLost
      <4>7. EdgesLost(stored, c) = {}
        BY <4>4 DEF EdgesLost, HasEdge
      <4> QED
        BY <4>4, <4>6, <4>7 DEF OneLoss
    <3> QED
      BY <2>1, <3>1, <3>2, <3>3 DEF CallFits
  <2> QED
    BY <2>3, <2>4
<1>4. CASE SaveOfTool(a) \/ ToolFails(a)
  BY <1>0, <1>4, IdleFits DEF SaveOfTool, ToolFails
<1>5. CASE EndRound(a)
  BY <1>5, OthersFit DEF EndRound, server
<1> QED
  BY <1>1, <1>2, <1>3, <1>4, <1>5 DEF Tool

LEMMA CopiesKeepFitting ==
    ASSUME Shape, StoredIsDefinition, CopiesFit, [Next]_vars
    PROVE  CopiesFit'
<1>0. call \in [Agent -> Calls]
  BY DEF Shape, ServerShape
<1>1. UNCHANGED <<stored, version>> \/ version' = version + 1
  BY Writers DEF Commit
<1>2. CASE Page \/ UNCHANGED vars
  <2>1. call' = call
    BY <1>2
    DEF Page, OpenEditor, CloseEditor, TakeNotice, UserAddsNode, UserRemovesNode, UserConfigures,
        UserConnects, UserDisconnects, Edits, AskSave, SaveOfEditor, ReceiveSave, SaveFails,
        ReadForLoad, ReceiveLoad, LoadFails, vars
  <2> QED
    BY <1>1, <2>1, OthersFit DEF CopiesFit
<1>3. ASSUME NEW a \in Agent, Tool(a)
      PROVE  CopiesFit'
  <2> SUFFICES ASSUME NEW b \in Agent PROVE CallFits(b)'
    BY DEF CopiesFit
  <2>1. CASE b = a
    BY <1>3, <2>1, ToolFits DEF CopiesFit
  <2>2. CASE b # a
    <3>1. call'[b] = call[b]
      BY <1>0, <1>3, <2>2
      DEF Tool, AddNode, DeleteNode, ConnectNodes, DisconnectNodes, UpdateNode, PatchNode,
          RereadToUpdate, Reflow, SaveOfTool, ToolFails, EndRound, Reads, Finds
    <3> QED
      BY <1>1, <3>1, OthersFit DEF CopiesFit
  <2> QED
    BY <2>1, <2>2
<1> QED
  BY <1>2, <1>3 DEF Next

LEMMA AtMostOne ==
    ASSUME NEW S, NEW x, S \subseteq {x}
    PROVE  Cardinality(S) \in {0, 1}
<1>1. S = {} \/ S = {x}
  OBVIOUS
<1> QED
  BY <1>1, FS_EmptySet, FS_Singleton

\* What the rows lose by a save, the copy had lost.
LEMMA SaveLosesWhatTheCopyLost ==
    ASSUME Shape, StoredIsDefinition, NEW c \in Definition, Commit(c)
    PROVE  /\ LostEdits \subseteq EditsLost(stored, c)
           /\ LostEdges \subseteq EdgesLost(stored, c)
           /\ stored.nodes \ stored'.nodes \subseteq stored.nodes \ c.nodes
<1>0. /\ ServerShape /\ stored.nodes \subseteq born /\ stored.nodes \subseteq Key
      /\ \A e \in stored.edges : e.src \in stored.nodes /\ e.dst \in stored.nodes
  BY DefinitionParts DEF Shape, ServerShape, StoredIsDefinition, IsDefinition
<1>1. PICK new \in Renamings(c) : stored' = Saved(c, new)
  BY DEF Commit
<1>2. /\ stored'.nodes = {At(new, n) : n \in c.nodes}
      /\ stored'.edges =
            {[src |-> At(new, e.src), dst |-> At(new, e.dst), handle |-> e.handle] : e \in c.edges}
      /\ stored'.content =
            [k \in Key |-> UNION {c.content[n] : n \in {m \in c.nodes : At(new, m) = k}}]
  BY <1>1, SavedParts
<1>3. /\ \A n \in c.nodes \cap stored.nodes : At(new, n) = n
      /\ \A n \in c.nodes : n \notin stored.nodes => At(new, n) \notin born
  BY <1>0, AtIsInjective
<1>4. \A n \in stored.nodes : n \in stored'.nodes <=> n \in c.nodes
  BY <1>0, <1>2, <1>3
<1>5. \A n \in stored.nodes \cap c.nodes : c.content[n] \subseteq stored'.content[n]
  <2> SUFFICES ASSUME NEW n \in stored.nodes \cap c.nodes, NEW x \in c.content[n]
               PROVE  x \in stored'.content[n]
    OBVIOUS
  <2>1. n \in {m \in c.nodes : At(new, m) = n}
    BY <1>3
  <2> QED
    BY <1>0, <1>2, <2>1
<1>6. LostEdits \subseteq EditsLost(stored, c)
  <2> SUFFICES ASSUME NEW p \in LostEdits PROVE p \in EditsLost(stored, c)
    OBVIOUS
  <2>1. /\ p \in (stored.nodes \cap stored'.nodes) \X Edit
        /\ p[2] \in stored.content[p[1]] /\ p[2] \notin stored'.content[p[1]]
    BY DEF LostEdits
  <2>2. p[1] \in stored.nodes \cap c.nodes /\ p \in (stored.nodes \cap c.nodes) \X Edit
    BY <1>4, <2>1
  <2>3. p[2] \notin c.content[p[1]]
    BY <1>5, <2>1, <2>2
  <2> QED
    BY <2>1, <2>2, <2>3 DEF EditsLost
<1>7. LostEdges \subseteq EdgesLost(stored, c)
  <2> SUFFICES ASSUME NEW e \in LostEdges PROVE e \in EdgesLost(stored, c)
    OBVIOUS
  <2>1. /\ e \in stored.edges /\ {e.src, e.dst} \subseteq stored'.nodes
        /\ ~HasEdge(stored'.edges, e.src, e.dst)
    BY DEF LostEdges
  <2>2. e.src \in stored.nodes \cap c.nodes /\ e.dst \in stored.nodes \cap c.nodes
    BY <1>0, <1>4, <2>1
  <2>3. ASSUME NEW f \in c.edges, f.src = e.src, f.dst = e.dst
        PROVE  FALSE
    <3> DEFINE g == [src |-> At(new, f.src), dst |-> At(new, f.dst), handle |-> f.handle]
    <3>1. g \in stored'.edges /\ g.src = e.src /\ g.dst = e.dst
      BY <1>2, <1>3, <2>2, <2>3
    <3> QED
      BY <2>1, <3>1 DEF HasEdge
  <2> QED
    BY <2>1, <2>2, <2>3 DEF EdgesLost, HasEdge
<1> QED
  BY <1>4, <1>6, <1>7

\* A tool whose save finds the version it read first loses one thing at most.
THEOREM OverlapsAlone == Spec => OnlyOverlapsLoseEdits
<1>1. Init => CopiesFit
  BY DEF Init, CopiesFit, CallFits, NoCall
<1>2. Shape /\ StoredIsDefinition /\ CopiesFit /\ [Next]_vars => CopiesFit'
  BY CopiesKeepFitting
<1>3. Shape /\ StoredIsDefinition /\ CopiesFit /\ [Next]_vars
      => [\A a \in Agent : FreshSave(a) =>
             Cardinality(LostEdits) + Cardinality(LostEdges)
                 + Cardinality(stored.nodes \ stored'.nodes) <= 1]_vars
  <2> SUFFICES ASSUME Shape, StoredIsDefinition, CopiesFit, [Next]_vars,
                      NEW a \in Agent, FreshSave(a)
               PROVE  Cardinality(LostEdits) + Cardinality(LostEdges)
                          + Cardinality(stored.nodes \ stored'.nodes) <= 1
    OBVIOUS
  <2> DEFINE c == call[a].copy
  <2>0. /\ call \in [Agent -> Calls] /\ c \in Definition
        /\ call[a].pc = "save" /\ call'[a] # call[a] /\ version' # version
        /\ OneLoss(stored, c)
    BY DEF Shape, ServerShape, Calls, FreshSave, NoCall, CopiesFit, CallFits
  <2>1. Commit(c)
    <3>1. ~Page /\ ~UNCHANGED vars
      BY <2>0
      DEF Page, OpenEditor, CloseEditor, TakeNotice, UserAddsNode, UserRemovesNode, UserConfigures,
          UserConnects, UserDisconnects, Edits, AskSave, SaveOfEditor, ReceiveSave, SaveFails,
          ReadForLoad, ReceiveLoad, LoadFails, vars
    <3>2. PICK b \in Agent : Tool(b)
      BY <3>1 DEF Next
    <3>3. SaveOfTool(b)
      BY <2>0, <3>2, ToolKeepsPage
    <3>4. b = a
      BY <2>0, <3>3 DEF SaveOfTool
    <3> QED
      BY <3>3, <3>4 DEF SaveOfTool
  <2>2. /\ LostEdits \subseteq EditsLost(stored, c)
        /\ LostEdges \subseteq EdgesLost(stored, c)
        /\ stored.nodes \ stored'.nodes \subseteq stored.nodes \ c.nodes
    BY <2>0, <2>1, SaveLosesWhatTheCopyLost
  <2> HIDE DEF c
  <2>3. CASE EdgesLost(stored, c) = {} /\ stored.nodes \subseteq c.nodes /\ \E p : EditsLost(stored, c) \subseteq {p}
    <3>1. PICK p : EditsLost(stored, c) \subseteq {p}
      BY <2>3
    <3>2. LostEdits \subseteq {p} /\ LostEdges = {} /\ stored.nodes \ stored'.nodes = {}
      BY <2>2, <2>3, <3>1
    <3> QED
      BY <3>2, AtMostOne, FS_EmptySet
  <2>4. CASE EditsLost(stored, c) = {} /\ stored.nodes \subseteq c.nodes /\ \E e : EdgesLost(stored, c) \subseteq {e}
    <3>1. PICK e : EdgesLost(stored, c) \subseteq {e}
      BY <2>4
    <3>2. LostEdits = {} /\ LostEdges \subseteq {e} /\ stored.nodes \ stored'.nodes = {}
      BY <2>2, <2>4, <3>1
    <3> QED
      BY <3>2, AtMostOne, FS_EmptySet
  <2>5. CASE EditsLost(stored, c) = {} /\ EdgesLost(stored, c) = {} /\ \E n : stored.nodes \ c.nodes \subseteq {n}
    <3>1. PICK n : stored.nodes \ c.nodes \subseteq {n}
      BY <2>5
    <3>2. LostEdits = {} /\ LostEdges = {} /\ stored.nodes \ stored'.nodes \subseteq {n}
      BY <2>2, <2>5, <3>1
    <3> QED
      BY <3>2, AtMostOne, FS_EmptySet
  <2> QED
    BY <2>0, <2>3, <2>4, <2>5 DEF OneLoss
<1> QED
  BY <1>1, <1>2, <1>3, ShapeAlways, RowsStayAGraph, PTL DEF Spec, OnlyOverlapsLoseEdits

==============================================================================
