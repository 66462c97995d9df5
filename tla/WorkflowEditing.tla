--------------------------- MODULE WorkflowEditing ---------------------------
(****************************************************************************)
(* Who writes the definition of one workflow, and how the writers meet:     *)
(*   - the tools of the copilot (backend/src/copilot/copilotTools.ts and    *)
(*     workflowAccessor.ts): each reads the whole definition, changes its   *)
(*     copy and saves all of it;                                            *)
(*   - the editor of the page (frontend/src/stores/workflowStore.ts): it    *)
(*     loads a definition, the user changes the copy, a save replaces the   *)
(*     stored one, and the copilot's notices make it load again.            *)
(* workflow.service.ts validates a save against nothing but itself, so a    *)
(* save overwrites what was saved since its writer read.                    *)
(*                                                                          *)
(* The content of a node is the set of the edits it carries; names,         *)
(* positions and texts are left out.  version counts the saves: with the    *)
(* version a tool started from, it only serves the properties.              *)
(****************************************************************************)
EXTENDS Dag

CONSTANTS
    Id,          \* node ids the database hands out
    Temp,        \* ids the editor gives to nodes not saved yet
    Edit,        \* edits of a node's content, each made once
    Agent,       \* copilot agents connected to the workflow
    Initial,     \* the stored definition at the start
    Offered,     \* the handles new edges may have
    MaxSaves,    \* bound: saves of the workflow
    MaxEdits,    \* bound: changes the user makes in the editor
    MaxLoads     \* bound: loads the editor asks for

Key  == Id \cup Temp
Edge == [src : Key, dst : Key, handle : Handles]
Definition == [nodes : SUBSET Key, edges : SUBSET Edge, content : [Key -> SUBSET Edit]]

Closed == [nodes |-> {}, edges |-> {}, content |-> [k \in Key |-> {}]]

ASSUME EditingAssumption ==
    /\ IsFiniteSet(Id) /\ IsFiniteSet(Temp) /\ Id \cap Temp = {}
    /\ Initial \in Definition /\ Initial.nodes \subseteq Id
    /\ Initial.nodes # {} /\ IsDefinition(Initial)
    /\ Offered \subseteq Handles
    /\ MaxSaves \in Nat /\ MaxEdits \in Nat /\ MaxLoads \in Nat \ {0}

VARIABLES
    stored,     \* the workflow's rows
    born,       \* the ids handed out so far
    version,    \* how many saves were committed
    used,       \* the edits made so far
    live,       \* the agents that may call tools
    call,       \* call[a]: the tool call agent a is in
    notices,    \* workflow_changed frames on their way to the page
    editor,     \* editorWorkflow
    isOpen,     \* editorWorkflow is not null
    dirty,      \* isDirty
    edits,      \* how many changes the user made
    latest,     \* latestEditorLoadRequestId
    load,       \* load[k]: where the k-th load is
    save,       \* the save the page waits for
    attached,   \* the agent at the other end of the page's copilot socket
    wanted,     \* the page shows the editor, or waits for it
    missed      \* the page may have missed a save (see EditorCatchesUp)

server  == <<stored, born, version, used>>
page    == <<editor, isOpen, dirty, edits, latest, load, save, attached, wanted, missed>>
vars    == <<server, live, call, notices, page>>

NoCall == [pc |-> "idle", copy |-> Closed, base |-> 0, node |-> {}, content |-> {}]
NoLoad == [pc |-> "none", copy |-> Closed]
NoSave == [pc |-> "none", copy |-> Closed]

Init ==
    /\ stored = Initial /\ born = Initial.nodes /\ version = 0
    /\ used = UNION {Initial.content[n] : n \in Key}
    /\ live = {} /\ call = [a \in Agent |-> NoCall]
    /\ notices = 0
    /\ editor = Closed /\ isOpen = FALSE /\ dirty = FALSE /\ edits = 0
    /\ latest = 0 /\ load = [k \in 1..MaxLoads |-> NoLoad] /\ save = NoSave
    /\ attached = {} /\ wanted = FALSE /\ missed = FALSE

----------------------------------------------------------------------------
(* A save: validation, then one transaction. *)

\* Mutant: the ids of the input are taken as they are.
KeepIds(copy) == {[n \in copy.nodes \ stored.nodes |-> n]}

\* A node whose id is not stored (a temporary one, or one that another save
\* deleted) is created under a new id, and its edges follow.
Renamings(copy) ==
    {new \in [copy.nodes \ stored.nodes -> Id \ born] :
        \A m, n \in DOMAIN new : new[m] = new[n] => m = n}

Saved(copy, new) ==
    LET at(n) == IF n \in DOMAIN new THEN new[n] ELSE n
    IN  [nodes |-> {at(n) : n \in copy.nodes},
         edges |-> {[src |-> at(e.src), dst |-> at(e.dst), handle |-> e.handle] : e \in copy.edges},
         content |-> [k \in Key |-> UNION {copy.content[n] : n \in {m \in copy.nodes : at(m) = k}}]]

Commit(copy) ==
    /\ version < MaxSaves
    /\ IsDefinition(copy)
    /\ \E new \in Renamings(copy) :
          /\ stored' = Saved(copy, new)
          /\ born' = born \cup stored'.nodes
    /\ version' = version + 1
    /\ UNCHANGED used

----------------------------------------------------------------------------
(* The tools: what each makes of the definition it read. *)

\* buildSaveInput lists source and target of each edge, not its handle.
BuildSaveInput(d) ==
    [d EXCEPT !.edges = {[e EXCEPT !.handle = "none"] : e \in d.edges}]

WithoutNode(d, n) ==
    [nodes |-> d.nodes \ {n},
     edges |-> {e \in d.edges : e.src # n /\ e.dst # n},
     content |-> [d.content EXCEPT ![n] = {}]]

WithEdge(d, e) == [d EXCEPT !.edges = @ \cup {e}]

WithNode(d, n, content) ==
    [d EXCEPT !.nodes = @ \cup {n}, !.content[n] = content]

Reads(a, copy) ==
    call' = [call EXCEPT ![a] = [NoCall EXCEPT !.pc = "save", !.copy = copy, !.base = version]]

Begins(a) ==
    /\ a \in live /\ call[a].pc = "idle" /\ version < MaxSaves
    /\ UNCHANGED <<stored, born, version, live, notices, page>>

\* wf_add_node: a new node with the default or a template's configuration.
AddNode(a) ==
    /\ Begins(a)
    /\ \E t \in Temp \ stored.nodes, e \in Edit \ used :
          /\ Reads(a, WithNode(BuildSaveInput(stored), t, {e}))
          /\ used' = used \cup {e}

\* wf_delete_node.
DeleteNode(a) ==
    /\ Begins(a)
    /\ \E n \in stored.nodes : Reads(a, WithoutNode(BuildSaveInput(stored), n))
    /\ UNCHANGED used

\* wf_connect_nodes: nothing is saved when the edge is there.
ConnectNodes(a) ==
    /\ Begins(a)
    /\ \E m, n \in stored.nodes, h \in Offered :
          /\ ~HasEdge(stored.edges, m, n)
          /\ Reads(a, WithEdge(BuildSaveInput(stored), [src |-> m, dst |-> n, handle |-> h]))
    /\ UNCHANGED used

\* wf_disconnect_nodes.
DisconnectNodes(a) ==
    /\ Begins(a)
    /\ \E e \in stored.edges :
          Reads(a, [BuildSaveInput(stored) EXCEPT !.edges = @ \ {[e EXCEPT !.handle = "none"]}])
    /\ UNCHANGED used

\* The two tools that change a node read the definition to find its content
\* first, and the accessor reads all of it again.
Finds(a, n, content) ==
    call' = [call EXCEPT ![a] = [NoCall EXCEPT !.pc = "reread", !.base = version,
                                 !.node = {n}, !.content = content]]

\* Mutant: the part given replaces the configuration.
UpdateNodeWhole(a) ==
    /\ Begins(a)
    /\ \E n \in stored.nodes, e \in Edit \ used :
          /\ Finds(a, n, {e})
          /\ used' = used \cup {e}

\* wf_update_node merges a part of the configuration into what is there.
UpdateNode(a) ==
    /\ Begins(a)
    /\ \E n \in stored.nodes, e \in Edit \ used :
          /\ Finds(a, n, stored.content[n] \cup {e})
          /\ used' = used \cup {e}

\* wf_patch_node replaces a fragment that is there.
PatchNode(a) ==
    /\ Begins(a)
    /\ \E n \in stored.nodes, e \in Edit \ used : \E o \in stored.content[n] :
          /\ Finds(a, n, (stored.content[n] \ {o}) \cup {e})
          /\ used' = used \cup {e}

\* DbWorkflowAccessor.updateNode: read again, change the node, save all.
RereadToUpdate(a) ==
    /\ call[a].pc = "reread"
    /\ call' = [call EXCEPT ![a] =
                   IF call[a].node \subseteq stored.nodes
                   THEN [call[a] EXCEPT !.pc = "save",
                            !.copy = [stored EXCEPT !.content =
                                [k \in Key |-> IF k \in call[a].node THEN call[a].content
                                               ELSE stored.content[k]]]]
                   ELSE NoCall]
    /\ UNCHANGED <<server, live, notices, page>>

\* reflowWorkflowLayout reads the definition and saves it with new positions.
Reflow(a) ==
    /\ Begins(a)
    /\ Reads(a, stored)
    /\ UNCHANGED used

IsLoading == \E k \in DOMAIN load : k = latest /\ load[k].pc # "none"

\* The save of a tool, and the workflow_changed event that follows it: it is
\* sent if the socket of the agent is open.
SaveOfTool(a) ==
    /\ call[a].pc = "save"
    /\ Commit(call[a].copy)
    /\ call' = [call EXCEPT ![a] = NoCall]
    /\ notices' = IF a \in attached THEN notices + 1 ELSE notices
    /\ missed' = (missed \/ (a \notin attached /\ (isOpen \/ IsLoading \/ save # NoSave)))
    /\ UNCHANGED <<live, editor, isOpen, dirty, edits, latest, load, save, attached, wanted>>

\* An agent whose socket is gone ends with the round of tool calls it is in.
EndRound(a) ==
    /\ a \in live \ attached /\ call[a].pc = "idle"
    /\ live' = live \ {a}
    /\ UNCHANGED <<server, call, notices, page>>

\* The save is refused (a cycle) or throws: the model reads the error.
ToolFails(a) ==
    /\ call[a].pc = "save"
    /\ call' = [call EXCEPT ![a] = NoCall]
    /\ UNCHANGED <<server, live, notices, page>>

----------------------------------------------------------------------------
(* The editor. *)

\* loadForEditing: ++latestEditorLoadRequestId, then the request.
AskLoad ==
    /\ latest < MaxLoads
    /\ latest' = latest + 1
    /\ load' = [load EXCEPT ![latest + 1] = [NoLoad EXCEPT !.pc = "asked"]]
    /\ missed' = (missed \/ save # NoSave)

\* handleEdit of the page.
OpenEditor ==
    /\ ~wanted
    /\ AskLoad
    /\ wanted' = TRUE
    /\ UNCHANGED <<server, live, call, notices, editor, isOpen, dirty, edits, save, attached>>

\* A workflow_changed frame: the editor loads again, unsaved edits or not.
TakeNotice ==
    /\ notices > 0
    /\ notices' = notices - 1
    /\ AskLoad
    /\ UNCHANGED <<server, live, call, editor, isOpen, dirty, edits, save, attached, wanted>>

ReadForLoad(k) ==
    /\ load[k].pc = "asked"
    /\ load' = [load EXCEPT ![k] = [pc |-> "read", copy |-> stored]]
    /\ UNCHANGED <<server, live, call, notices, editor, isOpen, dirty, edits, latest, save, attached, wanted, missed>>

Shows(answer) ==
    /\ editor' = answer.copy /\ isOpen' = TRUE /\ dirty' = FALSE

\* The copilot connects once the editor is loaded: a new agent.
Connect ==
    IF attached = {}
    THEN \E a \in Agent \ live : attached' = {a} /\ live' = live \cup {a}
    ELSE UNCHANGED <<attached, live>>

\* Mutant: every answer counts.
ReceiveAnyLoad(k) ==
    /\ load[k].pc = "read"
    /\ load' = [load EXCEPT ![k] = NoLoad]
    /\ Shows(load[k]) /\ Connect
    /\ UNCHANGED <<server, call, notices, edits, latest, save, wanted, missed>>

\* An answer counts if no load and no closing came after its request.
ReceiveLoad(k) ==
    /\ load[k].pc = "read"
    /\ load' = [load EXCEPT ![k] = NoLoad]
    /\ IF k = latest THEN Shows(load[k]) /\ Connect
       ELSE UNCHANGED <<editor, isOpen, dirty, attached, live>>
    /\ UNCHANGED <<server, call, notices, edits, latest, save, wanted, missed>>

LoadFails(k) ==
    /\ load[k].pc = "asked"
    /\ load' = [load EXCEPT ![k] = NoLoad]
    /\ wanted' = (wanted /\ ~(k = latest /\ attached = {}))
    /\ missed' = (missed \/ k = latest)
    /\ UNCHANGED <<server, live, call, notices, editor, isOpen, dirty, edits, latest, save, attached>>

Edits ==
    /\ attached # {} /\ isOpen
    /\ edits < MaxEdits /\ edits' = edits + 1
    /\ dirty' = TRUE
    /\ UNCHANGED <<stored, born, version, live, call, notices, isOpen, latest, load, save,
                   attached, wanted, missed>>

UserAddsNode ==
    /\ Edits
    /\ \E t \in Temp \ editor.nodes : editor' = WithNode(editor, t, {})
    /\ UNCHANGED used

UserRemovesNode ==
    /\ Edits
    /\ \E n \in editor.nodes : editor' = WithoutNode(editor, n)
    /\ UNCHANGED used

UserConfigures ==
    /\ Edits
    /\ \E n \in editor.nodes, e \in Edit \ used :
          /\ editor' = [editor EXCEPT !.content[n] = @ \cup {e}]
          /\ used' = used \cup {e}

\* addEdge refuses a second edge between two nodes, not a cycle.
UserConnects ==
    /\ Edits
    /\ \E m, n \in editor.nodes, h \in Offered :
          /\ ~HasEdge(editor.edges, m, n)
          /\ editor' = WithEdge(editor, [src |-> m, dst |-> n, handle |-> h])
    /\ UNCHANGED used

UserDisconnects ==
    /\ Edits
    /\ \E e \in editor.edges : editor' = [editor EXCEPT !.edges = @ \ {e}]
    /\ UNCHANGED used

\* handleEditorBack: closeEditor, then the copilot disconnects.
CloseEditor ==
    /\ attached # {} /\ latest < MaxLoads
    /\ latest' = latest + 1
    /\ editor' = Closed /\ isOpen' = FALSE /\ dirty' = FALSE
    /\ wanted' = FALSE
    /\ attached' = {} /\ notices' = 0
    /\ missed' = (missed \/ save # NoSave)
    /\ UNCHANGED <<server, live, call, edits, load, save>>

AskSave ==
    /\ attached # {} /\ save = NoSave /\ version < MaxSaves
    /\ save' = [pc |-> "asked", copy |-> editor]
    /\ missed' = (missed \/ IsLoading)
    /\ UNCHANGED <<server, live, call, notices, editor, isOpen, dirty, edits, latest, load, attached, wanted>>

SaveOfEditor ==
    /\ save.pc = "asked"
    /\ Commit(save.copy)
    /\ save' = [pc |-> "saved", copy |-> stored']
    /\ UNCHANGED <<live, call, notices, editor, isOpen, dirty, edits, latest, load, attached, wanted, missed>>

\* The answer replaces the editor's copy, whatever the user did meanwhile.
ReceiveSave ==
    /\ save.pc = "saved"
    /\ editor' = save.copy /\ isOpen' = TRUE /\ dirty' = FALSE
    /\ save' = NoSave
    /\ UNCHANGED <<server, live, call, notices, edits, latest, load, attached, wanted, missed>>

SaveFails ==
    /\ save.pc = "asked"
    /\ save' = NoSave
    /\ UNCHANGED <<server, live, call, notices, editor, isOpen, dirty, edits, latest, load, attached, wanted, missed>>

----------------------------------------------------------------------------

Tool(a) ==
    \/ AddNode(a) \/ DeleteNode(a) \/ ConnectNodes(a) \/ DisconnectNodes(a)
    \/ UpdateNode(a) \/ PatchNode(a) \/ RereadToUpdate(a) \/ Reflow(a)
    \/ SaveOfTool(a) \/ ToolFails(a) \/ EndRound(a)

Page ==
    \/ OpenEditor \/ CloseEditor \/ TakeNotice
    \/ UserAddsNode \/ UserRemovesNode \/ UserConfigures \/ UserConnects
    \/ UserDisconnects
    \/ AskSave \/ SaveOfEditor \/ ReceiveSave \/ SaveFails
    \/ \E k \in 1..MaxLoads : ReadForLoad(k) \/ ReceiveLoad(k) \/ LoadFails(k)

Next == Page \/ \E a \in Agent : Tool(a)

Spec == Init /\ [][Next]_vars

----------------------------------------------------------------------------
(* Properties. *)

\* Every variable has its type.
TypeOK ==
    /\ stored \in Definition /\ born \subseteq Id /\ version \in 0..MaxSaves /\ used \subseteq Edit
    /\ \A a \in Agent : call[a].pc \in {"idle", "reread", "save"} /\ call[a].copy \in Definition
    /\ notices \in 0..MaxSaves
    /\ editor \in Definition /\ isOpen \in BOOLEAN /\ dirty \in BOOLEAN /\ edits \in 0..MaxEdits
    /\ latest \in 0..MaxLoads /\ save.copy \in Definition
    /\ \A k \in 1..MaxLoads : load[k].pc \in {"none", "asked", "read"} /\ load[k].copy \in Definition

\* Whatever copies meet, the rows stay a graph the engine can run: every node
\* has an id of the database, every edge has its ends, nothing is doubled and
\* there is no cycle, also when a stale copy brings a deleted node back.
StoredIsDefinition == IsDefinition(stored) /\ stored.nodes \subseteq Id

\* An id that left the workflow never comes back (runs point at node ids): a
\* stale copy brings the node back under a new one.
IdsNeverReturn == [][\A n \in born : n \notin stored.nodes => n \notin stored'.nodes]_vars

\* Edits are lost to overlaps only: a tool whose save finds the version it read
\* first takes one edit away at most (the fragment wf_patch_node replaces)
\* besides the node it deletes, and leaves all the edges of other nodes but
\* one: it saves the whole definition and must have copied it whole.
LostEdits == {p \in (stored.nodes \cap stored'.nodes) \X Edit :
                 p[2] \in stored.content[p[1]] \ stored'.content[p[1]]}
LostEdges == {e \in stored.edges : /\ {e.src, e.dst} \subseteq stored'.nodes
                                   /\ ~HasEdge(stored'.edges, e.src, e.dst)}
FreshSave(a) == call[a].pc = "save" /\ call[a].base = version /\ version' # version /\ call'[a] = NoCall
OnlyOverlapsLoseEdits ==
    [][\A a \in Agent : FreshSave(a) =>
          Cardinality(LostEdits) + Cardinality(LostEdges)
              + Cardinality(stored.nodes \ stored'.nodes) <= 1]_vars

\* Once all is quiet, an editor without unsaved edits shows what is stored:
\* notices, loads and saves answered in any order bring it there, unless a
\* load failed, an agent of an earlier connection saved, or a load and a save
\* of the page were on their way together (the older answer may come last,
\* and the next save then brings the older copy back).
Quiet == notices = 0 /\ save = NoSave /\ \A k \in DOMAIN load : load[k] = NoLoad
EditorCatchesUp == Quiet /\ isOpen /\ ~dirty /\ ~missed => editor = stored
============================================================================
