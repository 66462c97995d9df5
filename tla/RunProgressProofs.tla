-------------------------- MODULE RunProgressProofs --------------------------
(****************************************************************************)
(* Theorems about RunProgress: what the page shows of a run is what its     *)
(* rows say.                                                                *)
(****************************************************************************)
EXTENDS RunProgress, TLAPS

Pcs       == {"none", "checked", "waits", "next", "runs", "closed", "over", "gone"}
Links     == {"none", "connecting", "open", "closed"}
RunStatus == {"none", "running", "completed", "failed"}
Events    == ({"running", "completed", "failed", "skipped"} \X Node) \cup {<<"end", 0>>}
AnyWf     == Workflow \cup {NoWorkflow}

RowShape ==
    /\ run \in [Run -> [status : RunStatus, wf : AnyWf]]
    /\ nodeRun \in [Run -> [Node -> Status]]

ServerShape ==
    /\ engine \in [Run -> [pc : Pcs, left : Seq(Node)]]
    /\ \A r \in Run : engine[r].pc = "runs" => engine[r].left # <<>>
    /\ locked \subseteq Workflow
    /\ ask \in [Run -> [pc : {"none", "asked", "answered", "refused"}, wf : AnyWf, plan : Seq(Node)]]

SocketShape ==
    /\ registered \subseteq Run
    /\ link \in [Run -> Links] /\ wire \in [Run -> Seq(Events)]
    /\ current \in {0} \cup Run

PageShape ==
    /\ shown \in AnyWf /\ opens \in 0..MaxOpens /\ frames \in Nat /\ executing \in BOOLEAN
    /\ picture \in [Node -> Status]
    /\ detail \in [run : {0} \cup Run, status : RunStatus, nodes : [Node -> Status]]
    /\ fetches \subseteq [run : Run, wf : Workflow, opens : 0..MaxOpens]
    /\ exact \in [Run -> BOOLEAN] /\ foreign \subseteq Node /\ deaf \in BOOLEAN /\ strayed \in BOOLEAN

Shape == RowShape /\ ServerShape /\ SocketShape /\ PageShape

Ended(r) == run[r].status \in {"completed", "failed"}

\* Where the engine is with a run says what its rows are.
Staged ==
    \A r \in Run :
        /\ ask[r].pc # "none" => ask[r].wf \in Workflow
        /\ ask[r].pc = "none" => engine[r].pc = "none"
        /\ engine[r].pc = "checked" => ask[r].pc = "asked"
        /\ engine[r].pc = "none" => ask[r].pc \in {"none", "asked"}
        /\ engine[r].pc \in {"none", "checked"} => run[r] = Rows!NoRow /\ nodeRun[r] = Rows!NoRows
        /\ engine[r].pc = "waits" => nodeRun[r] = Rows!NoRows
        /\ engine[r].pc \in {"closed", "over"} => Ended(r)

\* Sockets are there for runs that were answered, and carry events while they
\* are registered.
Linked ==
    \A r \in Run :
        /\ ask[r].pc # "answered" => link[r] = "none"
        /\ link[r] = "open" <=> r \in registered
        /\ link[r] # "open" => wire[r] = <<>>
        /\ current = r => link[r] \in {"connecting", "open"}

\* run_complete is sent of a run that is over; who hears it asks for that run,
\* as one of the workflow shown by then.
Awaited ==
    /\ \A r \in Run : (\E i \in DOMAIN wire[r] : wire[r][i][1] = "end") => Ended(r)
    /\ \A f \in fetches : /\ Ended(f.run) /\ f.opens <= opens
                          /\ f.opens = opens /\ shown # NoWorkflow => f.wf = shown

Detailed ==
    detail # NoDetail => /\ detail.run \in Run /\ Ended(detail.run)
                         /\ detail.status = run[detail.run].status /\ detail.nodes = nodeRun[detail.run]
                         /\ ~strayed => run[detail.run].wf = shown

Same(s, t) == s = t \/ {s, t} \subseteq {"none", "pending"}

\* The last event of node n in queue q, or else p, says x.
Of(q, n) == {i \in DOMAIN q : q[i][1] # "end" /\ q[i][2] = n}
Says(q, n, p, x) ==
    \/ Of(q, n) = {} /\ Same(p, x)
    \/ \E i \in Of(q, n) : /\ \A j \in Of(q, n) : j <= i
                           /\ Same(q[i][1], x)

\* Somebody else set the status of node n, and queue q has nothing to say of it.
Taken(q, n) == n \in foreign /\ Of(q, n) = {}

\* Once its events are in, the picture is what the rows of run r say, but for
\* the nodes taken.
Seen(r) == \A n \in Node : Taken(wire[r], n) \/ Says(wire[r], n, picture[n], nodeRun[r][n])

\* A run the page follows exactly is the only one that may change the picture.
Followed ==
    \A r \in Run : exact[r] =>
        /\ ask[r].pc \in {"asked", "answered"}
        /\ \A j \in Run : j # r => ~Live(j)
        /\ engine[r].pc \in {"none", "checked", "waits", "gone"} \/ r \in registered
        /\ Seen(r)

----------------------------------------------------------------------------
(* Types. *)

LEMMA Basic ==
    /\ NoWorkflow \notin Workflow /\ Nodes \in [Workflow -> Seq(Node)]
    /\ \A r \in Run : r # 0
    /\ <<"end", 0>> \in Events
    /\ \A n \in Node, s \in {"running", "completed", "failed", "skipped"} : <<s, n>> \in Events
BY ProgressAssumption DEF Run, Events

LEMMA Sent ==
    ASSUME SocketShape, NEW r \in Run, NEW e \in Events, Send(r, e)
    PROVE  /\ wire' \in [Run -> Seq(Events)]
           /\ wire'[r] = IF r \in registered THEN Append(wire[r], e) ELSE wire[r]
           /\ \A k \in Run : k # r => wire'[k] = wire[k]
<1>1. wire \in [Run -> Seq(Events)] /\ Append(wire[r], e) \in Seq(Events)
  BY DEF SocketShape
<1>2. CASE r \in registered
  <2>1. wire' = [wire EXCEPT ![r] = Append(wire[r], e)]
    BY <1>2 DEF Send
  <2> QED
    BY <1>1, <1>2, <2>1
<1>3. CASE r \notin registered
  BY <1>1, <1>3 DEF Send
<1> QED
  BY <1>2, <1>3

\* What a step of the engine on a node does.
Writes(r, n, s) ==
    /\ run' = run /\ run[r].status = "running"
    /\ nodeRun' \in [Run -> [Node -> Status]]
    /\ nodeRun'[r][n] = s /\ \A m \in Node : m # n => nodeRun'[r][m] = nodeRun[r][m]
    /\ \A k \in Run : k # r => nodeRun'[k] = nodeRun[k]
    /\ Send(r, <<s, n>>)
    /\ engine[r].pc \in {"next", "runs"} /\ engine'[r].pc \in {"next", "runs"}
    /\ \A k \in Run : k # r => engine'[k] = engine[k]
    /\ ServerShape'
    /\ UNCHANGED <<locked, registered, link, ask, page, ghosts>>

LEMMA Moved ==
    ASSUME RowShape, NEW r \in Run, NEW n \in Node, NEW s \in Status, Rows!Moves(r, n, s)
    PROVE  /\ nodeRun' \in [Run -> [Node -> Status]]
           /\ nodeRun'[r][n] = s /\ \A m \in Node : m # n => nodeRun'[r][m] = nodeRun[r][m]
           /\ \A k \in Run : k # r => nodeRun'[k] = nodeRun[k]
BY DEF RowShape, Rows!Moves

LEMMA Went ==
    ASSUME ServerShape, NEW r \in Run, NEW pc \in Pcs, NEW left \in Seq(Node), Goes(r, pc, left)
    PROVE  /\ engine' \in [Run -> [pc : Pcs, left : Seq(Node)]]
           /\ engine'[r].pc = pc /\ engine'[r].left = left
           /\ \A k \in Run : k # r => engine'[k] = engine[k]
<1> DEFINE e == [pc |-> pc, left |-> left]
<1>1. e \in [pc : Pcs, left : Seq(Node)] /\ e.pc = pc /\ e.left = left
  OBVIOUS
<1>2. engine' = [engine EXCEPT ![r] = e] /\ engine \in [Run -> [pc : Pcs, left : Seq(Node)]]
  BY DEF Goes, ServerShape
<1> HIDE DEF e
<1> QED
  BY <1>1, <1>2

LEMMA NodeStep ==
    ASSUME Shape, NEW r \in Run, Begin(r) \/ Skip(r) \/ End(r)
    PROVE  \E n \in Node, s \in {"running", "completed", "failed", "skipped"} : Writes(r, n, s)
<1>0. RowShape /\ ServerShape /\ engine[r].left \in Seq(Node)
  BY DEF Shape, ServerShape
<1>1. engine[r].left # <<>>
  BY <1>0 DEF Begin, Skip, End, At, ServerShape
<1>2. PICK n \in Node : n = Head(engine[r].left)
  BY <1>0, <1>1
<1>3. Tail(engine[r].left) \in Seq(Node)
  BY <1>0, <1>1
<1>4. ASSUME NEW pc \in {"next", "runs"}, NEW left \in Seq(Node), Goes(r, pc, left), left # <<>> \/ pc = "next",
             UNCHANGED <<locked, ask>>
      PROVE  /\ ServerShape' /\ engine'[r].pc \in {"next", "runs"}
             /\ \A k \in Run : k # r => engine'[k] = engine[k]
  <2>1. /\ engine' \in [Run -> [pc : Pcs, left : Seq(Node)]]
        /\ engine'[r].pc = pc /\ engine'[r].left = left
        /\ \A k \in Run : k # r => engine'[k] = engine[k]
    BY <1>0, <1>4, Went DEF Pcs
  <2> QED
    BY <1>0, <1>4, <2>1 DEF ServerShape
<1>5. ASSUME NEW s \in {"running", "completed", "failed", "skipped"}, Rows!Moves(r, n, s), run' = run,
             run[r].status = "running", engine[r].pc \in {"next", "runs"}, Tells(r, <<s, n>>),
             NEW pc \in {"next", "runs"}, NEW left \in Seq(Node), Goes(r, pc, left), left # <<>> \/ pc = "next"
      PROVE  Writes(r, n, s)
  <2>1. s \in Status /\ UNCHANGED <<locked, registered, link, ask, page, ghosts>> /\ Send(r, <<s, n>>)
    BY <1>5 DEF Status, Tells
  <2> QED
    BY <1>0, <1>4, <1>5, <2>1, Moved DEF Writes
<1>6. CASE Begin(r)
  <2>1. /\ Rows!Moves(r, n, "running") /\ run' = run /\ run[r].status = "running" /\ engine[r].pc = "next"
        /\ Tells(r, <<"running", n>>) /\ Goes(r, "runs", engine[r].left)
    BY <1>2, <1>6 DEF Begin, At, Rows!BeginNode, Rows!IsOpen
  <2> QED
    BY <1>0, <1>1, <1>5, <2>1
<1>7. CASE Skip(r)
  <2>1. /\ Rows!Moves(r, n, "skipped") /\ run' = run /\ run[r].status = "running" /\ engine[r].pc = "next"
        /\ Tells(r, <<"skipped", n>>) /\ Goes(r, "next", Tail(engine[r].left))
    BY <1>2, <1>7 DEF Skip, At, Rows!SkipNode, Rows!IsOpen
  <2> QED
    BY <1>3, <1>5, <2>1
<1>8. CASE End(r)
  <2>1. PICK s \in {"completed", "failed"} :
           /\ Rows!Moves(r, n, s) /\ run' = run /\ run[r].status = "running" /\ engine[r].pc = "runs"
           /\ Tells(r, <<s, n>>) /\ Goes(r, "next", Tail(engine[r].left))
    BY <1>2, <1>8 DEF End, At, Rows!EndNode, Rows!IsOpen
  <2> QED
    BY <1>3, <1>5, <2>1
<1> QED
  BY <1>6, <1>7, <1>8

LEMMA InitShape == Init => Shape /\ Staged /\ Linked
<1> SUFFICES ASSUME Init PROVE Shape /\ Staged /\ Linked
  OBVIOUS
<1> USE ProgressAssumption
<1>1. RowShape
  BY DEF Init, RowShape, Rows!Init, Rows!NoRow, Rows!NoRows, RunStatus, AnyWf, Status
<1>2. ServerShape
  BY DEF Init, ServerShape, Pcs, AnyWf
<1>3. SocketShape
  BY DEF Init, SocketShape, Links
<1>4. PageShape
  <2>1. 0 \in 0..MaxOpens /\ "none" \in Status /\ "none" \in RunStatus
    BY DEF Status, RunStatus
  <2>2. Blank \in [Node -> Status]
    BY <2>1 DEF Blank
  <2>3. detail \in [run : {0} \cup Run, status : RunStatus, nodes : [Node -> Status]]
    BY <2>1 DEF Init, NoDetail
  <2>4. fetches = {} /\ exact \in [Run -> BOOLEAN]
    BY DEF Init
  <2> QED
    BY <2>1, <2>2, <2>3, <2>4 DEF Init, PageShape, AnyWf
<1>5. Staged /\ Linked
  BY Basic DEF Init, Staged, Linked, Rows!Init
<1> QED
  BY <1>1, <1>2, <1>3, <1>4, <1>5 DEF Shape

\* The rows and the engine of the other runs stay as they are.
Apart(r) == \A k \in Run : k # r => run'[k] = run[k] /\ nodeRun'[k] = nodeRun[k] /\ engine'[k] = engine[k]

\* The other steps of the engine: what each does, point by point.
LEMMA EngineStep ==
    ASSUME Shape, Staged, NEW r \in Run
    PROVE  /\ Check(r) => /\ Shape' /\ Apart(r) /\ UNCHANGED <<rows, locked, net, ask, page, ghosts>>
                          /\ ask[r].pc = "asked" /\ engine[r].pc = "none" /\ engine'[r].pc = "checked"
           /\ Start(r) => /\ Shape' /\ Apart(r) /\ UNCHANGED <<nodeRun, net, ask, page, ghosts>>
                          /\ engine[r].pc = "checked" /\ engine'[r].pc = "waits"
                          /\ run'[r].status = "running"
           /\ Plan(r) => /\ Shape' /\ Apart(r) /\ UNCHANGED <<run, locked, net, ask, page, foreign, deaf, strayed>>
                         /\ engine[r].pc = "waits" /\ engine'[r].pc = "next"
                         /\ nodeRun[r] = Rows!NoRows /\ run[r].status = "running"
                         /\ \A n \in Node : nodeRun'[r][n] \in {"none", "pending"}
                         /\ exact'[r] => exact[r] /\ r \in registered
                         /\ \A k \in Run : k # r => exact'[k] = exact[k]
           /\ Close(r) => /\ Shape' /\ Apart(r) /\ UNCHANGED <<nodeRun, locked, net, ask, page, ghosts>>
                          /\ engine[r].pc = "next" /\ engine'[r].pc = "closed"
                          /\ run[r].status = "running" /\ run'[r].status \in {"completed", "failed"}
           /\ SendEnd(r) => /\ Shape' /\ Apart(r) /\ UNCHANGED <<rows, locked, registered, link, ask, page, exact, foreign, strayed>>
                            /\ engine[r].pc = "closed" /\ engine'[r].pc = "over"
                            /\ Send(r, <<"end", 0>>)
           /\ Release(r) => /\ Shape' /\ Apart(r) /\ UNCHANGED <<rows, net, ask, page, ghosts>>
                            /\ engine[r].pc = "over" /\ engine'[r].pc = "gone"
           /\ Die(r) => /\ Shape' /\ Apart(r) /\ UNCHANGED <<rows, net, ask, page, exact, foreign, strayed>>
                        /\ engine[r].pc \in {"waits", "next", "runs"} /\ engine'[r].pc = "gone"
<1>0. /\ RowShape /\ ServerShape /\ SocketShape /\ PageShape
      /\ ask[r].wf \in AnyWf /\ ask[r].plan \in Seq(Node) /\ engine[r].left \in Seq(Node) /\ <<>> \in Seq(Node)
      /\ engine \in [Run -> [pc : Pcs, left : Seq(Node)]]
  BY DEF Shape, ServerShape
<1>1. ASSUME UNCHANGED page, exact' \in [Run -> BOOLEAN], deaf' \in BOOLEAN, strayed' = strayed,
             foreign' = foreign
      PROVE  PageShape'
  BY <1>0, <1>1 DEF PageShape, page
<1>2. ASSUME UNCHANGED <<net, current>>
      PROVE  SocketShape'
  BY <1>0, <1>2 DEF SocketShape, net
<1>3. ASSUME NEW pc \in Pcs, pc # "runs", NEW left \in Seq(Node), Goes(r, pc, left),
             locked' \subseteq Workflow, ask' = ask
      PROVE  ServerShape' /\ engine'[r].pc = pc /\ \A k \in Run : k # r => engine'[k] = engine[k]
  <2>1. /\ engine' \in [Run -> [pc : Pcs, left : Seq(Node)]]
        /\ engine'[r].pc = pc /\ engine'[r].left = left
        /\ \A k \in Run : k # r => engine'[k] = engine[k]
    BY <1>0, <1>3, Went
  <2> QED
    BY <1>0, <1>3, <2>1 DEF ServerShape
<1>4. ghosts' = ghosts => /\ exact' \in [Run -> BOOLEAN] /\ deaf' \in BOOLEAN
                          /\ strayed' = strayed /\ foreign' = foreign
  BY <1>0 DEF PageShape, ghosts
<1>5. rows' = rows => RowShape' /\ run' = run /\ nodeRun' = nodeRun
  BY <1>0 DEF RowShape, rows
<1>6. locked \subseteq Workflow /\ page' = page => current' = current
  BY DEF page
<1>7. {"checked", "waits", "next", "closed", "over", "gone"} \subseteq Pcs /\ locked \subseteq Workflow
  BY <1>0 DEF Pcs, ServerShape
<1>8. ASSUME Check(r)
      PROVE  /\ Shape' /\ Apart(r) /\ UNCHANGED <<rows, locked, net, ask, page, ghosts>>
             /\ ask[r].pc = "asked" /\ engine[r].pc = "none" /\ engine'[r].pc = "checked"
  <2>1. /\ UNCHANGED <<rows, locked, net, ask, page, ghosts>> /\ Goes(r, "checked", ask[r].plan)
        /\ ask[r].pc = "asked" /\ engine[r].pc = "none"
    BY <1>8 DEF Check, Goes
  <2>2. /\ ServerShape' /\ engine'[r].pc = "checked" /\ \A k \in Run : k # r => engine'[k] = engine[k]
    BY <1>0, <1>3, <1>7, <2>1
  <2> QED
    BY <1>1, <1>2, <1>4, <1>5, <1>6, <1>7, <2>1, <2>2 DEF Shape, Apart
<1>9. ASSUME Start(r)
      PROVE  /\ Shape' /\ Apart(r) /\ UNCHANGED <<nodeRun, net, ask, page, ghosts>>
             /\ engine[r].pc = "checked" /\ engine'[r].pc = "waits" /\ run'[r].status = "running"
  <2> DEFINE row == [status |-> "running", wf |-> ask[r].wf]
  <2>1. /\ UNCHANGED <<nodeRun, net, ask, page, ghosts>> /\ engine[r].pc = "checked"
        /\ run' = [run EXCEPT ![r] = row] /\ locked' = locked \cup {ask[r].wf}
        /\ engine' = [engine EXCEPT ![r].pc = "waits"]
    BY <1>9 DEF Start, Rows!Open
  <2>2. ask[r].wf \in Workflow
    BY <2>1 DEF Staged
  <2>3. row \in [status : RunStatus, wf : AnyWf] /\ row.status = "running"
    BY <1>0 DEF RunStatus
  <2> HIDE DEF row
  <2>4. RowShape' /\ run'[r].status = "running" /\ \A k \in Run : k # r => run'[k] = run[k]
    BY <1>0, <2>1, <2>3 DEF RowShape
  <2>5. Goes(r, "waits", engine[r].left)
    <3>1. PICK pc, left : engine[r] = [pc |-> pc, left |-> left]
      BY <1>0
    <3>2. [engine[r] EXCEPT !.pc = "waits"] = [pc |-> "waits", left |-> engine[r].left]
      BY <3>1
    <3>3. engine' = [engine EXCEPT ![r] = [engine[r] EXCEPT !.pc = "waits"]]
      BY <2>1
    <3> QED
      BY <3>2, <3>3 DEF Goes
  <2>6. /\ ServerShape' /\ engine'[r].pc = "waits" /\ \A k \in Run : k # r => engine'[k] = engine[k]
    BY <1>0, <1>3, <1>7, <2>1, <2>2, <2>5
  <2> QED
    BY <1>1, <1>2, <1>4, <1>6, <1>7, <2>1, <2>4, <2>6 DEF Shape, Apart
<1>10. ASSUME Plan(r)
       PROVE  /\ Shape' /\ Apart(r) /\ UNCHANGED <<run, locked, net, ask, page, foreign, deaf, strayed>>
              /\ engine[r].pc = "waits" /\ engine'[r].pc = "next"
              /\ nodeRun[r] = Rows!NoRows /\ run[r].status = "running"
              /\ \A n \in Node : nodeRun'[r][n] \in {"none", "pending"}
              /\ exact'[r] => exact[r] /\ r \in registered
              /\ \A k \in Run : k # r => exact'[k] = exact[k]
  <2>1. /\ UNCHANGED <<run, locked, net, ask, page, foreign, deaf, strayed>> /\ engine[r].pc = "waits"
        /\ nodeRun[r] = Rows!NoRows /\ run[r].status = "running"
        /\ Goes(r, "next", engine[r].left)
    BY <1>10 DEF Plan, Rows!Plan, Rows!IsOpen, At
  <2>2. PICK S : nodeRun' = [nodeRun EXCEPT ![r] = [n \in Node |-> IF n \in S THEN "pending" ELSE "none"]]
    BY <1>10 DEF Plan, Rows!Plan
  <2>3. /\ RowShape' /\ \A n \in Node : nodeRun'[r][n] \in {"none", "pending"}
        /\ \A k \in Run : k # r => nodeRun'[k] = nodeRun[k]
    BY <1>0, <2>1, <2>2 DEF RowShape, Status
  <2>4. /\ exact' \in [Run -> BOOLEAN] /\ (exact'[r] => exact[r] /\ r \in registered)
        /\ \A k \in Run : k # r => exact'[k] = exact[k]
    <3>1. exact' = [exact EXCEPT ![r] = exact[r] /\ r \in registered] /\ exact \in [Run -> BOOLEAN]
      BY <1>0, <1>10 DEF Plan, PageShape
    <3> QED
      BY <3>1
  <2>5. deaf \in BOOLEAN
    BY <1>0 DEF PageShape
  <2>6. /\ ServerShape' /\ engine'[r].pc = "next" /\ \A k \in Run : k # r => engine'[k] = engine[k]
    BY <1>0, <1>3, <1>7, <2>1
  <2>7. PageShape' /\ SocketShape'
    BY <1>1, <1>2, <1>6, <1>7, <2>1, <2>4, <2>5
  <2> QED
    BY <2>1, <2>3, <2>4, <2>6, <2>7 DEF Shape, Apart
<1>11. ASSUME Close(r)
       PROVE  /\ Shape' /\ Apart(r) /\ UNCHANGED <<nodeRun, locked, net, ask, page, ghosts>>
              /\ engine[r].pc = "next" /\ engine'[r].pc = "closed"
              /\ run[r].status = "running" /\ run'[r].status \in {"completed", "failed"}
  <2>1. PICK s \in {"completed", "failed"} :
           /\ UNCHANGED <<nodeRun, locked, net, ask, page, ghosts>> /\ engine[r].pc = "next"
           /\ run[r].status = "running" /\ run' = [run EXCEPT ![r].status = s]
           /\ Goes(r, "closed", <<>>)
    BY <1>11 DEF Close, Rows!Close, Rows!IsOpen, At
  <2>2. RowShape' /\ run'[r].status = s /\ \A k \in Run : k # r => run'[k] = run[k]
    BY <1>0, <2>1 DEF RowShape, RunStatus
  <2>3. /\ ServerShape' /\ engine'[r].pc = "closed" /\ \A k \in Run : k # r => engine'[k] = engine[k]
    BY <1>0, <1>3, <1>7, <2>1
  <2> QED
    BY <1>1, <1>2, <1>4, <1>6, <1>7, <2>1, <2>2, <2>3 DEF Shape, Apart
<1>12. ASSUME SendEnd(r)
       PROVE  /\ Shape' /\ Apart(r) /\ UNCHANGED <<rows, locked, registered, link, ask, page, exact, foreign, strayed>>
              /\ engine[r].pc = "closed" /\ engine'[r].pc = "over" /\ Send(r, <<"end", 0>>)
  <2>1. /\ UNCHANGED <<rows, locked, registered, link, ask, page, exact, foreign, strayed>> /\ engine[r].pc = "closed"
        /\ Send(r, <<"end", 0>>) /\ Goes(r, "over", <<>>)
    BY <1>12 DEF SendEnd, At
  <2>2. deaf' \in BOOLEAN /\ exact \in [Run -> BOOLEAN]
    BY <1>0, <1>12 DEF SendEnd, PageShape
  <2>3. SocketShape'
    BY <1>0, <2>1, Basic, Sent DEF SocketShape, page
  <2>4. /\ ServerShape' /\ engine'[r].pc = "over" /\ \A k \in Run : k # r => engine'[k] = engine[k]
    BY <1>0, <1>3, <1>7, <2>1
  <2> QED
    BY <1>1, <1>5, <2>1, <2>2, <2>3, <2>4 DEF Shape, Apart
<1>13. ASSUME Release(r)
       PROVE  /\ Shape' /\ Apart(r) /\ UNCHANGED <<rows, net, ask, page, ghosts>>
              /\ engine[r].pc = "over" /\ engine'[r].pc = "gone"
  <2>1. /\ UNCHANGED <<rows, net, ask, page, ghosts>> /\ engine[r].pc = "over"
        /\ locked' = locked \ {ask[r].wf} /\ Goes(r, "gone", <<>>)
    BY <1>13 DEF Release, At
  <2>2. /\ ServerShape' /\ engine'[r].pc = "gone" /\ \A k \in Run : k # r => engine'[k] = engine[k]
    BY <1>0, <1>3, <1>7, <2>1
  <2> QED
    BY <1>1, <1>2, <1>4, <1>5, <1>6, <1>7, <2>1, <2>2 DEF Shape, Apart
<1>14. ASSUME Die(r)
       PROVE  /\ Shape' /\ Apart(r) /\ UNCHANGED <<rows, net, ask, page, exact, foreign, strayed>>
              /\ engine[r].pc \in {"waits", "next", "runs"} /\ engine'[r].pc = "gone"
  <2>1. /\ UNCHANGED <<rows, net, ask, page, exact, foreign, strayed>> /\ engine[r].pc \in {"waits", "next", "runs"}
        /\ locked' = locked \ {ask[r].wf} /\ Goes(r, "gone", <<>>) /\ deaf' = TRUE
    BY <1>14 DEF Die
  <2>2. /\ ServerShape' /\ engine'[r].pc = "gone" /\ \A k \in Run : k # r => engine'[k] = engine[k]
    BY <1>0, <1>3, <1>7, <2>1
  <2>3. exact \in [Run -> BOOLEAN]
    BY <1>0 DEF PageShape
  <2> QED
    BY <1>1, <1>2, <1>5, <1>6, <1>7, <2>1, <2>2, <2>3 DEF Shape, Apart
<1> QED
  BY <1>8, <1>9, <1>10, <1>11, <1>12, <1>13, <1>14

LEMMA NodeStepShape ==
    ASSUME Shape, NEW r \in Run, NEW n \in Node, NEW s \in {"running", "completed", "failed", "skipped"},
           Writes(r, n, s)
    PROVE  Shape'
<1>1. SocketShape' /\ wire' \in [Run -> Seq(Events)]
  BY Basic, Sent DEF Shape, Writes, SocketShape, page
<1> QED
  BY <1>1 DEF Shape, Writes, RowShape, PageShape, page, ghosts


----------------------------------------------------------------------------
(* The steps of the page. *)

LEMMA Executed ==
    ASSUME Shape, Staged, NEW r \in Run, Execute(r)
    PROVE  /\ Shape' /\ shown # NoWorkflow /\ ask[r].pc = "none" /\ ask'[r].pc = "asked"
           /\ ask'[r].wf \in Workflow /\ \A k \in Run : k # r => ask'[k] = ask[k]
           /\ \A n \in Node : picture'[n] \in {"none", "pending"}
           /\ \A k \in Run : exact'[k] => k = r /\ \A j \in Run : j # r => ~Live(j)
           /\ UNCHANGED <<server, net, shown, opens, frames, current, detail, fetches, strayed>>
<1>0. RowShape /\ ServerShape /\ SocketShape /\ PageShape
  BY DEF Shape
<1>1. /\ shown \in Workflow /\ ask[r].pc = "none" /\ executing' = TRUE /\ deaf' = FALSE /\ foreign' = {}
      /\ exact' = [k \in Run |-> k = r /\ \A j \in Run \ {r} : ~Live(j)]
      /\ UNCHANGED <<server, net, shown, opens, frames, current, detail, fetches, strayed>>
  BY <1>0 DEF Execute, IsNext, PageShape, AnyWf
<1>2. PICK plan \in {Nodes[shown]} \cup {<<Nodes[shown][i]>> : i \in DOMAIN Nodes[shown]} :
         /\ ask' = [ask EXCEPT ![r] = [pc |-> "asked", wf |-> shown, plan |-> plan]]
         /\ picture' = [n \in Node |-> IF plan = Nodes[shown] /\ n \in ToSet(plan)
                                       THEN "pending" ELSE "none"]
  BY DEF Execute
<1>3. plan \in Seq(Node)
  <2>1. Nodes[shown] \in Seq(Node)
    BY <1>1, Basic
  <2>2. ASSUME NEW i \in DOMAIN Nodes[shown]
        PROVE  <<Nodes[shown][i]>> \in Seq(Node)
    <3>1. PICK n \in Node : n = Nodes[shown][i]
      BY <2>1
    <3> QED
      BY <3>1
  <2> QED
    BY <1>2, <2>1, <2>2
<1> DEFINE a == [pc |-> "asked", wf |-> shown, plan |-> plan]
<1>4. /\ a \in [pc : {"none", "asked", "answered", "refused"}, wf : AnyWf, plan : Seq(Node)]
      /\ a.pc = "asked" /\ a.wf = shown
  BY <1>1, <1>3 DEF AnyWf
<1>5. ask' = [ask EXCEPT ![r] = a]
  BY <1>2
<1> HIDE DEF a
<1>6. /\ ask' \in [Run -> [pc : {"none", "asked", "answered", "refused"}, wf : AnyWf, plan : Seq(Node)]]
      /\ ask'[r].pc = "asked" /\ ask'[r].wf \in Workflow /\ \A k \in Run : k # r => ask'[k] = ask[k]
  BY <1>0, <1>1, <1>4, <1>5 DEF ServerShape
<1>7. picture' \in [Node -> Status] /\ \A n \in Node : picture'[n] \in {"none", "pending"}
  BY <1>2 DEF Status
<1>8. exact' \in [Run -> BOOLEAN]
  BY <1>1
<1>9. RowShape' /\ ServerShape' /\ SocketShape'
  BY <1>0, <1>1, <1>6 DEF RowShape, ServerShape, SocketShape, server, rows, net
<1>10. PageShape'
  BY <1>0, <1>1, <1>7, <1>8 DEF PageShape
<1>11. \A k \in Run : exact'[k] => k = r /\ \A j \in Run : j # r => ~Live(j)
  BY <1>1
<1> QED
  BY <1>1, <1>6, <1>7, <1>9, <1>10, <1>11, Basic DEF Shape

LEMMA Answered ==
    ASSUME Shape, NEW r \in Run, Answer(r) \/ Refuse(r)
    PROVE  /\ Shape' /\ ask[r].pc = "asked" /\ ask'[r].wf = ask[r].wf
           /\ \A k \in Run : k # r => ask'[k] = ask[k]
           /\ ask'[r].pc = IF Answer(r) THEN "answered" ELSE "refused"
<1>0. /\ RowShape /\ ServerShape /\ SocketShape /\ PageShape /\ <<>> \in Seq(Node)
      /\ ask \in [Run -> [pc : {"none", "asked", "answered", "refused"}, wf : AnyWf, plan : Seq(Node)]]
  BY DEF Shape, ServerShape
<1>1. ASSUME NEW pc \in {"answered", "refused"}, ask' = [ask EXCEPT ![r].pc = pc, ![r].plan = <<>>]
      PROVE  /\ ask' \in [Run -> [pc : {"none", "asked", "answered", "refused"}, wf : AnyWf, plan : Seq(Node)]]
             /\ ask'[r].wf = ask[r].wf /\ ask'[r].pc = pc /\ \A k \in Run : k # r => ask'[k] = ask[k]
  BY <1>0, <1>1
<1>2. CASE Answer(r)
  <2>1. /\ ask[r].pc = "asked" /\ ask' = [ask EXCEPT ![r].pc = "answered", ![r].plan = <<>>]
        /\ UNCHANGED <<server, shown, opens, frames, executing, picture, detail, fetches, foreign, deaf, strayed>>
        /\ current' = r /\ registered' = registered \ {current}
    BY <1>2 DEF Answer
  <2>2. wire' \in [Run -> Seq(Events)]
    BY <1>0, <1>2 DEF Answer, SocketShape
  <2>3. link' \in [Run -> Links]
    BY <1>0, <1>2 DEF Answer, SocketShape, Links
  <2>4. exact' \in [Run -> BOOLEAN]
    <3>1. exact' = [k \in Run |-> exact[k] /\ k # current] /\ exact \in [Run -> BOOLEAN]
      BY <1>0, <1>2 DEF Answer, PageShape
    <3> QED
      BY <3>1
  <2>5. RowShape' /\ ServerShape' /\ ask'[r].wf = ask[r].wf /\ ask'[r].pc = "answered"
        /\ \A k \in Run : k # r => ask'[k] = ask[k]
    BY <1>0, <1>1, <2>1 DEF RowShape, ServerShape, server, rows
  <2>6. SocketShape'
    BY <1>0, <2>1, <2>2, <2>3 DEF SocketShape
  <2>7. PageShape'
    BY <1>0, <2>1, <2>4 DEF PageShape
  <2> QED
    BY <1>2, <2>1, <2>5, <2>6, <2>7 DEF Shape
<1>3. CASE Refuse(r)
  <2>1. /\ ask[r].pc = "asked" /\ ask' = [ask EXCEPT ![r].pc = "refused", ![r].plan = <<>>]
        /\ UNCHANGED <<rows, locked, net, page, foreign, strayed>> /\ Goes(r, "gone", <<>>)
        /\ deaf' = TRUE /\ exact' = [exact EXCEPT ![r] = FALSE]
        /\ engine[r].pc \in {"none", "checked"}
    BY <1>3 DEF Refuse, Goes
  <2>2. exact' \in [Run -> BOOLEAN]
    BY <1>0, <2>1 DEF PageShape
  <2>3. /\ engine' \in [Run -> [pc : Pcs, left : Seq(Node)]]
        /\ engine'[r].pc = "gone" /\ \A k \in Run : k # r => engine'[k] = engine[k]
    BY <1>0, <2>1, Went DEF Pcs
  <2>4. ServerShape' /\ ask'[r].wf = ask[r].wf /\ ask'[r].pc = "refused"
        /\ \A k \in Run : k # r => ask'[k] = ask[k]
    <3>1. /\ ask' \in [Run -> [pc : {"none", "asked", "answered", "refused"}, wf : AnyWf, plan : Seq(Node)]]
          /\ ask'[r].wf = ask[r].wf /\ ask'[r].pc = "refused" /\ \A k \in Run : k # r => ask'[k] = ask[k]
      BY <1>1, <2>1
    <3>2. \A k \in Run : engine'[k].pc = "runs" => engine'[k].left # <<>>
      BY <1>0, <2>3 DEF ServerShape
    <3>3. locked' \subseteq Workflow
      BY <1>0, <2>1 DEF ServerShape
    <3> QED
      BY <2>3, <3>1, <3>2, <3>3 DEF ServerShape
  <2>5. RowShape' /\ SocketShape'
    BY <1>0, <2>1 DEF RowShape, SocketShape, rows, net, page
  <2>6. PageShape'
    BY <1>0, <2>1, <2>2 DEF PageShape, page
  <2>7. ~Answer(r)
    BY <2>1 DEF Answer
  <2> QED
    BY <2>1, <2>4, <2>5, <2>6, <2>7 DEF Shape
<1> QED
  BY <1>2, <1>3

LEMMA SocketSteps ==
    ASSUME Shape, NEW r \in Run, Register(r) \/ Disconnect(r)
    PROVE  /\ Shape' /\ UNCHANGED <<server, ask, shown, opens, frames, picture, detail, fetches, foreign, strayed>>
           /\ \A k \in Run : k # r => link'[k] = link[k] /\ wire'[k] = wire[k] /\ exact'[k] = exact[k]
           /\ Register(r) => /\ link[r] = "connecting" /\ link'[r] = "open" /\ registered' = registered \cup {r}
                             /\ wire' = wire /\ current' = current
                             /\ exact'[r] => exact[r] /\ engine[r].pc = "waits"
           /\ Disconnect(r) => /\ link'[r] = "closed" /\ registered' = registered \ {r}
                               /\ wire'[r] = <<>> /\ current' = 0 /\ ~exact'[r]
                               /\ link[r] \in {"connecting", "open"}
<1>0. /\ RowShape /\ ServerShape /\ SocketShape /\ PageShape
      /\ exact \in [Run -> BOOLEAN] /\ link \in [Run -> Links] /\ wire \in [Run -> Seq(Events)]
  BY DEF Shape, SocketShape, PageShape
<1>1. UNCHANGED <<server, ask, shown, opens, frames, picture, detail, fetches, foreign, strayed>>
  BY DEF Register, Disconnect, page
<1>2. RowShape' /\ ServerShape'
  BY <1>0, <1>1 DEF RowShape, ServerShape, server, rows
<1>3. ASSUME Register(r)
      PROVE  /\ link[r] = "connecting" /\ link' = [link EXCEPT ![r] = "open"]
             /\ registered' = registered \cup {r} /\ wire' = wire /\ current' = current
             /\ executing' = executing /\ deaf' \in BOOLEAN
             /\ exact' \in [Run -> BOOLEAN] /\ (exact'[r] => exact[r] /\ engine[r].pc = "waits")
             /\ \A k \in Run : k # r => exact'[k] = exact[k]
  <2>1. exact' = [exact EXCEPT ![r] = exact[r] /\ engine[r].pc = "waits"]
    BY <1>0, <1>3 DEF Register
  <2>2. deaf' \in BOOLEAN
    BY <1>0, <1>3 DEF Register, PageShape
  <2>3. exact' \in [Run -> BOOLEAN] /\ (exact'[r] => exact[r] /\ engine[r].pc = "waits")
        /\ \A k \in Run : k # r => exact'[k] = exact[k]
    BY <1>0, <2>1
  <2> QED
    BY <1>3, <2>2, <2>3 DEF Register, page
<1>4. ASSUME Disconnect(r)
      PROVE  /\ link' = [link EXCEPT ![r] = "closed"] /\ wire' = [wire EXCEPT ![r] = <<>>]
             /\ registered' = registered \ {r} /\ current' = 0 /\ exact' = [exact EXCEPT ![r] = FALSE]
             /\ deaf' = TRUE /\ executing' = executing /\ link[r] \in {"connecting", "open"}
  BY <1>4 DEF Disconnect
<1>5. SocketShape' /\ \A k \in Run : k # r => link'[k] = link[k] /\ wire'[k] = wire[k]
  <2>1. CASE Register(r)
    BY <1>0, <1>3, <2>1 DEF SocketShape, Links
  <2>2. CASE Disconnect(r)
    <3>1. /\ <<>> \in Seq(Events) /\ wire' = [wire EXCEPT ![r] = <<>>] /\ link' = [link EXCEPT ![r] = "closed"]
          /\ "closed" \in Links
      BY <1>4, <2>2 DEF Links
    <3>2. wire' \in [Run -> Seq(Events)] /\ \A k \in Run : k # r => wire'[k] = wire[k]
      BY <1>0, <3>1
    <3>3. link' \in [Run -> Links] /\ \A k \in Run : k # r => link'[k] = link[k]
      BY <1>0, <3>1
    <3> QED
      BY <1>0, <1>4, <2>2, <3>2, <3>3 DEF SocketShape
  <2> QED
    BY <2>1, <2>2
<1>6. PageShape' /\ \A k \in Run : k # r => exact'[k] = exact[k]
  <2>1. CASE Register(r)
    BY <1>0, <1>1, <1>3, <2>1 DEF PageShape
  <2>2. CASE Disconnect(r)
    <3>1. exact' \in [Run -> BOOLEAN] /\ \A k \in Run : k # r => exact'[k] = exact[k]
      BY <1>0, <1>4, <2>2
    <3> QED
      BY <1>0, <1>1, <1>4, <2>2, <3>1 DEF PageShape
  <2> QED
    BY <2>1, <2>2
<1>7. Register(r) => link'[r] = "open"
  BY <1>0, <1>3
<1>8. Disconnect(r) => link'[r] = "closed" /\ wire'[r] = <<>> /\ ~exact'[r]
  BY <1>0, <1>4
<1> QED
  BY <1>1, <1>2, <1>3, <1>4, <1>5, <1>6, <1>7, <1>8 DEF Shape

LEMMA Received ==
    ASSUME Shape, NEW r \in Run, Receive(r)
    PROVE  /\ Shape' /\ link[r] = "open" /\ wire[r] # <<>> /\ wire[r] \in Seq(Events)
           /\ wire'[r] = Tail(wire[r]) /\ \A k \in Run : k # r => wire'[k] = wire[k]
           /\ picture' = Shows(picture, Head(wire[r]))
           /\ foreign' = {n \in foreign : Head(wire[r])[1] = "end" \/ Head(wire[r])[2] # n}
           /\ \A f \in fetches' : \/ f \in fetches
                                  \/ /\ Head(wire[r])[1] = "end"
                                     /\ f.run = r /\ f.wf = shown /\ f.opens = opens
           /\ UNCHANGED <<server, registered, link, ask, shown, opens, frames, current, detail, exact, deaf, strayed>>
<1>0. /\ RowShape /\ ServerShape /\ SocketShape /\ PageShape
      /\ wire \in [Run -> Seq(Events)] /\ picture \in [Node -> Status]
  BY DEF Shape, SocketShape, PageShape
<1>1. /\ link[r] = "open" /\ wire[r] # <<>> /\ wire' = [wire EXCEPT ![r] = Tail(wire[r])]
      /\ picture' = Shows(picture, Head(wire[r]))
      /\ foreign' = {n \in foreign : Head(wire[r])[1] = "end" \/ Head(wire[r])[2] # n}
      /\ executing' = (executing /\ Head(wire[r])[1] # "end")
      /\ fetches' = IF Head(wire[r])[1] = "end" /\ shown # NoWorkflow
                    THEN fetches \cup {[run |-> r, wf |-> shown, opens |-> opens]} ELSE fetches
      /\ UNCHANGED <<server, registered, link, ask, shown, opens, frames, current, detail, exact, deaf, strayed>>
  BY <1>0 DEF Receive
<1>2. Tail(wire[r]) \in Seq(Events) /\ Head(wire[r]) \in Events /\ wire[r] \in Seq(Events)
  BY <1>0, <1>1
<1>3. /\ wire' \in [Run -> Seq(Events)] /\ wire'[r] = Tail(wire[r])
      /\ \A k \in Run : k # r => wire'[k] = wire[k]
  BY <1>0, <1>1, <1>2
<1>4. picture' \in [Node -> Status]
  <2>1. ASSUME NEW e \in Events, picture' = Shows(picture, e)
        PROVE  picture' \in [Node -> Status]
    <3>1. CASE e[1] = "end"
      BY <1>0, <2>1, <3>1 DEF Shows
    <3>2. CASE e[1] # "end"
      <4>1. e[1] \in Status
        BY <2>1, <3>2 DEF Events, Status
      <4> QED
        BY <1>0, <2>1, <3>2, <4>1 DEF Shows
    <3> QED
      BY <3>1, <3>2
  <2> QED
    BY <1>1, <1>2, <2>1
<1>5. /\ fetches' \subseteq [run : Run, wf : Workflow, opens : 0..MaxOpens]
      /\ \A f \in fetches' : \/ f \in fetches
                             \/ /\ Head(wire[r])[1] = "end"
                                /\ f.run = r /\ f.wf = shown /\ f.opens = opens
  BY <1>0, <1>1 DEF PageShape, AnyWf
<1>6. executing' \in BOOLEAN
  BY <1>1
<1>7. RowShape' /\ ServerShape' /\ SocketShape'
  BY <1>0, <1>1, <1>3 DEF RowShape, ServerShape, SocketShape, server, rows
<1>8. PageShape'
  BY <1>0, <1>1, <1>4, <1>5, <1>6 DEF PageShape, ghosts
<1> QED
  BY <1>1, <1>2, <1>3, <1>5, <1>7, <1>8 DEF Shape

LEMMA Fetched ==
    ASSUME Shape, NEW f \in fetches, Fetch(f)
    PROVE  /\ Shape' /\ fetches' = fetches \ {f} /\ f.run \in Run
           /\ \/ detail' = detail
              \/ /\ run[f.run].wf = f.wf /\ detail'.run = f.run
                 /\ detail'.status = run[f.run].status /\ detail'.nodes = nodeRun[f.run]
           /\ ~strayed' => ~strayed /\ f.opens = opens /\ shown # NoWorkflow
           /\ UNCHANGED <<server, net, ask, shown, opens, frames, executing, current, picture, exact, foreign, deaf>>
<1>0. /\ RowShape /\ ServerShape /\ SocketShape /\ PageShape
      /\ f \in [run : Run, wf : Workflow, opens : 0..MaxOpens]
  BY DEF Shape, PageShape
<1> DEFINE d == [run |-> f.run, status |-> run[f.run].status, nodes |-> nodeRun[f.run]]
<1>1. /\ fetches' = fetches \ {f} /\ (detail' = detail \/ (run[f.run].wf = f.wf /\ detail' = d))
      /\ strayed' = (strayed \/ f.opens # opens \/ shown = NoWorkflow)
      /\ UNCHANGED <<server, net, ask, shown, opens, frames, executing, current, picture, exact, foreign, deaf>>
  BY DEF Fetch, DetailOf
<1>2. /\ d \in [run : {0} \cup Run, status : RunStatus, nodes : [Node -> Status]]
      /\ d.run = f.run /\ d.status = run[f.run].status /\ d.nodes = nodeRun[f.run]
  BY <1>0 DEF RowShape
<1> HIDE DEF d
<1>3. strayed' \in BOOLEAN /\ (~strayed' => ~strayed /\ f.opens = opens /\ shown # NoWorkflow)
  BY <1>1
<1>4. RowShape' /\ ServerShape' /\ SocketShape'
  BY <1>0, <1>1 DEF RowShape, ServerShape, SocketShape, server, rows, net
<1>5. PageShape'
  BY <1>0, <1>1, <1>2, <1>3 DEF PageShape
<1> QED
  BY <1>0, <1>1, <1>2, <1>3, <1>4, <1>5 DEF Shape

\* The editor is opened, loaded again or closed.
Visit == CloseEditor \/ (\E w \in Workflow : OpenEditor(w)) \/ CopilotChanges

LEMMA Visited ==
    ASSUME Shape, Visit
    PROVE  /\ Shape' /\ UNCHANGED <<server, net, ask, current, fetches, exact, strayed>>
           /\ detail' = NoDetail /\ foreign' = Node
           /\ opens' = opens + 1 \/ (opens' = opens /\ shown' \in {shown, NoWorkflow})
<1>0. /\ RowShape /\ ServerShape /\ SocketShape /\ PageShape
      /\ Blank \in [Node -> Status]
      /\ NoDetail \in [run : {0} \cup Run, status : RunStatus, nodes : [Node -> Status]]
  BY DEF Shape, Blank, NoDetail, Status, RunStatus
<1>1. /\ UNCHANGED <<server, net, ask, executing, current, fetches, exact, deaf, strayed>>
      /\ picture' = Blank /\ foreign' = Node /\ detail' = NoDetail
  BY DEF Visit, CloseEditor, OpenEditor, CopilotChanges, Loads
<1>2. RowShape' /\ ServerShape' /\ SocketShape'
  BY <1>0, <1>1 DEF RowShape, ServerShape, SocketShape, server, rows, net
<1>3. /\ shown' \in AnyWf /\ opens' \in 0..MaxOpens /\ frames' \in Nat
      /\ opens' = opens + 1 \/ (opens' = opens /\ shown' \in {shown, NoWorkflow})
  <2>0. shown \in AnyWf /\ opens \in 0..MaxOpens /\ frames \in Nat /\ MaxOpens \in Nat
    BY <1>0, ProgressAssumption DEF PageShape
  <2>1. CASE CloseEditor
    BY <2>0, <2>1 DEF CloseEditor, AnyWf
  <2>2. ASSUME NEW w \in Workflow, OpenEditor(w)
        PROVE  /\ shown' \in AnyWf /\ opens' \in 0..MaxOpens /\ frames' \in Nat
               /\ opens' = opens + 1
    BY <2>0, <2>2 DEF OpenEditor, Loads, AnyWf
  <2>3. CASE CopilotChanges
    BY <2>0, <2>3 DEF CopilotChanges, Loads
  <2> QED
    BY <2>1, <2>2, <2>3 DEF Visit
<1>4. PageShape'
  BY <1>0, <1>1, <1>3 DEF PageShape
<1> QED
  BY <1>1, <1>2, <1>3, <1>4 DEF Shape

LEMMA Previewed ==
    ASSUME Shape, Preview
    PROVE  /\ Shape'
           /\ UNCHANGED <<server, net, ask, shown, opens, frames, executing, current, picture, fetches, ghosts>>
           /\ \E r \in Run : /\ run[r].wf = shown /\ run[r].status = "completed" /\ detail'.run = r
                             /\ detail'.status = "completed" /\ detail'.nodes = nodeRun[r]
<1>1. PICK r \in Run : run[r].wf = shown /\ run[r].status = "completed" /\ detail' = DetailOf(r)
  BY DEF Preview
<1>2. UNCHANGED <<server, net, ask, shown, opens, frames, executing, current, picture, fetches, ghosts>>
  BY DEF Preview
<1>3. /\ detail' \in [run : {0} \cup Run, status : RunStatus, nodes : [Node -> Status]]
      /\ detail'.run = r /\ detail'.status = "completed" /\ detail'.nodes = nodeRun[r]
  BY <1>1 DEF DetailOf, Shape, RowShape
<1>4. RowShape' /\ ServerShape' /\ SocketShape'
  BY <1>2 DEF Shape, RowShape, ServerShape, SocketShape, server, rows, net
<1>5. PageShape'
  BY <1>2, <1>3 DEF Shape, PageShape, ghosts
<1> QED
  BY <1>1, <1>2, <1>3, <1>4, <1>5 DEF Shape

LEMMA Told ==
    ASSUME Shape, CopilotTells
    PROVE  /\ Shape' /\ UNCHANGED <<server, net, ask, shown, opens, current, detail, fetches, exact, strayed>>
           /\ foreign \subseteq foreign' /\ \A n \in Node : n \in foreign' \/ picture'[n] = picture[n]
<1>0. /\ RowShape /\ ServerShape /\ SocketShape /\ PageShape
      /\ picture \in [Node -> Status] /\ foreign \subseteq Node /\ executing \in BOOLEAN /\ frames \in Nat
  BY DEF Shape, PageShape
<1>1. /\ UNCHANGED <<server, net, ask, shown, opens, current, detail, fetches, exact, deaf, strayed>>
      /\ frames' = frames + 1
  BY DEF CopilotTells
<1>2. /\ picture' \in [Node -> Status] /\ foreign' \subseteq Node /\ executing' \in BOOLEAN
      /\ foreign \subseteq foreign' /\ \A n \in Node : n \in foreign' \/ picture'[n] = picture[n]
  <2>1. ASSUME NEW n \in Node, NEW s \in {"running", "completed", "failed", "skipped"},
               picture' = [picture EXCEPT ![n] = s], foreign' = foreign \cup {n}, executing' = executing
        PROVE  /\ picture' \in [Node -> Status] /\ foreign' \subseteq Node /\ executing' \in BOOLEAN
               /\ foreign \subseteq foreign' /\ \A m \in Node : m \in foreign' \/ picture'[m] = picture[m]
    <3>1. s \in Status
      BY DEF Status
    <3> QED
      BY <1>0, <2>1, <3>1
  <2>2. CASE executing' = FALSE /\ UNCHANGED <<picture, foreign>>
    BY <1>0, <2>2
  <2> QED
    BY <2>1, <2>2 DEF CopilotTells
<1>3. RowShape' /\ ServerShape' /\ SocketShape'
  BY <1>0, <1>1 DEF RowShape, ServerShape, SocketShape, server, rows, net
<1>4. PageShape'
  BY <1>0, <1>1, <1>2 DEF PageShape
<1> QED
  BY <1>1, <1>2, <1>3, <1>4 DEF Shape


----------------------------------------------------------------------------
(* Types, stages and sockets are kept. *)

\* A run of the step, what the step does, or nothing.
LEMMA Steps ==
    ASSUME [Next]_vars
    PROVE  \/ UNCHANGED vars
           \/ Visit \/ Preview \/ CopilotTells
           \/ \E f \in fetches : Fetch(f)
           \/ \E r \in Run : \/ Execute(r)
                             \/ Answer(r) \/ Refuse(r)
                             \/ Register(r) \/ Disconnect(r)
                             \/ Receive(r)
                             \/ Begin(r) \/ Skip(r) \/ End(r)
                             \/ Check(r) \/ Start(r) \/ Plan(r) \/ Close(r) \/ SendEnd(r) \/ Release(r) \/ Die(r)
BY DEF Next, User, Copilot, Visit, Engine, Browser

LEMMA NextShape == Shape /\ Staged /\ [Next]_vars => Shape'
<1> SUFFICES ASSUME Shape, Staged, [Next]_vars PROVE Shape'
  OBVIOUS
<1>1. CASE UNCHANGED vars
  BY <1>1 DEF Shape, RowShape, ServerShape, SocketShape, PageShape, vars, server, rows, net, page, ghosts
<1>2. ASSUME NEW r \in Run, Begin(r) \/ Skip(r) \/ End(r)
      PROVE  Shape'
  BY <1>2, NodeStep, NodeStepShape
<1>3. ASSUME NEW r \in Run, \/ Check(r) \/ Start(r) \/ Plan(r) \/ Close(r)
                            \/ SendEnd(r) \/ Release(r) \/ Die(r)
      PROVE  Shape'
  BY <1>3, EngineStep
<1>4. ASSUME NEW r \in Run, Execute(r) \/ Answer(r) \/ Refuse(r) \/ Register(r) \/ Disconnect(r) \/ Receive(r)
      PROVE  Shape'
  BY <1>4, Executed, Answered, SocketSteps, Received
<1> QED
  BY <1>1, <1>2, <1>3, <1>4, Fetched, Visited, Previewed, Told, Steps

LEMMA NextStaged == Shape /\ Staged /\ [Next]_vars => Staged'
<1> SUFFICES ASSUME Shape, Staged, [Next]_vars PROVE Staged'
  OBVIOUS
<1>0. /\ engine \in [Run -> [pc : Pcs, left : Seq(Node)]]
      /\ ask \in [Run -> [pc : {"none", "asked", "answered", "refused"}, wf : AnyWf, plan : Seq(Node)]]
  BY DEF Shape, ServerShape
<1>1. ASSUME UNCHANGED <<server, ask>>
      PROVE  Staged'
  BY <1>1 DEF Staged, Ended, server, rows
<1>2. ASSUME NEW r \in Run, Begin(r) \/ Skip(r) \/ End(r)
      PROVE  Staged'
  <2>1. PICK n \in Node, s \in {"running", "completed", "failed", "skipped"} : Writes(r, n, s)
    BY <1>2, NodeStep
  <2> QED
    BY <2>1 DEF Staged, Ended, Writes
<1>3. ASSUME NEW r \in Run, \/ Check(r) \/ Start(r) \/ Plan(r) \/ Close(r)
                            \/ SendEnd(r) \/ Release(r) \/ Die(r)
      PROVE  Staged'
  <2>1. ask' = ask /\ Apart(r)
    BY <1>3, EngineStep
  <2>2. /\ engine'[r].pc = "checked" => /\ ask[r].pc = "asked" /\ engine[r].pc = "none"
                                        /\ run'[r] = run[r] /\ nodeRun'[r] = nodeRun[r]
        /\ engine'[r].pc = "waits" => engine[r].pc = "checked" /\ nodeRun'[r] = nodeRun[r]
        /\ engine'[r].pc \in {"closed", "over"} => Ended(r)'
        /\ engine'[r].pc # "none" /\ ask[r].pc # "none"
    BY <1>3, EngineStep DEF Staged, Ended, rows
  <2>3. ASSUME NEW k \in Run, k # r
        PROVE  run'[k] = run[k] /\ nodeRun'[k] = nodeRun[k] /\ engine'[k] = engine[k]
    BY <2>1, <2>3 DEF Apart
  <2> QED
    BY <2>1, <2>2, <2>3 DEF Staged, Ended
<1>4. ASSUME NEW r \in Run, Execute(r)
      PROVE  Staged'
  BY <1>4, Executed DEF Staged, Ended, server, rows
<1>5. ASSUME NEW r \in Run, Answer(r) \/ Refuse(r)
      PROVE  Staged'
  <2>1. /\ ask[r].pc = "asked" /\ ask'[r].wf = ask[r].wf /\ \A k \in Run : k # r => ask'[k] = ask[k]
        /\ ask'[r].pc = IF Answer(r) THEN "answered" ELSE "refused"
    BY <1>5, Answered
  <2>2. CASE Answer(r)
    <3>1. UNCHANGED <<run, nodeRun, engine>> /\ engine[r].pc \notin {"none", "checked"}
      BY <2>2 DEF Answer, server, rows
    <3>2. ask'[r].pc = "answered"
      BY <2>1, <2>2
    <3>3. ask[r].wf \in Workflow
      BY <2>1 DEF Staged
    <3> QED
      BY <2>1, <3>1, <3>2, <3>3 DEF Staged, Ended
  <2>3. CASE Refuse(r) /\ ~Answer(r)
    <3>1. /\ UNCHANGED rows /\ engine'[r].pc = "gone" /\ \A k \in Run : k # r => engine'[k] = engine[k]
      <4>1. engine' = [engine EXCEPT ![r] = [pc |-> "gone", left |-> <<>>]] /\ rows' = rows
        BY <2>3 DEF Refuse
      <4> QED
        BY <1>0, <4>1
    <3> QED
      BY <2>1, <2>3, <3>1 DEF Staged, Ended, rows
  <2> QED
    BY <1>5, <2>2, <2>3
<1>6. ASSUME NEW r \in Run, Register(r) \/ Disconnect(r) \/ Receive(r)
      PROVE  Staged'
  BY <1>1, <1>6, SocketSteps, Received
<1>7. ASSUME UNCHANGED vars
      PROVE  Staged'
  BY <1>1, <1>7 DEF vars
<1> QED
  BY <1>1, <1>2, <1>3, <1>4, <1>5, <1>6, <1>7, Fetched, Visited, Previewed, Told, Steps

LEMMA NextLinked == Shape /\ Staged /\ Linked /\ [Next]_vars => Linked'
<1> SUFFICES ASSUME Shape, Staged, Linked, [Next]_vars PROVE Linked'
  OBVIOUS
<1>0. /\ link \in [Run -> Links] /\ wire \in [Run -> Seq(Events)] /\ registered \subseteq Run
      /\ SocketShape
  BY DEF Shape, SocketShape
<1>1. ASSUME UNCHANGED <<net, ask, current>>
      PROVE  Linked'
  BY <1>1 DEF Linked, net
<1>2. ASSUME NEW r \in Run, NEW e \in Events, Send(r, e), UNCHANGED <<registered, link, ask, current>>
      PROVE  Linked'
  BY <1>0, <1>2, Sent DEF Linked
<1>3. ASSUME NEW r \in Run, Begin(r) \/ Skip(r) \/ End(r)
      PROVE  Linked'
  <2>1. PICK n \in Node, s \in {"running", "completed", "failed", "skipped"} : Writes(r, n, s)
    BY <1>3, NodeStep
  <2> QED
    BY <1>2, <2>1, Basic DEF Writes, page
<1>4. ASSUME NEW r \in Run, SendEnd(r)
      PROVE  Linked'
  BY <1>2, <1>4, EngineStep, Basic DEF page
<1>5. ASSUME NEW r \in Run, \/ Check(r) \/ Start(r) \/ Plan(r) \/ Close(r) \/ Release(r) \/ Die(r)
      PROVE  Linked'
  BY <1>1, <1>5, EngineStep DEF page
<1>6. ASSUME NEW r \in Run, Execute(r)
      PROVE  Linked'
  BY <1>6, Executed DEF Linked, net
<1>7. ASSUME NEW r \in Run, Answer(r)
      PROVE  Linked'
  <2>1. /\ ask[r].pc = "asked" /\ \A k \in Run : k # r => ask'[k] = ask[k]
        /\ ask'[r].pc = "answered"
    BY <1>7, Answered
  <2>2. /\ \A k \in Run : link'[k] = IF k = r THEN "connecting" ELSE IF k = current THEN "closed" ELSE link[k]
        /\ \A k \in Run : wire'[k] = IF k = current THEN <<>> ELSE wire[k]
        /\ registered' = registered \ {current} /\ current' = r
    BY <1>7 DEF Answer
  <2>3. link[r] = "none" /\ r \notin registered /\ wire[r] = <<>>
    BY <2>1 DEF Linked
  <2> QED
    BY <2>1, <2>2, <2>3 DEF Linked
<1>8. ASSUME NEW r \in Run, Refuse(r)
      PROVE  Linked'
  <2>1. /\ UNCHANGED <<net, page>> /\ ask[r].pc = "asked" /\ \A k \in Run : k # r => ask'[k] = ask[k]
    BY <1>8, Answered DEF Refuse
  <2> QED
    BY <2>1 DEF Linked, net, page
<1>9. ASSUME NEW r \in Run, Register(r)
      PROVE  Linked'
  BY <1>9, SocketSteps DEF Linked
<1>10. ASSUME NEW r \in Run, Disconnect(r)
       PROVE  Linked'
  BY <1>10, SocketSteps, Basic DEF Linked
<1>11. ASSUME NEW r \in Run, Receive(r)
       PROVE  Linked'
  BY <1>11, Received DEF Linked
<1>12. ASSUME UNCHANGED vars
       PROVE  Linked'
  BY <1>1, <1>12 DEF vars, page
<1> QED
  BY <1>1, <1>3, <1>4, <1>5, <1>6, <1>7, <1>8, <1>9, <1>10, <1>11, <1>12, Fetched, Visited, Previewed, Told, Steps

LEMMA ShapeAlways == Spec => [](Shape /\ Staged /\ Linked)
BY InitShape, NextShape, NextStaged, NextLinked, PTL DEF Spec

\* The types the run checks.
THEOREM TypeCorrect == Spec => []TypeOK
<1>1. Shape /\ Linked => TypeOK
  <2> SUFFICES ASSUME Shape, Linked PROVE TypeOK
    OBVIOUS
  <2>1. run \in [Run -> [status : Status, wf : Workflow \cup {NoWorkflow}]]
    BY DEF Shape, RowShape, RunStatus, Status, AnyWf
  <2>2. \A r \in Run : /\ engine[r].pc \in Pcs /\ link[r] \in Links
                       /\ ask[r].pc \in {"none", "asked", "answered", "refused"}
    BY DEF Shape, ServerShape, SocketShape
  <2> QED
    BY <2>1, <2>2 DEF TypeOK, Shape, RowShape, ServerShape, SocketShape, PageShape, Linked, Pcs, Links, AnyWf
<1> QED
  BY <1>1, ShapeAlways, PTL


----------------------------------------------------------------------------
(* The detail. *)

\* What was written of a run that is over stays.
LEMMA EndedStays ==
    ASSUME Shape, Staged, [Next]_vars, NEW k \in Run, Ended(k)
    PROVE  run'[k] = run[k] /\ nodeRun'[k] = nodeRun[k]
<1>0. run[k].status # "running" /\ Rows!NoRow.status = "none"
  BY DEF Ended, Rows!NoRow
<1>1. ASSUME NEW r \in Run, Begin(r) \/ Skip(r) \/ End(r)
      PROVE  run'[k] = run[k] /\ nodeRun'[k] = nodeRun[k]
  BY <1>0, <1>1, NodeStep DEF Writes
<1>2. ASSUME NEW r \in Run, \/ Check(r) \/ Start(r) \/ Plan(r) \/ Close(r)
                            \/ SendEnd(r) \/ Release(r) \/ Die(r)
      PROVE  run'[k] = run[k] /\ nodeRun'[k] = nodeRun[k]
  <2>1. Apart(r) /\ (rows' = rows \/ run[r].status = "running" \/ engine[r].pc = "checked")
    BY <1>2, EngineStep
  <2>2. engine[r].pc = "checked" => run[r].status = "none"
    BY <1>0 DEF Staged
  <2> QED
    BY <1>0, <2>1, <2>2 DEF Apart, rows, Ended
<1>3. ASSUME NEW r \in Run, Execute(r) \/ Answer(r) \/ Refuse(r) \/ Register(r) \/ Disconnect(r) \/ Receive(r)
      PROVE  run'[k] = run[k] /\ nodeRun'[k] = nodeRun[k]
  BY <1>3 DEF Execute, Answer, Refuse, Register, Disconnect, Receive, server, rows
<1>4. ASSUME UNCHANGED vars \/ Visit \/ Preview \/ CopilotTells \/ \E f \in fetches : Fetch(f)
      PROVE  run'[k] = run[k] /\ nodeRun'[k] = nodeRun[k]
  BY <1>4, Visited, Previewed, Told DEF Fetch, vars, server, rows
<1> QED
  BY <1>1, <1>2, <1>3, <1>4, Steps

Ends(q) == \E i \in DOMAIN q : q[i][1] = "end"

LEMMA TailEnds ==
    ASSUME NEW q \in Seq(Events), q # <<>>
    PROVE  /\ Ends(Tail(q)) => Ends(q)
           /\ Head(q)[1] = "end" => Ends(q)
BY DEF Ends

LEMMA AppendEnds ==
    ASSUME NEW q \in Seq(Events), NEW e \in Events
    PROVE  Ends(Append(q, e)) => Ends(q) \/ e[1] = "end"
<1>1. \A i \in DOMAIN Append(q, e) : (i \in DOMAIN q /\ Append(q, e)[i] = q[i]) \/ Append(q, e)[i] = e
  OBVIOUS
<1> QED
  BY <1>1 DEF Ends

LEMMA NextAwaited ==
    ASSUME Shape, Staged, Linked, Awaited, [Next]_vars
    PROVE  Awaited'
<1>0. /\ wire \in [Run -> Seq(Events)] /\ SocketShape /\ opens \in Nat
      /\ fetches \subseteq [run : Run, wf : Workflow, opens : 0..MaxOpens]
      /\ \A r \in Run : Ends(wire[r]) => Ended(r)
      /\ ~Ends(<<>>)
      /\ \A f \in fetches : /\ f.run \in Run /\ Ended(f.run) /\ f.opens <= opens
                            /\ f.opens = opens /\ shown # NoWorkflow => f.wf = shown
  BY DEF Shape, SocketShape, PageShape, Awaited, Ends
<1>1. \A r \in Run : Ended(r) => Ended(r)'
  BY EndedStays DEF Ended
<1>2. ASSUME \A r \in Run : Ends(wire'[r]) => Ends(wire[r]) \/ Ended(r),
             \A f \in fetches' : \/ f \in fetches
                                 \/ f.run \in Run /\ Ended(f.run) /\ f.wf = shown /\ f.opens = opens,
             UNCHANGED <<shown, opens>>
      PROVE  Awaited'
  BY <1>0, <1>1, <1>2 DEF Awaited, Ends
<1>3. ASSUME NEW r \in Run, NEW e \in Events, Send(r, e), e[1] = "end" => Ended(r),
             UNCHANGED <<shown, opens, fetches>>
      PROVE  Awaited'
  <2>1. \A k \in Run : Ends(wire'[k]) => Ends(wire[k]) \/ Ended(k)
    <3>1. /\ wire'[r] \in {wire[r], Append(wire[r], e)} /\ \A k \in Run : k # r => wire'[k] = wire[k]
      BY <1>0, <1>3, Sent
    <3>2. Ends(Append(wire[r], e)) => Ends(wire[r]) \/ e[1] = "end"
      BY <1>0, AppendEnds
    <3> QED
      BY <1>3, <3>1, <3>2
  <2> QED
    BY <1>2, <1>3, <2>1
<1>4. ASSUME NEW r \in Run, Begin(r) \/ Skip(r) \/ End(r)
      PROVE  Awaited'
  <2>1. PICK n \in Node, s \in {"running", "completed", "failed", "skipped"} : Writes(r, n, s)
    BY <1>4, NodeStep
  <2>2. <<s, n>> \in Events /\ <<s, n>>[1] # "end"
    BY Basic
  <2>3. Send(r, <<s, n>>) /\ UNCHANGED <<shown, opens, fetches>>
    BY <2>1 DEF Writes, page
  <2> QED
    BY <1>3, <2>2, <2>3
<1>5. ASSUME NEW r \in Run, SendEnd(r)
      PROVE  Awaited'
  <2>1. Send(r, <<"end", 0>>) /\ Ended(r) /\ UNCHANGED <<shown, opens, fetches>>
    BY <1>5, EngineStep DEF Staged, page
  <2> QED
    BY <1>3, <2>1, Basic
<1>6. ASSUME NEW r \in Run, \/ Check(r) \/ Start(r) \/ Plan(r) \/ Close(r) \/ Release(r) \/ Die(r)
      PROVE  Awaited'
  <2>1. UNCHANGED <<wire, shown, opens, fetches>>
    BY <1>6, EngineStep DEF page, net
  <2> QED
    BY <1>2, <2>1
<1>7. ASSUME NEW r \in Run, Execute(r) \/ Answer(r) \/ Refuse(r)
      PROVE  Awaited'
  <2>1. UNCHANGED <<shown, opens, fetches>> /\ \A k \in Run : wire'[k] \in {wire[k], <<>>}
    BY <1>0, <1>7 DEF Execute, Answer, Refuse, net, page
  <2> QED
    BY <1>0, <1>2, <2>1
<1>8. ASSUME NEW r \in Run, Register(r) \/ Disconnect(r)
      PROVE  Awaited'
  <2>1. UNCHANGED <<shown, opens, fetches>> /\ \A k \in Run : wire'[k] \in {wire[k], <<>>}
    BY <1>0, <1>8, SocketSteps
  <2> QED
    BY <1>0, <1>2, <2>1
<1>9. ASSUME NEW r \in Run, Receive(r)
      PROVE  Awaited'
  <2>1. /\ \A k \in Run : k # r => wire'[k] = wire[k]
        /\ wire'[r] = Tail(wire[r]) /\ wire[r] # <<>> /\ UNCHANGED <<shown, opens>>
        /\ \A f \in fetches' : f \in fetches \/ (Head(wire[r])[1] = "end" /\ f.run = r /\ f.wf = shown /\ f.opens = opens)
    BY <1>9, Received
  <2>2. (Ends(wire'[r]) => Ends(wire[r])) /\ (Head(wire[r])[1] = "end" => Ended(r))
    BY <1>0, <2>1, TailEnds
  <2> QED
    BY <1>2, <2>1, <2>2
<1>10. ASSUME NEW f \in fetches, Fetch(f)
       PROVE  Awaited'
  <2>1. UNCHANGED <<wire, shown, opens>> /\ fetches' \subseteq fetches
    BY <1>10, Fetched DEF net
  <2> QED
    BY <1>2, <2>1
<1>11. ASSUME Visit
       PROVE  Awaited'
  <2>1. /\ UNCHANGED <<wire, fetches>>
        /\ opens' = opens + 1 \/ (opens' = opens /\ shown' \in {shown, NoWorkflow})
    BY <1>11, Visited DEF net
  <2>2. \A f \in fetches : /\ f.opens <= opens'
                           /\ f.opens = opens' /\ shown' # NoWorkflow => f.wf = shown'
    BY <1>0, <2>1
  <2> QED
    BY <1>0, <1>1, <2>1, <2>2 DEF Awaited, Ends
<1>12. ASSUME UNCHANGED vars \/ Preview \/ CopilotTells
       PROVE  Awaited'
  <2>1. UNCHANGED <<wire, fetches, shown, opens>>
    BY <1>12, Previewed, Told DEF vars, net, page
  <2> QED
    BY <1>2, <2>1
<1> QED
  BY <1>4, <1>5, <1>6, <1>7, <1>8, <1>9, <1>10, <1>11, <1>12, Steps

LEMMA NextDetailed ==
    ASSUME Shape, Staged, Awaited, Detailed, [Next]_vars
    PROVE  Detailed'
<1>1. ASSUME UNCHANGED <<detail, strayed, shown>>
      PROVE  Detailed'
  BY <1>1, EndedStays DEF Detailed, Ended
<1>2. ASSUME NEW r \in Run, Begin(r) \/ Skip(r) \/ End(r)
      PROVE  Detailed'
  BY <1>1, <1>2, NodeStep DEF Writes, page, ghosts
<1>3. ASSUME NEW r \in Run, \/ Check(r) \/ Start(r) \/ Plan(r) \/ Close(r)
                            \/ SendEnd(r) \/ Release(r) \/ Die(r)
      PROVE  Detailed'
  BY <1>1, <1>3, EngineStep DEF page, ghosts
<1>4. ASSUME NEW r \in Run, Execute(r) \/ Answer(r) \/ Refuse(r) \/ Register(r) \/ Disconnect(r) \/ Receive(r)
      PROVE  Detailed'
  BY <1>1, <1>4 DEF Execute, Answer, Refuse, Register, Disconnect, Receive, page, ghosts
<1>5. ASSUME UNCHANGED vars \/ CopilotTells
      PROVE  Detailed'
  BY <1>1, <1>5, Told DEF vars, page, ghosts
<1>6. ASSUME NEW f \in fetches, Fetch(f)
      PROVE  Detailed'
  <2>1. /\ f.run \in Run /\ Ended(f.run) /\ UNCHANGED <<run, nodeRun, shown>>
        /\ f.opens = opens /\ shown # NoWorkflow => f.wf = shown
        /\ ~strayed' => ~strayed /\ f.opens = opens /\ shown # NoWorkflow
    BY <1>6, Fetched DEF Awaited, server, rows
  <2>2. CASE detail' = detail
    BY <2>1, <2>2 DEF Detailed, Ended
  <2>3. CASE /\ run[f.run].wf = f.wf /\ detail'.run = f.run
             /\ detail'.status = run[f.run].status /\ detail'.nodes = nodeRun[f.run]
    BY <2>1, <2>3 DEF Detailed, Ended
  <2> QED
    BY <1>6, <2>2, <2>3, Fetched
<1>7. ASSUME Visit \/ Preview
      PROVE  Detailed'
  <2>1. /\ UNCHANGED <<run, nodeRun>>
        /\ \/ detail' = NoDetail
           \/ \E r \in Run : /\ run[r].wf = shown' /\ run[r].status = "completed"
                             /\ detail'.run = r /\ detail'.status = "completed" /\ detail'.nodes = nodeRun[r]
    BY <1>7, Visited, Previewed DEF server, rows
  <2>2. NoDetail' = NoDetail
    BY DEF NoDetail
  <2> QED
    BY <2>1, <2>2 DEF Detailed, Ended
<1> QED
  BY <1>2, <1>3, <1>4, <1>5, <1>6, <1>7, Steps

\* The detail on the page is that of a run that is over, and of the editor's
\* workflow unless its answer outlived an editor.
THEOREM DetailsAreTrue == Spec => []DetailIsTrue
<1>1. Init => Awaited /\ Detailed
  BY DEF Init, Awaited, Detailed
<1>2. Detailed => DetailIsTrue
  BY DEF Detailed, DetailIsTrue, IsFinal, IsOfEditor, Ended
<1> QED
  BY <1>1, <1>2, NextAwaited, NextDetailed, ShapeAlways, PTL DEF Spec


----------------------------------------------------------------------------
(* The picture. *)

LEMMA AppendOf ==
    ASSUME NEW q \in Seq(Events), NEW e \in Events, NEW m \in Node, e[1] = "end" \/ e[2] # m
    PROVE  Of(Append(q, e), m) = Of(q, m)
<1>1. /\ DOMAIN q = 1..Len(q) /\ Len(q) \in Nat /\ DOMAIN Append(q, e) = 1..(Len(q) + 1)
      /\ Append(q, e)[Len(q) + 1] = e
      /\ \A i \in DOMAIN q : Append(q, e)[i] = q[i]
  OBVIOUS
<1>2. Len(q) + 1 \notin Of(Append(q, e), m)
  BY <1>1 DEF Of
<1>3. \A i \in DOMAIN Append(q, e) : i \in DOMAIN q \/ i = Len(q) + 1
  BY <1>1
<1>4. \A i \in DOMAIN q : i \in DOMAIN Append(q, e)
  BY <1>1
<1> QED
  BY <1>1, <1>2, <1>3, <1>4 DEF Of

LEMMA TailOf ==
    ASSUME NEW q \in Seq(Events), q # <<>>, NEW m \in Node, Of(q, m) = {}
    PROVE  /\ Of(Tail(q), m) = {}
           /\ Head(q)[1] = "end" \/ Head(q)[2] # m
<1>1. /\ Head(q) = q[1] /\ 1 \in DOMAIN q
      /\ \A i \in DOMAIN Tail(q) : i + 1 \in DOMAIN q /\ Tail(q)[i] = q[i + 1]
  OBVIOUS
<1> QED
  BY <1>1 DEF Of

LEMMA AppendSays ==
    ASSUME NEW q \in Seq(Events), NEW e \in Events, NEW m \in Node, NEW p, NEW x
    PROVE  /\ e[1] # "end" /\ e[2] = m => Says(Append(q, e), m, p, e[1])
           /\ e[1] = "end" \/ e[2] # m => (Says(q, m, p, x) => Says(Append(q, e), m, p, x))
<1>1. /\ DOMAIN q = 1..Len(q) /\ Len(q) \in Nat /\ DOMAIN Append(q, e) = 1..(Len(q) + 1)
      /\ Append(q, e)[Len(q) + 1] = e
      /\ \A i \in DOMAIN q : Append(q, e)[i] = q[i]
  OBVIOUS
<1>2. ASSUME e[1] # "end", e[2] = m
      PROVE  Says(Append(q, e), m, p, e[1])
  <2>1. Len(q) + 1 \in Of(Append(q, e), m)
    BY <1>1, <1>2 DEF Of
  <2>2. \A j \in Of(Append(q, e), m) : j <= Len(q) + 1
    BY <1>1 DEF Of
  <2> QED
    BY <1>1, <2>1, <2>2 DEF Says, Same
<1>3. ASSUME e[1] = "end" \/ e[2] # m, Says(q, m, p, x)
      PROVE  Says(Append(q, e), m, p, x)
  <2>1. Of(Append(q, e), m) = Of(q, m)
    BY <1>3, AppendOf
  <2>2. \A i \in Of(q, m) : Append(q, e)[i] = q[i]
    BY <1>1 DEF Of
  <2> QED
    BY <1>3, <2>1, <2>2 DEF Says
<1> QED
  BY <1>2, <1>3

LEMMA TailSays ==
    ASSUME NEW q \in Seq(Events), q # <<>>, NEW n \in Node, NEW pic \in [Node -> Status], NEW x,
           Says(q, n, pic[n], x)
    PROVE  Says(Tail(q), n, Shows(pic, Head(q))[n], x)
<1>1. /\ Head(q) = q[1] /\ 1 \in DOMAIN q /\ Head(q) \in Events
      /\ \A i \in DOMAIN Tail(q) : i + 1 \in DOMAIN q /\ Tail(q)[i] = q[i + 1] /\ i + 1 # 1 /\ i \in Nat
      /\ \A i \in DOMAIN q : i \in Nat /\ (i # 1 => i - 1 \in DOMAIN Tail(q) /\ Tail(q)[i - 1] = q[i])
  OBVIOUS
<1>2. \A i \in Of(Tail(q), n) : i \in Nat /\ i + 1 \in Of(q, n)
  BY <1>1 DEF Of
<1>3. \A i \in Of(q, n) : i \in Nat /\ (i # 1 => i - 1 \in Of(Tail(q), n) /\ Tail(q)[i - 1] = q[i])
  BY <1>1 DEF Of
<1>4. CASE Of(q, n) = {} /\ Same(pic[n], x)
  <2>1. Shows(pic, Head(q))[n] = pic[n]
    <3>1. Head(q)[1] = "end" \/ Head(q)[2] # n
      BY <1>1, <1>4 DEF Of
    <3> QED
      BY <3>1 DEF Shows
  <2> QED
    BY <1>2, <1>4, <2>1 DEF Says
<1>5. ASSUME NEW i \in Of(q, n), \A j \in Of(q, n) : j <= i, Same(q[i][1], x)
      PROVE  Says(Tail(q), n, Shows(pic, Head(q))[n], x)
  <2>1. CASE i # 1
    <3>1. i - 1 \in Of(Tail(q), n) /\ Tail(q)[i - 1] = q[i]
      BY <1>3, <1>5, <2>1
    <3>2. \A j \in Of(Tail(q), n) : j <= i - 1
      BY <1>2, <1>3, <1>5
    <3> QED
      BY <1>5, <3>1, <3>2 DEF Says
  <2>2. CASE i = 1
    <3>1. Of(Tail(q), n) = {}
      <4> SUFFICES ASSUME NEW k \in Of(Tail(q), n) PROVE FALSE
        OBVIOUS
      <4>1. k \in Nat /\ k + 1 <= i
        BY <1>2, <1>5
      <4>2. k # 0
        <5>1. k \in DOMAIN Tail(q)
          BY DEF Of
        <5> QED
          BY <5>1
      <4> QED
        BY <4>1, <4>2, <2>2
    <3>2. Head(q)[1] # "end" /\ Head(q)[2] = n
      BY <1>1, <2>2 DEF Of
    <3>3. Shows(pic, Head(q))[n] = Head(q)[1]
      BY <3>2 DEF Shows
    <3> QED
      BY <1>1, <1>5, <2>2, <3>1, <3>3 DEF Says
  <2> QED
    BY <2>1, <2>2
<1> QED
  BY <1>4, <1>5 DEF Says

\* A run whose events are over stays so, unless it is asked for.
LEMMA StaysSilent ==
    ASSUME Shape, Staged, Linked, [Next]_vars, NEW j \in Run, ~Live(j), ~Execute(j)
    PROVE  ~Live(j)'
<1>0. /\ SocketShape
      /\ ask[j].pc # "asked"
      /\ link[j] \in {"connecting", "open"} => engine[j].pc \in {"over", "gone"} /\ wire[j] = <<>>
  BY DEF Shape, Live
<1>1. ASSUME UNCHANGED <<engine, link, wire, ask>>
      PROVE  ~Live(j)'
  BY <1>0, <1>1 DEF Live
<1>2. ASSUME NEW r \in Run, Begin(r) \/ Skip(r) \/ End(r)
      PROVE  ~Live(j)'
  <2>1. PICK n \in Node, s \in {"running", "completed", "failed", "skipped"} : Writes(r, n, s)
    BY <1>2, NodeStep
  <2>2. UNCHANGED <<link, ask>> /\ engine[r].pc \in {"next", "runs"}
    BY <2>1 DEF Writes
  <2>3. j # r => engine'[j] = engine[j] /\ wire'[j] = wire[j]
    BY <1>0, <2>1, Basic, Sent DEF Writes
  <2> QED
    BY <1>0, <2>2, <2>3 DEF Live
<1>3. ASSUME NEW r \in Run, \/ Check(r) \/ Start(r) \/ Plan(r) \/ Close(r)
                            \/ SendEnd(r) \/ Release(r) \/ Die(r)
      PROVE  ~Live(j)'
  <2>1. UNCHANGED <<link, ask>> /\ Apart(r) /\ (SendEnd(r) \/ wire' = wire)
    BY <1>3, EngineStep DEF net
  <2>2. j # r => engine'[j] = engine[j] /\ wire'[j] = wire[j]
    <3>1. SendEnd(r) => Send(r, <<"end", 0>>)
      BY EngineStep
    <3> QED
      BY <1>0, <2>1, <3>1, Basic, Sent DEF Apart
  <2>3. \/ engine[r].pc \in {"waits", "next", "runs", "closed"}
        \/ engine[r].pc = "over" /\ engine'[r].pc = "gone" /\ wire' = wire
        \/ ask[r].pc = "asked"
    BY <1>3, EngineStep DEF Staged, net
  <2> QED
    BY <1>0, <2>1, <2>2, <2>3 DEF Live
<1>4. ASSUME NEW r \in Run, Execute(r)
      PROVE  ~Live(j)'
  <2>1. UNCHANGED <<engine, link, wire>> /\ ask'[j] = ask[j]
    BY <1>4, Executed DEF server, net
  <2> QED
    BY <1>0, <2>1 DEF Live
<1>5. ASSUME NEW r \in Run, Answer(r) \/ Refuse(r)
      PROVE  ~Live(j)'
  <2>1. j # r /\ ask'[j] = ask[j]
    BY <1>0, <1>5, Answered
  <2>2. engine'[j] = engine[j] /\ link'[j] \in {link[j], "closed"} /\ wire'[j] \in {wire[j], <<>>}
    <3>1. CASE Answer(r)
      <4>1. engine' = engine
        BY <3>1 DEF Answer, server
      <4>2. link'[j] = IF j = current THEN "closed" ELSE link[j]
        BY <2>1, <3>1 DEF Answer
      <4>3. wire'[j] = IF j = current THEN <<>> ELSE wire[j]
        BY <3>1 DEF Answer
      <4> QED
        BY <4>1, <4>2, <4>3
    <3>2. CASE Refuse(r)
      <4>1. link' = link /\ wire' = wire
        BY <3>2 DEF Refuse, net
      <4>2. engine'[j] = engine[j]
        BY <1>0, <2>1, <3>2, Basic DEF Refuse
      <4> QED
        BY <4>1, <4>2
    <3> QED
      BY <1>5, <3>1, <3>2
  <2> QED
    BY <1>0, <2>1, <2>2 DEF Live
<1>6. ASSUME NEW r \in Run, Register(r) \/ Disconnect(r)
      PROVE  ~Live(j)'
  <2>1. /\ UNCHANGED <<engine, ask>>
        /\ j # r => link'[j] = link[j] /\ wire'[j] = wire[j]
        /\ \/ link[r] = "connecting" /\ wire' = wire
           \/ link'[r] = "closed"
    BY <1>6, SocketSteps DEF server
  <2>2. CASE j # r
    BY <1>0, <2>1, <2>2 DEF Live
  <2>3. CASE j = r
    BY <1>0, <2>1, <2>3 DEF Live
  <2> QED
    BY <2>2, <2>3
<1>7. ASSUME NEW r \in Run, Receive(r)
      PROVE  ~Live(j)'
  <2>1. j # r /\ UNCHANGED <<engine, link, ask>> /\ wire'[j] = wire[j]
    BY <1>0, <1>7, Received DEF server
  <2> QED
    BY <1>0, <2>1 DEF Live
<1>8. ASSUME UNCHANGED vars \/ Visit \/ Preview \/ CopilotTells \/ \E f \in fetches : Fetch(f)
      PROVE  ~Live(j)'
  BY <1>1, <1>8, Visited, Previewed, Told, Fetched DEF vars, server, net
<1> QED
  BY <1>2, <1>3, <1>4, <1>5, <1>6, <1>7, <1>8, Steps

LEMMA NextFollowed ==
    ASSUME Shape, Staged, Linked, Followed, [Next]_vars
    PROVE  Followed'
<1>0. SocketShape /\ wire \in [Run -> Seq(Events)] /\ picture \in [Node -> Status]
      /\ nodeRun \in [Run -> [Node -> Status]]
  BY DEF Shape, SocketShape, PageShape, RowShape
<1> DEFINE Fits(k) == /\ ask'[k].pc \in {"asked", "answered"}
                      /\ engine'[k].pc \in {"none", "checked", "waits", "gone"} \/ k \in registered'
                      /\ Seen(k)'
<1>1. ASSUME NEW r \in Run, Execute(r)
      PROVE  Followed'
  <2>1. /\ ask[r].pc = "none" /\ ask'[r].pc = "asked"
        /\ \A k \in Run : k # r => ask'[k] = ask[k]
        /\ \A n \in Node : picture'[n] \in {"none", "pending"}
        /\ \A k \in Run : exact'[k] => k = r /\ \A j \in Run : j # r => ~Live(j)
        /\ UNCHANGED <<server, net>>
    BY <1>1, Executed
  <2>2. wire[r] = <<>> /\ engine[r].pc = "none" /\ nodeRun[r] = Rows!NoRows
    BY <2>1 DEF Linked, Staged
  <2>3. Seen(r)'
    <3>1. /\ wire'[r] = <<>> /\ \A n \in Node : nodeRun'[r][n] = "none"
      BY <2>1, <2>2 DEF server, rows, net, Rows!NoRows
    <3> QED
      BY <2>1, <3>1 DEF Seen, Says, Of, Same
  <2>4. engine'[r].pc = "none"
    BY <2>1, <2>2 DEF server
  <2>5. \A j \in Run : j # r /\ ~Live(j) => ~Live(j)'
    BY <2>1 DEF Live, server, net
  <2> QED
    BY <2>1, <2>3, <2>4, <2>5 DEF Followed
<1>2. ASSUME \A k \in Run : exact'[k] => exact[k],
             \A k \in Run : exact'[k] /\ exact[k] => Fits(k),
             \A k \in Run : ~Execute(k)
      PROVE  Followed'
  <2>1. ASSUME NEW k \in Run, exact'[k]
        PROVE  \A j \in Run : j # k => ~Live(j)'
    BY <1>2, <2>1, StaysSilent DEF Followed
  <2> QED
    BY <1>2, <2>1 DEF Followed
<1>3. ASSUME NEW k \in Run, exact[k], UNCHANGED <<ask, engine, registered, wire, picture, foreign, nodeRun>>
      PROVE  Fits(k)
  BY <1>3 DEF Followed, Seen, Taken
<1>4. ASSUME NEW k \in Run, exact[k], ask'[k].pc \in {ask[k].pc, "answered"},
             engine'[k] = engine[k],
             k \in registered => k \in registered', wire'[k] = wire[k], picture' = picture, foreign' = foreign, nodeRun'[k] = nodeRun[k]
      PROVE  Fits(k)
  BY <1>4 DEF Followed, Seen, Taken
<1> HIDE DEF Fits
<1>5. ASSUME NEW r \in Run, Begin(r) \/ Skip(r) \/ End(r), \A k \in Run : ~Execute(k)
      PROVE  Followed'
  <2>1. PICK n \in Node, s \in {"running", "completed", "failed", "skipped"} : Writes(r, n, s)
    BY <1>5, NodeStep
  <2>2. /\ UNCHANGED <<ask, registered, picture, foreign, exact>> /\ <<s, n>> \in Events
        /\ engine[r].pc \in {"next", "runs"}
    BY <2>1, Basic DEF Writes, page, ghosts
  <2>3. /\ wire'[r] = IF r \in registered THEN Append(wire[r], <<s, n>>) ELSE wire[r]
        /\ \A k \in Run : k # r => wire'[k] = wire[k]
    BY <1>0, <2>1, <2>2, Sent DEF Writes
  <2>4. ASSUME NEW k \in Run, exact[k], k # r
        PROVE  Fits(k)
    <3>1. engine'[k] = engine[k] /\ nodeRun'[k] = nodeRun[k] /\ wire'[k] = wire[k]
      BY <2>1, <2>3, <2>4 DEF Writes
    <3> QED
      BY <1>4, <2>2, <2>4, <3>1
  <2>5. ASSUME exact[r]
        PROVE  Fits(r)
    <3>1. r \in registered /\ ask[r].pc \in {"asked", "answered"} /\ Seen(r)
      BY <2>2, <2>5 DEF Followed
    <3>2. wire'[r] = Append(wire[r], <<s, n>>) /\ wire[r] \in Seq(Events)
      BY <1>0, <2>3, <3>1
    <3>3. Says(wire'[r], n, picture[n], s) /\ nodeRun'[r][n] = s
      <4>1. <<s, n>>[1] = s /\ <<s, n>>[2] = n /\ s # "end"
        OBVIOUS
      <4>2. nodeRun'[r][n] = s
        BY <2>1 DEF Writes
      <4> QED
        BY <2>2, <3>2, <4>1, <4>2, AppendSays
    <3>4. ASSUME NEW m \in Node, m # n
          PROVE  /\ Taken(wire'[r], m) \/ Says(wire'[r], m, picture[m], nodeRun[r][m])
                 /\ nodeRun'[r][m] = nodeRun[r][m]
      <4>1. <<s, n>>[2] # m /\ (Taken(wire[r], m) \/ Says(wire[r], m, picture[m], nodeRun[r][m]))
        BY <3>1, <3>4 DEF Seen
      <4>2. nodeRun'[r][m] = nodeRun[r][m]
        BY <2>1, <3>4 DEF Writes
      <4>3. Taken(wire[r], m) => Taken(wire'[r], m)
        BY <2>2, <3>2, <4>1, AppendOf DEF Taken
      <4> QED
        BY <2>2, <3>2, <4>1, <4>2, <4>3, AppendSays
    <3>5. Seen(r)'
      BY <2>2, <3>3, <3>4 DEF Seen, Taken
    <3> QED
      BY <2>2, <3>1, <3>5 DEF Fits
  <2> QED
    BY <1>2, <1>5, <2>2, <2>4, <2>5
<1>6. ASSUME NEW r \in Run, Check(r) \/ Start(r) \/ Close(r) \/ Release(r) \/ Die(r), \A k \in Run : ~Execute(k)
      PROVE  Followed'
  <2>1. /\ UNCHANGED <<ask, registered, wire, picture, foreign, exact, nodeRun>> /\ Apart(r)
        /\ \/ engine'[r].pc \in {"checked", "waits", "gone"}
           \/ engine[r].pc = "next"
    BY <1>6, EngineStep DEF page, net, ghosts, rows
  <2>2. ASSUME NEW k \in Run, exact[k]
        PROVE  Fits(k)
    <3>1. CASE k # r
      BY <1>4, <2>1, <2>2, <3>1 DEF Apart
    <3>2. CASE k = r
      BY <2>1, <2>2, <3>2 DEF Followed, Fits, Seen, Taken
    <3> QED
      BY <3>1, <3>2
  <2> QED
    BY <1>2, <1>6, <2>1, <2>2
<1>7. ASSUME NEW r \in Run, Plan(r), \A k \in Run : ~Execute(k)
      PROVE  Followed'
  <2>1. /\ UNCHANGED <<ask, registered, wire, picture, foreign>> /\ Apart(r)
        /\ nodeRun[r] = Rows!NoRows /\ \A n \in Node : nodeRun'[r][n] \in {"none", "pending"}
        /\ exact'[r] => exact[r] /\ r \in registered
        /\ \A k \in Run : k # r => exact'[k] = exact[k]
    BY <1>7, EngineStep DEF page, net
  <2>2. ASSUME NEW k \in Run, exact[k], k # r
        PROVE  Fits(k)
    BY <1>4, <2>1, <2>2 DEF Apart
  <2>3. ASSUME exact[r], exact'[r]
        PROVE  Fits(r)
    <3>1. \A n \in Node : nodeRun[r][n] = "none"
      BY <2>1 DEF Rows!NoRows
    <3>2. Seen(r)
      BY <2>3 DEF Followed
    <3>3. Seen(r)'
      BY <2>1, <3>1, <3>2 DEF Seen, Taken, Says, Same
    <3> QED
      BY <2>1, <2>3, <3>3 DEF Followed, Fits
  <2> QED
    BY <1>2, <1>7, <2>1, <2>2, <2>3
<1>8. ASSUME NEW r \in Run, SendEnd(r), \A k \in Run : ~Execute(k)
      PROVE  Followed'
  <2>1. /\ UNCHANGED <<ask, registered, picture, foreign, nodeRun, exact>> /\ Apart(r)
        /\ engine[r].pc = "closed" /\ Send(r, <<"end", 0>>) /\ <<"end", 0>> \in Events
    BY <1>8, EngineStep, Basic DEF page, rows
  <2>2. /\ wire'[r] = IF r \in registered THEN Append(wire[r], <<"end", 0>>) ELSE wire[r]
        /\ \A k \in Run : k # r => wire'[k] = wire[k]
    BY <1>0, <2>1, Sent
  <2>3. ASSUME NEW k \in Run, exact[k], k # r
        PROVE  Fits(k)
    BY <1>4, <2>1, <2>2, <2>3 DEF Apart
  <2>4. ASSUME exact[r]
        PROVE  Fits(r)
    <3>1. r \in registered /\ ask[r].pc \in {"asked", "answered"} /\ Seen(r)
      BY <2>1, <2>4 DEF Followed
    <3>2. wire'[r] = Append(wire[r], <<"end", 0>>) /\ wire[r] \in Seq(Events)
      BY <1>0, <2>2, <3>1
    <3>3. ASSUME NEW m \in Node
          PROVE  Taken(wire'[r], m) \/ Says(wire'[r], m, picture[m], nodeRun[r][m])
      <4>1. /\ <<"end", 0>>[1] = "end"
            /\ Taken(wire[r], m) \/ Says(wire[r], m, picture[m], nodeRun[r][m])
        BY <3>1 DEF Seen
      <4>2. Taken(wire[r], m) => Taken(wire'[r], m)
        BY <2>1, <3>2, <4>1, AppendOf DEF Taken
      <4> QED
        BY <2>1, <3>2, <4>1, <4>2, AppendSays
    <3>4. Seen(r)'
      BY <2>1, <3>3 DEF Seen, Taken
    <3> QED
      BY <2>1, <3>1, <3>4 DEF Fits
  <2> QED
    BY <1>2, <1>8, <2>1, <2>3, <2>4
<1>9. ASSUME NEW r \in Run, Answer(r), \A k \in Run : ~Execute(k)
      PROVE  Followed'
  <2>1. /\ ask'[r].pc = "answered" /\ \A k \in Run : k # r => ask'[k] = ask[k]
    BY <1>9, Answered
  <2>2. /\ UNCHANGED <<engine, nodeRun, picture, foreign>> /\ registered' = registered \ {current}
        /\ \A k \in Run : wire'[k] = IF k = current THEN <<>> ELSE wire[k]
        /\ \A k \in Run : exact'[k] <=> exact[k] /\ k # current
    BY <1>9 DEF Answer, server, rows
  <2>3. ASSUME NEW k \in Run, exact[k], k # current
        PROVE  Fits(k)
    BY <1>4, <2>1, <2>2, <2>3
  <2> QED
    BY <1>2, <1>9, <2>2, <2>3
<1>10. ASSUME NEW r \in Run, Refuse(r), \A k \in Run : ~Execute(k)
       PROVE  Followed'
  <2>1. /\ \A k \in Run : k # r => ask'[k] = ask[k]
    BY <1>10, Answered
  <2>2. /\ UNCHANGED <<nodeRun, picture, foreign, registered, wire>>
        /\ \A k \in Run : k # r => engine'[k] = engine[k]
        /\ exact' = [exact EXCEPT ![r] = FALSE]
    BY <1>10 DEF Refuse, rows, net, page
  <2>3. ~exact'[r] /\ \A k \in Run : k # r => exact'[k] = exact[k]
    BY <2>2 DEF Shape, PageShape
  <2>4. ASSUME NEW k \in Run, exact[k], k # r
        PROVE  Fits(k)
    BY <1>4, <2>1, <2>2, <2>4
  <2> QED
    BY <1>2, <1>10, <2>3, <2>4
<1>11. ASSUME NEW r \in Run, Register(r) \/ Disconnect(r), \A k \in Run : ~Execute(k)
       PROVE  Followed'
  <2>1. /\ UNCHANGED <<ask, engine, nodeRun, picture, foreign>>
        /\ \A k \in Run : k # r => wire'[k] = wire[k] /\ exact'[k] = exact[k]
        /\ \A k \in Run : k # r /\ k \in registered => k \in registered'
        /\ exact'[r] => exact[r] /\ wire' = wire /\ r \in registered'
    BY <1>11, SocketSteps DEF server, rows
  <2>2. ASSUME NEW k \in Run, exact[k], exact'[k]
        PROVE  Fits(k)
    BY <1>4, <2>1, <2>2
  <2> QED
    BY <1>2, <1>11, <2>1, <2>2
<1>12. ASSUME NEW r \in Run, Receive(r), \A k \in Run : ~Execute(k)
       PROVE  Followed'
  <2>1. /\ link[r] = "open" /\ wire[r] # <<>> /\ wire[r] \in Seq(Events)
        /\ wire'[r] = Tail(wire[r]) /\ picture' = Shows(picture, Head(wire[r]))
        /\ foreign' = {n \in foreign : Head(wire[r])[1] = "end" \/ Head(wire[r])[2] # n}
        /\ UNCHANGED <<engine, nodeRun, registered, ask, exact>>
    BY <1>12, Received DEF server, rows, ghosts
  <2>2. ASSUME NEW k \in Run, exact[k]
        PROVE  Fits(k)
    <3>1. k = r
      BY <2>1, <2>2 DEF Followed, Live
    <3>2. Seen(r)
      BY <2>2, <3>1 DEF Followed
    <3>3. ASSUME NEW n \in Node
          PROVE  \/ n \in foreign' /\ Of(Tail(wire[r]), n) = {}
                 \/ Says(Tail(wire[r]), n, Shows(picture, Head(wire[r]))[n], nodeRun[r][n])
      <4>1. CASE Taken(wire[r], n)
        BY <2>1, <4>1, TailOf DEF Taken
      <4>2. CASE Says(wire[r], n, picture[n], nodeRun[r][n])
        BY <1>0, <2>1, <4>2, TailSays
      <4> QED
        BY <3>2, <4>1, <4>2 DEF Seen
    <3>4. Seen(r)'
      BY <2>1, <3>3 DEF Seen, Taken
    <3> QED
      BY <2>1, <2>2, <3>1, <3>4 DEF Followed, Fits
  <2> QED
    BY <1>2, <1>12, <2>1, <2>2
<1>13. ASSUME NEW f \in fetches, Fetch(f), \A k \in Run : ~Execute(k)
       PROVE  Followed'
  <2>1. UNCHANGED <<ask, engine, registered, wire, picture, foreign, nodeRun, exact>>
    BY <1>13 DEF Fetch, server, rows, net
  <2> QED
    BY <1>2, <1>3, <1>13, <2>1
<1>14. ASSUME Visit \/ CopilotTells, \A k \in Run : ~Execute(k)
       PROVE  Followed'
  <2>1. /\ UNCHANGED <<ask, engine, registered, wire, nodeRun, exact>>
        /\ foreign \subseteq foreign'
        /\ \A n \in Node : n \in foreign' \/ picture'[n] = picture[n]
    <3>1. foreign \subseteq Node
      BY DEF Shape, PageShape
    <3> QED
      BY <1>14, <3>1, Visited, Told DEF server, rows, net
  <2>2. ASSUME NEW k \in Run, exact[k]
        PROVE  Fits(k)
    <3>1. Seen(k)
      BY <2>2 DEF Followed
    <3>2. Seen(k)'
      BY <2>1, <3>1 DEF Seen, Taken, Says
    <3> QED
      BY <2>1, <2>2, <3>2 DEF Followed, Fits
  <2> QED
    BY <1>2, <1>14, <2>1, <2>2
<1>15. ASSUME UNCHANGED vars \/ Preview, \A k \in Run : ~Execute(k)
       PROVE  Followed'
  <2>1. UNCHANGED <<ask, engine, registered, wire, picture, foreign, nodeRun, exact>>
    BY <1>15, Previewed DEF vars, server, rows, net, page, ghosts
  <2> QED
    BY <1>2, <1>3, <1>15, <2>1
<1> QED
  BY <1>1, <1>5, <1>6, <1>7, <1>8, <1>9, <1>10, <1>11, <1>12, <1>13, <1>14, <1>15, Steps

\* The page shows what the rows say, once what is on its way is in, but for
\* the nodes that a load or a frame of the copilot touched since.
THEOREM PictureFollows == Spec => []PictureIsRows
<1>1. Init => Followed
  BY DEF Init, Followed
<1>2. Shape /\ Followed => PictureIsRows
  <2> SUFFICES ASSUME Shape, Followed, NEW r \in Run, exact[r], NEW n \in Node,
                      ~(n \in foreign /\ About(r, n) = {})
               PROVE  Same(Arrived(r)[n], nodeRun[r][n])
    BY DEF PictureIsRows, Same
  <2>1. Says(wire[r], n, picture[n], nodeRun[r][n]) /\ About(r, n) = Of(wire[r], n)
    BY DEF Followed, Seen, Taken, About, Of
  <2>2. CASE About(r, n) = {}
    <3>1. Arrived(r)[n] = picture[n]
      BY <2>2 DEF Arrived
    <3> QED
      BY <2>1, <2>2, <3>1 DEF Says
  <2>3. CASE About(r, n) # {}
    <3>1. PICK i \in About(r, n) : /\ \A j \in About(r, n) : j <= i
                                   /\ Same(wire[r][i][1], nodeRun[r][n])
      BY <2>1, <2>3 DEF Says
    <3>2. About(r, n) \subseteq Int
      <4>1. wire[r] \in Seq(Events)
        BY DEF Shape, SocketShape
      <4> QED
        BY <4>1 DEF About
    <3>3. i = CHOOSE k \in About(r, n) : \A j \in About(r, n) : j <= k
      BY <3>1, <3>2
    <3>4. Arrived(r)[n] = wire[r][i][1]
      BY <2>3, <3>3 DEF Arrived
    <3> QED
      BY <3>1, <3>4
  <2> QED
    BY <2>2, <2>3
<1> QED
  BY <1>1, <1>2, NextFollowed, ShapeAlways, PTL DEF Spec

==============================================================================
