-------------------------- MODULE CopilotChatProofs --------------------------
(****************************************************************************)
(* Theorems about CopilotChat: agents hear that they are to stop, and the   *)
(* panel and the agents do not lose each other.                             *)
(****************************************************************************)
EXTENDS CopilotChat, FiniteSetTheorems, TLAPS

Frames  == Message \cup {"auth", "abort"}
Replies == {"error", "turn_done"} \X Message
Fates   == {"untyped", "waits", "sent", "taken", "answered", "refused", "dropped"}
Calling == {"model", "compress", "compressLast"}
Agents  == [pc : {"idle", "prompt", "stuck", "round", "snapshot"} \cup Calling,
            msg : Message \cup {NoMessage}, aborted : BOOLEAN, prompted : BOOLEAN,
            rounds : Nat, late : Nat, told : BOOLEAN]

Closed == {s \in Socket : sock[s] = "closed"}

\* Each reconnect under way is owed to a socket that closed.
PageShape ==
    /\ shown \in BOOLEAN /\ opens \in 0..MaxOpens /\ loads \in 0..opens
    /\ created \in 0..MaxSockets /\ ws \in 0..created
    /\ timers \in [n : Nat, kept : BOOLEAN] /\ (timers.kept => timers.n > 0)
    /\ timers.n <= Cardinality(Closed)
    /\ thinking \in BOOLEAN /\ pending \in SUBSET Message /\ \A m, k \in pending : m = k
    /\ asked \in Message \cup {NoMessage} /\ (thinking => asked \in Message)
    /\ loose \in BOOLEAN

SocketShape ==
    /\ sock \in [Socket -> {"unused", "connecting", "open", "closing", "closed"}]
    /\ server \in [Socket -> {"none", "waits", "ready", "gone"}]
    /\ up \in [Socket -> Seq(Frames)] /\ down \in [Socket -> Seq(Replies)]
    /\ fate \in [Message -> Fates]
    /\ \A s \in Socket : sock[s] = "unused" <=> s > created

AgentShape ==
    /\ agent \in [Socket -> Agents]
    /\ \A s \in Socket : agent[s].pc = "idle" <=> agent[s].msg = NoMessage

Shape == PageShape /\ SocketShape /\ AgentShape

\* An agent that called the model after it was told is in such a call, and
\* what follows the call will find it aborted.
Heeds(a) ==
    /\ a.told => a.aborted
    /\ a.late \in 0..2
    /\ a.late # 0 => a.pc \in Calling /\ a.told
    /\ a.pc = "model" => a.late # 2
Hearing == \A s \in Socket : Heeds(agent[s])

\* Frames are on their way between ends that are there.
Linked ==
    /\ \A s \in Socket : server[s] = "ready" => sock[s] \in {"open", "closing"}
    /\ \A s \in Socket : sock[s] \in {"unused", "connecting", "closed"} => up[s] = <<>> /\ down[s] = <<>>
    /\ \A s \in Socket : sock[s] \in {"unused", "connecting"} => agent[s] = NewAgent

(* What queues hold. *)

In(q, m)    == \E i \in DOMAIN q : q[i] = m
Single(q)   == \A i, j \in DOMAIN q : q[i] \in Message /\ q[j] \in Message => i = j
Distinct(q) == \A i, j \in DOMAIN q : q[i] = q[j] /\ q[i] \in Message => i = j

HasDone(r)  == \E i \in DOMAIN r : r[i][1] = "turn_done"
DoneOnce(r) == \A i, j \in DOMAIN r : r[i][1] = "turn_done" /\ r[j][1] = "turn_done" => i = j
About(r, m) == \E i \in DOMAIN r : r[i][2] = m

Asks(s) == \E m \in Message : In(up[s], m)

\* While no turn lost its panel, a socket has one message: on its way up, with
\* the agent, or answered on its way down; and none when the panel is idle.
OneTurn(s) ==
    /\ Single(up[s]) /\ DoneOnce(down[s])
    /\ Asks(s) => ~Working(s) /\ ~HasDone(down[s])
    /\ Working(s) => ~HasDone(down[s])
    /\ s = ws /\ ~thinking => ~Asks(s) /\ ~Working(s) /\ ~HasDone(down[s])

TurnByTurn == loose \/ ((\A s \in Socket : OneTurn(s)) /\ \A m \in Message : fate[m] # "refused")

\* The fate of a message says where it is.
Placed(m) ==
    /\ \A s \in Socket : In(up[s], m) => fate[m] = "sent"
    /\ \A s, t \in Socket : In(up[s], m) /\ In(up[t], m) => s = t
    /\ m \in pending => fate[m] = "waits"
    /\ \A s, t \in Socket : agent[s].msg = m /\ agent[t].msg = m => s = t
    /\ \A s \in Socket : agent[s].msg = m =>
          /\ fate[m] \in {"taken", "dropped"}
          /\ sock[s] \notin {"open", "closing"} => fate[m] = "dropped"
    /\ \A s \in Socket : About(down[s], m) => fate[m] \in {"answered", "refused", "dropped"}

Traced == (\A m \in Message : Placed(m)) /\ \A s \in Socket : Distinct(up[s])

Follows(s, m) == In(up[s], m) \/ agent[s].msg = m \/ About(down[s], m)

\* What the panel thinks about is lost, or somewhere on its way.
Kept(m)  == fate[m] = "dropped" \/ \E s \in Socket : sock[s] # "closing" /\ Follows(s, m)
OnItsWay == shown /\ thinking => Kept(asked)

----------------------------------------------------------------------------
(* Queues. *)

LEMMA Frame ==
    /\ Message \subseteq Frames /\ "auth" \in Frames /\ "abort" \in Frames
    /\ "auth" \notin Message /\ "abort" \notin Message /\ NoMessage \notin Message
    /\ MaxSockets \in Nat /\ MaxOpens \in Nat /\ MaxRounds \in Nat
    /\ \A s \in Socket : s \in Nat /\ s # 0 /\ s <= MaxSockets
    /\ \A s \in 1..MaxSockets : s \in Socket
    /\ \A m \in Message : <<"error", m>> \in Replies /\ <<"turn_done", m>> \in Replies
BY ChatAssumption DEF Frames, Replies, Socket

\* The first frame is taken off.
LEMMA TailUp ==
    ASSUME NEW q \in Seq(Frames), q # <<>>
    PROVE  /\ Tail(q) \in Seq(Frames) /\ Head(q) \in Frames /\ In(q, Head(q))
           /\ \A m : In(Tail(q), m) => In(q, m)
           /\ \A m : In(q, m) => m = Head(q) \/ In(Tail(q), m)
           /\ Single(q) => Single(Tail(q))
           /\ Distinct(q) => Distinct(Tail(q))
           /\ Single(q) /\ Head(q) \in Message => \A m \in Message : ~In(Tail(q), m)
           /\ Distinct(q) /\ Head(q) \in Message => ~In(Tail(q), Head(q))
<1>1. /\ Tail(q) \in Seq(Frames) /\ Head(q) \in Frames /\ Head(q) = q[1] /\ 1 \in DOMAIN q
      /\ \A i \in DOMAIN Tail(q) : i + 1 \in DOMAIN q /\ Tail(q)[i] = q[i + 1] /\ i + 1 # 1
      /\ \A i \in DOMAIN q : i # 1 => i - 1 \in DOMAIN Tail(q) /\ Tail(q)[i - 1] = q[i]
      /\ \A i, j \in DOMAIN Tail(q) : i + 1 = j + 1 => i = j
  OBVIOUS
<1>2. \A m : In(Tail(q), m) => In(q, m)
  BY <1>1 DEF In
<1>3. \A m : In(q, m) => m = Head(q) \/ In(Tail(q), m)
  BY <1>1 DEF In
<1>4. Single(q) => Single(Tail(q))
  BY <1>1 DEF Single
<1>5. Distinct(q) => Distinct(Tail(q))
  BY <1>1 DEF Distinct
<1>6. Single(q) /\ Head(q) \in Message => \A m \in Message : ~In(Tail(q), m)
  BY <1>1 DEF In, Single
<1>7. Distinct(q) /\ Head(q) \in Message => ~In(Tail(q), Head(q))
  BY <1>1 DEF In, Distinct
<1>8. In(q, Head(q))
  BY <1>1 DEF In
<1> QED
  BY <1>1, <1>2, <1>3, <1>4, <1>5, <1>6, <1>7, <1>8

\* A frame is appended.
LEMMA AppendUp ==
    ASSUME NEW q \in Seq(Frames), NEW f \in Frames
    PROVE  /\ Append(q, f) \in Seq(Frames)
           /\ \A m : In(Append(q, f), m) <=> In(q, m) \/ m = f
           /\ Single(q) /\ f \notin Message => Single(Append(q, f))
           /\ (\A m \in Message : ~In(q, m)) => Single(Append(q, f))
           /\ Distinct(q) /\ (f \in Message => ~In(q, f)) => Distinct(Append(q, f))
<1>1. /\ Append(q, f) \in Seq(Frames) /\ DOMAIN q = 1..Len(q) /\ Len(q) \in Nat
      /\ DOMAIN Append(q, f) = 1..(Len(q) + 1)
      /\ Append(q, f)[Len(q) + 1] = f
      /\ \A i \in DOMAIN q : Append(q, f)[i] = q[i] /\ i # Len(q) + 1
  OBVIOUS
<1>2. \A i \in DOMAIN Append(q, f) : i \in DOMAIN q \/ i = Len(q) + 1
  BY <1>1
<1>3. DOMAIN q \subseteq DOMAIN Append(q, f) /\ Len(q) + 1 \in DOMAIN Append(q, f)
  BY <1>1
<1> QED
  BY <1>1, <1>2, <1>3 DEF In, Single, Distinct

LEMMA TailDown ==
    ASSUME NEW r \in Seq(Replies), r # <<>>
    PROVE  /\ Tail(r) \in Seq(Replies) /\ Head(r) \in Replies
           /\ HasDone(Tail(r)) => HasDone(r)
           /\ Head(r)[1] = "turn_done" => HasDone(r)
           /\ DoneOnce(r) => DoneOnce(Tail(r))
           /\ DoneOnce(r) /\ Head(r)[1] = "turn_done" => ~HasDone(Tail(r))
           /\ \A m : About(Tail(r), m) => About(r, m)
           /\ \A m : About(r, m) => m = Head(r)[2] \/ About(Tail(r), m)
<1>1. /\ Tail(r) \in Seq(Replies) /\ Head(r) \in Replies /\ Head(r) = r[1] /\ 1 \in DOMAIN r
      /\ \A i \in DOMAIN Tail(r) : i + 1 \in DOMAIN r /\ Tail(r)[i] = r[i + 1] /\ i + 1 # 1
      /\ \A i \in DOMAIN r : i # 1 => i - 1 \in DOMAIN Tail(r) /\ Tail(r)[i - 1] = r[i]
      /\ \A i, j \in DOMAIN Tail(r) : i + 1 = j + 1 => i = j
  OBVIOUS
<1> QED
  BY <1>1 DEF HasDone, DoneOnce, About

LEMMA JoinDown ==
    ASSUME NEW r \in Seq(Replies), NEW e \in Seq(Replies)
    PROVE  /\ r \o e \in Seq(Replies)
           /\ HasDone(r \o e) <=> HasDone(r) \/ HasDone(e)
           /\ ~HasDone(r) /\ DoneOnce(e) => DoneOnce(r \o e)
           /\ ~HasDone(e) /\ DoneOnce(r) => DoneOnce(r \o e)
           /\ \A m : About(r \o e, m) <=> About(r, m) \/ About(e, m)
<1>1. /\ r \o e \in Seq(Replies) /\ Len(r) \in Nat /\ Len(e) \in Nat
      /\ DOMAIN r = 1..Len(r) /\ DOMAIN e = 1..Len(e) /\ DOMAIN (r \o e) = 1..(Len(r) + Len(e))
      /\ \A i \in DOMAIN r : (r \o e)[i] = r[i]
      /\ \A i \in DOMAIN e : (r \o e)[i + Len(r)] = e[i]
  OBVIOUS
<1>2. \A i \in DOMAIN (r \o e) : i \in DOMAIN r \/ i - Len(r) \in DOMAIN e
  BY <1>1
<1>3. \A i \in DOMAIN e : i + Len(r) \in DOMAIN (r \o e)
  BY <1>1
<1>4. \A i \in DOMAIN (r \o e) : i - Len(r) \in DOMAIN e => (r \o e)[i] = e[i - Len(r)]
  BY <1>1
<1>5. DOMAIN r \subseteq DOMAIN (r \o e)
  BY <1>1
<1>6. \A i, j \in DOMAIN (r \o e) : i - Len(r) = j - Len(r) => i = j
  BY <1>1
<1>7. \A m : About(r \o e, m) <=> About(r, m) \/ About(e, m)
  BY <1>1, <1>2, <1>3, <1>4, <1>5 DEF About
<1>8. HasDone(r \o e) <=> HasDone(r) \/ HasDone(e)
  BY <1>1, <1>2, <1>3, <1>4, <1>5 DEF HasDone
<1>9. ~HasDone(r) /\ DoneOnce(e) => DoneOnce(r \o e)
  BY <1>1, <1>2, <1>4, <1>6 DEF HasDone, DoneOnce
<1>10. ~HasDone(e) /\ DoneOnce(r) => DoneOnce(r \o e)
  BY <1>1, <1>2, <1>4, <1>6 DEF HasDone, DoneOnce
<1> QED
  BY <1>1, <1>7, <1>8, <1>9, <1>10

LEMMA Empty ==
    /\ \A m : ~In(<<>>, m) /\ ~About(<<>>, m)
    /\ Single(<<>>) /\ Distinct(<<>>) /\ ~HasDone(<<>>) /\ DoneOnce(<<>>)
    /\ <<>> \in Seq(Frames) /\ <<>> \in Seq(Replies)
BY DEF In, About, Single, Distinct, HasDone, DoneOnce

\* What an agent tells of a message: an error, the end of the turn, or both.
LEMMA Reply ==
    ASSUME NEW m \in Message
    PROVE  /\ << <<"error", m>> >> \in Seq(Replies) /\ ~HasDone(<< <<"error", m>> >>)
           /\ \A k : About(<< <<"error", m>> >>, k) <=> k = m
           /\ \A e \in {<<>>, << <<"error", m>> >>} :
                 /\ e \o << <<"turn_done", m>> >> \in Seq(Replies)
                 /\ HasDone(e \o << <<"turn_done", m>> >>) /\ DoneOnce(e \o << <<"turn_done", m>> >>)
                 /\ \A k : About(e \o << <<"turn_done", m>> >>, k) <=> k = m
           /\ LET b == << <<"error", m>>, <<"turn_done", m>> >>
              IN  b \in Seq(Replies) /\ DoneOnce(b) /\ \A k : About(b, k) <=> k = m
<1> DEFINE x == << <<"error", m>> >>
           d == << <<"turn_done", m>> >>
<1>1. x \in Seq(Replies) /\ d \in Seq(Replies) /\ DOMAIN x = {1} /\ DOMAIN d = {1}
  BY Frame
<1>2. /\ x[1][1] = "error" /\ x[1][2] = m /\ d[1][1] = "turn_done" /\ d[1][2] = m
  OBVIOUS
<1> DEFINE b == << <<"error", m>>, <<"turn_done", m>> >>
<1>5. b \in Seq(Replies) /\ DOMAIN b = {1, 2}
  BY Frame
<1>6. b[1][1] = "error" /\ b[1][2] = m /\ b[2][1] = "turn_done" /\ b[2][2] = m
  OBVIOUS
<1> HIDE DEF x, d, b
<1>7. DoneOnce(b) /\ \A k : About(b, k) <=> k = m
  BY <1>5, <1>6 DEF DoneOnce, About
<1>3. ~HasDone(x) /\ HasDone(d) /\ DoneOnce(d) /\ \A k : (About(x, k) <=> k = m) /\ (About(d, k) <=> k = m)
  BY <1>1, <1>2 DEF HasDone, DoneOnce, About
<1>4. ASSUME NEW e \in {<<>>, x}
      PROVE  /\ e \o d \in Seq(Replies) /\ HasDone(e \o d) /\ DoneOnce(e \o d)
             /\ \A k : About(e \o d, k) <=> k = m
  <2>1. e \in Seq(Replies) /\ ~HasDone(e) /\ \A k : About(e, k) => k = m
    BY <1>1, <1>3, Empty
  <2> QED
    BY <1>1, <1>3, <2>1, JoinDown
<1> QED
  BY <1>1, <1>3, <1>4, <1>5, <1>7 DEF x, d, b

----------------------------------------------------------------------------
(* Types. *)

LEMMA ClosedFinite ==
    ASSUME SocketShape
    PROVE  IsFiniteSet(Closed) /\ Cardinality(Closed) \in Nat /\ Cardinality(Closed) <= MaxSockets
<1>1. /\ IsFiniteSet(1..MaxSockets)
      /\ Cardinality(1..MaxSockets) = IF 1 > MaxSockets THEN 0 ELSE MaxSockets - 1 + 1
  BY Frame, FS_Interval
<1>2. IsFiniteSet(Socket) /\ Cardinality(Socket) <= MaxSockets
  BY <1>1, Frame DEF Socket
<1>3. Closed \subseteq Socket
  BY DEF Closed
<1>4. IsFiniteSet(Closed) /\ Cardinality(Closed) <= Cardinality(Socket)
  BY <1>2, <1>3, FS_Subset
<1>5. Cardinality(Closed) \in Nat /\ Cardinality(Socket) \in Nat
  BY <1>2, <1>4, FS_CardinalityType
<1> QED
  BY <1>2, <1>4, <1>5, Frame

LEMMA OneMoreClosed ==
    ASSUME SocketShape, NEW s \in Socket, sock[s] # "closed", sock' = [sock EXCEPT ![s] = "closed"]
    PROVE  Cardinality(Closed') = Cardinality(Closed) + 1
<1>1. Closed' = Closed \cup {s} /\ s \notin Closed
  BY DEF SocketShape, Closed
<1> QED
  BY <1>1, ClosedFinite, FS_AddElement

LEMMA InitShape == Init => Shape
<1> SUFFICES ASSUME Init PROVE Shape
  OBVIOUS
<1>1. SocketShape
  BY Empty, Frame DEF Init, SocketShape, Fates
<1>2. 0 <= Cardinality(Closed)
  BY <1>1, ClosedFinite
<1>3. PageShape
  <2>1. timers \in [n : Nat, kept : BOOLEAN] /\ ~timers.kept /\ timers.n <= Cardinality(Closed)
    BY <1>2 DEF Init
  <2>2. shown \in BOOLEAN /\ opens \in 0..MaxOpens /\ loads \in 0..opens
    <3>1. shown = FALSE /\ opens = 0 /\ loads = 0
      BY DEF Init
    <3>2. 0 \in 0..MaxOpens /\ 0 \in 0..0
      BY ChatAssumption
    <3> QED
      BY <3>1, <3>2
  <2>3. created \in 0..MaxSockets /\ ws \in 0..created
    BY Frame DEF Init
  <2>4. thinking = FALSE /\ pending = {} /\ asked = NoMessage /\ loose = FALSE
    BY DEF Init
  <2> QED
    BY <2>1, <2>2, <2>3, <2>4 DEF PageShape
<1>4. NewAgent \in Agents
  BY DEF NewAgent, Agents
<1>5. AgentShape
  BY <1>4 DEF Init, AgentShape, NewAgent
<1> QED
  BY <1>1, <1>3, <1>5 DEF Shape

LEMMA Created ==
    ASSUME PageShape, SocketShape, CreateConnection
    PROVE  /\ created' \in 0..MaxSockets /\ ws' = created' /\ ws' \in 0..created' /\ created' \in Socket
           /\ created' = created + 1
           /\ sock[created'] = "unused" /\ sock'[created'] = "connecting"
           /\ \A s \in Socket : s # created' => sock'[s] = sock[s]
           /\ sock' \in [Socket -> {"unused", "connecting", "open", "closing", "closed"}]
           /\ \A s \in Socket : sock'[s] = "unused" <=> s > created'
           /\ Closed' = Closed
<1>1. created \in Nat /\ created' = created + 1 /\ created' <= MaxSockets /\ ws' = created'
  BY Frame DEF PageShape, CreateConnection
<1>2. created' \in Socket /\ created' \in 0..MaxSockets /\ ws' \in 0..created'
  BY <1>1, Frame
<1>3. sock[created'] = "unused"
  BY <1>1, <1>2 DEF SocketShape
<1>4. sock' = [sock EXCEPT ![created'] = "connecting"] /\ DOMAIN sock = Socket
  BY DEF CreateConnection, SocketShape
<1>5. /\ sock'[created'] = "connecting" /\ \A s \in Socket : s # created' => sock'[s] = sock[s]
      /\ sock' \in [Socket -> {"unused", "connecting", "open", "closing", "closed"}]
  BY <1>2, <1>4 DEF SocketShape
<1>6. \A s \in Socket : sock'[s] = "unused" <=> s > created'
  <2> TAKE s \in Socket
  <2>1. s \in Nat
    BY Frame
  <2>2. CASE s = created'
    BY <1>1, <1>5, <2>1, <2>2
  <2>3. CASE s # created'
    BY <1>1, <1>5, <2>1, <2>3 DEF SocketShape
  <2> QED
    BY <2>2, <2>3
<1>7. Closed' = Closed
  BY <1>3, <1>5 DEF Closed
<1> QED
  BY <1>1, <1>2, <1>3, <1>5, <1>6, <1>7

\* A frame the page sends.
LEMMA Sent ==
    ASSUME PageShape, SocketShape, NEW f \in Frames, WsSend(f)
    PROVE  /\ up' \in [Socket -> Seq(Frames)]
           /\ CanSend => ws \in Socket /\ sock[ws] = "open" /\ up'[ws] = Append(up[ws], f)
           /\ ~CanSend => up' = up
           /\ \A s \in Socket : s # ws => up'[s] = up[s]
<1>1. ws # 0 => ws \in Socket
  BY Frame DEF PageShape
<1>2. CASE CanSend
  <2>1. ws \in Socket /\ up' = [up EXCEPT ![ws] = Append(@, f)] /\ up \in [Socket -> Seq(Frames)]
    BY <1>1, <1>2 DEF CanSend, WsSend, SocketShape
  <2>2. Append(up[ws], f) \in Seq(Frames)
    BY <2>1, AppendUp
  <2> QED
    BY <1>2, <2>1, <2>2 DEF CanSend
<1>3. CASE ~CanSend
  BY <1>3 DEF WsSend, SocketShape
<1> QED
  BY <1>2, <1>3

\* Frames an agent sends.
LEMMA Told ==
    ASSUME SocketShape, NEW s \in Socket, NEW e \in Seq(Replies), Tells(s, e)
    PROVE  /\ down' \in [Socket -> Seq(Replies)]
           /\ down'[s] = IF sock[s] = "open" THEN down[s] \o e ELSE down[s]
           /\ \A t \in Socket : t # s => down'[t] = down[t]
<1>1. down \in [Socket -> Seq(Replies)]
  BY DEF SocketShape
<1>2. down[s] \o e \in Seq(Replies)
  BY <1>1, JoinDown
<1> QED
  BY <1>1, <1>2 DEF Tells

\* The user's editor comes and goes.
LEMMA EditorTypes ==
    ASSUME Shape, ClickEdit \/ LoadEnds \/ Back \/ Reconnects
    PROVE  Shape'
<1> USE DEF Shape
<1>0. /\ PageShape /\ SocketShape /\ AgentShape
      /\ opens \in Nat /\ loads \in Nat /\ loads <= opens /\ opens <= MaxOpens /\ MaxOpens \in Nat
      /\ timers \in [n : Nat, kept : BOOLEAN] /\ timers.n \in Nat /\ timers.kept \in BOOLEAN
      /\ (timers.kept => timers.n > 0)
      /\ timers.n <= Cardinality(Closed) /\ Cardinality(Closed) \in Nat
  BY Frame, ClosedFinite DEF PageShape
<1>1. AgentShape'
  BY DEF AgentShape, ClickEdit, LoadEnds, Back, Reconnects
<1>2. CASE ClickEdit
  <2>1. SocketShape' /\ Closed' = Closed
    BY <1>2 DEF ClickEdit, SocketShape, Closed, chan
  <2>2. opens' = opens + 1 /\ loads' = loads + 1 /\ opens < MaxOpens
    BY <1>2 DEF ClickEdit
  <2>3. opens' \in 0..MaxOpens /\ loads' \in 0..opens'
    BY <1>0, <2>2
  <2>4. PageShape'
    BY <1>2, <2>1, <2>3 DEF ClickEdit, PageShape, ghosts
  <2> QED
    BY <1>1, <2>1, <2>4
<1>3. CASE LoadEnds
  <2>1. /\ loads' = loads - 1 /\ loads > 0
        /\ UNCHANGED <<opens, timers, up, down, server, agent, asked, loose>>
    BY <1>3 DEF LoadEnds
  <2>2. loads' \in 0..opens' /\ opens' \in 0..MaxOpens
    BY <1>0, <2>1
  <2>3. CASE UNCHANGED <<shown, thinking, pending, fate, created, ws, sock>>
    <3>1. SocketShape' /\ Closed' = Closed
      BY <2>1, <2>3 DEF SocketShape, Closed
    <3> QED
      BY <1>1, <2>1, <2>2, <2>3, <3>1 DEF PageShape
  <2>4. CASE shown' = TRUE /\ thinking' = FALSE /\ pending' = {} /\ Drops(pending) /\ CreateConnection
    <3>1. /\ created' \in 0..MaxSockets /\ ws' \in 0..created'
          /\ sock' \in [Socket -> {"unused", "connecting", "open", "closing", "closed"}]
          /\ \A s \in Socket : sock'[s] = "unused" <=> s > created'
          /\ Closed' = Closed
      BY <2>4, Created
    <3>2. fate' \in [Message -> Fates]
      BY <2>4 DEF Drops, SocketShape, Fates
    <3>3. SocketShape'
      BY <2>1, <3>1, <3>2 DEF SocketShape
    <3>4. PageShape'
      BY <2>1, <2>2, <2>4, <3>1 DEF PageShape
    <3> QED
      BY <1>1, <3>3, <3>4
  <2> QED
    BY <1>3, <2>3, <2>4 DEF LoadEnds
<1>4. CASE Back
  <2>1. /\ UNCHANGED <<loads, opens, created, thinking, pending, up, down, server, agent, fate, asked, loose>>
        /\ shown' = FALSE /\ ws' = 0
        /\ timers' = [n |-> IF timers.kept THEN timers.n - 1 ELSE timers.n, kept |-> FALSE]
        /\ sock' = [s \in Socket |-> IF s = ws /\ sock[s] # "closed" THEN "closing" ELSE sock[s]]
    BY <1>4 DEF Back, ghosts
  <2>2. sock[ws] # "unused" \/ ws \notin Socket
    BY Frame DEF PageShape, SocketShape
  <2>3. SocketShape' /\ Closed' = Closed
    BY <2>1, <2>2 DEF SocketShape, Closed
  <2>4. timers' \in [n : Nat, kept : BOOLEAN] /\ ~timers'.kept /\ timers'.n <= timers.n
    BY <1>0, <2>1
  <2>5. timers'.n <= Cardinality(Closed')
    BY <1>0, <2>3, <2>4
  <2>6. ws' \in 0..created'
    BY <2>1, Frame DEF PageShape
  <2>7. PageShape'
    BY <2>1, <2>4, <2>5, <2>6 DEF PageShape
  <2> QED
    BY <1>1, <2>3, <2>7
<1>5. CASE Reconnects
  <2>1. /\ UNCHANGED <<shown, loads, opens, thinking, pending, up, down, server, agent, fate, asked, loose>>
        /\ timers.n > 0
        /\ \E kept \in {timers.kept, timers.kept /\ timers.n > 1} :
              timers' = [n |-> timers.n - 1, kept |-> kept /\ timers.n > 1]
        /\ CreateConnection \/ UNCHANGED <<created, ws, sock>>
    BY <1>5 DEF Reconnects, ghosts
  <2>2. /\ timers' \in [n : Nat, kept : BOOLEAN] /\ (timers'.kept => timers'.n > 0)
        /\ timers'.n <= Cardinality(Closed)
    <3>1. PICK kept \in BOOLEAN : timers' = [n |-> timers.n - 1, kept |-> kept /\ timers.n > 1]
      BY <1>0, <2>1
    <3>2. timers.n - 1 \in Nat /\ timers.n - 1 <= Cardinality(Closed)
          /\ (timers.n > 1 => timers.n - 1 > 0)
      BY <1>0, <2>1
    <3>3. timers'.n = timers.n - 1 /\ timers'.kept = (kept /\ timers.n > 1)
      BY <3>1
    <3>4. timers' \in [n : Nat, kept : BOOLEAN]
      BY <3>1, <3>2
    <3> QED
      BY <3>2, <3>3, <3>4
  <2>3. /\ created' \in 0..MaxSockets /\ ws' \in 0..created'
        /\ sock' \in [Socket -> {"unused", "connecting", "open", "closing", "closed"}]
        /\ \A s \in Socket : sock'[s] = "unused" <=> s > created'
        /\ Closed' = Closed
    <3>1. CASE CreateConnection
      BY <3>1, Created
    <3>2. CASE UNCHANGED <<created, ws, sock>>
      BY <3>2 DEF PageShape, SocketShape, Closed
    <3> QED
      BY <2>1, <3>1, <3>2
  <2>4. SocketShape'
    BY <2>1, <2>3 DEF SocketShape
  <2>5. PageShape'
    BY <2>1, <2>2, <2>3 DEF PageShape
  <2> QED
    BY <1>1, <2>4, <2>5
<1> QED
  BY <1>2, <1>3, <1>4, <1>5

LEMMA MessageTypes ==
    ASSUME Shape, \/ Stop \/ \E m \in Message : SendMessage(m)
                  \/ \E s \in Socket : TakesError(s) \/ TakesTurnDone(s)
    PROVE  Shape'
<1> USE DEF Shape
<1>1. /\ UNCHANGED <<shown, loads, opens, ws, created, timers, sock, server, agent>>
      /\ Closed' = Closed
  BY DEF Stop, SendMessage, TakesError, TakesTurnDone, Takes, Closed
<1>2. AgentShape'
  BY <1>1 DEF AgentShape
<1>3. ASSUME NEW m \in Message, SendUserMessage(m)
      PROVE  /\ thinking' = TRUE /\ asked' = m /\ up' \in [Socket -> Seq(Frames)]
             /\ fate' \in [Message -> Fates]
  BY <1>3, Sent, Frame DEF SendUserMessage, SocketShape, Fates
<1>4. ASSUME UNCHANGED <<thinking, asked>> \/ (thinking' = FALSE /\ asked' = asked)
                 \/ (thinking' = TRUE /\ asked' \in Message),
             pending' \in {pending, {}} \/ \E m \in Message : pending' = {m}, loose' \in BOOLEAN
      PROVE  PageShape'
  <2>1. thinking' \in BOOLEAN /\ asked' \in Message \cup {NoMessage} /\ (thinking' => asked' \in Message)
    <3>1. CASE UNCHANGED <<thinking, asked>>
      BY <3>1 DEF PageShape
    <3>2. CASE thinking' = FALSE /\ asked' = asked
      BY <3>2 DEF PageShape
    <3>3. CASE thinking' = TRUE /\ asked' \in Message
      BY <3>3
    <3> QED
      BY <1>4, <3>1, <3>2, <3>3
  <2>2. pending' \in SUBSET Message /\ \A m, k \in pending' : m = k
    BY <1>4 DEF PageShape
  <2> QED
    BY <1>1, <1>4, <2>1, <2>2 DEF PageShape
<1>5. ASSUME up' \in [Socket -> Seq(Frames)], down' \in [Socket -> Seq(Replies)],
             fate' \in [Message -> Fates]
      PROVE  SocketShape'
  BY <1>1, <1>5 DEF SocketShape
<1>6. CASE Stop
  <2>1. fate' \in [Message -> Fates]
    BY <1>6 DEF Stop, Drops, SocketShape, Fates
  <2>2. up' \in [Socket -> Seq(Frames)] /\ down' = down
    BY <1>6, Sent, Frame DEF Stop
  <2>3. thinking' = FALSE /\ pending' = {} /\ asked' = asked /\ loose' = TRUE
    BY <1>6 DEF Stop
  <2> QED
    BY <1>2, <1>4, <1>5, <2>1, <2>2, <2>3 DEF SocketShape
<1>7. ASSUME NEW m \in Message, SendMessage(m)
      PROVE  Shape'
  <2>0. down' = down /\ loose' = loose
    BY <1>7 DEF SendMessage
  <2>1. CASE thinking
    <3>1. /\ pending' = {m} /\ WsSend("abort") /\ thinking' = thinking /\ asked' = asked
          /\ fate' = [k \in Message |-> IF k = m THEN "waits"
                                        ELSE IF k \in pending THEN "dropped" ELSE fate[k]]
      BY <1>7, <2>1 DEF SendMessage
    <3>2. up' \in [Socket -> Seq(Frames)] /\ fate' \in [Message -> Fates]
      BY <3>1, Sent, Frame DEF SocketShape, Fates
    <3> QED
      BY <1>2, <1>4, <1>5, <2>0, <3>1, <3>2 DEF SocketShape, PageShape
  <2>2. CASE ~thinking
    <3>1. SendUserMessage(m) /\ pending' = pending
      BY <1>7, <2>2 DEF SendMessage
    <3> QED
      BY <1>2, <1>3, <1>4, <1>5, <2>0, <3>1 DEF SocketShape, PageShape
  <2> QED
    BY <2>1, <2>2
<1>8. ASSUME NEW s \in Socket, TakesError(s) \/ TakesTurnDone(s)
      PROVE  Shape'
  <2>1. /\ down[s] # <<>> /\ down' = [down EXCEPT ![s] = Tail(@)] /\ loose' \in BOOLEAN
    BY <1>8 DEF TakesError, TakesTurnDone, Takes
  <2>2. down' \in [Socket -> Seq(Replies)]
    BY <2>1, TailDown DEF SocketShape
  <2>3. CASE thinking' = FALSE /\ UNCHANGED <<up, fate, asked>>
    <3>1. pending' \in {pending, {}}
      BY <1>8 DEF TakesError, TakesTurnDone
    <3> QED
      BY <1>2, <1>4, <1>5, <2>1, <2>2, <2>3, <3>1 DEF SocketShape
  <2>4. CASE pending' = {} /\ \E m \in Message : SendUserMessage(m)
    BY <1>2, <1>3, <1>4, <1>5, <2>1, <2>2, <2>4
  <2> QED
    BY <1>8, <2>3, <2>4 DEF TakesError, TakesTurnDone, PageShape
<1> QED
  BY <1>6, <1>7, <1>8

LEMMA SocketTypes ==
    ASSUME Shape, NEW s \in Socket, Opens(s) \/ Closes(s) \/ Authenticates(s)
    PROVE  Shape'
<1> USE DEF Shape
<1>0. /\ PageShape /\ SocketShape /\ AgentShape
      /\ timers \in [n : Nat, kept : BOOLEAN] /\ timers.n \in Nat
      /\ timers.n <= Cardinality(Closed) /\ Cardinality(Closed) \in Nat
  BY ClosedFinite DEF PageShape
<1>1. CASE Opens(s)
  <2>1. /\ sock[s] = "connecting" /\ sock' = [sock EXCEPT ![s] = "open"]
        /\ server' = [server EXCEPT ![s] = "waits"] /\ UNCHANGED <<page, down, agent, fate, ghosts>>
        /\ up' = [k \in Socket |-> IF k = ws /\ (k = s \/ sock[k] = "open")
                                   THEN Append(up[k], "auth") ELSE up[k]]
    BY <1>1 DEF Opens
  <2>2. up' \in [Socket -> Seq(Frames)]
    BY <2>1, AppendUp, Frame DEF SocketShape
  <2>3. /\ sock' \in [Socket -> {"unused", "connecting", "open", "closing", "closed"}]
        /\ \A t \in Socket : sock'[t] = "unused" <=> sock[t] = "unused"
        /\ Closed' = Closed
    BY <2>1 DEF SocketShape, Closed
  <2>4. SocketShape'
    BY <2>1, <2>2, <2>3 DEF SocketShape, page
  <2>5. PageShape' /\ AgentShape'
    BY <2>1, <2>3 DEF PageShape, AgentShape, page, ghosts
  <2> QED
    BY <2>4, <2>5
<1>2. CASE Closes(s)
  <2>1. /\ sock[s] \in {"connecting", "open", "closing"} /\ sock' = [sock EXCEPT ![s] = "closed"]
        /\ up' = [up EXCEPT ![s] = <<>>] /\ down' = [down EXCEPT ![s] = <<>>]
        /\ server' = [server EXCEPT ![s] = "gone"]
        /\ agent' = [agent EXCEPT ![s] = IF Working(s)
                                         THEN [agent[s] EXCEPT !.aborted = TRUE, !.told = TRUE]
                                         ELSE NewAgent]
        /\ Drops(Lost(s))
        /\ timers' = IF shown THEN [n |-> timers.n + 1, kept |-> TRUE] ELSE timers
        /\ UNCHANGED <<shown, loads, opens, ws, created, thinking, pending, asked, loose>>
    BY <1>2 DEF Closes, ghosts
  <2>2. /\ Cardinality(Closed') = Cardinality(Closed) + 1
        /\ sock' \in [Socket -> {"unused", "connecting", "open", "closing", "closed"}]
        /\ \A t \in Socket : sock'[t] = "unused" <=> sock[t] = "unused"
    BY <1>0, <2>1, OneMoreClosed DEF SocketShape
  <2>3. timers' \in [n : Nat, kept : BOOLEAN] /\ timers'.n <= timers.n + 1
        /\ (timers'.kept => timers'.n > 0)
    BY <1>0, <2>1 DEF PageShape
  <2>4. PageShape'
    <3>1. timers'.n <= Cardinality(Closed')
      BY <1>0, <2>2, <2>3
    <3> QED
      BY <2>1, <2>3, <3>1 DEF PageShape
  <2>5. fate' \in [Message -> Fates]
    BY <2>1 DEF Drops, SocketShape, Fates
  <2>6. up' \in [Socket -> Seq(Frames)] /\ down' \in [Socket -> Seq(Replies)]
    BY <2>1, Empty DEF SocketShape
  <2>7. SocketShape'
    BY <2>1, <2>2, <2>5, <2>6 DEF SocketShape
  <2>8. AgentShape'
    <3>1. [agent[s] EXCEPT !.aborted = TRUE, !.told = TRUE] \in Agents
          /\ [agent[s] EXCEPT !.aborted = TRUE, !.told = TRUE].pc = agent[s].pc
          /\ [agent[s] EXCEPT !.aborted = TRUE, !.told = TRUE].msg = agent[s].msg
      BY DEF AgentShape, Agents
    <3>2. NewAgent \in Agents /\ NewAgent.pc = "idle" /\ NewAgent.msg = NoMessage
      BY DEF NewAgent, Agents
    <3> QED
      BY <2>1, <3>1, <3>2 DEF AgentShape
  <2> QED
    BY <2>4, <2>7, <2>8
<1>3. CASE Authenticates(s)
  <2>1. /\ up[s] # <<>> /\ up' = [up EXCEPT ![s] = Tail(@)] /\ server' = [server EXCEPT ![s] = "ready"]
        /\ UNCHANGED <<page, sock, down, agent, fate, ghosts>> /\ Closed' = Closed
    BY <1>3 DEF Authenticates, Closed
  <2>2. up' \in [Socket -> Seq(Frames)]
    BY <2>1, TailUp DEF SocketShape
  <2>3. SocketShape' /\ PageShape' /\ AgentShape'
    BY <2>1, <2>2 DEF SocketShape, PageShape, AgentShape, page, ghosts
  <2> QED
    BY <2>3
<1> QED
  BY <1>1, <1>2, <1>3

\* What the end of a turn does.
LEMMA TurnEnds ==
    ASSUME SocketShape, AgentShape, NEW s \in Socket, Working(s),
           NEW e \in {<<>>, Error(s)}, EndTurn(s, e)
    PROVE  LET m == agent[s].msg
           IN  /\ m \in Message
               /\ down' \in [Socket -> Seq(Replies)]
               /\ sock[s] # "open" => down' = down
               /\ sock[s] = "open" =>
                     /\ HasDone(down'[s]) /\ (~HasDone(down[s]) => DoneOnce(down'[s]))
                     /\ \A k : About(down'[s], k) <=> About(down[s], k) \/ k = m
               /\ \A t \in Socket : t # s => down'[t] = down[t] /\ agent'[t] = agent[t]
               /\ agent'[s] = Rests(s) /\ Rests(s) \in Agents
               /\ Rests(s).pc = "idle" /\ Rests(s).msg = NoMessage
               /\ ~Rests(s).told /\ Rests(s).late = 0
               /\ fate' \in [Message -> Fates]
               /\ \A k \in Message : k # m => fate'[k] = fate[k]
               /\ fate'[m] = IF fate[m] = "taken" THEN "answered" ELSE fate[m]
               /\ UNCHANGED <<page, sock, up, server, ghosts>>
<1> DEFINE m == agent[s].msg
           f == e \o << <<"turn_done", m>> >>
<1>1. m \in Message
  BY DEF AgentShape, Agents, Working
<1>2. /\ Tells(s, f) /\ agent' = [agent EXCEPT ![s] = Rests(s)]
      /\ fate' = [k \in Message |-> IF k = m /\ fate[k] = "taken" THEN "answered" ELSE fate[k]]
      /\ UNCHANGED <<page, sock, up, server, ghosts>>
  BY DEF EndTurn
<1>3. f \in Seq(Replies) /\ HasDone(f) /\ DoneOnce(f) /\ \A k : About(f, k) <=> k = m
  BY <1>1, Reply DEF Error
<1> HIDE DEF f
<1>4. /\ down' \in [Socket -> Seq(Replies)]
      /\ down'[s] = IF sock[s] = "open" THEN down[s] \o f ELSE down[s]
      /\ \A t \in Socket : t # s => down'[t] = down[t]
  BY <1>2, <1>3, Told
<1>5. down[s] \in Seq(Replies)
  BY DEF SocketShape
<1>6. /\ HasDone(down[s] \o f) /\ (~HasDone(down[s]) => DoneOnce(down[s] \o f))
      /\ \A k : About(down[s] \o f, k) <=> About(down[s], k) \/ k = m
  BY <1>3, <1>5, JoinDown
<1>7. /\ Rests(s) \in Agents /\ Rests(s).pc = "idle" /\ Rests(s).msg = NoMessage
      /\ ~Rests(s).told /\ Rests(s).late = 0
  BY DEF Rests, NewAgent, Agents
<1>8. /\ agent'[s] = Rests(s) /\ \A t \in Socket : t # s => agent'[t] = agent[t]
  BY <1>2 DEF AgentShape
<1>9. /\ fate' \in [Message -> Fates] /\ \A k \in Message : k # m => fate'[k] = fate[k]
      /\ fate'[m] = IF fate[m] = "taken" THEN "answered" ELSE fate[m]
  BY <1>1, <1>2 DEF SocketShape, Fates
<1>10. sock[s] # "open" => down' = down
  BY <1>2 DEF Tells
<1> QED
  BY <1>1, <1>2, <1>4, <1>6, <1>7, <1>8, <1>9, <1>10

\* A round goes on: the agent works before and after, on the same message.
GoesOn(s) ==
    /\ UNCHANGED <<page, chan, fate, ghosts>>
    /\ \A t \in Socket : t # s => agent'[t] = agent[t]
    /\ agent'[s] \in Agents /\ agent[s].pc # "idle" /\ agent'[s].pc # "idle"
    /\ agent'[s].msg = agent[s].msg /\ agent'[s].aborted = agent[s].aborted
    /\ agent'[s].told = agent[s].told
    /\ \/ /\ agent'[s].late = agent[s].late /\ agent'[s].pc \notin Calling
          /\ agent[s].pc \in Calling => ~agent[s].aborted
       \/ /\ \/ agent[s].pc = "snapshot" /\ agent'[s].pc = "model"
             \/ agent[s].pc = "model" /\ agent'[s].pc \in Calling \ {"model"}
          /\ agent'[s].late = IF agent[s].told THEN agent[s].late + 1 ELSE agent[s].late

LEMMA TurnStep ==
    ASSUME AgentShape, NEW s \in Socket,
           ReadsConfig(s) \/ BeginRound(s) \/ CallModel(s) \/ RoundEnds(s) \/ Compresses(s)
    PROVE  \/ GoesOn(s)
           \/ Working(s) /\ \E e \in {<<>>, Error(s)} : EndTurn(s, e)
<1>0. agent \in [Socket -> Agents] /\ agent[s] \in Agents /\ agent[s].late \in Nat
  BY DEF AgentShape, Agents
<1>1. CASE ReadsConfig(s)
  <2>1. PICK pc \in {"round", "stuck"}, p \in {TRUE, agent[s].prompted} :
           agent' = [agent EXCEPT ![s].pc = pc, ![s].prompted = p]
    <3>1. CASE agent' = [agent EXCEPT ![s].pc = "round", ![s].prompted = TRUE]
      BY <3>1
    <3>2. CASE agent' = [agent EXCEPT ![s].pc = "stuck"]
      <4>1. agent' = [agent EXCEPT ![s].pc = "stuck", ![s].prompted = agent[s].prompted]
        BY <1>0, <3>2 DEF Agents
      <4> QED
        BY <4>1
    <3> QED
      BY <1>1, <3>1, <3>2 DEF ReadsConfig
  <2>2. agent[s].pc = "prompt" /\ UNCHANGED <<page, chan, fate, ghosts>>
    BY <1>1 DEF ReadsConfig
  <2>3. /\ agent'[s] \in Agents /\ agent'[s].pc = pc /\ agent'[s].msg = agent[s].msg
        /\ agent'[s].aborted = agent[s].aborted /\ agent'[s].told = agent[s].told
        /\ agent'[s].late = agent[s].late /\ \A t \in Socket : t # s => agent'[t] = agent[t]
    BY <1>0, <2>1 DEF Agents
  <2> QED
    BY <2>2, <2>3 DEF GoesOn, Calling
<1>2. ASSUME NEW pc \in {"snapshot", "round"}, agent' = [agent EXCEPT ![s].pc = pc],
             agent[s].pc = "round" \/ (agent[s].pc \in {"model", "compress"} /\ ~agent[s].aborted),
             UNCHANGED <<page, chan, fate, ghosts>>
      PROVE  GoesOn(s)
  <2>1. /\ agent'[s] \in Agents /\ agent'[s].pc = pc /\ agent'[s].msg = agent[s].msg
        /\ agent'[s].aborted = agent[s].aborted /\ agent'[s].told = agent[s].told
        /\ agent'[s].late = agent[s].late /\ \A t \in Socket : t # s => agent'[t] = agent[t]
    BY <1>0, <1>2 DEF Agents, Calling
  <2> QED
    BY <1>2, <2>1 DEF GoesOn, Calling
<1>3. CASE BeginRound(s)
  BY <1>2, <1>3 DEF BeginRound, Working
<1>4. ASSUME NextRound(s), agent[s].pc \in {"model", "compress"}
      PROVE  GoesOn(s)
  BY <1>2, <1>4 DEF NextRound
<1>5. CASE CallModel(s)
  <2> DEFINE l == IF agent[s].told THEN agent[s].late + 1 ELSE agent[s].late
             n == agent[s].rounds + 1
  <2>1. agent' = [agent EXCEPT ![s].pc = "model", ![s].rounds = n, ![s].late = l]
    BY <1>5 DEF CallModel
  <2>2. n \in Nat /\ l \in Nat
    BY <1>0 DEF Agents
  <2> HIDE DEF n, l
  <2>3. /\ agent'[s] \in Agents /\ agent'[s].pc = "model" /\ agent'[s].msg = agent[s].msg
        /\ agent'[s].aborted = agent[s].aborted /\ agent'[s].told = agent[s].told
        /\ agent'[s].late = l /\ \A t \in Socket : t # s => agent'[t] = agent[t]
    BY <1>0, <2>1, <2>2 DEF Agents, Calling
  <2> QED
    BY <1>5, <2>3 DEF CallModel, GoesOn, l
<1>6. ASSUME NEW pc \in {"compress", "compressLast"}, agent[s].pc = "model",
             agent' = [agent EXCEPT ![s].pc = pc, ![s].late = IF agent[s].told THEN @ + 1 ELSE @],
             UNCHANGED <<page, chan, fate, ghosts>>
      PROVE  GoesOn(s)
  <2> DEFINE l == IF agent[s].told THEN agent[s].late + 1 ELSE agent[s].late
  <2>1. agent' = [agent EXCEPT ![s].pc = pc, ![s].late = l]
    BY <1>6
  <2>2. l \in Nat
    BY <1>0
  <2> HIDE DEF l
  <2>3. /\ agent'[s] \in Agents /\ agent'[s].pc = pc /\ agent'[s].msg = agent[s].msg
        /\ agent'[s].aborted = agent[s].aborted /\ agent'[s].told = agent[s].told
        /\ agent'[s].late = l /\ \A t \in Socket : t # s => agent'[t] = agent[t]
    BY <1>0, <2>1, <2>2 DEF Agents, Calling
  <2> QED
    BY <1>6, <2>3 DEF GoesOn, Calling, l
<1>7. CASE RoundEnds(s)
  <2>1. CASE \E e \in {<<>>, Error(s)} : EndTurn(s, e)
    BY <1>7, <2>1 DEF RoundEnds, Working
  <2>2. CASE ~\E e \in {<<>>, Error(s)} : EndTurn(s, e)
    BY <1>4, <1>6, <1>7, <2>2 DEF RoundEnds
  <2> QED
    BY <2>1, <2>2
<1>8. CASE Compresses(s)
  <2>1. CASE \E e \in {<<>>, Error(s)} : EndTurn(s, e)
    BY <1>8, <2>1 DEF Compresses, Working
  <2>2. CASE ~\E e \in {<<>>, Error(s)} : EndTurn(s, e)
    BY <1>4, <1>8, <2>2 DEF Compresses
  <2> QED
    BY <2>1, <2>2
<1> QED
  BY <1>1, <1>3, <1>5, <1>7, <1>8

\* What an agent does with the frame of a message.
Refuses(s, m) ==
    /\ Working(s) /\ Tells(s, << <<"error", m>> >>)
    /\ fate' = [fate EXCEPT ![m] = "refused"] /\ agent' = agent
AnswersAtOnce(s, m) ==
    /\ ~Working(s) /\ Tells(s, << <<"error", m>>, <<"turn_done", m>> >>)
    /\ fate' = [fate EXCEPT ![m] = "answered"] /\ agent' = agent
TakesUp(s, m) ==
    /\ ~Working(s) /\ down' = down
    /\ agent' = [agent EXCEPT ![s] =
           [NewAgent EXCEPT !.pc = IF agent[s].prompted THEN "round" ELSE "prompt",
                            !.msg = m, !.prompted = agent[s].prompted]]
    /\ fate' = [fate EXCEPT ![m] = "taken"]

LEMMA Handles ==
    ASSUME NEW s \in Socket, HandleUserMessage(s)
    PROVE  \E m \in Message : Hears(s, m) /\ (Refuses(s, m) \/ AnswersAtOnce(s, m) \/ TakesUp(s, m))
BY DEF HandleUserMessage, Refuses, AnswersAtOnce, TakesUp

\* A frame an agent hears.
LEMMA Heard ==
    ASSUME SocketShape, NEW s \in Socket, NEW f, Hears(s, f)
    PROVE  /\ up' \in [Socket -> Seq(Frames)] /\ up[s] \in Seq(Frames) /\ up[s] # <<>>
           /\ Head(up[s]) = f /\ up'[s] = Tail(up[s]) /\ server[s] = "ready"
           /\ \A t \in Socket : t # s => up'[t] = up[t]
           /\ UNCHANGED <<page, sock, server, ghosts>>
<1>1. /\ up \in [Socket -> Seq(Frames)] /\ up[s] # <<>> /\ up' = [up EXCEPT ![s] = Tail(@)]
      /\ UNCHANGED <<page, sock, server, ghosts>>
  BY DEF SocketShape, Hears
<1> QED
  BY <1>1, TailUp DEF Hears

LEMMA TakenUp ==
    ASSUME AgentShape, NEW s \in Socket, NEW m \in Message, TakesUp(s, m)
    PROVE  /\ agent' \in [Socket -> Agents] /\ agent'[s].msg = m /\ agent'[s].pc \in {"round", "prompt"}
           /\ agent'[s].late = 0 /\ ~agent'[s].told
           /\ \A t \in Socket : t # s => agent'[t] = agent[t]
<1> DEFINE pc == IF agent[s].prompted THEN "round" ELSE "prompt"
           p == agent[s].prompted
           a == [NewAgent EXCEPT !.pc = pc, !.msg = m, !.prompted = p]
<1>1. pc \in {"round", "prompt"} /\ p \in BOOLEAN
  BY DEF AgentShape, Agents
<1>2. agent' = [agent EXCEPT ![s] = a]
  BY DEF TakesUp
<1> HIDE DEF pc, p
<1>3. a \in Agents /\ a.msg = m /\ a.pc \in {"round", "prompt"} /\ a.late = 0 /\ a.told = FALSE
  BY <1>1 DEF NewAgent, Agents
<1> HIDE DEF a
<1> QED
  BY <1>2, <1>3 DEF AgentShape

LEMMA AgentTypes ==
    ASSUME Shape, NEW s \in Socket,
           \/ HandleUserMessage(s) \/ HandleAbort(s) \/ HandleUnknown(s)
           \/ ReadsConfig(s) \/ BeginRound(s) \/ CallModel(s) \/ RoundEnds(s) \/ Compresses(s)
    PROVE  Shape'
<1> USE DEF Shape
<1>0. PageShape /\ SocketShape /\ AgentShape /\ agent \in [Socket -> Agents] /\ NoMessage \notin Message
  BY Frame DEF AgentShape
<1>1. ASSUME UNCHANGED <<page, sock, ghosts>>, server' = server, up' \in [Socket -> Seq(Frames)],
             down' \in [Socket -> Seq(Replies)], fate' \in [Message -> Fates]
      PROVE  PageShape' /\ SocketShape'
  <2>1. Closed' = Closed
    BY <1>1 DEF Closed
  <2> QED
    BY <1>1, <2>1 DEF PageShape, SocketShape, page, ghosts
<1>2. ASSUME NEW a \in Agents, agent'[s] = a, a.pc = "idle" <=> a.msg = NoMessage,
             \A t \in Socket : t # s => agent'[t] = agent[t], agent' \in [Socket -> Agents]
      PROVE  AgentShape'
  BY <1>2 DEF AgentShape
<1>3. ASSUME NEW m \in Message, Hears(s, m), Refuses(s, m) \/ AnswersAtOnce(s, m) \/ TakesUp(s, m)
      PROVE  Shape'
  <2>1. /\ up' \in [Socket -> Seq(Frames)] /\ UNCHANGED <<page, sock, server, ghosts>>
    BY <1>0, <1>3, Heard
  <2>2. fate' \in [Message -> Fates]
    BY <1>3 DEF Refuses, AnswersAtOnce, TakesUp, SocketShape, Fates
  <2>3. down' \in [Socket -> Seq(Replies)]
    <3>1. << <<"error", m>> >> \in Seq(Replies) /\ << <<"error", m>>, <<"turn_done", m>> >> \in Seq(Replies)
      BY Frame
    <3> QED
      BY <1>0, <1>3, <3>1, Told DEF Refuses, AnswersAtOnce, TakesUp, SocketShape
  <2>4. AgentShape'
    <3>1. CASE agent' = agent
      BY <3>1 DEF AgentShape
    <3>2. CASE TakesUp(s, m)
      BY <1>0, <1>2, <3>2, TakenUp
    <3> QED
      BY <1>3, <3>1, <3>2 DEF Refuses, AnswersAtOnce
  <2> QED
    BY <1>1, <2>1, <2>2, <2>3, <2>4
<1>4. CASE HandleAbort(s)
  <2>1. /\ Hears(s, "abort") /\ agent' = [agent EXCEPT ![s].aborted = TRUE, ![s].told = TRUE]
        /\ UNCHANGED <<down, fate>>
    BY <1>4 DEF HandleAbort
  <2>2. up' \in [Socket -> Seq(Frames)] /\ UNCHANGED <<page, sock, server, ghosts>>
    BY <1>0, <2>1, Heard
  <2>3. AgentShape'
    <3>1. /\ agent'[s] = [agent[s] EXCEPT !.aborted = TRUE, !.told = TRUE] /\ agent[s] \in Agents
          /\ \A t \in Socket : t # s => agent'[t] = agent[t]
      BY <1>0, <2>1
    <3>2. agent'[s] \in Agents /\ agent'[s].pc = agent[s].pc /\ agent'[s].msg = agent[s].msg
      BY <3>1 DEF Agents
    <3>3. agent' \in [Socket -> Agents]
      BY <1>0, <2>1, <3>2
    <3> QED
      BY <3>1, <3>2, <3>3 DEF AgentShape
  <2> QED
    BY <1>0, <1>1, <2>1, <2>2, <2>3 DEF SocketShape
<1>5. CASE HandleUnknown(s)
  <2>1. Hears(s, "auth") /\ UNCHANGED <<down, agent, fate>>
    BY <1>5 DEF HandleUnknown
  <2>2. up' \in [Socket -> Seq(Frames)] /\ UNCHANGED <<page, sock, server, ghosts>>
    BY <1>0, <2>1, Heard
  <2> QED
    BY <1>0, <1>1, <2>1, <2>2 DEF SocketShape, AgentShape
<1>6. CASE ReadsConfig(s) \/ BeginRound(s) \/ CallModel(s) \/ RoundEnds(s) \/ Compresses(s)
  <2>0. agent' \in [Socket -> Agents]
    <3>1. agent' = [agent EXCEPT ![s] = agent'[s]]
      BY <1>0, <1>6 DEF ReadsConfig, BeginRound, CallModel, RoundEnds, Compresses, NextRound, EndTurn
    <3>2. agent'[s] \in Agents
      BY <1>0, <1>6, TurnStep, TurnEnds DEF GoesOn
    <3> QED
      BY <1>0, <3>1, <3>2
  <2>1. CASE GoesOn(s)
    <3>1. UNCHANGED <<page, sock, server, up, down, fate, ghosts>>
      BY <2>1 DEF GoesOn, chan
    <3>2. agent'[s].pc # "idle" /\ agent'[s].msg # NoMessage
      BY <2>1 DEF GoesOn, AgentShape
    <3>3. AgentShape'
      BY <2>0, <2>1, <3>2 DEF AgentShape, GoesOn
    <3> QED
      BY <1>0, <1>1, <3>1, <3>3 DEF SocketShape
  <2>2. ASSUME Working(s), NEW e \in {<<>>, Error(s)}, EndTurn(s, e)
        PROVE  Shape'
    <3>1. /\ down' \in [Socket -> Seq(Replies)] /\ fate' \in [Message -> Fates]
          /\ UNCHANGED <<page, sock, up, server, ghosts>>
          /\ agent'[s].pc = "idle" /\ agent'[s].msg = NoMessage
          /\ \A t \in Socket : t # s => agent'[t] = agent[t]
      BY <1>0, <2>2, TurnEnds
    <3>2. AgentShape'
      BY <2>0, <3>1 DEF AgentShape
    <3> QED
      BY <1>0, <1>1, <3>1, <3>2 DEF SocketShape
  <2> QED
    BY <1>0, <1>6, <2>1, <2>2, TurnStep
<1> QED
  BY <1>3, <1>4, <1>5, <1>6, Handles

LEMMA NextShape == Shape /\ [Next]_vars => Shape'
<1> SUFFICES ASSUME Shape, [Next]_vars PROVE Shape'
  OBVIOUS
<1>1. CASE UNCHANGED vars
  <2>1. Closed' = Closed
    BY <1>1 DEF vars, chan, Closed
  <2> QED
    BY <1>1, <2>1 DEF vars, page, chan, ghosts, Shape, PageShape, SocketShape, AgentShape
<1> QED
  BY <1>1, EditorTypes, MessageTypes, SocketTypes, AgentTypes
  DEF Next, User, System, PageStep, AgentStep

LEMMA ShapeAlways == Spec => []Shape
BY InitShape, NextShape, PTL DEF Spec

\* The types the run checks.
THEOREM TypeCorrect == Spec => []TypeOK
<1>1. Shape => TypeOK
  <2> SUFFICES ASSUME Shape PROVE TypeOK
    OBVIOUS
  <2>1. IsFiniteSet(pending) /\ Cardinality(pending) <= 1
    <3>1. CASE pending = {}
      BY <3>1, FS_EmptySet
    <3>2. ASSUME NEW m \in pending
          PROVE  IsFiniteSet(pending) /\ Cardinality(pending) <= 1
      <4>1. pending = {m}
        BY <3>2 DEF Shape, PageShape
      <4>2. IsFiniteSet({m}) /\ Cardinality({m}) = 1
        BY FS_Singleton
      <4>3. Cardinality({m}) <= 1
        BY <4>2
      <4> QED
        BY <4>1, <4>2, <4>3
    <3> QED
      BY <3>1, <3>2
  <2>2. timers \in [n : 0..MaxSockets, kept : BOOLEAN]
    <3>1. timers \in [n : Nat, kept : BOOLEAN] /\ timers.n <= MaxSockets
      BY ClosedFinite, Frame DEF Shape, PageShape
    <3>2. timers.n \in 0..MaxSockets
      BY <3>1, Frame
    <3> QED
      BY <3>1, <3>2
  <2>3. loads \in 0..MaxOpens /\ ws \in 0..MaxSockets /\ created \in ws..MaxSockets
    BY Frame DEF Shape, PageShape
  <2>4. \A s \in Socket : /\ agent[s].pc \in {"idle", "prompt", "stuck", "round", "snapshot", "model",
                                               "compress", "compressLast"}
                          /\ (agent[s].pc = "idle") = (agent[s].msg = NoMessage)
    BY DEF Shape, AgentShape, Agents, Calling
  <2>5. \A m \in Message : fate[m] \in {"untyped", "waits", "sent", "taken", "answered", "refused", "dropped"}
    BY DEF Shape, SocketShape, Fates
  <2>6. \A s \in Socket : /\ sock[s] \in {"unused", "connecting", "open", "closing", "closed"}
                          /\ server[s] \in {"none", "waits", "ready", "gone"}
                          /\ up[s] \in Seq(Message \cup {"auth", "abort"})
                          /\ down[s] \in Seq({"error", "turn_done"} \X Message)
    BY DEF Shape, SocketShape, Frames, Replies
  <2> QED
    BY <2>1, <2>2, <2>3, <2>4, <2>5, <2>6 DEF TypeOK, Shape, PageShape
<1> QED
  BY <1>1, ShapeAlways, PTL

----------------------------------------------------------------------------
(* Stopping. *)

\* Which steps touch an agent, and how.
LEMMA AgentMoves ==
    ASSUME Shape, [Next]_vars
    PROVE  \/ agent' = agent
           \/ \E s \in Socket :
                 /\ \A t \in Socket : t # s => agent'[t] = agent[t]
                 /\ \/ GoesOn(s)
                    \/ agent'[s].late = 0 /\ ~agent'[s].told
                    \/ agent'[s] = [agent[s] EXCEPT !.aborted = TRUE, !.told = TRUE]
<1>0. SocketShape /\ AgentShape /\ agent \in [Socket -> Agents]
  BY DEF Shape, AgentShape
<1>1. ASSUME NEW s \in Socket, Closes(s)
      PROVE  /\ \A t \in Socket : t # s => agent'[t] = agent[t]
             /\ \/ agent'[s].late = 0 /\ ~agent'[s].told
                \/ agent'[s] = [agent[s] EXCEPT !.aborted = TRUE, !.told = TRUE]
  <2>1. \/ agent' = [agent EXCEPT ![s] = [agent[s] EXCEPT !.aborted = TRUE, !.told = TRUE]]
        \/ agent' = [agent EXCEPT ![s] = NewAgent]
    BY <1>1 DEF Closes
  <2>2. NewAgent.late = 0 /\ NewAgent.told = FALSE
    BY DEF NewAgent
  <2> QED
    BY <1>0, <2>1, <2>2
<1>2. ASSUME NEW s \in Socket, HandleUserMessage(s)
      PROVE  \/ agent' = agent
             \/ /\ \A t \in Socket : t # s => agent'[t] = agent[t]
                /\ agent'[s].late = 0 /\ ~agent'[s].told
  BY <1>0, <1>2, Handles, TakenUp DEF Refuses, AnswersAtOnce
<1>3. ASSUME NEW s \in Socket, HandleAbort(s)
      PROVE  /\ \A t \in Socket : t # s => agent'[t] = agent[t]
             /\ agent'[s] = [agent[s] EXCEPT !.aborted = TRUE, !.told = TRUE]
  BY <1>0, <1>3 DEF HandleAbort
<1>4. ASSUME NEW s \in Socket, ReadsConfig(s) \/ BeginRound(s) \/ CallModel(s) \/ RoundEnds(s) \/ Compresses(s)
      PROVE  /\ \A t \in Socket : t # s => agent'[t] = agent[t]
             /\ GoesOn(s) \/ (agent'[s].late = 0 /\ ~agent'[s].told)
  <2>1. CASE GoesOn(s)
    BY <2>1 DEF GoesOn
  <2>2. ASSUME Working(s), NEW e \in {<<>>, Error(s)}, EndTurn(s, e)
        PROVE  /\ \A t \in Socket : t # s => agent'[t] = agent[t]
               /\ agent'[s].late = 0 /\ ~agent'[s].told
    BY <1>0, <2>2, TurnEnds
  <2> QED
    BY <1>0, <1>4, <2>1, <2>2, TurnStep
<1>5. CASE agent' = agent
  BY <1>5
<1>6. CASE agent' # agent
  <2>1. \/ \E s \in Socket : Closes(s) \/ HandleUserMessage(s) \/ HandleAbort(s)
        \/ \E s \in Socket : ReadsConfig(s) \/ BeginRound(s) \/ CallModel(s) \/ RoundEnds(s) \/ Compresses(s)
    BY <1>6
    DEF Next, User, System, PageStep, AgentStep, ClickEdit, LoadEnds, Back, Stop, SendMessage,
        Reconnects, Opens, TakesError, TakesTurnDone, Takes, Authenticates, HandleUnknown, vars
  <2> QED
    BY <1>1, <1>2, <1>3, <1>4, <2>1
<1> QED
  BY <1>5, <1>6

\* An agent that was told to stop calls the model twice more at most, for the
\* round it was in and to compress the history after it, and begins no other.
THEOREM AgentsStop == Spec => []StopIsHeard
<1>1. Init => Hearing
  BY DEF Init, Hearing, Heeds, NewAgent, Calling
<1>2. Shape /\ Hearing /\ [Next]_vars => Hearing'
  <2> SUFFICES ASSUME Shape, Hearing, [Next]_vars PROVE Hearing'
    OBVIOUS
  <2>1. CASE agent' = agent
    BY <2>1 DEF Hearing, Heeds
  <2>2. ASSUME NEW s \in Socket, \A t \in Socket : t # s => agent'[t] = agent[t],
               \/ GoesOn(s)
               \/ agent'[s].late = 0 /\ ~agent'[s].told
               \/ agent'[s] = [agent[s] EXCEPT !.aborted = TRUE, !.told = TRUE]
        PROVE  Hearing'
    <3>0. agent[s] \in Agents /\ Heeds(agent[s])
      BY DEF Shape, AgentShape, Hearing
    <3>1. Heeds(agent'[s])
      <4>1. CASE GoesOn(s)
        BY <3>0, <4>1 DEF GoesOn, Heeds, Calling
      <4>2. CASE agent'[s].late = 0 /\ ~agent'[s].told
        BY <4>2 DEF Heeds
      <4>3. CASE agent'[s] = [agent[s] EXCEPT !.aborted = TRUE, !.told = TRUE]
        <5>1. /\ agent'[s].aborted = TRUE /\ agent'[s].told = TRUE
              /\ agent'[s].late = agent[s].late /\ agent'[s].pc = agent[s].pc
          BY <3>0, <4>3 DEF Agents
        <5> QED
          BY <3>0, <5>1 DEF Heeds
      <4> QED
        BY <2>2, <4>1, <4>2, <4>3
    <3>2. \A t \in Socket : t # s => Heeds(agent'[t])
      BY <2>2 DEF Hearing
    <3> QED
      BY <3>1, <3>2 DEF Hearing
  <2> QED
    BY <2>1, <2>2, AgentMoves
<1>3. Hearing => StopIsHeard
  BY DEF Hearing, Heeds, StopIsHeard
<1> QED
  BY <1>1, <1>2, <1>3, ShapeAlways, PTL DEF Spec

----------------------------------------------------------------------------
(* Links. *)

LEMMA LinkedAlways == Spec => []Linked
<1>1. Init => Linked
  BY DEF Init, Linked
<1>2. Shape /\ Linked /\ [Next]_vars => Linked'
  <2> SUFFICES ASSUME Shape, Linked, [Next]_vars PROVE Linked'
    OBVIOUS
  <2>0. /\ PageShape /\ SocketShape /\ AgentShape /\ agent \in [Socket -> Agents]
        /\ sock \in [Socket -> {"unused", "connecting", "open", "closing", "closed"}]
        /\ up \in [Socket -> Seq(Frames)] /\ down \in [Socket -> Seq(Replies)]
        /\ server \in [Socket -> {"none", "waits", "ready", "gone"}]
    BY DEF Shape, SocketShape, AgentShape
  <2>1. CASE UNCHANGED <<chan, agent>>
    BY <2>1 DEF Linked, chan
  <2>2. ASSUME CreateConnection, UNCHANGED <<up, down, server, agent>>
        PROVE  Linked'
    <3>1. /\ created' \in Socket /\ sock[created'] = "unused" /\ sock'[created'] = "connecting"
          /\ \A s \in Socket : s # created' => sock'[s] = sock[s]
      BY <2>0, <2>2, Created
    <3> QED
      BY <2>2, <3>1 DEF Linked
  <2>3. CASE LoadEnds
    BY <2>1, <2>2, <2>3 DEF LoadEnds, chan
  <2>4. CASE Reconnects
    BY <2>1, <2>2, <2>4 DEF Reconnects, chan
  <2>5. CASE Back
    <3>1. ws \in Socket => sock[ws] # "unused"
      BY <2>0, Frame DEF PageShape, SocketShape
    <3>2. /\ \A s \in Socket : sock'[s] = sock[s] \/ (s = ws /\ sock'[s] = "closing")
          /\ UNCHANGED <<up, down, server, agent>>
      BY <2>5 DEF Back
    <3> QED
      BY <3>1, <3>2 DEF Linked
  <2>6. ASSUME UNCHANGED <<sock, server, agent, down>>, NEW f \in Frames, WsSend(f)
        PROVE  Linked'
    <3>1. \A s \in Socket : up'[s] = up[s] \/ sock[s] = "open"
      BY <2>0, <2>6, Sent
    <3> QED
      BY <2>6, <3>1 DEF Linked
  <2>7. CASE Stop
    BY <2>6, <2>7, Frame DEF Stop
  <2>8. ASSUME NEW m \in Message, SendMessage(m)
        PROVE  Linked'
    BY <2>6, <2>8, Frame DEF SendMessage, SendUserMessage
  <2>9. ASSUME NEW s \in Socket, TakesError(s) \/ TakesTurnDone(s)
        PROVE  Linked'
    <3>1. sock[s] = "open" /\ \A t \in Socket : t # s => down'[t] = down[t]
      BY <2>0, <2>9 DEF TakesError, TakesTurnDone, Takes
    <3>2. UNCHANGED <<sock, server, agent>>
      BY <2>9 DEF TakesError, TakesTurnDone, Takes
    <3>3. \A t \in Socket : up'[t] = up[t] \/ sock[t] = "open"
      <4>1. CASE up' = up
        BY <4>1
      <4>2. ASSUME NEW m \in pending, SendUserMessage(m)
            PROVE  \A t \in Socket : up'[t] = up[t] \/ sock[t] = "open"
        <5>1. m \in Frames
          BY <4>2, <2>0, Frame DEF PageShape
        <5> QED
          BY <2>0, <4>2, <5>1, Sent DEF SendUserMessage
      <4> QED
        BY <2>9, <4>1, <4>2 DEF TakesError, TakesTurnDone
    <3> QED
      BY <3>1, <3>2, <3>3 DEF Linked
  <2>10. ASSUME NEW s \in Socket, Opens(s)
         PROVE  Linked'
    <3>1. /\ sock[s] = "connecting" /\ sock' = [sock EXCEPT ![s] = "open"]
          /\ server' = [server EXCEPT ![s] = "waits"] /\ UNCHANGED <<down, agent>>
          /\ \A t \in Socket : up'[t] = up[t] \/ t = s \/ sock[t] = "open"
      BY <2>10 DEF Opens
    <3> QED
      BY <2>0, <3>1 DEF Linked
  <2>11. ASSUME NEW s \in Socket, Closes(s)
         PROVE  Linked'
    <3>1. /\ sock' = [sock EXCEPT ![s] = "closed"] /\ server' = [server EXCEPT ![s] = "gone"]
          /\ up' = [up EXCEPT ![s] = <<>>] /\ down' = [down EXCEPT ![s] = <<>>]
          /\ \A t \in Socket : t # s => agent'[t] = agent[t]
      BY <2>0, <2>11 DEF Closes
    <3> QED
      BY <2>0, <3>1 DEF Linked
  <2>12. ASSUME NEW s \in Socket, Authenticates(s)
         PROVE  Linked'
    <3>1. /\ sock[s] = "open" /\ UNCHANGED <<sock, down, agent>>
          /\ \A t \in Socket : t # s => up'[t] = up[t] /\ server'[t] = server[t]
      BY <2>0, <2>12 DEF Authenticates
    <3> QED
      BY <3>1 DEF Linked
  <2>13. ASSUME NEW s \in Socket,
                HandleUserMessage(s) \/ HandleAbort(s) \/ HandleUnknown(s)
         PROVE  Linked'
    <3>1. /\ server[s] = "ready" /\ UNCHANGED <<sock, server>>
          /\ \A t \in Socket : t # s => up'[t] = up[t]
      BY <2>0, <2>13 DEF HandleUserMessage, HandleAbort, HandleUnknown, Hears
    <3>2. \A t \in Socket : t # s => down'[t] = down[t] /\ agent'[t] = agent[t]
      BY <2>0, <2>13 DEF HandleUserMessage, HandleAbort, HandleUnknown, Tells
    <3>3. sock[s] \in {"open", "closing"}
      BY <3>1 DEF Linked
    <3> QED
      BY <3>1, <3>2, <3>3 DEF Linked
  <2>14. ASSUME NEW s \in Socket, GoesOn(s)
         PROVE  Linked'
    <3>1. NewAgent.pc = "idle"
      BY DEF NewAgent
    <3>2. sock[s] \notin {"unused", "connecting"}
      BY <2>14, <3>1 DEF Linked, GoesOn
    <3> QED
      BY <2>14, <3>2 DEF Linked, GoesOn, chan
  <2>15. ASSUME NEW s \in Socket, Working(s), NEW e \in {<<>>, Error(s)}, EndTurn(s, e)
         PROVE  Linked'
    <3>1. /\ UNCHANGED <<sock, up, server>>
          /\ \A t \in Socket : t # s => down'[t] = down[t] /\ agent'[t] = agent[t]
          /\ sock[s] # "open" => down' = down
      BY <2>0, <2>15, TurnEnds
    <3>2. sock[s] \notin {"unused", "connecting"}
      BY <2>15 DEF Linked, Working, NewAgent
    <3> QED
      BY <3>1, <3>2 DEF Linked
  <2>16. CASE ClickEdit \/ UNCHANGED vars
    BY <2>1, <2>16 DEF ClickEdit, vars
  <2> QED
    BY <2>0, <2>3, <2>4, <2>5, <2>7, <2>8, <2>9, <2>10, <2>11, <2>12, <2>13, <2>14, <2>15, <2>16,
       TurnStep
    DEF Next, User, System, PageStep, AgentStep
<1> QED
  BY <1>1, <1>2, ShapeAlways, PTL DEF Spec

----------------------------------------------------------------------------
(* Turns. *)

LEMMA StaysOne ==
    ASSUME NEW s \in Socket, OneTurn(s), Single(up'[s]), DoneOnce(down'[s]),
           \A m \in Message : In(up'[s], m) => In(up[s], m),
           Working(s)' => Working(s), HasDone(down'[s]) => HasDone(down[s]),
           s = ws' /\ ~thinking' => s = ws /\ ~thinking
    PROVE  OneTurn(s)'
BY DEF OneTurn, Asks

\* A frame that is no message, or a message from an idle panel.
LEMMA SendsOne ==
    ASSUME PageShape, SocketShape, NEW f \in Frames, WsSend(f), UNCHANGED <<ws, down, agent>>,
           \A s \in Socket : OneTurn(s),
           \/ f \notin Message /\ thinking' = thinking
           \/ thinking' = TRUE /\ ~thinking
    PROVE  \A s \in Socket : OneTurn(s)'
<1> TAKE s \in Socket
<1>0. OneTurn(s) /\ up[s] \in Seq(Frames)
  BY DEF SocketShape
<1>1. CASE up'[s] = up[s]
  BY <1>0, <1>1, StaysOne DEF OneTurn, Working
<1>2. CASE s = ws /\ up'[s] = Append(up[s], f)
  <2>1. CASE f \notin Message /\ thinking' = thinking
    <3>1. Single(up'[s]) /\ \A m \in Message : In(up'[s], m) => In(up[s], m)
      BY <1>0, <1>2, <2>1, AppendUp DEF OneTurn
    <3> QED
      BY <1>0, <2>1, <3>1, StaysOne DEF OneTurn, Working
  <2>2. CASE thinking' = TRUE /\ ~thinking
    <3>1. ~Asks(s) /\ ~Working(s) /\ ~HasDone(down[s]) /\ DoneOnce(down[s])
      BY <1>0, <1>2, <2>2 DEF OneTurn
    <3>2. Single(up'[s])
      BY <1>0, <1>2, <3>1, AppendUp DEF Asks
    <3> QED
      BY <2>2, <3>1, <3>2 DEF OneTurn, Working
  <2> QED
    BY <2>1, <2>2
<1> QED
  BY <1>1, <1>2, Sent

LEMMA NewSocketIsOne ==
    ASSUME Shape, Linked, CreateConnection, UNCHANGED <<up, down, agent>>,
           \A s \in Socket : OneTurn(s)
    PROVE  \A s \in Socket : OneTurn(s)'
<1>1. ws' \in Socket /\ sock[ws'] = "unused"
  BY Created DEF Shape
<1>2. up[ws'] = <<>> /\ down[ws'] = <<>> /\ agent[ws'].pc = "idle"
  <2>1. NewAgent.pc = "idle"
    BY DEF NewAgent
  <2> QED
    BY <1>1, <2>1 DEF Linked
<1>3. ASSUME NEW s \in Socket, s = ws'
      PROVE  OneTurn(s)'
  <2>1. up'[s] = <<>> /\ down'[s] = <<>> /\ agent'[s].pc = "idle"
    BY <1>2, <1>3
  <2> QED
    BY <2>1, Empty DEF OneTurn, Asks, Working
<1>4. ASSUME NEW s \in Socket, s # ws'
      PROVE  OneTurn(s)'
  BY <1>4, StaysOne DEF OneTurn, Working
<1> QED
  BY <1>3, <1>4

\* No step makes a lost turn good.
LEMMA LooseStays ==
    ASSUME Shape, [Next]_vars, loose
    PROVE  loose'
<1>1. ASSUME NEW s \in Socket, ReadsConfig(s) \/ BeginRound(s) \/ CallModel(s) \/ RoundEnds(s) \/ Compresses(s)
      PROVE  loose' = loose
  BY <1>1, TurnStep, TurnEnds DEF Shape, GoesOn, ghosts
<1> QED
  BY <1>1
  DEF Next, User, System, PageStep, AgentStep, ClickEdit, LoadEnds, Back, Stop, SendMessage,
      Reconnects, Opens, Closes, TakesError, TakesTurnDone, Takes, Authenticates,
      HandleUserMessage, HandleAbort, HandleUnknown, Hears, ghosts, vars

LEMMA NextTurns ==
    ASSUME Shape, Linked, TurnByTurn, [Next]_vars
    PROVE  TurnByTurn'
<1> SUFFICES ASSUME ~loose'
             PROVE  (\A s \in Socket : OneTurn(s)') /\ \A m \in Message : fate'[m] # "refused"
  BY DEF TurnByTurn
<1>0. /\ PageShape /\ SocketShape /\ AgentShape /\ agent \in [Socket -> Agents]
      /\ up \in [Socket -> Seq(Frames)] /\ down \in [Socket -> Seq(Replies)]
      /\ fate \in [Message -> Fates] /\ ~loose
      /\ \A s \in Socket : OneTurn(s)
      /\ \A m \in Message : fate[m] # "refused"
  BY LooseStays DEF Shape, SocketShape, AgentShape, TurnByTurn, PageShape
<1> DEFINE Goal == (\A s \in Socket : OneTurn(s)') /\ \A m \in Message : fate'[m] # "refused"
<1>1. ASSUME UNCHANGED <<up, down, agent>>, \A m \in Message : fate'[m] # "refused",
             \A s \in Socket : s = ws' /\ ~thinking' => s = ws /\ ~thinking
      PROVE  Goal
  BY <1>0, <1>1, StaysOne DEF OneTurn, Working
<1>2. \A ms : Drops(ms) => \A m \in Message : fate'[m] # "refused"
  BY <1>0 DEF Drops
<1>3. ASSUME CreateConnection, UNCHANGED <<up, down, agent>>, \A m \in Message : fate'[m] # "refused"
      PROVE  Goal
  BY <1>0, <1>3, NewSocketIsOne
<1>4. ASSUME NEW m \in Message, SendUserMessage(m)
      PROVE  \A k \in Message : fate'[k] # "refused"
  BY <1>0, <1>4 DEF SendUserMessage
<1>a. fate' = fate => \A m \in Message : fate'[m] # "refused"
  BY <1>0
<1> HIDE DEF Goal
<1>5. ASSUME ClickEdit \/ UNCHANGED vars
      PROVE  Goal
  BY <1>1, <1>5, <1>a DEF ClickEdit, vars, page, chan
<1>6. ASSUME LoadEnds
      PROVE  Goal
  BY <1>1, <1>2, <1>3, <1>6, <1>a DEF LoadEnds
<1>7. ASSUME Reconnects
      PROVE  Goal
  BY <1>1, <1>3, <1>7, <1>a DEF Reconnects
<1>8. ASSUME Back
      PROVE  Goal
  <2>1. 0 \notin Socket
    BY Frame
  <2> QED
    BY <1>1, <1>8, <1>a, <2>1 DEF Back
<1>9. ASSUME NEW m \in Message, SendMessage(m)
      PROVE  Goal
  <2>1. UNCHANGED <<ws, down, agent>>
    BY <1>9 DEF SendMessage
  <2>2. CASE thinking
    <3>1. /\ WsSend("abort") /\ thinking' = thinking
          /\ fate' = [k \in Message |-> IF k = m THEN "waits"
                                        ELSE IF k \in pending THEN "dropped" ELSE fate[k]]
      BY <1>9, <2>2 DEF SendMessage
    <3> QED
      BY <1>0, <2>1, <3>1, SendsOne, Frame DEF Goal
  <2>3. CASE ~thinking
    <3>1. SendUserMessage(m)
      BY <1>9, <2>3 DEF SendMessage
    <3> QED
      BY <1>0, <1>4, <2>1, <2>3, <3>1, SendsOne, Frame DEF Goal, SendUserMessage
  <2> QED
    BY <2>2, <2>3
<1>10. ASSUME NEW s \in Socket, TakesTurnDone(s)
       PROVE  Goal
  <2>1. /\ s = ws /\ down[s] # <<>> /\ Head(down[s])[1] = "turn_done"
        /\ down' = [down EXCEPT ![s] = Tail(@)] /\ UNCHANGED <<ws, sock, agent>>
    BY <1>0, <1>10 DEF TakesTurnDone, Takes
  <2>2. /\ ~Asks(s) /\ ~Working(s) /\ Single(up[s])
        /\ down'[s] = Tail(down[s]) /\ ~HasDone(down'[s]) /\ DoneOnce(down'[s])
    BY <1>0, <2>1, TailDown DEF OneTurn
  <2>3. Single(up'[s]) /\ ((\E m \in Message : In(up'[s], m)) => thinking')
    <3>1. CASE up' = up
      BY <2>2, <3>1 DEF Asks
    <3>2. ASSUME NEW m \in Message, SendUserMessage(m)
          PROVE  Single(up'[s]) /\ thinking'
      <4>1. up'[s] = up[s] \/ up'[s] = Append(up[s], m)
        BY <1>0, <2>1, <3>2, Sent, Frame DEF SendUserMessage
      <4>2. up[s] \in Seq(Frames) /\ m \in Frames
        BY <1>0, Frame
      <4> QED
        BY <2>2, <3>2, <4>1, <4>2, AppendUp DEF Asks, SendUserMessage
    <3> QED
      BY <1>0, <1>10, <3>1, <3>2 DEF TakesTurnDone, PageShape
  <2>4. OneTurn(s)'
    BY <2>1, <2>2, <2>3 DEF OneTurn, Asks, Working
  <2>5. ASSUME NEW t \in Socket, t # s
        PROVE  OneTurn(t)'
    <3>1. up'[t] = up[t] /\ down'[t] = down[t]
      <4>1. down'[t] = down[t]
        BY <1>0, <2>1, <2>5
      <4>2. up' = up \/ \E m \in Message : WsSend(m)
        BY <1>0, <1>10 DEF TakesTurnDone, SendUserMessage, PageShape
      <4> QED
        BY <1>0, <2>1, <2>5, <4>1, <4>2, Sent, Frame
    <3> QED
      BY <1>0, <2>1, <2>5, <3>1, StaysOne DEF OneTurn, Working
  <2>6. \A m \in Message : fate'[m] # "refused"
    BY <1>0, <1>4, <1>10 DEF TakesTurnDone, PageShape
  <2> QED
    BY <2>4, <2>5, <2>6 DEF Goal
<1>11. ASSUME NEW s \in Socket, Stop \/ TakesError(s)
       PROVE  Goal
  BY <1>11 DEF Stop, TakesError, Takes
<1>12. ASSUME NEW s \in Socket, Opens(s)
       PROVE  Goal
  <2>1. UNCHANGED <<ws, thinking, down, agent, fate>>
    BY <1>12 DEF Opens, page
  <2>2. \A t \in Socket : up'[t] = up[t] \/ up'[t] = Append(up[t], "auth")
    BY <1>12 DEF Opens
  <2>3. ASSUME NEW t \in Socket
        PROVE  Single(up'[t]) /\ \A m \in Message : In(up'[t], m) => In(up[t], m)
    <3>1. up[t] \in Seq(Frames) /\ "auth" \in Frames /\ "auth" \notin Message /\ Single(up[t])
      BY <1>0, Frame DEF OneTurn
    <3>2. /\ Single(Append(up[t], "auth"))
          /\ \A m \in Message : In(Append(up[t], "auth"), m) => In(up[t], m)
      BY <3>1, AppendUp
    <3> QED
      BY <2>2, <3>1, <3>2
  <2> QED
    BY <1>0, <2>1, <2>3, StaysOne DEF OneTurn, Working, Goal
<1>13. ASSUME NEW s \in Socket, Closes(s)
       PROVE  Goal
  <2>1. /\ up' = [up EXCEPT ![s] = <<>>] /\ down' = [down EXCEPT ![s] = <<>>]
        /\ \A t \in Socket : Working(t)' => Working(t)
        /\ UNCHANGED <<ws, thinking>> /\ Drops(Lost(s))
    <3>1. [agent[s] EXCEPT !.aborted = TRUE, !.told = TRUE].pc = agent[s].pc
          /\ NewAgent.pc = "idle"
      BY <1>0 DEF Agents, NewAgent
    <3> QED
      BY <1>0, <1>13, <3>1 DEF Closes, Working
  <2>2. ASSUME NEW t \in Socket
        PROVE  OneTurn(t)'
    BY <1>0, <2>1, Empty, StaysOne DEF OneTurn
  <2> QED
    BY <1>2, <2>1, <2>2 DEF Goal
<1>14. ASSUME NEW s \in Socket, up[s] # <<>>, up'[s] = Tail(up[s]),
              \A t \in Socket : t # s => up'[t] = up[t],
              UNCHANGED <<ws, thinking, down, fate>>, \A t \in Socket : Working(t)' => Working(t)
       PROVE  Goal
  <2>1. ASSUME NEW t \in Socket
        PROVE  OneTurn(t)'
    <3>1. Single(up'[t]) /\ \A m \in Message : In(up'[t], m) => In(up[t], m)
      BY <1>0, <1>14, TailUp DEF OneTurn
    <3> QED
      BY <1>0, <1>14, <3>1, StaysOne DEF OneTurn
  <2> QED
    BY <1>0, <1>14, <2>1 DEF Goal
<1>15. ASSUME NEW s \in Socket, Authenticates(s)
       PROVE  Goal
  BY <1>0, <1>14, <1>15 DEF Authenticates, page, Working
<1>16. ASSUME NEW s \in Socket, NEW f, Hears(s, f), HandleAbort(s) \/ HandleUnknown(s)
       PROVE  Goal
  <2>1. /\ up[s] # <<>> /\ up'[s] = Tail(up[s]) /\ UNCHANGED <<ws, thinking, down, fate>>
        /\ \A t \in Socket : t # s => up'[t] = up[t]
    BY <1>0, <1>16, Heard DEF HandleAbort, HandleUnknown, page
  <2>2. \A t \in Socket : Working(t)' => Working(t)
    <3>1. CASE agent' = agent
      BY <3>1 DEF Working
    <3>2. CASE agent' = [agent EXCEPT ![s].aborted = TRUE, ![s].told = TRUE]
      <4>1. agent'[s].pc = agent[s].pc /\ \A t \in Socket : t # s => agent'[t] = agent[t]
        BY <1>0, <3>2 DEF Agents
      <4> QED
        BY <4>1 DEF Working
    <3> QED
      BY <1>16, <3>1, <3>2 DEF HandleAbort, HandleUnknown
  <2> QED
    BY <1>14, <2>1, <2>2
<1>17. ASSUME NEW s \in Socket, HandleUserMessage(s)
       PROVE  Goal
  <2>1. PICK m \in Message :
           Hears(s, m) /\ (Refuses(s, m) \/ AnswersAtOnce(s, m) \/ TakesUp(s, m))
    BY <1>17, Handles
  <2>2. /\ up[s] \in Seq(Frames) /\ up[s] # <<>> /\ Head(up[s]) = m /\ up'[s] = Tail(up[s])
        /\ \A t \in Socket : t # s => up'[t] = up[t]
        /\ UNCHANGED <<ws, thinking, sock>>
    BY <1>0, <2>1, Heard DEF page
  <2>3. Asks(s) /\ Single(up'[s]) /\ \A k \in Message : ~In(up'[s], k)
    BY <1>0, <2>2, TailUp DEF OneTurn, Asks
  <2>4. ~Working(s) /\ ~HasDone(down[s]) /\ DoneOnce(down[s]) /\ (s = ws => thinking)
    BY <1>0, <2>3 DEF OneTurn
  <2>5. ASSUME AnswersAtOnce(s, m)
        PROVE  OneTurn(s)' /\ \A t \in Socket : t # s => down'[t] = down[t] /\ agent'[t] = agent[t]
    <3> DEFINE e == << <<"error", m>>, <<"turn_done", m>> >>
    <3>1. e \in Seq(Replies) /\ DoneOnce(e)
      BY Reply
    <3> HIDE DEF e
    <3>2. /\ down'[s] \in {down[s], down[s] \o e}
          /\ \A t \in Socket : t # s => down'[t] = down[t]
      BY <1>0, <2>5, <3>1, Told DEF AnswersAtOnce, e
    <3>3. DoneOnce(down'[s])
      <4>1. down[s] \in Seq(Replies)
        BY <1>0
      <4>2. DoneOnce(down[s] \o e)
        BY <2>4, <3>1, <4>1, JoinDown
      <4> QED
        BY <2>4, <3>2, <4>2
    <3> QED
      BY <2>2, <2>3, <2>4, <2>5, <3>2, <3>3 DEF OneTurn, Asks, Working, AnswersAtOnce
  <2>6. ASSUME TakesUp(s, m)
        PROVE  OneTurn(s)' /\ \A t \in Socket : t # s => down'[t] = down[t] /\ agent'[t] = agent[t]
    BY <1>0, <2>2, <2>3, <2>4, <2>6, TakenUp DEF OneTurn, Asks, Working, TakesUp
  <2>7. /\ OneTurn(s)' /\ \A t \in Socket : t # s => down'[t] = down[t] /\ agent'[t] = agent[t]
        /\ \A k \in Message : fate'[k] # "refused"
    BY <1>0, <2>1, <2>4, <2>5, <2>6 DEF Refuses, AnswersAtOnce, TakesUp
  <2>8. ASSUME NEW t \in Socket, t # s
        PROVE  OneTurn(t)'
    BY <1>0, <2>2, <2>7, <2>8, StaysOne DEF OneTurn, Working
  <2> QED
    BY <2>7, <2>8 DEF Goal
<1>18. ASSUME NEW s \in Socket, GoesOn(s)
       PROVE  Goal
  <2>1. UNCHANGED <<ws, thinking, up, down, fate>> /\ \A t \in Socket : Working(t)' => Working(t)
    BY <1>18 DEF GoesOn, page, chan, Working
  <2> QED
    BY <1>0, <2>1, StaysOne DEF OneTurn, Goal
<1>19. ASSUME NEW s \in Socket, Working(s), NEW e \in {<<>>, Error(s)}, EndTurn(s, e)
       PROVE  Goal
  <2>1. /\ UNCHANGED <<ws, thinking, up, sock>>
        /\ \A t \in Socket : t # s => down'[t] = down[t] /\ agent'[t] = agent[t]
        /\ agent'[s].pc = "idle"
        /\ sock[s] # "open" => down' = down
        /\ sock[s] = "open" /\ ~HasDone(down[s]) => DoneOnce(down'[s])
    BY <1>0, <1>19, TurnEnds DEF page
  <2>a. \A m \in Message : fate'[m] # "refused"
    <3>1. \A m \in Message : fate'[m] \in {fate[m], "answered"}
      BY <1>0, <1>19, TurnEnds
    <3> QED
      BY <1>0, <3>1
  <2>2. ~Asks(s) /\ ~HasDone(down[s]) /\ Single(up[s]) /\ DoneOnce(down[s]) /\ (s = ws => thinking)
    BY <1>0, <1>19 DEF OneTurn
  <2>3. OneTurn(s)'
    BY <2>1, <2>2 DEF OneTurn, Asks, Working
  <2>4. ASSUME NEW t \in Socket, t # s
        PROVE  OneTurn(t)'
    BY <1>0, <2>1, <2>4, StaysOne DEF OneTurn, Working
  <2> QED
    BY <2>a, <2>3, <2>4 DEF Goal
<1>20. Goal
  <2>1. ASSUME NEW s \in Socket, ReadsConfig(s) \/ BeginRound(s) \/ CallModel(s) \/ RoundEnds(s) \/ Compresses(s)
        PROVE  Goal
    BY <1>0, <1>18, <1>19, <2>1, TurnStep
  <2>2. ASSUME NEW s \in Socket, HandleAbort(s) \/ HandleUnknown(s)
        PROVE  Goal
    BY <1>16, <2>2 DEF HandleAbort, HandleUnknown
  <2>3. Stop => Goal
    BY <1>11 DEF Stop
  <2> QED
    BY <1>5, <1>6, <1>7, <1>8, <1>9, <1>10, <1>11, <1>12, <1>13, <1>15, <1>17, <2>1, <2>2, <2>3
    DEF Next, User, System, PageStep, AgentStep
<1> QED
  BY <1>20 DEF Goal

\* A busy agent refuses a message only after the panel left its turn.
THEOREM RefusalsExplained == Spec => []RefusedExplained
<1>1. Init => TurnByTurn
  BY Empty DEF Init, TurnByTurn, OneTurn, Asks, Working, NewAgent
<1>2. TurnByTurn => RefusedExplained
  BY DEF TurnByTurn, RefusedExplained
<1> QED
  BY <1>1, <1>2, NextTurns, LinkedAlways, ShapeAlways, PTL DEF Spec


----------------------------------------------------------------------------
(* Where messages are. *)

LEMMA SendsOther ==
    ASSUME PageShape, SocketShape, NEW f \in Frames, f \notin Message, WsSend(f),
           \A s \in Socket : Distinct(up[s])
    PROVE  \A s \in Socket : /\ Distinct(up'[s])
                             /\ \A m \in Message : In(up'[s], m) <=> In(up[s], m)
<1> TAKE s \in Socket
<1>1. up[s] \in Seq(Frames) /\ Distinct(up[s])
  BY DEF SocketShape
<1>2. up'[s] = up[s] \/ up'[s] = Append(up[s], f)
  BY Sent
<1>3. Distinct(Append(up[s], f)) /\ \A m \in Message : In(Append(up[s], f), m) <=> In(up[s], m)
  BY <1>1, AppendUp
<1> QED
  BY <1>1, <1>2, <1>3

LEMMA SendsMessage ==
    ASSUME PageShape, SocketShape, NEW m \in Message, SendUserMessage(m),
           \A s \in Socket : Distinct(up[s]) /\ ~In(up[s], m)
    PROVE  /\ thinking' = TRUE /\ asked' = m
           /\ \A s \in Socket : Distinct(up'[s])
           /\ \A s \in Socket, k \in Message : k # m => (In(up'[s], k) <=> In(up[s], k))
           /\ \A s \in Socket : In(up'[s], m) => s = ws /\ fate'[m] = "sent"
           /\ \/ fate'[m] = "dropped"
              \/ fate'[m] = "sent" /\ ws \in Socket /\ sock[ws] = "open" /\ In(up'[ws], m)
           /\ \A k \in Message : k # m => fate'[k] = fate[k]
<1>1. /\ WsSend(m) /\ m \in Frames /\ fate \in [Message -> Fates] /\ up \in [Socket -> Seq(Frames)]
      /\ fate' = [fate EXCEPT ![m] = IF CanSend THEN "sent" ELSE "dropped"]
      /\ thinking' = TRUE /\ asked' = m
  BY Frame DEF SendUserMessage, SocketShape
<1>2. /\ fate'[m] = IF CanSend THEN "sent" ELSE "dropped"
      /\ \A k \in Message : k # m => fate'[k] = fate[k]
  BY <1>1
<1>3. /\ CanSend => ws \in Socket /\ sock[ws] = "open" /\ up'[ws] = Append(up[ws], m)
      /\ ~CanSend => up' = up
      /\ \A s \in Socket : s # ws => up'[s] = up[s]
  BY <1>1, Sent
<1>4. ASSUME NEW s \in Socket
      PROVE  /\ Distinct(Append(up[s], m)) /\ In(Append(up[s], m), m)
             /\ \A k \in Message : k # m => (In(Append(up[s], m), k) <=> In(up[s], k))
  BY <1>1, AppendUp
<1>5. CASE CanSend
  BY <1>1, <1>2, <1>3, <1>4, <1>5
<1>6. CASE ~CanSend
  BY <1>1, <1>2, <1>3, <1>6
<1> QED
  BY <1>5, <1>6

LEMMA TakesOff ==
    ASSUME SocketShape, NEW s \in Socket, up[s] # <<>>, up'[s] = Tail(up[s]),
           \A t \in Socket : t # s => up'[t] = up[t],
           \A t \in Socket : Distinct(up[t])
    PROVE  /\ In(up[s], Head(up[s]))
           /\ \A t \in Socket : Distinct(up'[t])
           /\ \A t \in Socket, k \in Message : In(up'[t], k) => In(up[t], k)
           /\ \A t \in Socket, k \in Message :
                 t # s \/ k # Head(up[s]) => (In(up'[t], k) <=> In(up[t], k))
           /\ Head(up[s]) \in Message => ~In(up'[s], Head(up[s]))
<1>1. up[s] \in Seq(Frames) /\ Distinct(up[s])
  BY DEF SocketShape
<1>2. /\ In(up[s], Head(up[s])) /\ Distinct(Tail(up[s]))
      /\ \A m : In(Tail(up[s]), m) => In(up[s], m)
      /\ \A m : In(up[s], m) => m = Head(up[s]) \/ In(Tail(up[s]), m)
      /\ Head(up[s]) \in Message => ~In(Tail(up[s]), Head(up[s]))
  BY <1>1, TailUp
<1> QED
  BY <1>2

LEMMA StaysPlaced ==
    ASSUME NEW m \in Message, Placed(m),
           \A s \in Socket : In(up'[s], m) => In(up[s], m),
           \A s \in Socket : About(down'[s], m) => About(down[s], m),
           \A s \in Socket : agent'[s].msg = m => agent[s].msg = m,
           \A s \in Socket : agent'[s].msg = m /\ sock'[s] \notin {"open", "closing"} =>
                                sock[s] \notin {"open", "closing"} \/ fate'[m] = "dropped",
           m \in pending' => m \in pending,
           \/ fate'[m] = fate[m]
           \/ fate'[m] = "dropped" /\ m \notin pending' /\ \A s \in Socket : ~In(up'[s], m)
    PROVE  Placed(m)'
BY DEF Placed

LEMMA NextTraced ==
    ASSUME Shape, Linked, Traced, [Next]_vars
    PROVE  Traced'
<1>0. /\ PageShape /\ SocketShape /\ AgentShape /\ agent \in [Socket -> Agents]
      /\ up \in [Socket -> Seq(Frames)] /\ down \in [Socket -> Seq(Replies)]
      /\ fate \in [Message -> Fates] /\ pending \in SUBSET Message
      /\ \A s \in Socket : Distinct(up[s])
      /\ \A m \in Message : Placed(m)
  BY DEF Shape, SocketShape, AgentShape, Traced, PageShape
<1> DEFINE Goal == (\A m \in Message : Placed(m)') /\ \A s \in Socket : Distinct(up'[s])
           Leaves == \/ pending' = pending /\ fate' = fate
                     \/ pending' = {} /\ Drops(pending)
<1>1. ASSUME NEW m \in Message, Leaves
      PROVE  /\ m \in pending' => m \in pending
             /\ \/ fate'[m] = fate[m]
                \/ fate'[m] = "dropped" /\ m \notin pending' /\ \A s \in Socket : ~In(up[s], m)
  BY <1>0, <1>1 DEF Drops, Placed
<1> HIDE DEF Leaves
<1>2. ASSUME UNCHANGED <<down, agent>>, Leaves,
             \A s \in Socket : Distinct(up'[s]) /\ \A m \in Message : In(up'[s], m) <=> In(up[s], m),
             \A s \in Socket : sock'[s] \notin {"open", "closing"} => sock[s] \notin {"open", "closing"}
      PROVE  Goal
  BY <1>0, <1>1, <1>2, StaysPlaced
<1>3. CreateConnection =>
         \A s \in Socket : sock'[s] \notin {"open", "closing"} => sock[s] \notin {"open", "closing"}
  BY <1>0, Created
<1> HIDE DEF Goal
<1>4. ASSUME ClickEdit \/ LoadEnds \/ Reconnects \/ Back \/ UNCHANGED vars
      PROVE  Goal
  <2>1. Leaves
    BY <1>4 DEF Leaves, ClickEdit, LoadEnds, Reconnects, Back, vars, page, chan
  <2>2. UNCHANGED <<up, down, agent>>
    BY <1>4 DEF ClickEdit, LoadEnds, Reconnects, Back, vars, chan
  <2>3. \A s \in Socket : sock'[s] \notin {"open", "closing"} => sock[s] \notin {"open", "closing"}
    BY <1>3, <1>4 DEF ClickEdit, LoadEnds, Reconnects, Back, vars, chan
  <2> QED
    BY <1>0, <1>2, <2>1, <2>2, <2>3
<1>5. ASSUME Stop
      PROVE  Goal
  <2>1. Leaves /\ UNCHANGED <<down, agent, sock>> /\ WsSend("abort")
    BY <1>5 DEF Leaves, Stop
  <2> QED
    BY <1>0, <1>2, <2>1, SendsOther, Frame
<1>6. ASSUME NEW m \in Message, SendUserMessage(m), fate[m] \in {"untyped", "waits"}, m \notin pending',
             pending' = pending \/ pending' = {}, UNCHANGED <<agent, sock>>,
             \A k \in Message : k \in pending => k = m \/ k \in pending',
             \A s \in Socket, k \in Message : About(down'[s], k) => About(down[s], k)
      PROVE  Goal
  <2>1. Placed(m) /\ \A s \in Socket : ~In(up[s], m) /\ agent[s].msg # m /\ ~About(down[s], m)
    BY <1>0, <1>6 DEF Placed
  <2>2. /\ \A s \in Socket : Distinct(up'[s])
        /\ \A s \in Socket, k \in Message : k # m => (In(up'[s], k) <=> In(up[s], k))
        /\ \A s \in Socket : In(up'[s], m) => s = ws /\ fate'[m] = "sent"
        /\ \A k \in Message : k # m => fate'[k] = fate[k]
    BY <1>0, <1>6, <2>1, SendsMessage
  <2>3. Placed(m)'
    BY <1>6, <2>1, <2>2 DEF Placed
  <2>4. ASSUME NEW k \in Message, k # m
        PROVE  Placed(k)'
    BY <1>0, <1>6, <2>2, <2>4, StaysPlaced
  <2> QED
    BY <2>2, <2>3, <2>4 DEF Goal
<1>7. ASSUME NEW m \in Message, SendMessage(m)
      PROVE  Goal
  <2>1. fate[m] = "untyped" /\ m \notin pending /\ UNCHANGED <<down, agent, sock>>
    BY <1>0, <1>7 DEF SendMessage, Placed
  <2>2. CASE ~thinking
    BY <1>6, <1>7, <2>1, <2>2 DEF SendMessage
  <2>3. CASE thinking
    <3>1. /\ pending' = {m} /\ WsSend("abort") /\ fate'[m] = "waits"
          /\ \A k \in Message : k # m => fate'[k] = IF k \in pending THEN "dropped" ELSE fate[k]
      BY <1>7, <2>3 DEF SendMessage
    <3>2. \A s \in Socket : Distinct(up'[s]) /\ \A k \in Message : In(up'[s], k) <=> In(up[s], k)
      BY <1>0, <3>1, SendsOther, Frame
    <3>3. Placed(m)'
      BY <1>0, <2>1, <3>1, <3>2 DEF Placed
    <3>4. ASSUME NEW k \in Message, k # m
          PROVE  Placed(k)'
      <4>1. k \in pending => \A s \in Socket : ~In(up[s], k)
        BY <1>0 DEF Placed
      <4> QED
        BY <1>0, <2>1, <3>1, <3>2, <3>4, <4>1, StaysPlaced
    <3> QED
      BY <3>2, <3>3, <3>4 DEF Goal
  <2> QED
    BY <2>2, <2>3
<1>8. ASSUME NEW s \in Socket, TakesError(s) \/ TakesTurnDone(s)
      PROVE  Goal
  <2>1. /\ down[s] # <<>> /\ down' = [down EXCEPT ![s] = Tail(@)] /\ UNCHANGED <<agent, sock>>
    BY <1>8 DEF TakesError, TakesTurnDone, Takes
  <2>2. \A t \in Socket, k \in Message : About(down'[t], k) => About(down[t], k)
    BY <1>0, <2>1, TailDown
  <2>3. CASE UNCHANGED <<up, fate, pending>>
    BY <1>0, <2>1, <2>2, <2>3, StaysPlaced DEF Goal
  <2>4. ASSUME NEW m \in pending, SendUserMessage(m), pending' = {}
        PROVE  Goal
    <3>1. m \in Message /\ fate[m] = "waits" /\ \A k \in pending : k = m
      BY <1>0, <2>4 DEF Placed, PageShape
    <3> QED
      BY <1>6, <2>1, <2>2, <2>4, <3>1
  <2> QED
    BY <1>8, <2>3, <2>4 DEF TakesError, TakesTurnDone
<1>9. ASSUME NEW s \in Socket, Opens(s)
      PROVE  Goal
  <2>1. /\ UNCHANGED <<pending, down, agent, fate>> /\ sock' = [sock EXCEPT ![s] = "open"]
        /\ \A t \in Socket : up'[t] = up[t] \/ up'[t] = Append(up[t], "auth")
    BY <1>9 DEF Opens, page
  <2>2. ASSUME NEW t \in Socket
        PROVE  Distinct(up'[t]) /\ \A m \in Message : In(up'[t], m) <=> In(up[t], m)
    <3>1. up[t] \in Seq(Frames) /\ "auth" \in Frames /\ "auth" \notin Message /\ Distinct(up[t])
      BY <1>0, Frame
    <3>2. /\ Distinct(Append(up[t], "auth"))
          /\ \A m \in Message : In(Append(up[t], "auth"), m) <=> In(up[t], m)
      BY <3>1, AppendUp
    <3> QED
      BY <2>1, <3>1, <3>2
  <2>3. \A t \in Socket : sock'[t] \notin {"open", "closing"} => sock[t] \notin {"open", "closing"}
    BY <1>0, <2>1 DEF SocketShape
  <2> QED
    BY <1>2, <2>1, <2>2, <2>3 DEF Leaves
<1>10. ASSUME NEW s \in Socket, Closes(s)
       PROVE  Goal
  <2>1. /\ up'[s] = <<>> /\ down'[s] = <<>> /\ pending' = pending
        /\ \A t \in Socket : t # s => up'[t] = up[t] /\ down'[t] = down[t] /\ sock'[t] = sock[t]
        /\ \A m \in Message : fate'[m] = IF m \in Lost(s) THEN "dropped" ELSE fate[m]
    BY <1>0, <1>10 DEF Closes, Drops, SocketShape
  <2>2. /\ agent'[s].msg \in {agent[s].msg, NoMessage}
        /\ \A t \in Socket : t # s => agent'[t] = agent[t]
    <3>1. [agent[s] EXCEPT !.aborted = TRUE, !.told = TRUE].msg = agent[s].msg /\ NewAgent.msg = NoMessage
      BY <1>0 DEF Agents, NewAgent
    <3> QED
      BY <1>0, <1>10, <3>1 DEF Closes
  <2>3. \A m \in Message : m \in Lost(s) <=> In(up[s], m) \/ agent[s].msg = m \/ About(down[s], m)
    BY DEF Lost, In, About
  <2>4. ASSUME NEW m \in Message
        PROVE  Placed(m)'
    <3>1. m \in Lost(s) => m \notin pending /\ \A t \in Socket : ~In(up'[t], m)
      <4>1. ASSUME m \in Lost(s)
            PROVE  m \notin pending /\ \A t \in Socket : t # s => ~In(up[t], m)
        BY <1>0, <2>3, <4>1 DEF Placed
      <4> QED
        BY <2>1, <4>1, Empty
    <3>2. \A t \in Socket : /\ In(up'[t], m) => In(up[t], m)
                            /\ About(down'[t], m) => About(down[t], m)
                            /\ agent'[t].msg = m => agent[t].msg = m
      BY <2>1, <2>2, Empty, Frame
    <3>3. \A t \in Socket : agent'[t].msg = m /\ sock'[t] \notin {"open", "closing"} =>
                               sock[t] \notin {"open", "closing"} \/ fate'[m] = "dropped"
      BY <2>1, <2>3, <3>2
    <3> QED
      BY <1>0, <2>1, <3>1, <3>2, <3>3, StaysPlaced
  <2> QED
    BY <1>0, <2>1, <2>4, Empty DEF Goal
<1>11. ASSUME NEW s \in Socket, up[s] # <<>>, up'[s] = Tail(up[s]),
              \A t \in Socket : t # s => up'[t] = up[t],
              UNCHANGED <<pending, sock, down, fate>>,
              \A t \in Socket : agent'[t].msg = agent[t].msg
       PROVE  Goal
  BY <1>0, <1>11, TakesOff, StaysPlaced DEF Goal
<1>12. ASSUME NEW s \in Socket, Authenticates(s)
       PROVE  Goal
  BY <1>0, <1>11, <1>12 DEF Authenticates, page
<1>13. ASSUME NEW s \in Socket, NEW f, Hears(s, f), HandleAbort(s) \/ HandleUnknown(s)
       PROVE  Goal
  <2>1. /\ up[s] # <<>> /\ up'[s] = Tail(up[s]) /\ UNCHANGED <<pending, sock, down, fate>>
        /\ \A t \in Socket : t # s => up'[t] = up[t]
    BY <1>0, <1>13, Heard DEF HandleAbort, HandleUnknown, page
  <2>2. \A t \in Socket : agent'[t].msg = agent[t].msg
    BY <1>0, <1>13 DEF HandleAbort, HandleUnknown, Agents
  <2> QED
    BY <1>11, <2>1, <2>2
<1>14. ASSUME NEW s \in Socket, HandleUserMessage(s)
       PROVE  Goal
  <2>1. PICK m \in Message :
           Hears(s, m) /\ (Refuses(s, m) \/ AnswersAtOnce(s, m) \/ TakesUp(s, m))
    BY <1>14, Handles
  <2>2. /\ up[s] # <<>> /\ Head(up[s]) = m /\ up'[s] = Tail(up[s])
        /\ \A t \in Socket : t # s => up'[t] = up[t]
        /\ UNCHANGED <<pending, sock>> /\ server[s] = "ready"
    BY <1>0, <2>1, Heard DEF page
  <2>3. /\ In(up[s], m) /\ \A t \in Socket : Distinct(up'[t]) /\ ~In(up'[t], m)
        /\ \A t \in Socket, k \in Message : In(up'[t], k) => In(up[t], k)
    BY <1>0, <2>2, TakesOff DEF Placed
  <2>4. /\ fate[m] = "sent" /\ m \notin pending
        /\ \A t \in Socket : agent[t].msg # m /\ ~About(down[t], m)
    BY <1>0, <2>3 DEF Placed
  <2>5. sock[s] \in {"open", "closing"}
    BY <2>2 DEF Linked
  <2>6. ASSUME Refuses(s, m) \/ AnswersAtOnce(s, m)
        PROVE  /\ agent' = agent /\ fate'[m] \in {"refused", "answered"}
               /\ \A k \in Message : k # m => fate'[k] = fate[k]
               /\ \A t \in Socket, k \in Message : k # m /\ About(down'[t], k) => About(down[t], k)
    <3>1. /\ agent' = agent /\ fate'[m] \in {"refused", "answered"}
          /\ \A k \in Message : k # m => fate'[k] = fate[k]
      BY <1>0, <2>6 DEF Refuses, AnswersAtOnce
    <3>2. \E e \in Seq(Replies) : Tells(s, e) /\ \A k : About(e, k) <=> k = m
      BY <2>6, Reply DEF Refuses, AnswersAtOnce
    <3>3. \A t \in Socket, k \in Message : k # m /\ About(down'[t], k) => About(down[t], k)
      <4>1. PICK e \in Seq(Replies) : Tells(s, e) /\ \A k : About(e, k) <=> k = m
        BY <3>2
      <4>2. \A k : About(down[s] \o e, k) <=> About(down[s], k) \/ k = m
        BY <1>0, <4>1, JoinDown
      <4> QED
        BY <1>0, <4>1, <4>2, Told
    <3> QED
      BY <3>1, <3>3
  <2>7. ASSUME TakesUp(s, m)
        PROVE  /\ down' = down /\ fate'[m] = "taken" /\ agent'[s].msg = m
               /\ \A k \in Message : k # m => fate'[k] = fate[k]
               /\ \A t \in Socket : t # s => agent'[t] = agent[t]
    BY <1>0, <2>7, TakenUp DEF TakesUp
  <2>8. Placed(m)'
    <3>1. CASE Refuses(s, m) \/ AnswersAtOnce(s, m)
      BY <2>2, <2>3, <2>4, <2>6, <3>1 DEF Placed
    <3>2. CASE TakesUp(s, m)
      BY <2>2, <2>3, <2>4, <2>5, <2>7, <3>2 DEF Placed
    <3> QED
      BY <2>1, <3>1, <3>2
  <2>9. ASSUME NEW k \in Message, k # m
        PROVE  Placed(k)'
    <3>1. /\ fate'[k] = fate[k] /\ \A t \in Socket : About(down'[t], k) => About(down[t], k)
          /\ \A t \in Socket : agent'[t].msg = k => agent[t].msg = k
      BY <2>1, <2>6, <2>7, <2>9
    <3> QED
      BY <1>0, <2>2, <2>3, <2>9, <3>1, StaysPlaced
  <2> QED
    BY <2>3, <2>8, <2>9 DEF Goal
<1>15. ASSUME NEW s \in Socket, GoesOn(s)
       PROVE  Goal
  <2>1. UNCHANGED <<up, down, sock, fate, pending>> /\ \A t \in Socket : agent'[t].msg = agent[t].msg
    BY <1>15 DEF GoesOn, page, chan
  <2> QED
    BY <1>0, <2>1, StaysPlaced DEF Goal
<1>16. ASSUME NEW s \in Socket, Working(s), NEW e \in {<<>>, Error(s)}, EndTurn(s, e)
       PROVE  Goal
  <2>0. PICK m \in Message : m = agent[s].msg
    BY <1>0, <1>16, TurnEnds
  <2>1. /\ UNCHANGED <<pending, up, sock>>
        /\ \A t \in Socket : t # s => down'[t] = down[t] /\ agent'[t] = agent[t]
        /\ agent'[s].msg = NoMessage
        /\ \A k \in Message : k # m /\ About(down'[s], k) => About(down[s], k)
        /\ \A k \in Message : k # m => fate'[k] = fate[k]
        /\ fate'[m] = IF fate[m] = "taken" THEN "answered" ELSE fate[m]
    <3>1. sock[s] # "open" => down'[s] = down[s]
      BY <1>0, <1>16, TurnEnds
    <3> QED
      BY <1>0, <1>16, <2>0, <3>1, TurnEnds DEF page
  <2>2. /\ fate[m] \in {"taken", "dropped"} /\ m \notin pending
        /\ \A t \in Socket : ~In(up[t], m) /\ (t # s => agent[t].msg # m)
    BY <1>0, <2>0 DEF Placed
  <2>3. Placed(m)'
    <3>1. (\A t \in Socket : agent'[t].msg # m) /\ fate'[m] \in {"answered", "dropped"}
      BY <2>1, <2>2, Frame
    <3>2. m \notin pending' /\ \A t \in Socket : ~In(up'[t], m)
      BY <2>1, <2>2
    <3> QED
      BY <3>1, <3>2 DEF Placed
  <2>4. ASSUME NEW k \in Message, k # m
        PROVE  Placed(k)'
    BY <1>0, <2>1, <2>4, StaysPlaced, Frame
  <2> QED
    BY <1>0, <2>1, <2>3, <2>4 DEF Goal
<1>17. Goal
  <2>1. ASSUME NEW s \in Socket, ReadsConfig(s) \/ BeginRound(s) \/ CallModel(s) \/ RoundEnds(s) \/ Compresses(s)
        PROVE  Goal
    BY <1>0, <1>15, <1>16, <2>1, TurnStep
  <2>2. ASSUME NEW s \in Socket, HandleAbort(s) \/ HandleUnknown(s)
        PROVE  Goal
    BY <1>13, <2>2 DEF HandleAbort, HandleUnknown
  <2> QED
    BY <1>4, <1>5, <1>7, <1>8, <1>9, <1>10, <1>12, <1>14, <2>1, <2>2
    DEF Next, User, System, PageStep, AgentStep
<1> QED
  BY <1>17 DEF Goal, Traced


\* A message of which no step loses the track.
LEMMA StaysKept ==
    ASSUME NEW m \in Message, Kept(m), fate'[m] \in {fate[m], "dropped"},
           \A s \in Socket : sock[s] # "closing" => sock'[s] # "closing",
           \A s \in Socket : In(up[s], m) => In(up'[s], m),
           \A s \in Socket : agent[s].msg = m => agent'[s].msg = m,
           \A s \in Socket : About(down[s], m) => About(down'[s], m)
    PROVE  Kept(m)'
BY DEF Kept, Follows

LEMMA NextOnItsWay ==
    ASSUME Shape, Linked, Traced, OnItsWay, [Next]_vars
    PROVE  OnItsWay'
<1> SUFFICES ASSUME shown', thinking'
             PROVE  Kept(asked)'
  BY DEF OnItsWay
<1>0. /\ PageShape /\ SocketShape /\ AgentShape /\ agent \in [Socket -> Agents]
      /\ up \in [Socket -> Seq(Frames)] /\ down \in [Socket -> Seq(Replies)]
      /\ fate \in [Message -> Fates] /\ pending \in SUBSET Message
      /\ \A s \in Socket : Distinct(up[s])
      /\ \A m \in Message : Placed(m)
  BY DEF Shape, SocketShape, AgentShape, Traced, PageShape
<1> DEFINE Goal == Kept(asked)'
<1>1. ASSUME NEW m \in Message, asked' = m, fate'[m] = "dropped"
      PROVE  Goal
  BY <1>1 DEF Kept
<1>2. ASSUME NEW m \in Message, asked' = m, NEW s \in Socket, sock'[s] # "closing",
             In(up'[s], m) \/ agent'[s].msg = m \/ About(down'[s], m)
      PROVE  Goal
  BY <1>2 DEF Kept, Follows
<1>3. ASSUME NEW m \in Message, asked' = m, Kept(m)'
      PROVE  Goal
  BY <1>3 DEF Kept, Follows
<1> HIDE DEF Goal
<1>4. ASSUME shown, thinking
      PROVE  asked \in Message /\ Kept(asked)
  BY <1>0, <1>4 DEF OnItsWay, PageShape
<1>5. ASSUME NEW m \in Message, SendUserMessage(m), fate[m] \in {"untyped", "waits"}, sock' = sock
      PROVE  Goal
  <2>1. \A s \in Socket : Distinct(up[s]) /\ ~In(up[s], m)
    BY <1>0, <1>5 DEF Placed
  <2>2. /\ asked' = m
        /\ \/ fate'[m] = "dropped"
           \/ ws \in Socket /\ sock[ws] = "open" /\ In(up'[ws], m)
    BY <1>0, <1>5, <2>1, SendsMessage
  <2> QED
    BY <1>1, <1>2, <1>5, <2>2
<1>6. CreateConnection => \A s \in Socket : sock[s] # "closing" => sock'[s] # "closing"
  BY <1>0, Created
<1>7. ASSUME ClickEdit \/ LoadEnds \/ Reconnects \/ Back \/ UNCHANGED vars
      PROVE  Goal
  <2>1. UNCHANGED <<shown, thinking, up, down, agent, fate, asked>>
    BY <1>7 DEF ClickEdit, LoadEnds, Reconnects, Back, vars, page, chan, ghosts
  <2>2. \A s \in Socket : sock[s] # "closing" => sock'[s] # "closing"
    BY <1>6, <1>7 DEF ClickEdit, LoadEnds, Reconnects, Back, vars, chan
  <2> QED
    BY <1>3, <1>4, <2>1, <2>2, StaysKept
<1>8. ASSUME NEW m \in Message, SendMessage(m)
      PROVE  Goal
  <2>1. CASE ~thinking
    BY <1>5, <1>8, <2>1 DEF SendMessage
  <2>2. CASE thinking
    <3>1. /\ WsSend("abort") /\ shown /\ fate[m] = "untyped" /\ UNCHANGED <<down, agent, sock, asked>>
          /\ \A k \in Message : k # m => fate'[k] \in {fate[k], "dropped"}
      BY <1>8, <2>2 DEF SendMessage
    <3>2. asked \in Message /\ Kept(asked) /\ asked # m
      <4>1. \A s \in Socket : ~Follows(s, m)
        BY <1>0, <3>1 DEF Placed, Follows
      <4> QED
        BY <1>4, <2>2, <3>1, <4>1 DEF Kept
    <3>3. \A s \in Socket : In(up[s], asked) => In(up'[s], asked)
      BY <1>0, <3>1, <3>2, SendsOther, Frame
    <3> QED
      BY <1>3, <3>1, <3>2, <3>3, StaysKept
  <2> QED
    BY <2>1, <2>2
<1>9. ASSUME NEW s \in Socket, TakesTurnDone(s)
      PROVE  Goal
  <2>1. PICK m \in pending : SendUserMessage(m)
    BY <1>9 DEF TakesTurnDone
  <2>2. m \in Message /\ fate[m] = "waits" /\ sock' = sock
    BY <1>0, <1>9 DEF Placed, TakesTurnDone, Takes
  <2> QED
    BY <1>5, <2>1, <2>2
<1>10. ASSUME NEW s \in Socket, Opens(s)
       PROVE  Goal
  <2>1. /\ UNCHANGED <<shown, thinking, asked, down, agent, fate>> /\ sock' = [sock EXCEPT ![s] = "open"]
        /\ \A t \in Socket : up'[t] = up[t] \/ up'[t] = Append(up[t], "auth")
    BY <1>10 DEF Opens, page, ghosts
  <2>2. ASSUME NEW t \in Socket, NEW m \in Message, In(up[t], m)
        PROVE  In(up'[t], m)
    <3>1. In(Append(up[t], "auth"), m)
      BY <1>0, <2>2, AppendUp, Frame
    <3> QED
      BY <2>1, <2>2, <3>1
  <2>3. \A t \in Socket : sock[t] # "closing" => sock'[t] # "closing"
    BY <1>0, <2>1 DEF SocketShape
  <2> QED
    BY <1>3, <1>4, <2>1, <2>2, <2>3, StaysKept
<1>11. ASSUME NEW s \in Socket, Closes(s)
       PROVE  Goal
  <2>0. UNCHANGED <<shown, thinking, asked>>
    BY <1>11 DEF Closes, ghosts
  <2>1. PICK m \in Message : m = asked /\ Kept(m)
    BY <1>4, <2>0
  <2>2. /\ \A t \in Socket : t # s => /\ up'[t] = up[t] /\ down'[t] = down[t] /\ sock'[t] = sock[t]
                                      /\ agent'[t] = agent[t]
        /\ fate'[m] = IF m \in Lost(s) THEN "dropped" ELSE fate[m]
    BY <1>0, <1>11 DEF Closes, Drops, SocketShape
  <2>3. CASE fate'[m] = "dropped"
    BY <1>1, <2>0, <2>1, <2>3
  <2>4. CASE m \notin Lost(s) /\ fate[m] # "dropped"
    <3>1. PICK t \in Socket : sock[t] # "closing" /\ Follows(t, m)
      BY <2>1, <2>4 DEF Kept
    <3>2. t # s
      BY <2>4, <3>1 DEF Lost, Follows, In, About
    <3> QED
      BY <1>2, <2>0, <2>1, <2>2, <3>1, <3>2 DEF Follows
  <2> QED
    BY <2>2, <2>3, <2>4
<1>12. ASSUME NEW s \in Socket, up[s] # <<>>, up'[s] = Tail(up[s]), Head(up[s]) \notin Message,
              \A t \in Socket : t # s => up'[t] = up[t],
              UNCHANGED <<shown, thinking, asked, sock, down, fate>>,
              \A t \in Socket : agent'[t].msg = agent[t].msg
       PROVE  Goal
  <2>1. \A t \in Socket, k \in Message : In(up'[t], k) <=> In(up[t], k)
    BY <1>0, <1>12, TakesOff
  <2> QED
    BY <1>3, <1>4, <1>12, <2>1, StaysKept
<1>13. ASSUME NEW s \in Socket, Authenticates(s)
       PROVE  Goal
  BY <1>0, <1>12, <1>13, Frame DEF Authenticates, page, ghosts
<1>14. ASSUME NEW s \in Socket, NEW f \in {"auth", "abort"}, Hears(s, f), HandleAbort(s) \/ HandleUnknown(s)
       PROVE  Goal
  <2>1. /\ up[s] # <<>> /\ up'[s] = Tail(up[s]) /\ UNCHANGED <<shown, thinking, asked, sock, down, fate>>
        /\ Head(up[s]) = f /\ \A t \in Socket : t # s => up'[t] = up[t]
    BY <1>0, <1>14, Heard DEF HandleAbort, HandleUnknown, page, ghosts
  <2>2. \A t \in Socket : agent'[t].msg = agent[t].msg
    BY <1>0, <1>14 DEF HandleAbort, HandleUnknown, Agents
  <2> QED
    BY <1>12, <1>14, <2>1, <2>2, Frame
<1>15. ASSUME NEW s \in Socket, HandleUserMessage(s)
       PROVE  Goal
  <2>1. PICK m \in Message :
           Hears(s, m) /\ (Refuses(s, m) \/ AnswersAtOnce(s, m) \/ TakesUp(s, m))
    BY <1>15, Handles
  <2>2. /\ up[s] # <<>> /\ Head(up[s]) = m /\ up'[s] = Tail(up[s])
        /\ \A t \in Socket : t # s => up'[t] = up[t]
        /\ UNCHANGED <<shown, thinking, asked, sock>> /\ server[s] = "ready"
    BY <1>0, <2>1, Heard DEF page, ghosts
  <2>3. /\ In(up[s], m)
        /\ \A t \in Socket, k \in Message : k # m => (In(up'[t], k) <=> In(up[t], k))
    BY <1>0, <2>2, TakesOff
  <2>4. /\ fate[m] = "sent"
        /\ \A t \in Socket : t # s => ~In(up[t], m)
        /\ \A t \in Socket : agent[t].msg # m /\ ~About(down[t], m)
    BY <1>0, <2>3 DEF Placed
  <2>5. asked \in Message /\ Kept(asked)
    BY <1>4, <2>2
  <2>6. ASSUME NEW e \in Seq(Replies), Tells(s, e), \A k : About(e, k) <=> k = m
        PROVE  /\ sock[s] = "open" => About(down'[s], m)
               /\ \A t \in Socket, k \in Message : About(down[t], k) => About(down'[t], k)
    <3>1. \A k : About(down[s] \o e, k) <=> About(down[s], k) \/ k = m
      BY <1>0, <2>6, JoinDown
    <3> QED
      BY <1>0, <2>6, <3>1, Told
  <2>7. ASSUME Refuses(s, m) \/ AnswersAtOnce(s, m)
        PROVE  /\ sock[s] = "open" => About(down'[s], m)
               /\ \A t \in Socket, k \in Message : About(down[t], k) => About(down'[t], k)
    <3>1. \E e \in Seq(Replies) : Tells(s, e) /\ \A k : About(e, k) <=> k = m
      BY <2>7, Reply DEF Refuses, AnswersAtOnce
    <3> QED
      BY <2>6, <3>1
  <2>8. CASE asked = m
    <3>1. sock[s] = "open"
      <4>1. PICK t \in Socket : sock[t] # "closing" /\ Follows(t, m)
        BY <2>4, <2>5, <2>8 DEF Kept
      <4>2. t = s
        BY <2>4, <4>1 DEF Follows
      <4> QED
        BY <2>2, <4>1, <4>2 DEF Linked
    <3>2. CASE Refuses(s, m) \/ AnswersAtOnce(s, m)
      BY <1>2, <2>2, <2>7, <2>8, <3>1, <3>2
    <3>3. CASE TakesUp(s, m)
      BY <1>0, <1>2, <2>2, <2>8, <3>1, <3>3, TakenUp
    <3> QED
      BY <2>1, <3>2, <3>3
  <2>9. CASE asked # m
    <3>1. fate'[asked] = fate[asked]
      BY <1>0, <2>1, <2>5, <2>9 DEF Refuses, AnswersAtOnce, TakesUp
    <3>2. \A t \in Socket : agent[t].msg = asked => agent'[t].msg = asked
      <4>1. CASE agent' = agent
        BY <4>1
      <4>2. CASE TakesUp(s, m)
        <5>1. agent[s].msg = NoMessage /\ \A t \in Socket : t # s => agent'[t] = agent[t]
          BY <1>0, <4>2, TakenUp DEF TakesUp, Working, AgentShape
        <5> QED
          BY <2>5, <5>1, Frame
      <4> QED
        BY <2>1, <4>1, <4>2 DEF Refuses, AnswersAtOnce
    <3>3. \A t \in Socket : About(down[t], asked) => About(down'[t], asked)
      BY <2>1, <2>5, <2>7 DEF TakesUp
    <3> QED
      BY <1>3, <2>2, <2>3, <2>5, <2>9, <3>1, <3>2, <3>3, StaysKept
  <2> QED
    BY <2>8, <2>9
<1>16. ASSUME NEW s \in Socket, GoesOn(s)
       PROVE  Goal
  <2>1. /\ UNCHANGED <<shown, thinking, asked, up, down, sock, fate>>
        /\ \A t \in Socket : agent'[t].msg = agent[t].msg
    BY <1>16 DEF GoesOn, page, chan, ghosts
  <2> QED
    BY <1>3, <1>4, <2>1, StaysKept
<1>17. ASSUME NEW s \in Socket, Working(s), NEW e \in {<<>>, Error(s)}, EndTurn(s, e)
       PROVE  Goal
  <2>0. PICK m \in Message : m = agent[s].msg
    BY <1>0, <1>17, TurnEnds
  <2>1. /\ UNCHANGED <<shown, thinking, asked, up, sock>>
        /\ \A t \in Socket : t # s => down'[t] = down[t] /\ agent'[t] = agent[t]
        /\ \A k \in Message : k # m => fate'[k] = fate[k]
        /\ fate'[m] = IF fate[m] = "taken" THEN "answered" ELSE fate[m]
    <3>1. UNCHANGED <<page, ghosts, up, sock>>
      BY <1>0, <1>17, TurnEnds
    <3>2. UNCHANGED <<shown, thinking, asked, up, sock>>
      BY <3>1 DEF page, ghosts
    <3>3. /\ \A t \in Socket : t # s => down'[t] = down[t] /\ agent'[t] = agent[t]
          /\ \A k \in Message : k # m => fate'[k] = fate[k]
          /\ fate'[m] = IF fate[m] = "taken" THEN "answered" ELSE fate[m]
      BY <1>0, <1>17, <2>0, TurnEnds
    <3> QED
      BY <3>2, <3>3
  <2>2. /\ sock[s] # "open" => down'[s] = down[s]
        /\ sock[s] = "open" => \A k : About(down'[s], k) <=> About(down[s], k) \/ k = m
    BY <1>0, <1>17, <2>0, TurnEnds
  <2>3. asked \in Message /\ Kept(asked)
    BY <1>4, <2>1
  <2>4. CASE asked # m
    <3>1. fate'[asked] = fate[asked]
      BY <2>1, <2>3, <2>4
    <3>2. \A t \in Socket : agent[t].msg = asked => agent'[t].msg = asked
      BY <2>0, <2>1, <2>4
    <3>3. \A t \in Socket : About(down[t], asked) => About(down'[t], asked)
      BY <2>1, <2>2
    <3> QED
      BY <1>3, <2>1, <2>3, <3>1, <3>2, <3>3, StaysKept
  <2>5. CASE asked = m /\ fate[m] = "dropped"
    BY <1>1, <2>1, <2>5
  <2>6. CASE asked = m /\ fate[m] # "dropped"
    <3>1. /\ fate[m] = "taken" /\ sock[s] \in {"open", "closing"}
          /\ \A t \in Socket : ~In(up[t], m) /\ ~About(down[t], m) /\ (agent[t].msg = m => t = s)
      BY <1>0, <2>0, <2>6 DEF Placed
    <3>2. sock[s] = "open"
      BY <2>3, <2>6, <3>1 DEF Kept, Follows
    <3> QED
      BY <1>2, <2>1, <2>2, <2>6, <3>2
  <2> QED
    BY <2>4, <2>5, <2>6
<1>18. Goal
  <2>1. ASSUME NEW s \in Socket, ReadsConfig(s) \/ BeginRound(s) \/ CallModel(s) \/ RoundEnds(s) \/ Compresses(s)
        PROVE  Goal
    BY <1>0, <1>16, <1>17, <2>1, TurnStep
  <2>2. ASSUME NEW s \in Socket, HandleAbort(s) \/ HandleUnknown(s)
        PROVE  Goal
    BY <1>14, <2>2 DEF HandleAbort, HandleUnknown
  <2>3. ~Stop /\ \A s \in Socket : ~TakesError(s)
    BY DEF Stop, TakesError
  <2> QED
    BY <1>7, <1>8, <1>9, <1>10, <1>11, <1>13, <1>15, <2>1, <2>2, <2>3
    DEF Next, User, System, PageStep, AgentStep
<1> QED
  BY <1>18 DEF Goal

\* The panel thinks for good only about a message that was lost, or whose
\* agent is stuck in getConfigStatus.
THEOREM ThinkingHasReasons == Spec => []ThinkingExplained
<1>1. Init => Traced /\ OnItsWay
  <2>1. NewAgent.msg = NoMessage
    BY DEF NewAgent
  <2> QED
    BY <2>1, Empty, Frame DEF Init, Traced, Placed, OnItsWay
<1>2. Shape /\ Linked /\ Traced /\ OnItsWay => ThinkingExplained
  <2> SUFFICES ASSUME Shape, Linked, Traced, OnItsWay, Quiet, shown, thinking, fate[asked] # "dropped"
               PROVE  Stuck(asked)
    BY DEF ThinkingExplained
  <2>1. asked \in Message /\ Placed(asked)
    BY DEF Shape, PageShape, Traced
  <2>2. PICK s \in Socket : sock[s] # "closing" /\ Follows(s, asked)
    BY DEF OnItsWay, Kept
  <2>3. agent[s].msg = asked
    BY <2>2, Empty DEF Quiet, Follows
  <2>4. sock[s] = "open" /\ agent[s].pc # "idle"
    BY <2>1, <2>2, <2>3, Frame DEF Placed, Shape, AgentShape
  <2> QED
    BY <2>3, <2>4 DEF Quiet, Stuck
<1> QED
  BY <1>1, <1>2, NextTraced, NextOnItsWay, LinkedAlways, ShapeAlways, PTL DEF Spec

==============================================================================
