--------------------------- MODULE CoreSessionProofs ---------------------------
(****************************************************************************)
(* Theorems about CoreSession: its types, the texts that stay apart, and    *)
(* the stops that end the turn they are for and no other.                   *)
(****************************************************************************)
EXTENDS CoreSession, TLAPS

UpFrames   == [type : {"user_message"}, msg : Message]
                  \cup [type : {"stop"}, msg : Message \cup {NoMessage}]
DownFrames == [type : {"text", "turn_complete", "stop", "config_missing", "error"}, msg : Message]
Buffers    == [messages : Seq(Message), stops : SUBSET (Message \cup {NoMessage})]
Pcs        == {"idle", "info", "begins", "calls", "streams", "persists"}
Tasks      == [pc : Pcs, msg : Message \cup {NoMessage}, rounds : Nat, text : BOOLEAN, done : BOOLEAN]
Links      == {"none", "connecting", "open", "closed"}
Sessions   == {"none", "auth", "lookup", "late", "live", "orphan", "ended"}

\* A task has its message once it may answer one, and a round left if it is
\* to have another.
TaskFits(t) ==
    /\ t \in Tasks
    /\ t.pc \in {"idle", "info"} => t.msg = NoMessage
    /\ t.pc \in Pcs \ {"idle", "info"} => t.msg \in Message
    /\ t.pc # "persists" => ~t.done
    /\ t.rounds < MaxRounds
    /\ t.pc = "persists" /\ ~t.done => t.rounds + 1 < MaxRounds

PageShape ==
    /\ created \in Socket /\ ws \in {0} \cup Socket /\ ws <= created
    /\ connection \in {"connecting", "connected", "disconnected"}
    /\ timer \in BOOLEAN /\ attempts \in 0..MaxAttempts /\ byId \in [Socket -> BOOLEAN]
    /\ sent \in 0..MaxMessages /\ loading \in BOOLEAN /\ current \in Message \cup {NoMessage}

ServerShape ==
    /\ session \in [Socket -> Sessions] /\ buffer \in [Socket -> Buffers]
    /\ queue \in [Socket -> Seq(Message \cup {NoMessage})]
    /\ task \in [Socket -> Tasks] /\ \A s \in Socket : TaskFits(task[s])
    /\ aborted \in [Socket -> BOOLEAN]

WireShape ==
    /\ link \in [Socket -> Links]
    /\ up \in [Socket -> Seq(UpFrames)] /\ down \in [Socket -> Seq(DownFrames)]

Shape == PageShape /\ ServerShape /\ WireShape

----------------------------------------------------------------------------
(* The invariant. *)

In(q, x)    == \E i \in DOMAIN q : q[i] = x
Distinct(q) == \A i, j \in DOMAIN q : q[i] = q[j] => i = j

\* A message is sent once.
SentOnce(q) == \A i, j \in DOMAIN q : q[i] = q[j] /\ q[i].type = "user_message" => i = j

\* The messages before a stop are no newer than the one it is for.
StopsLast(q) ==
    \A i, j \in DOMAIN q :
        i < j /\ q[i].type = "user_message" /\ q[j].type = "stop" => q[i].msg <= q[j].msg

\* No text of a message comes after a frame that ends the answer to it.
Terminal  == {"stop", "config_missing", "error"}
Sealed(q) ==
    \A i, j \in DOMAIN q :
        i < j /\ q[i].type \in Terminal /\ q[j].type = "text" => q[i].msg # q[j].msg

\* Only the page's socket is alive, and there is nothing where there cannot be.
Placed(s) ==
    /\ s > created => link[s] = "none"
    /\ IsAlive(s) => s = ws
    /\ link[s] # "open" => up[s] = <<>> /\ down[s] = <<>>
    /\ link[s] \in {"none", "connecting"} => session[s] = "none"
    /\ session[s] \in {"none", "auth", "lookup", "late"} => queue[s] = <<>> /\ task[s].pc = "idle"
    /\ session[s] \notin {"lookup", "late"} => buffer[s] = NoBuffer

\* Where message m is: on its way, waiting, or with the task.
Asked(s, m)      == In(up[s], Frame("user_message", m))
Waits(s, m)      == In(buffer[s].messages, m) \/ In(queue[s], m)
Unfinished(s, m) == Asked(s, m) \/ Waits(s, m) \/ (task[s].msg = m /\ ~task[s].done)
Here(s, m)       == Waits(s, m) \/ task[s].msg = m
Around(s, m)     == Asked(s, m) \/ Here(s, m)
Stopping(s, m)   == In(up[s], Frame("stop", m))
Texted(s, m)     == In(down[s], Frame("text", m))

\* A message is in one place, and none is newer than the last one sent.
Once(s) ==
    /\ SentOnce(up[s]) /\ Distinct(queue[s]) /\ Distinct(buffer[s].messages)
    /\ \A m \in Message :
          /\ ~(Asked(s, m) /\ Here(s, m))
          /\ ~(Waits(s, m) /\ task[s].msg = m)
          /\ Around(s, m) => m <= sent
    /\ \A i \in DOMAIN down[s] : down[s][i].msg <= sent

\* A stop on its way is for a stopped message, the newest one before it.
Ordered(s) ==
    /\ StopsLast(up[s])
    /\ \A k \in Message \cup {NoMessage} : Stopping(s, k) =>
          /\ k \in halted
          /\ \A m \in Message : Here(s, m) => m <= k

\* What is still being answered is the message the page waits for, or one it
\* gave up.
Excused(m)   == m \in halted \cup misled \/ (m = sent /\ loading)
Explained(s) == \A m \in Message : Unfinished(s, m) \/ Texted(s, m) => Excused(m)

\* A frame that ends an answer is the last word on it.
Ended(s, m) == \E i \in DOMAIN down[s] : down[s][i].type \in Terminal /\ down[s][i].msg = m
Closing(s)  == Sealed(down[s]) /\ \A m \in Message : ~(Ended(s, m) /\ Unfinished(s, m))

\* A stop that counts is on its way, kept, or in effect.
Heard(s) ==
    \A m \in Message : Around(s, m) /\ m \in halted \ early =>
        Stopping(s, m) \/ m \in buffer[s].stops \/ (InLoop(s, m) /\ aborted[s])

Turns(s) == Once(s) /\ Ordered(s) /\ Explained(s) /\ Closing(s) /\ Heard(s)

Aborts(s) ==
    \A m \in Message : InLoop(s, m) /\ aborted[s] /\ ~task[s].done => m \in halted \cup misled

\* The answer shown is to the message sent last, or to one given up.
Shown ==
    /\ current \in {NoMessage, sent} \cup halted \cup misled
    /\ halted \subseteq 0..sent
    /\ timer => ws = 0
    /\ ~mixed

Inv ==
    /\ Shape /\ Shown
    /\ \A s \in Socket : Placed(s) /\ Aborts(s)
    /\ \A s \in Socket : link[s] = "open" => Turns(s)

----------------------------------------------------------------------------
(* Queues. *)

LEMMA FrameFields ==
    /\ \A t, m : Frame(t, m).type = t /\ Frame(t, m).msg = m
    /\ \A f \in UpFrames \cup DownFrames : f = Frame(f.type, f.msg)
    /\ \A t, u, m, k : Frame(t, m) = Frame(u, k) => t = u /\ m = k
BY DEF Frame, UpFrames, DownFrames

LEMMA Empty ==
    /\ \A x : ~In(<<>>, x)
    /\ Distinct(<<>>) /\ SentOnce(<<>>) /\ StopsLast(<<>>) /\ Sealed(<<>>)
BY DEF In, Distinct, SentOnce, StopsLast, Sealed

\* The first element is taken off.
LEMMA TailAt ==
    ASSUME NEW C, NEW q \in Seq(C), q # <<>>
    PROVE  /\ Head(q) \in C /\ Head(q) = q[1] /\ 1 \in DOMAIN q /\ Tail(q) \in Seq(C)
           /\ \A i \in DOMAIN Tail(q) : i \in Nat /\ i + 1 \in DOMAIN q /\ Tail(q)[i] = q[i + 1] /\ i + 1 # 1
           /\ \A i \in DOMAIN q : i # 1 => i - 1 \in DOMAIN Tail(q) /\ Tail(q)[i - 1] = q[i]
           /\ \A i, j \in DOMAIN Tail(q) : (i + 1 = j + 1 => i = j) /\ (i < j => i + 1 < j + 1) /\ 1 < i + 1
OBVIOUS

LEMMA TailIn ==
    ASSUME NEW C, NEW q \in Seq(C), q # <<>>
    PROVE  /\ Tail(q) \in Seq(C) /\ Head(q) \in C /\ In(q, Head(q))
           /\ \A x : In(Tail(q), x) => In(q, x)
           /\ \A x : In(q, x) => x = Head(q) \/ In(Tail(q), x)
           /\ \A x : In(q, x) => x \in C
           /\ Distinct(q) => Distinct(Tail(q)) /\ ~In(Tail(q), Head(q))
<1>1. /\ Head(q) \in C /\ Head(q) = q[1] /\ 1 \in DOMAIN q /\ Tail(q) \in Seq(C)
      /\ \A i \in DOMAIN Tail(q) : i \in Nat /\ i + 1 \in DOMAIN q /\ Tail(q)[i] = q[i + 1] /\ i + 1 # 1
      /\ \A i \in DOMAIN q : i # 1 => i - 1 \in DOMAIN Tail(q) /\ Tail(q)[i - 1] = q[i]
      /\ \A i, j \in DOMAIN Tail(q) : (i + 1 = j + 1 => i = j) /\ (i < j => i + 1 < j + 1) /\ 1 < i + 1
  BY TailAt
<1>2. In(q, Head(q)) /\ \A x : In(Tail(q), x) => In(q, x)
  BY <1>1 DEF In
<1>3. \A x : In(q, x) => x = Head(q) \/ In(Tail(q), x)
  BY <1>1 DEF In
<1>4. \A x : In(q, x) => x \in C
  BY DEF In
<1>5. Distinct(q) => Distinct(Tail(q)) /\ ~In(Tail(q), Head(q))
  <2>1. Distinct(q) => Distinct(Tail(q))
    BY <1>1 DEF Distinct
  <2>2. Distinct(q) => ~In(Tail(q), Head(q))
    BY <1>1 DEF Distinct, In
  <2> QED
    BY <2>1, <2>2
<1> QED
  BY <1>1, <1>2, <1>3, <1>4, <1>5

LEMMA TailUp ==
    ASSUME NEW q \in Seq(UpFrames), q # <<>>
    PROVE  /\ SentOnce(q) => SentOnce(Tail(q))
           /\ SentOnce(q) /\ Head(q).type = "user_message" => ~In(Tail(q), Head(q))
           /\ StopsLast(q) => StopsLast(Tail(q))
           /\ StopsLast(q) /\ Head(q).type = "user_message" =>
                 \A k : In(q, Frame("stop", k)) => Head(q).msg <= k
<1>1. /\ Head(q) \in UpFrames /\ Head(q) = q[1] /\ 1 \in DOMAIN q
      /\ \A i \in DOMAIN Tail(q) : i \in Nat /\ i + 1 \in DOMAIN q /\ Tail(q)[i] = q[i + 1] /\ i + 1 # 1
      /\ \A i \in DOMAIN q : i # 1 => i - 1 \in DOMAIN Tail(q) /\ Tail(q)[i - 1] = q[i]
      /\ \A i, j \in DOMAIN Tail(q) : (i + 1 = j + 1 => i = j) /\ (i < j => i + 1 < j + 1) /\ 1 < i + 1
  BY TailAt
<1>2. SentOnce(q) => SentOnce(Tail(q))
  BY <1>1 DEF SentOnce
<1>3. SentOnce(q) /\ Head(q).type = "user_message" => ~In(Tail(q), Head(q))
  BY <1>1 DEF SentOnce, In
<1>4. StopsLast(q) => StopsLast(Tail(q))
  BY <1>1 DEF StopsLast
<1>5. ASSUME StopsLast(q), Head(q).type = "user_message", NEW k, In(q, Frame("stop", k))
      PROVE  Head(q).msg <= k
  <2>1. PICK i \in DOMAIN q : q[i] = Frame("stop", k)
    BY <1>5 DEF In
  <2>2. q[i].type = "stop" /\ q[i].msg = k
    BY <2>1, FrameFields
  <2>3. i # 1 /\ 1 < i
    BY <1>1, <1>5, <2>2
  <2> QED
    BY <1>1, <1>5, <2>2, <2>3 DEF StopsLast
<1> QED
  BY <1>2, <1>3, <1>4, <1>5

LEMMA TailDown ==
    ASSUME NEW q \in Seq(DownFrames), q # <<>>, Sealed(q)
    PROVE  /\ Sealed(Tail(q))
           /\ Head(q).type \in Terminal => ~In(Tail(q), Frame("text", Head(q).msg))
<1>1. /\ Head(q) \in DownFrames /\ Head(q) = q[1] /\ 1 \in DOMAIN q
      /\ \A i \in DOMAIN Tail(q) : i \in Nat /\ i + 1 \in DOMAIN q /\ Tail(q)[i] = q[i + 1] /\ i + 1 # 1
      /\ \A i, j \in DOMAIN Tail(q) : (i + 1 = j + 1 => i = j) /\ (i < j => i + 1 < j + 1) /\ 1 < i + 1
  BY TailAt
<1>2. Sealed(Tail(q))
  BY <1>1 DEF Sealed
<1>3. ASSUME Head(q).type \in Terminal, In(Tail(q), Frame("text", Head(q).msg))
      PROVE  FALSE
  <2>1. PICK i \in DOMAIN Tail(q) : Tail(q)[i] = Frame("text", Head(q).msg)
    BY <1>3 DEF In
  <2>2. q[i + 1].type = "text" /\ q[i + 1].msg = Head(q).msg
    BY <1>1, <2>1, FrameFields
  <2>3. i + 1 \in DOMAIN q /\ 1 < i + 1
    BY <1>1
  <2> QED
    BY <1>1, <1>3, <2>2, <2>3 DEF Sealed
<1> QED
  BY <1>2, <1>3

\* An element is added.
LEMMA AppendAt ==
    ASSUME NEW C, NEW q \in Seq(C), NEW x \in C
    PROVE  /\ Append(q, x) \in Seq(C) /\ Len(q) \in Nat
           /\ \A i \in DOMAIN Append(q, x) : i \in DOMAIN q \/ i = Len(q) + 1
           /\ \A i \in DOMAIN q : Append(q, x)[i] = q[i] /\ i # Len(q) + 1 /\ ~(Len(q) + 1 < i)
           /\ DOMAIN q \subseteq DOMAIN Append(q, x) /\ Len(q) + 1 \in DOMAIN Append(q, x)
           /\ Append(q, x)[Len(q) + 1] = x
<1>1. /\ Append(q, x) \in Seq(C) /\ DOMAIN q = 1..Len(q) /\ Len(q) \in Nat
      /\ DOMAIN Append(q, x) = 1..(Len(q) + 1)
      /\ Append(q, x)[Len(q) + 1] = x
      /\ \A i \in DOMAIN q : Append(q, x)[i] = q[i]
  OBVIOUS
<1> QED
  BY <1>1

LEMMA AppendIn ==
    ASSUME NEW C, NEW q \in Seq(C), NEW x \in C
    PROVE  /\ Append(q, x) \in Seq(C)
           /\ \A y : In(Append(q, x), y) <=> In(q, y) \/ y = x
           /\ Distinct(q) /\ ~In(q, x) => Distinct(Append(q, x))
<1>1. /\ Append(q, x) \in Seq(C) /\ Len(q) \in Nat
      /\ \A i \in DOMAIN Append(q, x) : i \in DOMAIN q \/ i = Len(q) + 1
      /\ \A i \in DOMAIN q : Append(q, x)[i] = q[i] /\ i # Len(q) + 1 /\ ~(Len(q) + 1 < i)
      /\ DOMAIN q \subseteq DOMAIN Append(q, x) /\ Len(q) + 1 \in DOMAIN Append(q, x)
      /\ Append(q, x)[Len(q) + 1] = x
  BY AppendAt
<1> QED
  BY <1>1 DEF In, Distinct

LEMMA AppendUp ==
    ASSUME NEW q \in Seq(UpFrames), NEW f \in UpFrames
    PROVE  /\ SentOnce(q) /\ (f.type = "user_message" => ~In(q, f)) => SentOnce(Append(q, f))
           /\ /\ StopsLast(q)
              /\ f.type = "stop" => \A m \in Message : In(q, Frame("user_message", m)) => m <= f.msg
              => StopsLast(Append(q, f))
<1>1. /\ Append(q, f) \in Seq(UpFrames) /\ Len(q) \in Nat
      /\ \A i \in DOMAIN Append(q, f) : i \in DOMAIN q \/ i = Len(q) + 1
      /\ \A i \in DOMAIN q : Append(q, f)[i] = q[i] /\ i # Len(q) + 1 /\ ~(Len(q) + 1 < i)
      /\ Append(q, f)[Len(q) + 1] = f
  BY AppendAt
<1>2. SentOnce(q) /\ (f.type = "user_message" => ~In(q, f)) => SentOnce(Append(q, f))
  BY <1>1 DEF SentOnce, In
<1>3. ASSUME StopsLast(q),
             f.type = "stop" => \A m \in Message : In(q, Frame("user_message", m)) => m <= f.msg,
             NEW i \in DOMAIN Append(q, f), NEW j \in DOMAIN Append(q, f), i < j,
             Append(q, f)[i].type = "user_message", Append(q, f)[j].type = "stop"
      PROVE  Append(q, f)[i].msg <= Append(q, f)[j].msg
  <2>1. i \in DOMAIN q
    BY <1>1, <1>3
  <2>2. CASE j \in DOMAIN q
    BY <1>1, <1>3, <2>1, <2>2 DEF StopsLast
  <2>3. CASE j = Len(q) + 1
    <3>1. q[i] \in UpFrames /\ Append(q, f)[i] = q[i] /\ q[i].type = "user_message"
      BY <1>1, <1>3, <2>1
    <3>2. q[i].msg \in Message /\ q[i] = Frame("user_message", q[i].msg)
      BY <3>1, FrameFields DEF UpFrames
    <3>3. In(q, Frame("user_message", q[i].msg))
      BY <2>1, <3>2 DEF In
    <3> QED
      BY <1>1, <1>3, <2>3, <3>1, <3>2, <3>3
  <2> QED
    BY <1>1, <2>2, <2>3
<1>4. /\ StopsLast(q)
      /\ f.type = "stop" => \A m \in Message : In(q, Frame("user_message", m)) => m <= f.msg
      => StopsLast(Append(q, f))
  BY <1>3 DEF StopsLast
<1> QED
  BY <1>2, <1>4

\* Frames are added.
LEMMA JoinIn ==
    ASSUME NEW C, NEW q \in Seq(C), NEW r \in Seq(C)
    PROVE  /\ q \o r \in Seq(C)
           /\ \A x : In(q \o r, x) <=> In(q, x) \/ In(r, x)
           /\ \A i \in DOMAIN (q \o r) :
                 (\E j \in DOMAIN q : (q \o r)[i] = q[j]) \/ \E j \in DOMAIN r : (q \o r)[i] = r[j]
           /\ Distinct(q) /\ Distinct(r) /\ (\A x : ~(In(q, x) /\ In(r, x))) => Distinct(q \o r)
<1>1. /\ q \o r \in Seq(C) /\ Len(q) \in Nat /\ Len(r) \in Nat
      /\ DOMAIN q = 1..Len(q) /\ DOMAIN r = 1..Len(r) /\ DOMAIN (q \o r) = 1..(Len(q) + Len(r))
      /\ \A i \in DOMAIN q : (q \o r)[i] = q[i]
      /\ \A i \in DOMAIN r : (q \o r)[i + Len(q)] = r[i]
  OBVIOUS
<1>2. \A i \in DOMAIN (q \o r) : i \in DOMAIN q \/ i - Len(q) \in DOMAIN r
  BY <1>1
<1>3. \A i \in DOMAIN r : i + Len(q) \in DOMAIN (q \o r)
  BY <1>1
<1>4. \A i \in DOMAIN (q \o r) : i - Len(q) \in DOMAIN r => (q \o r)[i] = r[i - Len(q)]
  BY <1>1
<1>5. DOMAIN q \subseteq DOMAIN (q \o r)
  BY <1>1
<1>6. \A i, j \in DOMAIN (q \o r) : i - Len(q) = j - Len(q) => i = j
  BY <1>1
<1>7. \A x : In(q \o r, x) <=> In(q, x) \/ In(r, x)
  BY <1>1, <1>2, <1>3, <1>4, <1>5 DEF In
<1>8. \A i \in DOMAIN (q \o r) :
         (\E j \in DOMAIN q : (q \o r)[i] = q[j]) \/ \E j \in DOMAIN r : (q \o r)[i] = r[j]
  BY <1>1, <1>2, <1>4
<1>9. Distinct(q) /\ Distinct(r) /\ (\A x : ~(In(q, x) /\ In(r, x))) => Distinct(q \o r)
  <2> SUFFICES ASSUME Distinct(q), Distinct(r), \A x : ~(In(q, x) /\ In(r, x)),
                      NEW i \in DOMAIN (q \o r), NEW j \in DOMAIN (q \o r), (q \o r)[i] = (q \o r)[j]
               PROVE  i = j
    BY DEF Distinct
  <2>1. CASE i \in DOMAIN q /\ j \in DOMAIN q
    BY <1>1, <2>1 DEF Distinct
  <2>2. CASE i - Len(q) \in DOMAIN r /\ j - Len(q) \in DOMAIN r
    BY <1>4, <1>6, <2>2 DEF Distinct
  <2>3. CASE i \in DOMAIN q /\ j - Len(q) \in DOMAIN r
    <3>1. q[i] = r[j - Len(q)]
      BY <1>1, <1>4, <2>3
    <3> QED
      BY <2>3, <3>1 DEF In
  <2>4. CASE i - Len(q) \in DOMAIN r /\ j \in DOMAIN q
    <3>1. q[j] = r[i - Len(q)]
      BY <1>1, <1>4, <2>4
    <3> QED
      BY <2>4, <3>1 DEF In
  <2> QED
    BY <1>2, <2>1, <2>2, <2>3, <2>4
<1> QED
  BY <1>1, <1>7, <1>8, <1>9

LEMMA JoinDown ==
    ASSUME NEW q \in Seq(DownFrames), NEW r \in Seq(DownFrames), Sealed(q), Sealed(r),
           \A i \in DOMAIN q, j \in DOMAIN r :
              q[i].type \in Terminal /\ r[j].type = "text" => q[i].msg # r[j].msg
    PROVE  Sealed(q \o r)
<1>1. /\ q \o r \in Seq(DownFrames) /\ Len(q) \in Nat /\ Len(r) \in Nat
      /\ DOMAIN q = 1..Len(q) /\ DOMAIN r = 1..Len(r) /\ DOMAIN (q \o r) = 1..(Len(q) + Len(r))
      /\ \A i \in DOMAIN q : (q \o r)[i] = q[i]
      /\ \A i \in DOMAIN r : (q \o r)[i + Len(q)] = r[i]
  OBVIOUS
<1>2. \A i \in DOMAIN (q \o r) : i \in DOMAIN q \/ i - Len(q) \in DOMAIN r
  BY <1>1
<1>3. \A i \in DOMAIN (q \o r) : i - Len(q) \in DOMAIN r => (q \o r)[i] = r[i - Len(q)]
  BY <1>1
<1>4. \A i, j \in DOMAIN (q \o r) : i < j => i - Len(q) < j - Len(q)
  BY <1>1
<1>5. \A i, j \in DOMAIN (q \o r) : i < j /\ i - Len(q) \in DOMAIN r => j - Len(q) \in DOMAIN r
  BY <1>1
<1> DEFINE d == q \o r
<1>6. ASSUME NEW i \in DOMAIN d, NEW j \in DOMAIN d, i < j, d[i].type \in Terminal, d[j].type = "text"
      PROVE  d[i].msg # d[j].msg
  <2>1. CASE j \in DOMAIN q
    <3>1. i \in DOMAIN q
      BY <1>1, <1>6, <2>1
    <3> QED
      BY <1>1, <1>6, <2>1, <3>1 DEF Sealed
  <2>2. CASE j - Len(q) \in DOMAIN r /\ i \in DOMAIN q
    <3>1. d[i] = q[i] /\ d[j] = r[j - Len(q)]
      BY <1>1, <1>3, <2>2
    <3> QED
      BY <1>6, <2>2, <3>1
  <2>3. CASE j - Len(q) \in DOMAIN r /\ i - Len(q) \in DOMAIN r
    <3>1. d[i] = r[i - Len(q)] /\ d[j] = r[j - Len(q)] /\ i - Len(q) < j - Len(q)
      BY <1>3, <1>4, <1>6, <2>3
    <3> QED
      BY <1>6, <2>3, <3>1 DEF Sealed
  <2> QED
    BY <1>2, <2>1, <2>2, <2>3
<1> HIDE DEF d
<1>7. Sealed(d)
  BY <1>6 DEF Sealed
<1> QED
  BY <1>7 DEF d

\* One frame.
LEMMA SingleFrame ==
    ASSUME NEW f \in DownFrames
    PROVE  /\ <<f>> \in Seq(DownFrames) /\ Sealed(<<f>>)
           /\ \A i \in DOMAIN <<f>> : <<f>>[i] = f
           /\ \A x : In(<<f>>, x) <=> x = f
<1>1. <<f>> \in Seq(DownFrames) /\ DOMAIN <<f>> = {1} /\ <<f>>[1] = f
  OBVIOUS
<1> QED
  BY <1>1 DEF Sealed, In

\* The frames at the end of a stream.
LEMMA LastFrames ==
    ASSUME NEW f \in DownFrames, NEW g \in DownFrames, f.type # "text", g.type # "text"
    PROVE  /\ <<f>> \o <<g>> \in Seq(DownFrames) /\ Sealed(<<f>> \o <<g>>)
           /\ \A i \in DOMAIN (<<f>> \o <<g>>) : (<<f>> \o <<g>>)[i] = f \/ (<<f>> \o <<g>>)[i] = g
<1>1. /\ <<f>> \in Seq(DownFrames) /\ <<g>> \in Seq(DownFrames) /\ Sealed(<<f>>) /\ Sealed(<<g>>)
      /\ (\A i \in DOMAIN <<f>> : <<f>>[i] = f) /\ (\A i \in DOMAIN <<g>> : <<g>>[i] = g)
  BY SingleFrame
<1> DEFINE q == <<f>>
           r == <<g>>
<1>2. /\ q \in Seq(DownFrames) /\ r \in Seq(DownFrames) /\ Sealed(q) /\ Sealed(r)
      /\ (\A i \in DOMAIN q : q[i] = f) /\ (\A i \in DOMAIN r : r[i] = g)
  BY <1>1
<1> HIDE DEF q, r
<1>3. q \o r \in Seq(DownFrames) /\ Sealed(q \o r)
  BY <1>2, JoinIn, JoinDown
<1>4. \A i \in DOMAIN (q \o r) : (q \o r)[i] = f \/ (q \o r)[i] = g
  <2>1. \A i \in DOMAIN (q \o r) :
          (\E j \in DOMAIN q : (q \o r)[i] = q[j]) \/ \E j \in DOMAIN r : (q \o r)[i] = r[j]
    BY <1>2, JoinIn
  <2> QED
    BY <1>2, <2>1
<1> QED
  BY <1>3, <1>4 DEF q, r

----------------------------------------------------------------------------
(* Types. *)

LEMMA Basic ==
    /\ MaxMessages \in Nat /\ MaxSockets \in Nat \ {0} /\ MaxAttempts \in Nat /\ MaxRounds \in Nat \ {0}
    /\ Socket \subseteq Nat \ {0} /\ 1 \in Socket /\ Message \subseteq Nat \ {0}
    /\ NoMessage = 0 /\ Setups = 0
    /\ \A m \in 0..MaxMessages : m = 0 \/ m \in Message
    /\ \A m \in Message : m \in 0..MaxMessages
    /\ \A s \in Nat : s + 1 <= MaxSockets => s + 1 \in Socket
BY SessionAssumption DEF Socket, Message, NoMessage, Setups

LEMMA Fresh == Idle \in Tasks /\ TaskFits(Idle) /\ NoBuffer \in Buffers
BY Basic DEF Idle, Tasks, TaskFits, Pcs, NoBuffer, Buffers

LEMMA FramesFit ==
    /\ \A m \in Message : Frame("user_message", m) \in UpFrames
    /\ \A m \in Message \cup {NoMessage} : Frame("stop", m) \in UpFrames
    /\ \A m \in Message, t \in {"text", "turn_complete", "stop", "config_missing", "error"} :
          Frame(t, m) \in DownFrames
BY DEF Frame, UpFrames, DownFrames

LEMMA InitShape == Init => Shape
<1> SUFFICES ASSUME Init PROVE Shape
  OBVIOUS
<1>1. PageShape
  <2>1. 0 \in 0..MaxMessages /\ 0 \in 0..MaxAttempts
    BY Basic
  <2>2. ws = 1 /\ created = 1 /\ ws <= created
    BY DEF Init
  <2>3. byId \in [Socket -> BOOLEAN]
    BY DEF Init
  <2> QED
    BY <2>1, <2>2, <2>3, Basic DEF Init, PageShape
<1>2. ServerShape
  BY Basic, Fresh DEF Init, ServerShape, Sessions
<1>3. WireShape
  BY Basic DEF Init, WireShape, Links
<1> QED
  BY <1>1, <1>2, <1>3 DEF Shape

\* Emptied and closed sockets keep their types.
LEMMA EmptiedFits ==
    ASSUME NEW S, NEW C, NEW ch \in [Socket -> Seq(C)]
    PROVE  Emptied(ch, S) \in [Socket -> Seq(C)]
BY DEF Emptied

LEMMA ClosedFits ==
    ASSUME WireShape, NEW S
    PROVE  Closed(S) \in [Socket -> Links]
BY DEF Closed, WireShape, Links

LEMMA CreateTypes ==
    ASSUME PageShape, NEW lnk \in [Socket -> Links], NEW named \in BOOLEAN, CreateWebSocket(lnk, named)
    PROVE  /\ created' = created + 1 /\ created' \in Socket /\ ws' = created'
           /\ ws' \in {0} \cup Socket /\ ws' <= created'
           /\ connection' = "connecting" /\ connection' \in {"connecting", "connected", "disconnected"}
           /\ byId' \in [Socket -> BOOLEAN]
           /\ link' = [lnk EXCEPT ![created + 1] = "connecting"] /\ link' \in [Socket -> Links]
<1>1. created' = created + 1 /\ created' \in Socket /\ ws' = created' /\ connection' = "connecting"
  BY Basic DEF PageShape, CreateWebSocket, Socket
<1>2. byId' \in [Socket -> BOOLEAN]
  BY DEF PageShape, CreateWebSocket
<1>3. link' = [lnk EXCEPT ![created + 1] = "connecting"] /\ link' \in [Socket -> Links]
  BY <1>1 DEF CreateWebSocket, Links
<1>4. ws' \in {0} \cup Socket /\ ws' <= created'
  BY <1>1, Basic
<1> QED
  BY <1>1, <1>2, <1>3, <1>4

LEMMA CloseTypes ==
    ASSUME PageShape, NEW clean \in BOOLEAN, PageSeesClose(clean), UNCHANGED <<created, byId, chat>>
    PROVE  PageShape' /\ ws' = 0 /\ connection' = "disconnected"
<1>1. timer \in BOOLEAN /\ attempts \in 0..MaxAttempts /\ MaxAttempts \in Nat
  BY Basic DEF PageShape
<1>2. timer' \in BOOLEAN /\ attempts' \in 0..MaxAttempts
  <2>1. CASE ~clean /\ attempts < MaxAttempts
    BY <1>1, <2>1 DEF PageSeesClose
  <2>2. CASE ~(~clean /\ attempts < MaxAttempts)
    BY <1>1, <2>2 DEF PageSeesClose
  <2> QED
    BY <2>1, <2>2
<1>3. ws' = 0 /\ connection' = "disconnected"
  BY DEF PageSeesClose
<1>4. ws' \in {0} \cup Socket /\ ws' <= created'
  BY <1>3, Basic DEF PageShape
<1> QED
  BY <1>2, <1>3, <1>4 DEF PageShape, chat

\* The socket of the page is replaced.
LEMMA ReplaceTypes ==
    ASSUME Shape, NEW named \in BOOLEAN, ReconnectWithUrl(named)
    PROVE  /\ timer' \in BOOLEAN /\ attempts' \in 0..MaxAttempts
           /\ created' = created + 1 /\ created' \in Socket /\ ws' = created'
           /\ ws' \in {0} \cup Socket /\ ws' <= created'
           /\ connection' \in {"connecting", "connected", "disconnected"}
           /\ connection' = "connecting" /\ byId' \in [Socket -> BOOLEAN]
           /\ link' = [Closed({ws}) EXCEPT ![created + 1] = "connecting"] /\ WireShape'
<1>1. Closed({ws}) \in [Socket -> Links]
  BY ClosedFits DEF Shape
<1>2. CreateWebSocket(Closed({ws}), named)
  BY DEF ReconnectWithUrl
<1>3. /\ created' = created + 1 /\ created' \in Socket /\ ws' = created'
      /\ ws' \in {0} \cup Socket /\ ws' <= created'
      /\ connection' \in {"connecting", "connected", "disconnected"}
      /\ connection' = "connecting" /\ byId' \in [Socket -> BOOLEAN]
      /\ link' = [Closed({ws}) EXCEPT ![created + 1] = "connecting"] /\ link' \in [Socket -> Links]
  BY <1>1, <1>2, CreateTypes DEF Shape
<1>4. up' \in [Socket -> Seq(UpFrames)] /\ down' \in [Socket -> Seq(DownFrames)]
  BY EmptiedFits DEF ReconnectWithUrl, Shape, WireShape
<1>5. timer' \in BOOLEAN /\ attempts' \in 0..MaxAttempts
  <2>1. timer' = FALSE /\ attempts' = 0
    BY DEF ReconnectWithUrl
  <2>2. 0 \in 0..MaxAttempts
    BY Basic
  <2> QED
    BY <2>1, <2>2
<1> QED
  BY <1>3, <1>4, <1>5 DEF WireShape

\* What the page does without a frame.
LEMMA PageTypes ==
    ASSUME Shape,
           \/ Reconnects \/ NewChat \/ Selects \/ Selected \/ Sends \/ Stops
           \/ \E s \in Socket : Opens(s)
    PROVE  Shape'
<1>1. CASE Reconnects
  <2>1. byId[created] \in BOOLEAN /\ link \in [Socket -> Links]
    BY DEF Shape, PageShape, WireShape
  <2>2. CreateWebSocket(link, byId[created])
    BY <1>1 DEF Reconnects
  <2>3. /\ created' \in Socket /\ ws' = created'
        /\ ws' \in {0} \cup Socket /\ ws' <= created'
        /\ connection' \in {"connecting", "connected", "disconnected"} /\ byId' \in [Socket -> BOOLEAN]
        /\ link' \in [Socket -> Links]
    BY <2>1, <2>2, CreateTypes DEF Shape
  <2>4. PageShape'
    BY <1>1, <2>3 DEF Reconnects, Shape, PageShape, chat
  <2> QED
    BY <1>1, <2>3, <2>4 DEF Reconnects, Shape, ServerShape, WireShape, server
<1>2. CASE NewChat
  <2>1. ReconnectWithUrl(FALSE)
    BY <1>2 DEF NewChat
  <2>2. PageShape'
    BY <1>2, <2>1, ReplaceTypes DEF NewChat, ClearsChat, Shape, PageShape
  <2> QED
    BY <1>2, <2>1, <2>2, ReplaceTypes DEF NewChat, Shape, ServerShape, server
<1>3. CASE Selected
  <2>1. ReconnectWithUrl(TRUE)
    BY <1>3 DEF Selected
  <2>2. loading' \in BOOLEAN /\ current' \in Message \cup {NoMessage}
    BY <1>3 DEF Selected, ClearsChat, Shape, PageShape
  <2>3. PageShape'
    BY <1>3, <2>1, <2>2, ReplaceTypes DEF Selected, Shape, PageShape
  <2> QED
    BY <1>3, <2>1, <2>3, ReplaceTypes DEF Selected, Shape, ServerShape, server
<1>4. CASE Selects
  BY <1>4 DEF Selects, Shape, PageShape, ServerShape, WireShape, socket, wire, server
<1>5. CASE Sends
  <2>1. sent' \in 0..MaxMessages /\ sent' \in Message
    BY <1>5, Basic DEF Sends, Shape, PageShape, Message
  <2>2. Frame("user_message", sent') \in UpFrames
    BY <2>1, FramesFit
  <2>3. up' \in [Socket -> Seq(UpFrames)]
    BY <1>5, <2>2 DEF Sends, ToServer, Shape, WireShape
  <2> QED
    BY <1>5, <2>1, <2>3 DEF Sends, Shape, PageShape, ServerShape, WireShape, socket, server
<1>6. CASE Stops
  <2>1. Frame("stop", sent) \in UpFrames
    BY FramesFit, Basic DEF Shape, PageShape
  <2>2. up' \in [Socket -> Seq(UpFrames)]
    BY <1>6, <2>1 DEF Stops, ToServer, Shape, WireShape
  <2> QED
    BY <1>6, <2>2 DEF Stops, Shape, PageShape, ServerShape, WireShape, socket, server
<1>7. ASSUME NEW s \in Socket, Opens(s)
      PROVE  Shape'
  <2>1. PageShape'
    BY <1>7, Basic DEF Opens, Shape, PageShape, chat
  <2>2. ServerShape' /\ WireShape'
    BY <1>7 DEF Opens, Shape, ServerShape, WireShape, Sessions, Links
  <2> QED
    BY <2>1, <2>2 DEF Shape
<1> QED
  BY <1>1, <1>2, <1>3, <1>4, <1>5, <1>6, <1>7

\* The page hears a frame.
LEMMA HearTypes ==
    ASSUME Shape, NEW s \in Socket, PageHears(s)
    PROVE  Shape'
<1>1. /\ down[s] \in Seq(DownFrames) /\ down[s] # <<>>
      /\ down' = [down EXCEPT ![s] = Tail(@)]
  BY DEF PageHears, Shape, WireShape
<1>2. Head(down[s]) \in DownFrames /\ Tail(down[s]) \in Seq(DownFrames)
  BY <1>1
<1>3. WireShape'
  BY <1>1, <1>2 DEF PageHears, Shape, WireShape
<1> DEFINE frame == Head(down[s])
<1>4. frame.msg \in Message /\ frame.type \in {"text", "turn_complete", "stop", "config_missing", "error"}
  BY <1>2 DEF DownFrames
<1> HIDE DEF frame
<1>5. loading' \in BOOLEAN /\ current' \in Message \cup {NoMessage}
  <2>1. CASE frame.type = "text"
    BY <1>4, <2>1 DEF PageHears, Shape, PageShape, frame
  <2>2. CASE frame.type = "turn_complete"
    BY <1>4, <2>2 DEF PageHears, Shape, PageShape, frame
  <2>3. CASE frame.type \in {"stop", "config_missing"}
    BY <1>4, <2>3 DEF PageHears, Shape, PageShape, frame
  <2>4. CASE frame.type = "error"
    BY <1>4, <2>4 DEF PageHears, Shape, PageShape, frame
  <2> QED
    BY <1>4, <2>1, <2>2, <2>3, <2>4
<1>6. PageShape'
  BY <1>5 DEF PageHears, Shape, PageShape, socket
<1>7. ServerShape'
  BY DEF PageHears, Shape, ServerShape, server
<1> QED
  BY <1>3, <1>6, <1>7 DEF Shape

\* The session of a socket, and what waits there, changes.
LEMMA SessionTypes ==
    ASSUME Shape, NEW s \in Socket,
           \/ Authenticates(s) \/ LooksUp(s) \/ ServerHears(s) \/ ServerSeesClose(s)
    PROVE  Shape'
<1>1. PageShape'
  BY DEF Authenticates, LooksUp, ServerHears, ServerSeesClose, Shape, PageShape, socket, chat
<1>2. ASSUME NEW known \in BOOLEAN, Setup(s, known), UNCHANGED <<task, wire>>
      PROVE  ServerShape' /\ WireShape'
  <2>1. buffer[s].messages \in Seq(Message) /\ <<>> \in Seq(Message \cup {NoMessage})
    BY DEF Shape, ServerShape, Buffers
  <2>2. buffer[s].messages \in Seq(Message \cup {NoMessage}) /\ <<Setups>> \in Seq(Message \cup {NoMessage})
    BY <2>1 DEF Setups
  <2>3. (IF known THEN <<Setups>> ELSE <<>>) \o buffer[s].messages \in Seq(Message \cup {NoMessage})
    <3>1. CASE known
      BY <2>1, <2>2, <3>1
    <3>2. CASE ~known
      BY <2>1, <2>2, <3>2
    <3> QED
      BY <3>1, <3>2
  <2>4. queue' \in [Socket -> Seq(Message \cup {NoMessage})]
    BY <1>2, <2>3 DEF Setup, Shape, ServerShape
  <2>5. session' \in [Socket -> Sessions] /\ aborted' \in [Socket -> BOOLEAN]
    BY <1>2 DEF Setup, Shape, ServerShape, Sessions
  <2>6. buffer' \in [Socket -> Buffers]
    BY <1>2, Fresh DEF Setup, Shape, ServerShape
  <2>7. WireShape'
    BY <1>2 DEF Shape, WireShape, wire
  <2>8. UNCHANGED task
    BY <1>2
  <2> QED
    BY <2>4, <2>5, <2>6, <2>7, <2>8 DEF Shape, ServerShape
<1>3. CASE Authenticates(s)
  <2>1. CASE byId[s]
    <3>1. WireShape'
      BY <1>3 DEF Authenticates, Shape, WireShape, wire
    <3>2. UNCHANGED <<task, buffer, queue, aborted>> /\ session' = [session EXCEPT ![s] = "lookup"]
      BY <1>3, <2>1 DEF Authenticates
    <3>3. ServerShape'
      BY <3>2 DEF Shape, ServerShape, Sessions
    <3> QED
      BY <1>1, <3>1, <3>3 DEF Shape
  <2>2. CASE ~byId[s]
    <3>1. Setup(s, FALSE) /\ UNCHANGED <<task, wire>>
      BY <1>3, <2>2 DEF Authenticates
    <3>2. FALSE \in BOOLEAN
      OBVIOUS
    <3>3. ServerShape' /\ WireShape'
      BY <1>2, <3>1, <3>2
    <3> QED
      BY <1>1, <3>3 DEF Shape
  <2> QED
    BY <2>1, <2>2
<1>4. CASE LooksUp(s)
  <2>1. PICK known \in BOOLEAN : Setup(s, known)
    BY <1>4 DEF LooksUp
  <2>2. UNCHANGED <<task, wire>>
    BY <1>4 DEF LooksUp
  <2>3. ServerShape' /\ WireShape'
    BY <1>2, <2>1, <2>2
  <2> QED
    BY <1>1, <2>3 DEF Shape
<1>5. CASE ServerHears(s)
  <2>1. /\ up[s] \in Seq(UpFrames) /\ up[s] # <<>>
        /\ up' = [up EXCEPT ![s] = Tail(@)] /\ UNCHANGED <<link, down, session, task>>
    BY <1>5 DEF ServerHears, Shape, WireShape
  <2>2. Head(up[s]) \in UpFrames /\ Tail(up[s]) \in Seq(UpFrames)
    BY <2>1
  <2>3. WireShape'
    BY <2>1, <2>2 DEF Shape, WireShape
  <2> DEFINE frame == Head(up[s])
  <2>4. /\ frame.type \in {"user_message", "stop"} /\ frame.msg \in Message \cup {NoMessage}
        /\ frame.type = "user_message" => frame.msg \in Message
    BY <2>2 DEF UpFrames
  <2>5. buffer[s] \in Buffers /\ buffer \in [Socket -> Buffers] /\ queue[s] \in Seq(Message \cup {NoMessage})
    BY DEF Shape, ServerShape
  <2> HIDE DEF frame
  <2>6. CASE frame.type = "user_message" /\ UNCHANGED <<queue, aborted>>
                /\ buffer' = [buffer EXCEPT ![s].messages = Append(@, frame.msg)]
    <3>1. Append(buffer[s].messages, frame.msg) \in Seq(Message)
      BY <2>4, <2>5, <2>6 DEF Buffers
    <3>2. [buffer[s] EXCEPT !.messages = Append(@, frame.msg)] \in Buffers
      BY <2>5, <3>1 DEF Buffers
    <3>3. buffer' \in [Socket -> Buffers]
      BY <2>5, <2>6, <3>2
    <3> QED
      BY <1>1, <2>1, <2>3, <2>6, <3>3 DEF Shape, ServerShape
  <2>7. CASE frame.type = "stop" /\ UNCHANGED <<queue, aborted>>
                /\ buffer' = [buffer EXCEPT ![s].stops = @ \cup {frame.msg}]
    <3>1. [buffer[s] EXCEPT !.stops = @ \cup {frame.msg}] \in Buffers
      BY <2>4, <2>5 DEF Buffers
    <3>2. buffer' \in [Socket -> Buffers]
      BY <2>5, <2>7, <3>1
    <3> QED
      BY <1>1, <2>1, <2>3, <2>7, <3>2 DEF Shape, ServerShape
  <2>8. CASE frame.type = "user_message" /\ UNCHANGED <<buffer, aborted>>
                /\ queue' = [queue EXCEPT ![s] = Append(@, frame.msg)]
    <3>1. Append(queue[s], frame.msg) \in Seq(Message \cup {NoMessage})
      BY <2>4, <2>5
    <3>2. queue' \in [Socket -> Seq(Message \cup {NoMessage})]
      BY <2>8, <3>1 DEF Shape, ServerShape
    <3> QED
      BY <1>1, <2>1, <2>3, <2>8, <3>2 DEF Shape, ServerShape
  <2>9. CASE UNCHANGED <<buffer, queue>> /\ aborted' = [aborted EXCEPT ![s] = TRUE]
    BY <1>1, <2>1, <2>3, <2>9 DEF Shape, ServerShape
  <2> QED
    BY <1>5, <2>6, <2>7, <2>8, <2>9 DEF ServerHears, frame
<1>6. CASE ServerSeesClose(s)
  <2>1. queue' \in [Socket -> Seq(Message \cup {NoMessage})]
    BY <1>6, EmptiedFits DEF ServerSeesClose, Shape, ServerShape
  <2>2. session' \in [Socket -> Sessions]
    BY <1>6 DEF ServerSeesClose, Shape, ServerShape, Sessions
  <2>3. WireShape'
    BY <1>6 DEF ServerSeesClose, Shape, WireShape, wire
  <2>4. UNCHANGED <<buffer, task, aborted>>
    BY <1>6 DEF ServerSeesClose
  <2> QED
    BY <1>1, <2>1, <2>2, <2>3, <2>4 DEF Shape, ServerShape
<1> QED
  BY <1>3, <1>4, <1>5, <1>6

\* A socket ends, or all of them.
LEMMA EndTypes ==
    ASSUME Shape, \/ Dies
                  \/ \E s \in Socket : Loses(s) \/ ServerCloses(s) \/ Beats(s)
    PROVE  Shape'
<1>1. CASE Dies
  <2>1. PageShape'
    <3>1. CASE ws # 0
      BY <1>1, <3>1, CloseTypes DEF Dies, Shape, PageShape, chat
    <3>2. CASE ws = 0
      BY <1>1, <3>2 DEF Dies, Shape, PageShape, chat
    <3> QED
      BY <3>1, <3>2
  <2>2. ServerShape'
    BY <1>1, Fresh DEF Dies, Shape, ServerShape, Sessions
  <2>3. WireShape'
    BY <1>1 DEF Dies, Shape, WireShape, Links
  <2> QED
    BY <2>1, <2>2, <2>3 DEF Shape
<1>2. ASSUME NEW s \in Socket, Loses(s)
      PROVE  Shape'
  <2>1. PageSeesClose(FALSE)
    BY <1>2 DEF Loses
  <2>2. PageShape'
    BY <1>2, <2>1, CloseTypes DEF Loses, Shape, PageShape, chat
  <2>3. WireShape'
    BY <1>2, ClosedFits, EmptiedFits DEF Loses, Shape, WireShape
  <2> QED
    BY <1>2, <2>2, <2>3 DEF Loses, Shape, ServerShape, server
<1>3. ASSUME NEW s \in Socket, ServerCloses(s)
      PROVE  Shape'
  <2>1. PageSeesClose(TRUE)
    BY <1>3 DEF ServerCloses
  <2>2. PageShape'
    BY <1>3, <2>1, CloseTypes DEF ServerCloses, Shape, PageShape, chat
  <2>3. WireShape'
    BY <1>3, ClosedFits, EmptiedFits DEF ServerCloses, Shape, WireShape
  <2>4. queue' \in [Socket -> Seq(Message \cup {NoMessage})] /\ session' \in [Socket -> Sessions]
    BY <1>3, EmptiedFits DEF ServerCloses, Shape, ServerShape, Sessions
  <2> QED
    BY <1>3, <2>2, <2>3, <2>4 DEF ServerCloses, Shape, ServerShape
<1> QED
  BY <1>1, <1>2, <1>3 DEF Beats

\* What a task sends are frames.
LEMMA TellTypes ==
    ASSUME Shape, NEW s \in Socket, NEW frames \in Seq(DownFrames), Tells(s, frames),
           UNCHANGED <<link, up>>
    PROVE  WireShape'
<1>1. down[s] \o frames \in Seq(DownFrames)
  BY DEF Shape, WireShape
<1>2. down' \in [Socket -> Seq(DownFrames)]
  <2>1. CASE link[s] = "open"
    BY <1>1, <2>1 DEF Tells, Shape, WireShape
  <2>2. CASE link[s] # "open"
    BY <2>2 DEF Tells, Shape, WireShape
  <2> QED
    BY <2>1, <2>2
<1> QED
  BY <1>2 DEF Shape, WireShape

\* A task of a socket goes on, and the page knows nothing of it.
LEMMA RunTypes ==
    ASSUME Shape, NEW s \in Socket, NEW t, TaskFits(t), Runs(s, t), WireShape',
           UNCHANGED <<socket, chat, session, buffer>>,
           queue' \in [Socket -> Seq(Message \cup {NoMessage})],
           aborted' \in [Socket -> BOOLEAN]
    PROVE  Shape'
<1>1. PageShape'
  BY DEF Shape, PageShape, socket, chat
<1>2. t \in Tasks
  BY DEF TaskFits
<1>3. task' = [task EXCEPT ![s] = t] /\ task \in [Socket -> Tasks]
  BY DEF Runs, Shape, ServerShape
<1>4. task' \in [Socket -> Tasks]
  BY <1>2, <1>3
<1>5. ASSUME NEW x \in Socket
      PROVE  TaskFits(task'[x])
  <2>1. CASE x = s
    BY <1>3, <2>1
  <2>2. CASE x # s
    <3>1. task'[x] = task[x] /\ TaskFits(task[x])
      BY <1>3, <2>2 DEF Shape, ServerShape
    <3> QED
      BY <3>1
  <2> QED
    BY <2>1, <2>2
<1>6. session' \in [Socket -> Sessions] /\ buffer' \in [Socket -> Buffers]
  BY DEF Shape, ServerShape
<1>7. ServerShape'
  BY <1>4, <1>5, <1>6 DEF ServerShape
<1> QED
  BY <1>1, <1>7 DEF Shape

\* The steps of a task.
LEMMA TaskTypes ==
    ASSUME Shape, NEW s \in Socket,
           \/ Starts(s) \/ Informs(s) \/ Begins(s) \/ Throws(s)
           \/ Calls(s) \/ Texts(s) \/ Streams(s) \/ Persists(s)
    PROVE  Shape'
<1> DEFINE t == task[s]
<1>1. t \in Tasks /\ TaskFits(t)
  BY DEF Shape, ServerShape
<1>2. /\ queue \in [Socket -> Seq(Message \cup {NoMessage})]
      /\ aborted \in [Socket -> BOOLEAN] /\ WireShape
  BY DEF Shape, ServerShape
<1>3. t.pc \in {"begins", "calls", "streams", "persists"} => t.msg \in Message
  BY <1>1 DEF TaskFits, Pcs
<1>4. <<>> \in Seq(DownFrames) /\ \A f \in DownFrames : <<f>> \in Seq(DownFrames)
  OBVIOUS
<1> HIDE DEF t
<1>5. ASSUME Dies
      PROVE  Shape'
  BY <1>5, EndTypes
<1>6. ASSUME Ends(s), Quiet(s), t.msg \in Message
      PROVE  Shape'
  <2>1. Runs(s, Idle) /\ TaskFits(Idle)
    BY <1>6, Fresh DEF Ends
  <2>2. UNCHANGED <<socket, chat, link, up, session, buffer, queue, aborted>>
    BY <1>6 DEF Quiet
  <2>3. WireShape'
    <3>1. CASE aborted[s]
      <4>1. Tells(s, <<Frame("stop", t.msg)>>)
        BY <1>6, <3>1 DEF Ends, t
      <4>2. <<Frame("stop", t.msg)>> \in Seq(DownFrames)
        BY <1>4, <1>6, FramesFit
      <4> QED
        BY <2>2, <4>1, <4>2, TellTypes
    <3>2. CASE ~aborted[s]
      BY <1>2, <1>6, <2>2, <3>2 DEF Ends, WireShape
    <3> QED
      BY <3>1, <3>2
  <2> QED
    BY <1>2, <2>1, <2>2, <2>3, RunTypes
<1>7. CASE Starts(s)
  <2>1. queue[s] \in Seq(Message \cup {NoMessage}) /\ queue[s] # <<>>
    BY <1>2, <1>7 DEF Starts
  <2>2. Head(queue[s]) \in Message \cup {NoMessage} /\ Tail(queue[s]) \in Seq(Message \cup {NoMessage})
    BY <2>1
  <2> DEFINE n == [Idle EXCEPT !.pc = IF Head(queue[s]) = Setups THEN "info" ELSE "begins", !.msg = Head(queue[s])]
  <2>3. TaskFits(n)
    BY <2>2, Fresh, Basic DEF Idle, Tasks, TaskFits, Pcs
  <2>4. Runs(s, n)
    BY <1>7 DEF Starts
  <2> HIDE DEF n
  <2>5. queue' \in [Socket -> Seq(Message \cup {NoMessage})]
    BY <1>2, <1>7, <2>2 DEF Starts
  <2>6. UNCHANGED <<socket, chat, wire, session, buffer, aborted>>
    BY <1>7 DEF Starts
  <2>7. WireShape'
    BY <1>2, <2>6 DEF WireShape, wire
  <2> QED
    BY <1>2, <2>3, <2>4, <2>5, <2>6, <2>7, RunTypes
<1>8. CASE Informs(s)
  <2>1. CASE Tells(s, <<>>) /\ Runs(s, Idle) /\ UNCHANGED <<socket, chat, link, up, session, buffer, queue, aborted, ghosts>>
    <3>1. WireShape'
      BY <1>4, <2>1, TellTypes
    <3> QED
      BY <1>2, <2>1, <3>1, Fresh, RunTypes
  <2> QED
    BY <1>5, <1>8, <2>1 DEF Informs
<1>9. CASE Begins(s)
  <2>1. t.msg \in Message /\ t.pc = "begins"
    BY <1>3, <1>9 DEF Begins, At, t
  <2>2. CASE Tells(s, <<Frame("config_missing", t.msg)>>) /\ Runs(s, Idle)
              /\ UNCHANGED <<socket, chat, link, up, session, buffer, queue, aborted, ghosts>>
    <3>1. <<Frame("config_missing", t.msg)>> \in Seq(DownFrames)
      BY <1>4, <2>1, FramesFit
    <3>2. WireShape'
      BY <2>2, <3>1, TellTypes
    <3> QED
      BY <1>2, <2>2, <3>2, Fresh, RunTypes
  <2>3. CASE /\ Runs(s, [t EXCEPT !.pc = "calls"])
             /\ aborted' = [aborted EXCEPT ![s] = FALSE]
             /\ UNCHANGED <<socket, chat, wire, session, buffer, queue, ghosts>>
    <3>1. TaskFits([t EXCEPT !.pc = "calls"])
      BY <1>1, <2>1 DEF TaskFits, Tasks, Pcs
    <3>2. WireShape' /\ aborted' \in [Socket -> BOOLEAN]
      BY <1>2, <2>3 DEF WireShape, wire
    <3> QED
      BY <1>2, <2>3, <3>1, <3>2, RunTypes
  <2> QED
    BY <1>5, <1>9, <2>2, <2>3 DEF Begins, t
<1>10. CASE Throws(s)
  <2>1. Runs(s, Idle) /\ UNCHANGED down /\ Quiet(s)
    BY <1>10 DEF Throws
  <2>2. WireShape'
    BY <1>2, <2>1 DEF Quiet, WireShape
  <2>3. UNCHANGED <<socket, chat, link, up, session, buffer, queue, aborted>>
    BY <2>1 DEF Quiet
  <2> QED
    BY <1>2, <2>1, <2>2, <2>3, Fresh, RunTypes
<1>11. CASE Calls(s)
  <2>1. t.msg \in Message /\ t.pc = "calls" /\ Quiet(s)
    BY <1>3, <1>11 DEF Calls, At, t
  <2>2. CASE aborted[s]
    BY <1>6, <1>11, <2>1, <2>2 DEF Calls
  <2>3. CASE ~aborted[s]
    <3>1. Runs(s, [t EXCEPT !.pc = "streams", !.text = FALSE]) /\ UNCHANGED down
      BY <1>11, <2>3 DEF Calls, t
    <3>2. TaskFits([t EXCEPT !.pc = "streams", !.text = FALSE])
      BY <1>1, <2>1 DEF TaskFits, Tasks, Pcs
    <3>3. UNCHANGED <<socket, chat, link, up, session, buffer, queue, aborted>>
      BY <2>1 DEF Quiet
    <3>4. WireShape'
      BY <1>2, <3>1, <3>3 DEF WireShape
    <3> QED
      BY <1>2, <3>1, <3>2, <3>3, <3>4, RunTypes
  <2> QED
    BY <2>2, <2>3
<1>12. CASE Texts(s)
  <2>1. t.msg \in Message /\ t.pc = "streams" /\ Quiet(s)
    BY <1>3, <1>12 DEF Texts, At, t
  <2>2. /\ Runs(s, [t EXCEPT !.text = TRUE])
        /\ Tells(s, <<Frame("text", t.msg)>>)
    BY <1>12 DEF Texts, t
  <2>3. UNCHANGED <<socket, chat, link, up, session, buffer, queue, aborted>>
    BY <2>1 DEF Quiet
  <2>4. <<Frame("text", t.msg)>> \in Seq(DownFrames)
    BY <1>4, <2>1, FramesFit
  <2>5. WireShape'
    BY <2>2, <2>3, <2>4, TellTypes
  <2>6. TaskFits([t EXCEPT !.text = TRUE])
    BY <1>1, <2>1 DEF TaskFits, Tasks, Pcs
  <2> QED
    BY <1>2, <2>2, <2>3, <2>5, <2>6, RunTypes
<1>13. CASE Streams(s)
  <2>1. t.msg \in Message /\ t.pc = "streams" /\ Quiet(s)
    BY <1>3, <1>13 DEF Streams, At, t
  <2>2. PICK reason \in {"stop", "error", "tool_calls"} :
          /\ reason = "tool_calls" => t.rounds + 1 < MaxRounds
          /\ Tells(s, (IF reason = "tool_calls" THEN <<>> ELSE <<Frame(reason, t.msg)>>)
                          \o <<Frame("turn_complete", t.msg)>>)
          /\ Runs(s, [t EXCEPT !.pc = "persists", !.done = reason # "tool_calls"])
    BY <1>13 DEF Streams, t
  <2>3. UNCHANGED <<socket, chat, link, up, session, buffer, queue, aborted>>
    BY <2>1 DEF Quiet
  <2> DEFINE frames == (IF reason = "tool_calls" THEN <<>> ELSE <<Frame(reason, t.msg)>>)
                          \o <<Frame("turn_complete", t.msg)>>
  <2>4. frames \in Seq(DownFrames)
    <3>1. <<Frame("turn_complete", t.msg)>> \in Seq(DownFrames)
      BY <1>4, <2>1, FramesFit
    <3>2. CASE reason = "tool_calls"
      BY <1>4, <3>1, <3>2
    <3>3. CASE reason # "tool_calls"
      <4>1. <<Frame(reason, t.msg)>> \in Seq(DownFrames)
        BY <1>4, <2>1, <3>3, FramesFit
      <4> QED
        BY <3>1, <3>3, <4>1
    <3> QED
      BY <3>2, <3>3
  <2> HIDE DEF frames
  <2>5. Tells(s, frames)
    BY <2>2 DEF frames
  <2>6. WireShape'
    BY <2>3, <2>4, <2>5, TellTypes
  <2>7. TaskFits([t EXCEPT !.pc = "persists", !.done = reason # "tool_calls"])
    <3>1. (reason # "tool_calls") \in BOOLEAN
      OBVIOUS
    <3> QED
      BY <1>1, <2>1, <2>2, <3>1 DEF TaskFits, Tasks, Pcs
  <2> QED
    BY <1>2, <2>2, <2>3, <2>6, <2>7, RunTypes
<1>14. CASE Persists(s)
  <2>1. t.msg \in Message /\ t.pc = "persists" /\ Quiet(s)
    BY <1>3, <1>14 DEF Persists, At, t
  <2>2. CASE aborted[s] \/ t.done
    BY <1>6, <1>14, <2>1, <2>2 DEF Persists, t
  <2>3. CASE ~(aborted[s] \/ t.done)
    <3>1. Runs(s, [t EXCEPT !.pc = "calls", !.rounds = @ + 1]) /\ UNCHANGED down
      BY <1>14, <2>3 DEF Persists, t
    <3>2. TaskFits([t EXCEPT !.pc = "calls", !.rounds = @ + 1])
      <4>1. ~t.done /\ t.rounds \in Nat /\ t.rounds + 1 \in Nat /\ t.rounds + 1 < MaxRounds
        BY <1>1, <2>1, <2>3 DEF TaskFits, Tasks
      <4>2. [t EXCEPT !.pc = "calls", !.rounds = @ + 1] \in Tasks
        BY <1>1, <4>1 DEF TaskFits, Tasks, Pcs
      <4> DEFINE n == [t EXCEPT !.pc = "calls", !.rounds = @ + 1]
      <4>3. n.pc = "calls" /\ n.rounds = t.rounds + 1 /\ n.done = t.done /\ n.msg = t.msg
        BY <1>1 DEF TaskFits, Tasks
      <4>4. n \in Tasks
        BY <4>2
      <4> HIDE DEF n
      <4>5. TaskFits(n)
        BY <2>1, <4>1, <4>3, <4>4 DEF TaskFits
      <4> QED
        BY <4>5 DEF n
    <3>3. UNCHANGED <<socket, chat, link, up, session, buffer, queue, aborted>>
      BY <2>1 DEF Quiet
    <3>4. WireShape'
      BY <1>2, <3>1, <3>3 DEF WireShape
    <3> QED
      BY <1>2, <3>1, <3>2, <3>3, <3>4, RunTypes
  <2> QED
    BY <2>2, <2>3
<1> QED
  BY <1>7, <1>8, <1>9, <1>10, <1>11, <1>12, <1>13, <1>14

LEMMA NextShape == Shape /\ [Next]_vars => Shape'
<1> SUFFICES ASSUME Shape, [Next]_vars PROVE Shape'
  OBVIOUS
<1>1. CASE UNCHANGED vars
  BY <1>1 DEF vars, socket, chat, wire, server, Shape, PageShape, ServerShape, WireShape
<1>2. CASE Browser
  BY <1>2, PageTypes, HearTypes DEF Browser
<1>3. CASE Server
  BY <1>3, SessionTypes, TaskTypes DEF Server
<1>4. CASE User
  BY <1>4, PageTypes DEF User
<1>5. CASE Faults
  BY <1>5, EndTypes DEF Faults
<1> QED
  BY <1>1, <1>2, <1>3, <1>4, <1>5 DEF Next

\* The variables keep their types: the page makes no more attempts than it is
\* allowed, and a turn takes no more rounds than the model wants.
THEOREM TypeCorrect == Spec => []TypeOK
<1>1. Init => Shape
  BY InitShape
<1>2. Shape /\ [Next]_vars => Shape'
  BY NextShape
<1>3. Shape => TypeOK
  <2> SUFFICES ASSUME Shape PROVE TypeOK
    OBVIOUS
  <2>1. ASSUME NEW s \in Socket
        PROVE  /\ link[s] \in {"none", "connecting", "open", "closed"}
               /\ session[s] \in {"none", "auth", "lookup", "late", "live", "orphan", "ended"}
               /\ task[s].pc \in {"idle", "info", "begins", "calls", "streams", "persists"}
               /\ task[s].rounds < MaxRounds
    <3>1. TaskFits(task[s])
      BY DEF Shape, ServerShape
    <3>2. task[s].pc \in Pcs /\ task[s].rounds < MaxRounds
      BY <3>1 DEF TaskFits, Tasks
    <3> QED
      BY <3>2 DEF Shape, ServerShape, WireShape, Links, Sessions, Pcs
  <2> QED
    BY <2>1 DEF TypeOK, Shape, PageShape
<1> QED
  BY <1>1, <1>2, <1>3, PTL DEF Spec

----------------------------------------------------------------------------
(* One socket. *)

LEMMA Typed ==
    ASSUME Shape, NEW s \in Socket
    PROVE  /\ up[s] \in Seq(UpFrames) /\ down[s] \in Seq(DownFrames)
           /\ queue[s] \in Seq(Message \cup {NoMessage}) /\ buffer[s].messages \in Seq(Message)
           /\ buffer[s].stops \subseteq Message \cup {NoMessage}
           /\ TaskFits(task[s]) /\ task[s] \in Tasks /\ task[s].msg \in Message \cup {NoMessage}
           /\ aborted[s] \in BOOLEAN /\ sent \in Nat /\ loading \in BOOLEAN
           /\ s \in Nat \ {0} /\ created \in Nat
<1>1. buffer[s] \in Buffers /\ TaskFits(task[s]) /\ task[s] \in Tasks
  BY DEF Shape, ServerShape
<1>2. buffer[s].messages \in Seq(Message) /\ buffer[s].stops \subseteq Message \cup {NoMessage}
  BY <1>1 DEF Buffers
<1>3. task[s].msg \in Message \cup {NoMessage}
  BY <1>1 DEF Tasks
<1> QED
  BY <1>1, <1>2, <1>3, Basic DEF Shape, PageShape, ServerShape, WireShape

\* What the socket has stays as it is.
Same(s) ==
    /\ up'[s] = up[s] /\ down'[s] = down[s] /\ buffer'[s] = buffer[s]
    /\ queue'[s] = queue[s] /\ task'[s] = task[s] /\ aborted'[s] = aborted[s]

\* What the page gave up stays given up.
Grows ==
    /\ sent' = sent
    /\ \A m \in Message : Excused(m) => Excused(m)'
    /\ halted \subseteq halted' /\ misled \subseteq misled'
    /\ halted' \ halted \subseteq early' /\ early \subseteq early'

LEMMA KeptTurns ==
    ASSUME NEW s \in Socket, Turns(s), Same(s), Grows
    PROVE  Turns(s)'
<1>1. Once(s)'
  BY DEF Turns, Same, Grows, Once, Asked, Waits, Around, Here
<1>2. Ordered(s)'
  BY DEF Turns, Same, Grows, Ordered, Stopping, Here, Waits
<1>3. Explained(s)'
  BY DEF Turns, Same, Grows, Explained, Unfinished, Asked, Waits, Texted
<1>4. Closing(s)'
  BY DEF Turns, Same, Closing, Ended, Unfinished, Asked, Waits
<1>5. Heard(s)'
  BY DEF Turns, Same, Grows, Heard, Around, Asked, Here, Waits, Stopping, InLoop
<1> QED
  BY <1>1, <1>2, <1>3, <1>4, <1>5 DEF Turns

LEMMA KeptAborts ==
    ASSUME NEW s \in Socket, Aborts(s), task'[s] = task[s], aborted'[s] = aborted[s],
           halted \subseteq halted', misled \subseteq misled'
    PROVE  Aborts(s)'
BY DEF Aborts, InLoop

\* A socket that has had nothing yet.
LEMMA FreshTurns ==
    ASSUME NEW s \in Socket, up'[s] = <<>>, down'[s] = <<>>, buffer'[s] = NoBuffer, queue'[s] = <<>>,
           task'[s].msg = NoMessage
    PROVE  Turns(s)'
<1>1. NoBuffer.messages = <<>> /\ \A m \in Message : m # NoMessage
  BY Basic DEF NoBuffer
<1>2. \A m \in Message : ~Asked(s, m)' /\ ~Here(s, m)' /\ ~Waits(s, m)' /\ ~Around(s, m)' /\ ~Unfinished(s, m)' /\ ~Texted(s, m)'
  BY <1>1, Empty DEF Asked, Here, Waits, Around, Unfinished, Texted
<1>3. \A k : ~Stopping(s, k)'
  BY Empty DEF Stopping
<1>4. DOMAIN down'[s] = {}
  OBVIOUS
<1>5. Once(s)'
  BY <1>1, <1>2, <1>4, Empty DEF Once
<1>6. Ordered(s)'
  BY <1>3, Empty DEF Ordered
<1>7. Explained(s)' /\ Heard(s)'
  BY <1>2 DEF Explained, Heard
<1>8. Closing(s)'
  BY <1>2, Empty DEF Closing
<1> QED
  BY <1>5, <1>6, <1>7, <1>8 DEF Turns

\* A task goes on or ends and tells frames of its message.
LEMMA TaskStep ==
    ASSUME Shape, NEW s \in Socket, Turns(s), UNCHANGED <<sent, loading, halted, misled, early>>,
           up'[s] = up[s], buffer'[s] = buffer[s], queue'[s] = queue[s],
           NEW m, m = task[s].msg,
           NEW r \in Seq(DownFrames), down'[s] = down[s] \o r, Sealed(r),
           \A i \in DOMAIN r : r[i].msg = m,
           \A i \in DOMAIN r : r[i].type = "text" => ~task[s].done,
           \A i \in DOMAIN r : r[i].type \in Terminal => ~(task'[s].msg = m /\ ~task'[s].done),
           task'[s].msg \in {m, NoMessage},
           task'[s].msg = m /\ ~task'[s].done => ~task[s].done,
           task'[s].msg = m /\ m # NoMessage /\ InLoop(s, m) /\ aborted[s] => InLoop(s, m)' /\ aborted'[s]
    PROVE  Turns(s)'
<1>1. /\ down[s] \in Seq(DownFrames) /\ m \in Message \cup {NoMessage}
      /\ \A k \in Message : k # NoMessage
  BY Typed, Basic
<1>2. /\ \A x : In(down'[s], x) <=> In(down[s], x) \/ In(r, x)
      /\ \A i \in DOMAIN down'[s] :
            (\E j \in DOMAIN down[s] : down'[s][i] = down[s][j]) \/ \E j \in DOMAIN r : down'[s][i] = r[j]
  <2> DEFINE q == down[s]
             d == q \o r
  <2>1. q \in Seq(DownFrames) /\ d = down'[s]
    BY <1>1
  <2> HIDE DEF q
  <2>2. \A x : In(q \o r, x) <=> In(q, x) \/ In(r, x)
    BY <2>1, JoinIn
  <2>3. \A i \in DOMAIN (q \o r) :
           (\E j \in DOMAIN q : (q \o r)[i] = q[j]) \/ \E j \in DOMAIN r : (q \o r)[i] = r[j]
    BY <2>1, JoinIn
  <2>4. q \o r = d
    OBVIOUS
  <2> HIDE DEF d
  <2> QED
    BY <2>1, <2>2, <2>3, <2>4 DEF q
<1>3. \A j \in DOMAIN r : r[j] \in DownFrames /\ m \in Message
  <2>1. \A j \in DOMAIN r : r[j] \in DownFrames
    OBVIOUS
  <2> QED
    BY <2>1 DEF DownFrames
<1>4. \A k \in Message : /\ Asked(s, k)' <=> Asked(s, k)
                         /\ Waits(s, k)' <=> Waits(s, k)
                         /\ Here(s, k)' => Here(s, k)
                         /\ Around(s, k)' => Around(s, k)
                         /\ Unfinished(s, k)' => Unfinished(s, k)
  BY <1>1 DEF Asked, Waits, Here, Around, Unfinished
<1>5. m \in Message => /\ Here(s, m) /\ ~Asked(s, m) /\ ~Waits(s, m) /\ m <= sent
                       /\ ~task[s].done => Unfinished(s, m)
  BY DEF Turns, Once, Here, Around, Unfinished
<1>6. Once(s)'
  <2>1. SentOnce(up'[s]) /\ Distinct(queue'[s]) /\ Distinct(buffer'[s].messages)
    BY DEF Turns, Once
  <2>2. \A k \in Message : /\ ~(Asked(s, k)' /\ Here(s, k)')
                           /\ ~(Waits(s, k)' /\ task'[s].msg = k)
                           /\ Around(s, k)' => k <= sent'
    <3>1. \A k \in Message : task'[s].msg = k => task[s].msg = k
      BY <1>1
    <3> QED
      BY <1>4, <3>1 DEF Turns, Once
  <2>3. \A i \in DOMAIN down'[s] : down'[s][i].msg <= sent'
    <3>1. ASSUME NEW i \in DOMAIN down'[s] PROVE down'[s][i].msg <= sent'
      <4>1. CASE \E j \in DOMAIN down[s] : down'[s][i] = down[s][j]
        BY <4>1 DEF Turns, Once
      <4>2. CASE \E j \in DOMAIN r : down'[s][i] = r[j]
        BY <1>3, <1>5, <4>2
      <4> QED
        BY <1>2, <4>1, <4>2
    <3> QED
      BY <3>1
  <2> QED
    BY <2>1, <2>2, <2>3 DEF Once
<1>7. Ordered(s)'
  <2>1. \A k : Stopping(s, k)' <=> Stopping(s, k)
    BY DEF Stopping
  <2>2. StopsLast(up'[s])
    BY DEF Turns, Ordered
  <2> QED
    BY <1>4, <2>1, <2>2 DEF Turns, Ordered
<1>8. Explained(s)'
  <2>1. ASSUME NEW k \in Message, Unfinished(s, k)' \/ Texted(s, k)'
        PROVE  Excused(k)'
    <3>1. Excused(k) => Excused(k)'
      BY DEF Excused
    <3>2. CASE Unfinished(s, k)'
      BY <1>4, <3>1, <3>2 DEF Turns, Explained
    <3>3. CASE Texted(s, k) /\ ~Unfinished(s, k)'
      BY <3>1, <3>3 DEF Turns, Explained
    <3>4. CASE In(r, Frame("text", k))
      <4>1. PICK j \in DOMAIN r : r[j] = Frame("text", k)
        BY <3>4 DEF In
      <4>2. r[j].type = "text" /\ r[j].msg = k
        BY <4>1, FrameFields
      <4>3. Unfinished(s, k)
        BY <1>5, <4>2
      <4> QED
        BY <3>1, <4>3 DEF Turns, Explained
    <3>5. Texted(s, k)' => Texted(s, k) \/ In(r, Frame("text", k))
      BY <1>2 DEF Texted
    <3> QED
      BY <2>1, <3>2, <3>3, <3>4, <3>5
  <2> QED
    BY <2>1 DEF Explained
<1>9. Closing(s)'
  <2>1. \A i \in DOMAIN down[s], j \in DOMAIN r :
           down[s][i].type \in Terminal /\ r[j].type = "text" => down[s][i].msg # r[j].msg
    <3> SUFFICES ASSUME NEW i \in DOMAIN down[s], NEW j \in DOMAIN r, down[s][i].type \in Terminal,
                        r[j].type = "text", down[s][i].msg = r[j].msg
                 PROVE  FALSE
      OBVIOUS
    <3>1. m \in Message /\ r[j].msg = m /\ Unfinished(s, m)
      BY <1>3, <1>5
    <3>2. Ended(s, m)
      BY <3>1 DEF Ended
    <3> QED
      BY <3>1, <3>2 DEF Turns, Closing
  <2>2. Sealed(down[s])
    BY DEF Turns, Closing
  <2>3. Sealed(down'[s])
    BY <1>1, <2>1, <2>2, JoinDown
  <2>4. ASSUME NEW k \in Message, Ended(s, k)', Unfinished(s, k)'
        PROVE  FALSE
    <3>1. PICK i \in DOMAIN down'[s] : down'[s][i].type \in Terminal /\ down'[s][i].msg = k
      BY <2>4 DEF Ended
    <3>2. CASE \E j \in DOMAIN down[s] : down'[s][i] = down[s][j]
      <4>1. Ended(s, k)
        BY <3>1, <3>2 DEF Ended
      <4>2. Unfinished(s, k)
        BY <1>4, <2>4
      <4> QED
        BY <4>1, <4>2 DEF Turns, Closing
    <3>3. CASE \E j \in DOMAIN r : down'[s][i] = r[j]
      <4>1. k = m /\ ~(task'[s].msg = m /\ ~task'[s].done)
        BY <3>1, <3>3
      <4>2. ~Asked(s, k)' /\ ~Waits(s, k)'
        BY <1>4, <1>5, <4>1
      <4> QED
        BY <2>4, <4>1, <4>2 DEF Unfinished
    <3> QED
      BY <1>2, <3>2, <3>3
  <2> QED
    BY <2>3, <2>4 DEF Closing
<1>10. Heard(s)'
  <2> SUFFICES ASSUME NEW k \in Message, Around(s, k)', k \in halted' \ early'
               PROVE  Stopping(s, k)' \/ k \in buffer'[s].stops \/ (InLoop(s, k)' /\ aborted'[s])
    BY DEF Heard
  <2>1. Stopping(s, k) \/ k \in buffer[s].stops \/ (InLoop(s, k) /\ aborted[s])
    BY <1>4 DEF Turns, Heard
  <2>2. CASE Stopping(s, k) \/ k \in buffer[s].stops
    BY <2>2 DEF Stopping
  <2>3. CASE InLoop(s, k) /\ aborted[s]
    <3>1. k = m
      BY <2>3 DEF InLoop
    <3>2. task'[s].msg = k
      BY <1>4, <1>5, <3>1 DEF Around, Here
    <3> QED
      BY <1>1, <2>3, <3>1, <3>2
  <2> QED
    BY <2>1, <2>2, <2>3
<1> QED
  BY <1>6, <1>7, <1>8, <1>9, <1>10 DEF Turns

----------------------------------------------------------------------------
(* What waits. *)

\* The next task starts.
LEMMA StartStep ==
    ASSUME Shape, NEW s \in Socket, Placed(s), Turns(s), Starts(s)
    PROVE  Turns(s)'
<1> DEFINE h == Head(queue[s])
<1>1. /\ queue[s] \in Seq(Message \cup {NoMessage}) /\ queue[s] # <<>>
      /\ task[s].pc = "idle" /\ TaskFits(task[s]) /\ task[s].msg = NoMessage /\ ~task[s].done
      /\ buffer[s] = NoBuffer /\ buffer[s].messages = <<>>
  <2>1. queue[s] \in Seq(Message \cup {NoMessage}) /\ TaskFits(task[s])
    BY Typed
  <2>2. queue[s] # <<>> /\ task[s].pc = "idle"
    BY DEF Starts, At
  <2>3. buffer[s] = NoBuffer
    BY <2>2 DEF Placed
  <2>4. NoBuffer.messages = <<>>
    BY DEF NoBuffer
  <2> QED
    BY <2>1, <2>2, <2>3, <2>4 DEF TaskFits
<1>2. /\ h \in Message \cup {NoMessage} /\ In(queue[s], h)
      /\ \A x : In(Tail(queue[s]), x) => In(queue[s], x)
      /\ \A x : In(queue[s], x) => x = h \/ In(Tail(queue[s]), x)
      /\ Distinct(queue[s]) => Distinct(Tail(queue[s])) /\ ~In(Tail(queue[s]), h)
  BY <1>1, TailIn
<1>3. /\ queue'[s] = Tail(queue[s]) /\ task'[s].msg = h /\ ~task'[s].done
      /\ up'[s] = up[s] /\ down'[s] = down[s] /\ buffer'[s] = buffer[s] /\ aborted'[s] = aborted[s]
      /\ UNCHANGED <<sent, loading, halted, misled, early>>
  <2>1. queue'[s] = Tail(queue[s])
    BY DEF Starts, Shape, ServerShape
  <2>2. task'[s] = [Idle EXCEPT !.pc = IF h = Setups THEN "info" ELSE "begins", !.msg = h]
    BY DEF Starts, Runs, Shape, ServerShape
  <2>3. task'[s].msg = h /\ ~task'[s].done
    BY <2>2 DEF Idle
  <2> QED
    BY <2>1, <2>3 DEF Starts, chat, wire, ghosts
<1> HIDE DEF h
<1>4. \A k \in Message : k # NoMessage /\ ~In(buffer[s].messages, k)
  BY <1>1, Empty, Basic
<1>5. Distinct(queue[s])
  BY DEF Turns, Once
<1>6. \A k \in Message : /\ Asked(s, k)' <=> Asked(s, k)
                         /\ Waits(s, k) <=> Waits(s, k)' \/ task'[s].msg = k
                         /\ ~(Waits(s, k)' /\ task'[s].msg = k)
                         /\ task[s].msg # k
  BY <1>1, <1>2, <1>3, <1>4, <1>5 DEF Asked, Waits
<1>7. \A k \in Message : /\ Here(s, k)' <=> Here(s, k)
                         /\ Around(s, k)' <=> Around(s, k)
                         /\ Unfinished(s, k)' <=> Unfinished(s, k)
  BY <1>3, <1>6 DEF Here, Around, Unfinished
<1>8. Once(s)'
  BY <1>2, <1>3, <1>5, <1>6, <1>7 DEF Turns, Once
<1>9. Ordered(s)'
  BY <1>3, <1>7 DEF Turns, Ordered, Stopping
<1>10. Explained(s)'
  BY <1>3, <1>7 DEF Turns, Explained, Excused, Texted
<1>11. Closing(s)'
  BY <1>3, <1>7 DEF Turns, Closing, Ended
<1>12. Heard(s)'
  <2>1. \A k \in Message : ~InLoop(s, k)
    BY <1>1 DEF InLoop
  <2> QED
    BY <1>3, <1>7, <2>1 DEF Turns, Heard, Stopping
<1> QED
  BY <1>8, <1>9, <1>10, <1>11, <1>12 DEF Turns

\* What came during the lookup is handled.
LEMMA SetupStep ==
    ASSUME Shape, NEW s \in Socket, Placed(s), Turns(s), session[s] \in {"auth", "lookup", "late"},
           NEW known \in BOOLEAN, Setup(s, known),
           up'[s] = up[s], down'[s] = down[s], task'[s] = task[s], UNCHANGED <<sent, loading, halted, misled>>
    PROVE  Turns(s)'
<1> DEFINE b == buffer[s].messages
           p == IF known THEN <<Setups>> ELSE <<>>
<1>1. /\ queue[s] = <<>> /\ task[s].pc = "idle" /\ task[s].msg = NoMessage
      /\ b \in Seq(Message) /\ \A k \in Message : k # NoMessage
  <2>1. queue[s] = <<>> /\ task[s].pc = "idle"
    BY DEF Placed
  <2>2. TaskFits(task[s]) /\ b \in Seq(Message)
    BY Typed
  <2> QED
    BY <2>1, <2>2, Basic DEF TaskFits
<1>2. /\ queue'[s] = p \o b /\ buffer'[s] = NoBuffer /\ NoBuffer.messages = <<>>
      /\ early' = early \cup buffer[s].stops
  <2>1. queue'[s] = p \o b
    BY DEF Setup, Shape, ServerShape
  <2>2. buffer'[s] = NoBuffer
    BY DEF Setup, Shape, ServerShape
  <2> QED
    BY <2>1, <2>2 DEF Setup, NoBuffer
<1>3. /\ p \in Seq(Message \cup {NoMessage}) /\ b \in Seq(Message \cup {NoMessage})
      /\ Distinct(p) /\ \A x : In(p, x) => x = NoMessage
  <2>1. CASE known
    <3>1. p = <<Setups>> /\ DOMAIN p = {1} /\ p[1] = NoMessage /\ p \in Seq(Message \cup {NoMessage})
      BY <2>1 DEF Setups
    <3> HIDE DEF p
    <3> QED
      BY <1>1, <3>1 DEF Distinct, In
  <2>2. CASE ~known
    <3>1. p = <<>>
      BY <2>2
    <3> HIDE DEF p
    <3> QED
      BY <1>1, <3>1, Empty
  <2> QED
    BY <2>1, <2>2
<1> HIDE DEF p
<1>4. \A x : In(b, x) => x \in Message
  BY <1>1 DEF In
<1>5. Distinct(b)
  BY DEF Turns, Once
<1>6. \A x : ~(In(p, x) /\ In(b, x))
  BY <1>1, <1>3, <1>4
<1> HIDE DEF b
<1>7. \A x : In(p \o b, x) <=> In(p, x) \/ In(b, x)
  BY <1>3, JoinIn
<1>8. Distinct(p \o b)
  BY <1>3, <1>5, <1>6, JoinIn
<1>9. \A k \in Message : /\ Asked(s, k)' <=> Asked(s, k)
                         /\ Waits(s, k)' <=> Waits(s, k)
  <2>1. \A k \in Message : In(queue'[s], k) <=> In(b, k)
    BY <1>1, <1>2, <1>3, <1>7
  <2> QED
    BY <1>1, <1>2, <2>1, Empty DEF Asked, Waits, b
<1>10. \A k \in Message : /\ Here(s, k)' <=> Here(s, k)
                          /\ Around(s, k)' <=> Around(s, k)
                          /\ Unfinished(s, k)' <=> Unfinished(s, k)
  BY <1>9 DEF Here, Around, Unfinished
<1>11. Once(s)'
  BY <1>2, <1>8, <1>9, <1>10, Empty DEF Turns, Once
<1>12. Ordered(s)'
  BY <1>10 DEF Turns, Ordered, Stopping
<1>13. Explained(s)'
  BY <1>10 DEF Turns, Explained, Excused, Texted
<1>14. Closing(s)'
  BY <1>10 DEF Turns, Closing, Ended
<1>15. Heard(s)'
  <2>1. \A k \in Message : ~InLoop(s, k)
    BY <1>1 DEF InLoop
  <2> QED
    BY <1>2, <1>10, <2>1 DEF Turns, Heard, Stopping
<1> QED
  BY <1>11, <1>12, <1>13, <1>14, <1>15 DEF Turns

\* The server takes a message off the socket.
LEMMA HearMessage ==
    ASSUME Shape, NEW s \in Socket, Turns(s), up[s] # <<>>, up'[s] = Tail(up[s]),
           Head(up[s]).type = "user_message", NEW m, m = Head(up[s]).msg,
           down'[s] = down[s], task'[s] = task[s], aborted'[s] = aborted[s],
           UNCHANGED <<sent, loading, halted, misled, early>>,
           buffer'[s].stops = buffer[s].stops,
           \/ queue'[s] = queue[s] /\ buffer'[s].messages = Append(buffer[s].messages, m)
           \/ buffer'[s].messages = buffer[s].messages /\ queue'[s] = Append(queue[s], m)
    PROVE  Turns(s)'
<1>1. /\ up[s] \in Seq(UpFrames) /\ queue[s] \in Seq(Message \cup {NoMessage})
      /\ buffer[s].messages \in Seq(Message)
  BY Typed
<1> DEFINE q == up[s]
           h == Head(q)
<1>2. /\ h \in UpFrames /\ In(q, h)
      /\ \A x : In(Tail(q), x) => In(q, x)
      /\ \A x : In(q, x) => x = h \/ In(Tail(q), x)
  BY <1>1, TailIn
<1>3. /\ SentOnce(q) /\ StopsLast(q)
      /\ SentOnce(Tail(q)) /\ ~In(Tail(q), h) /\ StopsLast(Tail(q))
      /\ \A k : In(q, Frame("stop", k)) => h.msg <= k
  <2>1. SentOnce(q) /\ StopsLast(q)
    BY DEF Turns, Once, Ordered
  <2> QED
    BY <1>1, <2>1, TailUp
<1>4. m \in Message /\ h = Frame("user_message", m)
  BY <1>2, FrameFields DEF UpFrames
<1> HIDE DEF q, h
<1>5. /\ Asked(s, m) /\ ~Asked(s, m)' /\ ~Here(s, m) /\ ~Waits(s, m) /\ m <= sent
      /\ \A k \in Message : k # m => (Asked(s, k)' <=> Asked(s, k))
  <2>1. Asked(s, m) /\ ~Asked(s, m)'
    BY <1>2, <1>3, <1>4 DEF Asked, q
  <2>2. ~Here(s, m) /\ ~Waits(s, m) /\ m <= sent
    BY <1>4, <2>1 DEF Turns, Once, Here, Around
  <2>3. \A k \in Message : k # m => Frame("user_message", k) # h
    BY <1>4, FrameFields
  <2>4. \A k \in Message : k # m => (Asked(s, k)' <=> Asked(s, k))
    BY <1>2, <2>3 DEF Asked, q
  <2> QED
    BY <2>1, <2>2, <2>4
<1>6. \A k : Stopping(s, k)' <=> Stopping(s, k)
  <2>1. \A k : Frame("stop", k) # h
    BY <1>4, FrameFields
  <2> QED
    BY <1>2, <2>1 DEF Stopping, q
<1>7. /\ \A k \in Message : Waits(s, k)' <=> Waits(s, k) \/ k = m
      /\ Distinct(queue'[s]) /\ Distinct(buffer'[s].messages)
  <2>1. Distinct(queue[s]) /\ Distinct(buffer[s].messages) /\ ~In(queue[s], m) /\ ~In(buffer[s].messages, m)
    BY <1>5 DEF Turns, Once, Waits
  <2>2. CASE queue'[s] = queue[s] /\ buffer'[s].messages = Append(buffer[s].messages, m)
    <3>1. /\ \A y : In(Append(buffer[s].messages, m), y) <=> In(buffer[s].messages, y) \/ y = m
          /\ Distinct(Append(buffer[s].messages, m))
      BY <1>1, <1>4, <2>1, AppendIn
    <3> QED
      BY <2>1, <2>2, <3>1 DEF Waits
  <2>3. CASE buffer'[s].messages = buffer[s].messages /\ queue'[s] = Append(queue[s], m)
    <3>1. m \in Message \cup {NoMessage}
      BY <1>4
    <3>2. /\ \A y : In(Append(queue[s], m), y) <=> In(queue[s], y) \/ y = m
          /\ Distinct(Append(queue[s], m))
      BY <1>1, <2>1, <3>1, AppendIn
    <3> QED
      BY <2>1, <2>3, <3>2 DEF Waits
  <2> QED
    BY <2>2, <2>3
<1>8. \A k \in Message : /\ Here(s, k)' <=> Here(s, k) \/ k = m
                         /\ Around(s, k)' <=> Around(s, k)
                         /\ Unfinished(s, k)' <=> Unfinished(s, k)
  BY <1>5, <1>7 DEF Here, Around, Unfinished
<1>9. Once(s)'
  <2>1. \A k \in Message : ~(Asked(s, k)' /\ Here(s, k)') /\ ~(Waits(s, k)' /\ task'[s].msg = k)
    BY <1>5, <1>7, <1>8 DEF Turns, Once, Here
  <2>2. SentOnce(up'[s])
    BY <1>3 DEF q
  <2> QED
    BY <1>7, <1>8, <2>1, <2>2 DEF Turns, Once
<1>10. Ordered(s)'
  <2>1. StopsLast(up'[s])
    BY <1>3 DEF q
  <2>2. \A k : Stopping(s, k) => m <= k
    BY <1>3, <1>4, FrameFields DEF Stopping, q
  <2> QED
    BY <1>6, <1>8, <2>1, <2>2 DEF Turns, Ordered
<1>11. Explained(s)'
  BY <1>8 DEF Turns, Explained, Excused, Texted
<1>12. Closing(s)'
  BY <1>8 DEF Turns, Closing, Ended
<1>13. Heard(s)'
  BY <1>6, <1>8 DEF Turns, Heard, InLoop
<1> QED
  BY <1>9, <1>10, <1>11, <1>12, <1>13 DEF Turns

\* The server takes a stop off the socket.
LEMMA HearStop ==
    ASSUME Shape, NEW s \in Socket, Turns(s), up[s] # <<>>, up'[s] = Tail(up[s]),
           Head(up[s]).type = "stop", NEW m, m = Head(up[s]).msg,
           down'[s] = down[s], task'[s] = task[s], queue'[s] = queue[s],
           buffer'[s].messages = buffer[s].messages,
           UNCHANGED <<sent, loading, halted, misled>>, early \subseteq early',
           buffer[s].stops \subseteq buffer'[s].stops, aborted[s] => aborted'[s],
           m \in buffer'[s].stops \/ m \in early' \/ (InLoop(s, m) /\ aborted'[s])
    PROVE  Turns(s)'
<1>1. up[s] \in Seq(UpFrames)
  BY Typed
<1> DEFINE q == up[s]
           h == Head(q)
<1>2. /\ h \in UpFrames /\ In(q, h)
      /\ \A x : In(Tail(q), x) => In(q, x)
      /\ \A x : In(q, x) => x = h \/ In(Tail(q), x)
  BY <1>1, TailIn
<1>3. SentOnce(Tail(q)) /\ StopsLast(Tail(q))
  <2>1. SentOnce(q) /\ StopsLast(q)
    BY DEF Turns, Once, Ordered
  <2> QED
    BY <1>1, <2>1, TailUp
<1>4. h = Frame("stop", m)
  BY <1>2, FrameFields
<1> HIDE DEF q, h
<1>5. \A k \in Message : Asked(s, k)' <=> Asked(s, k)
  <2>1. \A k \in Message : Frame("user_message", k) # h
    BY <1>4, FrameFields
  <2> QED
    BY <1>2, <2>1 DEF Asked, q
<1>6. \A k : (Stopping(s, k)' => Stopping(s, k)) /\ (Stopping(s, k) => k = m \/ Stopping(s, k)')
  <2>1. \A k : Frame("stop", k) = h => k = m
    BY <1>4, FrameFields
  <2> QED
    BY <1>2, <2>1 DEF Stopping, q
<1>7. \A k \in Message : /\ Here(s, k)' <=> Here(s, k)
                         /\ Waits(s, k)' <=> Waits(s, k)
                         /\ Around(s, k)' <=> Around(s, k)
                         /\ Unfinished(s, k)' <=> Unfinished(s, k)
  BY <1>5 DEF Here, Waits, Around, Unfinished
<1>8. Once(s)'
  BY <1>3, <1>5, <1>7 DEF Turns, Once, q
<1>9. Ordered(s)'
  BY <1>3, <1>6, <1>7 DEF Turns, Ordered, q
<1>10. Explained(s)'
  BY <1>7 DEF Turns, Explained, Excused, Texted
<1>11. Closing(s)'
  BY <1>7 DEF Turns, Closing, Ended
<1>12. Heard(s)'
  BY <1>6, <1>7 DEF Turns, Heard, InLoop
<1> QED
  BY <1>8, <1>9, <1>10, <1>11, <1>12 DEF Turns

----------------------------------------------------------------------------
(* What the page does. *)

\* The user sends a message.
LEMMA SendStep ==
    ASSUME Shape, Shown, NEW s \in Socket, Placed(s), link[s] = "open", Turns(s), Sends
    PROVE  Turns(s)'
<1> DEFINE n == sent + 1
           f == Frame("user_message", n)
<1>1. /\ up[s] \in Seq(UpFrames) /\ sent \in Nat /\ n \in Message /\ sent' = n /\ f \in UpFrames
      /\ loading = FALSE /\ loading' = TRUE /\ n # NoMessage
  <2>1. up[s] \in Seq(UpFrames) /\ sent \in Nat
    BY Typed
  <2>2. n \in Message /\ sent' = n
    BY <2>1, Basic DEF Sends, Message
  <2>3. loading = FALSE /\ loading' = TRUE
    BY DEF Sends, Shape, PageShape
  <2> QED
    BY <2>1, <2>2, <2>3, FramesFit, Basic
<1>2. /\ up'[s] = Append(up[s], f)
      /\ down'[s] = down[s] /\ buffer'[s] = buffer[s] /\ queue'[s] = queue[s]
      /\ task'[s] = task[s] /\ aborted'[s] = aborted[s]
      /\ UNCHANGED <<halted, misled, early>>
  <2>1. s = ws
    BY DEF Placed, IsAlive
  <2> QED
    BY <1>1, <2>1 DEF Sends, ToServer, server
<1>3. f.type = "user_message" /\ f.msg = n
  BY FrameFields
<1> HIDE DEF f
<1>4. ~Around(s, n) /\ n \notin halted
  <2>1. ~(n <= sent) /\ n \notin 0..sent
    BY <1>1
  <2> QED
    BY <1>1, <2>1 DEF Turns, Once, Shown
<1>5. ~Asked(s, n) /\ ~Here(s, n) /\ ~Waits(s, n) /\ task[s].msg # n
  BY <1>4 DEF Around, Here
<1>6. \A x : In(up'[s], x) <=> In(up[s], x) \/ x = f
  BY <1>1, <1>2, AppendIn
<1>7. \A k \in Message : Asked(s, k)' <=> Asked(s, k) \/ k = n
  <2>1. \A k \in Message : Frame("user_message", k) = f <=> k = n
    BY FrameFields DEF f
  <2> QED
    BY <1>6, <2>1 DEF Asked
<1>8. \A k : Stopping(s, k)' <=> Stopping(s, k)
  <2>1. \A k : Frame("stop", k) # f
    BY <1>3, FrameFields
  <2> QED
    BY <1>6, <2>1 DEF Stopping
<1>9. \A k \in Message : /\ Here(s, k)' <=> Here(s, k)
                         /\ Waits(s, k)' <=> Waits(s, k)
                         /\ Around(s, k)' <=> Around(s, k) \/ k = n
                         /\ Unfinished(s, k)' <=> Unfinished(s, k) \/ k = n
  BY <1>2, <1>7 DEF Here, Waits, Around, Unfinished
<1>10. Once(s)'
  <2>1. SentOnce(up'[s])
    <3>1. ~In(up[s], f) /\ SentOnce(up[s])
      BY <1>5 DEF Asked, f, Turns, Once
    <3> QED
      BY <1>1, <1>2, <3>1, AppendUp
  <2>2. \A k \in Message : k <= sent => k <= sent'
    BY <1>1, Basic
  <2>3. \A k \in Message : Around(s, k)' => k <= sent'
    <3>1. n <= sent'
      BY <1>1
    <3> QED
      BY <1>9, <2>2, <3>1 DEF Turns, Once
  <2>4. \A k \in Message : ~(Asked(s, k)' /\ Here(s, k)') /\ ~(Waits(s, k)' /\ task'[s].msg = k)
    BY <1>2, <1>5, <1>7, <1>9 DEF Turns, Once
  <2>5. \A i \in DOMAIN down'[s] : down'[s][i].msg <= sent'
    <3>1. ASSUME NEW i \in DOMAIN down[s] PROVE down[s][i].msg <= sent'
      <4>1. down[s][i] \in DownFrames
        BY Typed
      <4>2. down[s][i].msg \in Message
        BY <4>1 DEF DownFrames
      <4> QED
        BY <2>2, <4>2 DEF Turns, Once
    <3> QED
      BY <1>2, <3>1
  <2> QED
    BY <1>2, <2>1, <2>3, <2>4, <2>5 DEF Turns, Once
<1>11. Ordered(s)'
  <2>1. StopsLast(up'[s])
    <3>1. StopsLast(up[s]) /\ f.type # "stop"
      BY <1>3 DEF Turns, Ordered
    <3> QED
      BY <1>1, <1>2, <3>1, AppendUp
  <2> QED
    BY <1>2, <1>8, <1>9, <2>1 DEF Turns, Ordered
<1>12. Explained(s)'
  <2>1. \A k \in Message : Excused(k) => k \in halted \cup misled
    BY <1>1 DEF Excused
  <2> QED
    BY <1>1, <1>2, <1>9, <2>1 DEF Turns, Explained, Excused, Texted
<1>13. Closing(s)'
  <2>1. ~Ended(s, n)
    <3>1. ASSUME NEW i \in DOMAIN down[s], down[s][i].msg = n
          PROVE  FALSE
      <4>1. down[s][i].msg <= sent
        BY DEF Turns, Once
      <4> QED
        BY <1>1, <3>1, <4>1
    <3> QED
      BY <3>1 DEF Ended
  <2>2. Sealed(down'[s])
    BY <1>2 DEF Turns, Closing
  <2>3. \A k \in Message : Ended(s, k)' <=> Ended(s, k)
    BY <1>2 DEF Ended
  <2> QED
    BY <1>9, <2>1, <2>2, <2>3 DEF Turns, Closing
<1>14. Heard(s)'
  BY <1>2, <1>4, <1>8, <1>9 DEF Turns, Heard, InLoop
<1> QED
  BY <1>10, <1>11, <1>12, <1>13, <1>14 DEF Turns

\* The user stops the answer.
LEMMA StopStep ==
    ASSUME Shape, Shown, NEW s \in Socket, Placed(s), link[s] = "open", Turns(s), Stops
    PROVE  Turns(s)'
<1> DEFINE f == Frame("stop", sent)
<1>1. /\ up[s] \in Seq(UpFrames) /\ sent \in Nat /\ sent \in Message \cup {NoMessage} /\ f \in UpFrames
      /\ f.type = "stop" /\ f.msg = sent
  <2>1. up[s] \in Seq(UpFrames) /\ sent \in Nat
    BY Typed
  <2>2. sent \in Message \cup {NoMessage}
    BY Basic DEF Shape, PageShape
  <2> QED
    BY <2>1, <2>2, FramesFit, FrameFields
<1>2. /\ up'[s] = Append(up[s], f)
      /\ down'[s] = down[s] /\ buffer'[s] = buffer[s] /\ queue'[s] = queue[s]
      /\ task'[s] = task[s] /\ aborted'[s] = aborted[s]
      /\ UNCHANGED <<sent, misled, early>> /\ halted' = halted \cup {sent}
  <2>1. s = ws
    BY DEF Placed, IsAlive
  <2> QED
    BY <2>1 DEF Stops, ToServer, server
<1> HIDE DEF f
<1>3. \A x : In(up'[s], x) <=> In(up[s], x) \/ x = f
  BY <1>1, <1>2, AppendIn
<1>4. \A k \in Message : Asked(s, k)' <=> Asked(s, k)
  <2>1. \A k \in Message : Frame("user_message", k) # f
    BY <1>1, FrameFields
  <2> QED
    BY <1>3, <2>1 DEF Asked
<1>5. \A k : Stopping(s, k)' <=> Stopping(s, k) \/ k = sent
  <2>1. \A k : Frame("stop", k) = f <=> k = sent
    BY FrameFields DEF f
  <2> QED
    BY <1>3, <2>1 DEF Stopping
<1>6. \A k \in Message : /\ Here(s, k)' <=> Here(s, k)
                         /\ Waits(s, k)' <=> Waits(s, k)
                         /\ Around(s, k)' <=> Around(s, k)
                         /\ Unfinished(s, k)' <=> Unfinished(s, k)
  BY <1>2, <1>4 DEF Here, Waits, Around, Unfinished
<1>7. Once(s)'
  <2>1. SentOnce(up[s]) /\ f.type # "user_message"
    BY <1>1 DEF Turns, Once
  <2>2. SentOnce(up'[s])
    BY <1>1, <1>2, <2>1, AppendUp
  <2> QED
    BY <1>2, <1>4, <1>6, <2>2 DEF Turns, Once
<1>8. Ordered(s)'
  <2>1. \A k \in Message : Asked(s, k) => k <= f.msg
    BY <1>1 DEF Turns, Once, Around
  <2>2. StopsLast(up[s]) /\ \A k \in Message : In(up[s], Frame("user_message", k)) => k <= f.msg
    BY <2>1 DEF Turns, Ordered, Asked
  <2>3. StopsLast(up'[s])
    BY <1>1, <1>2, <2>2, AppendUp
  <2>4. \A k \in Message : Here(s, k) => k <= sent
    BY DEF Turns, Once, Around
  <2> QED
    BY <1>2, <1>5, <1>6, <2>3, <2>4 DEF Turns, Ordered
<1>9. Explained(s)'
  <2>1. \A k \in Message : Excused(k) => Excused(k)'
    BY <1>2 DEF Excused
  <2> QED
    BY <1>2, <1>6, <2>1 DEF Turns, Explained, Texted
<1>10. Closing(s)'
  BY <1>2, <1>6 DEF Turns, Closing, Ended
<1>11. Heard(s)'
  BY <1>2, <1>5, <1>6 DEF Turns, Heard, InLoop
<1> QED
  BY <1>7, <1>8, <1>9, <1>10, <1>11 DEF Turns

\* The page takes a frame off its socket.
LEMMA PageStep ==
    ASSUME Shape, Shown, NEW s \in Socket, Turns(s), PageHears(s)
    PROVE  Turns(s)' /\ Shown'
<1> DEFINE q == down[s]
           h == Head(q)
           m == h.msg
<1>1. q \in Seq(DownFrames) /\ q # <<>> /\ down'[s] = Tail(q)
  <2>1. q \in Seq(DownFrames)
    BY Typed
  <2> QED
    BY <2>1 DEF PageHears, Shape, WireShape
<1>2. /\ h \in DownFrames /\ In(q, h) /\ Tail(q) \in Seq(DownFrames)
      /\ \A x : In(Tail(q), x) => In(q, x)
  BY <1>1, TailIn
<1>3. h.type \in {"text", "turn_complete", "stop", "config_missing", "error"} /\ m \in Message /\ h = Frame(h.type, m)
  BY <1>2, FrameFields DEF DownFrames
<1>4. Sealed(q) /\ Sealed(Tail(q)) /\ (h.type \in Terminal => ~In(Tail(q), Frame("text", m)))
  <2>1. Sealed(q)
    BY DEF Turns, Closing
  <2> QED
    BY <1>1, <2>1, TailDown
<1>5. /\ \A i \in DOMAIN Tail(q) : \E j \in DOMAIN q : Tail(q)[i] = q[j]
      /\ \E j \in DOMAIN q : q[j] = h
  <2>1. 1 \in DOMAIN q /\ h = q[1] /\ \A i \in DOMAIN Tail(q) : i + 1 \in DOMAIN q /\ Tail(q)[i] = q[i + 1]
    BY <1>1, TailAt
  <2> QED
    BY <2>1
<1>6. /\ UNCHANGED <<sent, halted, early, ws, timer>> /\ misled' = misled \cup Misled(h)
      /\ up'[s] = up[s] /\ buffer'[s] = buffer[s] /\ queue'[s] = queue[s]
      /\ task'[s] = task[s] /\ aborted'[s] = aborted[s]
  BY DEF PageHears, socket, server
<1>7. /\ h.type = "text" => /\ current' = IF current = NoMessage THEN m ELSE current
                            /\ loading' = (loading \/ current = NoMessage)
                            /\ mixed' = (mixed \/ Mixes(m))
      /\ h.type # "text" => current' = NoMessage /\ UNCHANGED mixed
      /\ h.type = "turn_complete" => UNCHANGED loading
  <2>1. h.type = "text" => /\ current' = IF current = NoMessage THEN m ELSE current
                           /\ loading' = (loading \/ current = NoMessage)
                           /\ mixed' = (mixed \/ Mixes(m))
    BY DEF PageHears
  <2>2. h.type = "turn_complete" => current' = NoMessage /\ UNCHANGED <<mixed, loading>>
    BY DEF PageHears
  <2>3. h.type \in {"stop", "config_missing"} => current' = NoMessage /\ UNCHANGED mixed
    BY DEF PageHears
  <2>4. h.type = "error" => current' = NoMessage /\ UNCHANGED mixed
    BY DEF PageHears
  <2> QED
    BY <1>3, <2>1, <2>2, <2>3, <2>4
<1> HIDE DEF q, h, m
<1>8. \A k \in Message : /\ Asked(s, k)' <=> Asked(s, k)
                         /\ Here(s, k)' <=> Here(s, k)
                         /\ Waits(s, k)' <=> Waits(s, k)
                         /\ Around(s, k)' <=> Around(s, k)
                         /\ Unfinished(s, k)' <=> Unfinished(s, k)
                         /\ Texted(s, k)' => Texted(s, k)
                         /\ Ended(s, k)' => Ended(s, k)
  <2>1. \A k \in Message : /\ Asked(s, k)' <=> Asked(s, k)
                           /\ Here(s, k)' <=> Here(s, k)
                           /\ Waits(s, k)' <=> Waits(s, k)
                           /\ Around(s, k)' <=> Around(s, k)
                           /\ Unfinished(s, k)' <=> Unfinished(s, k)
    BY <1>6 DEF Asked, Here, Waits, Around, Unfinished
  <2>2. \A k \in Message : Texted(s, k)' => Texted(s, k)
    BY <1>1, <1>2 DEF Texted, q
  <2>3. \A k \in Message : Ended(s, k)' => Ended(s, k)
    BY <1>1, <1>5 DEF Ended, q
  <2> QED
    BY <2>1, <2>2, <2>3
<1>9. loading \in BOOLEAN /\ loading' \in BOOLEAN /\ sent \in 0..MaxMessages
  <2>1. Shape'
    BY HearTypes
  <2> QED
    BY <2>1 DEF Shape, PageShape
<1>10. \A k \in Message : h.type \in Terminal /\ k = m => ~Unfinished(s, k) /\ ~Texted(s, k)'
  <2>1. h.type \in Terminal => Ended(s, m)
    BY <1>5 DEF Ended, m, q
  <2>2. \A k \in Message : h.type \in Terminal /\ k = m => ~Texted(s, k)'
    BY <1>1, <1>4 DEF Texted
  <2> QED
    BY <1>3, <2>1, <2>2 DEF Turns, Closing
<1>11. Once(s)'
  <2>1. \A i \in DOMAIN down'[s] : down'[s][i].msg <= sent'
    BY <1>1, <1>5, <1>6 DEF Turns, Once, q
  <2> QED
    BY <1>6, <1>8, <2>1 DEF Turns, Once
<1>12. Ordered(s)'
  BY <1>6, <1>8 DEF Turns, Ordered, Stopping
<1>13. Explained(s)'
  <2> SUFFICES ASSUME NEW k \in Message, Unfinished(s, k)' \/ Texted(s, k)'
               PROVE  Excused(k)'
    BY DEF Explained
  <2>1. Excused(k)
    BY <1>8 DEF Turns, Explained
  <2>2. CASE k \in halted \cup misled
    BY <1>6, <2>2 DEF Excused
  <2>3. CASE k = sent /\ loading /\ loading'
    BY <1>6, <2>3 DEF Excused
  <2>4. CASE k = sent /\ loading /\ ~loading'
    <3>1. h.type \in Terminal
      BY <1>3, <1>7, <2>4 DEF Terminal
    <3>2. m # k
      BY <1>8, <1>10, <3>1
    <3>3. sent \in Misled(h)
      BY <2>4, <3>2 DEF Misled, m
    <3> QED
      BY <1>6, <2>4, <3>3 DEF Excused
  <2> QED
    BY <1>9, <2>1, <2>2, <2>3, <2>4 DEF Excused
<1>14. Closing(s)'
  <2>1. Sealed(down'[s])
    BY <1>1, <1>4
  <2> QED
    BY <1>8, <2>1 DEF Turns, Closing
<1>15. Heard(s)'
  BY <1>6, <1>8 DEF Turns, Heard, Stopping, InLoop
<1>16. h.type = "text" => m = sent \/ m \in halted \cup misled
  <2>1. h.type = "text" => Texted(s, m)
    BY <1>2, <1>3 DEF Texted, q
  <2> QED
    BY <1>3, <2>1 DEF Turns, Explained, Excused
<1>17. Shown'
  <2>1. current' \in {NoMessage, sent'} \cup halted' \cup misled'
    <3>1. CASE h.type = "text" /\ current = NoMessage
      BY <1>6, <1>7, <1>16, <3>1
    <3>2. CASE h.type = "text" /\ current # NoMessage
      BY <1>6, <1>7, <3>2 DEF Shown
    <3>3. CASE h.type # "text"
      BY <1>7, <3>3
    <3> QED
      BY <3>1, <3>2, <3>3
  <2>2. h.type = "text" => ~Mixes(m)
    BY <1>16 DEF Mixes, Shown
  <2>3. ~mixed'
    BY <1>7, <2>2 DEF Shown
  <2> QED
    BY <1>6, <2>1, <2>3 DEF Shown
<1> QED
  BY <1>11, <1>12, <1>13, <1>14, <1>15, <1>17 DEF Turns

----------------------------------------------------------------------------
(* All sockets. *)

LEMMA InitInv == Init => Inv
<1> SUFFICES ASSUME Init PROVE Inv
  OBVIOUS
<1>1. Shape
  BY InitShape
<1>2. Shown
  <2>1. current = NoMessage /\ halted = {} /\ timer = FALSE /\ mixed = FALSE
    BY DEF Init
  <2> QED
    BY <2>1 DEF Shown
<1>3. ASSUME NEW s \in Socket PROVE Placed(s) /\ Aborts(s) /\ link[s] # "open"
  <2>1. /\ s \in Nat /\ s # 0 /\ up[s] = <<>> /\ down[s] = <<>> /\ session[s] = "none"
        /\ queue[s] = <<>> /\ buffer[s] = NoBuffer /\ task[s] = Idle
        /\ created = 1 /\ ws = 1 /\ link[s] = IF s = 1 THEN "connecting" ELSE "none"
    BY Basic DEF Init
  <2>2. Idle.pc = "idle"
    BY DEF Idle
  <2>3. Placed(s)
    BY <2>1, <2>2 DEF Placed, IsAlive
  <2>4. Aborts(s)
    BY <2>1, <2>2 DEF Aborts, InLoop
  <2> QED
    BY <2>1, <2>3, <2>4
<1> QED
  BY <1>1, <1>2, <1>3 DEF Inv

\* No socket is open, and those that were there are as they were on the server.
LEMMA Replaced ==
    ASSUME Shape, Shown, \A x \in Socket : Placed(x),
           created' = created + 1, ws' = created',
           NEW S \in SUBSET {ws}, timer => S = {}, ~timer => S = {ws},
           link' = [Closed(S) EXCEPT ![created + 1] = "connecting"],
           up' = Emptied(up, S), down' = Emptied(down, S), UNCHANGED server
    PROVE  \A x \in Socket : Placed(x)' /\ link'[x] # "open"
<1> SUFFICES ASSUME NEW x \in Socket PROVE Placed(x)' /\ link'[x] # "open"
  OBVIOUS
<1>1. /\ Placed(x) /\ x \in Nat \ {0} /\ created \in Nat /\ ws <= created /\ ws \in Nat
      /\ UNCHANGED <<session, buffer, queue, task>>
  BY Typed, Basic DEF Shape, PageShape, server
<1>2. Closed(S) \in [Socket -> Links]
  BY ClosedFits DEF Shape
<1>3. CASE x = created + 1
  <2>1. link'[x] = "connecting" /\ x > created /\ x \notin S
    BY <1>1, <1>2, <1>3
  <2>2. link[x] = "none" /\ up[x] = <<>> /\ down[x] = <<>> /\ session[x] = "none"
    BY <1>1, <2>1 DEF Placed
  <2>3. up'[x] = <<>> /\ down'[x] = <<>>
    BY <2>1, <2>2 DEF Emptied
  <2>4. x = ws' /\ ~(x > created')
    BY <1>1, <1>3
  <2> QED
    BY <1>1, <2>1, <2>2, <2>3, <2>4 DEF Placed, IsAlive
<1>4. CASE x # created + 1 /\ x \in S
  <2>1. link'[x] = "closed" /\ up'[x] = <<>> /\ down'[x] = <<>> /\ x = ws
    BY <1>2, <1>4 DEF Closed, Emptied
  <2>2. ~(x > created')
    BY <1>1, <2>1
  <2> QED
    BY <1>1, <2>1, <2>2 DEF Placed, IsAlive
<1>5. CASE x # created + 1 /\ x \notin S
  <2>1. link'[x] = link[x] /\ up'[x] = up[x] /\ down'[x] = down[x]
    BY <1>2, <1>5 DEF Closed, Emptied
  <2>2. x # ws
    BY <1>1, <1>5 DEF Shown
  <2>3. link[x] \notin {"connecting", "open"}
    BY <1>1, <2>2 DEF Placed, IsAlive
  <2>4. x > created' => x > created
    BY <1>1
  <2> QED
    BY <1>1, <2>1, <2>3, <2>4 DEF Placed, IsAlive
<1> QED
  BY <1>3, <1>4, <1>5

\* The page's socket is replaced.
LEMMA ReplaceStep ==
    ASSUME Inv, Reconnects \/ NewChat \/ Selected
    PROVE  Inv'
<1>1. Shape /\ Shown /\ (\A x \in Socket : Placed(x)) /\ \A x \in Socket : Aborts(x)
  BY DEF Inv
<1>2. Shape'
  BY <1>1, PageTypes
<1>3. UNCHANGED <<server, sent, halted, misled, mixed>>
  BY DEF Reconnects, NewChat, Selected, chat, ghosts
<1>4. timer' = FALSE
  BY DEF Reconnects, NewChat, Selected, ReconnectWithUrl
<1>5. \A x \in Socket : Placed(x)' /\ link'[x] # "open"
  <2>1. CASE Reconnects
    <3>1. timer /\ byId[created] \in BOOLEAN /\ link \in [Socket -> Links] /\ CreateWebSocket(link, byId[created])
      BY <1>1, <2>1 DEF Reconnects, Shape, PageShape, WireShape
    <3>2. created' = created + 1 /\ ws' = created' /\ link' = [link EXCEPT ![created + 1] = "connecting"]
      BY <1>1, <3>1, CreateTypes DEF Shape
    <3>3. Closed({}) = link /\ Emptied(up, {}) = up /\ Emptied(down, {}) = down
      BY <1>1 DEF Closed, Emptied, Shape, WireShape
    <3>4. up' = up /\ down' = down
      BY <2>1 DEF Reconnects
    <3> QED
      BY <1>1, <1>3, <3>1, <3>2, <3>3, <3>4, Replaced
  <2>2. ASSUME NEW named \in BOOLEAN, ReconnectWithUrl(named), ~timer
        PROVE  \A x \in Socket : Placed(x)' /\ link'[x] # "open"
    <3>1. /\ created' = created + 1 /\ ws' = created'
          /\ link' = [Closed({ws}) EXCEPT ![created + 1] = "connecting"]
      BY <1>1, <2>2, ReplaceTypes
    <3>2. up' = Emptied(up, {ws}) /\ down' = Emptied(down, {ws})
      BY <2>2 DEF ReconnectWithUrl
    <3> QED
      BY <1>1, <1>3, <2>2, <3>1, <3>2, Replaced
  <2>3. ASSUME NEW named \in BOOLEAN, ReconnectWithUrl(named), timer
        PROVE  \A x \in Socket : Placed(x)' /\ link'[x] # "open"
    <3>1. /\ created' = created + 1 /\ ws' = created'
          /\ link' = [Closed({ws}) EXCEPT ![created + 1] = "connecting"]
      BY <1>1, <2>3, ReplaceTypes
    <3>2. up' = Emptied(up, {ws}) /\ down' = Emptied(down, {ws})
      BY <2>3 DEF ReconnectWithUrl
    <3>3. ws = 0 /\ 0 \notin Socket
      BY <1>1, <2>3, Basic DEF Shown
    <3>4. Closed({ws}) = Closed({}) /\ Emptied(up, {ws}) = Emptied(up, {}) /\ Emptied(down, {ws}) = Emptied(down, {})
      BY <3>3 DEF Closed, Emptied
    <3> QED
      BY <1>1, <1>3, <2>3, <3>1, <3>2, <3>4, Replaced
  <2>4. CASE NewChat
    BY <2>2, <2>3, <2>4 DEF NewChat
  <2>5. CASE Selected
    BY <2>2, <2>3, <2>5 DEF Selected
  <2> QED
    BY <2>1, <2>4, <2>5
<1>6. \A x \in Socket : Aborts(x)'
  BY <1>1, <1>3, KeptAborts DEF server
<1>7. Shown'
  <2>1. current' = current \/ current' = NoMessage
    BY DEF Reconnects, NewChat, Selected, ClearsChat, chat
  <2> QED
    BY <1>1, <1>3, <1>4, <2>1 DEF Shown
<1> QED
  BY <1>2, <1>5, <1>6, <1>7 DEF Inv

\* Sockets end.
LEMMA EndStep ==
    ASSUME Inv, \/ Dies
                \/ \E s \in Socket : Loses(s) \/ ServerCloses(s) \/ Beats(s)
    PROVE  Inv'
<1>1. Shape /\ Shown /\ (\A x \in Socket : Placed(x)) /\ \A x \in Socket : Aborts(x)
  BY DEF Inv
<1>2. Shape'
  BY <1>1, EndTypes
<1>3. CASE Dies
  <2>1. ASSUME NEW x \in Socket PROVE Placed(x)' /\ Aborts(x)' /\ link'[x] # "open"
    <3>1. /\ link'[x] = IF IsAlive(x) THEN "closed" ELSE link[x]
          /\ up'[x] = <<>> /\ down'[x] = <<>> /\ queue'[x] = <<>> /\ task'[x] = Idle
          /\ buffer'[x] = NoBuffer /\ created' = created
          /\ session'[x] = IF session[x] = "none" THEN "none" ELSE "ended"
      BY <1>3 DEF Dies
    <3>2. Idle.pc = "idle"
      BY DEF Idle
    <3>3. Placed(x)
      BY <1>1
    <3>4. link'[x] \notin {"connecting", "open"}
      BY <3>1 DEF IsAlive
    <3>5. Placed(x)'
      BY <3>1, <3>2, <3>3, <3>4 DEF Placed, IsAlive
    <3>6. Aborts(x)'
      BY <3>1, <3>2 DEF Aborts, InLoop
    <3> QED
      BY <3>4, <3>5, <3>6
  <2>2. Shown'
    <3>1. UNCHANGED <<current, sent, halted, misled, mixed>>
      BY <1>3 DEF Dies, chat, ghosts
    <3>2. timer' => ws' = 0
      BY <1>1, <1>3 DEF Dies, PageSeesClose, Shown
    <3> QED
      BY <1>1, <3>1, <3>2 DEF Shown
  <2> QED
    BY <1>2, <2>1, <2>2 DEF Inv
<1>4. ASSUME NEW s \in Socket, NEW clean \in BOOLEAN, PageSeesClose(clean), IsAlive(s),
             link' = Closed({s}), up' = Emptied(up, {s}), down' = Emptied(down, {s}),
             UNCHANGED <<created, byId, chat, buffer, task, aborted, ghosts>>,
             \/ UNCHANGED <<session, queue>>
             \/ /\ session' = [session EXCEPT ![s] = "ended"] /\ queue' = Emptied(queue, {s})
                /\ session[s] \in {"auth", "live"}
      PROVE  Inv'
  <2>1. ASSUME NEW x \in Socket PROVE Placed(x)' /\ Aborts(x)' /\ link'[x] # "open"
    <3>1. Placed(x) /\ Placed(s)
      BY <1>1
    <3>2. Aborts(x)'
      BY <1>1, <1>4, KeptAborts DEF ghosts
    <3>3. CASE x = s
      <4>1. link'[x] = "closed" /\ up'[x] = <<>> /\ down'[x] = <<>>
        BY <1>4, <3>3 DEF Closed, Emptied
      <4>2. ~(x > created')
        BY <1>4, <3>1, <3>3 DEF Placed, IsAlive
      <4>3. CASE UNCHANGED <<session, queue>>
        BY <1>4, <3>1, <3>2, <4>1, <4>2, <4>3 DEF Placed, IsAlive
      <4>4. CASE session' = [session EXCEPT ![s] = "ended"] /\ session[s] \in {"auth", "live"}
        <5>1. session'[x] = "ended"
          BY <1>1, <3>3, <4>4 DEF Shape, ServerShape
        <5> QED
          BY <1>4, <3>1, <3>2, <3>3, <4>1, <4>2, <4>4, <5>1 DEF Placed, IsAlive
      <4> QED
        BY <1>4, <4>3, <4>4
    <3>4. CASE x # s
      <4>1. link'[x] = link[x] /\ up'[x] = up[x] /\ down'[x] = down[x]
        BY <1>4, <3>4 DEF Closed, Emptied
      <4>2. session'[x] = session[x] /\ queue'[x] = queue[x]
        BY <1>1, <1>4, <3>4 DEF Emptied, Shape, ServerShape
      <4>3. link[x] \notin {"connecting", "open"}
        BY <1>4, <3>1, <3>4 DEF Placed, IsAlive
      <4>4. Placed(x)'
        BY <1>4, <3>1, <4>1, <4>2, <4>3 DEF Placed, IsAlive
      <4> QED
        BY <3>2, <4>1, <4>3, <4>4
    <3> QED
      BY <3>3, <3>4
  <2>2. Shown'
    <3>1. UNCHANGED <<current, sent, halted, misled, mixed>> /\ ws' = 0
      BY <1>4 DEF chat, ghosts, PageSeesClose
    <3> QED
      BY <1>1, <3>1 DEF Shown
  <2> QED
    BY <1>2, <2>1, <2>2 DEF Inv
<1>5. ASSUME NEW s \in Socket, Loses(s)
      PROVE  Inv'
  <2>1. /\ PageSeesClose(FALSE) /\ IsAlive(s)
        /\ link' = Closed({s}) /\ up' = Emptied(up, {s}) /\ down' = Emptied(down, {s})
        /\ UNCHANGED <<created, byId, chat, buffer, task, aborted, ghosts>>
        /\ UNCHANGED <<session, queue>>
    BY <1>5 DEF Loses, server
  <2>2. FALSE \in BOOLEAN
    OBVIOUS
  <2> QED
    BY <1>4, <2>1, <2>2
<1>6. ASSUME NEW s \in Socket, ServerCloses(s)
      PROVE  Inv'
  <2>1. /\ PageSeesClose(TRUE) /\ IsAlive(s)
        /\ link' = Closed({s}) /\ up' = Emptied(up, {s}) /\ down' = Emptied(down, {s})
        /\ UNCHANGED <<created, byId, chat, buffer, task, aborted, ghosts>>
        /\ session' = [session EXCEPT ![s] = "ended"] /\ queue' = Emptied(queue, {s})
        /\ session[s] \in {"auth", "live"}
    BY <1>6 DEF ServerCloses, IsAlive
  <2>2. TRUE \in BOOLEAN
    OBVIOUS
  <2> QED
    BY <1>4, <2>1, <2>2
<1> QED
  BY <1>3, <1>5, <1>6 DEF Beats

\* The socket of the page opens.
LEMMA OpenStep ==
    ASSUME Inv, NEW s \in Socket, Opens(s)
    PROVE  Inv'
<1>1. Shape /\ Shown /\ (\A x \in Socket : Placed(x)) /\ \A x \in Socket : Aborts(x)
  BY DEF Inv
<1>2. Shape'
  BY <1>1, PageTypes
<1>3. /\ link' = [link EXCEPT ![s] = "open"] /\ session' = [session EXCEPT ![s] = "auth"]
      /\ link[s] = "connecting" /\ s = ws
      /\ UNCHANGED <<ws, created, timer, up, down, buffer, queue, task, aborted, sent, current, halted, misled, mixed>>
  BY DEF Opens, chat, ghosts
<1>4. /\ link'[s] = "open" /\ session'[s] = "auth" /\ session[s] = "none"
      /\ up[s] = <<>> /\ down[s] = <<>> /\ queue[s] = <<>> /\ buffer[s] = NoBuffer
      /\ task[s].pc = "idle" /\ task[s].msg = NoMessage
  <2>1. link'[s] = "open" /\ session'[s] = "auth"
    BY <1>1, <1>3 DEF Shape, ServerShape, WireShape
  <2>2. /\ session[s] = "none" /\ up[s] = <<>> /\ down[s] = <<>>
        /\ queue[s] = <<>> /\ buffer[s] = NoBuffer /\ task[s].pc = "idle"
    BY <1>1, <1>3 DEF Placed
  <2>3. TaskFits(task[s])
    BY <1>1, Typed
  <2> QED
    BY <2>1, <2>2, <2>3 DEF TaskFits
<1>5. \A x \in Socket : x # s => link'[x] = link[x] /\ session'[x] = session[x]
  BY <1>1, <1>3 DEF Shape, ServerShape, WireShape
<1>6. ASSUME NEW x \in Socket PROVE Placed(x)' /\ Aborts(x)' /\ (link'[x] = "open" => Turns(x)')
  <2>1. Placed(x) /\ Placed(s)
    BY <1>1
  <2>2. Aborts(x)'
    BY <1>1, <1>3, KeptAborts
  <2>3. CASE x = s
    <3>1. ~(x > created)
      BY <1>3, <2>1, <2>3 DEF Placed
    <3>2. Placed(x)'
      BY <1>3, <1>4, <2>3, <3>1 DEF Placed, IsAlive
    <3>3. Turns(x)'
      BY <1>3, <1>4, <2>3, FreshTurns
    <3> QED
      BY <2>2, <3>2, <3>3
  <2>4. CASE x # s
    <3>1. link'[x] = link[x] /\ session'[x] = session[x] /\ link[x] # "open"
      BY <1>3, <1>5, <2>1, <2>4 DEF Placed, IsAlive
    <3>2. Placed(x)'
      BY <1>3, <2>1, <3>1 DEF Placed, IsAlive
    <3> QED
      BY <2>2, <3>1, <3>2
  <2> QED
    BY <2>3, <2>4
<1>7. Shown'
  BY <1>1, <1>3 DEF Shown
<1> QED
  BY <1>2, <1>6, <1>7 DEF Inv

\* The page sends, stops, leaves the chat, or takes a frame.
LEMMA PagePlaced ==
    ASSUME NEW s \in Socket, Placed(s), UNCHANGED <<ws, created, link, session, buffer, queue, task>>,
           up'[s] = up[s] \/ link[s] = "open", down'[s] = down[s] \/ link[s] = "open"
    PROVE  Placed(s)'
BY DEF Placed, IsAlive

LEMMA ChatStep ==
    ASSUME Inv, Sends \/ Stops \/ Selects \/ \E s \in Socket : PageHears(s)
    PROVE  Inv'
<1>1. /\ Shape /\ Shown /\ (\A x \in Socket : Placed(x)) /\ (\A x \in Socket : Aborts(x))
      /\ \A x \in Socket : link[x] = "open" => Turns(x)
  BY DEF Inv
<1>2. Shape'
  BY <1>1, PageTypes, HearTypes
<1>3. /\ UNCHANGED <<ws, created, timer, link, session, buffer, queue, task, aborted>>
      /\ halted \subseteq halted' /\ misled \subseteq misled'
  <2>1. CASE Sends
    BY <2>1 DEF Sends, socket, server
  <2>2. CASE Stops
    BY <2>2 DEF Stops, socket, server
  <2>3. CASE Selects
    BY <2>3 DEF Selects, socket, server, wire
  <2>4. CASE \E s \in Socket : PageHears(s)
    BY <2>4 DEF PageHears, socket, server
  <2> QED
    BY <2>1, <2>2, <2>3, <2>4
<1>4. \A x \in Socket : Aborts(x)'
  BY <1>1, <1>3, KeptAborts
<1>5. \A x \in Socket : (up'[x] = up[x] \/ link[x] = "open") /\ (down'[x] = down[x] \/ link[x] = "open")
  <2>1. CASE Sends \/ Stops
    <3>1. down' = down
      BY <2>1 DEF Sends, Stops
    <3>2. \A x \in Socket : up'[x] = up[x] \/ link[x] = "open"
      BY <2>1 DEF Sends, Stops, ToServer
    <3> QED
      BY <3>1, <3>2
  <2>2. CASE Selects
    BY <2>2 DEF Selects, wire
  <2>3. ASSUME NEW s \in Socket, PageHears(s)
        PROVE  \A x \in Socket : (up'[x] = up[x] \/ link[x] = "open") /\ (down'[x] = down[x] \/ link[x] = "open")
    <3>1. up' = up /\ \A x \in Socket : x # s => down'[x] = down[x]
      BY <1>1, <2>3 DEF PageHears, Shape, WireShape
    <3>2. link[s] = "open"
      BY <1>1, <2>3 DEF PageHears, Placed
    <3> QED
      BY <3>1, <3>2
  <2> QED
    BY <2>1, <2>2, <2>3
<1>6. \A x \in Socket : Placed(x)'
  BY <1>1, <1>3, <1>5, PagePlaced
<1>7. CASE Sends
  <2>1. \A x \in Socket : link'[x] = "open" => Turns(x)'
    BY <1>1, <1>3, <1>7, SendStep
  <2>2. Shown'
    <3>1. sent' = sent + 1 /\ current' = sent' /\ sent \in Nat /\ UNCHANGED <<halted, misled, mixed>>
      BY <1>1, <1>7, Basic DEF Sends, Shape, PageShape
    <3>2. 0..sent \subseteq 0..sent'
      BY <3>1
    <3> QED
      BY <1>1, <1>3, <3>1, <3>2 DEF Shown
  <2> QED
    BY <1>2, <1>4, <1>6, <2>1, <2>2 DEF Inv
<1>8. CASE Stops
  <2>1. \A x \in Socket : link'[x] = "open" => Turns(x)'
    BY <1>1, <1>3, <1>8, StopStep
  <2>2. Shown'
    <3>1. sent' = sent /\ current' = NoMessage /\ halted' = halted \cup {sent} /\ UNCHANGED <<misled, mixed>>
      BY <1>8 DEF Stops
    <3>2. sent \in 0..sent
      BY <1>1, Basic DEF Shape, PageShape
    <3> QED
      BY <1>1, <1>3, <3>1, <3>2 DEF Shown
  <2> QED
    BY <1>2, <1>4, <1>6, <2>1, <2>2 DEF Inv
<1>9. CASE Selects
  <2>1. /\ sent' = sent /\ current' = NoMessage /\ halted' = halted \cup ({sent} \ {NoMessage})
        /\ early' = early \cup (halted' \ halted) /\ UNCHANGED <<misled, mixed, up, down>>
    BY <1>9 DEF Selects, wire
  <2>2. sent \in 0..sent /\ \A m \in Message : m # NoMessage
    BY <1>1, Basic DEF Shape, PageShape
  <2>3. Grows
    BY <2>1, <2>2 DEF Grows, Excused
  <2>4. \A x \in Socket : Same(x)
    BY <1>3, <2>1 DEF Same
  <2>5. \A x \in Socket : link'[x] = "open" => Turns(x)'
    BY <1>1, <1>3, <2>3, <2>4, KeptTurns
  <2>6. Shown'
    BY <1>1, <1>3, <2>1, <2>2 DEF Shown
  <2> QED
    BY <1>2, <1>4, <1>6, <2>5, <2>6 DEF Inv
<1>10. ASSUME NEW s \in Socket, PageHears(s)
       PROVE  Inv'
  <2>1. link[s] = "open" /\ s = ws
    BY <1>1, <1>10 DEF PageHears, Placed
  <2>2. Turns(s)' /\ Shown'
    BY <1>1, <1>10, <2>1, PageStep
  <2>3. \A x \in Socket : link'[x] = "open" => Turns(x)'
    <3>1. \A x \in Socket : link[x] = "open" => x = s
      BY <1>1, <2>1 DEF Placed, IsAlive
    <3> QED
      BY <1>3, <2>2, <3>1
  <2> QED
    BY <1>2, <1>4, <1>6, <2>2, <2>3 DEF Inv
<1> QED
  BY <1>7, <1>8, <1>9, <1>10

----------------------------------------------------------------------------
(* The server. *)

\* A step of the server for socket s.
LEMMA ServerStep ==
    ASSUME Inv, Shape', NEW s \in Socket,
           UNCHANGED <<ws, created, timer, sent, loading, current, link, halted, misled, mixed>>,
           early \subseteq early',
           \A x \in Socket : x # s => Same(x) /\ session'[x] = session[x],
           Placed(s)', Aborts(s)', link[s] = "open" => Turns(s)'
    PROVE  Inv'
<1>1. /\ Shape /\ Shown /\ (\A x \in Socket : Placed(x)) /\ (\A x \in Socket : Aborts(x))
      /\ \A x \in Socket : link[x] = "open" => Turns(x)
  BY DEF Inv
<1>2. ASSUME NEW x \in Socket, x # s
      PROVE  Placed(x)' /\ Aborts(x)' /\ (link'[x] = "open" => Turns(x)')
  <2>1. Same(x) /\ session'[x] = session[x]
    BY <1>2
  <2>2. Placed(x)'
    BY <1>1, <2>1 DEF Placed, IsAlive, Same
  <2>3. Aborts(x)'
    BY <1>1, <2>1, KeptAborts DEF Same
  <2>4. Grows
    BY DEF Grows, Excused
  <2>5. link'[x] = "open" => Turns(x)'
    BY <1>1, <2>1, <2>4, KeptTurns
  <2> QED
    BY <2>2, <2>3, <2>5
<1>3. Shown'
  BY <1>1 DEF Shown
<1>4. \A x \in Socket : Placed(x)' /\ Aborts(x)' /\ (link'[x] = "open" => Turns(x)')
  <2>1. link'[s] = "open" => Turns(s)'
    OBVIOUS
  <2> QED
    BY <1>2, <2>1
<1> QED
  BY <1>3, <1>4 DEF Inv

\* The session of a socket is made, or not yet.
LEMMA SessionStep ==
    ASSUME Inv, NEW s \in Socket, Authenticates(s) \/ LooksUp(s) \/ ServerSeesClose(s)
    PROVE  Inv'
<1>1. /\ Shape /\ Shown /\ Placed(s) /\ Aborts(s) /\ (link[s] = "open" => Turns(s))
  BY DEF Inv
<1>2. Shape'
  BY <1>1, SessionTypes
<1>3. /\ UNCHANGED <<ws, created, timer, sent, loading, current, link, halted, misled, mixed, up, down, task>>
      /\ session[s] \in {"auth", "lookup", "late", "live"}
  BY DEF Authenticates, LooksUp, ServerSeesClose, socket, chat, wire, ghosts
<1>4. /\ session \in [Socket -> Sessions] /\ buffer \in [Socket -> Buffers]
      /\ queue \in [Socket -> Seq(Message \cup {NoMessage})] /\ aborted \in [Socket -> BOOLEAN]
  BY <1>1 DEF Shape, ServerShape
<1>5. ASSUME NEW known \in BOOLEAN, Setup(s, known), session[s] \in {"auth", "lookup", "late"}
      PROVE  Inv'
  <2>1. /\ \A x \in Socket : x # s => Same(x) /\ session'[x] = session[x]
        /\ session'[s] \in {"live", "orphan"} /\ buffer'[s] = NoBuffer
        /\ early \subseteq early'
    <3>1. \A x \in Socket : x # s => Same(x) /\ session'[x] = session[x]
      BY <1>3, <1>4, <1>5 DEF Setup, Same
    <3>2. session'[s] \in {"live", "orphan"} /\ buffer'[s] = NoBuffer
      BY <1>4, <1>5 DEF Setup
    <3> QED
      BY <1>5, <3>1, <3>2 DEF Setup
  <2>2. Placed(s)'
    BY <1>1, <1>3, <1>5, <2>1 DEF Placed, IsAlive
  <2>3. Aborts(s)'
    <3>1. task[s].pc = "idle"
      BY <1>1, <1>5 DEF Placed
    <3> QED
      BY <1>3, <3>1 DEF Aborts, InLoop
  <2>4. link[s] = "open" => Turns(s)'
    BY <1>1, <1>3, <1>5, SetupStep
  <2> QED
    BY <1>2, <1>3, <2>1, <2>2, <2>3, <2>4, ServerStep
<1>6. ASSUME session'[s] = "lookup", session[s] = "auth", \A x \in Socket : x # s => session'[x] = session[x],
             UNCHANGED <<buffer, queue, aborted, early>>
      PROVE  Inv'
  <2>1. \A x \in Socket : Same(x)
    BY <1>3, <1>6 DEF Same
  <2>2. Placed(s)'
    BY <1>1, <1>3, <1>6 DEF Placed, IsAlive
  <2>3. Aborts(s)'
    BY <1>1, <1>3, <1>6, KeptAborts
  <2>4. Grows
    BY <1>3, <1>6 DEF Grows, Excused
  <2>5. link[s] = "open" => Turns(s)'
    BY <1>1, <2>1, <2>4, KeptTurns
  <2> QED
    BY <1>2, <1>3, <1>6, <2>1, <2>2, <2>3, <2>5, ServerStep
<1>7. CASE Authenticates(s)
  <2>1. CASE byId[s]
    <3>1. /\ session' = [session EXCEPT ![s] = "lookup"] /\ session[s] = "auth"
          /\ UNCHANGED <<buffer, queue, aborted, early>>
      BY <1>7, <2>1 DEF Authenticates
    <3> QED
      BY <1>4, <1>6, <3>1
  <2>2. CASE ~byId[s]
    <3>1. Setup(s, FALSE) /\ session[s] \in {"auth", "lookup", "late"} /\ FALSE \in BOOLEAN
      BY <1>7, <2>2 DEF Authenticates
    <3> QED
      BY <1>5, <3>1
  <2> QED
    BY <2>1, <2>2
<1>8. CASE LooksUp(s)
  <2>1. session[s] \in {"auth", "lookup", "late"} /\ \E known \in BOOLEAN : Setup(s, known)
    BY <1>8 DEF LooksUp
  <2> QED
    BY <1>5, <2>1
<1>9. CASE ServerSeesClose(s)
  <2>1. /\ link[s] = "closed" /\ session[s] \in {"auth", "lookup", "live"}
        /\ session' = [session EXCEPT ![s] = IF @ = "lookup" THEN "late" ELSE "ended"]
        /\ queue' = Emptied(queue, {s}) /\ UNCHANGED <<buffer, aborted, early>>
    BY <1>9 DEF ServerSeesClose, ghosts
  <2>2. /\ \A x \in Socket : x # s => session'[x] = session[x] /\ queue'[x] = queue[x]
        /\ session'[s] = IF session[s] = "lookup" THEN "late" ELSE "ended"
        /\ queue'[s] = <<>>
    BY <1>4, <2>1 DEF Emptied
  <2>3. \A x \in Socket : x # s => Same(x) /\ session'[x] = session[x]
    BY <1>3, <2>1, <2>2 DEF Same
  <2>4. Placed(s)'
    BY <1>1, <1>3, <2>1, <2>2 DEF Placed, IsAlive
  <2>5. Aborts(s)'
    BY <1>1, <1>3, <2>1, KeptAborts
  <2> QED
    BY <1>2, <1>3, <2>1, <2>3, <2>4, <2>5, ServerStep
<1> QED
  BY <1>7, <1>8, <1>9

\* The server takes a frame. A stop that sets aborted is for the message of
\* the task or for a later one, and then that of the task was given up.
LEMMA FrameStep ==
    ASSUME Inv, NEW s \in Socket, ServerHears(s)
    PROVE  Inv'
<1>1. /\ Shape /\ Shown /\ Placed(s) /\ Aborts(s) /\ (link[s] = "open" => Turns(s))
  BY DEF Inv
<1>2. Shape'
  BY <1>1, SessionTypes
<1>3. /\ UNCHANGED <<ws, created, timer, sent, loading, current, link, halted, misled, mixed, down, session, task>>
      /\ up' = [up EXCEPT ![s] = Tail(@)] /\ up[s] # <<>> /\ session[s] \in {"lookup", "live"}
  BY DEF ServerHears, socket, chat
<1>4. /\ buffer \in [Socket -> Buffers] /\ up \in [Socket -> Seq(UpFrames)]
      /\ queue \in [Socket -> Seq(Message \cup {NoMessage})] /\ aborted \in [Socket -> BOOLEAN]
      /\ buffer[s] \in Buffers
  BY <1>1 DEF Shape, ServerShape, WireShape
<1>5. link[s] = "open" /\ Turns(s)
  BY <1>1, <1>3 DEF Placed
<1>6. up'[s] = Tail(up[s]) /\ \A x \in Socket : x # s => up'[x] = up[x]
  BY <1>3, <1>4
<1> DEFINE h == Head(up[s])
<1>7. /\ h \in UpFrames /\ In(up[s], h) /\ h = Frame(h.type, h.msg)
      /\ h.msg \in Message \cup {NoMessage}
  <2>1. h \in UpFrames /\ In(up[s], h)
    BY <1>3, <1>4, TailIn
  <2> QED
    BY <2>1, FrameFields DEF UpFrames
<1>8. PICK m : m = h.msg
  OBVIOUS
<1> HIDE DEF h
<1>9. \/ /\ session[s] = "lookup" /\ h.type = "user_message"
         /\ buffer' = [buffer EXCEPT ![s].messages = Append(@, m)]
         /\ UNCHANGED <<queue, aborted, early>>
      \/ /\ session[s] = "lookup" /\ h.type = "stop"
         /\ buffer' = [buffer EXCEPT ![s].stops = @ \cup {m}]
         /\ UNCHANGED <<queue, aborted, early>>
      \/ /\ session[s] = "live" /\ h.type = "user_message"
         /\ queue' = [queue EXCEPT ![s] = Append(@, m)]
         /\ UNCHANGED <<buffer, aborted, early>>
      \/ /\ session[s] = "live" /\ h.type = "stop"
         /\ aborted' = [aborted EXCEPT ![s] = TRUE]
         /\ early' = IF InLoop(s, m) THEN early ELSE early \cup {m}
         /\ UNCHANGED <<buffer, queue>>
  BY <1>8 DEF ServerHears, h
<1>10. ASSUME \A x \in Socket : x # s => /\ buffer'[x] = buffer[x] /\ queue'[x] = queue[x]
                                         /\ aborted'[x] = aborted[x],
              early \subseteq early', queue'[s] = queue[s] \/ session[s] = "live",
              buffer'[s] = buffer[s] \/ session[s] = "lookup",
              Turns(s)', Aborts(s)'
       PROVE  Inv'
  <2>1. \A x \in Socket : x # s => Same(x) /\ session'[x] = session[x]
    BY <1>3, <1>6, <1>10 DEF Same
  <2>2. Placed(s)'
    BY <1>1, <1>3, <1>5, <1>10 DEF Placed, IsAlive
  <2> QED
    BY <1>2, <1>3, <1>10, <2>1, <2>2, ServerStep
<1>11. CASE /\ session[s] = "lookup" /\ h.type = "user_message"
            /\ buffer' = [buffer EXCEPT ![s].messages = Append(@, m)]
            /\ UNCHANGED <<queue, aborted, early>>
  <2>1. /\ buffer'[s].messages = Append(buffer[s].messages, m) /\ buffer'[s].stops = buffer[s].stops
        /\ \A x \in Socket : x # s => buffer'[x] = buffer[x]
    BY <1>4, <1>11 DEF Buffers
  <2>2. Turns(s)'
    BY <1>1, <1>3, <1>5, <1>6, <1>8, <1>11, <2>1, HearMessage DEF h
  <2>3. Aborts(s)'
    BY <1>1, <1>3, <1>11, KeptAborts
  <2> QED
    BY <1>10, <1>11, <2>1, <2>2, <2>3
<1>12. CASE /\ session[s] = "lookup" /\ h.type = "stop"
            /\ buffer' = [buffer EXCEPT ![s].stops = @ \cup {m}]
            /\ UNCHANGED <<queue, aborted, early>>
  <2>1. /\ buffer'[s].messages = buffer[s].messages /\ buffer'[s].stops = buffer[s].stops \cup {m}
        /\ \A x \in Socket : x # s => buffer'[x] = buffer[x]
    BY <1>4, <1>12 DEF Buffers
  <2>2. Turns(s)'
    BY <1>1, <1>3, <1>5, <1>6, <1>8, <1>12, <2>1, HearStop DEF h
  <2>3. Aborts(s)'
    BY <1>1, <1>3, <1>12, KeptAborts
  <2> QED
    BY <1>10, <1>12, <2>1, <2>2, <2>3
<1>13. CASE /\ session[s] = "live" /\ h.type = "user_message"
            /\ queue' = [queue EXCEPT ![s] = Append(@, m)]
            /\ UNCHANGED <<buffer, aborted, early>>
  <2>1. queue'[s] = Append(queue[s], m) /\ \A x \in Socket : x # s => queue'[x] = queue[x]
    BY <1>4, <1>13
  <2>2. Turns(s)'
    BY <1>1, <1>3, <1>5, <1>6, <1>8, <1>13, <2>1, HearMessage DEF h
  <2>3. Aborts(s)'
    BY <1>1, <1>3, <1>13, KeptAborts
  <2> QED
    BY <1>10, <1>13, <2>1, <2>2, <2>3
<1>14. CASE /\ session[s] = "live" /\ h.type = "stop"
            /\ aborted' = [aborted EXCEPT ![s] = TRUE]
            /\ early' = IF InLoop(s, m) THEN early ELSE early \cup {m}
            /\ UNCHANGED <<buffer, queue>>
  <2>1. aborted'[s] = TRUE /\ \A x \in Socket : x # s => aborted'[x] = aborted[x]
    BY <1>4, <1>14
  <2>2. early \subseteq early' /\ (m \in early' \/ InLoop(s, m))
    BY <1>14
  <2>3. Turns(s)'
    BY <1>1, <1>3, <1>5, <1>6, <1>8, <1>14, <2>1, <2>2, HearStop DEF h
  <2>4. Aborts(s)'
    <3> SUFFICES ASSUME NEW k \in Message, InLoop(s, k)', ~task'[s].done
                 PROVE  k \in halted' \cup misled'
      BY DEF Aborts
    <3>1. task[s].msg = k /\ ~task[s].done
      BY <1>3 DEF InLoop
    <3>2. Stopping(s, m) /\ m \in Message \cup {NoMessage}
      BY <1>7, <1>8, <1>14 DEF Stopping
    <3>3. m \in halted /\ k <= m
      BY <1>5, <3>1, <3>2 DEF Turns, Ordered, Here
    <3>4. m \in 0..sent /\ k \in Nat /\ sent \in Nat
      BY <1>1, <3>3, Basic DEF Shown, Shape, PageShape
    <3>5. Excused(k)
      BY <1>5, <3>1 DEF Turns, Explained, Unfinished
    <3>6. k = sent => k = m
      BY <3>3, <3>4
    <3> QED
      BY <1>3, <3>3, <3>5, <3>6 DEF Excused
  <2> QED
    BY <1>10, <1>14, <2>1, <2>2, <2>3, <2>4
<1> QED
  BY <1>9, <1>11, <1>12, <1>13, <1>14

----------------------------------------------------------------------------
(* The tasks. *)

Looping(t) == t.pc \in {"calls", "streams", "persists"}

\* A task goes on as t, or ends, and tells the frames r.
LEMMA RunStep ==
    ASSUME Inv, Shape', NEW s \in Socket, task[s].pc # "idle", NEW t, Runs(s, t),
           UNCHANGED <<ws, created, timer, sent, loading, current, halted, misled, early, mixed>>,
           UNCHANGED <<link, up, session, buffer, queue>>,
           aborted' = aborted \/ aborted' = [aborted EXCEPT ![s] = FALSE],
           NEW r \in Seq(DownFrames), Sealed(r),
           IF link[s] = "open" THEN down' = [down EXCEPT ![s] = @ \o r] ELSE UNCHANGED down,
           \A i \in DOMAIN r : r[i].msg = task[s].msg,
           \A i \in DOMAIN r : r[i].type = "text" => ~task[s].done,
           \A i \in DOMAIN r : r[i].type \in Terminal => ~(t.msg = task[s].msg /\ ~t.done),
           t.msg \in {task[s].msg, NoMessage},
           t.msg = task[s].msg /\ ~t.done => ~task[s].done,
           t.msg = task[s].msg /\ t.msg # NoMessage /\ Looping(task[s]) /\ aborted[s] => Looping(t) /\ aborted'[s],
           Looping(t) /\ aborted'[s] /\ ~t.done =>
              Looping(task[s]) /\ aborted[s] /\ ~task[s].done /\ t.msg = task[s].msg
    PROVE  Inv'
<1>1. /\ Shape /\ Shown /\ Placed(s) /\ Aborts(s) /\ (link[s] = "open" => Turns(s))
  BY DEF Inv
<1>2. /\ task'[s] = t /\ \A x \in Socket : x # s => task'[x] = task[x] /\ aborted'[x] = aborted[x]
  BY <1>1 DEF Runs, Shape, ServerShape
<1>3. \A x \in Socket : x # s => down'[x] = down[x]
  BY <1>1 DEF Shape, WireShape
<1>4. \A x \in Socket : x # s => Same(x) /\ session'[x] = session[x]
  BY <1>2, <1>3 DEF Same
<1>5. Placed(s)'
  <2>1. session[s] \notin {"none", "auth", "lookup", "late"}
    BY <1>1 DEF Placed
  <2>2. link[s] # "open" => down'[s] = down[s]
    OBVIOUS
  <2> QED
    BY <1>1, <2>1, <2>2 DEF Placed, IsAlive
<1>6. Aborts(s)'
  BY <1>1, <1>2 DEF Aborts, InLoop, Looping
<1>7. link[s] = "open" => Turns(s)'
  <2> SUFFICES ASSUME link[s] = "open" PROVE Turns(s)'
    OBVIOUS
  <2>1. down'[s] = down[s] \o r
    BY <1>1 DEF Shape, WireShape
  <2>2. PICK m : m = task[s].msg
    OBVIOUS
  <2>3. m # NoMessage /\ t.msg = m /\ InLoop(s, m) /\ aborted[s] => InLoop(s, m)' /\ aborted'[s]
    BY <1>2, <2>2 DEF InLoop, Looping
  <2>4. /\ \A i \in DOMAIN r : r[i].msg = m
        /\ \A i \in DOMAIN r : r[i].type \in Terminal => ~(task'[s].msg = m /\ ~task'[s].done)
        /\ task'[s].msg \in {m, NoMessage}
        /\ task'[s].msg = m /\ ~task'[s].done => ~task[s].done
        /\ task'[s].msg = m /\ m # NoMessage /\ InLoop(s, m) /\ aborted[s] => InLoop(s, m)' /\ aborted'[s]
    BY <1>2, <2>2, <2>3
  <2> QED
    BY <1>1, <2>1, <2>2, <2>4, TaskStep
<1> QED
  BY <1>4, <1>5, <1>6, <1>7, ServerStep

LEMMA Silence ==
    /\ <<>> \in Seq(DownFrames) /\ Sealed(<<>>) /\ DOMAIN <<>> = {}
    /\ \A q \in Seq(DownFrames) : q \o <<>> = q
BY Empty

\* A task that says nothing.
LEMMA QuietStep ==
    ASSUME Inv, Shape', NEW s \in Socket, task[s].pc # "idle", NEW t, Runs(s, t),
           UNCHANGED <<ws, created, timer, sent, loading, current, halted, misled, early, mixed>>,
           UNCHANGED <<link, up, down, session, buffer, queue>>,
           aborted' = aborted \/ aborted' = [aborted EXCEPT ![s] = FALSE],
           t.msg \in {task[s].msg, NoMessage},
           t.msg = task[s].msg /\ ~t.done => ~task[s].done,
           t.msg = task[s].msg /\ t.msg # NoMessage /\ Looping(task[s]) /\ aborted[s] => Looping(t) /\ aborted'[s],
           Looping(t) /\ aborted'[s] /\ ~t.done =>
              Looping(task[s]) /\ aborted[s] /\ ~task[s].done /\ t.msg = task[s].msg
    PROVE  Inv'
<1>1. down \in [Socket -> Seq(DownFrames)]
  BY DEF Inv, Shape, WireShape
<1>2. down[s] \o <<>> = down[s]
  BY <1>1, Silence
<1>3. IF link[s] = "open" THEN down' = [down EXCEPT ![s] = @ \o <<>>] ELSE UNCHANGED down
  BY <1>1, <1>2
<1> DEFINE r == <<>>
<1>4. /\ r \in Seq(DownFrames) /\ Sealed(r) /\ DOMAIN r = {}
      /\ IF link[s] = "open" THEN down' = [down EXCEPT ![s] = @ \o r] ELSE UNCHANGED down
  BY <1>3, Silence
<1> HIDE DEF r
<1>5. /\ \A i \in DOMAIN r : r[i].msg = task[s].msg
      /\ \A i \in DOMAIN r : r[i].type = "text" => ~task[s].done
      /\ \A i \in DOMAIN r : r[i].type \in Terminal => ~(t.msg = task[s].msg /\ ~t.done)
  BY <1>4
<1> QED
  BY <1>4, <1>5, RunStep

\* A task ends and tells one frame, which ends the answer.
LEMMA LastWord ==
    ASSUME Inv, Shape', NEW s \in Socket, task[s].pc # "idle", task[s].msg \in Message, Runs(s, Idle),
           UNCHANGED <<ws, created, timer, sent, loading, current, halted, misled, early, mixed>>,
           UNCHANGED <<link, up, session, buffer, queue, aborted>>,
           NEW type \in Terminal, Tells(s, <<Frame(type, task[s].msg)>>)
    PROVE  Inv'
<1> DEFINE f == Frame(type, task[s].msg)
           r == <<f>>
<1>1. f \in DownFrames /\ f.type = type /\ f.msg = task[s].msg /\ type # "text"
  BY FramesFit, FrameFields DEF Terminal
<1>2. r \in Seq(DownFrames) /\ Sealed(r) /\ \A i \in DOMAIN r : r[i] = f
  BY <1>1, SingleFrame
<1>3. IF link[s] = "open" THEN down' = [down EXCEPT ![s] = @ \o r] ELSE UNCHANGED down
  BY DEF Tells
<1>4. Idle.msg = NoMessage /\ ~Looping(Idle) /\ NoMessage # task[s].msg
  BY Basic DEF Idle, Looping
<1> HIDE DEF f, r
<1>5. /\ \A i \in DOMAIN r : r[i].msg = task[s].msg
      /\ \A i \in DOMAIN r : r[i].type # "text"
  BY <1>1, <1>2
<1> QED
  BY <1>2, <1>3, <1>4, <1>5, RunStep

LEMMA TaskSteps ==
    ASSUME Inv, NEW s \in Socket,
           \/ Starts(s) \/ Informs(s) \/ Begins(s) \/ Throws(s)
           \/ Calls(s) \/ Texts(s) \/ Streams(s) \/ Persists(s)
    PROVE  Inv'
<1> DEFINE t == task[s]
<1>1. /\ Shape /\ Shown /\ Placed(s) /\ Aborts(s) /\ (link[s] = "open" => Turns(s))
  BY DEF Inv
<1>2. Shape'
  BY <1>1, TaskTypes
<1>3. /\ t \in Tasks /\ TaskFits(t) /\ task \in [Socket -> Tasks]
      /\ queue \in [Socket -> Seq(Message \cup {NoMessage})] /\ aborted \in [Socket -> BOOLEAN]
      /\ Idle.msg = NoMessage /\ ~Looping(Idle) /\ ~Idle.done
  BY <1>1, Typed DEF Shape, ServerShape, Idle, Looping
<1>4. /\ t.pc \in {"begins", "calls", "streams", "persists"} => t.msg \in Message /\ t.msg # NoMessage
      /\ t.pc # "persists" => ~t.done
      /\ t.pc \in {"idle", "info"} => t.msg = NoMessage
  BY <1>3, Basic DEF TaskFits, Pcs
<1> HIDE DEF t
<1>5. ASSUME Dies
      PROVE  Inv'
  BY <1>5, EndStep
<1>6. ASSUME Quiet(s)
      PROVE  /\ UNCHANGED <<ws, created, timer, sent, loading, current, halted, misled, early, mixed>>
             /\ UNCHANGED <<link, up, session, buffer, queue, aborted>>
  BY <1>6 DEF Quiet, socket, chat, ghosts
<1>7. ASSUME Ends(s), Quiet(s), Looping(t)
      PROVE  Inv'
  <2>1. Runs(s, Idle) /\ t.msg \in Message /\ t.msg # NoMessage /\ t.pc # "idle"
    BY <1>4, <1>7 DEF Ends, Looping
  <2>2. CASE aborted[s]
    <3>1. Tells(s, <<Frame("stop", task[s].msg)>>) /\ "stop" \in Terminal
      BY <1>7, <2>2 DEF Ends, Terminal
    <3> QED
      BY <1>2, <1>6, <1>7, <2>1, <3>1, LastWord DEF t
  <2>3. CASE ~aborted[s]
    <3>1. UNCHANGED down
      BY <1>7, <2>3 DEF Ends
    <3> QED
      BY <1>2, <1>3, <1>6, <1>7, <2>1, <3>1, QuietStep DEF t
  <2> QED
    BY <2>2, <2>3
<1>8. CASE Starts(s)
  <2>1. /\ queue[s] # <<>> /\ t.pc = "idle" /\ queue' = [queue EXCEPT ![s] = Tail(@)]
        /\ UNCHANGED <<ws, created, timer, sent, loading, current, halted, misled, early, mixed>>
        /\ UNCHANGED <<link, up, down, session, buffer, aborted>>
    BY <1>8 DEF Starts, At, t, socket, chat, wire, ghosts
  <2>2. /\ \A x \in Socket : x # s => task'[x] = task[x]
        /\ task'[s].pc \in {"info", "begins"}
    <3> DEFINE n == [Idle EXCEPT !.pc = IF Head(queue[s]) = Setups THEN "info" ELSE "begins", !.msg = Head(queue[s])]
    <3>1. task' = [task EXCEPT ![s] = n]
      BY <1>8 DEF Starts, Runs
    <3>2. n.pc \in {"info", "begins"}
      BY DEF Idle
    <3> HIDE DEF n
    <3> QED
      BY <1>3, <3>1, <3>2
  <2>3. \A x \in Socket : x # s => Same(x) /\ session'[x] = session[x]
    BY <1>3, <2>1, <2>2 DEF Same
  <2>4. Placed(s)'
    <3>1. session[s] \notin {"none", "auth", "lookup", "late"}
      BY <1>1, <2>1 DEF Placed
    <3> QED
      BY <1>1, <2>1, <3>1 DEF Placed, IsAlive
  <2>5. Aborts(s)'
    BY <2>2 DEF Aborts, InLoop
  <2>6. link[s] = "open" => Turns(s)'
    BY <1>1, <1>8, StartStep
  <2> QED
    BY <1>2, <2>1, <2>3, <2>4, <2>5, <2>6, ServerStep
<1>9. CASE Informs(s)
  <2>1. t.pc = "info" /\ t.msg = NoMessage /\ ~t.done
    BY <1>4, <1>9 DEF Informs, At, t
  <2>2. CASE Tells(s, <<>>) /\ Runs(s, Idle) /\ UNCHANGED <<socket, chat, link, up, session, buffer, queue, aborted, ghosts>>
    <3>1. UNCHANGED down
      <4>1. down \in [Socket -> Seq(DownFrames)]
        BY <1>1 DEF Shape, WireShape
      <4>2. down[s] \o <<>> = down[s]
        BY <4>1, Silence
      <4> QED
        BY <2>2, <4>1, <4>2 DEF Tells
    <3>2. Quiet(s)
      BY <2>2 DEF Quiet
    <3> QED
      BY <1>2, <1>3, <1>6, <2>1, <2>2, <3>1, <3>2, QuietStep DEF t
  <2> QED
    BY <1>5, <1>9, <2>2 DEF Informs
<1>10. CASE Begins(s)
  <2>1. t.pc = "begins" /\ t.msg \in Message /\ t.msg # NoMessage /\ ~t.done
    BY <1>4, <1>10 DEF Begins, At, t
  <2>2. CASE Tells(s, <<Frame("config_missing", task[s].msg)>>) /\ Runs(s, Idle)
              /\ UNCHANGED <<socket, chat, link, up, session, buffer, queue, aborted, ghosts>>
    <3>1. Quiet(s) /\ "config_missing" \in Terminal
      BY <2>2 DEF Quiet, Terminal
    <3> QED
      BY <1>2, <1>6, <2>1, <2>2, <3>1, LastWord DEF t
  <2>3. CASE /\ Runs(s, [task[s] EXCEPT !.pc = "calls"])
             /\ aborted' = [aborted EXCEPT ![s] = FALSE]
             /\ UNCHANGED <<socket, chat, wire, session, buffer, queue, ghosts>>
    <3> DEFINE n == [t EXCEPT !.pc = "calls"]
    <3>1. n.msg = t.msg /\ n.done = t.done /\ n.pc = "calls"
      BY <1>3 DEF Tasks
    <3>2. Runs(s, n) /\ ~aborted'[s] /\ ~Looping(t)
      BY <1>3, <2>1, <2>3 DEF t, Looping
    <3>3. /\ UNCHANGED <<ws, created, timer, sent, loading, current, halted, misled, early, mixed>>
          /\ UNCHANGED <<link, up, down, session, buffer, queue>>
      BY <2>3 DEF socket, chat, wire, ghosts
    <3> HIDE DEF n
    <3>4. n.msg = task[s].msg /\ ~task[s].done /\ ~Looping(task[s]) /\ task[s].pc # "idle"
      BY <2>1, <3>1, <3>2 DEF t
    <3> QED
      BY <1>2, <2>3, <3>2, <3>3, <3>4, QuietStep
  <2> QED
    BY <1>5, <1>10, <2>2, <2>3 DEF Begins
<1>11. CASE Throws(s)
  <2>1. Runs(s, Idle) /\ UNCHANGED down /\ Quiet(s) /\ t.msg \in Message /\ t.msg # NoMessage /\ t.pc # "idle"
    BY <1>4, <1>11 DEF Throws, t
  <2> QED
    BY <1>2, <1>3, <1>6, <2>1, QuietStep DEF t
<1>12. CASE Calls(s)
  <2>1. t.pc = "calls" /\ t.msg \in Message /\ t.msg # NoMessage /\ ~t.done /\ Looping(t) /\ Quiet(s)
    BY <1>4, <1>12 DEF Calls, At, t, Looping
  <2>2. CASE aborted[s]
    BY <1>7, <1>12, <2>1, <2>2 DEF Calls
  <2>3. CASE ~aborted[s]
    <3> DEFINE n == [t EXCEPT !.pc = "streams", !.text = FALSE]
    <3>1. n.msg = t.msg /\ n.done = t.done /\ n.pc = "streams"
      BY <1>3 DEF Tasks
    <3>2. Runs(s, n) /\ UNCHANGED down
      BY <1>12, <2>3 DEF Calls, t
    <3> HIDE DEF n
    <3>3. n.msg = task[s].msg /\ ~task[s].done /\ task[s].pc # "idle"
      BY <2>1, <3>1 DEF t
    <3>4. ~aborted'[s]
      BY <1>6, <2>1, <2>3
    <3> QED
      BY <1>2, <1>6, <2>1, <2>3, <3>2, <3>3, <3>4, QuietStep
  <2> QED
    BY <2>2, <2>3
<1>13. CASE Texts(s)
  <2>1. t.pc = "streams" /\ t.msg \in Message /\ ~t.done /\ Quiet(s)
    BY <1>4, <1>13 DEF Texts, At, t
  <2> DEFINE n == [t EXCEPT !.text = TRUE]
             f == Frame("text", t.msg)
             r == <<f>>
  <2>2. n.msg = t.msg /\ n.done = t.done /\ n.pc = t.pc
    BY <1>3 DEF Tasks
  <2>3. Runs(s, n) /\ Tells(s, r)
    BY <1>13 DEF Texts, t
  <2>4. f \in DownFrames /\ f.type = "text" /\ f.msg = t.msg
    BY <2>1, FramesFit, FrameFields
  <2>5. r \in Seq(DownFrames) /\ Sealed(r) /\ \A i \in DOMAIN r : r[i] = f
    BY <2>4, SingleFrame
  <2>6. IF link[s] = "open" THEN down' = [down EXCEPT ![s] = @ \o r] ELSE UNCHANGED down
    BY <2>3 DEF Tells
  <2> HIDE DEF n, f, r
  <2>7. /\ \A i \in DOMAIN r : r[i].msg = task[s].msg
        /\ \A i \in DOMAIN r : r[i].type \notin Terminal
        /\ n.msg = task[s].msg /\ ~task[s].done /\ task[s].pc # "idle"
        /\ Looping(n) /\ Looping(task[s])
    BY <2>1, <2>2, <2>4, <2>5 DEF t, Terminal, Looping
  <2>8. aborted' = aborted
    BY <1>6, <2>1
  <2> QED
    BY <1>2, <1>6, <2>1, <2>3, <2>5, <2>6, <2>7, <2>8, RunStep
<1>14. CASE Streams(s)
  <2>1. t.pc = "streams" /\ t.msg \in Message /\ ~t.done /\ Quiet(s)
    BY <1>4, <1>14 DEF Streams, At, t
  <2>2. PICK reason \in {"stop", "error", "tool_calls"} :
          /\ Tells(s, (IF reason = "tool_calls" THEN <<>> ELSE <<Frame(reason, t.msg)>>)
                          \o <<Frame("turn_complete", t.msg)>>)
          /\ Runs(s, [t EXCEPT !.pc = "persists", !.done = reason # "tool_calls"])
    BY <1>14 DEF Streams, t
  <2> DEFINE n == [t EXCEPT !.pc = "persists", !.done = reason # "tool_calls"]
             g == Frame("turn_complete", t.msg)
             r == (IF reason = "tool_calls" THEN <<>> ELSE <<Frame(reason, t.msg)>>) \o <<g>>
  <2>3. n.msg = t.msg /\ n.done = (reason # "tool_calls") /\ n.pc = "persists"
    BY <1>3 DEF Tasks
  <2>4. g \in DownFrames /\ g.type = "turn_complete" /\ g.msg = t.msg
    BY <2>1, FramesFit, FrameFields
  <2>5. /\ r \in Seq(DownFrames) /\ Sealed(r)
        /\ \A i \in DOMAIN r : r[i].msg = t.msg /\ r[i].type # "text"
        /\ reason = "tool_calls" => \A i \in DOMAIN r : r[i].type \notin Terminal
    <3>1. CASE reason = "tool_calls"
      <4>1. <<g>> \in Seq(DownFrames) /\ Sealed(<<g>>) /\ \A i \in DOMAIN <<g>> : <<g>>[i] = g
        BY <2>4, SingleFrame
      <4>2. r = <<g>>
        BY <3>1, <4>1
      <4> HIDE DEF r, g
      <4> QED
        BY <2>4, <4>1, <4>2 DEF Terminal
    <3>2. CASE reason # "tool_calls"
      <4> DEFINE f == Frame(reason, t.msg)
      <4>1. f \in DownFrames /\ f.type = reason /\ f.msg = t.msg /\ f.type # "text" /\ g.type # "text"
        BY <2>1, <2>4, <3>2, FramesFit, FrameFields
      <4>2. r = <<f>> \o <<g>>
        BY <3>2
      <4> HIDE DEF r, f, g
      <4>3. /\ r \in Seq(DownFrames) /\ Sealed(r)
            /\ \A i \in DOMAIN r : r[i] = f \/ r[i] = g
        BY <2>4, <4>1, <4>2, LastFrames
      <4> QED
        BY <2>4, <3>2, <4>1, <4>3
    <3> QED
      BY <3>1, <3>2
  <2>6. Runs(s, n) /\ Tells(s, r)
    BY <2>2
  <2> HIDE DEF n, g, r
  <2>7. IF link[s] = "open" THEN down' = [down EXCEPT ![s] = @ \o r] ELSE UNCHANGED down
    BY <2>6 DEF Tells
  <2>8. /\ \A i \in DOMAIN r : r[i].msg = task[s].msg
        /\ \A i \in DOMAIN r : r[i].type # "text"
        /\ \A i \in DOMAIN r : r[i].type \in Terminal => n.done
        /\ n.msg = task[s].msg /\ ~task[s].done /\ task[s].pc # "idle"
        /\ Looping(n) /\ Looping(task[s])
    BY <2>1, <2>3, <2>5 DEF t, Looping
  <2>9. aborted' = aborted
    BY <1>6, <2>1
  <2> QED
    BY <1>2, <1>6, <2>1, <2>5, <2>6, <2>7, <2>8, <2>9, RunStep
<1>15. CASE Persists(s)
  <2>1. t.pc = "persists" /\ t.msg \in Message /\ t.msg # NoMessage /\ Looping(t) /\ Quiet(s)
    BY <1>4, <1>15 DEF Persists, At, t, Looping
  <2>2. CASE aborted[s] \/ t.done
    BY <1>7, <1>15, <2>1, <2>2 DEF Persists, t
  <2>3. CASE ~(aborted[s] \/ t.done)
    <3> DEFINE n == [t EXCEPT !.pc = "calls", !.rounds = @ + 1]
    <3>1. n.msg = t.msg /\ n.done = t.done /\ n.pc = "calls"
      BY <1>3 DEF Tasks
    <3>2. Runs(s, n) /\ UNCHANGED down
      BY <1>15, <2>3 DEF Persists, t
    <3> HIDE DEF n
    <3>3. n.msg = task[s].msg /\ ~task[s].done /\ task[s].pc # "idle"
      BY <2>1, <2>3, <3>1 DEF t
    <3>4. ~aborted'[s]
      BY <1>6, <2>1, <2>3
    <3> QED
      BY <1>2, <1>6, <2>1, <2>3, <3>2, <3>3, <3>4, QuietStep
  <2> QED
    BY <2>2, <2>3
<1> QED
  BY <1>8, <1>9, <1>10, <1>11, <1>12, <1>13, <1>14, <1>15

----------------------------------------------------------------------------
(* The theorems. *)

LEMMA NextInv == Inv /\ [Next]_vars => Inv'
<1> SUFFICES ASSUME Inv, [Next]_vars PROVE Inv'
  OBVIOUS
<1>1. CASE UNCHANGED vars
  <2>1. Shape'
    BY <1>1, NextShape DEF Inv
  <2>2. /\ UNCHANGED <<ws, created, timer, link, up, down, session, buffer, queue, task, aborted>>
        /\ UNCHANGED <<sent, loading, current, halted, misled, early, mixed>>
    BY <1>1 DEF vars, socket, chat, wire, server, ghosts
  <2>3. Shown'
    BY <2>2 DEF Inv, Shown
  <2>4. ASSUME NEW s \in Socket PROVE Placed(s)' /\ Aborts(s)' /\ (link'[s] = "open" => Turns(s)')
    <3>1. Placed(s)' /\ Aborts(s)'
      BY <2>2, PagePlaced, KeptAborts DEF Inv
    <3>2. Same(s) /\ Grows
      BY <2>2 DEF Same, Grows, Excused
    <3>3. link'[s] = "open" => Turns(s)'
      BY <2>2, <3>2, KeptTurns DEF Inv
    <3> QED
      BY <3>1, <3>3
  <2> QED
    BY <2>1, <2>3, <2>4 DEF Inv
<1>2. CASE Browser
  BY <1>2, ReplaceStep, OpenStep, ChatStep DEF Browser
<1>3. CASE Server
  BY <1>3, SessionStep, FrameStep, TaskSteps DEF Server
<1>4. CASE User
  BY <1>4, ReplaceStep, ChatStep DEF User
<1>5. CASE Faults
  BY <1>5, EndStep DEF Faults
<1> QED
  BY <1>1, <1>2, <1>3, <1>4, <1>5 DEF Next

LEMMA Invariant == Spec => []Inv
BY InitInv, NextInv, PTL DEF Spec

\* A text goes into the answer to its message, unless one of the two turns was
\* stopped, left, or given up because of a frame of an earlier turn: a text on
\* its way is of the message the page waits for, or of one given up.
THEOREM AnswersStayApart == Spec => []TextsStayApart
<1>1. Inv => TextsStayApart
  BY DEF Inv, Shown, TextsStayApart
<1> QED
  BY <1>1, Invariant, PTL

\* A turn is cut short only if the user stopped that turn or the page gave it
\* up: aborted is reset before the loop, and a stop that comes during it is for
\* the newest message before it.
THEOREM AbortsAreForTheTurn == Spec => []OnlyStoppedTurnsAbort
<1>1. Inv => OnlyStoppedTurnsAbort
  BY DEF Inv, Aborts, OnlyStoppedTurnsAbort
<1> QED
  BY <1>1, Invariant, PTL

\* A stop for a turn in its loop is in effect or on its way, unless it came
\* before the loop, where aborted is reset.
THEOREM StopsReachTheTurn == Spec => []StopsAreHeard
<1>1. Inv => StopsAreHeard
  <2> SUFFICES ASSUME Inv, NEW s \in Socket, NEW m \in Message,
                      InLoop(s, m), m \in halted \ early, link[s] = "open"
               PROVE  aborted[s] \/ \E i \in DOMAIN up[s] : up[s][i] = Frame("stop", m)
    BY DEF StopsAreHeard
  <2>1. Turns(s) /\ Placed(s)
    BY DEF Inv
  <2>2. task[s].msg = m /\ task[s].pc # "idle"
    BY DEF InLoop
  <2>3. buffer[s].stops = {}
    BY <2>1, <2>2 DEF Placed, NoBuffer
  <2>4. Stopping(s, m) \/ aborted[s]
    BY <2>1, <2>2, <2>3 DEF Turns, Heard, Around, Here
  <2> QED
    BY <2>4 DEF Stopping, In
<1> QED
  BY <1>1, Invariant, PTL

=============================================================================
