------------------------ MODULE ScheduleEngineProofs ------------------------
(****************************************************************************)
(* Theorems about ScheduleEngine: its types, the registry as a mirror of    *)
(* the table when calls do not overlap, and one fire a minute while nothing *)
(* resets the registry.                                                     *)
(****************************************************************************)
EXTENDS ScheduleEngine, TLAPS

(* What a call and a fire carry at each await. *)

CallFits(c) ==
    /\ call[c].pc \in {"create", "created", "updated"} => call[c].detail \in Config
    /\ call[c].pc \in {"created", "find", "update", "updated", "findDelete", "delete"}
          => call[c].sched \in Sched
    /\ call[c].pc \in {"find", "update", "updated"} => call[c].change \in Updates

FireFits(f) ==
    IF fire[f].pc = "idle" THEN fire[f] = NewFire
    ELSE fire[f].sched \in Sched /\ fire[f].wf \in Workflow

Shape == TypeOK /\ (\A c \in Caller : CallFits(c)) /\ (\A f \in Fire : FireFits(f))

(* The registry, when a call begins only once the boot and the calls before *)
(* it are over, and no deletion throws.                                     *)

Serial == ~Overlap /\ "delete" \notin Faults

\* A call has the process to itself.
Alone ==
    \A c \in Caller : IsCalling(c) =>
        boot = "up" /\ \A o \in Caller : IsCalling(o) => o = c

\* A configuration read from, or written to, the row of s is still its own,
\* or the workflow was deleted since.
IsCurrent(s, detail) ==
    IF Exists(s) THEN detail = ConfigOf(s)
    ELSE row[s] = Gone /\ detail.wf \notin stored

\* Until the boot registers, nothing is registered, and what it listed holds.
BootFits ==
    /\ boot # "up" => \A s \in Sched : active[s] = None
    /\ boot = "register" => \A s \in Sched :
          IF listed[s] = None THEN Exists(s) => ~row[s].enabled
          ELSE IsCurrent(s, listed[s]) /\ listed[s].enabled

\* Only the schedule of a call that has written its row, or dropped its
\* entry, differs between registry and table.
Pending(c, s) ==
    /\ call[c].pc \in {"created", "updated", "delete"}
    /\ call[c].sched = s

RegistryFits ==
    /\ boot = "up" => \A s \in Sched :
          Mirrors(s) \/ \E c \in Caller : Pending(c, s)
    /\ \A c \in Caller :
          /\ CallAt(c, "created") \/ CallAt(c, "delete") => active[call[c].sched] = None
          /\ CallAt(c, "created") \/ CallAt(c, "updated")
                => IsCurrent(call[c].sched, call[c].detail)

RegistryInv == Serial => Alone /\ BootFits /\ RegistryFits

(* One fire a minute, when moreover no schedule is updated and the process  *)
(* stays up: both forget the minute of the last fire.                       *)

Steady ==
    /\ ~Overlap /\ ~Crashes /\ ~Deletions /\ "run" \notin Faults
    /\ Updates = {}

\* An id that is not handed out yet has no entry, no fire, and is not listed.
UnbornIsNew ==
    \A s \in Sched : row[s] = Unborn =>
        /\ active[s] = None /\ listed[s] = None
        /\ \A f \in Fire : FireAt(f, "idle") \/ fire[f].sched # s

\* A call about to register the schedule it created is the first to do so.
CreatedIsNew ==
    \A c \in Caller : CallAt(c, "created") =>
        /\ row[call[c].sched] # Unborn
        /\ active[call[c].sched] = None
        /\ \A f \in Fire : FireAt(f, "idle") \/ fire[f].sched # call[c].sched

\* An entry remembers the fire of this minute.
LastFiredFits ==
    \A f \in Fire : ~FireAt(f, "idle") =>
        /\ boot = "up"
        /\ fire[f].minute <= minute
        /\ fire[f].minute = minute /\ active[fire[f].sched] # None
              => active[fire[f].sched].lastFired = minute

OncePerMinute ==
    \A f, g \in Fire :
        /\ f # g /\ ~FireAt(f, "idle") /\ ~FireAt(g, "idle")
        /\ fire[f].sched = fire[g].sched
        => fire[f].minute # fire[g].minute

FireInv ==
    Steady => stored = Workflow /\ Alone /\ UnbornIsNew /\ CreatedIsNew /\ LastFiredFits /\ OncePerMinute

----------------------------------------------------------------------------
(* What a step may touch. *)

\* A row that exists has the fields of a row.
LEMMA StoredRows ==
    ASSUME TypeOK, NEW s \in Sched
    PROVE  Exists(s) <=> row[s] \in Row
BY ConstantsAssumption DEF TypeOK, Exists

\* A step that only writes the outcome of runs into rows.
SameConfigs ==
    \A s \in Sched :
        /\ row'[s] \in Row <=> row[s] \in Row
        /\ row[s] \notin Row => row'[s] = row[s]
        /\ row[s] \in Row => /\ row'[s].wf = row[s].wf
                             /\ row'[s].cron = row[s].cron
                             /\ row'[s].enabled = row[s].enabled

\* A fire writes its own memory and, at most, the status of its schedule.
FireEffect(f) ==
    /\ UNCHANGED <<minute, stored, active, boot, listed, call>>
    /\ row' \in [Sched -> Row \cup {Unborn, Gone}] /\ SameConfigs
    /\ fire' \in [Fire -> [pc : FirePlaces, sched : Sched \cup {None},
                           wf : Workflow \cup {None}, minute : 0..Minutes,
                           outcome : Outcomes]]
    /\ \A g \in Fire \ {f} : fire'[g] = fire[g]
    /\ fire'[f].pc # "idle"
    /\ fire'[f].sched = fire[f].sched /\ fire'[f].wf = fire[f].wf
    /\ fire'[f].minute = fire[f].minute
    /\ executing' \subseteq Workflow

\* The writes of a fire to its row keep the row a row.
LEMMA StatusEffect ==
    ASSUME TypeOK, NEW s \in Sched, Exists(s), NEW f \in Fire,
           NEW status \in {"running", "completed", "failed"},
           \/ row' = [row EXCEPT ![s].lastStatus = status]
           \/ row' = [row EXCEPT ![s].lastRun = f, ![s].lastStatus = status]
    PROVE  row' \in [Sched -> Row \cup {Unborn, Gone}] /\ SameConfigs
<1>1. row[s] \in Row
  BY StoredRows
<1>2. row \in [Sched -> Row \cup {Unborn, Gone}]
  BY DEF TypeOK
<1>3. row'[s] \in Row /\ row'[s].wf = row[s].wf /\ row'[s].cron = row[s].cron
        /\ row'[s].enabled = row[s].enabled
  BY <1>1, <1>2 DEF Row
<1>4. /\ \A t \in Sched \ {s} : row'[t] = row[t]
      /\ row' = [t \in Sched |-> row'[t]]
  BY <1>2
<1> QED
  BY <1>1, <1>2, <1>3, <1>4 DEF SameConfigs

\* Each step of a fire, the one that ends the process apart.
LEMMA FireStepEffect ==
    ASSUME Shape, NEW f \in Fire, FireStep(f)
    PROVE  FireEffect(f) \/ (RunRejects(f) /\ NewProcess)
<1> USE DEF FireOnly, process
<1>0. /\ fire \in [Fire -> [pc : FirePlaces, sched : Sched \cup {None},
                           wf : Workflow \cup {None}, minute : 0..Minutes,
                           outcome : Outcomes]]
      /\ row \in [Sched -> Row \cup {Unborn, Gone}]
      /\ executing \subseteq Workflow
      /\ TypeOK
  BY DEF Shape, TypeOK
<1>1. fire[f].pc # "idle" /\ fire[f].sched \in Sched /\ fire[f].wf \in Workflow
  <2>1. fire[f].pc # "idle"
    <3>1. fire[f].pc = "idle" => fire[f].outcome = None
      BY DEF Shape, FireFits, NewFire
    <3>2. None # "running"
      BY ConstantsAssumption
    <3> QED
      BY <3>1, <3>2 DEF FireStep, Begin, RunStarts, RunFailsToStart, RecordRun, RecordFails,
         ReportError, RunEnds, RunRejects, SettleRun, SettleFails, FireAt
  <2> QED
    BY <2>1 DEF Shape, FireFits
<1>2. SameConfigs \/ row' # row
  BY DEF SameConfigs
<1>3. CASE Begin(f)
  BY <1>0, <1>1, <1>2, <1>3 DEF Begin, FireGoto, FireAt, FireEffect, FirePlaces
<1>4. CASE RunStarts(f)
  BY <1>0, <1>1, <1>2, <1>4 DEF RunStarts, FireAt, FireEffect, FirePlaces, Outcomes
<1>5. CASE RunFailsToStart(f) \/ RecordFails(f) \/ SettleFails(f)
  BY <1>0, <1>1, <1>2, <1>5
  DEF RunFailsToStart, RecordFails, SettleFails, FireGoto, FireEffect, FirePlaces
<1>6. CASE RecordRun(f)
  <2>1. row' \in [Sched -> Row \cup {Unborn, Gone}] /\ SameConfigs
    BY <1>0, <1>1, <1>6, StatusEffect DEF RecordRun, RowOf
  <2> QED
    BY <1>0, <1>1, <1>6, <2>1 DEF RecordRun, FireGoto, FireEffect, FirePlaces
<1>7. CASE ReportError(f)
  <2>1. row' \in [Sched -> Row \cup {Unborn, Gone}] /\ SameConfigs
    BY <1>0, <1>1, <1>2, <1>7, StatusEffect DEF ReportError, RowOf, SetStatus
  <2> QED
    BY <1>0, <1>1, <1>7, <2>1 DEF ReportError, FireGoto, FireEffect, FirePlaces
<1>8. CASE RunEnds(f)
  BY <1>0, <1>1, <1>2, <1>8 DEF RunEnds, FireEffect, Outcomes
<1>9. CASE RunRejects(f)
  BY <1>0, <1>1, <1>2, <1>9 DEF RunRejects, FireEffect, Outcomes
<1>10. CASE SettleRun(f)
  <2>1. row' \in [Sched -> Row \cup {Unborn, Gone}] /\ SameConfigs
    BY <1>0, <1>1, <1>2, <1>10, StatusEffect DEF SettleRun, RowOf, SetStatus
  <2> QED
    BY <1>0, <1>1, <1>10, <2>1 DEF SettleRun, FireGoto, FireEffect, FirePlaces
<1> QED
  BY <1>3, <1>4, <1>5, <1>6, <1>7, <1>8, <1>9, <1>10 DEF FireStep

\* A call writes its own memory, rows and entries.
CallEffect(c) ==
    /\ UNCHANGED <<minute, stored, boot, listed, fire, executing>>
    /\ call' = [call EXCEPT ![c] = call'[c]]

\* Each step of a call changes that call, the row and the entry of its schedule.
LEMMA CallStepEffect ==
    ASSUME Shape, NEW c \in Caller, Ask(c) \/ Answer(c)
    PROVE  CallEffect(c)
<1> USE DEF CallOnly, CallEffect, CallGoto
<1>0. call \in [Caller -> [pc : CallPlaces, sched : Sched \cup {None},
                           change : Updates \cup {None}, detail : Config \cup {None}]]
  BY DEF Shape, TypeOK
<1>1. CASE Ask(c)
  BY <1>0, <1>1 DEF Ask, AskCreate, AskUpdate, AskDelete
<1>2. CASE CommitCreate(c) \/ RegisterCreated(c)
  BY <1>0, <1>2 DEF CommitCreate, RegisterCreated
<1>3. CASE FindForUpdate(c) \/ CommitUpdate(c) \/ RegisterUpdated(c)
  BY <1>0, <1>3 DEF FindForUpdate, CommitUpdate, RegisterUpdated
<1>4. CASE Unregister(c) \/ CommitDelete(c) \/ CallFails(c)
  BY <1>0, <1>4 DEF Unregister, CommitDelete, CallFails
<1> QED
  BY <1>1, <1>2, <1>3, <1>4 DEF Answer

\* A tick fires due schedules, each once, with calls that were idle.
TickEffect ==
    /\ UNCHANGED <<minute, stored, row, boot, listed, call, executing>>
    /\ boot = "up"
    /\ active' \in [Sched -> Entry \cup {None}]
    /\ \A s \in Sched : \/ active'[s] = active[s] /\ ~IsDue(s)
                        \/ /\ IsDue(s) /\ active'[s] \in Entry
                           /\ active'[s].wf = active[s].wf
                           /\ active'[s].cron = active[s].cron
                           /\ active'[s].lastFired = minute
    /\ fire' \in [Fire -> [pc : FirePlaces, sched : Sched \cup {None},
                           wf : Workflow \cup {None}, minute : 0..Minutes,
                           outcome : Outcomes]]
    /\ \A f \in Fire : \/ fire'[f] = fire[f]
                        \/ /\ fire[f].pc = "idle" /\ fire'[f].pc = "import"
                           /\ fire'[f].sched \in Sched /\ IsDue(fire'[f].sched)
                           /\ fire'[f].wf \in Workflow
                           /\ fire'[f].minute = minute
    /\ \A f, g \in Fire :
          f # g /\ fire'[f] # fire[f] /\ fire'[g] # fire[g]
              => fire'[f].sched # fire'[g].sched

\* A tick starts an idle fire for each due schedule, and no other.
LEMMA TickStepEffect ==
    ASSUME Shape, Tick
    PROVE  TickEffect
<1> DEFINE due  == {s \in Sched : IsDue(s)}
           idle == {f \in Fire : fire[f].pc = "idle"}
           Assignments == {g \in [due -> idle] : \A s, t \in due : g[s] = g[t] => s = t}
           by == CHOOSE g \in Assignments : TRUE
           fired(f) == CHOOSE s \in due : by[s] = f
           new(s) == [NewFire EXCEPT !.pc = "import", !.sched = s,
                                     !.wf = active[s].wf, !.minute = minute]
<1>1. /\ boot = "up" /\ Assignments # {}
      /\ active' = [s \in Sched |-> IF s \in due
                         THEN [active[s] EXCEPT !.lastFired = minute] ELSE active[s]]
      /\ fire' = [f \in Fire |-> IF \E s \in due : by[s] = f THEN new(fired(f)) ELSE fire[f]]
      /\ UNCHANGED <<minute, stored, row, boot, listed, call, executing>>
  BY DEF Tick
<1>2. by \in Assignments
  BY <1>1
<1>3. \A f \in Fire : (\E s \in due : by[s] = f)
                         => fired(f) \in due /\ by[fired(f)] = f
  OBVIOUS
<1>t. /\ active \in [Sched -> Entry \cup {None}] /\ minute \in 1..Minutes /\ Minutes \in Nat
      /\ fire \in [Fire -> [pc : FirePlaces, sched : Sched \cup {None},
                           wf : Workflow \cup {None}, minute : 0..Minutes,
                           outcome : Outcomes]]
  BY ConstantsAssumption DEF Shape, TypeOK
<1>4. \A s \in due : active[s] \in Entry
  BY <1>t DEF IsDue
<1>5. \A s \in due : LET e == [active[s] EXCEPT !.lastFired = minute]
                     IN  e \in Entry /\ e.wf = active[s].wf /\ e.cron = active[s].cron
                             /\ e.lastFired = minute
  BY <1>4, <1>t DEF Entry
<1>6. \A s \in due : /\ new(s) \in [pc : FirePlaces, sched : Sched \cup {None},
                           wf : Workflow \cup {None}, minute : 0..Minutes,
                           outcome : Outcomes]
                     /\ new(s).pc = "import" /\ new(s).sched = s
                     /\ new(s).wf \in Workflow /\ new(s).minute = minute
  <2> HIDE DEF by, fired
  <2>1. minute \in 0..Minutes
    BY <1>t
  <2>2. ASSUME NEW s \in due
        PROVE  active[s].wf \in Workflow
    BY <1>4, <2>2 DEF Entry
  <2>3. NewFire \in [pc : FirePlaces, sched : Sched \cup {None},
                     wf : Workflow \cup {None}, minute : 0..Minutes, outcome : Outcomes]
    BY <1>t DEF NewFire, FirePlaces, Outcomes
  <2>4. "import" \in FirePlaces
    BY DEF FirePlaces
  <2> QED
    BY <2>1, <2>2, <2>3, <2>4
<1> HIDE DEF by, fired, new
<1>7. \A f \in Fire : (\E s \in due : by[s] = f) => fire[f].pc = "idle"
  BY <1>2
<1>8. \A f \in Fire : \/ fire'[f] = fire[f]
                      \/ /\ fire[f].pc = "idle" /\ fired(f) \in due /\ by[fired(f)] = f
                         /\ fire'[f] = new(fired(f))
  BY <1>1, <1>3, <1>7
<1>9. \A f, g \in Fire :
          f # g /\ fire'[f] # fire[f] /\ fire'[g] # fire[g]
              => fire'[f].sched # fire'[g].sched
  BY <1>6, <1>8
<1>10. fire' \in [Fire -> [pc : FirePlaces, sched : Sched \cup {None},
                           wf : Workflow \cup {None}, minute : 0..Minutes,
                           outcome : Outcomes]]
  BY <1>1, <1>3, <1>6, <1>t
<1>11. active' \in [Sched -> Entry \cup {None}]
  BY <1>1, <1>5, <1>t
<1>12. \A s \in Sched : \/ active'[s] = active[s] /\ ~IsDue(s)
                        \/ /\ IsDue(s) /\ active'[s] \in Entry
                           /\ active'[s].wf = active[s].wf
                           /\ active'[s].cron = active[s].cron
                           /\ active'[s].lastFired = minute
  BY <1>1, <1>5
<1>13. \A f \in Fire : \/ fire'[f] = fire[f]
                        \/ /\ fire[f].pc = "idle" /\ fire'[f].pc = "import"
                           /\ fire'[f].sched \in Sched /\ IsDue(fire'[f].sched)
                           /\ fire'[f].wf \in Workflow
                           /\ fire'[f].minute = minute
  BY <1>6, <1>8
<1> QED
  BY <1>1, <1>9, <1>10, <1>11, <1>12, <1>13 DEF TickEffect

----------------------------------------------------------------------------
(* Types, and what calls and fires carry. *)

FireType == [pc : FirePlaces, sched : Sched \cup {None}, wf : Workflow \cup {None},
             minute : 0..Minutes, outcome : Outcomes]
CallType == [pc : CallPlaces, sched : Sched \cup {None},
             change : Updates \cup {None}, detail : Config \cup {None}]

\* The shape holds at the start.
LEMMA ShapeInit == Init => Shape
<1> SUFFICES ASSUME Init PROVE Shape
  OBVIOUS
<1> USE ConstantsAssumption DEF Init
<1>1. NewFire \in FireType /\ NewCall \in CallType
  BY DEF NewFire, NewCall, FireType, CallType, FirePlaces, CallPlaces, Outcomes
<1>2. TypeOK
  BY <1>1 DEF TypeOK, FireType, CallType
<1>3. \A c \in Caller : CallFits(c)
  BY DEF CallFits, NewCall
<1>4. \A f \in Fire : FireFits(f)
  BY DEF FireFits, NewFire
<1> QED
  BY <1>2, <1>3, <1>4 DEF Shape

\* A new process starts with the rows, and nothing else, of the old one.
LEMMA ShapeNewProcess ==
    ASSUME Shape, NewProcess
    PROVE  Shape'
<1>1. call \in [Caller -> CallType] /\ fire \in [Fire -> FireType]
  BY DEF Shape, TypeOK, CallType, FireType
<1>2. \A c \in Caller : \/ call'[c] = call[c] /\ call[c].pc = "idle"
                        \/ call'[c] = [call[c] EXCEPT !.pc = "done"]
  BY DEF NewProcess
<1>3. \A c \in Caller : call'[c] \in CallType /\ call'[c].pc \in {"idle", "done"}
  <2> TAKE c \in Caller
  <2>1. call[c] \in CallType /\ "done" \in CallPlaces
    BY <1>1 DEF CallPlaces
  <2> QED
    BY <1>2, <2>1 DEF CallType
<1>4. \A f \in Fire : IF fire[f].pc = "idle" THEN fire'[f] = fire[f]
                      ELSE fire'[f] = [fire[f] EXCEPT !.pc = "done", !.outcome = Lost(f)]
  BY DEF NewProcess
<1>5. \A f \in Fire : /\ fire'[f] \in FireType
                      /\ \/ fire'[f] = fire[f]
                         \/ /\ fire[f].pc # "idle" /\ fire'[f].pc = "done"
                            /\ fire'[f].sched = fire[f].sched /\ fire'[f].wf = fire[f].wf
  <2> TAKE f \in Fire
  <2>1. fire[f] \in FireType /\ "done" \in FirePlaces
    BY <1>1 DEF FirePlaces
  <2>2. Lost(f) \in Outcomes
    BY <2>1 DEF FireType, Lost, Outcomes
  <2> QED
    BY <1>4, <2>1, <2>2 DEF FireType
<1>6. call' \in [Caller -> CallType] /\ fire' \in [Fire -> FireType]
  <2>1. call' = [c \in Caller |-> call'[c]]
    BY DEF NewProcess
  <2>2. fire' = [f \in Fire |-> fire'[f]]
    BY DEF NewProcess
  <2> QED
    BY <1>3, <1>5, <2>1, <2>2
<1>7. TypeOK'
  BY <1>6 DEF Shape, TypeOK, NewProcess, CallType, FireType
<1>8. \A c \in Caller : CallFits(c)'
  BY <1>3 DEF CallFits
<1>9. \A f \in Fire : FireFits(f)'
  BY <1>5 DEF FireFits, Shape
<1> QED
  BY <1>7, <1>8, <1>9 DEF Shape

\* A fire.
LEMMA ShapeFire ==
    ASSUME Shape, NEW f \in Fire, FireStep(f)
    PROVE  Shape'
<1>1. CASE FireEffect(f)
  <2>1. TypeOK'
    BY <1>1 DEF FireEffect, Shape, TypeOK
  <2>2. \A c \in Caller : CallFits(c)'
    BY <1>1 DEF FireEffect, Shape, CallFits
  <2>3. fire[f].pc # "idle"
    <3>1. fire[f].pc = "idle" => fire[f].outcome = None
      BY DEF Shape, FireFits, NewFire
    <3>2. None # "running"
      BY ConstantsAssumption
    <3> QED
      BY <3>1, <3>2 DEF FireStep, Begin, RunStarts, RunFailsToStart, RecordRun, RecordFails,
         ReportError, RunEnds, RunRejects, SettleRun, SettleFails, FireAt
  <2>4. \A g \in Fire : FireFits(g)'
    BY <1>1, <2>3 DEF FireEffect, Shape, FireFits
  <2> QED
    BY <2>1, <2>2, <2>4 DEF Shape
<1> QED
  BY <1>1, FireStepEffect, ShapeNewProcess

\* The row a creation or an update writes.
LEMMA ShapeCommit ==
    ASSUME Shape, NEW c \in Caller, CommitCreate(c) \/ CommitUpdate(c)
    PROVE  Shape'
<1>1. /\ call \in [Caller -> CallType] /\ row \in [Sched -> Row \cup {Unborn, Gone}]
      /\ CallFits(c)
  BY DEF Shape, TypeOK, CallType
<1>2. CallEffect(c)
  BY CallStepEffect DEF Answer
<1>3. /\ row' \in [Sched -> Row \cup {Unborn, Gone}]
      /\ call'[c] \in CallType /\ CallFits(c)'
      /\ active' = active
  <2>1. CASE CommitCreate(c)
    <3> DEFINE detail == call[c].detail
               new == [wf |-> detail.wf, cron |-> detail.cron,
                       enabled |-> detail.enabled, lastRun |-> None, lastStatus |-> None]
    <3>1. detail \in Config
      BY <1>1, <2>1 DEF CallFits, CommitCreate, CallAt
    <3>2. new \in Row
      BY <3>1 DEF Config, Row
    <3>3. PICK s \in Sched :
             /\ row' = [row EXCEPT ![s] = new]
             /\ call' = [call EXCEPT ![c].pc = "created", ![c].sched = s]
      BY <2>1 DEF CommitCreate
    <3>4. call'[c] \in CallType /\ call'[c].pc = "created" /\ call'[c].sched = s
            /\ call'[c].detail = detail
      BY <1>1, <3>3 DEF CallType, CallPlaces
    <3> QED
      BY <1>1, <2>1, <3>1, <3>2, <3>3, <3>4 DEF CallFits, CommitCreate, CallOnly
  <2>2. CASE CommitUpdate(c)
    <3> DEFINE s == call[c].sched
               change == call[c].change
               new == [wf      |-> Kept(row[s].wf, change.wf),
                       cron    |-> Kept(row[s].cron, change.cron),
                       enabled |-> Kept(row[s].enabled, change.enabled)]
    <3>1. s \in Sched /\ change \in Change /\ change \in Updates /\ row[s] \in Row
      BY <1>1, <2>2, ConstantsAssumption, StoredRows
      DEF CallFits, CommitUpdate, CallAt, Shape
    <3>2. new \in Config
      BY <3>1 DEF Kept, Config, Row, Change
    <3>3. /\ row' = [row EXCEPT ![s].wf = new.wf, ![s].cron = new.cron,
                                ![s].enabled = new.enabled]
          /\ call' = [call EXCEPT ![c].pc = "updated", ![c].detail = new]
          /\ active' = active
      BY <2>2 DEF CommitUpdate, CallOnly
    <3> HIDE DEF new
    <3>4. row'[s] \in Row
      BY <1>1, <3>1, <3>2, <3>3 DEF Row, Config
    <3>5. \A t \in Sched \ {s} : row'[t] = row[t]
      BY <1>1, <3>3
    <3>6. row' \in [Sched -> Row \cup {Unborn, Gone}]
      BY <1>1, <3>3, <3>4, <3>5
    <3>7. call'[c] \in CallType /\ call'[c].pc = "updated" /\ call'[c].sched = s
            /\ call'[c].detail = new /\ call'[c].change = change
      BY <1>1, <3>2, <3>3 DEF CallType, CallPlaces
    <3> QED
      BY <3>1, <3>2, <3>3, <3>6, <3>7 DEF CallFits
  <2> QED
    BY <2>1, <2>2
<1>4. call' \in [Caller -> CallType] /\ \A o \in Caller : CallFits(o)'
  BY <1>1, <1>2, <1>3 DEF CallEffect, CallFits, Shape
<1> QED
  BY <1>2, <1>3, <1>4 DEF Shape, TypeOK, CallEffect, CallType, FireFits

\* The other steps of a call change its own memory and entries.
LEMMA ShapeCall ==
    ASSUME Shape, NEW c \in Caller, Ask(c) \/ Answer(c)
    PROVE  Shape'
<1> USE DEF CallOnly, CallGoto, CallAt
<1>0. /\ call \in [Caller -> CallType] /\ row \in [Sched -> Row \cup {Unborn, Gone}]
      /\ active \in [Sched -> Entry \cup {None}] /\ CallFits(c)
  BY DEF Shape, TypeOK, CallType
<1>1. CASE CommitCreate(c) \/ CommitUpdate(c)
  BY <1>1, ShapeCommit
<1>2. ASSUME call'[c] \in CallType, CallFits(c)',
             row' \in [Sched -> Row \cup {Unborn, Gone}],
             active' \in [Sched -> Entry \cup {None}]
      PROVE  Shape'
  <2>1. CallEffect(c)
    BY CallStepEffect
  <2>2. call' \in [Caller -> CallType] /\ \A o \in Caller : CallFits(o)'
    BY <1>0, <1>2, <2>1 DEF CallEffect, CallFits, Shape
  <2> QED
    BY <1>2, <2>1, <2>2 DEF Shape, TypeOK, CallEffect, CallType, FireFits
<1>3. CASE AskCreate(c)
  <2>1. PICK detail \in Config :
           call' = [call EXCEPT ![c].pc = "create", ![c].detail = detail]
    BY <1>3 DEF AskCreate
  <2>2. call'[c] \in CallType /\ CallFits(c)'
    BY <1>0, <2>1 DEF CallType, CallPlaces, CallFits
  <2> QED
    BY <1>0, <1>2, <1>3, <2>2 DEF AskCreate
<1>4. CASE AskUpdate(c)
  <2>1. PICK s \in Sched, change \in Updates :
           call' = [call EXCEPT ![c].pc = "find", ![c].sched = s, ![c].change = change]
    BY <1>4 DEF AskUpdate
  <2>2. call'[c].pc = "find" /\ call'[c].sched = s /\ call'[c].change = change
          /\ call'[c] \in CallType
    BY <1>0, <2>1 DEF CallType, CallPlaces
  <2>3. CallFits(c)'
    BY <2>2 DEF CallFits
  <2> QED
    BY <1>0, <1>2, <1>4, <2>2, <2>3 DEF AskUpdate
<1>5. CASE AskDelete(c)
  <2>1. PICK s \in Sched : call' = [call EXCEPT ![c].pc = "findDelete", ![c].sched = s]
    BY <1>5 DEF AskDelete
  <2>2. call'[c] \in CallType /\ CallFits(c)'
    BY <1>0, <2>1 DEF CallType, CallPlaces, CallFits
  <2> QED
    BY <1>0, <1>2, <1>5, <2>2 DEF AskDelete
<1>6. ASSUME NEW pc \in CallPlaces, call' = [call EXCEPT ![c].pc = pc],
             \/ pc = "done"
             \/ pc = "update" /\ call[c].pc = "find"
             \/ pc = "delete" /\ call[c].pc = "findDelete"
      PROVE  call'[c] \in CallType /\ CallFits(c)'
  BY <1>0, <1>6 DEF CallType, CallPlaces, CallFits
<1>7. \A detail \in Config : Registered(detail) \in Entry
  BY ConstantsAssumption DEF Registered, Config, Entry
<1>8. {"done", "update", "delete"} \subseteq CallPlaces
  BY DEF CallPlaces
<1>9. CASE RegisterCreated(c) \/ RegisterUpdated(c)
  <2>0. call[c].pc \in {"created", "updated"}
    BY <1>9 DEF RegisterCreated, RegisterUpdated
  <2>1. Registered(call[c].detail) \in Entry /\ call[c].sched \in Sched
    BY <1>0, <1>7, <2>0 DEF CallFits
  <2>2. active' \in [Sched -> Entry \cup {None}]
    BY <1>0, <1>9, <2>1 DEF RegisterCreated, RegisterUpdated
  <2>3. call' = [call EXCEPT ![c].pc = "done"] /\ row' = row
    BY <1>9 DEF RegisterCreated, RegisterUpdated
  <2> QED
    BY <1>0, <1>2, <1>6, <1>8, <2>2, <2>3
<1>10. CASE FindForUpdate(c)
  BY <1>0, <1>2, <1>6, <1>8, <1>10 DEF FindForUpdate
<1>11. CASE Unregister(c)
  <2>1. active' \in [Sched -> Entry \cup {None}]
    BY <1>0, <1>11 DEF Unregister
  <2> QED
    BY <1>0, <1>2, <1>6, <1>8, <1>11, <2>1 DEF Unregister
<1>12. CASE CommitDelete(c)
  <2>1. row' \in [Sched -> Row \cup {Unborn, Gone}]
    BY <1>0, <1>12 DEF CommitDelete
  <2> QED
    BY <1>0, <1>2, <1>6, <1>8, <1>12, <2>1 DEF CommitDelete
<1>13. CASE CallFails(c)
  BY <1>0, <1>2, <1>6, <1>8, <1>13 DEF CallFails
<1> QED
  BY <1>1, <1>3, <1>4, <1>5, <1>9, <1>10, <1>11, <1>12, <1>13 DEF Ask, Answer

\* The clock, the boot, and the deletion of a workflow.
LEMMA ShapeRest ==
    ASSUME Shape, Clock \/ Boot \/ \E w \in Workflow : DeleteWorkflow(w)
    PROVE  Shape'
<1> USE DEF process
<1>0. TypeOK
  BY DEF Shape
<1>1. CASE NextMinute
  <2>1. minute' \in 1..Minutes
    BY <1>0, <1>1, ConstantsAssumption DEF TypeOK, NextMinute
  <2> QED
    BY <1>1, <2>1 DEF NextMinute, Shape, TypeOK, CallFits, FireFits
<1>2. CASE Tick
  <2>1. TickEffect
    BY <1>2, TickStepEffect
  <2>2. TypeOK'
    BY <1>0, <2>1 DEF TickEffect, TypeOK
  <2>3. \A f \in Fire : FireFits(f)'
    BY <2>1 DEF TickEffect, Shape, FireFits
  <2>4. \A c \in Caller : CallFits(c)'
    BY <2>1 DEF TickEffect, Shape, CallFits
  <2> QED
    BY <2>2, <2>3, <2>4 DEF Shape
<1>3. CASE ListEnabled
  <2>1. \A s \in Sched : Exists(s) => ConfigOf(s) \in Config
    BY <1>0, StoredRows DEF ConfigOf, Row, Config
  <2>2. listed' \in [Sched -> Config \cup {None}]
    BY <1>3, <2>1 DEF ListEnabled
  <2> QED
    BY <1>3, <2>2 DEF ListEnabled, Shape, TypeOK, CallFits, FireFits
<1>4. CASE RegisterListed
  <2>1. \A s \in Sched : listed[s] # None => Registered(listed[s]) \in Entry
    BY <1>0, ConstantsAssumption DEF TypeOK, Registered, Config, Entry
  <2>2. active' \in [Sched -> Entry \cup {None}]
    BY <1>0, <1>4, <2>1 DEF RegisterListed, TypeOK
  <2> QED
    BY <1>4, <2>2 DEF RegisterListed, Shape, TypeOK, CallFits, FireFits
<1>5. CASE \E w \in Workflow : DeleteWorkflow(w)
  <2> PICK w \in Workflow : DeleteWorkflow(w)
    BY <1>5
  <2>1. row' \in [Sched -> Row \cup {Unborn, Gone}] /\ stored' \subseteq Workflow
    BY <1>0 DEF DeleteWorkflow, TypeOK
  <2> QED
    BY <2>1 DEF DeleteWorkflow, Shape, TypeOK, CallFits, FireFits
<1> QED
  BY <1>1, <1>2, <1>3, <1>4, <1>5 DEF Clock, Boot

\* The shape is kept by every step.
LEMMA ShapeNext == Shape /\ [Next]_vars => Shape'
<1> SUFFICES ASSUME Shape, [Next]_vars PROVE Shape'
  OBVIOUS
<1>1. CASE Restart
  BY <1>1, ShapeNewProcess DEF Restart
<1>2. CASE UNCHANGED vars
  BY <1>2 DEF vars, process, Shape, TypeOK, CallFits, FireFits
<1> QED
  BY <1>1, <1>2, ShapeRest, ShapeFire, ShapeCall DEF Next

\* Every reachable state has the shape.
LEMMA ShapeHolds == Spec => []Shape
BY ShapeInit, ShapeNext, PTL DEF Spec

\* Every variable of the schedule engine has its type: the registry holds
\* entries and the table rows, whatever overlaps, throws or restarts.
THEOREM ScheduleTypes == Spec => []TypeOK
<1>1. Shape => TypeOK
  BY DEF Shape
<1> QED
  BY <1>1, ShapeHolds, PTL

----------------------------------------------------------------------------
(* The registry mirrors the table. *)

\* Nothing is registered and nobody calls when a process begins.
LEMMA RegistryAtStart ==
    ASSUME boot' = "list", \A s \in Sched : active'[s] = None,
           \A c \in Caller : call'[c].pc \in {"idle", "done"}
    PROVE  (Alone /\ BootFits /\ RegistryFits)'
BY DEF Alone, BootFits, RegistryFits, IsCalling, CallAt

\* The registry fits at the start.
LEMMA RegistryInit == Init => RegistryInv
<1> SUFFICES ASSUME Init PROVE Alone /\ BootFits /\ RegistryFits
  BY DEF RegistryInv
<1>1. \A c \in Caller : call[c].pc = "idle"
  BY DEF Init, NewCall
<1> QED
  BY <1>1 DEF Init, Alone, BootFits, RegistryFits, IsCalling, CallAt

\* What two states with the same configurations agree on.
LEMMA SameMirror ==
    ASSUME TypeOK, TypeOK', SameConfigs, stored' = stored, NEW s \in Sched
    PROVE  /\ Exists(s)' <=> Exists(s)
           /\ row'[s] = Gone <=> row[s] = Gone
           /\ Exists(s) => row'[s].enabled = row[s].enabled /\ ConfigOf(s)' = ConfigOf(s)
           /\ \A detail : IsCurrent(s, detail) <=> IsCurrent(s, detail)'
           /\ active'[s] = active[s] => (Mirrors(s) => Mirrors(s)')
<1>1. (Exists(s) <=> row[s] \in Row) /\ (Exists(s)' <=> row'[s] \in Row)
  BY ConstantsAssumption DEF TypeOK, Exists
<1>2. /\ Exists(s)' <=> Exists(s)
      /\ row'[s] = Gone <=> row[s] = Gone
  BY <1>1 DEF SameConfigs, Exists
<1>3. Exists(s) => row'[s].enabled = row[s].enabled /\ ConfigOf(s)' = ConfigOf(s)
  BY <1>1 DEF SameConfigs, ConfigOf
<1>4. \A detail : IsCurrent(s, detail) <=> IsCurrent(s, detail)'
  BY <1>2, <1>3 DEF IsCurrent
<1>5. ASSUME active'[s] = active[s], Mirrors(s)
      PROVE  Mirrors(s)'
  BY <1>1, <1>2, <1>5 DEF Mirrors, SameConfigs
<1> QED
  BY <1>2, <1>3, <1>4, <1>5

\* Steps that change neither configurations, calls nor entries keep it fitting.
LEMMA RegistrySame ==
    ASSUME Shape, TypeOK', Alone, BootFits, RegistryFits, SameConfigs,
           UNCHANGED <<stored, active, boot, listed, call>>
    PROVE  (Alone /\ BootFits /\ RegistryFits)'
<1> USE SameMirror DEF Shape
<1>1. Alone'
  BY DEF Alone, IsCalling
<1>2. BootFits'
  BY DEF BootFits
<1>3. \A c \in Caller : CallFits(c)
  OBVIOUS
<1>4. RegistryFits'
  BY <1>3 DEF RegistryFits, Pending, CallAt, CallFits
<1> QED
  BY <1>1, <1>2, <1>4

\* A tick changes no entry but for the minute of its last fire.
LEMMA RegistryTick ==
    ASSUME Shape, Alone, BootFits, RegistryFits, TickEffect
    PROVE  (Alone /\ BootFits /\ RegistryFits)'
<1>1. \A s \in Sched : /\ active'[s] = None <=> active[s] = None
                       /\ active[s] # None => active'[s].wf = active[s].wf
                                              /\ active'[s].cron = active[s].cron
  BY ConstantsAssumption DEF TickEffect, IsDue
<1>2. /\ row' = row /\ stored' = stored /\ call' = call
      /\ boot = "up" /\ boot' = "up"
  BY DEF TickEffect
<1>3. \A s \in Sched : Mirrors(s) => Mirrors(s)'
  BY <1>1, <1>2 DEF Mirrors, Exists
<1>4. Alone' /\ BootFits'
  BY <1>2 DEF Alone, BootFits, IsCalling
<1>5. \A c \in Caller : CallFits(c)
  BY DEF Shape
<1>6. RegistryFits'
  BY <1>1, <1>2, <1>3, <1>5 DEF RegistryFits, Pending, CallAt, CallFits, IsCurrent, Exists, ConfigOf
<1> QED
  BY <1>4, <1>6

\* The boot.
LEMMA RegistryBoot ==
    ASSUME Shape, Alone, BootFits, RegistryFits, Boot
    PROVE  (Alone /\ BootFits /\ RegistryFits)'
<1>1. \A c \in Caller : call[c].pc \in {"idle", "done"}
  BY DEF Boot, ListEnabled, RegisterListed, Alone, IsCalling
<1>2. call' = call /\ row' = row /\ stored' = stored
  BY DEF Boot, ListEnabled, RegisterListed
<1>3. Alone'
  BY <1>1, <1>2 DEF Alone, IsCalling
<1>4. TypeOK
  BY DEF Shape
<1>5. CASE ListEnabled
  <2>1. \A s \in Sched : Exists(s) => ConfigOf(s) \in Config /\ ConfigOf(s) # None
    BY <1>4, StoredRows, ConstantsAssumption DEF ConfigOf, Row, Config
  <2>2. /\ boot = "list" /\ boot' = "register" /\ active' = active
        /\ \A s \in Sched : listed'[s] = IF Exists(s) /\ row[s].enabled
                                          THEN ConfigOf(s) ELSE None
    BY <1>5 DEF ListEnabled
  <2>3. \A s \in Sched : IF listed'[s] = None THEN Exists(s) => ~row[s].enabled
                         ELSE Exists(s) /\ listed'[s] = ConfigOf(s) /\ row[s].enabled
    BY <2>1, <2>2
  <2>4. BootFits'
    BY <1>2, <2>2, <2>3 DEF BootFits, IsCurrent, Exists, ConfigOf
  <2> QED
    BY <1>1, <1>2, <1>3, <2>2, <2>4 DEF RegistryFits, CallAt
<1>6. CASE RegisterListed
  <2>1. /\ boot = "register" /\ boot' = "up"
        /\ \A s \in Sched : active'[s] = IF listed[s] # None THEN Registered(listed[s])
                                          ELSE active[s]
    BY <1>6 DEF RegisterListed
  <2>2. ASSUME NEW s \in Sched
        PROVE  Mirrors(s)'
    <3>1. CASE listed[s] = None
      <4>1. active'[s] = None /\ (Exists(s) => ~row[s].enabled)
        BY <2>1, <3>1 DEF BootFits
      <4> QED
        BY <1>2, <4>1 DEF Mirrors, Exists
    <3>2. CASE listed[s] # None
      <4>1. listed[s] \in Config /\ IsCurrent(s, listed[s]) /\ listed[s].enabled
        BY <1>4, <2>1, <3>2 DEF BootFits, TypeOK
      <4>2. active'[s] = Registered(listed[s]) /\ Registered(listed[s]) \in Entry
        BY <2>1, <3>2, <4>1, ConstantsAssumption DEF Registered, Config, Entry
      <4>3. active'[s] # None /\ active'[s].wf = listed[s].wf /\ active'[s].cron = listed[s].cron
        BY <4>2, ConstantsAssumption DEF Registered
      <4>4. CASE Exists(s)
        BY <1>2, <4>1, <4>3, <4>4 DEF IsCurrent, ConfigOf, Mirrors, Exists
      <4>5. CASE ~Exists(s)
        BY <1>2, <4>1, <4>3, <4>5 DEF IsCurrent, Mirrors, Exists
      <4> QED
        BY <4>4, <4>5
    <3> QED
      BY <3>1, <3>2
  <2> QED
    BY <1>1, <1>2, <1>3, <2>1, <2>2 DEF RegistryFits, BootFits, CallAt
<1> QED
  BY <1>5, <1>6 DEF Boot

\* A deleted workflow takes its schedules along: what is registered or
\* listed for them is of a workflow that is gone.
LEMMA RegistryDeletion ==
    ASSUME Shape, Alone, BootFits, RegistryFits, NEW w \in Workflow, DeleteWorkflow(w)
    PROVE  (Alone /\ BootFits /\ RegistryFits)'
<1>1. /\ UNCHANGED <<active, boot, listed, call>>
      /\ stored' = stored \ {w}
      /\ \A s \in Sched : row'[s] = IF Exists(s) /\ row[s].wf = w THEN Gone ELSE row[s]
  BY DEF DeleteWorkflow, process
<1>2. Gone \notin Row /\ Unborn # Gone
  BY ConstantsAssumption
<1>3. ASSUME NEW s \in Sched
      PROVE  /\ Mirrors(s) => Mirrors(s)'
             /\ \A detail : IsCurrent(s, detail) => IsCurrent(s, detail)'
  <2>1. CASE Exists(s) /\ row[s].wf = w
    <3>1. row'[s] = Gone /\ ~Exists(s)'
      BY <1>1, <2>1 DEF Exists
    <3> QED
      BY <1>1, <2>1, <3>1 DEF Mirrors, IsCurrent, ConfigOf
  <2>2. CASE ~(Exists(s) /\ row[s].wf = w)
    <3>1. row'[s] = row[s]
      BY <1>1, <2>2
    <3> QED
      BY <1>1, <3>1 DEF Mirrors, IsCurrent, ConfigOf, Exists
  <2> QED
    BY <2>1, <2>2
<1>4. Alone'
  BY <1>1 DEF Alone, IsCalling
<1>5. BootFits'
  <2>1. ASSUME NEW s \in Sched, Exists(s)'
        PROVE  Exists(s) /\ row'[s] = row[s]
    BY <1>1, <2>1 DEF Exists
  <2> QED
    BY <1>1, <1>3, <2>1 DEF BootFits
<1>6. \A c \in Caller : CallFits(c)
  BY DEF Shape
<1>7. RegistryFits'
  BY <1>1, <1>3, <1>6 DEF RegistryFits, Pending, CallAt, CallFits
<1> QED
  BY <1>4, <1>5, <1>7

\* A call, alone with the process, moves one schedule from table to registry.
LEMMA RegistryCall ==
    ASSUME Shape, Serial, Alone, BootFits, RegistryFits,
           NEW c \in Caller, Ask(c) \/ Answer(c)
    PROVE  (Alone /\ BootFits /\ RegistryFits)'
<1> USE DEF CallAt, CallGoto, CallOnly
<1>1. CallEffect(c)
  BY CallStepEffect
<1>2. boot = "up" /\ \A o \in Caller \ {c} : call[o].pc \in {"idle", "done"}
  <2>1. CASE Ask(c)
    BY <2>1 DEF Serial, Ask, AskCreate, AskUpdate, AskDelete, MayBegin, IsCalling
  <2>2. CASE Answer(c)
    <3>1. IsCalling(c)
      BY <2>2 DEF IsCalling, Answer, CommitCreate, RegisterCreated, FindForUpdate,
         CommitUpdate, RegisterUpdated, Unregister, CommitDelete, CallFails
    <3> QED
      BY <3>1 DEF Alone, IsCalling
  <2> QED
    BY <2>1, <2>2
<1>3. /\ boot' = "up" /\ stored' = stored
      /\ \A o \in Caller \ {c} : call'[o] = call[o]
      /\ call \in [Caller -> CallType] /\ CallFits(c)
      /\ row \in [Sched -> Row \cup {Unborn, Gone}]
      /\ active \in [Sched -> Entry \cup {None}]
      /\ TypeOK
  BY <1>1, <1>2 DEF CallEffect, Shape, TypeOK, CallType
<1>4. Alone' /\ BootFits'
  BY <1>2, <1>3 DEF Alone, BootFits, IsCalling
<1> SUFFICES RegistryFits'
  BY <1>4
<1>5. \A s \in Sched : Mirrors(s) \/ Pending(c, s)
  BY <1>2 DEF RegistryFits, Pending
<1>6. ASSUME \A s \in Sched : Mirrors(s)' \/ Pending(c, s)',
             CallAt(c, "created")' \/ CallAt(c, "delete")'
                 => active'[call'[c].sched] = None,
             CallAt(c, "created")' \/ CallAt(c, "updated")'
                 => IsCurrent(call[c].sched, call[c].detail)'
      PROVE  RegistryFits'
  BY <1>2, <1>3, <1>6 DEF RegistryFits
<1> HIDE DEF CallAt
\* The steps that leave rows and entries alone.
<1>7. ASSUME row' = row, active' = active, ~\E s \in Sched : Pending(c, s),
             call'[c].pc \notin {"created", "updated", "delete"}
      PROVE  RegistryFits'
  <2>1. \A s \in Sched : Mirrors(s)'
    BY <1>3, <1>5, <1>7 DEF Mirrors, Exists
  <2> QED
    BY <1>6, <1>7, <2>1 DEF CallAt
<1>8. CASE Ask(c)
  <2>1. row' = row /\ active' = active /\ call[c].pc = "idle"
          /\ call'[c].pc \in {"create", "find", "findDelete"}
    BY <1>3, <1>8 DEF Ask, AskCreate, AskUpdate, AskDelete, MayBegin, CallType, CallAt
  <2> QED
    BY <1>7, <2>1 DEF Pending
<1>9. CASE FindForUpdate(c)
  <2>1. row' = row /\ active' = active /\ call[c].pc = "find"
          /\ call'[c].pc \in {"update", "done"}
    BY <1>3, <1>9 DEF FindForUpdate, CallType, CallAt
  <2> QED
    BY <1>7, <2>1 DEF Pending
<1>10. CASE CommitCreate(c)
  <2> PICK detail : detail = call[c].detail
    OBVIOUS
  <2> DEFINE new == [wf |-> detail.wf, cron |-> detail.cron,
                     enabled |-> detail.enabled, lastRun |-> None, lastStatus |-> None]
  <2>1. PICK s \in Sched :
           /\ row[s] = Unborn
           /\ row' = [row EXCEPT ![s] = new]
           /\ call' = [call EXCEPT ![c].pc = "created", ![c].sched = s]
    BY <1>10 DEF CommitCreate
  <2>2. call[c].pc = "create" /\ detail \in Config /\ active' = active
    BY <1>3, <1>10 DEF CommitCreate, CallAt, CallFits
  <2>3. call'[c].pc = "created" /\ call'[c].sched = s /\ call'[c].detail = detail
    BY <1>3, <2>1 DEF CallType
  <2>4. \A t \in Sched : Mirrors(t)
    BY <1>5, <2>2 DEF Pending
  <2>5. active[s] = None
    BY <2>1, <2>4, ConstantsAssumption DEF Mirrors, Exists
  <2>6. row'[s] = new /\ \A t \in Sched \ {s} : row'[t] = row[t]
    BY <1>3, <2>1
  <2>7. new \in Row /\ new.wf = detail.wf /\ new.cron = detail.cron /\ new.enabled = detail.enabled
    BY <2>2 DEF Config, Row
  <2>8. Exists(s)'
    BY <2>6, <2>7, ConstantsAssumption DEF Exists
  <2>9. detail = [wf |-> detail.wf, cron |-> detail.cron, enabled |-> detail.enabled]
    BY <2>2 DEF Config
  <2> HIDE DEF new
  <2>10. IsCurrent(s, detail)'
    BY <2>6, <2>7, <2>8, <2>9 DEF IsCurrent, ConfigOf
  <2>11. \A t \in Sched \ {s} : Mirrors(t)'
    BY <1>3, <2>2, <2>4, <2>6 DEF Mirrors, Exists
  <2>12. \A t \in Sched : Mirrors(t)' \/ Pending(c, t)'
    BY <2>3, <2>11 DEF Pending
  <2>13. active'[call'[c].sched] = None
    BY <2>2, <2>3, <2>5
  <2>14. IsCurrent(call[c].sched, call[c].detail)'
    BY <2>3, <2>10
  <2> QED
    BY <1>6, <2>12, <2>13, <2>14
<1>11. CASE CommitUpdate(c)
  <2> PICK s, change : s = call[c].sched /\ change = call[c].change
    OBVIOUS
  <2> DEFINE new == [wf      |-> Kept(row[s].wf, change.wf),
                     cron    |-> Kept(row[s].cron, change.cron),
                     enabled |-> Kept(row[s].enabled, change.enabled)]
  <2>1. s \in Sched /\ change \in Change /\ row[s] \in Row /\ call[c].pc = "update"
    BY <1>3, <1>11, ConstantsAssumption, StoredRows DEF CallFits, CommitUpdate, CallAt
  <2>2. new \in Config
    BY <2>1 DEF Kept, Config, Row, Change
  <2>3. /\ row' = [row EXCEPT ![s].wf = new.wf, ![s].cron = new.cron,
                              ![s].enabled = new.enabled]
        /\ call' = [call EXCEPT ![c].pc = "updated", ![c].detail = new]
        /\ active' = active
    BY <1>11 DEF CommitUpdate
  <2> HIDE DEF new
  <2>4. row'[s] \in Row /\ row'[s].wf = new.wf /\ row'[s].cron = new.cron
          /\ row'[s].enabled = new.enabled
    BY <1>3, <2>1, <2>2, <2>3 DEF Row, Config
  <2>5. \A t \in Sched \ {s} : row'[t] = row[t]
    BY <1>3, <2>1, <2>3
  <2>6. call'[c].pc = "updated" /\ call'[c].sched = s /\ call'[c].detail = new
    BY <1>3, <2>3 DEF CallType
  <2>7. \A t \in Sched : Mirrors(t)
    BY <1>5, <2>1 DEF Pending
  <2>8. \A t \in Sched \ {s} : Mirrors(t)'
    BY <1>3, <2>3, <2>5, <2>7 DEF Mirrors, Exists
  <2>9. Exists(s)' /\ new = [wf |-> new.wf, cron |-> new.cron, enabled |-> new.enabled]
    BY <2>2, <2>4, ConstantsAssumption DEF Exists, Config
  <2>10. IsCurrent(call[c].sched, call[c].detail)'
    BY <2>4, <2>6, <2>9 DEF IsCurrent, ConfigOf, Exists
  <2>11. \A t \in Sched : Mirrors(t)' \/ Pending(c, t)'
    BY <2>6, <2>8 DEF Pending
  <2> QED
    BY <1>6, <2>6, <2>10, <2>11 DEF CallAt
<1>12. CASE RegisterCreated(c) \/ RegisterUpdated(c)
  <2> PICK s, detail : s = call[c].sched /\ detail = call[c].detail
    OBVIOUS
  <2>1. s \in Sched /\ detail \in Config /\ call[c].pc \in {"created", "updated"}
          /\ row' = row /\ call'[c].pc = "done"
    BY <1>3, <1>12 DEF RegisterCreated, RegisterUpdated, CallFits, CallType, CallAt
  <2>2. IsCurrent(s, detail)
    BY <2>1 DEF RegistryFits, CallAt
  <2>3. Registered(detail) # None /\ Registered(detail).wf = detail.wf
          /\ Registered(detail).cron = detail.cron
    <3>1. Registered(detail) \in Entry
      BY <2>1, ConstantsAssumption DEF Registered, Config, Entry
    <3> QED
      BY <3>1, ConstantsAssumption DEF Registered
  <2>4. /\ active'[s] = IF detail.enabled THEN Registered(detail) ELSE None
        /\ \A t \in Sched \ {s} : active'[t] = active[t]
    <3>1. CASE RegisterCreated(c)
      <4>1. active[s] = None
        BY <3>1 DEF RegistryFits, RegisterCreated
      <4> QED
        BY <1>3, <2>1, <3>1, <4>1 DEF RegisterCreated
    <3>2. CASE RegisterUpdated(c)
      BY <1>3, <2>1, <3>2 DEF RegisterUpdated
    <3> QED
      BY <1>12, <3>1, <3>2
  <2>5. Mirrors(s)'
    BY <1>3, <2>1, <2>2, <2>3, <2>4 DEF Mirrors, IsCurrent, ConfigOf, Exists
  <2>6. \A t \in Sched \ {s} : Mirrors(t)
    BY <1>5 DEF Pending
  <2>7. \A t \in Sched \ {s} : Mirrors(t)'
    BY <1>3, <2>1, <2>4, <2>6 DEF Mirrors, Exists
  <2> QED
    BY <1>6, <2>1, <2>5, <2>7 DEF CallAt
<1>13. CASE Unregister(c)
  <2> PICK s : s = call[c].sched
    OBVIOUS
  <2>1. s \in Sched /\ call[c].pc = "findDelete" /\ row' = row
    BY <1>3, <1>13 DEF Unregister, CallFits, CallAt
  <2>2. \A t \in Sched : Mirrors(t)
    BY <1>5, <2>1 DEF Pending
  <2>3. CASE Exists(s)
    <3>1. /\ active'[s] = None /\ \A t \in Sched \ {s} : active'[t] = active[t]
          /\ call'[c].pc = "delete" /\ call'[c].sched = s
      BY <1>3, <1>13, <2>1, <2>3 DEF Unregister, CallType
    <3>2. \A t \in Sched \ {s} : Mirrors(t)'
      BY <1>3, <2>1, <2>2, <3>1 DEF Mirrors, Exists
    <3> QED
      BY <1>6, <3>1, <3>2 DEF Pending, CallAt
  <2>4. CASE ~Exists(s)
    <3>1. active' = active /\ call'[c].pc = "done"
      BY <1>3, <1>13, <2>1, <2>4 DEF Unregister, CallType
    <3> QED
      BY <1>7, <2>1, <3>1 DEF Pending
  <2> QED
    BY <2>3, <2>4
<1>14. CASE CommitDelete(c)
  <2> PICK s : s = call[c].sched
    OBVIOUS
  <2>1. s \in Sched /\ call[c].pc = "delete" /\ active' = active /\ active[s] = None
    BY <1>3, <1>14 DEF CommitDelete, CallFits, CallAt, RegistryFits
  <2>2. /\ row'[s] = Gone /\ \A t \in Sched \ {s} : row'[t] = row[t]
        /\ call'[c].pc = "done"
    BY <1>3, <1>14, <2>1 DEF CommitDelete, CallType
  <2>3. \A t \in Sched \ {s} : Mirrors(t)
    BY <1>5 DEF Pending
  <2>4. \A t \in Sched \ {s} : Mirrors(t)'
    BY <1>3, <2>1, <2>2, <2>3 DEF Mirrors, Exists
  <2>5. Mirrors(s)'
    BY <2>1, <2>2 DEF Mirrors, Exists
  <2> QED
    BY <1>6, <2>2, <2>4, <2>5 DEF CallAt
<1>15. CASE CallFails(c)
  <2>1. row' = row /\ active' = active /\ call'[c].pc = "done"
    BY <1>3, <1>15 DEF CallFails, CallType
  <2>2. CASE call[c].pc = "delete"
    <3> PICK s : s = call[c].sched
      OBVIOUS
    <3>1. s \in Sched /\ active[s] = None /\ ~Exists(s)
      BY <1>3, <1>15, <2>2 DEF CallFails, CallFits, CallAt, RegistryFits, Serial
    <3>2. \A t \in Sched : Mirrors(t)
      BY <1>5, <3>1 DEF Pending, Mirrors
    <3>3. \A t \in Sched : Mirrors(t)'
      BY <1>3, <2>1, <3>2 DEF Mirrors, Exists
    <3> QED
      BY <1>6, <2>1, <3>3 DEF CallAt
  <2>3. CASE call[c].pc \in {"create", "update"}
    BY <1>7, <2>1, <2>3 DEF Pending
  <2> QED
    BY <1>15, <2>2, <2>3 DEF CallFails, CallAt
<1> QED
  BY <1>8, <1>9, <1>10, <1>11, <1>12, <1>13, <1>14, <1>15 DEF Answer

\* Every step keeps the registry fitting.
LEMMA RegistryNext == Shape /\ RegistryInv /\ [Next]_vars => RegistryInv'
<1> SUFFICES ASSUME Shape, Serial, Alone, BootFits, RegistryFits, [Next]_vars
             PROVE  (Alone /\ BootFits /\ RegistryFits)'
  BY DEF RegistryInv
<1>1. Shape' /\ TypeOK'
  BY ShapeNext DEF Shape
<1>2. ASSUME NewProcess
      PROVE  (Alone /\ BootFits /\ RegistryFits)'
  <2>1. \A c \in Caller : call'[c].pc \in {"idle", "done"}
    <3> TAKE c \in Caller
    <3>1. call[c] \in CallType
      BY DEF Shape, TypeOK, CallType
    <3> QED
      BY <1>2, <3>1 DEF NewProcess, CallType
  <2> QED
    BY <1>2, <2>1, RegistryAtStart DEF NewProcess
<1>3. CASE \E f \in Fire : FireStep(f)
  <2> PICK f \in Fire : FireStep(f)
    BY <1>3
  <2>1. CASE FireEffect(f)
    BY <1>1, <2>1, RegistrySame DEF FireEffect
  <2> QED
    BY <1>2, <2>1, FireStepEffect
<1>4. CASE NextMinute \/ UNCHANGED vars
  <2>1. UNCHANGED <<stored, row, active, boot, listed, call>>
    BY <1>4 DEF NextMinute, vars, process
  <2> QED
    BY <1>1, <2>1, RegistrySame DEF SameConfigs
<1>5. CASE Tick
  BY <1>5, RegistryTick, TickStepEffect
<1> QED
  BY <1>2, <1>3, <1>4, <1>5, RegistryBoot, RegistryCall, RegistryDeletion
  DEF Next, Clock, Restart

\* Once started and with no call under way, the registry is what the table
\* says, through failing statements, restarts and deleted workflows: for any
\* number of schedules and calls, as long as calls do not overlap and no
\* deletion throws.
THEOREM RegistryIsMirror == Spec => [](Serial => RegistryMirrorsTable)
<1>1. Shape /\ RegistryInv => (Serial => RegistryMirrorsTable)
  BY DEF RegistryInv, RegistryFits, RegistryMirrorsTable, IsQuiet, IsCalling, Pending
<1> QED
  BY <1>1, RegistryInit, RegistryNext, ShapeHolds, PTL DEF Spec

----------------------------------------------------------------------------
(* One fire a minute. *)

FireParts == stored = Workflow /\ Alone /\ UnbornIsNew /\ CreatedIsNew
             /\ LastFiredFits /\ OncePerMinute

\* Nothing has fired at the start.
LEMMA FireInit == Init => FireInv
<1> SUFFICES ASSUME Init PROVE FireParts
  BY DEF FireInv, FireParts
<1>1. /\ \A c \in Caller : call[c].pc = "idle"
      /\ \A f \in Fire : fire[f].pc = "idle"
  BY DEF Init, NewCall, NewFire
<1> QED
  BY <1>1 DEF Init, FireParts, Alone, UnbornIsNew, CreatedIsNew, LastFiredFits,
     OncePerMinute, IsCalling, CallAt, FireAt

\* Steps that leave the minute of every fire, and its entry, alone.
LEMMA FireSame ==
    ASSUME Shape, FireParts, SameConfigs,
           UNCHANGED <<minute, stored, active, boot, listed, call>>,
           \A f \in Fire : /\ fire'[f].pc = "idle" <=> fire[f].pc = "idle"
                          /\ fire'[f].sched = fire[f].sched
                          /\ fire'[f].minute = fire[f].minute
    PROVE  FireParts'
<1>1. stored' = Workflow /\ Alone'
  BY DEF FireParts, Alone, IsCalling
<1>2. \A s \in Sched : row'[s] = Unborn => row[s] = Unborn
  BY ConstantsAssumption DEF Shape, TypeOK, SameConfigs
<1>3. UnbornIsNew'
  BY <1>2 DEF FireParts, UnbornIsNew, FireAt
<1>4. OncePerMinute'
  BY DEF FireParts, OncePerMinute, FireAt
<1>6. CreatedIsNew'
  <2>1. \A c \in Caller : CallAt(c, "created") => call[c].sched \in Sched
    BY DEF Shape, CallFits, CallAt
  <2> QED
    BY <1>2, <2>1 DEF FireParts, CreatedIsNew, FireAt, CallAt
<1>5. LastFiredFits'
  BY DEF FireParts, LastFiredFits, FireAt
<1> QED
  BY <1>1, <1>3, <1>4, <1>5, <1>6 DEF FireParts

\* The fires of an earlier minute do not count any more.
LEMMA FireMinute ==
    ASSUME Shape, FireParts, NextMinute
    PROVE  FireParts'
<1>1. /\ minute \in Nat /\ minute' = minute + 1
      /\ \A f \in Fire : fire[f].minute \in Nat
  BY ConstantsAssumption DEF Shape, TypeOK, NextMinute
<1>2. UNCHANGED <<stored, row, active, boot, listed, call, fire>>
  BY DEF NextMinute, process
<1>3. LastFiredFits'
  BY <1>1, <1>2 DEF FireParts, LastFiredFits, FireAt
<1> QED
  BY <1>2, <1>3 DEF FireParts, Alone, UnbornIsNew, CreatedIsNew, OncePerMinute,
     IsCalling, CallAt, FireAt

\* A tick fires only schedules that have not fired in this minute.
LEMMA FireTick ==
    ASSUME Shape, FireParts, TickEffect
    PROVE  FireParts'
<1>1. /\ minute' = minute /\ boot' = "up"
      /\ UNCHANGED <<stored, row, listed, call>>
      /\ minute \in Nat
  BY ConstantsAssumption DEF TickEffect, Shape, TypeOK
<1>2. \A s \in Sched : /\ active'[s] = None <=> active[s] = None
                       /\ IsDue(s) => active[s] # None /\ active[s].lastFired # minute
                                         /\ active'[s].lastFired = minute
                       /\ ~IsDue(s) => active'[s] = active[s]
  BY ConstantsAssumption DEF TickEffect, IsDue
<1>3. \A f \in Fire : \/ fire'[f] = fire[f]
                      \/ /\ fire[f].pc = "idle" /\ fire'[f].pc = "import"
                         /\ fire'[f].sched \in Sched /\ IsDue(fire'[f].sched)
                         /\ fire'[f].minute = minute
  BY DEF TickEffect
<1>4. \A f \in Fire : ~FireAt(f, "idle") => fire[f].sched \in Sched
  BY DEF Shape, FireFits, FireAt
<1>5. stored' = Workflow /\ Alone'
  BY <1>1 DEF FireParts, Alone, IsCalling
<1>6. UnbornIsNew'
  BY <1>1, <1>2, <1>3 DEF FireParts, UnbornIsNew, FireAt
<1>7. CreatedIsNew'
  <2>1. \A c \in Caller : CallAt(c, "created") => call[c].sched \in Sched
    BY DEF Shape, CallFits, CallAt
  <2> QED
    BY <1>1, <1>2, <1>3, <2>1 DEF FireParts, CreatedIsNew, FireAt, CallAt
<1>8. LastFiredFits'
  <2> SUFFICES ASSUME NEW f \in Fire, ~FireAt(f, "idle")'
               PROVE  /\ fire'[f].minute <= minute
                      /\ fire'[f].minute = minute /\ active'[fire'[f].sched] # None
                            => active'[fire'[f].sched].lastFired = minute
    BY <1>1 DEF LastFiredFits
  <2>1. CASE fire'[f] = fire[f]
    <3>1. /\ fire[f].minute <= minute /\ fire[f].sched \in Sched
          /\ fire[f].minute = minute /\ active[fire[f].sched] # None
                => active[fire[f].sched].lastFired = minute
      BY <1>4, <2>1 DEF FireParts, LastFiredFits, FireAt
    <3> QED
      BY <1>2, <2>1, <3>1
  <2>2. CASE fire'[f] # fire[f]
    BY <1>1, <1>2, <1>3, <2>2
  <2> QED
    BY <2>1, <2>2
<1>9. OncePerMinute'
  <2> SUFFICES ASSUME NEW f \in Fire, NEW g \in Fire, f # g,
                      fire'[f].pc # "idle", fire'[g].pc # "idle",
                      fire'[f].sched = fire'[g].sched
               PROVE  fire'[f].minute # fire'[g].minute
    BY DEF OncePerMinute, FireAt
  <2>1. CASE fire'[f] = fire[f] /\ fire'[g] = fire[g]
    BY <2>1 DEF FireParts, OncePerMinute, FireAt
  <2>2. CASE fire'[f] # fire[f] /\ fire'[g] # fire[g]
    BY <2>2 DEF TickEffect
  <2>3. ASSUME NEW h \in Fire, NEW k \in Fire, fire'[h] = fire[h], fire'[k] # fire[k],
               fire'[h].pc # "idle", fire'[h].sched = fire'[k].sched
        PROVE  fire'[h].minute # fire'[k].minute
    <3>1. fire'[k].minute = minute /\ active[fire[h].sched] # None
            /\ active[fire[h].sched].lastFired # minute
      BY <1>2, <1>3, <2>3
    <3>2. fire[h].minute = minute => FALSE
      BY <2>3, <3>1 DEF FireParts, LastFiredFits, FireAt
    <3> QED
      BY <2>3, <3>1, <3>2
  <2> QED
    BY <2>1, <2>2, <2>3
<1> QED
  BY <1>5, <1>6, <1>7, <1>8, <1>9 DEF FireParts

\* The boot comes before any fire.
LEMMA FireBoot ==
    ASSUME Shape, FireParts, Boot
    PROVE  FireParts'
<1>1. /\ \A f \in Fire : fire[f].pc = "idle"
      /\ \A c \in Caller : call[c].pc \in {"idle", "done"}
      /\ UNCHANGED <<stored, row, call, fire>>
  BY DEF Boot, ListEnabled, RegisterListed, FireParts, LastFiredFits, FireAt, Alone, IsCalling
<1>2. UnbornIsNew'
  <2>1. CASE ListEnabled
    BY <1>1, <2>1 DEF ListEnabled, FireParts, UnbornIsNew, Exists, FireAt
  <2>2. CASE RegisterListed
    BY <1>1, <2>2 DEF RegisterListed, FireParts, UnbornIsNew, FireAt
  <2> QED
    BY <2>1, <2>2 DEF Boot
<1> QED
  BY <1>1, <1>2 DEF FireParts, Alone, CreatedIsNew, LastFiredFits, OncePerMinute,
     IsCalling, CallAt, FireAt

\* A call registers, while the process stays up, only what is new.
LEMMA FireCall ==
    ASSUME Shape, FireParts, Steady, NEW c \in Caller, Ask(c) \/ Answer(c)
    PROVE  FireParts'
<1>1. CallEffect(c)
  BY CallStepEffect
<1>2. boot = "up" /\ \A o \in Caller \ {c} : call[o].pc \in {"idle", "done"}
  <2>1. CASE Ask(c)
    BY <2>1 DEF Steady, Ask, AskCreate, AskUpdate, AskDelete, MayBegin, IsCalling
  <2>2. CASE Answer(c)
    <3>1. IsCalling(c)
      BY <2>2 DEF IsCalling, Answer, CommitCreate, RegisterCreated, FindForUpdate,
         CommitUpdate, RegisterUpdated, Unregister, CommitDelete, CallFails, CallAt
    <3> QED
      BY <3>1 DEF FireParts, Alone, IsCalling
  <2> QED
    BY <2>1, <2>2
<1>3. /\ UNCHANGED <<minute, stored, boot, listed, fire>>
      /\ \A o \in Caller \ {c} : call'[o] = call[o]
      /\ call \in [Caller -> CallType] /\ CallFits(c)
      /\ row \in [Sched -> Row \cup {Unborn, Gone}]
      /\ active \in [Sched -> Entry \cup {None}]
      /\ \A f \in Fire : fire[f].pc # "idle" => fire[f].sched \in Sched
  BY <1>1 DEF CallEffect, Shape, TypeOK, CallType, FireFits
<1>4. stored' = Workflow /\ Alone' /\ OncePerMinute'
  BY <1>2, <1>3 DEF FireParts, Alone, OncePerMinute, IsCalling, FireAt
<1>5. ASSUME \A s \in Sched : active'[s] = active[s] \/ active'[s] = None
                 \/ \A f \in Fire : FireAt(f, "idle") \/ fire[f].sched # s
      PROVE  LastFiredFits'
  BY <1>3, <1>5 DEF FireParts, LastFiredFits, FireAt
<1>6. ASSUME \A s \in Sched : row'[s] = Unborn => row[s] = Unborn,
             \A s \in Sched : row'[s] = Unborn => active'[s] = active[s] \/ active'[s] = None
      PROVE  UnbornIsNew'
  BY <1>3, <1>6 DEF FireParts, UnbornIsNew, FireAt
<1>7. ASSUME call'[c].pc # "created" PROVE CreatedIsNew'
  BY <1>2, <1>3, <1>7 DEF CreatedIsNew, CallAt
<1>8. CASE CommitCreate(c)
  <2> DEFINE new == [wf |-> call[c].detail.wf, cron |-> call[c].detail.cron,
                     enabled |-> call[c].detail.enabled, lastRun |-> None, lastStatus |-> None]
  <2>1. PICK s \in Sched :
         /\ row[s] = Unborn
         /\ row' = [row EXCEPT ![s] = new]
         /\ call' = [call EXCEPT ![c].pc = "created", ![c].sched = s]
         /\ active' = active
    BY <1>8 DEF CommitCreate
  <2>2. new # Unborn
    <3>1. call[c].detail \in Config
      BY <1>3, <1>8 DEF CommitCreate, CallAt, CallFits
    <3>2. new \in Row
      BY <3>1 DEF Config, Row
    <3> QED
      BY <3>2, ConstantsAssumption
  <2> HIDE DEF new
  <2>3. call'[c].sched = s /\ row'[s] # Unborn
    BY <1>3, <2>1, <2>2 DEF CallType
  <2>4. CreatedIsNew'
    BY <1>2, <1>3, <2>1, <2>3 DEF FireParts, CreatedIsNew, UnbornIsNew, CallAt, FireAt
  <2>5. \A t \in Sched : row'[t] = Unborn => row[t] = Unborn
    BY <1>3, <2>1
  <2> QED
    BY <1>4, <1>5, <1>6, <2>1, <2>4, <2>5 DEF FireParts
<1>9. CASE RegisterCreated(c)
  <2> PICK s : s = call[c].sched
    OBVIOUS
  <2>1. s \in Sched /\ row' = row /\ call'[c].pc = "done"
          /\ \A t \in Sched \ {s} : active'[t] = active[t]
    BY <1>3, <1>9 DEF RegisterCreated, CallAt, CallGoto, CallFits, CallType
  <2>2. \A f \in Fire : FireAt(f, "idle") \/ fire[f].sched # s
    BY <1>9 DEF FireParts, CreatedIsNew, RegisterCreated
  <2>3. row[s] # Unborn
    BY <1>9, <2>1 DEF FireParts, CreatedIsNew, RegisterCreated
  <2> QED
    BY <1>4, <1>5, <1>6, <1>7, <2>1, <2>2, <2>3 DEF FireParts
<1>10. CASE Unregister(c) \/ CommitDelete(c)
  <2>1. /\ \A s \in Sched : active'[s] = active[s] \/ active'[s] = None
        /\ \A s \in Sched : row'[s] = Unborn => row[s] = Unborn
        /\ call'[c].pc # "created"
    <3>1. CASE Unregister(c)
      BY <1>3, <3>1 DEF Unregister, CallGoto, CallOnly, CallType
    <3>2. CASE CommitDelete(c)
      BY <1>3, <3>2, ConstantsAssumption DEF CommitDelete, CallGoto, CallOnly, CallType
    <3> QED
      BY <1>10, <3>1, <3>2
  <2> QED
    BY <1>4, <1>5, <1>6, <1>7, <2>1 DEF FireParts
<1>11. CASE AskCreate(c) \/ AskUpdate(c) \/ AskDelete(c) \/ CallFails(c)
  <2>1. row' = row /\ active' = active /\ call'[c].pc # "created"
    BY <1>3, <1>11 DEF AskCreate, AskUpdate, AskDelete, CallFails, CallGoto, CallType
  <2> QED
    BY <1>4, <1>5, <1>6, <1>7, <2>1 DEF FireParts
<1>12. ~FindForUpdate(c) /\ ~CommitUpdate(c) /\ ~RegisterUpdated(c)
  BY <1>3 DEF Steady, CallFits, FindForUpdate, CommitUpdate, RegisterUpdated, CallAt
<1> QED
  BY <1>8, <1>9, <1>10, <1>11, <1>12 DEF Ask, Answer

\* Every step keeps the fires of one schedule in different minutes.
LEMMA FireNext == Shape /\ FireInv /\ [Next]_vars => FireInv'
<1> SUFFICES ASSUME Shape, Steady, FireParts, [Next]_vars
             PROVE  FireParts'
  BY DEF FireInv, FireParts
<1>1. ~Restart /\ ~\E w \in Workflow : DeleteWorkflow(w)
  BY DEF Steady, Restart, DeleteWorkflow
<1>2. CASE \E f \in Fire : FireStep(f)
  <2> PICK f \in Fire : FireStep(f)
    BY <1>2
  <2>1. fire[f].pc # "idle"
    <3>1. fire[f].pc = "idle" => fire[f].outcome = None
      BY DEF Shape, FireFits, NewFire
    <3>2. None # "running"
      BY ConstantsAssumption
    <3> QED
      BY <3>1, <3>2 DEF FireStep, Begin, RunStarts, RunFailsToStart, RecordRun, RecordFails,
         ReportError, RunEnds, RunRejects, SettleRun, SettleFails, FireAt
  <2>2. ~RunRejects(f)
    BY <2>1 DEF RunRejects, Steady, FireParts, Shape, FireFits
  <2>3. FireEffect(f)
    BY <2>2, FireStepEffect
  <2> QED
    BY <2>1, <2>3, FireSame DEF FireEffect
<1>3. CASE UNCHANGED vars
  BY <1>3, FireSame DEF vars, process, SameConfigs
<1> QED
  BY <1>1, <1>2, <1>3, FireMinute, FireTick, TickStepEffect, FireBoot, FireCall
  DEF Next, Clock

\* However many ticks a minute has, and however many schedules are created
\* and deleted between them, none fires twice in it, as long as the process
\* stays up and no schedule is updated: both forget lastFiredMinute.
THEOREM FiresOncePerMinute == Spec => [](Steady => NoDoubleFire)
<1>1. Shape /\ FireInv => (Steady => NoDoubleFire)
  <2> SUFFICES ASSUME Shape, FireParts PROVE NoDoubleFire
    BY DEF FireInv, FireParts
  <2>1. \A f \in Fire : fire[f].sched # None => ~FireAt(f, "idle")
    BY DEF Shape, FireFits, NewFire, FireAt
  <2> QED
    BY <2>1 DEF FireParts, OncePerMinute, NoDoubleFire
<1> QED
  BY <1>1, FireInit, FireNext, ShapeHolds, PTL DEF Spec

=============================================================================
