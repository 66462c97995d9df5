--------------------------- MODULE ScheduleEngine ---------------------------
(****************************************************************************)
(* backend/src/workflow/scheduleEngine.ts and the calls of                  *)
(* schedule.service.ts that keep its in-memory registry and the             *)
(* WorkflowSchedule rows together.                                          *)
(*                                                                          *)
(* As in WorkflowEngine an action is one database statement, or the         *)
(* synchronous code between two awaits.  A fire is one call of              *)
(* executeScheduledWorkflow.  The engine it calls is module WorkflowEngine; *)
(* here only its lock and the outcome of its promise are kept.              *)
(*                                                                          *)
(* A cron expression is the set of minutes it matches in its time zone.     *)
(****************************************************************************)
EXTENDS Naturals

CONSTANTS
    Workflow, Sched, Caller, Fire,
    None,        \* no entry, no run, no status
    Keep,        \* a field an update leaves out
    Unborn,      \* the row of an id not handed out yet
    Gone,        \* the row of a deleted schedule
    Minutes,     \* the clock runs through 1..Minutes
    Crons,       \* the cron expressions used
    Initial,     \* Initial[s]: the row at the first start
    Updates,     \* the updates clients send
    Faults,      \* the statements that may throw
    Overlap,     \* TRUE: a call may begin while another, or the boot, is under way
    Deletions,   \* TRUE: workflows may be deleted
    Crashes      \* TRUE: the process may be restarted

Statements == {"create", "update", "delete", "record", "settle", "run"}

Config == [wf : Workflow, cron : Crons, enabled : BOOLEAN]
Change == [wf : Workflow \cup {Keep}, cron : Crons \cup {Keep},
           enabled : BOOLEAN \cup {Keep}]
Row    == [wf : Workflow, cron : Crons, enabled : BOOLEAN,
           lastRun : Fire \cup {None}, lastStatus : {None, "running", "completed", "failed"}]
Entry  == [wf : Workflow, cron : Crons, lastFired : 0..Minutes]

ASSUME ConstantsAssumption ==
    /\ Minutes \in Nat \ {0}
    /\ Crons \subseteq SUBSET (1..Minutes)
    /\ None \notin Entry \cup Row \cup Config \cup {"running", "completed", "failed", "rejected"}
    /\ {Unborn, Gone} \cap Row = {}
    /\ Unborn # Gone
    /\ Initial \in [Sched -> Row \cup {Unborn}]
    /\ Updates \subseteq Change
    /\ Faults \subseteq Statements
    /\ {Overlap, Deletions, Crashes} \subseteq BOOLEAN

VARIABLES
    minute,      \* the clock, in minutes
    stored,      \* the workflows that exist
    row,         \* row[s]: the WorkflowSchedule row
    active,      \* activeSchedules
    boot,        \* startServer: list, register, then up
    listed,      \* the rows initScheduleEngine got from listEnabledSchedules
    call,        \* call[c]: a client's call of schedule.service
    fire,        \* fire[f]: a call of executeScheduledWorkflow
    executing    \* activeExecutions of executionEngine

process == <<active, boot, listed>>
vars    == <<minute, stored, row, active, boot, listed, call, fire, executing>>

CallPlaces == {"idle", "create", "created", "find", "update", "updated",
               "findDelete", "delete", "done"}
FirePlaces == {"idle", "import", "insert", "record", "wait", "error", "done", "skipped"}
Outcomes   == {None, "running", "completed", "failed", "rejected"}

NewCall == [pc |-> "idle", sched |-> None, change |-> None, detail |-> None]
NewFire == [pc |-> "idle", sched |-> None, wf |-> None, minute |-> 0, outcome |-> None]

Exists(s) == row[s] \notin {Unborn, Gone}

Init ==
    /\ minute = 1
    /\ stored = Workflow
    /\ row = Initial
    /\ active = [s \in Sched |-> None]
    /\ boot = "list"
    /\ listed = [s \in Sched |-> None]
    /\ call = [c \in Caller |-> NewCall]
    /\ fire = [f \in Fire |-> NewFire]
    /\ executing = {}

----------------------------------------------------------------------------
(* initScheduleEngine, at every start of the process.  The HTTP server      *)
(* listens already.                                                         *)

ConfigOf(s) == [wf |-> row[s].wf, cron |-> row[s].cron, enabled |-> row[s].enabled]

Registered(detail) == [wf |-> detail.wf, cron |-> detail.cron, lastFired |-> 0]

ListEnabled ==
    /\ boot = "list"
    /\ listed' = [s \in Sched |->
                     IF Exists(s) /\ row[s].enabled THEN ConfigOf(s) ELSE None]
    /\ boot' = "register"
    /\ UNCHANGED <<minute, stored, row, active, call, fire, executing>>

RegisterListed ==
    /\ boot = "register"
    /\ active' = [s \in Sched |-> IF listed[s] # None THEN Registered(listed[s])
                                  ELSE active[s]]
    /\ boot' = "up"
    /\ UNCHANGED <<minute, stored, row, listed, call, fire, executing>>

\* A run that is under way when the process ends.
Lost(f) == IF fire[f].outcome = "running" THEN "rejected" ELSE fire[f].outcome

\* The process ends, and a new one begins.
NewProcess ==
    /\ active' = [s \in Sched |-> None]
    /\ boot' = "list"
    /\ listed' = [s \in Sched |-> None]
    /\ call' = [c \in Caller |-> IF call[c].pc = "idle" THEN call[c]
                                 ELSE [call[c] EXCEPT !.pc = "done"]]
    /\ fire' = [f \in Fire |-> IF fire[f].pc = "idle" THEN fire[f]
                                ELSE [fire[f] EXCEPT !.pc = "done", !.outcome = Lost(f)]]
    /\ executing' = {}
    /\ UNCHANGED <<minute, stored, row>>

Restart == Crashes /\ NewProcess

----------------------------------------------------------------------------
(* tick. *)

NextMinute ==
    /\ minute < Minutes
    /\ minute' = minute + 1
    /\ UNCHANGED <<stored, row, process, call, fire, executing>>

\* Mutant: lastFiredMinute is not looked at.
MatchesNow(s) ==
    /\ active[s] # None
    /\ minute \in active[s].cron

IsDue(s) ==
    /\ active[s] # None
    /\ active[s].lastFired # minute
    /\ minute \in active[s].cron

\* Every due entry fires, with what it was registered with.  Fires are
\* bounded by Fire.
Tick ==
    LET due  == {s \in Sched : IsDue(s)}
        idle == {f \in Fire : fire[f].pc = "idle"}
        Assignments == {g \in [due -> idle] : \A s, t \in due : g[s] = g[t] => s = t}
        byFire == CHOOSE g \in Assignments : TRUE
    IN  /\ boot = "up" /\ due # {} /\ Assignments # {}
        /\ active' = [s \in Sched |-> IF s \in due
                         THEN [active[s] EXCEPT !.lastFired = minute] ELSE active[s]]
        /\ fire' = [f \in Fire |-> IF \E s \in due : byFire[s] = f
                       THEN LET s == CHOOSE s \in due : byFire[s] = f
                            IN  [NewFire EXCEPT !.pc = "import", !.sched = s,
                                                !.wf = active[s].wf, !.minute = minute]
                       ELSE fire[f]]
        /\ UNCHANGED <<minute, stored, row, boot, listed, call, executing>>

----------------------------------------------------------------------------
(* executeScheduledWorkflow. *)

FireAt(f, pc)     == fire[f].pc = pc
FireGoto(f, pc)   == fire' = [fire EXCEPT ![f].pc = pc]
SetStatus(f, st)  == row' = [row EXCEPT ![fire[f].sched].lastStatus = st]
RowOf(f)          == Exists(fire[f].sched)
FireOnly          == UNCHANGED <<minute, stored, process, call>>

\* executeWorkflow looks at its lock: "already executing" is a skip.
Begin(f) ==
    /\ FireAt(f, "import")
    /\ FireGoto(f, IF fire[f].wf \in executing THEN "skipped" ELSE "insert")
    /\ FireOnly /\ UNCHANGED <<row, executing>>

\* The run is inserted and executeWorkflow resolves.
RunStarts(f) ==
    /\ FireAt(f, "insert") /\ fire[f].wf \in stored
    /\ fire' = [fire EXCEPT ![f].pc = "record", ![f].outcome = "running"]
    /\ executing' = executing \cup {fire[f].wf}
    /\ FireOnly /\ UNCHANGED row

RunFailsToStart(f) ==
    /\ FireAt(f, "insert")
    /\ fire[f].wf \notin stored
    /\ FireGoto(f, "error")
    /\ FireOnly /\ UNCHANGED <<row, executing>>

\* updateLastRun.
RecordRun(f) ==
    /\ FireAt(f, "record") /\ RowOf(f)
    /\ row' = [row EXCEPT ![fire[f].sched].lastRun = f,
                          ![fire[f].sched].lastStatus = "running"]
    /\ FireGoto(f, "wait")
    /\ FireOnly /\ UNCHANGED executing

RecordFails(f) ==
    /\ FireAt(f, "record")
    /\ ~RowOf(f) \/ "record" \in Faults
    /\ FireGoto(f, "error")
    /\ FireOnly /\ UNCHANGED <<row, executing>>

\* The catch: updateLastRunStatus(failed), whatever becomes of it.
ReportError(f) ==
    /\ FireAt(f, "error")
    /\ IF RowOf(f) THEN SetStatus(f, "failed") ELSE UNCHANGED row
    /\ FireGoto(f, "done")
    /\ FireOnly /\ UNCHANGED executing

\* executeNodes ends with a stored status: its promise resolves, also when
\* the status is failed.
RunEnds(f) ==
    /\ fire[f].outcome = "running"
    /\ \E status \in {"completed", "failed"} :
          fire' = [fire EXCEPT ![f].outcome = status]
    /\ executing' = executing \ {fire[f].wf}
    /\ FireOnly /\ UNCHANGED row

\* executeNodes rejects: a statement throws or its rows are gone.  The handler
\* is attached only once the run is recorded; without it Node.js ends the
\* process.
RunRejects(f) ==
    /\ fire[f].outcome = "running"
    /\ fire[f].wf \notin stored \/ "run" \in Faults
    /\ IF FireAt(f, "wait")
       THEN /\ fire' = [fire EXCEPT ![f].outcome = "rejected"]
            /\ executing' = executing \ {fire[f].wf}
            /\ FireOnly /\ UNCHANGED row
       ELSE NewProcess

\* Mutant: nothing is chained to the promise.
Forget(f) ==
    /\ FireAt(f, "wait")
    /\ FireGoto(f, "done")
    /\ FireOnly /\ UNCHANGED <<row, executing>>

\* The then and catch of the promise: updateLastRunStatus.
SettleRun(f) ==
    /\ FireAt(f, "wait") /\ fire[f].outcome # "running"
    /\ IF RowOf(f)
       THEN SetStatus(f, IF fire[f].outcome = "rejected" THEN "failed" ELSE "completed")
       ELSE UNCHANGED row
    /\ FireGoto(f, "done")
    /\ FireOnly /\ UNCHANGED executing

SettleFails(f) ==
    /\ FireAt(f, "wait") /\ fire[f].outcome # "running" /\ "settle" \in Faults
    /\ FireGoto(f, "done")
    /\ FireOnly /\ UNCHANGED <<row, executing>>

----------------------------------------------------------------------------
(* schedule.service. *)

CallAt(c, pc)   == call[c].pc = pc
CallGoto(c, pc) == call' = [call EXCEPT ![c].pc = pc]
CallOnly        == UNCHANGED <<minute, stored, boot, listed, fire, executing>>

IsCalling(c) == call[c].pc \notin {"idle", "done"}

MayBegin(c) ==
    /\ CallAt(c, "idle")
    /\ Overlap \/ (boot = "up" /\ \A o \in Caller : ~IsCalling(o))

AskCreate(c) ==
    /\ MayBegin(c)
    /\ \E detail \in Config :
          call' = [call EXCEPT ![c].pc = "create", ![c].detail = detail]
    /\ CallOnly /\ UNCHANGED <<row, active>>

CommitCreate(c) ==
    /\ CallAt(c, "create") /\ call[c].detail.wf \in stored
    /\ LET new == [wf |-> call[c].detail.wf, cron |-> call[c].detail.cron,
                   enabled |-> call[c].detail.enabled, lastRun |-> None, lastStatus |-> None]
       IN  \E s \in Sched :
              /\ row[s] = Unborn
              /\ row' = [row EXCEPT ![s] = new]
              /\ call' = [call EXCEPT ![c].pc = "created", ![c].sched = s]
    /\ CallOnly /\ UNCHANGED active

RegisterCreated(c) ==
    /\ CallAt(c, "created")
    /\ active' = IF call[c].detail.enabled
                 THEN [active EXCEPT ![call[c].sched] = Registered(call[c].detail)]
                 ELSE active
    /\ CallGoto(c, "done")
    /\ CallOnly /\ UNCHANGED row

AskUpdate(c) ==
    /\ MayBegin(c)
    /\ \E s \in Sched, change \in Updates :
          call' = [call EXCEPT ![c].pc = "find", ![c].sched = s, ![c].change = change]
    /\ CallOnly /\ UNCHANGED <<row, active>>

FindForUpdate(c) ==
    /\ CallAt(c, "find")
    /\ CallGoto(c, IF Exists(call[c].sched) THEN "update" ELSE "done")
    /\ CallOnly /\ UNCHANGED <<row, active>>

Kept(old, new) == IF new = Keep THEN old ELSE new

CommitUpdate(c) ==
    /\ CallAt(c, "update") /\ Exists(call[c].sched)
    /\ LET s == call[c].sched
           change == call[c].change
           new == [wf      |-> Kept(row[s].wf, change.wf),
                   cron    |-> Kept(row[s].cron, change.cron),
                   enabled |-> Kept(row[s].enabled, change.enabled)]
       IN  /\ new.wf \in stored
           /\ row' = [row EXCEPT ![s].wf = new.wf, ![s].cron = new.cron,
                                 ![s].enabled = new.enabled]
           /\ call' = [call EXCEPT ![c].pc = "updated", ![c].detail = new]
    /\ CallOnly /\ UNCHANGED active

\* Mutant: a disabled schedule stays registered.
RegisterUpdatedOnly(c) ==
    /\ CallAt(c, "updated")
    /\ active' = IF call[c].detail.enabled
                 THEN [active EXCEPT ![call[c].sched] = Registered(call[c].detail)]
                 ELSE active
    /\ CallGoto(c, "done")
    /\ CallOnly /\ UNCHANGED row

\* unregisterSchedule, then registerSchedule: lastFiredMinute starts again at 0.
RegisterUpdated(c) ==
    /\ CallAt(c, "updated")
    /\ active' = [active EXCEPT ![call[c].sched] =
                     IF call[c].detail.enabled THEN Registered(call[c].detail) ELSE None]
    /\ CallGoto(c, "done")
    /\ CallOnly /\ UNCHANGED row

AskDelete(c) ==
    /\ MayBegin(c)
    /\ \E s \in Sched : call' = [call EXCEPT ![c].pc = "findDelete", ![c].sched = s]
    /\ CallOnly /\ UNCHANGED <<row, active>>

\* The entry leaves the registry before the row leaves the table.
Unregister(c) ==
    /\ CallAt(c, "findDelete")
    /\ active' = IF Exists(call[c].sched) THEN [active EXCEPT ![call[c].sched] = None]
                 ELSE active
    /\ CallGoto(c, IF Exists(call[c].sched) THEN "delete" ELSE "done")
    /\ CallOnly /\ UNCHANGED row

CommitDelete(c) ==
    /\ CallAt(c, "delete") /\ Exists(call[c].sched)
    /\ row' = [row EXCEPT ![call[c].sched] = Gone]
    /\ CallGoto(c, "done")
    /\ CallOnly /\ UNCHANGED active

\* The statement throws: by a fault, or because a row it needs is gone.
CallFails(c) ==
    /\ \/ CallAt(c, "create") /\ ("create" \in Faults \/ call[c].detail.wf \notin stored)
       \/ CallAt(c, "update") /\ ("update" \in Faults \/ ~Exists(call[c].sched)
                                     \/ call[c].change.wf \in Workflow \ stored)
       \/ CallAt(c, "delete") /\ ("delete" \in Faults \/ ~Exists(call[c].sched))
    /\ CallGoto(c, "done")
    /\ CallOnly /\ UNCHANGED <<row, active>>

\* workflow.service deleteWorkflow: the schedules go by cascade.
DeleteWorkflow(w) ==
    /\ Deletions /\ w \in stored
    /\ stored' = stored \ {w}
    /\ row' = [s \in Sched |-> IF Exists(s) /\ row[s].wf = w THEN Gone ELSE row[s]]
    /\ UNCHANGED <<minute, process, call, fire, executing>>

----------------------------------------------------------------------------

FireStep(f) ==
    \/ Begin(f) \/ RunStarts(f) \/ RunFailsToStart(f)
    \/ RecordRun(f) \/ RecordFails(f) \/ ReportError(f)
    \/ RunEnds(f) \/ RunRejects(f) \/ SettleRun(f) \/ SettleFails(f)

Answer(c) ==
    \/ CommitCreate(c) \/ RegisterCreated(c)
    \/ FindForUpdate(c) \/ CommitUpdate(c) \/ RegisterUpdated(c)
    \/ Unregister(c) \/ CommitDelete(c) \/ CallFails(c)

Ask(c) == AskCreate(c) \/ AskUpdate(c) \/ AskDelete(c)

Clock == NextMinute \/ Tick

Boot == ListEnabled \/ RegisterListed

Next ==
    \/ Clock \/ Boot \/ Restart
    \/ \E f \in Fire : FireStep(f)
    \/ \E c \in Caller : Ask(c) \/ Answer(c)
    \/ \E w \in Workflow : DeleteWorkflow(w)

Spec == Init /\ [][Next]_vars

\* The event loop serves every fire; a run ends in the end, each executor
\* having a timeout or a driver that has one.
Fairness == \A f \in Fire : WF_vars(FireStep(f))

FairSpec == Spec /\ Fairness

----------------------------------------------------------------------------
(* Properties. *)

\* Every variable has its type.
TypeOK ==
    /\ minute \in 1..Minutes
    /\ stored \subseteq Workflow
    /\ row \in [Sched -> Row \cup {Unborn, Gone}]
    /\ active \in [Sched -> Entry \cup {None}]
    /\ boot \in {"list", "register", "up"}
    /\ listed \in [Sched -> Config \cup {None}]
    /\ call \in [Caller -> [pc : CallPlaces, sched : Sched \cup {None},
                            change : Updates \cup {None}, detail : Config \cup {None}]]
    /\ fire \in [Fire -> [pc : FirePlaces, sched : Sched \cup {None},
                          wf : Workflow \cup {None}, minute : 0..Minutes,
                          outcome : Outcomes]]
    /\ executing \subseteq Workflow

Mirrors(s) ==
    IF Exists(s) /\ row[s].enabled
    THEN active[s] # None /\ active[s].wf = row[s].wf /\ active[s].cron = row[s].cron
    ELSE active[s] = None \/ (row[s] = Gone /\ active[s].wf \notin stored)

IsQuiet == boot = "up" /\ \A c \in Caller : ~IsCalling(c)

\* scheduleEngine's registry, once started and with no call under way, is
\* what the table says: the enabled schedules, each with its workflow and its
\* expression, through creations and updates that throw and a restart between
\* the commit of a call and its registration.  Only the deletion of a workflow
\* leaves an entry behind.
RegistryMirrorsTable == IsQuiet => \A s \in Sched : Mirrors(s)

\* scheduleEngine.ts:10: lastFiredMinute is there "to avoid double-fires".
\* However many ticks a minute has, with creations and deletions between
\* them, no schedule fires twice in a minute.
NoDoubleFire ==
    \A f, g \in Fire :
        /\ f # g /\ fire[f].sched # None
        /\ fire[f].sched = fire[g].sched
        => fire[f].minute # fire[g].minute

\* A schedule does not show 'running' for good: the callbacks of overlapping
\* and skipped fires leave the status of a run that ended.
RunningStatusSettles ==
    \A s \in Sched :
        (Exists(s) /\ row[s].lastStatus = "running")
            ~> (~Exists(s) \/ row[s].lastStatus # "running")
=============================================================================
