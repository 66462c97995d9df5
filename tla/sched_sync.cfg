\* Two calls one after the other, restarts, failing statements and the
\* deletion of workflows.  Calls and fires run out: no deadlock check.
CONSTANTS
    w1 = w1  w2 = w2  s1 = s1  s2 = s2
    None = None
    Keep = Keep
    Unborn = Unborn
    Gone = Gone
    Workflow = {w1, w2}
    Sched = {s1, s2}
    Caller = {c1, c2}
    Fire = {f1}
    Minutes = 2
    Crons <- TwoCrons
    Initial <- OneStored
    Updates <- SomeUpdates
    Faults = {"create", "update", "record", "settle", "run"}
    Overlap = FALSE
    Deletions = TRUE
    Crashes = TRUE
SPECIFICATION Spec
INVARIANTS
    RegistryMirrorsTable
CHECK_DEADLOCK FALSE
