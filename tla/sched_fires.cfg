\* Three fires of two schedules of one workflow, with creations and deletions
\* while they run.  Calls and fires run out: no deadlock check.
CONSTANTS
    w1 = w1  w2 = w2  s1 = s1  s2 = s2
    None = None
    Keep = Keep
    Unborn = Unborn
    Gone = Gone
    Workflow = {w1}
    Sched = {s1, s2}
    Caller = {c1, c2}
    Fire = {f1, f2, f3}
    Minutes = 2
    Crons <- OneCron
    Initial <- OneStored
    Updates <- NoUpdates
    Faults = {}
    Overlap = FALSE
    Deletions = FALSE
    Crashes = FALSE
SPECIFICATION FairSpec
INVARIANTS
    NoDoubleFire
PROPERTIES
    RunningStatusSettles
CHECK_DEADLOCK FALSE
