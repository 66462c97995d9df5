-------------------------- MODULE MCScheduleEngine --------------------------
(****************************************************************************)
(* Small instances of ScheduleEngine for TLC.                               *)
(****************************************************************************)
EXTENDS ScheduleEngine, TLC

CONSTANTS w1, w2, s1, s2

Always == 1..Minutes

NewRow(w, cron, enabled) ==
    [wf |-> w, cron |-> cron, enabled |-> enabled, lastRun |-> None, lastStatus |-> None]

OneStored == (s1 :> NewRow(w1, Always, TRUE)) @@ (s2 :> Unborn)

\* Every minute, or the last one only.
TwoCrons == {Always, {Minutes}}
OneCron  == {Always}

\* Enable, disable, move to the other workflow, change the expression.
SomeUpdates ==
    {[wf |-> Keep, cron |-> Keep, enabled |-> TRUE],
     [wf |-> Keep, cron |-> Keep, enabled |-> FALSE]}
        \cup {[wf |-> w, cron |-> {Minutes}, enabled |-> Keep] : w \in Workflow \ {w1}}
NoUpdates == {}
============================================================================
