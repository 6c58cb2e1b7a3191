----------------------------- MODULE DurableJobs -----------------------------
(***************************************************************************)
(* What the processing queue promises to the code that enqueues a job,     *)
(* without rows, leases, workers or time: a submitted job is started at    *)
(* most as often as its allowance permits, is done only when a start that  *)
(* was not superseded ran to its end, and then stays done.                 *)
(***************************************************************************)
EXTENDS Integers

CONSTANTS Jobs, MaxAttempts, Repairs

VARIABLE
    job     \* per job: its phase, the starts it had and may have, and
            \* whether its latest start has run to its end

Phases == {"none", "waiting", "active", "done", "dead"}

New == [phase |-> "none", starts |-> 0, allowance |-> MaxAttempts, ran |-> FALSE]

Init == job = [j \in Jobs |-> New]

Submit(s) == IF s.phase = "none" THEN {[s EXCEPT !.phase = "waiting"]} ELSE {}

\* A start supersedes an active one, given up in the same instant.
Start(s) ==
    IF s.phase \in {"waiting", "active"} /\ s.starts < s.allowance
    THEN {[s EXCEPT !.phase = "active", !.starts = @ + 1, !.ran = FALSE]} ELSE {}

\* The work of a start may end even after the job was given up.
RunToEnd(s) == IF s.starts > 0 THEN {[s EXCEPT !.ran = TRUE]} ELSE {}

Finish(s) ==
    IF s.phase = "active" /\ s.ran THEN {[s EXCEPT !.phase = "done"]} ELSE {}

GiveBack(s) ==
    IF s.phase # "active" THEN {}
    ELSE {[s EXCEPT !.phase = IF s.starts < s.allowance THEN "waiting" ELSE "dead"]}

Extend(s) ==
    IF s.phase = "dead" /\ s.allowance < MaxAttempts + Repairs
    THEN {[s EXCEPT !.allowance = @ + 1]} ELSE {}

Revive(s) ==
    IF s.phase = "dead" /\ s.starts < s.allowance
    THEN {[s EXCEPT !.phase = "waiting"]} ELSE {}

Successors(s) ==
    Submit(s) \cup Start(s) \cup RunToEnd(s) \cup Finish(s)
        \cup GiveBack(s) \cup Extend(s) \cup Revive(s)

\* One transaction of the queue may move several jobs.
Next ==
    /\ DOMAIN job' = Jobs
    /\ \A j \in Jobs : job'[j] \in {job[j]} \cup Successors(job[j])

Spec == Init /\ [][Next]_job
=============================================================================
