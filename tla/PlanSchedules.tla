------------------------------- MODULE PlanSchedules -------------------------------
(***************************************************************************)
(* process_plan_jobs: the schedule of every plan version, calculated once  *)
(* and only while the version is the plan's latest.  The whole batch is    *)
(* one transaction; it takes the plans' rows one after the other while it  *)
(* holds the audit chain's lock, so a person who saves one of these plans  *)
(* may deadlock with it and one of the two is ended: RunSchedules may      *)
(* always not happen.                                                      *)
(***************************************************************************)
EXTENDS PlanningTables

OpenPlanJobs == {k \in plan_jobs : k.status \in {"pending", "failed"} /\ k.attempts < MaxAttempts}

Superseded(k) == k.version # latest[k.plan]

\* Fault: the limit is tested one attempt late.
Last_Late(k) == k.attempts >= MaxAttempts

Last(k) == k.attempts + 1 >= MaxAttempts

\* The job after its turn; a schedule exists when it is done.
Turned(k, fails) ==
  IF Superseded(k) THEN [k EXCEPT !.status = "obsolete"]
  ELSE [k EXCEPT !.attempts = @ + 1,
          !.status = IF ~fails THEN "done" ELSE IF Last(k) THEN "dead" ELSE "failed"]

\* Failed jobs that are not due yet stay out of the batch; those in bad cannot
\* be calculated.
RunSchedules(batch, bad) ==
  /\ batch # {}
  /\ {k \in OpenPlanJobs : k.status = "pending"} \subseteq batch
  /\ \A k \in batch : SourceFree(k.plan)
  /\ IF bad = {} THEN Smooth ELSE Fault
  /\ plan_jobs' = (plan_jobs \ batch) \cup {Turned(k, k \in bad) : k \in batch}
  /\ UNCHANGED <<sourceVars, ruleVars, draft, jobs, writing>>

SchedulesNext == \E batch \in SUBSET OpenPlanJobs : \E bad \in SUBSET batch : RunSchedules(batch, bad)
===================================================================================
