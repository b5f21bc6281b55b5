---------------------------------- MODULE Planning ----------------------------------
(***************************************************************************)
(* Demand planning under all of its writers: people, the refresh worker    *)
(* and the schedule worker.                                                *)
(***************************************************************************)
EXTENDS RefreshJobs, PlanSchedules

Next == ChangesNext \/ RefreshNext \/ SchedulesNext

Spec == Init /\ [][Next]_vars

\* Both workers are started again and again, and a request ends.
FairSpec ==
  /\ Spec
  /\ WF_vars(WorkerStep)
  /\ WF_vars(PersonEnds)
  /\ WF_vars(SchedulesNext)

(***************************************************************************)
(* Properties.                                                             *)
(***************************************************************************)

\* A job of this source that will read the population as it is now.
Owed(s) ==
  \E j \in jobs : j.source = s /\ j.version = latest[s] /\ j.rule = rule.rev /\ Open(j)

\* A job of this source ended badly with nothing changed since: people see it.
Flagged(s) == \E j \in jobs : j.source = s /\ j.status \in {"review", "dead"} /\ j.ended = clock

\* The automation is on, and there was an event since its author last regained
\* the role.
Watching == Authorized(rule) /\ clock > rule.since

\* A draft shows the population, or is owed a refresh, or is flagged for people.
AllFollowed == \A s \in Population(latest) : Fresh(s) \/ Owed(s) \/ Flagged(s)

\* While the automation watches, no change is lost, whoever made it and whatever
\* was being refreshed at that moment.  What was changed while the author was no
\* administrator is caught up by the next event, and not before.
NoChangeLost == Watching => AllFollowed

\* A draft is stored only for demand that is published, current, and under the
\* lead-time rules in force, although these are read earlier.
DraftsFitDemand ==
  [][\A s \in Sources : draft'[s] # draft[s] =>
       published'[s] = latest'[s] /\ draft'[s].rules = leadRules']_vars

\* Once a rule is switched off or replaced, no job of it has an effect, also
\* not the one that was running.
DisabledStops ==
  [][\A j \in jobs \ jobs' : draft' # draft => rule'.enabled /\ rule'.rev = j.rule]_vars

\* The queue runs dry for good once people stop changing: no job is tried for
\* ever, through failures, deaths of workers and retries.
JobsEnd == <>[](\A j \in jobs : j.status \notin {"pending", "failed"})

\* The latest version of every plan gets its schedule or is given up visibly.
SchedulesSettle ==
  <>[](\A p \in Plans : latest[p] > 0 =>
         \E k \in plan_jobs : k.plan = p /\ k.version = latest[p] /\ k.status \in {"done", "dead"})

(***************************************************************************)
(* What the code does not do.                                              *)
(***************************************************************************)

\* Under an authorized rule every stale draft is followed, also one that became
\* stale while the author was no administrator: nothing is enqueued when the
\* role comes back (admin_users.patch_user_groups, user_provisioning).
NeverStale == Authorized(rule) => AllFollowed
===================================================================================
