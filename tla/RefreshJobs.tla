-------------------------------- MODULE RefreshJobs --------------------------------
(***************************************************************************)
(* process_jobs: a worker takes one refresh job at a time, under the       *)
(* automation rule's row, and commits its publication, its draft and the   *)
(* job together.  People prepare drafts by hand and put failed jobs back.  *)
(*                                                                         *)
(* A job that must publish holds the audit chain's lock from then on, so   *)
(* nothing commits between its reading and its commit: one step.  A job    *)
(* whose source is published already reads the population without that     *)
(* lock, and so does a person: between its reading and its commit others   *)
(* commit.  Both hold the row of the lead-time rules, so there is one at a *)
(* time.  A job that must publish while another holds that row deadlocks   *)
(* with it over the audit chain; the database ends one of the two.         *)
(***************************************************************************)
EXTENDS PlanningChanges

\* Fault: the row is added, not changed.
Replaced_Beside(j, S) == jobs \cup S

Replaced(j, S) == (jobs \ {j}) \cup S

\* The queue after job j: what ended well or needs nobody is left out, nothing
\* reads it again.  ended is the event after which the job ended, 0 while it
\* is to be tried again.
After(j, status, time) ==
  Replaced(j,
    IF status \in Kept
    THEN {[j EXCEPT !.status = status, !.attempts = @ + 1, !.ended = IF status = "failed" THEN 0 ELSE time]}
    ELSE {})

\* The worker picks a job that is due: a pending one is, a failed one once its
\* back-off is over.  Direct jobs go first, then the oldest; the jobs of one
\* event have no order.
Precedes(k, j) ==
  \/ k.direct /\ ~j.direct
  \/ k.direct = j.direct /\ k.event < j.event

Due(j) ==
  /\ RuleFree /\ Open(j)
  /\ ~\E k \in jobs : Open(k) /\ k.status = "pending" /\ Precedes(k, j)

\* What _refresh finds before it touches anything.
Verdict(j) ==
  CASE ~rule.enabled -> "disabled"
    [] rule.enabled /\ rule.rev # j.rule -> "obsolete"
    [] rule.enabled /\ rule.rev = j.rule /\ ~rule.admin -> "forbidden"
    [] OTHER -> IF latest[j.source] # j.version THEN "obsolete" ELSE "proceed"

\* The job has nothing to do any more; its source is locked after the rule is
\* checked.
Refuse(j) ==
  /\ Due(j)
  /\ Authorized(rule) /\ rule.rev = j.rule => SourceFree(j.source)
  /\ Verdict(j) # "proceed"
  /\ jobs' = After(j, Verdict(j), clock)
  /\ UNCHANGED <<sourceVars, ruleVars, draft, writing, plan_jobs, budget>>

\* Under the rule's lock a job that is still pending will see this publication.
Waiting(s) ==
  \E j \in jobs : j.source = s /\ j.status = "pending" /\ j.rule = rule.rev /\ j.version = latest[s]

\* The source's demand is not published: publish it, enqueue the other
\* sources, prepare the draft.  An incomplete draft is stored for review.
PublishAndPrepare(j, status) ==
  /\ Due(j) /\ SourceFree(j.source) /\ LeadRulesFree
  /\ Verdict(j) = "proceed" /\ published[j.source] # latest[j.source]
  /\ clock' = clock + 1
  /\ world' = clock + 1
  /\ published' = [published EXCEPT ![j.source] = latest[j.source]]
  /\ draft' = [draft EXCEPT ![j.source] = [world |-> world', rules |-> leadRules]]
  /\ jobs' = After(j, status, clock')
       \cup Queued(latest, rule, clock', {},
              {s \in Population(latest) \ {j.source} : ~Waiting(s)})
  /\ IF status = "review" THEN Fault ELSE Smooth
  /\ UNCHANGED <<latest, ruleVars, writing, plan_jobs>>

\* The source's demand is published: the population is read.
BeginPrepare(j) ==
  /\ Due(j) /\ SourceFree(j.source) /\ LeadRulesFree
  /\ Verdict(j) = "proceed" /\ published[j.source] = latest[j.source]
  /\ writing' = [by |-> "worker", source |-> j.source, event |-> j.event,
                 world |-> world, rules |-> leadRules]
  /\ UNCHANGED <<sourceVars, ruleVars, draft, jobs, plan_jobs, budget>>

InHand(j) == writing.by = "worker" /\ j.source = writing.source /\ j.event = writing.event

StoreDraft ==
  /\ draft' = [draft EXCEPT ![writing.source] = [world |-> writing.world, rules |-> writing.rules]]
  /\ writing' = NoWriting

EndPrepare(j, status) ==
  /\ InHand(j)
  /\ StoreDraft
  /\ jobs' = After(j, status, clock)
  /\ IF status = "review" THEN Fault ELSE Smooth
  /\ UNCHANGED <<sourceVars, ruleVars, plan_jobs>>

\* Fault: the limit is tested one attempt late.
Outcome_Late(j) == IF j.attempts + 1 > MaxAttempts THEN "dead" ELSE "failed"

\* An error undoes what the job did and is counted; one that people must
\* review ends the job, any other does so at the last attempt.  What an
\* administrator's rule could refuse (403, 404) Verdict has found before.
Outcome(j) == IF j.attempts + 1 >= MaxAttempts THEN "dead" ELSE "failed"

Fails(j, status) ==
  /\ InHand(j) \/ (Due(j) /\ SourceFree(j.source) /\ Verdict(j) = "proceed")
  /\ status \in {"review", Outcome(j)}
  /\ jobs' = After(j, status, clock)
  /\ writing' = IF InHand(j) THEN NoWriting ELSE writing
  /\ Fault
  /\ UNCHANGED <<sourceVars, ruleVars, draft, plan_jobs>>

\* An error the worker does not catch, a lost deadlock or a kill: the
\* transaction is rolled back, the attempt with it.
WorkerDies ==
  /\ writing.by = "worker"
  /\ Fault
  /\ writing' = NoWriting
  /\ UNCHANGED <<sourceVars, ruleVars, draft, jobs, plan_jobs>>

\* retry_job: an administrator puts a job back; its attempts stay.
RetryJob(j) ==
  /\ RuleFree
  /\ Authorized(rule) /\ rule.rev = j.rule
  /\ j.status \in {"failed", "review"} /\ j.attempts < MaxAttempts
  /\ budget.retries < MaxRetries
  /\ budget' = [budget EXCEPT !.retries = @ + 1]
  /\ jobs' = Replaced(j, {[j EXCEPT !.status = "pending", !.ended = 0]})
  /\ UNCHANGED <<sourceVars, ruleVars, draft, writing, plan_jobs>>

\* A person prepares a draft from the published demand.
BeginByHand(s) ==
  /\ budget.drafts < MaxDrafts
  /\ LeadRulesFree
  /\ published[s] > 0 /\ published[s] = latest[s]
  /\ writing' = [by |-> "person", source |-> s, event |-> 0, world |-> world, rules |-> leadRules]
  /\ budget' = [budget EXCEPT !.drafts = @ + 1]
  /\ UNCHANGED <<sourceVars, ruleVars, draft, jobs, plan_jobs>>

EndByHand ==
  /\ writing.by = "person"
  /\ StoreDraft
  /\ UNCHANGED <<sourceVars, ruleVars, jobs, plan_jobs, budget>>

\* A refused or aborted request.
LeaveByHand ==
  /\ writing.by = "person"
  /\ writing' = NoWriting
  /\ UNCHANGED <<sourceVars, ruleVars, draft, jobs, plan_jobs, budget>>

WorkerStep ==
  \E j \in jobs :
    \/ Refuse(j)
    \/ \E status \in {"done", "review"} : PublishAndPrepare(j, status) \/ EndPrepare(j, status)
    \/ BeginPrepare(j)
    \/ \E status \in {"review", "failed", "dead"} : Fails(j, status)

PersonEnds == EndByHand \/ LeaveByHand

RefreshNext ==
  \/ WorkerStep
  \/ WorkerDies
  \/ \E j \in jobs : RetryJob(j)
  \/ \E s \in Sources : BeginByHand(s)
  \/ PersonEnds
===================================================================================
