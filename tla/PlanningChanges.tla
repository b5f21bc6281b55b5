------------------------------ MODULE PlanningChanges ------------------------------
(***************************************************************************)
(* The changes people make to demand, supply, rules and coverage, each     *)
(* with the refresh jobs it enqueues in its own transaction.               *)
(***************************************************************************)
EXTENDS PlanningTables

Change ==
  /\ budget.changes < MaxChanges
  /\ budget' = [budget EXCEPT !.changes = @ + 1]

\* One pending job for each of the sources at its version; none when the
\* rule is off.  The job of the source the event itself changed is direct.
Queued(versions, r, event, changed, targets) ==
  IF Authorized(r)
  THEN {[source |-> s, version |-> versions[s], rule |-> r.rev, event |-> event,
         direct |-> s \in changed, status |-> "pending", attempts |-> 0, ended |-> 0] : s \in targets}
  ELSE {}

\* What a worker would leave out under the rule's lock: sources with a pending job.
Queued_Coalesced(versions, r, event, changed, targets) ==
  Queued(versions, r, event, changed,
    {s \in targets : ~\E j \in jobs : j.source = s /\ j.status = "pending"
                                      /\ j.version = versions[s] /\ j.rule = r.rev})

\* Fault: an ordinary event reuses them without the rule's lock.
Announce_Coalesced(versions, r, changed) ==
  /\ clock' = clock + 1
  /\ jobs' = jobs \cup Queued_Coalesced(versions, r, clock + 1, changed, Population(versions))

\* enqueue_refresh of an ordinary event: every source.
Announce(versions, r, changed) ==
  /\ clock' = clock + 1
  /\ jobs' = jobs \cup Queued(versions, r, clock + 1, changed, Population(versions))

\* The event changes what drafts are made from.
Reshape == world' = clock + 1

\* save_plan, revise_commercial and revise_assumptions; the expected version
\* is the one they find under the plan's lock.
SavePlan(p) ==
  /\ Change
  /\ SourceFree(p)
  /\ latest' = [latest EXCEPT ![p] = @ + 1]
  /\ plan_jobs' = plan_jobs \cup
       {[plan |-> p, version |-> latest[p] + 1, status |-> "pending", attempts |-> 0]}
  /\ Reshape
  /\ Announce(latest', rule, {p})
  /\ UNCHANGED <<published, ruleVars, draft, writing>>

\* A release creates its project and, whoever released it, enqueues under the
\* rule of the project's source.
CreateProject(q) ==
  /\ Change
  /\ latest[q] = 0
  /\ latest' = [latest EXCEPT ![q] = 1]
  /\ Reshape
  /\ Announce(latest', rule, {q})
  /\ UNCHANGED <<published, ruleVars, draft, writing, plan_jobs>>

\* publish_plan_demand and publish_project_demand by a person: also again for
\* the same version, with other enrichments.
Publish(s) ==
  /\ Change
  /\ SourceFree(s) /\ latest[s] > 0
  /\ published' = [published EXCEPT ![s] = latest[s]]
  /\ Reshape
  /\ Announce(latest, rule, {})
  /\ UNCHANGED <<latest, ruleVars, draft, writing, plan_jobs>>

ImportSupply ==
  /\ Change
  /\ Reshape
  /\ Announce(latest, rule, {})
  /\ UNCHANGED <<latest, published, ruleVars, draft, writing, plan_jobs>>

\* Coverage of a project's demand by a plan's, or its removal; only a removal
\* may find that their published demand is no longer current.
SaveCoverage(p, q) ==
  /\ Change
  /\ \A s \in {p, q} : SourceFree(s) /\ published[s] > 0
  /\ Reshape
  /\ Announce(latest, rule, {})
  /\ UNCHANGED <<latest, published, ruleVars, draft, writing, plan_jobs>>

SaveLeadRules ==
  /\ Change
  /\ LeadRulesFree
  /\ leadRules' = leadRules + 1
  /\ Announce(latest, rule, {})
  /\ UNCHANGED <<latest, published, world, rule, draft, writing, plan_jobs>>

SaveRule(on) ==
  /\ Change
  /\ RuleFree
  /\ rule' = [rev |-> rule.rev + 1, enabled |-> on, admin |-> TRUE, since |-> 0]
  /\ Announce(latest, rule', {})
  /\ UNCHANGED <<latest, published, world, leadRules, draft, writing, plan_jobs>>

\* The rule's author leaves the administrators; nothing is enqueued.
RevokeAuthor ==
  /\ Change
  /\ rule.admin
  /\ rule' = [rule EXCEPT !.admin = FALSE]
  /\ UNCHANGED <<sourceVars, leadRules, draft, jobs, writing, plan_jobs>>

\* The author is an administrator again; nothing is enqueued for what was
\* changed in between.  The bound on changes is spent when the role is lost.
RestoreAuthor ==
  /\ Smooth
  /\ ~rule.admin
  /\ rule' = [rule EXCEPT !.admin = TRUE, !.since = clock]
  /\ UNCHANGED <<sourceVars, leadRules, draft, jobs, writing, plan_jobs>>

ChangesNext ==
  \/ \E p \in Plans : SavePlan(p)
  \/ \E q \in Projects : CreateProject(q)
  \/ \E s \in Sources : Publish(s)
  \/ ImportSupply
  \/ \E p \in Plans, q \in Projects : SaveCoverage(p, q)
  \/ SaveLeadRules
  \/ \E on \in BOOLEAN : SaveRule(on)
  \/ RevokeAuthor
  \/ RestoreAuthor
===================================================================================
