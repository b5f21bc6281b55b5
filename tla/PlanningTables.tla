------------------------------ MODULE PlanningTables ------------------------------
(***************************************************************************)
(* Demand planning: the sources of demand (forecast plans and delivery     *)
(* projects) with their published demand, the sourcing drafts prepared     *)
(* from the whole population, and the two job queues that follow a change: *)
(* the schedule of a plan version and the refresh of every source's draft. *)
(*                                                                         *)
(* A draft's watermark is the digest of all sources, supply and coverage.  *)
(* The events that enqueue refreshes are numbered here, and the watermark  *)
(* is the number of the last one that changed any of the three: the audit  *)
(* chain's lock, which every one of them holds from its audit row to its   *)
(* commit, puts them in this order.                                        *)
(***************************************************************************)
EXTENDS Integers, FiniteSets

CONSTANTS
  Plans, Projects,
  Newcomers,    \* sources that do not exist at the start
  MaxChanges,   \* changes people make
  MaxDrafts,    \* drafts people prepare by hand
  MaxRetries,   \* jobs people put back
  MaxAttempts,  \* 5 in the code
  MaxFaults     \* refreshes and schedules that go wrong

Sources == Plans \cup Projects

ASSUME PlanningAssumption ==
  /\ Plans \cap Projects = {} /\ Newcomers \subseteq Sources
  /\ MaxAttempts \in Nat \ {0}
  /\ {MaxChanges, MaxDrafts, MaxRetries, MaxFaults} \subseteq Nat

VARIABLES
  latest,     \* source -> its latest version, 0 before it exists
  published,  \* source -> the version its published demand was made from
  draft,      \* source -> the world and the lead-time rules of its latest draft
  world,      \* the watermark of the population
  leadRules,  \* revision of the sourcing lead-time rules
  rule,       \* the latest AutomationRuleVersion; since: the clock when its author got the role back
  clock,      \* events so far
  jobs,       \* AutomationJob
  writing,    \* the transaction between its allocation and its commit
  plan_jobs,  \* ForecastJob
  budget      \* bounded events so far

sourceVars == <<latest, published, world, clock>>
ruleVars == <<leadRules, rule>>
vars == <<sourceVars, ruleVars, draft, jobs, writing, plan_jobs, budget>>

Draft == [world : Nat, rules : Nat]
Rule == [rev : Nat, enabled : BOOLEAN, admin : BOOLEAN, since : Nat]
Kept == {"pending", "failed", "review", "dead"}  \* the other jobs have ended and leave
Job == [source : Sources, version : Nat, rule : Nat, event : Nat, direct : BOOLEAN,
        status : Kept, attempts : 0..MaxAttempts, ended : Nat]
Writing == [by : {"none", "person", "worker"}, source : {"none"} \cup Sources,
            event : Nat, world : Nat, rules : Nat]
PlanJob == [plan : Plans, version : Nat, status : {"pending", "failed", "done", "dead", "obsolete"},
            attempts : 0..MaxAttempts]

NoDraft == [world |-> 0, rules |-> 0]
NoWriting == [by |-> "none", source |-> "none", event |-> 0, world |-> 0, rules |-> 0]

\* Every table keeps its shape; an event has one job for a source, and nothing is
\* published or drafted from what is not there yet.
TypeOK ==
  /\ latest \in [Sources -> Nat]
  /\ published \in [Sources -> Nat]
  /\ draft \in [Sources -> Draft]
  /\ world \in Nat /\ leadRules \in Nat /\ clock \in Nat /\ world <= clock
  /\ rule \in Rule
  /\ jobs \subseteq Job
  /\ \A j, k \in jobs : j.source = k.source /\ j.event = k.event => j = k
  /\ \A s \in Sources : published[s] <= latest[s] /\ draft[s].world <= world
  /\ writing \in Writing
  /\ plan_jobs \subseteq PlanJob
  /\ budget \in [changes : 0..MaxChanges, drafts : 0..MaxDrafts, retries : 0..MaxRetries,
                 faults : 0..MaxFaults]

\* The sources there are, are published and have a draft made by event 1;
\* the rule is on and nothing is queued.
Init ==
  /\ latest = [s \in Sources |-> IF s \in Newcomers THEN 0 ELSE 1]
  /\ published = latest
  /\ draft = [s \in Sources |-> IF s \in Newcomers THEN NoDraft ELSE [world |-> 1, rules |-> 1]]
  /\ world = 1
  /\ leadRules = 1
  /\ rule = [rev |-> 1, enabled |-> TRUE, admin |-> TRUE, since |-> 0]
  /\ clock = 1
  /\ jobs = {}
  /\ writing = NoWriting
  /\ plan_jobs = {[plan |-> p, version |-> 1, status |-> "done", attempts |-> 1] : p \in Plans \ Newcomers}
  /\ budget = [changes |-> 0, drafts |-> 0, retries |-> 0, faults |-> 0]

Population(versions) == {s \in Sources : versions[s] > 0}

\* The rule is on and who wrote it is still a system administrator.
Authorized(r) == r.enabled /\ r.admin

\* Fault: nobody waits for the source's row.
SourceFree_Always(s) == TRUE

\* Row locks held by the transaction in progress: its source, the set of
\* lead-time rules, and for a worker the automation rule.
SourceFree(s) == writing.source # s
LeadRulesFree == writing.by = "none"

\* Fault: a change of the rule does not wait for the running job.
RuleFree_Always == TRUE

RuleFree == writing.by # "worker"

\* A job can still be picked.
Open(j) == j.status \in {"pending", "failed"} /\ j.attempts < MaxAttempts

\* Nothing went wrong, or one of the bounded faults.
Smooth == UNCHANGED budget

Fault ==
  /\ budget.faults < MaxFaults
  /\ budget' = [budget EXCEPT !.faults = @ + 1]

\* A draft shows the population and the rules as they are.
Fresh(s) == draft[s] = [world |-> world, rules |-> leadRules]
===================================================================================
