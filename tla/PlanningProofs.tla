------------------------------ MODULE PlanningProofs ------------------------------
(***************************************************************************)
(* Safety of Planning, for every value of its constants.                   *)
(*                                                                         *)
(* No change is lost because every event enqueues a job of its own: a job  *)
(* that is running or in hand never stands for a later event.  What makes  *)
(* that inductive is what a transaction in progress has read (StillOwed):  *)
(* it is either current, or another job than the one in hand is owed.      *)
(***************************************************************************)
EXTENDS Planning, TLAPS

\* A job that will read the population as it is now.
OwedBy(k, s) == k.source = s /\ k.version = latest[s] /\ k.rule = rule.rev /\ Open(k)

QueueSound ==
  \A j \in jobs :
    /\ j.event <= clock /\ j.ended <= clock
    /\ latest[j.source] > 0
    /\ j.status \in {"pending", "failed"} => j.attempts < MaxAttempts
    /\ j.status \in {"review", "dead"} /\ j.ended = clock => j.version = latest[j.source]

\* The worker's job is still its rule's and its source's.
HandSound ==
  writing.by = "worker" =>
    /\ rule.enabled
    /\ \E j \in jobs : InHand(j) /\ OwedBy(j, writing.source)

\* The demand that is being drafted is published and stays so.
ReadingSound ==
  writing.by # "none" =>
    /\ writing.source \in Sources
    /\ writing.world <= world /\ writing.event <= clock
    /\ latest[writing.source] > 0
    /\ published[writing.source] = latest[writing.source]
    /\ writing.rules = leadRules

StillOwed ==
  writing.by # "none" /\ Watching =>
    \/ writing.world = world
    \/ writing.by = "worker" /\ \E k \in jobs : OwedBy(k, writing.source) /\ k.event # writing.event
    \/ writing.by = "person" /\ (Owed(writing.source) \/ Flagged(writing.source))

PlanningInv == TypeOK /\ QueueSound /\ HandSound /\ ReadingSound /\ StillOwed /\ NoChangeLost

(***************************************************************************)
(* What the queue operators return.                                        *)
(***************************************************************************)
\* enqueue_refresh adds one fresh job for each target, if the rule is authorized.
LEMMA QueuedJobs ==
  ASSUME PlanningAssumption, NEW versions \in [Sources -> Nat], NEW r \in Rule,
         NEW event \in Nat, NEW changed, NEW targets \in SUBSET Sources
  PROVE  /\ Queued(versions, r, event, changed, targets) \subseteq Job
         /\ \A k \in Queued(versions, r, event, changed, targets) :
              /\ k.source \in targets /\ k.version = versions[k.source] /\ k.rule = r.rev
              /\ k.event = event /\ k.status = "pending" /\ k.attempts = 0 /\ k.ended = 0
         /\ \A j, k \in Queued(versions, r, event, changed, targets) : j.source = k.source => j = k
         /\ Authorized(r) => \A s \in targets :
              \E k \in Queued(versions, r, event, changed, targets) : k.source = s
<1> DEFINE fresh(s) == [source |-> s, version |-> versions[s], rule |-> r.rev, event |-> event,
                        direct |-> s \in changed, status |-> "pending", attempts |-> 0, ended |-> 0]
<1>1. \A s \in targets : fresh(s) \in Job
  <2> TAKE s \in targets
  <2>1. (s \in changed) \in BOOLEAN
    OBVIOUS
  <2>2. versions[s] \in Nat /\ r.rev \in Nat /\ 0 \in 0..MaxAttempts
    BY DEF Rule, PlanningAssumption
  <2> QED
    BY <2>1, <2>2 DEF Job, Kept
<1>2. \A s \in targets :
        /\ fresh(s).source = s /\ fresh(s).version = versions[s] /\ fresh(s).rule = r.rev
        /\ fresh(s).event = event /\ fresh(s).status = "pending" /\ fresh(s).attempts = 0
        /\ fresh(s).ended = 0
  OBVIOUS
<1>3. Authorized(r) => Queued(versions, r, event, changed, targets) = {fresh(s) : s \in targets}
  BY DEF Queued
<1>4. ~Authorized(r) => Queued(versions, r, event, changed, targets) = {}
  BY DEF Queued
<1> HIDE DEF fresh
<1>5. CASE Authorized(r)
  BY <1>1, <1>2, <1>3, <1>5
<1>6. CASE ~Authorized(r)
  BY <1>4, <1>6
<1> QED
  BY <1>5, <1>6

\* The queue after a job's turn: the others as they were, and the job itself only
\* while it is kept.
LEMMA AfterJobs ==
  ASSUME PlanningAssumption, NEW j \in jobs, j \in Job, j.attempts < MaxAttempts,
         NEW status, NEW time \in Nat
  PROVE  /\ jobs \ {j} \subseteq After(j, status, time)
         /\ \A k \in After(j, status, time) : k \in jobs \ {j} \/
              /\ status \in Kept /\ k \in Job
              /\ k.source = j.source /\ k.event = j.event /\ k.version = j.version /\ k.rule = j.rule
              /\ k.status = status /\ k.attempts = j.attempts + 1
              /\ k.ended = IF status = "failed" THEN 0 ELSE time
         /\ \A k1, k2 \in After(j, status, time) \ (jobs \ {j}) : k1 = k2
         /\ status \in Kept => \E k \in After(j, status, time) :
              /\ k.source = j.source /\ k.version = j.version /\ k.rule = j.rule /\ k.event = j.event
              /\ k.status = status /\ k.attempts = j.attempts + 1
              /\ k.ended = IF status = "failed" THEN 0 ELSE time
<1> DEFINE turned == [j EXCEPT !.status = status, !.attempts = @ + 1,
                               !.ended = IF status = "failed" THEN 0 ELSE time]
<1> DEFINE ended == IF status = "failed" THEN 0 ELSE time
<1>1. ASSUME status \in Kept PROVE turned \in Job
  <2>1. j.attempts + 1 \in 0..MaxAttempts
    BY DEF Job, PlanningAssumption
  <2>2. ended \in Nat
    OBVIOUS
  <2>3. turned = [[[j EXCEPT !.status = status] EXCEPT !.attempts = j.attempts + 1] EXCEPT !.ended = ended]
    BY DEF Job
  <2> HIDE DEF ended, turned
  <2> QED
    BY <1>1, <2>1, <2>2, <2>3 DEF Job
<1>2. status \in Kept => /\ turned.source = j.source /\ turned.event = j.event
                         /\ turned.version = j.version /\ turned.rule = j.rule
                         /\ turned.status = status /\ turned.attempts = j.attempts + 1
                         /\ turned.ended = IF status = "failed" THEN 0 ELSE time
  BY DEF Job
<1>3. After(j, status, time) = (jobs \ {j}) \cup (IF status \in Kept THEN {turned} ELSE {})
  BY DEF After, Replaced
<1> HIDE DEF turned
<1> QED
  BY <1>1, <1>2, <1>3

(***************************************************************************)
(* Events.                                                                 *)
(***************************************************************************)
Budgets == [changes : 0..MaxChanges, drafts : 0..MaxDrafts, retries : 0..MaxRetries,
            faults : 0..MaxFaults]

\* What every change people make is to the queue and to who is writing.
Event(changed) ==
  /\ latest' \in [Sources -> Nat] /\ published' \in [Sources -> Nat]
  /\ \A s \in Sources : latest[s] <= latest'[s] /\ published'[s] <= latest'[s]
  /\ leadRules' \in Nat /\ rule' \in Rule
  /\ world' \in Nat /\ world <= world' /\ world' <= clock + 1
  /\ Announce(latest', rule', changed)
  /\ UNCHANGED <<draft, writing>>
  /\ writing.by = "worker" => rule' = rule
  /\ writing.by # "none" => /\ latest'[writing.source] = latest[writing.source]
                            /\ published'[writing.source] = latest[writing.source]
                            /\ leadRules' = leadRules
  /\ plan_jobs' \subseteq PlanJob /\ budget' \in Budgets

\* An event keeps the queue sound and owes every source a job of its own.
LEMMA EventQueues ==
  ASSUME PlanningAssumption, PlanningInv, NEW changed, Event(changed)
  PROVE  /\ clock' = clock + 1 /\ clock' \in Nat
         /\ jobs \subseteq jobs' /\ jobs' \subseteq Job
         /\ \A j, k \in jobs' : j.source = k.source /\ j.event = k.event => j = k
         /\ QueueSound'
         /\ Authorized(rule') => \A s \in Population(latest') :
              \E k \in jobs' : OwedBy(k, s)' /\ k.event = clock + 1
<1> DEFINE new == Queued(latest', rule', clock + 1, changed, Population(latest'))
<1>1. clock \in Nat /\ clock' = clock + 1 /\ jobs' = jobs \cup new
  BY DEF Event, Announce, PlanningInv, TypeOK
<1>2. Population(latest') \in SUBSET Sources /\ latest' \in [Sources -> Nat] /\ rule' \in Rule
      /\ clock + 1 \in Nat
  BY <1>1 DEF Population, Event
<1>3. /\ new \subseteq Job
      /\ \A k \in new : /\ k.source \in Population(latest') /\ k.version = latest'[k.source]
                        /\ k.rule = rule'.rev /\ k.event = clock + 1 /\ k.status = "pending"
                        /\ k.attempts = 0 /\ k.ended = 0
      /\ \A j, k \in new : j.source = k.source => j = k
      /\ Authorized(rule') => \A s \in Population(latest') : \E k \in new : k.source = s
  BY <1>2, QueuedJobs
<1> HIDE DEF new
<1>4. jobs' \subseteq Job
  BY <1>1, <1>3 DEF PlanningInv, TypeOK
<1>5. \A j \in jobs : j.event <= clock /\ j.event \in Nat
  BY DEF PlanningInv, TypeOK, QueueSound, Job
<1>6. \A j, k \in jobs' : j.source = k.source /\ j.event = k.event => j = k
  <2> TAKE j, k \in jobs'
  <2>1. CASE j \in jobs /\ k \in jobs
    BY <2>1 DEF PlanningInv, TypeOK
  <2>2. CASE j \in new /\ k \in new
    BY <2>2, <1>3
  <2>3. CASE (j \in jobs /\ k \in new) \/ (j \in new /\ k \in jobs)
    BY <2>3, <1>1, <1>3, <1>5
  <2> QED
    BY <1>1, <2>1, <2>2, <2>3
<1>7. QueueSound'
  <2> SUFFICES ASSUME NEW j \in jobs'
               PROVE  /\ j.event <= clock' /\ j.ended <= clock'
                      /\ latest'[j.source] > 0
                      /\ j.status \in {"pending", "failed"} => j.attempts < MaxAttempts
                      /\ j.status \in {"review", "dead"} /\ j.ended = clock'
                           => j.version = latest'[j.source]
    BY DEF QueueSound
  <2>1. CASE j \in jobs
    <3>1. j \in Job /\ j.source \in Sources /\ j.ended \in Nat /\ j.event \in Nat
      BY <2>1 DEF PlanningInv, TypeOK, Job
    <3>2. latest[j.source] \in Nat /\ latest'[j.source] \in Nat /\ latest[j.source] <= latest'[j.source]
      BY <3>1, <1>2 DEF PlanningInv, TypeOK, Event
    <3> QED
      BY <2>1, <3>1, <3>2, <1>1 DEF PlanningInv, QueueSound
  <2>2. CASE j \in new
    <3>1. MaxAttempts \in Nat /\ MaxAttempts > 0
      BY DEF PlanningAssumption
    <3> QED
      BY <2>2, <3>1, <1>1, <1>3 DEF Population
  <2> QED
    BY <1>1, <2>1, <2>2
<1>8. ASSUME Authorized(rule'), NEW s \in Population(latest')
      PROVE  \E k \in jobs' : OwedBy(k, s)' /\ k.event = clock + 1
  <2>1. PICK k \in new : k.source = s
    BY <1>3, <1>8
  <2>2. MaxAttempts \in Nat /\ MaxAttempts > 0
    BY DEF PlanningAssumption
  <2> QED
    BY <1>1, <1>3, <2>1, <2>2 DEF OwedBy, Open
<1> QED
  BY <1>1, <1>2, <1>4, <1>6, <1>7, <1>8

LEMMA EventKeepsInv ==
  ASSUME PlanningAssumption, PlanningInv, NEW changed, Event(changed)
  PROVE  PlanningInv'
<1>1. /\ clock' = clock + 1 /\ clock' \in Nat
      /\ jobs \subseteq jobs' /\ jobs' \subseteq Job
      /\ \A j, k \in jobs' : j.source = k.source /\ j.event = k.event => j = k
      /\ QueueSound'
      /\ Authorized(rule') => \A s \in Population(latest') :
           \E k \in jobs' : OwedBy(k, s)' /\ k.event = clock + 1
  BY EventQueues
<1>2. writing' = writing /\ draft' = draft
  BY DEF Event
<1>3. TypeOK'
  <2>1. \A s \in Sources : draft[s] \in Draft /\ draft[s].world \in Nat /\ draft[s].world <= world
    BY DEF PlanningInv, TypeOK, Draft
  <2>2. world \in Nat /\ clock \in Nat /\ world' \in Nat /\ world <= world' /\ world' <= clock'
    BY <1>1 DEF PlanningInv, TypeOK, Event
  <2>3. \A s \in Sources : published'[s] <= latest'[s] /\ draft'[s].world <= world'
    BY <1>2, <2>1, <2>2 DEF Event
  <2>4. writing' \in Writing /\ draft' \in [Sources -> Draft]
    BY <1>2 DEF PlanningInv, TypeOK
  <2> QED
    BY <1>1, <2>2, <2>3, <2>4 DEF TypeOK, Event, Budgets
<1>4. NoChangeLost'
  BY <1>1 DEF NoChangeLost, Watching, AllFollowed, Owed, OwedBy, Population
<1>5. ReadingSound'
  <2> SUFFICES ASSUME writing.by # "none"
               PROVE  /\ writing.source \in Sources
                      /\ writing.world <= world' /\ writing.event <= clock'
                      /\ latest'[writing.source] > 0
                      /\ published'[writing.source] = latest'[writing.source]
                      /\ writing.rules = leadRules'
    BY <1>2 DEF ReadingSound
  <2>1. writing \in Writing /\ writing.world \in Nat /\ writing.event \in Nat
        /\ world \in Nat /\ clock \in Nat
    BY DEF PlanningInv, TypeOK, Writing
  <2>2. world' \in Nat /\ world <= world'
    BY DEF Event
  <2> QED
    BY <2>1, <2>2, <1>1 DEF PlanningInv, ReadingSound, Event
<1>6. HandSound'
  <2> SUFFICES ASSUME writing.by = "worker"
               PROVE  /\ rule'.enabled
                      /\ \E j \in jobs' : InHand(j)' /\ OwedBy(j, writing.source)'
    BY <1>2 DEF HandSound
  <2>1. rule' = rule /\ latest'[writing.source] = latest[writing.source]
    BY DEF Event
  <2>2. PICK j \in jobs : InHand(j) /\ OwedBy(j, writing.source)
    BY DEF PlanningInv, HandSound
  <2>3. j \in jobs' /\ InHand(j)' /\ OwedBy(j, writing.source)'
    BY <1>1, <1>2, <2>1, <2>2 DEF InHand, OwedBy, Open
  <2> QED
    BY <2>1, <2>3 DEF PlanningInv, HandSound
<1>7. StillOwed'
  <2> SUFFICES ASSUME writing.by # "none", Watching'
               PROVE  \/ writing.by = "worker" /\ \E k \in jobs' :
                           OwedBy(k, writing.source)' /\ k.event # writing.event
                      \/ writing.by = "person" /\ Owed(writing.source)'
    BY <1>2 DEF StillOwed
  <2>1. writing.source \in Population(latest')
    BY DEF PlanningInv, ReadingSound, Event, Population
  <2>2. PICK k \in jobs' : OwedBy(k, writing.source)' /\ k.event = clock + 1
    BY <1>1, <1>2, <2>1 DEF Watching
  <2>3. writing.event <= clock /\ writing.event \in Nat /\ clock \in Nat
        /\ writing.by \in {"person", "worker"}
    BY DEF PlanningInv, TypeOK, Writing, ReadingSound
  <2>4. Owed(writing.source)'
    BY <1>2, <2>2 DEF Owed, OwedBy
  <2> QED
    BY <1>2, <2>2, <2>3, <2>4
<1> QED
  BY <1>1, <1>3, <1>4, <1>5, <1>6, <1>7 DEF PlanningInv

(***************************************************************************)
(* Changes people make.                                                    *)
(***************************************************************************)
LEMMA ChangeIsEvent ==
  ASSUME PlanningAssumption, PlanningInv, ChangesNext
  PROVE  (\E changed : Event(changed)) \/ RevokeAuthor \/ RestoreAuthor
<1>1. Change => budget' \in Budgets
  <2> SUFFICES ASSUME Change PROVE budget' \in Budgets
    OBVIOUS
  <2>1. budget \in Budgets /\ budget.changes \in Nat /\ MaxChanges \in Nat /\ budget.changes < MaxChanges
    BY DEF PlanningInv, TypeOK, Budgets, Change, PlanningAssumption
  <2>2. budget.changes + 1 \in 0..MaxChanges
    BY <2>1
  <2>3. budget' = [budget EXCEPT !.changes = budget.changes + 1]
    BY DEF Change
  <2> QED
    BY <2>1, <2>2, <2>3 DEF Budgets
<1>2. /\ latest \in [Sources -> Nat] /\ published \in [Sources -> Nat] /\ leadRules \in Nat
      /\ rule \in Rule /\ world \in Nat /\ clock \in Nat /\ world <= clock /\ plan_jobs \subseteq PlanJob
      /\ \A s \in Sources : published[s] <= latest[s]
  BY DEF PlanningInv, TypeOK
<1>3. writing.by # "none" => /\ writing.source \in Sources /\ latest[writing.source] > 0
                            /\ published[writing.source] = latest[writing.source]
  BY DEF PlanningInv, ReadingSound
<1>4. Plans \subseteq Sources /\ Projects \subseteq Sources
  BY DEF Sources
<1>5. ASSUME NEW p \in Plans, SavePlan(p) PROVE Event({p})
  <2>1. plan_jobs' \subseteq PlanJob
    <3>1. latest[p] + 1 \in Nat /\ 0 \in 0..MaxAttempts
      BY <1>2, <1>4 DEF PlanningAssumption
    <3> QED
      BY <1>2, <1>5, <3>1 DEF SavePlan, PlanJob
  <2>2. /\ latest' \in [Sources -> Nat]
        /\ \A s \in Sources : latest[s] <= latest'[s]
        /\ \A s \in Sources \ {p} : latest[s] = latest'[s]
    BY <1>2, <1>4, <1>5 DEF SavePlan
  <2>3. \A s \in Sources : published[s] <= latest'[s]
    BY <1>2, <2>2
  <2> QED
    BY <1>1, <1>2, <1>3, <1>5, <2>1, <2>2, <2>3 DEF SavePlan, Event, Reshape, SourceFree, ruleVars
<1>6. ASSUME NEW q \in Projects, CreateProject(q) PROVE Event({q})
  <2>1. /\ latest' \in [Sources -> Nat]
        /\ \A s \in Sources : latest[s] <= latest'[s]
        /\ \A s \in Sources \ {q} : latest[s] = latest'[s]
    BY <1>2, <1>4, <1>6 DEF CreateProject
  <2>2. \A s \in Sources : published[s] <= latest'[s]
    BY <1>2, <2>1
  <2>3. writing.by # "none" => latest'[writing.source] = latest[writing.source]
    BY <1>3, <1>6, <2>1 DEF CreateProject
  <2> QED
    BY <1>1, <1>2, <1>3, <1>6, <2>1, <2>2, <2>3 DEF CreateProject, Event, Reshape, ruleVars
<1>7. ASSUME NEW s \in Sources, Publish(s) PROVE Event({})
  BY <1>1, <1>2, <1>3, <1>7 DEF Publish, Event, Reshape, ruleVars
<1>8. ASSUME ImportSupply PROVE Event({})
  BY <1>1, <1>2, <1>3, <1>8 DEF ImportSupply, Event, Reshape, ruleVars
<1>9. ASSUME NEW p, NEW q, SaveCoverage(p, q) PROVE Event({})
  BY <1>1, <1>2, <1>3, <1>9 DEF SaveCoverage, Event, Reshape, ruleVars
<1>10. ASSUME SaveLeadRules PROVE Event({})
  BY <1>1, <1>2, <1>3, <1>10 DEF SaveLeadRules, Event, LeadRulesFree
<1>11. ASSUME NEW on \in BOOLEAN, SaveRule(on) PROVE Event({})
  <2>1. rule' \in Rule
    BY <1>2, <1>11 DEF SaveRule, Rule
  <2> QED
    BY <1>1, <1>2, <1>3, <1>11, <2>1 DEF SaveRule, Event, RuleFree
<1> QED
  BY <1>5, <1>6, <1>7, <1>8, <1>9, <1>10, <1>11 DEF ChangesNext

\* Without its author a rule enqueues nothing and promises nothing; when the
\* role comes back it promises nothing until the next event.
LEMMA RoleKeepsInv ==
  ASSUME PlanningAssumption, PlanningInv, RevokeAuthor \/ RestoreAuthor
  PROVE  PlanningInv'
<1>1. UNCHANGED <<latest, published, world, clock, leadRules, draft, jobs, writing, plan_jobs>>
  BY DEF RevokeAuthor, RestoreAuthor, sourceVars
<1>2. rule \in Rule /\ clock \in Nat
  BY DEF PlanningInv, TypeOK
<1>3. rule' \in Rule /\ rule'.rev = rule.rev /\ rule'.enabled = rule.enabled /\ ~Watching'
  <2>1. CASE RevokeAuthor
    BY <1>2, <2>1 DEF RevokeAuthor, Rule, Authorized, Watching
  <2>2. CASE RestoreAuthor
    <3>1. rule' = [rule EXCEPT !.admin = TRUE, !.since = clock]
      BY <2>2 DEF RestoreAuthor
    <3>2. rule' \in Rule /\ rule'.rev = rule.rev /\ rule'.enabled = rule.enabled
      BY <1>2, <3>1 DEF Rule
    <3>3. rule'.since = clock /\ clock' = clock
      BY <1>1, <1>2, <3>1 DEF Rule
    <3> QED
      BY <1>2, <3>2, <3>3 DEF Watching
  <2> QED
    BY <2>1, <2>2
<1>4. budget' \in Budgets
  <2>1. CASE RevokeAuthor
    <3>1. budget \in Budgets /\ budget.changes \in Nat /\ MaxChanges \in Nat /\ budget.changes < MaxChanges
      BY <2>1 DEF PlanningInv, TypeOK, Budgets, RevokeAuthor, Change, PlanningAssumption
    <3>2. budget.changes + 1 \in 0..MaxChanges
      BY <3>1
    <3>3. budget' = [budget EXCEPT !.changes = budget.changes + 1]
      BY <2>1 DEF RevokeAuthor, Change
    <3> QED
      BY <3>1, <3>2, <3>3 DEF Budgets
  <2>2. CASE RestoreAuthor
    BY <2>2 DEF RestoreAuthor, Smooth, PlanningInv, TypeOK, Budgets
  <2> QED
    BY <2>1, <2>2
<1>5. TypeOK'
  BY <1>1, <1>3, <1>4 DEF PlanningInv, TypeOK, Budgets
<1>6. QueueSound' /\ ReadingSound'
  BY <1>1 DEF PlanningInv, QueueSound, ReadingSound
<1>7. HandSound'
  BY <1>1, <1>3 DEF PlanningInv, HandSound, InHand, OwedBy, Open
<1>8. StillOwed' /\ NoChangeLost'
  BY <1>3 DEF StillOwed, NoChangeLost
<1> QED
  BY <1>5, <1>6, <1>7, <1>8 DEF PlanningInv

LEMMA ChangesKeepInv == ASSUME PlanningAssumption, PlanningInv, ChangesNext PROVE PlanningInv'
BY ChangeIsEvent, EventKeepsInv, RoleKeepsInv

(***************************************************************************)
(* Turns of the worker.                                                    *)
(***************************************************************************)
\* A job's turn keeps the queue sound: it ends the job, or leaves it for
\* another attempt, and may add the jobs of a new event.
LEMMA TurnQueues ==
  ASSUME PlanningAssumption, PlanningInv, NEW j \in jobs, Open(j), NEW status, NEW new,
         jobs' = After(j, status, clock') \cup new,
         UNCHANGED <<latest, rule>>, clock' = clock \/ clock' = clock + 1,
         status # "pending",
         status = "failed" => j.attempts + 1 < MaxAttempts,
         status \in {"review", "dead"} => j.version = latest[j.source],
         \A k \in new :
           /\ k \in Job /\ latest[k.source] > 0 /\ clock' = clock + 1
           /\ k.event = clock' /\ k.status = "pending" /\ k.attempts = 0 /\ k.ended = 0,
         \A k, l \in new : k.source = l.source => k = l
  PROVE  /\ jobs \ {j} \subseteq jobs' /\ jobs' \subseteq Job
         /\ \A k, l \in jobs' : k.source = l.source /\ k.event = l.event => k = l
         /\ QueueSound'
         /\ \A s \in Sources : (s # j.source \/ ~OwedBy(j, s)) /\ Owed(s) => Owed(s)'
         /\ \A s \in Sources : Flagged(s) /\ clock' = clock => Flagged(s)'
         /\ status \in {"review", "dead"} => Flagged(j.source)'
         /\ status = "failed" /\ OwedBy(j, j.source) => Owed(j.source)'
<1> DEFINE turned == After(j, status, clock')
<1>1. clock \in Nat /\ clock' \in Nat /\ clock <= clock' /\ MaxAttempts \in Nat
      /\ j \in Job /\ j.attempts \in Nat /\ j.attempts < MaxAttempts
      /\ j.status \in {"pending", "failed"} /\ j.source \in Sources
  BY DEF PlanningInv, TypeOK, PlanningAssumption, Open, Job
<1>2. /\ jobs \ {j} \subseteq turned
      /\ \A k \in turned : k \in jobs \ {j} \/
           /\ status \in Kept /\ k \in Job
           /\ k.source = j.source /\ k.event = j.event /\ k.version = j.version /\ k.rule = j.rule
           /\ k.status = status /\ k.attempts = j.attempts + 1
           /\ k.ended = IF status = "failed" THEN 0 ELSE clock'
      /\ \A k, l \in turned \ (jobs \ {j}) : k = l
      /\ status \in Kept => \E k \in turned :
           /\ k.source = j.source /\ k.version = j.version /\ k.rule = j.rule /\ k.event = j.event
           /\ k.status = status /\ k.attempts = j.attempts + 1
           /\ k.ended = IF status = "failed" THEN 0 ELSE clock'
  BY <1>1, AfterJobs
<1> HIDE DEF turned
<1>3. jobs' = turned \cup new
  BY DEF turned
<1>4. jobs \ {j} \subseteq jobs' /\ jobs' \subseteq Job
  BY <1>2, <1>3 DEF PlanningInv, TypeOK
<1>5. \A k \in turned : k.event <= clock /\ k.event \in Nat
  BY <1>1, <1>2 DEF PlanningInv, TypeOK, QueueSound, Job
<1>6. \A k, l \in jobs' : k.source = l.source /\ k.event = l.event => k = l
  <2> SUFFICES ASSUME NEW k \in jobs', NEW l \in jobs', k.source = l.source, k.event = l.event
               PROVE  k = l
    OBVIOUS
  <2>1. CASE k \in jobs \ {j} /\ l \in jobs \ {j}
    BY <2>1 DEF PlanningInv, TypeOK
  <2>2. CASE k \in turned \ (jobs \ {j}) /\ l \in turned \ (jobs \ {j})
    BY <2>2, <1>2
  <2>3. CASE k \in new /\ l \in new
    BY <2>3
  <2>4. CASE (k \in turned /\ l \in new) \/ (k \in new /\ l \in turned)
    BY <2>4, <1>1, <1>5
  <2>5. \A i \in turned \ (jobs \ {j}) : i.source = j.source /\ i.event = j.event
    BY <1>2
  <2>6. \A i \in jobs \ {j} : ~(i.source = j.source /\ i.event = j.event)
    BY DEF PlanningInv, TypeOK
  <2> QED
    BY <1>3, <2>1, <2>2, <2>3, <2>4, <2>5, <2>6
<1>7. QueueSound'
  <2> SUFFICES ASSUME NEW k \in jobs'
               PROVE  /\ k.event <= clock' /\ k.ended <= clock'
                      /\ latest[k.source] > 0
                      /\ k.status \in {"pending", "failed"} => k.attempts < MaxAttempts
                      /\ k.status \in {"review", "dead"} /\ k.ended = clock'
                           => k.version = latest[k.source]
    BY DEF QueueSound
  <2>1. CASE k \in jobs \ {j}
    <3>1. k \in Job /\ k.event \in Nat /\ k.ended \in Nat
      BY <2>1 DEF PlanningInv, TypeOK, Job
    <3> QED
      BY <2>1, <3>1, <1>1 DEF PlanningInv, QueueSound
  <2>2. CASE k \in turned \ (jobs \ {j})
    <3>1. /\ k.source = j.source /\ k.event = j.event /\ k.version = j.version
          /\ k.status = status /\ k.attempts = j.attempts + 1
          /\ k.ended = IF status = "failed" THEN 0 ELSE clock'
      BY <2>2, <1>2
    <3>2. latest[j.source] > 0 /\ j.event <= clock /\ j.event \in Nat
      BY <1>1 DEF PlanningInv, QueueSound, Job
    <3> QED
      BY <3>1, <3>2, <1>1
  <2>3. CASE k \in new
    BY <2>3, <1>1 DEF PlanningAssumption
  <2> QED
    BY <1>3, <2>1, <2>2, <2>3
<1>8. ASSUME NEW s \in Sources, s # j.source \/ ~OwedBy(j, s), Owed(s) PROVE Owed(s)'
  <2>1. PICK k \in jobs : OwedBy(k, s)
    BY <1>8 DEF Owed, OwedBy
  <2>2. k # j
    BY <1>8, <2>1 DEF OwedBy
  <2> QED
    BY <1>4, <2>1, <2>2 DEF Owed, OwedBy, Open
<1>9. ASSUME NEW s \in Sources, Flagged(s), clock' = clock PROVE Flagged(s)'
  <2>1. PICK k \in jobs : k.source = s /\ k.status \in {"review", "dead"} /\ k.ended = clock
    BY <1>9 DEF Flagged
  <2>2. k # j
    BY <2>1, <1>1
  <2> QED
    BY <1>4, <1>9, <2>1, <2>2 DEF Flagged
<1>10. ASSUME status \in {"review", "dead"} PROVE Flagged(j.source)'
  BY <1>2, <1>3, <1>10 DEF Flagged, Kept
<1>11. ASSUME status = "failed", OwedBy(j, j.source) PROVE Owed(j.source)'
  <2>1. PICK k \in turned : /\ k.source = j.source /\ k.version = j.version /\ k.rule = j.rule
                            /\ k.status = status /\ k.attempts = j.attempts + 1
    BY <1>2, <1>11 DEF Kept
  <2>2. Open(k)
    BY <1>1, <1>11, <2>1 DEF Open
  <2> QED
    BY <1>3, <1>11, <2>1, <2>2 DEF Owed, OwedBy
<1> QED
  BY <1>4, <1>6, <1>7, <1>8, <1>9, <1>10, <1>11

\* What a refresh leaves alone.
Still == UNCHANGED <<latest, published, world, clock, leadRules, rule, plan_jobs>> /\ budget' \in Budgets

\* A step of the queue alone, while no worker is at a job.
LEMMA QueueStepKeepsInv ==
  ASSUME PlanningInv, Still, UNCHANGED <<draft, writing>>, RuleFree,
         jobs' \subseteq Job, QueueSound',
         \A k, l \in jobs' : k.source = l.source /\ k.event = l.event => k = l,
         Authorized(rule) => \A s \in Sources : Owed(s) \/ Flagged(s) => Owed(s)' \/ Flagged(s)'
  PROVE  PlanningInv'
<1>1. TypeOK'
  BY DEF PlanningInv, TypeOK, Still, Budgets
<1>2. HandSound' /\ ReadingSound'
  BY DEF PlanningInv, HandSound, ReadingSound, Still, RuleFree
<1>3. StillOwed'
  <2> SUFFICES ASSUME writing.by # "none", Watching
               PROVE  \/ writing.world = world
                      \/ writing.by = "person" /\ (Owed(writing.source)' \/ Flagged(writing.source)')
    BY DEF StillOwed, Watching, Still
  <2> QED
    BY DEF PlanningInv, StillOwed, ReadingSound, RuleFree, Watching
<1>4. NoChangeLost'
  <2> SUFFICES ASSUME Watching, NEW s \in Population(latest)
               PROVE  Fresh(s)' \/ Owed(s)' \/ Flagged(s)'
    BY DEF NoChangeLost, Watching, AllFollowed, Still
  <2>1. s \in Sources /\ (Fresh(s) \/ Owed(s) \/ Flagged(s))
    BY DEF PlanningInv, NoChangeLost, AllFollowed, Population
  <2> QED
    BY <2>1 DEF Fresh, Still, Watching
<1> QED
  BY <1>1, <1>2, <1>3, <1>4 DEF PlanningInv

\* The end of a transaction that was at a job or a draft.
LEMMA EndKeepsInv ==
  ASSUME PlanningInv, Still, writing' = NoWriting, jobs' \subseteq Job, QueueSound',
         \A k, l \in jobs' : k.source = l.source /\ k.event = l.event => k = l,
         draft' \in [Sources -> Draft], \A s \in Sources : draft'[s].world <= world,
         NoChangeLost'
  PROVE  PlanningInv'
<1>1. TypeOK'
  BY DEF PlanningInv, TypeOK, Still, Budgets, NoWriting, Writing
<1>2. HandSound' /\ ReadingSound' /\ StillOwed'
  BY DEF HandSound, ReadingSound, StillOwed, NoWriting
<1> QED
  BY <1>1, <1>2 DEF PlanningInv

LEMMA BudgetTyped ==
  ASSUME PlanningAssumption, TypeOK
  PROVE  /\ Smooth => budget' \in Budgets
         /\ Fault => budget' \in Budgets
         /\ budget.retries < MaxRetries /\ budget' = [budget EXCEPT !.retries = @ + 1] => budget' \in Budgets
         /\ budget.drafts < MaxDrafts /\ budget' = [budget EXCEPT !.drafts = @ + 1] => budget' \in Budgets
<1>1. budget \in Budgets /\ {MaxDrafts, MaxRetries, MaxFaults} \subseteq Nat
  BY DEF TypeOK, Budgets, PlanningAssumption
<1>2. budget.faults < MaxFaults => budget.faults + 1 \in 0..MaxFaults
  BY <1>1 DEF Budgets
<1>3. budget.retries < MaxRetries => budget.retries + 1 \in 0..MaxRetries
  BY <1>1 DEF Budgets
<1>4. budget.drafts < MaxDrafts => budget.drafts + 1 \in 0..MaxDrafts
  BY <1>1 DEF Budgets
<1>5. Smooth => budget' \in Budgets
  BY <1>1 DEF Smooth
<1>6. Fault => budget' \in Budgets
  BY <1>1, <1>2 DEF Fault, Budgets
<1> QED
  BY <1>1, <1>3, <1>4, <1>5, <1>6 DEF Budgets

LEMMA RefuseKeepsInv ==
  ASSUME PlanningAssumption, PlanningInv, NEW j \in jobs, Refuse(j)
  PROVE  PlanningInv'
<1>1. Still /\ UNCHANGED <<draft, writing>> /\ RuleFree /\ Open(j) /\ clock' = clock
      /\ jobs' = After(j, Verdict(j), clock') \cup {} /\ UNCHANGED <<latest, rule>>
  BY BudgetTyped DEF Refuse, Due, Still, PlanningInv, sourceVars, ruleVars, Smooth
<1>2. Verdict(j) \in {"disabled", "obsolete", "forbidden"}
  BY DEF Refuse, Verdict
<1>3. Authorized(rule) => \A s \in Sources : ~OwedBy(j, s)
  BY DEF Refuse, Verdict, Authorized, OwedBy
<1>4. /\ jobs' \subseteq Job /\ QueueSound'
      /\ \A k, l \in jobs' : k.source = l.source /\ k.event = l.event => k = l
      /\ \A s \in Sources : (s # j.source \/ ~OwedBy(j, s)) /\ Owed(s) => Owed(s)'
      /\ \A s \in Sources : Flagged(s) /\ clock' = clock => Flagged(s)'
  BY <1>1, <1>2, TurnQueues
<1> QED
  BY <1>1, <1>3, <1>4, QueueStepKeepsInv

LEMMA RetryKeepsInv ==
  ASSUME PlanningAssumption, PlanningInv, NEW j \in jobs, RetryJob(j)
  PROVE  PlanningInv'
<1> DEFINE back == [j EXCEPT !.status = "pending", !.ended = 0]
<1>1. /\ Still /\ UNCHANGED <<draft, writing>> /\ RuleFree /\ rule.rev = j.rule
      /\ j.status \in {"failed", "review"} /\ j.attempts < MaxAttempts
      /\ jobs' = (jobs \ {j}) \cup {back}
  BY BudgetTyped DEF RetryJob, Replaced, Still, PlanningInv, sourceVars, ruleVars
<1>2. j \in Job /\ clock \in Nat
  BY DEF PlanningInv, TypeOK
<1>3. /\ back \in Job /\ back.source = j.source /\ back.event = j.event /\ back.version = j.version
      /\ back.rule = j.rule /\ back.status = "pending" /\ back.attempts = j.attempts /\ back.ended = 0
  BY <1>2 DEF Job, Kept
<1> HIDE DEF back
<1>4. jobs' \subseteq Job
  BY <1>1, <1>3 DEF PlanningInv, TypeOK
<1>5. \A k, l \in jobs' : k.source = l.source /\ k.event = l.event => k = l
  BY <1>1, <1>3 DEF PlanningInv, TypeOK
<1>6. QueueSound'
  BY <1>1, <1>2, <1>3 DEF PlanningInv, QueueSound, Still
<1>7. ASSUME NEW s \in Sources, Owed(s) \/ Flagged(s) PROVE Owed(s)' \/ Flagged(s)'
  <2>1. PICK k \in jobs : /\ k.source = s
                          /\ OwedBy(k, s) \/ (k.status \in {"review", "dead"} /\ k.ended = clock)
    BY <1>7 DEF Owed, Flagged, OwedBy
  <2>2. CASE k # j
    BY <1>1, <2>1, <2>2 DEF Owed, Flagged, OwedBy, Open, Still
  <2>3. CASE k = j
    <3>1. j.version = latest[s]
      BY <1>1, <2>1, <2>3 DEF OwedBy, PlanningInv, QueueSound
    <3>2. back \in jobs' /\ back.source = s /\ back.version = latest'[s] /\ back.rule = rule'.rev /\ Open(back)
      BY <1>1, <1>3, <2>1, <2>3, <3>1 DEF Still, Open
    <3> QED
      BY <3>2 DEF Owed
  <2> QED
    BY <2>2, <2>3
<1> QED
  BY <1>1, <1>4, <1>5, <1>6, <1>7, QueueStepKeepsInv

\* The job the worker has in hand.
LEMMA HandIsOne ==
  ASSUME PlanningInv, NEW j \in jobs, InHand(j)
  PROVE  /\ writing.by = "worker" /\ j.source = writing.source /\ j.event = writing.event
         /\ rule.enabled /\ OwedBy(j, j.source) /\ j.source \in Sources
BY DEF PlanningInv, HandSound, InHand, TypeOK, Job

LEMMA FailsKeepsInv ==
  ASSUME PlanningAssumption, PlanningInv, NEW j \in jobs, NEW status, Fails(j, status)
  PROVE  PlanningInv'
<1>1. /\ Still /\ draft' = draft /\ clock' = clock /\ UNCHANGED <<latest, rule>>
      /\ jobs' = After(j, status, clock') \cup {}
      /\ status \in {"review", Outcome(j)}
      /\ writing' = IF InHand(j) THEN NoWriting ELSE writing
  BY BudgetTyped DEF Fails, Still, PlanningInv, sourceVars, ruleVars
<1>2. j \in Job /\ j.attempts \in Nat /\ j.source \in Sources /\ MaxAttempts \in Nat
  BY DEF PlanningInv, TypeOK, Job, PlanningAssumption
<1>3. Open(j) /\ j.version = latest[j.source] /\ OwedBy(j, j.source)
  BY HandIsOne DEF Fails, Due, Verdict, OwedBy
<1>4. /\ status \in {"review", "failed", "dead"}
      /\ status = "failed" => j.attempts + 1 < MaxAttempts
  BY <1>1, <1>2 DEF Outcome
<1>5. /\ jobs' \subseteq Job /\ QueueSound'
      /\ \A k, l \in jobs' : k.source = l.source /\ k.event = l.event => k = l
      /\ \A s \in Sources : (s # j.source \/ ~OwedBy(j, s)) /\ Owed(s) => Owed(s)'
      /\ \A s \in Sources : Flagged(s) /\ clock' = clock => Flagged(s)'
      /\ status \in {"review", "dead"} => Flagged(j.source)'
      /\ status = "failed" /\ OwedBy(j, j.source) => Owed(j.source)'
  BY <1>1, <1>3, <1>4, TurnQueues
<1>6. \A s \in Sources : Owed(s) \/ Flagged(s) => Owed(s)' \/ Flagged(s)'
  BY <1>1, <1>3, <1>4, <1>5
<1>7. CASE InHand(j)
  <2>1. NoChangeLost'
    BY <1>1, <1>6 DEF PlanningInv, NoChangeLost, Watching, AllFollowed, Fresh, Still, Population
  <2>2. draft' \in [Sources -> Draft] /\ \A s \in Sources : draft'[s].world <= world
    BY <1>1 DEF PlanningInv, TypeOK
  <2> QED
    BY <1>1, <1>5, <1>7, <2>1, <2>2, EndKeepsInv
<1>8. CASE ~InHand(j)
  <2>1. RuleFree /\ writing' = writing
    BY <1>1, <1>8 DEF Fails, Due
  <2> QED
    BY <1>1, <1>5, <1>6, <2>1, QueueStepKeepsInv
<1> QED
  BY <1>7, <1>8

LEMMA EndPrepareKeepsInv ==
  ASSUME PlanningAssumption, PlanningInv, NEW j \in jobs, NEW status \in {"done", "review"},
         EndPrepare(j, status)
  PROVE  PlanningInv'
<1>1. /\ Still /\ clock' = clock /\ UNCHANGED <<latest, rule>> /\ InHand(j) /\ writing' = NoWriting
      /\ jobs' = After(j, status, clock') \cup {}
      /\ draft' = [draft EXCEPT ![writing.source] = [world |-> writing.world, rules |-> writing.rules]]
  BY BudgetTyped DEF EndPrepare, StoreDraft, Still, PlanningInv, sourceVars, ruleVars
<1>2. /\ writing.by = "worker" /\ j.source = writing.source /\ j.event = writing.event
      /\ OwedBy(j, j.source) /\ j.source \in Sources
  BY <1>1, HandIsOne
<1>3. /\ jobs \ {j} \subseteq jobs' /\ jobs' \subseteq Job /\ QueueSound'
      /\ \A k, l \in jobs' : k.source = l.source /\ k.event = l.event => k = l
      /\ \A s \in Sources : (s # j.source \/ ~OwedBy(j, s)) /\ Owed(s) => Owed(s)'
      /\ \A s \in Sources : Flagged(s) /\ clock' = clock => Flagged(s)'
  <2>1. Open(j) /\ j.version = latest[j.source]
    BY <1>2 DEF OwedBy
  <2> QED
    BY <1>1, <2>1, TurnQueues
<1>4. writing.world \in Nat /\ writing.rules \in Nat /\ writing.world <= world /\ writing.rules = leadRules
  BY <1>2 DEF PlanningInv, TypeOK, Writing, ReadingSound
<1>5. draft' \in [Sources -> Draft] /\ \A s \in Sources : draft'[s].world <= world
  BY <1>1, <1>4 DEF PlanningInv, TypeOK, Draft
<1>6. NoChangeLost'
  <2> SUFFICES ASSUME Watching, NEW s \in Population(latest)
               PROVE  Fresh(s)' \/ Owed(s)' \/ Flagged(s)'
    BY <1>1 DEF NoChangeLost, Watching, AllFollowed, Still
  <2>1. s \in Sources /\ draft \in [Sources -> Draft]
    BY DEF Population, PlanningInv, TypeOK
  <2>2. CASE s # j.source
    <3>1. Fresh(s) => Fresh(s)'
      BY <1>1, <1>2, <2>1, <2>2 DEF Fresh, Still
    <3> QED
      BY <1>1, <1>3, <2>1, <2>2, <3>1 DEF PlanningInv, NoChangeLost, AllFollowed
  <2>3. CASE s = j.source
    <3>1. CASE writing.world = world
      BY <1>1, <1>2, <1>4, <2>1, <2>3, <3>1 DEF Fresh, Still
    <3>2. CASE writing.world # world
      <4>1. PICK k \in jobs : OwedBy(k, s) /\ k.event # writing.event
        BY <1>2, <2>3, <3>2 DEF PlanningInv, StillOwed
      <4>2. k \in jobs'
        BY <1>2, <1>3, <4>1
      <4> QED
        BY <1>1, <4>1, <4>2 DEF Owed, OwedBy, Open
    <3> QED
      BY <3>1, <3>2
  <2> QED
    BY <2>2, <2>3
<1> QED
  BY <1>1, <1>3, <1>5, <1>6, EndKeepsInv

\* A person's draft: what changed since it was read is owed to someone else.
LEMMA EndByHandKeepsInv ==
  ASSUME PlanningInv, EndByHand
  PROVE  PlanningInv'
<1>1. /\ Still /\ jobs' = jobs /\ writing.by = "person" /\ writing' = NoWriting
      /\ draft' = [draft EXCEPT ![writing.source] = [world |-> writing.world, rules |-> writing.rules]]
  BY DEF EndByHand, StoreDraft, Still, PlanningInv, TypeOK, Budgets, sourceVars, ruleVars
<1>2. /\ writing.source \in Sources /\ writing.world \in Nat /\ writing.rules \in Nat
      /\ writing.world <= world /\ writing.rules = leadRules
  BY <1>1 DEF PlanningInv, TypeOK, Writing, ReadingSound
<1>3. draft' \in [Sources -> Draft] /\ \A s \in Sources : draft'[s].world <= world
  BY <1>1, <1>2 DEF PlanningInv, TypeOK, Draft
<1>4. jobs' \subseteq Job /\ QueueSound'
      /\ \A k, l \in jobs' : k.source = l.source /\ k.event = l.event => k = l
  BY <1>1 DEF PlanningInv, TypeOK, QueueSound, Still
<1>5. \A s \in Sources : (Owed(s) => Owed(s)') /\ (Flagged(s) => Flagged(s)')
  BY <1>1 DEF Owed, Flagged, Open, Still
<1>6. NoChangeLost'
  <2> SUFFICES ASSUME Watching, NEW s \in Population(latest)
               PROVE  Fresh(s)' \/ Owed(s)' \/ Flagged(s)'
    BY <1>1 DEF NoChangeLost, Watching, AllFollowed, Still
  <2>1. s \in Sources /\ draft \in [Sources -> Draft]
    BY DEF Population, PlanningInv, TypeOK
  <2>2. CASE s # writing.source
    <3>1. Fresh(s) => Fresh(s)'
      BY <1>1, <2>1, <2>2 DEF Fresh, Still
    <3> QED
      BY <1>5, <2>1, <3>1 DEF PlanningInv, NoChangeLost, AllFollowed
  <2>3. CASE s = writing.source
    <3>1. writing.world = world => Fresh(s)'
      BY <1>1, <1>2, <2>1, <2>3 DEF Fresh, Still
    <3>2. writing.world = world \/ Owed(s) \/ Flagged(s)
      BY <1>1, <2>3 DEF PlanningInv, StillOwed
    <3> QED
      BY <1>5, <2>1, <3>1, <3>2
  <2> QED
    BY <2>2, <2>3
<1> QED
  BY <1>1, <1>3, <1>4, <1>6, EndKeepsInv

\* A rollback: the worker's death or a refused request.
LEMMA RollbackKeepsInv ==
  ASSUME PlanningAssumption, PlanningInv, WorkerDies \/ LeaveByHand
  PROVE  PlanningInv'
<1>1. /\ Still /\ jobs' = jobs /\ draft' = draft /\ writing' = NoWriting
  BY BudgetTyped DEF WorkerDies, LeaveByHand, Still, PlanningInv, TypeOK, Budgets, sourceVars, ruleVars
<1>2. jobs' \subseteq Job /\ QueueSound'
      /\ \A k, l \in jobs' : k.source = l.source /\ k.event = l.event => k = l
  BY <1>1 DEF PlanningInv, TypeOK, QueueSound, Still
<1>3. draft' \in [Sources -> Draft] /\ \A s \in Sources : draft'[s].world <= world
  BY <1>1 DEF PlanningInv, TypeOK
<1>4. NoChangeLost'
  BY <1>1 DEF PlanningInv, NoChangeLost, Watching, AllFollowed, Fresh, Owed, Flagged, Population, Open, Still
<1> QED
  BY <1>1, <1>2, <1>3, <1>4, EndKeepsInv

\* A reading of the population as it is.
Reads ==
  /\ Still /\ UNCHANGED <<jobs, draft>>
  /\ writing' \in Writing /\ writing'.world = world /\ writing'.rules = leadRules
  /\ writing'.source \in Sources /\ writing'.event <= clock
  /\ latest[writing'.source] > 0 /\ published[writing'.source] = latest[writing'.source]
  /\ writing'.by = "worker" => /\ rule.enabled
       /\ \E j \in jobs : j.source = writing'.source /\ j.event = writing'.event
                           /\ OwedBy(j, j.source)

LEMMA BeginReads ==
  ASSUME PlanningAssumption, PlanningInv,
         (\E j \in jobs : BeginPrepare(j)) \/ (\E s \in Sources : BeginByHand(s))
  PROVE  Reads
<1>1. /\ world \in Nat /\ leadRules \in Nat /\ clock \in Nat /\ 0 <= clock
      /\ latest \in [Sources -> Nat] /\ published \in [Sources -> Nat]
  BY DEF PlanningInv, TypeOK
<1>2. ASSUME NEW j \in jobs, BeginPrepare(j) PROVE Reads
  <2>1. j.source \in Sources /\ j.event \in Nat /\ j.event <= clock /\ latest[j.source] > 0
    BY DEF PlanningInv, TypeOK, QueueSound, Job
  <2>2. rule.enabled /\ OwedBy(j, j.source) /\ published[j.source] = latest[j.source]
    BY <1>2 DEF BeginPrepare, Due, Verdict, OwedBy
  <2>3. writing' = [by |-> "worker", source |-> j.source, event |-> j.event,
                    world |-> world, rules |-> leadRules]
    BY <1>2 DEF BeginPrepare
  <2>4. Still /\ UNCHANGED <<jobs, draft>>
    BY <1>2 DEF BeginPrepare, Still, PlanningInv, TypeOK, Budgets, sourceVars, ruleVars
  <2>5. writing' \in Writing
    BY <1>1, <2>1, <2>3 DEF Writing
  <2> QED
    BY <2>1, <2>2, <2>3, <2>4, <2>5 DEF Reads
<1>3. ASSUME NEW s \in Sources, BeginByHand(s) PROVE Reads
  <2>1. writing' = [by |-> "person", source |-> s, event |-> 0, world |-> world, rules |-> leadRules]
        /\ latest[s] > 0 /\ published[s] = latest[s]
    BY <1>1, <1>3 DEF BeginByHand
  <2>2. Still /\ UNCHANGED <<jobs, draft>>
    BY <1>3, BudgetTyped DEF BeginByHand, Still, PlanningInv, sourceVars, ruleVars
  <2>3. writing' \in Writing
    BY <1>1, <2>1 DEF Writing
  <2> QED
    BY <1>1, <2>1, <2>2, <2>3 DEF Reads
<1> QED
  BY <1>2, <1>3

LEMMA ReadKeepsInv == ASSUME PlanningInv, Reads PROVE PlanningInv'
<1>1. TypeOK'
  BY DEF PlanningInv, TypeOK, Reads, Still, Budgets
<1>2. QueueSound' /\ NoChangeLost'
  BY DEF PlanningInv, QueueSound, NoChangeLost, Watching, AllFollowed, Fresh, Owed, Flagged, Population, Open, Reads, Still
<1>3. ReadingSound' /\ StillOwed'
  <2>1. world \in Nat
    BY DEF PlanningInv, TypeOK
  <2> QED
    BY <2>1 DEF ReadingSound, StillOwed, Reads, Still
<1>4. HandSound'
  BY DEF HandSound, InHand, OwedBy, Open, Reads, Still
<1> QED
  BY <1>1, <1>2, <1>3, <1>4 DEF PlanningInv

\* A publication by the worker is an event of its own, and its source's draft is
\* made from the population right after it.
LEMMA PublishKeepsInv ==
  ASSUME PlanningAssumption, PlanningInv, NEW j \in jobs, NEW status \in {"done", "review"},
         PublishAndPrepare(j, status)
  PROVE  PlanningInv'
<1> DEFINE targets == {s \in Population(latest) \ {j.source} : ~Waiting(s)}
<1> DEFINE new == Queued(latest, rule, clock', {}, targets)
<1>1. /\ clock' = clock + 1 /\ world' = clock'
      /\ published' = [published EXCEPT ![j.source] = latest[j.source]]
      /\ draft' = [draft EXCEPT ![j.source] = [world |-> world', rules |-> leadRules]]
      /\ jobs' = After(j, status, clock') \cup new
      /\ UNCHANGED <<latest, leadRules, rule, writing, plan_jobs>>
      /\ budget' \in Budgets
  BY BudgetTyped DEF PublishAndPrepare, PlanningInv, ruleVars
<1>2. /\ Open(j) /\ writing.by = "none" /\ Authorized(rule) /\ OwedBy(j, j.source)
      /\ j.version = latest[j.source]
  BY DEF PublishAndPrepare, Due, LeadRulesFree, Verdict, Authorized, OwedBy
<1>3. /\ clock \in Nat /\ clock' \in Nat /\ world \in Nat /\ world <= clock /\ leadRules \in Nat
      /\ latest \in [Sources -> Nat] /\ published \in [Sources -> Nat] /\ rule \in Rule
      /\ j.source \in Sources /\ draft \in [Sources -> Draft]
  BY <1>1 DEF PlanningInv, TypeOK, Job
<1>4. targets \in SUBSET Sources /\ \A s \in targets : latest[s] > 0
  BY DEF Population
<1>10. \A s \in Population(latest) : s # j.source /\ ~Waiting(s) => s \in targets
  OBVIOUS
<1> HIDE DEF targets
<1>5. /\ new \subseteq Job
      /\ \A k \in new : /\ k.source \in targets /\ k.version = latest[k.source]
                        /\ k.rule = rule.rev /\ k.event = clock' /\ k.status = "pending"
                        /\ k.attempts = 0 /\ k.ended = 0
      /\ \A k, l \in new : k.source = l.source => k = l
      /\ \A s \in targets : \E k \in new : k.source = s
  BY <1>2, <1>3, <1>4, QueuedJobs
<1> HIDE DEF new
<1>6. /\ jobs \ {j} \subseteq jobs' /\ jobs' \subseteq Job
      /\ \A k, l \in jobs' : k.source = l.source /\ k.event = l.event => k = l
      /\ QueueSound'
  <2>1. \A k \in new :
          /\ k \in Job /\ latest[k.source] > 0 /\ clock' = clock + 1
          /\ k.event = clock' /\ k.status = "pending" /\ k.attempts = 0 /\ k.ended = 0
    BY <1>1, <1>4, <1>5
  <2>2. status # "pending" /\ status # "failed"
    OBVIOUS
  <2>3. /\ Open(j) /\ jobs' = After(j, status, clock') \cup new /\ UNCHANGED <<latest, rule>>
        /\ clock' = clock \/ clock' = clock + 1
        /\ status = "failed" => j.attempts + 1 < MaxAttempts
        /\ status \in {"review", "dead"} => j.version = latest[j.source]
        /\ \A k, l \in new : k.source = l.source => k = l
    BY <1>1, <1>2, <1>5, <2>2
  <2> QED
    BY <2>1, <2>2, <2>3, TurnQueues
<1>7. TypeOK'
  <2>1. draft' \in [Sources -> Draft] /\ \A s \in Sources : draft'[s].world <= world'
    BY <1>1, <1>3 DEF PlanningInv, TypeOK, Draft
  <2>2. published' \in [Sources -> Nat] /\ \A s \in Sources : published'[s] <= latest'[s]
    BY <1>1, <1>3 DEF PlanningInv, TypeOK
  <2>3. leadRules' \in Nat /\ rule' \in Rule /\ writing' \in Writing /\ plan_jobs' \subseteq PlanJob
        /\ latest' \in [Sources -> Nat]
    BY <1>1 DEF PlanningInv, TypeOK
  <2> QED
    BY <1>1, <1>3, <1>6, <2>1, <2>2, <2>3 DEF TypeOK, Budgets
<1>8. NoChangeLost'
  <2> SUFFICES ASSUME NEW s \in Population(latest)
               PROVE  Fresh(s)' \/ Owed(s)'
    BY <1>1 DEF NoChangeLost, AllFollowed
  <2>1. s \in Sources
    BY DEF Population
  <2>2. CASE s = j.source
    BY <1>1, <1>3, <2>2 DEF Fresh
  <2>3. CASE s # j.source /\ Waiting(s)
    <3>1. PICK k \in jobs : /\ k.source = s /\ k.status = "pending" /\ k.rule = rule.rev
                            /\ k.version = latest[s]
      BY <2>3 DEF Waiting
    <3>2. k.attempts < MaxAttempts
      BY <3>1 DEF PlanningInv, QueueSound
    <3>3. k \in jobs'
      BY <1>6, <2>3, <3>1
    <3> QED
      BY <1>1, <3>1, <3>2, <3>3 DEF Owed, Open
  <2>4. CASE s \in targets
    <3>1. PICK k \in new : k.source = s
      BY <1>5, <2>4
    <3>2. MaxAttempts > 0
      BY DEF PlanningAssumption
    <3> QED
      BY <1>1, <1>5, <3>1, <3>2 DEF Owed, Open
  <2> QED
    BY <1>10, <2>2, <2>3, <2>4
<1>9. HandSound' /\ ReadingSound' /\ StillOwed'
  BY <1>1, <1>2 DEF HandSound, ReadingSound, StillOwed
<1> QED
  BY <1>6, <1>7, <1>8, <1>9 DEF PlanningInv

\* Schedules touch nothing of this but their own table.
LEMMA SchedulesKeepInv ==
  ASSUME PlanningAssumption, PlanningInv, SchedulesNext
  PROVE  PlanningInv'
<1> PICK batch \in SUBSET OpenPlanJobs : \E bad \in SUBSET batch : RunSchedules(batch, bad)
  BY DEF SchedulesNext
<1> PICK bad \in SUBSET batch : RunSchedules(batch, bad)
  OBVIOUS
<1>1. /\ plan_jobs' = (plan_jobs \ batch) \cup {Turned(k, k \in bad) : k \in batch}
      /\ UNCHANGED <<latest, published, world, clock, leadRules, rule, draft, jobs, writing>>
      /\ budget' \in Budgets
  BY BudgetTyped DEF RunSchedules, PlanningInv, sourceVars, ruleVars
<1>2. \A k \in batch : Turned(k, k \in bad) \in PlanJob
  <2> SUFFICES ASSUME NEW k \in batch, NEW fails PROVE Turned(k, fails) \in PlanJob
    OBVIOUS
  <2>1. k \in PlanJob /\ k.attempts + 1 \in 0..MaxAttempts
    BY DEF OpenPlanJobs, PlanningInv, TypeOK, PlanJob, PlanningAssumption
  <2> QED
    BY <2>1 DEF Turned, PlanJob
<1>3. plan_jobs' \subseteq PlanJob
  BY <1>1, <1>2 DEF PlanningInv, TypeOK
<1>4. TypeOK'
  BY <1>1, <1>3 DEF PlanningInv, TypeOK, Budgets
<1>5. QueueSound' /\ ReadingSound' /\ StillOwed' /\ HandSound' /\ NoChangeLost'
  BY <1>1 DEF PlanningInv, QueueSound, ReadingSound, StillOwed, HandSound, NoChangeLost,
     Watching, AllFollowed, OwedBy, InHand, Open, Owed, Flagged, Fresh, Population
<1> QED
  BY <1>4, <1>5 DEF PlanningInv

(***************************************************************************)
(* The theorems.                                                           *)
(***************************************************************************)
LEMMA InitEstablishes == ASSUME PlanningAssumption, Init PROVE PlanningInv
<1>1. latest \in [Sources -> Nat] /\ published = latest /\ jobs = {} /\ writing = NoWriting
      /\ clock = 1 /\ world = 1 /\ leadRules = 1
  BY DEF Init
<1>2. draft \in [Sources -> Draft] /\ \A s \in Sources : draft[s].world <= 1
  BY DEF Init, Draft, NoDraft
<1>3. plan_jobs \subseteq PlanJob
  <2>1. 1 \in 0..MaxAttempts
    BY DEF PlanningAssumption
  <2> QED
    BY <2>1 DEF Init, PlanJob
<1>4. budget \in Budgets /\ rule \in Rule
  BY DEF Init, Budgets, Rule, PlanningAssumption
<1>5. TypeOK
  BY <1>1, <1>2, <1>3, <1>4 DEF TypeOK, Budgets, NoWriting, Writing
<1>6. NoChangeLost
  <2> SUFFICES ASSUME NEW s \in Population(latest) PROVE Fresh(s)
    BY DEF NoChangeLost, AllFollowed
  <2>1. s \in Sources /\ s \notin Newcomers
    BY DEF Population, Init
  <2> QED
    BY <1>1, <2>1 DEF Fresh, Init
<1> QED
  BY <1>1, <1>5, <1>6 DEF PlanningInv, QueueSound, HandSound, ReadingSound, StillOwed, NoWriting

LEMMA RefreshKeepsInv == ASSUME PlanningAssumption, PlanningInv, RefreshNext PROVE PlanningInv'
<1>1. CASE WorkerStep
  BY <1>1, RefuseKeepsInv, PublishKeepsInv, EndPrepareKeepsInv, BeginReads, ReadKeepsInv, FailsKeepsInv
  DEF WorkerStep
<1>2. CASE WorkerDies \/ LeaveByHand
  BY <1>2, RollbackKeepsInv
<1>3. CASE \E j \in jobs : RetryJob(j)
  BY <1>3, RetryKeepsInv
<1>4. CASE \E s \in Sources : BeginByHand(s)
  BY <1>4, BeginReads, ReadKeepsInv
<1>5. CASE EndByHand
  BY <1>5, EndByHandKeepsInv
<1> QED
  BY <1>1, <1>2, <1>3, <1>4, <1>5 DEF RefreshNext, PersonEnds

\* The inductive invariant: the queue, the transaction in progress and what it
\* has read fit together.
THEOREM PlanningCorrect == Spec => []PlanningInv
<1>1. Init => PlanningInv
  BY InitEstablishes, PlanningAssumption
<1>2. PlanningInv /\ [Next]_vars => PlanningInv'
  <2> SUFFICES ASSUME PlanningInv, [Next]_vars PROVE PlanningInv'
    OBVIOUS
  <2>1. CASE ChangesNext
    BY <2>1, ChangesKeepInv, PlanningAssumption
  <2>2. CASE RefreshNext
    BY <2>2, RefreshKeepsInv, PlanningAssumption
  <2>3. CASE SchedulesNext
    BY <2>3, SchedulesKeepInv, PlanningAssumption
  <2>4. CASE UNCHANGED vars
    <3>1. UNCHANGED <<latest, published, world, clock, leadRules, rule, draft, jobs, writing, plan_jobs, budget>>
      BY <2>4 DEF vars, sourceVars, ruleVars
    <3> QED
      BY <3>1 DEF PlanningInv, TypeOK, QueueSound, ReadingSound, StillOwed, HandSound, NoChangeLost,
         Watching, AllFollowed, OwedBy, InHand, Open, Owed, Flagged, Fresh, Population
  <2> QED
    BY <2>1, <2>2, <2>3, <2>4 DEF Next
<1> QED
  BY <1>1, <1>2, PTL DEF Spec

\* Every table keeps its shape, and an event has one job for a source.
THEOREM PlanningTypes == Spec => []TypeOK
<1>1. PlanningInv => TypeOK
  BY DEF PlanningInv
<1> QED
  BY <1>1, PlanningCorrect, PTL

\* While the automation is on, a stale draft is owed a refresh or flagged; what was
\* changed while its author was no administrator is followed from the next event on.
THEOREM EveryChangeIsFollowed == Spec => []NoChangeLost
<1>1. PlanningInv => NoChangeLost
  BY DEF PlanningInv
<1> QED
  BY <1>1, PlanningCorrect, PTL

\* Drafts are stored only for demand that is published and current, under the
\* lead-time rules in force.
THEOREM DraftsFollowDemand == Spec => DraftsFitDemand
<1> DEFINE fits == \A s \in Sources : draft'[s] # draft[s] =>
                     published'[s] = latest'[s] /\ draft'[s].rules = leadRules'
<1>1. PlanningInv /\ [Next]_vars => [fits]_vars
  <2> SUFFICES ASSUME PlanningInv, Next PROVE fits
    OBVIOUS
  <2>1. CASE ChangesNext
    BY <2>1 DEF ChangesNext, SavePlan, CreateProject, Publish, ImportSupply, SaveCoverage, SaveLeadRules,
       SaveRule, RevokeAuthor, RestoreAuthor
  <2>2. CASE SchedulesNext
    BY <2>2 DEF SchedulesNext, RunSchedules
  <2>3. ASSUME NEW j \in jobs, NEW status, PublishAndPrepare(j, status) PROVE fits
    BY <2>3 DEF PublishAndPrepare, PlanningInv, TypeOK, ruleVars
  <2>4. ASSUME writing.by # "none", StoreDraft, UNCHANGED <<latest, published, leadRules>> PROVE fits
    BY <2>4 DEF StoreDraft, PlanningInv, TypeOK, ReadingSound
  <2>5. ASSUME NEW j \in jobs, NEW status, EndPrepare(j, status) PROVE fits
    BY <2>4, <2>5 DEF EndPrepare, InHand, sourceVars, ruleVars
  <2>6. CASE EndByHand
    BY <2>4, <2>6 DEF EndByHand, sourceVars, ruleVars
  <2>7. ASSUME draft' = draft PROVE fits
    BY <2>7
  <2>8. CASE RefreshNext
    BY <2>3, <2>5, <2>6, <2>7, <2>8 DEF RefreshNext, WorkerStep, PersonEnds, Refuse, BeginPrepare, Fails,
       WorkerDies, RetryJob, BeginByHand, LeaveByHand
  <2> QED
    BY <2>1, <2>2, <2>8 DEF Next
<1> QED
  BY <1>1, PlanningCorrect, PTL DEF Spec, DraftsFitDemand

\* No job of a rule that was switched off or replaced has an effect.
THEOREM SwitchedOffStops == Spec => DisabledStops
<1> DEFINE stops == \A j \in jobs \ jobs' : draft' # draft => rule'.enabled /\ rule'.rev = j.rule
<1>1. PlanningInv /\ [Next]_vars => [stops]_vars
  <2> SUFFICES ASSUME PlanningInv, Next PROVE stops
    OBVIOUS
  <2>1. ASSUME draft' = draft \/ jobs' = jobs PROVE stops
    BY <2>1
  <2>2. CASE ChangesNext
    BY <2>1, <2>2 DEF ChangesNext, SavePlan, CreateProject, Publish, ImportSupply, SaveCoverage,
       SaveLeadRules, SaveRule, RevokeAuthor, RestoreAuthor
  <2>3. CASE SchedulesNext
    BY <2>1, <2>3 DEF SchedulesNext, RunSchedules
  <2>4. ASSUME NEW j \in jobs, NEW status, PublishAndPrepare(j, status) PROVE stops
    BY <2>4 DEF PublishAndPrepare, Verdict, After, Replaced, ruleVars
  <2>5. ASSUME NEW j \in jobs, NEW status, EndPrepare(j, status) PROVE stops
    <3>1. rule.enabled /\ j.rule = rule.rev
      BY <2>5, HandIsOne DEF EndPrepare, OwedBy
    <3>2. jobs \ {j} \subseteq jobs'
      BY <2>5 DEF EndPrepare, After, Replaced
    <3> QED
      BY <2>5, <3>1, <3>2 DEF EndPrepare, ruleVars
  <2>6. CASE RefreshNext
    BY <2>1, <2>4, <2>5, <2>6 DEF RefreshNext, WorkerStep, PersonEnds, Refuse, BeginPrepare, Fails,
       WorkerDies, RetryJob, BeginByHand, EndByHand, LeaveByHand
  <2> QED
    BY <2>2, <2>3, <2>6 DEF Next
<1> QED
  BY <1>1, PlanningCorrect, PTL DEF Spec, DisabledStops
===================================================================================
