------------------------------- MODULE Approvals -------------------------------
(***************************************************************************)
(* The functional review of a package: approvals.py, approval_workflow.py, *)
(* approval_routing.py, approval_remediation.py, and the task board.      *)
(***************************************************************************)
EXTENDS DealTables

RequiresCeo(p) == gms[pkgGm[p]].floor # "clear"

\* submission_plan: one member per function, nobody twice, never the submitter;
\* below a floor also a CEO decider, never the submitter.
Teams ==
  {[f \in Functions |-> CASE f = "delivery" -> d [] f = "hr" -> h [] f = "sales" -> s
                          [] f = "finance" -> i [] OTHER -> l] :
     d \in roster["delivery"], h \in roster["hr"], s \in roster["sales"],
     i \in roster["finance"], l \in roster["legal"]}

Separate(u, team) ==
  /\ \A f \in Functions : team[f] # u
  /\ \A f, g \in Functions : f # g => team[f] # team[g]

Executives(u) == IF gms[Len(gms)].floor = "below" THEN Deciders \ {u} ELSE {NoOne}
Reviewers(team, boss) == [f \in Routed |-> IF f = "executive" THEN boss ELSE team[f]]

\* Each submission is a row of its own, whatever became of the ones before.
FreshRow(p) == status[p] = "none" /\ \A q \in Packages : q < p => status[q] # "none"

\* The sources a submission may pin: the current version, confirmed, and the
\* newest model, complete and not of another version, which no live package
\* already pins together.
Submittable(v) ==
  LET g == Len(gms) IN
  /\ g > 0
  /\ gms[g].floor # "incomplete"
  /\ IsCurrent(v)
  /\ v \in confirmed
  /\ gms[g].sow \in {0, v}
  /\ ~\E q \in Packages : Live(q) /\ pkgSow[q] = v /\ pkgGm[q] = g

\* The package row, its assignments and its first tasks.
Pin(u, p, v, people) ==
  /\ pkgSow' = [pkgSow EXCEPT ![p] = v]
  /\ pkgGm' = [pkgGm EXCEPT ![p] = Len(gms)]
  /\ submitter' = [submitter EXCEPT ![p] = u]
  /\ status' = [status EXCEPT ![p] = "pending_delivery_hr"]
  /\ assign' = [assign EXCEPT ![p] = people]
  /\ task' = [task EXCEPT ![p] = WithTasks(@, people, "pending_delivery_hr")]

\* submit_package, under the opportunity lock.  Other live packages are left
\* alone.
Submit(u, p) ==
  /\ FreshRow(p)
  /\ ~churned
  /\ \E v \in VersionIds : Submittable(v) /\
       \E team \in Teams, boss \in Executives(u) :
         Separate(u, team) /\ Pin(u, p, v, Reviewers(team, boss))
  /\ UNCHANGED <<sourceVars, roster, approvals, execVars, signVars, governance, txn>>

\* Fault: the assignment alone authorises, as if routing kept people apart.
MayDecide_AssignmentOnly(u, p, f) ==
  /\ f \in ActiveFunctions(status[p]) \cap Functions
  /\ assign[p][f] = u
  /\ ~Decided(p, f)

\* Fault: every function of a package in review may decide.
MayDecide_AnyStage(u, p, f) ==
  /\ status[p] \in Pending
  /\ u # submitter[p]
  /\ u \in roster[f]
  /\ assign[p][f] = u
  /\ ~Decided(p, f)

\* The guards of decide, read under the package's row lock.
MayDecide(u, p, f) ==
  /\ f \in ActiveFunctions(status[p]) \cap Functions
  /\ u # submitter[p]
  /\ u \in roster[f]
  /\ assign[p][f] = u
  /\ ~Decided(p, f)
  /\ ~\E a \in approvals : a.pkg = p /\ a.who = u

Decision(u, p, f, verdict) == [pkg |-> p, fn |-> f, who |-> u, verdict |-> verdict]
\* Fault: one decision closes the whole package's tasks.
Finished_All(t, f) == Closed(t)
Finished(t, f) == [t EXCEPT ![f] = IF @ \in OpenTask THEN "closed" ELSE @]

\* Fault: the first complete stage ends the functional review.
NextStage_Single(p) ==
  IF RequiresCeo(p) THEN "pending_ceo_exception" ELSE "ready_to_sign"
\* Fault: the floor is not looked at again when the review completes.
NextStage_NoExecutive(p) ==
  IF status[p] = "pending_delivery_hr" THEN "pending_finance_legal" ELSE "ready_to_sign"

\* _advance: where a package goes once its stage is complete.
NextStage(p) ==
  IF status[p] = "pending_delivery_hr" THEN "pending_finance_legal"
  ELSE IF RequiresCeo(p) THEN "pending_ceo_exception" ELSE "ready_to_sign"

\* decide, approving: the last function of a stage advances the package, files
\* the next stage's tasks and drafts the exception of one below a floor.
DecideApprove(u, p, f) ==
  LET complete == \A g \in ActiveFunctions(status[p]) : g = f \/ Decided(p, g)
      to == IF complete THEN NextStage(p) ELSE status[p] IN
  /\ MayDecide(u, p, f)
  /\ approvals' = approvals \cup {Decision(u, p, f, "approve")}
  /\ status' = [status EXCEPT ![p] = to]
  /\ task' = [task EXCEPT ![p] =
       IF complete THEN WithTasks(Finished(@, f), assign[p], to) ELSE Finished(@, f)]
  /\ exc' = [exc EXCEPT ![p].drafted = @ \/ to = "pending_ceo_exception"]
  /\ UNCHANGED <<sourceVars, pinVars, roster, assign, lapsed, evidence, signVars,
                 governance, txn>>

\* Fault: a refusal is recorded and the package stays in review.
DecideReject_StaysOpen(u, p, f) ==
  /\ MayDecide(u, p, f)
  /\ approvals' = approvals \cup {Decision(u, p, f, "reject")}
  /\ task' = [task EXCEPT ![p] = Finished(@, f)]
  /\ UNCHANGED <<sourceVars, pinVars, roster, assign, execVars, signVars, status,
                 governance, txn>>

\* decide, rejecting or requesting changes: every task of the package is
\* cancelled and the opportunity goes back to its owner.
DecideReject(u, p, f) ==
  /\ MayDecide(u, p, f)
  /\ approvals' = approvals \cup {Decision(u, p, f, "reject")}
  /\ status' = [status EXCEPT ![p] = "rejected"]
  /\ task' = [task EXCEPT ![p] = Closed(@)]
  /\ governance' = "SOWDraft"
  /\ UNCHANGED <<sourceVars, pinVars, roster, assign, execVars, signVars, txn>>

\* manual_void: reads the status without a lock.
ManualVoidRead(s, p) ==
  /\ "void" \in Ops
  /\ txn[s] = Idle
  /\ status[p] \notin {"none", "ready_to_sign", "voided", "rejected"}
  /\ txn' = [txn EXCEPT ![s] = Request("void", p, 0, NoOne, "none")]
  /\ UNCHANGED <<sourceVars, pinVars, reviewVars, execVars, signVars, status, task, governance>>

\* quarantine_recorded_decision: a decision of this function is recorded and
\* its approver turns out to be outside the trusted scope.
QuarantineRead(s, p, f) ==
  /\ "void" \in Ops
  /\ txn[s] = Idle
  /\ status[p] \notin {"none", "released", "voided"}
  /\ Decided(p, f)
  /\ txn' = [txn EXCEPT ![s] = Request("void", p, 0, NoOne, "none")]
  /\ UNCHANGED <<sourceVars, pinVars, reviewVars, execVars, signVars, status, task, governance>>

\* Both end the same way, whatever the status has become meanwhile.
VoidCommit(s) ==
  /\ txn[s].op = "void"
  /\ Void({txn[s].pkg})
  /\ txn' = [txn EXCEPT ![s] = Idle]
  /\ UNCHANGED <<sourceVars, pinVars, reviewVars, execVars, signVars, governance>>

\* save_group: membership changes under packages already in review.
SaveGroup(f, members) ==
  /\ roster' = [roster EXCEPT ![f] = members]
  /\ UNCHANGED <<sourceVars, pinVars, assign, approvals, execVars, signVars, status,
                 task, governance, txn>>

\* Who may be routed a function, and the assignments a package has.
Members(f) == IF f = "executive" THEN Deciders ELSE roster[f]
Rows(p) == {f \in Routed : assign[p][f] # NoOne}

\* The assignments not seen decided whose reviewer is no longer a member, and
\* the reviewers that stay.
Stranded(p, seen) == {f \in Rows(p) \ seen : assign[p][f] \notin Members(f)}
Staying(p, seen) == {assign[p][f] : f \in Rows(p) \ Stranded(p, seen)}

\* The route endpoint: the package's status is read once, without a lock.
RouteStart(s, p) ==
  /\ "route" \in Ops
  /\ txn[s] = Idle
  /\ status[p] \in Pending
  /\ txn' = [txn EXCEPT ![s] = Planned("route", p, [NoPlan EXCEPT !.stage = status[p]])]
  /\ UNCHANGED <<sourceVars, pinVars, reviewVars, execVars, signVars, status, task, governance>>

\* load_package in route_missing: the decisions are read afresh, the status is not.
RouteLoad(s) ==
  LET p == txn[s].pkg IN
  /\ txn[s].op = "route"
  /\ txn' = [txn EXCEPT ![s] = Planned("loaded", p,
       [txn[s].plan EXCEPT !.seen = {f \in Functions : Decided(p, f)}])]
  /\ UNCHANGED <<sourceVars, pinVars, reviewVars, execVars, signVars, status, task, governance>>

\* The new approvers route_missing may choose: a member who is not the submitter
\* and, but for the executive, was given nothing else; nobody only when there
\* is no such member.
Reroutings(p, seen) ==
  LET lost == Stranded(p, seen)
      staying == Staying(p, seen) IN
  {new \in [lost -> Users \cup {NoOne}] :
     LET moved == {f \in lost : new[f] # NoOne}
         used == staying \cup {new[f] : f \in moved} IN
     /\ \A f \in moved : new[f] \in Members(f) \ {submitter[p]}
     /\ \A f \in moved \cap Functions :
          /\ new[f] \notin staying
          /\ \A g \in moved \cap Functions : f # g => new[f] # new[g]
     /\ \A f \in lost \ moved :
          Members(f) \subseteq {submitter[p]} \cup (IF f \in Functions THEN used ELSE {})}

\* route_missing: groups and assignments are read, still without a lock, and
\* the rest follows from what was read.  A moved assignment lets its task go;
\* create_tasks files one for each assignment without, of the stage read first.
RoutePlan(s) ==
  LET p == txn[s].pkg
      plan == txn[s].plan
      bare == {f \in Rows(p) : task[p][f] = "none"} IN
  /\ txn[s].op = "loaded"
  /\ \E new \in Reroutings(p, plan.seen) :
       LET moved == {f \in DOMAIN new : new[f] # NoOne} IN
       txn' = [txn EXCEPT ![s] = Planned("reroute", p,
         [stage |-> plan.stage, seen |-> {},
          to |-> [f \in Routed |-> IF f \in moved THEN new[f] ELSE NoOne],
          filed |-> ActiveFunctions(plan.stage) \cap (moved \cup bare),
          dropped |-> (moved \ bare) \ ActiveFunctions(plan.stage)])]
  /\ UNCHANGED <<sourceVars, pinVars, reviewVars, execVars, signVars, status, task, governance>>

\* route_missing, its writes, serialised by the audit lock: only the columns
\* that change, whatever the package has become meanwhile.
RouteCommit(s) ==
  LET p == txn[s].pkg
      plan == txn[s].plan IN
  /\ txn[s].op = "reroute"
  /\ assign' = [assign EXCEPT ![p] =
       [f \in Routed |-> IF plan.to[f] # NoOne THEN plan.to[f] ELSE assign[p][f]]]
  /\ task' = [task EXCEPT ![p] =
       [f \in Routed |-> IF f \in plan.filed THEN "open"
                         ELSE IF f \in plan.dropped THEN "none" ELSE task[p][f]]]
  /\ txn' = [txn EXCEPT ![s] = Idle]
  /\ UNCHANGED <<sourceVars, pinVars, roster, approvals, execVars, signVars, status, governance>>

\* repair_pending_assignment, its checks, without a lock: an administrator names
\* any account at all for an undecided function.  The account it has already is
\* not written again.
RepairRead(s, p, f, u) ==
  /\ "repair" \in Ops
  /\ txn[s] = Idle
  /\ status[p] \in Pending \cup {"ready_to_sign"}
  /\ f \in Rows(p)
  /\ ~Decided(p, f)
  /\ txn' = [txn EXCEPT ![s] =
       Request("repair", p, 0, IF u = assign[p][f] THEN NoOne ELSE u, f)]
  /\ UNCHANGED <<sourceVars, pinVars, reviewVars, execVars, signVars, status, task, governance>>

\* Its writes.  The task that account gets is not of the category of review tasks.
RepairCommit(s) ==
  LET p == txn[s].pkg
      f == txn[s].arg
      u == txn[s].who IN
  /\ txn[s].op = "repair"
  /\ assign' = [assign EXCEPT ![p][f] = IF u = NoOne THEN @ ELSE u]
  /\ task' = [task EXCEPT ![p][f] = "repaired"]
  /\ txn' = [txn EXCEPT ![s] = Idle]
  /\ UNCHANGED <<sourceVars, pinVars, roster, approvals, execVars, signVars, status, governance>>

\* tasks.transition_task: the task board refuses to finish a review task, which
\* it knows by its category.
FinishOnBoard(p, f) ==
  /\ task[p][f] = "repaired"
  /\ task' = [task EXCEPT ![p][f] = "finished"]
  /\ UNCHANGED <<sourceVars, pinVars, reviewVars, execVars, signVars, status, governance, txn>>

\* The steps of rerouting and repair.
RoutingStep(s) ==
  \/ \E p \in Packages :
       RouteStart(s, p) \/ \E r \in Replacements : RepairRead(s, p, r[1], r[2])
  \/ RouteLoad(s) \/ RoutePlan(s) \/ RouteCommit(s) \/ RepairCommit(s)

ReviewStep ==
  \/ \E u \in Owners, p \in Packages : Submit(u, p)
  \/ \E p \in Packages, f \in Functions :
       \/ \E u \in Approvers : DecideApprove(u, p, f)
       \/ \E u \in Refusers : DecideReject(u, p, f)
  \/ \E s \in Sessions, p \in Packages :
       \/ ManualVoidRead(s, p)
       \/ \E f \in Functions : QuarantineRead(s, p, f)
  \/ \E s \in Sessions : VoidCommit(s) \/ RoutingStep(s)
  \/ \E choice \in GroupChoices : SaveGroup(choice[1], choice[2])
  \/ \E p \in Packages, f \in Routed : FinishOnBoard(p, f)
===============================================================================
