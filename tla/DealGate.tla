------------------------------- MODULE DealGate -------------------------------
(***************************************************************************)
(* The sources, the review, the exception and the signature of one         *)
(* opportunity, together.                                                  *)
(***************************************************************************)
EXTENDS SourceVersions, Approvals, CeoException, SignedSow

\* A request fails after its read: a crash, a lost connection, a deadlock
\* victim, a refused object store or a conflicting project.  Its transaction
\* rolls back; mail already sent stays sent.
Abort(s) ==
  /\ txn[s] # Idle
  /\ txn' = [txn EXCEPT ![s] = Idle]
  /\ UNCHANGED <<sourceVars, pinVars, reviewVars, execVars, signVars, status, task, governance>>

Next ==
  \/ SourceStep
  \/ ReviewStep
  \/ ExecutiveStep
  \/ SignatureStep
  \/ \E s \in Sessions : Abort(s)

Spec == Init /\ [][Next]_vars

(***************************************************************************)
(* Safety.                                                                 *)
(***************************************************************************)

\* A package that may be signed, or was released, carries the approval of all
\* five functions and no refusal, whatever requests raced on it
\* (approvals.decide, ceo_exception.decide, signed_sow.release).
SignableFullyApproved ==
  \A p \in Packages : status[p] \in {"ready_to_sign", "released"} => FullyApproved(p)

\* Separation of duties on every package: each function decided once, each
\* decision by another person, none by the submitter, even after reviewers
\* were rerouted or repaired (approvals.decide, approval_routing).
FourEyes ==
  \A a, b \in approvals : a.pkg = b.pkg =>
    /\ a.who # submitter[a.pkg]
    /\ (a.fn = b.fn \/ a.who = b.who) => a = b

\* A package below a floor is ready to sign only on an executive approval with
\* a written rationale, not by its submitter (ceo_exception.decide).
CeoGate ==
  \A p \in Packages : status[p] = "ready_to_sign" /\ RequiresCeo(p) =>
    /\ exc[p].decision = "approve"
    /\ exc[p].rationale
    /\ exc[p].by \in Deciders \ {submitter[p]}

\* A refused package never comes back: no request in flight revives it
\* (approvals.decide with reject or request_changes).
RefusalIsFinal ==
  \A p \in Packages : Refused(p) => status[p] \in {"rejected", "voided"}

\* Finance and Legal only ever decide what Delivery, HR and Sales approved, and
\* an exception is only drafted for what all five approved below a floor
\* (approvals._advance).
StagesInOrder ==
  \A p \in Packages :
    /\ (\E f \in Stage2 : Decided(p, f)) => \A f \in Stage1 : Approved(p, f)
    /\ exc[p].drafted => FullyApproved(p) /\ RequiresCeo(p)

\* The version a package pins still exists and is confirmed, however versions
\* were revised, deleted or discarded since (sow_lifecycle.delete_version).
PinnedVersionKept ==
  \A p \in Packages : status[p] # "none" => pkgSow[p] \in versions \cap confirmed

\* While the newest submission is unsigned, no newer model prices its version or
\* is unlinked: a change of economics voided it (approvals.void_on_change and its
\* two callers).  One below a floor counts until its review ends: a decision of
\* the executive in flight brings back what was voided meanwhile.
CurrentReviewPricesCurrent ==
  \A p \in Packages :
    /\ status[p] \in Pending \/ (status[p] = "ready_to_sign" /\ ~RequiresCeo(p))
    /\ \A q \in Packages : q > p => status[q] = "none"
    /\ \A i \in DOMAIN uploads : uploads[i].pkg # p
    => \A g \in DOMAIN gms : g > pkgGm[p] => gms[g].sow \notin {0, pkgSow[p]}

\* Released contracts nothing has superseded all stand on one version: an
\* amendment replaces every contract it amends (signed_sow.release, step 4b).
ContractsShareVersion ==
  \A p, q \in Packages :
    status[p] = "released" /\ status[q] = "released" /\ pkgSuper[p] = 0 /\ pkgSuper[q] = 0
    => pkgSow[p] = pkgSow[q]

\* A released package was accepted by delivery, its tasks are filed and an upload
\* of its own carries the release; whatever else was mailed as signed had passed
\* review and acceptance too, also when its release then failed
\* (handoff.check_release_gate, signed_sow.release).
ReleaseHasRecord ==
  \A p \in Packages :
    /\ status[p] = "released" =>
         /\ p \in accepted
         /\ releases[p] > 0
         /\ \E i \in DOMAIN uploads : uploads[i].pkg = p /\ uploads[i].released
    /\ mailed[p] > 0 => p \in accepted /\ FullyApproved(p)

(***************************************************************************)
(* What a step may never do.                                               *)
(***************************************************************************)

\* A new version or model never touches a package that is released or whose
\* signed upload has verified (approvals.void_on_change, S21-16).
SignedSurvivesChange ==
  [][versionCounter' # versionCounter \/ Len(gms') # Len(gms) =>
       \A p \in Packages : status[p] = "released" \/ HasVerified(p) =>
         status'[p] = status[p]]_vars

\* Decisions are only ever added: voiding, quarantine and resubmission keep
\* every recorded row, and a package's pins never change (models/approval.py).
RecordIsAppendOnly ==
  [][/\ approvals \subseteq approvals'
     /\ \A p \in Packages : status[p] # "none" =>
          pkgSow'[p] = pkgSow[p] /\ pkgGm'[p] = pkgGm[p] /\ submitter'[p] = submitter[p]]_vars

\* A review is awaited and its reviewer has no task.
Unfiled(p, f) ==
  /\ f \in ActiveFunctions(status[p])
  /\ ~Decided(p, f)
  /\ task[p][f] \in {"none", "closed"}

\* A rerouting that read an earlier stage of package p, and lets f's task go.
Overtaken(s, p, f) ==
  /\ txn[s].op = "reroute"
  /\ txn[s].pkg = p
  /\ f \in txn[s].plan.dropped
  /\ txn[s].plan.stage # status[p]

\* Stage changes, decisions of other functions, repairs, voids and reroutings of
\* the stage they read never leave an awaited review without a task: only the
\* commit of a rerouting the review has overtaken does (create_tasks, finish_task
\* and close_tasks of approval_workflow, route_missing).
TaskLostOnlyWhenOvertaken ==
  [][\A p \in Packages, f \in Routed : ~Unfiled(p, f) /\ Unfiled(p, f)' =>
       \E s \in Sessions : Overtaken(s, p, f) /\ txn'[s] = Idle]_vars

(***************************************************************************)
(* What the code says of itself and does not do.                           *)
(***************************************************************************)

\* approval_workflow.create_tasks: every assignment of the stage in review has
\* its task.  A rerouting that read the stage before takes it away.
AwaitedReviewHasTask == \A p \in Packages, f \in Routed : ~Unfiled(p, f)

\* approvals_hooks.on_sow_version_created: a brand-new version voids any
\* active package that is not signed.
NewVersionVoids ==
  [][versionCounter' # versionCounter => \A p \in VoidTargets : status'[p] = "voided"]_vars

\* approvals_hooks.on_gm_model_created: a brand-new model voids any active
\* package, so that none is in review at a price it replaced.
NoReviewOutpriced ==
  \A p \in Packages :
    /\ status[p] \in Pending \cup {"ready_to_sign"} /\ IsCurrent(pkgSow[p])
    /\ \A i \in DOMAIN uploads : uploads[i].pkg # p
    => \A g \in DOMAIN gms : g > pkgGm[p] => gms[g].sow \notin {0, pkgSow[p]}

\* approvals.py on _TERMINAL_STATUSES: a voided package takes no decision.
VoidedIsTerminal ==
  [][\A p \in Packages : status[p] = "voided" => status'[p] = "voided"]_vars

\* ceo_exception.decide: a recorded decision is set once.
CeoDecisionOnce ==
  [][\A p \in Packages : exc[p].decision # "none" =>
       exc'[p].decision = exc[p].decision /\ exc'[p].by = exc[p].by]_vars

\* mark_released: only a package that is ready to sign can be released.
ReleasesReadyPackage ==
  [][\A p \in Packages : releases'[p] # releases[p] => status[p] = "ready_to_sign"]_vars

\* tasks.transition_task: approval work is resolved from the review stream, so
\* the task of an awaited review is open.
AwaitedReviewStaysOpen ==
  \A p \in Packages : \A f \in ActiveFunctions(status[p]) :
    ~Decided(p, f) => task[p][f] \in OpenTask

(***************************************************************************)
(* The abstract gate this implements.                                      *)
(***************************************************************************)
clearedBar == [p \in Packages |-> {f \in Functions : Approved(p, f)}]
exceptedBar == [p \in Packages |-> exc[p].decision = "approve"]
belowBar == {p \in Packages : pkgGm[p] # 0 /\ RequiresCeo(p)}
openBar == {p \in Packages : status[p] \in {"ready_to_sign", "released"}}

Gate == INSTANCE SignatureGate WITH
  Items <- Packages, First <- Stage1, Second <- Stage2,
  cleared <- clearedBar, excepted <- exceptedBar, below <- belowBar, open <- openBar

ImplementsGate == Gate!GateSpec
===============================================================================
