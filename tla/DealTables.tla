------------------------------ MODULE DealTables ------------------------------
(***************************************************************************)
(* The database rows behind one opportunity, and the helpers every         *)
(* service reads them with.  A row id is its position: SOW versions are    *)
(* numbered by Sow.version_counter, GM models and signed uploads by the    *)
(* order they commit in, approval packages by the order they are           *)
(* submitted in, so "newest" is "largest".                                 *)
(*                                                                         *)
(* Every service that audits takes one advisory lock in append_audit and   *)
(* holds it to its commit (app/audit.py).  A handler that reads the rows   *)
(* its decision rests on under that lock, or under the opportunity's or    *)
(* the package's FOR UPDATE row lock, is one action.  A handler that reads *)
(* them before any of those locks is two: a read that leaves a request in  *)
(* txn[s], and a commit that writes from what was read.                    *)
(***************************************************************************)
EXTENDS Integers, Sequences, FiniteSets

CONSTANTS
  Users,        \* every person with an account
  NoOne,        \* a null approver
  Owners,       \* accounts that may submit this opportunity
  Replacements, \* <<function, account>> an administrator may repair to
  Deciders,     \* holders of the CEO group, and the active CEO delegate
  Approvers, Refusers, \* accounts that approve, and that refuse (bound a run)
  Results,      \* outcomes of signature callbacks (bounds a run)
  Outcomes,     \* margin outcomes new models have (bounds a run)
  InitRoster,   \* approval group membership at the start
  GroupChoices, \* <<function, members>> save_group may store
  Sessions,     \* concurrent requests of the unlocked handlers
  Ops,          \* the unlocked handlers that take part (bounds a run)
  MaxSow, MaxGm, MaxPkg, MaxUpload, MaxMail  \* bounds on rows and mailings

Stage1 == {"delivery", "hr", "sales"}
Stage2 == {"finance", "legal"}
Functions == Stage1 \cup Stage2
Routed == Functions \cup {"executive"}
AllOps == {"ceo", "void", "callback", "release", "revise", "upload", "discard", "delete",
           "route", "repair"}

ASSUME UsersAssumption == 
  /\ NoOne \notin Users
  /\ Owners \cup Deciders \cup Approvers \cup Refusers \subseteq Users
  /\ Replacements \subseteq Routed \X Users
ASSUME RosterAssumption ==
  /\ InitRoster \in [Functions -> SUBSET Users]
  /\ GroupChoices \subseteq Functions \X SUBSET Users
ASSUME OpsAssumption == Ops \subseteq AllOps
ASSUME OutcomesAssumption ==
  /\ Outcomes \subseteq {"clear", "below", "incomplete"}
  /\ Results \subseteq {"verified", "blocked", "declined", "expired"}
ASSUME BoundsAssumption ==
  \A m \in {MaxSow, MaxGm, MaxPkg, MaxUpload, MaxMail} : m \in Nat

VARIABLES
  \* sow, sow_version
  versionCounter,  \* Sow.version_counter
  versions,        \* version numbers whose row exists
  confirmed,       \* confirmed_at is set
  discarded,       \* discarded_at is set
  supersededBy,    \* superseded_by, 0 for null
  \* gm_model
  gms,             \* <<[sow, floor]>> in commit order
  \* approval_group, approval_package, approval_assignment, task, approval
  roster,          \* function -> members
  status,          \* package -> ApprovalPackage.status
  pkgSow, pkgGm,   \* package -> pinned version and GM model
  submitter,       \* package -> submitted_by
  pkgSuper,        \* package -> superseded_by, 0 for null
  assign,          \* package -> function -> assigned approver
  task,            \* package -> function -> its task
  approvals,       \* recorded decisions
  \* ceo_exception, approval_condition_evidence
  exc,             \* package -> its exception
  lapsed,          \* packages whose exception's valid_until has passed
  evidence,        \* packages with condition evidence
  \* signed_sow_upload, delivery_acceptance, release side effects
  uploads,         \* <<[pkg, status, released]>> in commit order
  accepted,        \* packages with a delivery_acceptance row
  mailed,          \* package -> distribution mails sent out
  releases,        \* package -> committed sets of kickoff and billing tasks
  churned,         \* a renewal of the opportunity is churned
  governance,      \* Opportunity.governance_status
  txn              \* session -> the unlocked request it is serving

sowVars == <<versionCounter, versions, confirmed, discarded, supersededBy>>
sourceVars == <<sowVars, gms>>
pinVars == <<pkgSow, pkgGm, submitter>>
reviewVars == <<roster, assign, approvals>>
execVars == <<exc, lapsed, evidence>>
signVars == <<uploads, accepted, mailed, releases, churned, pkgSuper>>
vars == <<sourceVars, pinVars, reviewVars, execVars, signVars,
          status, task, governance, txn>>

Packages == 1..MaxPkg
VersionIds == 1..MaxSow
Floors == {"clear", "below", "incomplete"}
Pending == {"pending_delivery_hr", "pending_finance_legal", "pending_ceo_exception"}
Status == Pending \cup {"none", "ready_to_sign", "released", "voided", "rejected"}
Verdicts == {"approve", "reject"}
Terms == {"conditions", "until"}
OpenTask == {"open", "repaired"}
TaskStatus == OpenTask \cup {"none", "finished", "closed"}
UploadStatus == {"pending", "verified", "blocked", "declined", "expired"}
CeoArgs == {"approve", "approve_conditions", "approve_until", "reject"}
Args == CeoArgs \cup UploadStatus \cup Routed \cup {"none", "same"}
Uploads == [pkg : Packages, status : UploadStatus, released : BOOLEAN]
Approvals == [pkg : Packages, fn : Functions, who : Users, verdict : Verdicts]
Exceptions == [drafted : BOOLEAN, rationale : BOOLEAN,
               decision : Verdicts \cup {"none"},
               by : Users \cup {NoOne}, terms : SUBSET Terms]

\* What a rerouting has read and decided: the package's status, the functions
\* found decided, the new approvers, the tasks to file and those to let go.
Plans == [stage : Pending \cup {"none"}, seen : SUBSET Routed,
          to : [Routed -> Users \cup {NoOne}],
          filed : SUBSET Routed, dropped : SUBSET Routed]
NoPlan == [stage |-> "none", seen |-> {}, to |-> [f \in Routed |-> NoOne],
           filed |-> {}, dropped |-> {}]

\* A rerouting has read the status ("route"), the decisions too ("loaded"), or
\* everything it needs ("reroute").
RequestOps == AllOps \cup {"idle", "loaded", "reroute"}
Requests == [op : RequestOps, pkg : 0..MaxPkg, row : Nat,
             who : Users \cup {NoOne}, arg : Args, plan : Plans]
NoException == [drafted |-> FALSE, rationale |-> FALSE, decision |-> "none",
                by |-> NoOne, terms |-> {}]

Request(op, p, row, who, arg) ==
  [op |-> op, pkg |-> p, row |-> row, who |-> who, arg |-> arg, plan |-> NoPlan]
Planned(op, p, plan) ==
  [op |-> op, pkg |-> p, row |-> 0, who |-> NoOne, arg |-> "none", plan |-> plan]
Idle == Request("idle", 0, 0, NoOne, "none")

(***************************************************************************)
(* SOW versions.                                                           *)
(***************************************************************************)
\* A version that is neither superseded nor discarded.
Operative(v) == v \in versions /\ v \notin discarded /\ supersededBy[v] = 0

\* The operative version with the highest number.
IsCurrent(v) == Operative(v) /\ \A w \in VersionIds : Operative(w) => w <= v

(***************************************************************************)
(* Packages and their reviews.                                             *)
(***************************************************************************)
Live(p) == status[p] \notin {"none", "voided", "rejected"}

\* active_package_for: the newest package that is neither voided nor rejected.
IsActive(p) == Live(p) /\ \A q \in Packages : Live(q) => q <= p

ActiveFunctions(st) ==
  CASE st = "pending_delivery_hr" -> Stage1
    [] st = "pending_finance_legal" -> Stage2
    [] st = "pending_ceo_exception" -> {"executive"}
    [] OTHER -> {}

Decided(p, f) == \E a \in approvals : a.pkg = p /\ a.fn = f
Approved(p, f) == \E a \in approvals : a.pkg = p /\ a.fn = f /\ a.verdict = "approve"
Refused(p) == \E a \in approvals : a.pkg = p /\ a.verdict = "reject"
FullyApproved(p) == ~Refused(p) /\ \A f \in Functions : Approved(p, f)

HasVerified(p) ==
  \E i \in DOMAIN uploads : uploads[i].pkg = p /\ uploads[i].status = "verified"

\* A released package, or one with a verified upload, rests on version v.
SignedBasis(v) ==
  \E p \in Packages : pkgSow[p] = v /\ (status[p] = "released" \/ HasVerified(p))

(***************************************************************************)
(* Tasks.                                                                  *)
(***************************************************************************)
\* close_tasks: every open task of row t is closed.
Closed(t) == [f \in Routed |-> IF t[f] \in OpenTask THEN "closed" ELSE t[f]]

\* create_tasks: an assignment active in state st that has no task gets one.
WithTasks(t, people, st) ==
  [f \in Routed |-> IF f \in ActiveFunctions(st) /\ people[f] # NoOne /\ t[f] = "none"
                    THEN "open" ELSE t[f]]

(***************************************************************************)
(* void_on_change: the newest live package, unless it is released or its   *)
(* signed upload has verified.                                             *)
(***************************************************************************)
\* Fault: a verified signature no longer protects a package.
VoidTargets_Unreleased ==
  {p \in Packages : IsActive(p) /\ status[p] # "released"}
VoidTargets ==
  {p \in Packages : IsActive(p) /\ status[p] # "released" /\ ~HasVerified(p)}

Void(targets) ==
  /\ status' = [p \in Packages |-> IF p \in targets THEN "voided" ELSE status[p]]
  /\ task' = [p \in Packages |-> IF p \in targets THEN Closed(task[p]) ELSE task[p]]

(***************************************************************************)
(* Types, table by table.                                                  *)
(***************************************************************************)
SowTypes ==
  /\ versionCounter \in 0..MaxSow
  /\ versions \subseteq VersionIds
  /\ confirmed \subseteq VersionIds
  /\ discarded \subseteq VersionIds
  /\ supersededBy \in [VersionIds -> 0..MaxSow]

GmTypes == gms \in Seq([sow : 0..MaxSow, floor : Floors]) /\ Len(gms) <= MaxGm

PinTypes ==
  /\ pkgSow \in [Packages -> 0..MaxSow]
  /\ pkgGm \in [Packages -> 0..MaxGm]
  /\ submitter \in [Packages -> Users \cup {NoOne}]

RosterTypes == roster \in [Functions -> SUBSET Users]
AssignTypes == assign \in [Packages -> [Routed -> Users \cup {NoOne}]]
ApprovalTypes == approvals \subseteq Approvals
StatusTypes == status \in [Packages -> Status]
TaskTypes == task \in [Packages -> [Routed -> TaskStatus]]
ExceptionTypes == exc \in [Packages -> Exceptions]
EvidenceTypes == lapsed \subseteq Packages /\ evidence \subseteq Packages
UploadTypes == uploads \in Seq(Uploads)

ReleaseTypes ==
  /\ pkgSuper \in [Packages -> 0..MaxPkg]
  /\ accepted \subseteq Packages
  /\ mailed \in [Packages -> 0..MaxMail]
  /\ releases \in [Packages -> Nat]
  /\ churned \in BOOLEAN

DealTypes == governance \in {"Intake", "SOWDraft", "SOWDraft.confirmed"}

\* A request in flight names what its commit writes.
RequestTypes ==
  /\ txn \in [Sessions -> Requests]
  /\ \A s \in Sessions :
       /\ txn[s].op \in {"ceo", "void", "callback", "release", "upload",
                         "route", "loaded", "reroute", "repair"} =>
            txn[s].pkg \in Packages
       /\ txn[s].op = "callback" => txn[s].arg \in UploadStatus \cup {"same"}
       /\ txn[s].op = "repair" => txn[s].arg \in Routed

\* Every row has the shape its table gives it, and every request in flight
\* names the rows its commit will write.
TypeOK ==
  /\ SowTypes /\ GmTypes /\ PinTypes /\ RosterTypes /\ AssignTypes /\ ApprovalTypes
  /\ StatusTypes /\ TaskTypes /\ ExceptionTypes /\ EvidenceTypes /\ UploadTypes
  /\ ReleaseTypes /\ DealTypes /\ RequestTypes

Init ==
  /\ versionCounter = 0
  /\ versions = {}
  /\ confirmed = {}
  /\ discarded = {}
  /\ supersededBy = [v \in VersionIds |-> 0]
  /\ gms = <<>>
  /\ roster = InitRoster
  /\ status = [p \in Packages |-> "none"]
  /\ pkgSow = [p \in Packages |-> 0]
  /\ pkgGm = [p \in Packages |-> 0]
  /\ submitter = [p \in Packages |-> NoOne]
  /\ pkgSuper = [p \in Packages |-> 0]
  /\ assign = [p \in Packages |-> [f \in Routed |-> NoOne]]
  /\ task = [p \in Packages |-> [f \in Routed |-> "none"]]
  /\ approvals = {}
  /\ exc = [p \in Packages |-> NoException]
  /\ lapsed = {}
  /\ evidence = {}
  /\ uploads = <<>>
  /\ accepted = {}
  /\ mailed = [p \in Packages |-> 0]
  /\ releases = [p \in Packages |-> 0]
  /\ churned = FALSE
  /\ governance = "Intake"
  /\ txn = [s \in Sessions |-> Idle]
===============================================================================
