----------------------------- MODULE DealGateTypes -----------------------------
(***************************************************************************)
(* Type correctness of DealGate: TypeOK is inductive.  Each action gets a  *)
(* lemma; what it leaves alone is dispatched in the lemma's last step.     *)
(***************************************************************************)
EXTENDS DealGate, SequenceTheorems, TLAPS

\* The bounds are natural numbers.
LEMMA Bounds ==
  MaxSow \in Nat /\ MaxGm \in Nat /\ MaxPkg \in Nat /\ MaxUpload \in Nat /\ MaxMail \in Nat
  BY BoundsAssumption

(***************************************************************************)
(* What the helpers on tasks return.                                       *)
(***************************************************************************)
Tasks == [Routed -> TaskStatus]

\* Closing tasks keeps a row of tasks.
LEMMA ClosedType == \A t \in Tasks : Closed(t) \in Tasks
  BY DEF Tasks, Closed, TaskStatus, OpenTask

\* So does finishing one.
LEMMA FinishedType == \A t \in Tasks, f \in Functions : Finished(t, f) \in Tasks
  BY DEF Tasks, Finished, TaskStatus, OpenTask, Routed

\* So does filing those of a stage.
LEMMA WithTasksType == \A t \in Tasks : \A people, st : WithTasks(t, people, st) \in Tasks
  BY DEF Tasks, WithTasks, TaskStatus, OpenTask

\* Voiding keeps statuses and tasks.
LEMMA VoidType ==
  ASSUME StatusTypes, TaskTypes, NEW targets, Void(targets)
  PROVE  StatusTypes' /\ TaskTypes'
<1>1. StatusTypes'
  BY DEF StatusTypes, Void, Status
<1>2. TaskTypes'
  BY ClosedType DEF TaskTypes, Void, Tasks
<1> QED BY <1>1, <1>2

(***************************************************************************)
(* What a session may come to serve.                                       *)
(***************************************************************************)
\* A request of the usual kind plans nothing.
LEMMA RequestType ==
  ASSUME NEW op \in RequestOps, NEW p \in 0..MaxPkg, NEW row \in Nat,
         NEW who \in Users \cup {NoOne}, NEW arg \in Args
  PROVE  Request(op, p, row, who, arg) \in Requests
<1>1. NoPlan \in Plans
  BY DEF NoPlan, Plans
<1> QED BY <1>1 DEF Request, Requests

\* The columns of a request.
LEMMA RequestColumns ==
  ASSUME NEW op, NEW p, NEW row, NEW who, NEW arg
  PROVE  /\ Request(op, p, row, who, arg).op = op
         /\ Request(op, p, row, who, arg).pkg = p
         /\ Request(op, p, row, who, arg).arg = arg
  BY DEF Request

\* The idle request is one.
LEMMA IdleType == Idle \in Requests /\ Idle.op = "idle"
<1>1. "idle" \in RequestOps /\ 0 \in 0..MaxPkg /\ NoOne \in Users \cup {NoOne} /\ "none" \in Args
  BY Bounds DEF RequestOps, Args
<1> QED BY <1>1, RequestType, RequestColumns DEF Idle

\* The values requests are made of.
LEMMA Vocabulary ==
  /\ {"ceo", "void", "callback", "release", "revise", "upload", "repair"} \subseteq AllOps
  /\ \A p \in Packages : p \in 0..MaxPkg
  /\ 0 \in 0..MaxPkg /\ \A v \in VersionIds \cup {0} : v \in Nat
  /\ NoOne \in Users \cup {NoOne} /\ Deciders \subseteq Users
  /\ "none" \in Args /\ CeoArgs \subseteq Args /\ Routed \subseteq Args
  /\ Results \subseteq UploadStatus /\ UploadStatus \cup {"same"} \subseteq Args
  BY Bounds, UsersAssumption, OutcomesAssumption
  DEF AllOps, Packages, VersionIds, Args, UploadStatus

\* A session that turns to a request naming what it will write keeps its type.
LEMMA Asks ==
  ASSUME TypeOK, NEW s \in Sessions, NEW op \in AllOps, NEW p \in 0..MaxPkg, NEW row \in Nat,
         NEW who \in Users \cup {NoOne}, NEW arg \in Args,
         p \in Packages \/ op = "revise",
         op = "callback" => arg \in UploadStatus \cup {"same"},
         op = "repair" => arg \in Routed,
         txn' = [txn EXCEPT ![s] = Request(op, p, row, who, arg)]
  PROVE  RequestTypes'
<1> DEFINE r == Request(op, p, row, who, arg)
<1>1. r \in Requests /\ r.op = op /\ r.pkg = p /\ r.arg = arg
  BY RequestType, RequestColumns DEF RequestOps
<1>2. txn' = [txn EXCEPT ![s] = r]
  OBVIOUS
<1> HIDE DEF r
<1> QED BY <1>1, <1>2 DEF TypeOK, RequestTypes

\* So does one that is done.
LEMMA Ends ==
  ASSUME TypeOK, NEW s \in Sessions, txn' = [txn EXCEPT ![s] = Idle]
  PROVE  RequestTypes'
  BY IdleType DEF TypeOK, RequestTypes

\* So does one that reroutes a package.
LEMMA Reroutes ==
  ASSUME TypeOK, NEW s \in Sessions, NEW op \in {"route", "loaded", "reroute"},
         NEW p \in Packages, NEW plan \in Plans,
         txn' = [txn EXCEPT ![s] = Planned(op, p, plan)]
  PROVE  RequestTypes'
<1> DEFINE r == Planned(op, p, plan)
<1>1. r \in Requests /\ r.op = op /\ r.pkg = p
  BY Bounds DEF Planned, Requests, RequestOps, AllOps, Args, Packages
<1>2. txn' = [txn EXCEPT ![s] = r]
  OBVIOUS
<1> HIDE DEF r
<1> QED BY <1>1, <1>2 DEF TypeOK, RequestTypes

(***************************************************************************)
(* SourceVersions.                                                         *)
(***************************************************************************)
\* CreateSowVersion keeps every table's type.
LEMMA CreateSowVersionTypes == ASSUME TypeOK, CreateSowVersion PROVE TypeOK'
<1>1. SowTypes'
  BY Bounds DEF TypeOK, CreateSowVersion, NewVersion, SowTypes, VersionIds
<1>2. StatusTypes' /\ TaskTypes'
  BY VoidType DEF TypeOK, CreateSowVersion
<1> QED
  BY <1>1, <1>2 DEF TypeOK, CreateSowVersion, pinVars, reviewVars, execVars, signVars,
     GmTypes, PinTypes, RosterTypes, AssignTypes, ApprovalTypes, ExceptionTypes,
     EvidenceTypes, UploadTypes, ReleaseTypes, DealTypes, RequestTypes

\* Confirm keeps every table's type.
LEMMA ConfirmTypes == ASSUME TypeOK, NEW v \in VersionIds, Confirm(v) PROVE TypeOK'
<1>1. SowTypes'
  BY DEF TypeOK, Confirm, SowTypes
<1>2. ASSUME UNCHANGED <<gms, status, task>> PROVE GmTypes' /\ StatusTypes' /\ TaskTypes'
  BY <1>2 DEF TypeOK, GmTypes, StatusTypes, TaskTypes
<1>3. ASSUME Len(gms) < MaxGm, Void(VoidTargets),
             \E fl \in Outcomes : gms' = Append(gms, [sow |-> v, floor |-> fl])
      PROVE  GmTypes' /\ StatusTypes' /\ TaskTypes'
  <2>1. GmTypes'
    BY <1>3, OutcomesAssumption, Bounds DEF TypeOK, GmTypes, VersionIds, Floors
  <2>2. StatusTypes' /\ TaskTypes'
    BY <1>3, VoidType DEF TypeOK
  <2> QED BY <2>1, <2>2
<1>4. GmTypes' /\ StatusTypes' /\ TaskTypes'
  BY <1>2, <1>3 DEF Confirm
<1>5. DealTypes'
  BY DEF Confirm, DealTypes
<1> QED
  BY <1>1, <1>4, <1>5 DEF TypeOK, Confirm, pinVars, reviewVars, execVars, signVars,
     PinTypes, RosterTypes, AssignTypes, ApprovalTypes,
     ExceptionTypes, EvidenceTypes, UploadTypes, ReleaseTypes, RequestTypes

\* CreateGm keeps every table's type.
LEMMA CreateGmTypes ==
  ASSUME TypeOK, NEW v \in VersionIds \cup {0}, NEW fl \in Outcomes, CreateGm(v, fl)
  PROVE  TypeOK'
<1>1. GmTypes'
  BY OutcomesAssumption, Bounds DEF TypeOK, CreateGm, GmTypes, VersionIds, Floors,
     SowTypes
<1>2. StatusTypes' /\ TaskTypes'
  BY VoidType DEF TypeOK, CreateGm
<1> QED
  BY <1>1, <1>2
  DEF TypeOK, CreateGm, sowVars, pinVars, reviewVars, execVars, signVars, SowTypes,
     PinTypes, RosterTypes, AssignTypes, ApprovalTypes, ExceptionTypes,
     EvidenceTypes, UploadTypes, ReleaseTypes, DealTypes, RequestTypes

\* SaveCommercial keeps every table's type.
LEMMA SaveCommercialTypes ==
  ASSUME TypeOK, NEW v \in VersionIds, NEW fl \in Outcomes, SaveCommercial(v, fl)
  PROVE  TypeOK'
<1>1. GmTypes'
  BY OutcomesAssumption, Bounds DEF TypeOK, SaveCommercial, GmTypes, VersionIds, Floors,
     SowTypes
<1>2. StatusTypes' /\ TaskTypes'
  BY VoidType DEF TypeOK, SaveCommercial
<1> QED
  BY <1>1, <1>2 DEF TypeOK, SaveCommercial, sowVars, pinVars, reviewVars, execVars, signVars,
     SowTypes, PinTypes, RosterTypes, AssignTypes, ApprovalTypes, ExceptionTypes,
     EvidenceTypes, UploadTypes, ReleaseTypes, DealTypes, RequestTypes

\* ReviseRead keeps every table's type.
LEMMA ReviseReadTypes == ASSUME TypeOK, NEW s \in Sessions, ReviseRead(s) PROVE TypeOK'
<1>1. PICK base \in VersionIds \cup {0} :
        txn' = [txn EXCEPT ![s] = Request("revise", 0, base, NoOne, "none")]
  BY DEF ReviseRead
<1>2. RequestTypes'
  BY <1>1, Vocabulary, Asks
<1> QED
  BY <1>2 DEF TypeOK, ReviseRead, sowVars, sourceVars, pinVars, reviewVars, execVars,
     signVars, SowTypes, GmTypes, PinTypes, RosterTypes, AssignTypes, ApprovalTypes,
     StatusTypes, TaskTypes, ExceptionTypes, EvidenceTypes, UploadTypes,
     ReleaseTypes, DealTypes

\* ReviseCommit keeps every table's type.
LEMMA ReviseCommitTypes == ASSUME TypeOK, NEW s \in Sessions, ReviseCommit(s) PROVE TypeOK'
<1>1. SowTypes'
  BY Bounds DEF TypeOK, ReviseCommit, NewVersion, SowTypes, VersionIds
<1>2. RequestTypes'
  BY Ends DEF ReviseCommit
<1> QED
  BY <1>1, <1>2 DEF TypeOK, ReviseCommit, pinVars, reviewVars, execVars, signVars, GmTypes,
     PinTypes, RosterTypes, AssignTypes, ApprovalTypes, StatusTypes, TaskTypes,
     ExceptionTypes, EvidenceTypes, UploadTypes, ReleaseTypes, DealTypes

\* DeleteVersion keeps every table's type.
LEMMA DeleteVersionTypes == ASSUME TypeOK, NEW v \in VersionIds, DeleteVersion(v) PROVE TypeOK'
<1>1. SowTypes'
  BY Bounds DEF TypeOK, DeleteVersion, SowTypes
<1> QED
  BY <1>1 DEF TypeOK, DeleteVersion, pinVars, reviewVars, execVars, signVars, GmTypes,
     PinTypes, RosterTypes, AssignTypes, ApprovalTypes, StatusTypes, TaskTypes,
     ExceptionTypes, EvidenceTypes, UploadTypes, ReleaseTypes, DealTypes,
     RequestTypes

\* DiscardVersion keeps every table's type.
LEMMA DiscardVersionTypes ==
  ASSUME TypeOK, NEW v \in VersionIds, DiscardVersion(v)
  PROVE  TypeOK'
<1>1. SowTypes'
  BY DEF TypeOK, DiscardVersion, SowTypes
<1> QED
  BY <1>1 DEF TypeOK, DiscardVersion, pinVars, reviewVars, execVars, signVars, GmTypes,
     PinTypes, RosterTypes, AssignTypes, ApprovalTypes, StatusTypes, TaskTypes,
     ExceptionTypes, EvidenceTypes, UploadTypes, ReleaseTypes, DealTypes,
     RequestTypes

(***************************************************************************)
(* Approvals.                                                              *)
(***************************************************************************)
\* A reviewing team assigns accounts.
LEMMA ReviewersType ==
  ASSUME RosterTypes, NEW u, NEW team \in Teams, NEW boss \in Executives(u)
  PROVE  Reviewers(team, boss) \in [Routed -> Users \cup {NoOne}]
<1>1. team \in [Functions -> Users]
  BY DEF RosterTypes, Teams, Functions, Stage1, Stage2
<1>2. boss \in Users \cup {NoOne}
  BY UsersAssumption DEF Executives
<1> QED BY <1>1, <1>2 DEF Reviewers, Routed

\* Submit keeps every table's type.
LEMMA SubmitTypes ==
  ASSUME TypeOK, NEW u \in Owners, NEW p \in Packages, Submit(u, p)
  PROVE  TypeOK'
<1>1. PICK v \in VersionIds, team \in Teams, boss \in Executives(u) :
        Pin(u, p, v, Reviewers(team, boss))
  BY DEF Submit
<1>2. PinTypes'
  BY <1>1, UsersAssumption, Bounds DEF TypeOK, PinTypes, GmTypes, Pin, VersionIds
<1>3. AssignTypes'
  BY <1>1, ReviewersType DEF TypeOK, Pin, AssignTypes
<1>4. TaskTypes'
  BY <1>1, WithTasksType DEF TypeOK, Pin, TaskTypes, Tasks
<1>5. StatusTypes'
  BY <1>1 DEF TypeOK, Pin, StatusTypes, Status, Pending
<1> QED
  BY <1>2, <1>3, <1>4, <1>5
  DEF TypeOK, Submit, sowVars, sourceVars, execVars, signVars, SowTypes, GmTypes,
     RosterTypes, ApprovalTypes, ExceptionTypes, EvidenceTypes, UploadTypes,
     ReleaseTypes, DealTypes, RequestTypes

\* DecideApprove keeps every table's type.
LEMMA DecideApproveTypes ==
  ASSUME TypeOK, NEW u, NEW p \in Packages, NEW f \in Functions, DecideApprove(u, p, f)
  PROVE  TypeOK'
<1>1. ApprovalTypes'
  BY DEF TypeOK, DecideApprove, MayDecide, Decision, ApprovalTypes, Approvals, Verdicts,
     RosterTypes
<1>2. StatusTypes'
  BY DEF TypeOK, DecideApprove, NextStage, StatusTypes, Status, Pending
<1>3. TaskTypes'
  BY WithTasksType, FinishedType DEF TypeOK, DecideApprove, TaskTypes, Tasks
<1>4. ExceptionTypes'
  BY DEF TypeOK, DecideApprove, ExceptionTypes, Exceptions
<1> QED
  BY <1>1, <1>2, <1>3, <1>4
  DEF TypeOK, DecideApprove, sowVars, sourceVars, pinVars, signVars, SowTypes,
     GmTypes, PinTypes, RosterTypes, AssignTypes, EvidenceTypes, UploadTypes,
     ReleaseTypes, DealTypes, RequestTypes

\* DecideReject keeps every table's type.
LEMMA DecideRejectTypes ==
  ASSUME TypeOK, NEW u, NEW p \in Packages, NEW f \in Functions, DecideReject(u, p, f)
  PROVE  TypeOK'
<1>1. ApprovalTypes'
  BY DEF TypeOK, DecideReject, MayDecide, Decision, ApprovalTypes, Approvals, Verdicts,
     RosterTypes
<1>2. StatusTypes' /\ DealTypes'
  BY DEF TypeOK, DecideReject, StatusTypes, Status, DealTypes
<1>3. TaskTypes'
  BY ClosedType DEF TypeOK, DecideReject, TaskTypes, Tasks
<1> QED
  BY <1>1, <1>2, <1>3
  DEF TypeOK, DecideReject, sowVars, sourceVars, pinVars, execVars, signVars,
     SowTypes, GmTypes, PinTypes, RosterTypes, AssignTypes, ExceptionTypes,
     EvidenceTypes, UploadTypes, ReleaseTypes, RequestTypes

\* ManualVoidRead keeps every table's type.
LEMMA ManualVoidReadTypes ==
  ASSUME TypeOK, NEW s \in Sessions, NEW p \in Packages, ManualVoidRead(s, p)
  PROVE  TypeOK'
<1>1. RequestTypes'
  BY Vocabulary, Asks DEF ManualVoidRead
<1> QED
  BY <1>1 DEF TypeOK, ManualVoidRead, sowVars, sourceVars, pinVars, reviewVars, execVars,
     signVars, SowTypes, GmTypes, PinTypes, RosterTypes, AssignTypes, ApprovalTypes,
     StatusTypes, TaskTypes, ExceptionTypes, EvidenceTypes, UploadTypes,
     ReleaseTypes, DealTypes

\* QuarantineRead keeps every table's type.
LEMMA QuarantineReadTypes ==
  ASSUME TypeOK, NEW s \in Sessions, NEW p \in Packages, NEW f, QuarantineRead(s, p, f)
  PROVE  TypeOK'
<1>1. RequestTypes'
  BY Vocabulary, Asks DEF QuarantineRead
<1> QED
  BY <1>1 DEF TypeOK, QuarantineRead, sowVars, sourceVars, pinVars, reviewVars, execVars,
     signVars, SowTypes, GmTypes, PinTypes, RosterTypes, AssignTypes, ApprovalTypes,
     StatusTypes, TaskTypes, ExceptionTypes, EvidenceTypes, UploadTypes,
     ReleaseTypes, DealTypes

\* VoidCommit keeps every table's type.
LEMMA VoidCommitTypes == ASSUME TypeOK, NEW s \in Sessions, VoidCommit(s) PROVE TypeOK'
<1>1. StatusTypes' /\ TaskTypes'
  BY VoidType DEF TypeOK, VoidCommit
<1>2. RequestTypes'
  BY Ends DEF VoidCommit
<1> QED
  BY <1>1, <1>2 DEF TypeOK, VoidCommit, sowVars, sourceVars, pinVars, reviewVars, execVars,
     signVars, SowTypes, GmTypes, PinTypes, RosterTypes, AssignTypes, ApprovalTypes,
     ExceptionTypes, EvidenceTypes, UploadTypes, ReleaseTypes, DealTypes

\* SaveGroup keeps every table's type.
LEMMA SaveGroupTypes ==
  ASSUME TypeOK, NEW f \in Functions, NEW members \in SUBSET Users, SaveGroup(f, members)
  PROVE  TypeOK'
<1>1. RosterTypes'
  BY DEF TypeOK, SaveGroup, RosterTypes
<1> QED
  BY <1>1 DEF TypeOK, SaveGroup, sowVars, sourceVars, pinVars, execVars, signVars, SowTypes,
     GmTypes, PinTypes, AssignTypes, ApprovalTypes, StatusTypes, TaskTypes,
     ExceptionTypes, EvidenceTypes, UploadTypes, ReleaseTypes, DealTypes,
     RequestTypes

\* RouteStart keeps every table's type.
LEMMA RouteStartTypes ==
  ASSUME TypeOK, NEW s \in Sessions, NEW p \in Packages, RouteStart(s, p)
  PROVE  TypeOK'
<1>1. [NoPlan EXCEPT !.stage = status[p]] \in Plans
  BY DEF RouteStart, NoPlan, Plans
<1>2. RequestTypes'
  BY <1>1, Reroutes DEF RouteStart
<1> QED
  BY <1>2 DEF TypeOK, RouteStart, sowVars, sourceVars, pinVars, reviewVars, execVars,
     signVars, SowTypes, GmTypes, PinTypes, RosterTypes, AssignTypes, ApprovalTypes,
     StatusTypes, TaskTypes, ExceptionTypes, EvidenceTypes, UploadTypes,
     ReleaseTypes, DealTypes

\* RouteLoad keeps every table's type.
LEMMA RouteLoadTypes == ASSUME TypeOK, NEW s \in Sessions, RouteLoad(s) PROVE TypeOK'
<1>1. txn[s].pkg \in Packages /\ txn[s].plan \in Plans
  BY DEF RouteLoad, TypeOK, RequestTypes, Requests
<1>2. [txn[s].plan EXCEPT !.seen = {f \in Functions : Decided(txn[s].pkg, f)}] \in Plans
  BY <1>1 DEF Plans, Routed
<1>3. RequestTypes'
  BY <1>1, <1>2, Reroutes DEF RouteLoad
<1> QED
  BY <1>3 DEF TypeOK, RouteLoad, sowVars, sourceVars, pinVars, reviewVars, execVars,
     signVars, SowTypes, GmTypes, PinTypes, RosterTypes, AssignTypes, ApprovalTypes,
     StatusTypes, TaskTypes, ExceptionTypes, EvidenceTypes, UploadTypes,
     ReleaseTypes, DealTypes

\* RoutePlan keeps every table's type.
LEMMA RoutePlanTypes == ASSUME TypeOK, NEW s \in Sessions, RoutePlan(s) PROVE TypeOK'
<1> DEFINE p == txn[s].pkg
           stage == txn[s].plan.stage
           bare == {f \in Rows(p) : task[p][f] = "none"}
<1>1. p \in Packages /\ txn[s].plan \in Plans
  BY DEF RoutePlan, TypeOK, RequestTypes, Requests
<1>2. PICK new \in Reroutings(p, txn[s].plan.seen) :
        LET moved == {f \in DOMAIN new : new[f] # NoOne} IN
        txn' = [txn EXCEPT ![s] = Planned("reroute", p,
          [stage |-> stage, seen |-> {},
           to |-> [f \in Routed |-> IF f \in moved THEN new[f] ELSE NoOne],
           filed |-> ActiveFunctions(stage) \cap (moved \cup bare),
           dropped |-> (moved \ bare) \ ActiveFunctions(stage)])]
  BY DEF RoutePlan
<1> DEFINE moved == {f \in DOMAIN new : new[f] # NoOne}
           plan == [stage |-> stage, seen |-> {},
                    to |-> [f \in Routed |-> IF f \in moved THEN new[f] ELSE NoOne],
                    filed |-> ActiveFunctions(stage) \cap (moved \cup bare),
                    dropped |-> (moved \ bare) \ ActiveFunctions(stage)]
<1>3. new \in [DOMAIN new -> Users \cup {NoOne}] /\ DOMAIN new \subseteq Routed
  BY DEF Reroutings, Stranded, Rows
<1>4. ActiveFunctions(stage) \subseteq Routed
  BY DEF ActiveFunctions, Routed, Functions
<1>5. plan \in Plans
  <2>1. [f \in Routed |-> IF f \in moved THEN new[f] ELSE NoOne] \in [Routed -> Users \cup {NoOne}]
    BY <1>3
  <2>2. stage \in Pending \cup {"none"}
    BY <1>1 DEF Plans
  <2>3. ActiveFunctions(stage) \cap (moved \cup bare) \in SUBSET Routed
    BY <1>4
  <2>4. (moved \ bare) \ ActiveFunctions(stage) \in SUBSET Routed
    BY <1>3
  <2> QED BY <2>1, <2>2, <2>3, <2>4 DEF Plans
<1>6. txn' = [txn EXCEPT ![s] = Planned("reroute", p, plan)]
  BY <1>2
<1>7. RequestTypes'
  <2> HIDE DEF plan
  <2> QED BY <1>1, <1>5, <1>6, Reroutes
<1> QED
  BY <1>7 DEF TypeOK, RoutePlan, sowVars, sourceVars, pinVars, reviewVars, execVars,
     signVars, SowTypes, GmTypes, PinTypes, RosterTypes, AssignTypes, ApprovalTypes,
     StatusTypes, TaskTypes, ExceptionTypes, EvidenceTypes, UploadTypes,
     ReleaseTypes, DealTypes

\* RouteCommit keeps every table's type.
LEMMA RouteCommitTypes == ASSUME TypeOK, NEW s \in Sessions, RouteCommit(s) PROVE TypeOK'
<1>1. txn[s].pkg \in Packages /\ txn[s].plan.to \in [Routed -> Users \cup {NoOne}]
  BY DEF RouteCommit, TypeOK, RequestTypes, Requests, Plans
<1>2. AssignTypes'
  BY <1>1 DEF RouteCommit, TypeOK, AssignTypes
<1>3. TaskTypes'
  BY <1>1 DEF RouteCommit, TypeOK, TaskTypes, TaskStatus, OpenTask
<1>4. RequestTypes'
  BY Ends DEF RouteCommit
<1> QED
  BY <1>2, <1>3, <1>4 DEF TypeOK, RouteCommit, sowVars, sourceVars, pinVars, execVars, signVars, SowTypes,
     GmTypes, PinTypes, RosterTypes, ApprovalTypes, StatusTypes, ExceptionTypes,
     EvidenceTypes, UploadTypes, ReleaseTypes, DealTypes

\* RepairRead keeps every table's type.
LEMMA RepairReadTypes ==
  ASSUME TypeOK, NEW s \in Sessions, NEW p \in Packages, NEW f \in Routed, NEW u \in Users,
         RepairRead(s, p, f, u)
  PROVE  TypeOK'
<1>1. RequestTypes'
  BY Vocabulary, Asks DEF RepairRead
<1> QED
  BY <1>1 DEF TypeOK, RepairRead, sowVars, sourceVars, pinVars, reviewVars, execVars,
     signVars, SowTypes, GmTypes, PinTypes, RosterTypes, AssignTypes, ApprovalTypes,
     StatusTypes, TaskTypes, ExceptionTypes, EvidenceTypes, UploadTypes,
     ReleaseTypes, DealTypes

\* RepairCommit keeps every table's type.
LEMMA RepairCommitTypes == ASSUME TypeOK, NEW s \in Sessions, RepairCommit(s) PROVE TypeOK'
<1>1. txn[s].pkg \in Packages /\ txn[s].arg \in Routed /\ txn[s].who \in Users \cup {NoOne}
  BY DEF RepairCommit, TypeOK, RequestTypes, Requests
<1>2. AssignTypes' /\ TaskTypes'
  BY <1>1 DEF TypeOK, RepairCommit, AssignTypes, TaskTypes, TaskStatus, OpenTask
<1>3. RequestTypes'
  BY Ends DEF RepairCommit
<1> QED
  BY <1>2, <1>3 DEF TypeOK, RepairCommit, sowVars, sourceVars, pinVars, execVars, signVars, SowTypes,
     GmTypes, PinTypes, RosterTypes, ApprovalTypes, StatusTypes, ExceptionTypes,
     EvidenceTypes, UploadTypes, ReleaseTypes, DealTypes

\* FinishOnBoard keeps every table's type.
LEMMA FinishOnBoardTypes ==
  ASSUME TypeOK, NEW p \in Packages, NEW f \in Routed, FinishOnBoard(p, f)
  PROVE  TypeOK'
<1>1. TaskTypes'
  BY DEF TypeOK, FinishOnBoard, TaskTypes, TaskStatus
<1> QED
  BY <1>1 DEF TypeOK, FinishOnBoard, sowVars, sourceVars, pinVars, reviewVars, execVars,
     signVars, SowTypes, GmTypes, PinTypes, RosterTypes, AssignTypes, ApprovalTypes,
     StatusTypes, ExceptionTypes, EvidenceTypes, UploadTypes, ReleaseTypes, DealTypes,
     RequestTypes

(***************************************************************************)
(* CeoException.                                                           *)
(***************************************************************************)
\* SetRationale keeps every table's type.
LEMMA SetRationaleTypes == ASSUME TypeOK, NEW p \in Packages, SetRationale(p) PROVE TypeOK'
<1>1. ExceptionTypes'
  BY DEF TypeOK, SetRationale, ExceptionTypes, Exceptions
<1> QED
  BY <1>1 DEF TypeOK, SetRationale, sowVars, sourceVars, pinVars, reviewVars, signVars,
     SowTypes, GmTypes, PinTypes, RosterTypes, AssignTypes, ApprovalTypes,
     StatusTypes, TaskTypes, EvidenceTypes, UploadTypes, ReleaseTypes, DealTypes,
     RequestTypes

\* CeoRead keeps every table's type.
LEMMA CeoReadTypes ==
  ASSUME TypeOK, NEW s \in Sessions, NEW p \in Packages, NEW u \in Deciders, NEW arg \in CeoArgs,
         CeoRead(s, p, u, arg)
  PROVE  TypeOK'
<1>1. RequestTypes'
  BY Vocabulary, Asks DEF CeoRead
<1> QED
  BY <1>1 DEF TypeOK, CeoRead, sowVars, sourceVars, pinVars, reviewVars, execVars, signVars,
     SowTypes, GmTypes, PinTypes, RosterTypes, AssignTypes, ApprovalTypes,
     StatusTypes, TaskTypes, ExceptionTypes, EvidenceTypes, UploadTypes,
     ReleaseTypes, DealTypes

\* CeoCommit keeps every table's type.
LEMMA CeoCommitTypes == ASSUME TypeOK, NEW s \in Sessions, CeoCommit(s) PROVE TypeOK'
<1>1. txn[s].pkg \in Packages /\ txn[s].who \in Users \cup {NoOne}
  BY DEF TypeOK, CeoCommit, RequestTypes, Requests
<1>2. ExceptionTypes'
  BY <1>1 DEF TypeOK, CeoCommit, TermsOf, ExceptionTypes, Exceptions, Verdicts, Terms
<1>3. StatusTypes' /\ DealTypes'
  BY <1>1 DEF TypeOK, CeoCommit, StatusTypes, Status, DealTypes
<1>4. TaskTypes'
  BY <1>1 DEF TypeOK, CeoCommit, TaskTypes, TaskStatus, Routed
<1>5. RequestTypes'
  BY Ends DEF CeoCommit
<1> QED
  BY <1>1, <1>2, <1>3, <1>4, <1>5
  DEF TypeOK, CeoCommit, sowVars, sourceVars, pinVars, reviewVars, signVars, SowTypes,
     GmTypes, PinTypes, RosterTypes, AssignTypes, ApprovalTypes, EvidenceTypes,
     UploadTypes, ReleaseTypes

\* Lapse keeps every table's type.
LEMMA LapseTypes == ASSUME TypeOK, NEW p \in Packages, Lapse(p) PROVE TypeOK'
<1>1. EvidenceTypes'
  BY DEF TypeOK, Lapse, EvidenceTypes
<1> QED
  BY <1>1 DEF TypeOK, Lapse, sowVars, sourceVars, pinVars, reviewVars, signVars, SowTypes,
     GmTypes, PinTypes, RosterTypes, AssignTypes, ApprovalTypes, StatusTypes,
     TaskTypes, ExceptionTypes, UploadTypes, ReleaseTypes, DealTypes, RequestTypes

\* RecordEvidence keeps every table's type.
LEMMA RecordEvidenceTypes == ASSUME TypeOK, NEW p \in Packages, RecordEvidence(p) PROVE TypeOK'
<1>1. EvidenceTypes'
  BY DEF TypeOK, RecordEvidence, EvidenceTypes
<1> QED
  BY <1>1 DEF TypeOK, RecordEvidence, sowVars, sourceVars, pinVars, reviewVars, signVars,
     SowTypes, GmTypes, PinTypes, RosterTypes, AssignTypes, ApprovalTypes,
     StatusTypes, TaskTypes, ExceptionTypes, UploadTypes, ReleaseTypes, DealTypes,
     RequestTypes

(***************************************************************************)
(* SignedSow.                                                              *)
(***************************************************************************)
LEMMA UploadRow ==
  ASSUME UploadTypes, NEW i \in DOMAIN uploads PROVE uploads[i] \in Uploads /\ i \in Nat
  BY DEF UploadTypes

\* Writing one column of one row, or of a row that is not there, keeps the table.
LEMMA UploadsExcept ==
  ASSUME UploadTypes, NEW i, NEW r, uploads[i] \in Uploads => r \in Uploads
  PROVE  [uploads EXCEPT ![i] = r] \in Seq(Uploads)
<1>1. CASE i \in DOMAIN uploads
  BY <1>1, UploadRow, ExceptSeq DEF UploadTypes
<1>2. CASE i \notin DOMAIN uploads
  <2>1. [uploads EXCEPT ![i] = r] = uploads
    BY <1>2 DEF UploadTypes
  <2> QED BY <2>1 DEF UploadTypes
<1> QED BY <1>1, <1>2

\* UploadFile keeps every table's type.
LEMMA UploadFileTypes == ASSUME TypeOK, NEW p \in Packages, UploadFile(p) PROVE TypeOK'
<1>1. UploadTypes'
  BY DEF TypeOK, UploadFile, NewUpload, UploadTypes, Uploads, UploadStatus
<1> QED
  BY <1>1 DEF TypeOK, UploadFile, sowVars, sourceVars, pinVars, reviewVars, execVars,
     SowTypes, GmTypes, PinTypes, RosterTypes, AssignTypes, ApprovalTypes,
     StatusTypes, TaskTypes, ExceptionTypes, EvidenceTypes, ReleaseTypes, DealTypes,
     RequestTypes

\* UploadRead keeps every table's type.
LEMMA UploadReadTypes ==
  ASSUME TypeOK, NEW s \in Sessions, NEW p \in Packages, UploadRead(s, p)
  PROVE  TypeOK'
<1>1. RequestTypes'
  BY Vocabulary, Asks DEF UploadRead
<1> QED
  BY <1>1 DEF TypeOK, UploadRead, sowVars, sourceVars, pinVars, reviewVars, execVars,
     signVars, SowTypes, GmTypes, PinTypes, RosterTypes, AssignTypes, ApprovalTypes,
     StatusTypes, TaskTypes, ExceptionTypes, EvidenceTypes, UploadTypes,
     ReleaseTypes, DealTypes

\* UploadCommit keeps every table's type.
LEMMA UploadCommitTypes == ASSUME TypeOK, NEW s \in Sessions, UploadCommit(s) PROVE TypeOK'
<1>1. UploadTypes'
  BY DEF TypeOK, UploadCommit, NewUpload, UploadTypes, Uploads, UploadStatus, RequestTypes
<1>2. RequestTypes'
  BY Ends DEF UploadCommit
<1> QED
  BY <1>1, <1>2 DEF TypeOK, UploadCommit, sowVars, sourceVars, pinVars, reviewVars, execVars,
     SowTypes, GmTypes, PinTypes, RosterTypes, AssignTypes, ApprovalTypes,
     StatusTypes, TaskTypes, ExceptionTypes, EvidenceTypes, ReleaseTypes, DealTypes

\* CallbackRead keeps every table's type.
LEMMA CallbackReadTypes ==
  ASSUME TypeOK, NEW s \in Sessions, NEW i \in DOMAIN uploads, NEW result \in Results,
         CallbackRead(s, i, result)
  PROVE  TypeOK'
<1>1. uploads[i].pkg \in Packages /\ i \in Nat
  BY UploadRow DEF TypeOK, Uploads
<1>2. RequestTypes'
  BY <1>1, Vocabulary, Asks DEF CallbackRead
<1> QED
  BY <1>1, <1>2 DEF TypeOK, CallbackRead, sowVars, sourceVars, pinVars, reviewVars, execVars,
     signVars, SowTypes, GmTypes, PinTypes, RosterTypes, AssignTypes, ApprovalTypes,
     StatusTypes, TaskTypes, ExceptionTypes, EvidenceTypes, UploadTypes,
     ReleaseTypes, DealTypes

\* CallbackCommit keeps every table's type.
LEMMA CallbackCommitTypes == ASSUME TypeOK, NEW s \in Sessions, CallbackCommit(s) PROVE TypeOK'
<1>1. UploadTypes'
  <2> DEFINE row == txn[s].row
             r == [uploads[row] EXCEPT !.status = IF txn[s].arg = "same" THEN @ ELSE txn[s].arg]
  <2>1. txn[s].arg \in UploadStatus \cup {"same"}
    BY DEF TypeOK, CallbackCommit, RequestTypes
  <2>2. uploads[row] \in Uploads => r \in Uploads
    BY <2>1 DEF Uploads
  <2>3. uploads' = [uploads EXCEPT ![row] = r]
    BY DEF CallbackCommit
  <2> QED BY <2>2, <2>3, UploadsExcept DEF TypeOK, UploadTypes
<1>2. RequestTypes'
  BY Ends DEF CallbackCommit
<1> QED
  BY <1>1, <1>2 DEF TypeOK, CallbackCommit, sowVars, sourceVars, pinVars, reviewVars, execVars,
     SowTypes, GmTypes, PinTypes, RosterTypes, AssignTypes, ApprovalTypes,
     StatusTypes, TaskTypes, ExceptionTypes, EvidenceTypes, ReleaseTypes, DealTypes

\* Accept keeps every table's type.
LEMMA AcceptTypes == ASSUME TypeOK, NEW p \in Packages, Accept(p) PROVE TypeOK'
<1>1. ReleaseTypes'
  BY DEF TypeOK, Accept, ReleaseTypes
<1> QED
  BY <1>1 DEF TypeOK, Accept, sowVars, sourceVars, pinVars, reviewVars, execVars, SowTypes,
     GmTypes, PinTypes, RosterTypes, AssignTypes, ApprovalTypes, StatusTypes,
     TaskTypes, ExceptionTypes, EvidenceTypes, UploadTypes, DealTypes, RequestTypes

\* ReleaseRead keeps every table's type.
LEMMA ReleaseReadTypes ==
  ASSUME TypeOK, NEW s \in Sessions, NEW i \in DOMAIN uploads, ReleaseRead(s, i)
  PROVE  TypeOK'
<1>1. uploads[i].pkg \in Packages /\ i \in Nat
  BY UploadRow DEF TypeOK, Uploads
<1>2. ReleaseTypes'
  BY <1>1, Bounds DEF TypeOK, ReleaseRead, ReleaseTypes
<1>3. RequestTypes'
  BY <1>1, Vocabulary, Asks DEF ReleaseRead
<1> QED
  BY <1>1, <1>2, <1>3
  DEF TypeOK, ReleaseRead, sowVars, sourceVars, pinVars, reviewVars, execVars,
     SowTypes, GmTypes, PinTypes, RosterTypes, AssignTypes, ApprovalTypes,
     StatusTypes, TaskTypes, ExceptionTypes, EvidenceTypes, UploadTypes, DealTypes

\* ReleaseCommit keeps every table's type.
LEMMA ReleaseCommitTypes == ASSUME TypeOK, NEW s \in Sessions, ReleaseCommit(s) PROVE TypeOK'
<1>1. txn[s].pkg \in Packages
  BY DEF TypeOK, ReleaseCommit, RequestTypes
<1>2. SowTypes'
  BY <1>1 DEF TypeOK, ReleaseCommit, SowTypes, PinTypes
<1>3. ReleaseTypes'
  BY <1>1, Bounds DEF TypeOK, ReleaseCommit, ReleaseTypes, Packages
<1>4. UploadTypes'
  <2> DEFINE row == txn[s].row
             r == [uploads[row] EXCEPT !.released = TRUE]
  <2>1. uploads[row] \in Uploads => r \in Uploads
    BY DEF Uploads
  <2>2. uploads' = [uploads EXCEPT ![row] = r]
    BY DEF ReleaseCommit
  <2> QED BY <2>1, <2>2, UploadsExcept DEF TypeOK, UploadTypes
<1>5. StatusTypes'
  BY <1>1 DEF TypeOK, ReleaseCommit, StatusTypes, Status
<1>6. RequestTypes'
  BY Ends DEF ReleaseCommit
<1> QED
  BY <1>1, <1>2, <1>3, <1>4, <1>5, <1>6
  DEF TypeOK, ReleaseCommit, pinVars, reviewVars, execVars, GmTypes, PinTypes,
     RosterTypes, AssignTypes, ApprovalTypes, TaskTypes, ExceptionTypes,
     EvidenceTypes, DealTypes

\* MarkChurn keeps every table's type.
LEMMA MarkChurnTypes == ASSUME TypeOK, MarkChurn PROVE TypeOK'
<1>1. ReleaseTypes'
  BY DEF TypeOK, MarkChurn, ReleaseTypes
<1> QED
  BY <1>1 DEF TypeOK, MarkChurn, sowVars, sourceVars, pinVars, reviewVars, execVars, SowTypes,
     GmTypes, PinTypes, RosterTypes, AssignTypes, ApprovalTypes, StatusTypes,
     TaskTypes, ExceptionTypes, EvidenceTypes, UploadTypes, DealTypes, RequestTypes

\* Abort keeps every table's type.
LEMMA AbortTypes == ASSUME TypeOK, NEW s \in Sessions, Abort(s) PROVE TypeOK'
<1>1. RequestTypes'
  BY Ends DEF Abort
<1> QED
  BY <1>1 DEF TypeOK, Abort, sowVars, sourceVars, pinVars, reviewVars, execVars, signVars,
     SowTypes, GmTypes, PinTypes, RosterTypes, AssignTypes, ApprovalTypes,
     StatusTypes, TaskTypes, ExceptionTypes, EvidenceTypes, UploadTypes,
     ReleaseTypes, DealTypes

(***************************************************************************)
(* The theorem.                                                            *)
(***************************************************************************)
\* Init keeps every table's type.
LEMMA InitTypes == ASSUME Init PROVE TypeOK
<1>1. SowTypes /\ GmTypes /\ PinTypes
  BY Bounds DEF Init, SowTypes, GmTypes, PinTypes
<1>2. RosterTypes /\ AssignTypes /\ ApprovalTypes
  BY RosterAssumption DEF Init, RosterTypes, AssignTypes, ApprovalTypes
<1>3. StatusTypes /\ TaskTypes
  BY DEF Init, StatusTypes, Status, TaskTypes, TaskStatus
<1>4. ExceptionTypes /\ EvidenceTypes
  BY DEF Init, ExceptionTypes, Exceptions, NoException, Terms, EvidenceTypes
<1>5. UploadTypes /\ ReleaseTypes /\ DealTypes
  <2>1. uploads \in Seq(Uploads)
    BY DEF Init
  <2>2. /\ pkgSuper \in [Packages -> 0..MaxPkg]
        /\ mailed \in [Packages -> 0..MaxMail]
        /\ releases \in [Packages -> Nat]
    BY Bounds DEF Init
  <2> QED BY <2>1, <2>2 DEF Init, UploadTypes, ReleaseTypes, DealTypes
<1>6. RequestTypes
  BY IdleType DEF Init, RequestTypes
<1> QED
  BY <1>1, <1>2, <1>3, <1>4, <1>5, <1>6 DEF TypeOK

\* Step keeps every table's type.
LEMMA StepTypes == ASSUME TypeOK, [Next]_vars PROVE TypeOK'
<1>1. CASE SourceStep
  <2>1. ASSUME NEW v \in VersionIds, Confirm(v) \/ DeleteVersion(v) \/ DiscardVersion(v)
        PROVE  TypeOK'
    BY <2>1, ConfirmTypes, DeleteVersionTypes, DiscardVersionTypes
  <2>2. ASSUME NEW v \in VersionIds \cup {0}, NEW fl \in Outcomes, CreateGm(v, fl)
        PROVE  TypeOK'
    BY <2>2, CreateGmTypes
  <2>3. ASSUME NEW v \in VersionIds, NEW fl \in Outcomes, SaveCommercial(v, fl)
        PROVE  TypeOK'
    BY <2>3, SaveCommercialTypes
  <2>4. ASSUME NEW s \in Sessions, ReviseRead(s) \/ ReviseCommit(s) PROVE TypeOK'
    BY <2>4, ReviseReadTypes, ReviseCommitTypes
  <2> QED
    BY <1>1, <2>1, <2>2, <2>3, <2>4, CreateSowVersionTypes DEF SourceStep
<1>2. CASE ReviewStep
  <2>1. ASSUME NEW choice \in GroupChoices, SaveGroup(choice[1], choice[2]) PROVE TypeOK'
    BY <2>1, RosterAssumption, SaveGroupTypes
  <2>2. ASSUME NEW s \in Sessions, NEW p \in Packages, NEW r \in Replacements,
               RepairRead(s, p, r[1], r[2])
        PROVE  TypeOK'
    BY <2>2, UsersAssumption, RepairReadTypes
  <2>3. ASSUME NEW s \in Sessions, RoutingStep(s) PROVE TypeOK'
    BY <2>2, <2>3, RouteStartTypes, RouteLoadTypes, RoutePlanTypes, RouteCommitTypes,
       RepairCommitTypes DEF RoutingStep
  <2> QED
    BY <1>2, <2>1, <2>3, SubmitTypes, DecideApproveTypes, DecideRejectTypes,
       ManualVoidReadTypes, QuarantineReadTypes, VoidCommitTypes, FinishOnBoardTypes
    DEF ReviewStep
<1>3. CASE ExecutiveStep
  BY <1>3, SetRationaleTypes, LapseTypes, RecordEvidenceTypes, CeoReadTypes, CeoCommitTypes
  DEF ExecutiveStep
<1>4. CASE SignatureStep
  BY <1>4, UploadFileTypes, AcceptTypes, UploadReadTypes, UploadCommitTypes,
     CallbackReadTypes, CallbackCommitTypes, ReleaseReadTypes, ReleaseCommitTypes,
     MarkChurnTypes DEF SignatureStep
<1>5. CASE \E s \in Sessions : Abort(s)
  BY <1>5, AbortTypes
<1>6. CASE UNCHANGED vars
  BY <1>6 DEF vars, sowVars, sourceVars, pinVars, reviewVars, execVars, signVars, TypeOK,
     SowTypes, GmTypes, PinTypes, RosterTypes, AssignTypes, ApprovalTypes, StatusTypes,
     TaskTypes, ExceptionTypes, EvidenceTypes, UploadTypes, ReleaseTypes, DealTypes,
     RequestTypes
<1> QED
  BY <1>1, <1>2, <1>3, <1>4, <1>5, <1>6 DEF Next

\* Every row keeps the shape of its table and every request in flight names rows
\* its commit can write, whatever handlers run, in any order and number.
THEOREM TypeCorrect == Spec => []TypeOK
<1>1. Init => TypeOK
  BY InitTypes
<1>2. TypeOK /\ [Next]_vars => TypeOK'
  BY StepTypes
<1> QED
  BY <1>1, <1>2, PTL DEF Spec
================================================================================
