----------------------------- MODULE DealGateProofs -----------------------------
(***************************************************************************)
(* The review of DealGate, for every value of its constants.               *)
(*                                                                         *)
(* What a package's status says of its decisions (ReviewInv) is inductive  *)
(* because a decision is taken under the package's row lock and because a  *)
(* request that decides without it, the executive's or a release, only     *)
(* starts from a package all five functions approved, and no decision is   *)
(* ever taken back.  From it follow what the record keeps: pins and        *)
(* decisions are never rewritten, no two people's duties mix, the stages   *)
(* run in order, and a package below a floor waits for the executive       *)
(* (ExecutiveInv).                                                         *)
(***************************************************************************)
EXTENDS DealGateTypes

DecidedExists == \A a \in approvals : status[a.pkg] # "none"

StatusBacked ==
  \A p \in Packages :
    /\ Live(p) => ~Refused(p)
    /\ status[p] = "pending_finance_legal" => \A f \in Stage1 : Approved(p, f)
    /\ status[p] \in {"pending_ceo_exception", "ready_to_sign", "released"} => FullyApproved(p)

RequestsBacked ==
  \A s \in Sessions : txn[s].op \in {"ceo", "release"} => FullyApproved(txn[s].pkg)

ReviewInv == DecidedExists /\ StatusBacked /\ RequestsBacked

(***************************************************************************)
(* What rerouting, repair and a session that is done leave alone.          *)
(***************************************************************************)
\* Rerouting and repair write assignments, tasks and their own request only.
LEMMA RoutingKeeps ==
  ASSUME TypeOK, NEW s \in Sessions, RoutingStep(s)
  PROVE  /\ UNCHANGED <<sourceVars, pinVars, roster, approvals, execVars, signVars,
                         status, governance>>
         /\ txn' = [txn EXCEPT ![s] = txn'[s]]
         /\ txn'[s].op \in {"idle", "route", "loaded", "reroute", "repair"}
<1>1. UNCHANGED <<sourceVars, pinVars, roster, approvals, execVars, signVars, status, governance>>
  BY DEF RoutingStep, RouteStart, RouteLoad, RoutePlan, RouteCommit, RepairRead, RepairCommit,
     reviewVars
<1> DEFINE Serves(r) == txn' = [txn EXCEPT ![s] = r]
<1>2. \A r : Serves(r) => txn'[s] = r /\ txn' = [txn EXCEPT ![s] = txn'[s]]
  BY DEF TypeOK, RequestTypes
<1> DEFINE Served == /\ Serves(txn'[s])
                      /\ txn'[s].op \in {"idle", "route", "loaded", "reroute", "repair"}
<1>3. \A p, plan, op : Planned(op, p, plan).op = op
  BY DEF Planned
<1>4. ASSUME NEW p, NEW plan, NEW op \in {"route", "loaded", "reroute"}, Serves(Planned(op, p, plan))
      PROVE  Served
  <2> HIDE DEF Serves
  <2> QED BY <1>2, <1>3, <1>4
<1>5. ASSUME NEW p, RouteStart(s, p) PROVE Served
  BY <1>4, <1>5 DEF RouteStart
<1>6. ASSUME RouteLoad(s) PROVE Served
  BY <1>4, <1>6 DEF RouteLoad
<1>7. ASSUME RoutePlan(s) PROVE Served
  <2>1. \E p, plan : Serves(Planned("reroute", p, plan))
    BY <1>7 DEF RoutePlan
  <2> HIDE DEF Serves, Served
  <2> QED BY <1>4, <2>1
<1>8. ASSUME NEW p, NEW f, NEW u, RepairRead(s, p, f, u) PROVE Served
  <2>1. \E who : Serves(Request("repair", p, 0, who, f))
    BY <1>8 DEF RepairRead
  <2> HIDE DEF Serves
  <2> QED BY <1>2, <2>1, RequestColumns
<1>9. ASSUME RouteCommit(s) \/ RepairCommit(s) PROVE Served
  <2>1. Serves(Idle)
    BY <1>9 DEF RouteCommit, RepairCommit
  <2> HIDE DEF Serves
  <2> QED BY <1>2, <2>1, IdleType
<1>10. Served
  <2> HIDE DEF Served
  <2> QED BY <1>5, <1>6, <1>7, <1>8, <1>9 DEF RoutingStep
<1> QED
  BY <1>1, <1>10

(***************************************************************************)
(* A step that records no decision.                                        *)
(***************************************************************************)
\* How such a step may move a package.
Moves ==
  \A p \in Packages :
    \/ status'[p] = status[p]
    \/ status'[p] \in {"voided", "rejected"}
    \/ status'[p] \in {"ready_to_sign", "released"} /\ FullyApproved(p)
    \/ status[p] = "none" /\ status'[p] = "pending_delivery_hr"

\* A step that writes no decision and moves statuses only along Moves keeps the
\* review invariant, provided its requests stay backed.
LEMMA MovesKeepReview ==
  ASSUME TypeOK, ReviewInv, approvals' = approvals, Moves, RequestsBacked'
  PROVE  ReviewInv'
<1>1. /\ \A p \in Packages : Refused(p)' <=> Refused(p)
      /\ \A p \in Packages : FullyApproved(p)' <=> FullyApproved(p)
      /\ \A p \in Packages, f \in Functions : Approved(p, f)' <=> Approved(p, f)
  BY DEF Refused, FullyApproved, Approved
<1>2. \A a \in approvals : a.pkg \in Packages
  BY DEF TypeOK, ApprovalTypes, Approvals
<1>3. DecidedExists'
  BY <1>2 DEF ReviewInv, DecidedExists, Moves
<1>4. StatusBacked'
  <2> SUFFICES ASSUME NEW p \in Packages
               PROVE  /\ Live(p)' => ~Refused(p)
                      /\ status'[p] = "pending_finance_legal" => \A f \in Stage1 : Approved(p, f)
                      /\ status'[p] \in {"pending_ceo_exception", "ready_to_sign", "released"}
                           => FullyApproved(p)
    BY <1>1 DEF StatusBacked, Functions
  <2>1. status[p] = "none" => ~Refused(p)
    BY DEF ReviewInv, DecidedExists, Refused
  <2>2. FullyApproved(p) => ~Refused(p)
    BY DEF FullyApproved
  <2> QED
    BY <2>1, <2>2 DEF ReviewInv, StatusBacked, Moves, Live
<1> QED
  BY <1>3, <1>4 DEF ReviewInv

\* Requests other than the executive's and releases need no backing.
LEMMA QuietRequests ==
  ASSUME TypeOK, ReviewInv, approvals' = approvals, NEW s \in Sessions, NEW r,
         r.op \notin {"ceo", "release"} \/ FullyApproved(r.pkg),
         txn' = [txn EXCEPT ![s] = r]
  PROVE  RequestsBacked'
  BY DEF TypeOK, RequestTypes, ReviewInv, RequestsBacked, FullyApproved, Refused, Approved

\* Voiding is one of the moves, whatever its targets.
LEMMA VoidMoves == ASSUME StatusTypes, NEW targets, Void(targets) PROVE Moves
  BY DEF StatusTypes, Void, Moves

(***************************************************************************)
(* The steps, component by component.                                      *)
(***************************************************************************)
\* Nothing that touches neither decisions nor statuses can break ReviewInv.
LEMMA QuietKeepsReview ==
  ASSUME TypeOK, ReviewInv, approvals' = approvals, status' = status, RequestsBacked'
  PROVE  ReviewInv'
  BY MovesKeepReview DEF Moves

\* New versions and models (sow_extract, delivery_model, sow_lifecycle).
LEMMA SourceKeepsReview == ASSUME TypeOK, ReviewInv, SourceStep PROVE ReviewInv'
<1>1. ASSUME approvals' = approvals, txn' = txn, NEW targets, Void(targets) PROVE ReviewInv'
  <2>1. Moves
    BY <1>1, VoidMoves DEF TypeOK
  <2>2. RequestsBacked'
    BY <1>1 DEF ReviewInv, RequestsBacked, FullyApproved, Refused, Approved
  <2> QED
    BY <1>1, <2>1, <2>2, MovesKeepReview
<1>2. ASSUME approvals' = approvals, txn' = txn, status' = status PROVE ReviewInv'
  <2>1. RequestsBacked'
    BY <1>2 DEF ReviewInv, RequestsBacked, FullyApproved, Refused, Approved
  <2> QED
    BY <1>2, <2>1, QuietKeepsReview
<1>3. CASE CreateSowVersion
  BY <1>1, <1>3 DEF CreateSowVersion, reviewVars
<1>4. ASSUME NEW v, Confirm(v) \/ DeleteVersion(v) \/ DiscardVersion(v) PROVE ReviewInv'
  BY <1>1, <1>2, <1>4 DEF Confirm, DeleteVersion, DiscardVersion, reviewVars
<1>5. ASSUME NEW v, NEW fl, CreateGm(v, fl) \/ SaveCommercial(v, fl) PROVE ReviewInv'
  BY <1>1, <1>5 DEF CreateGm, SaveCommercial, reviewVars
<1>6. ASSUME NEW s \in Sessions, ReviseRead(s) \/ ReviseCommit(s) PROVE ReviewInv'
  <2>1. PICK r : r.op \notin {"ceo", "release"} /\ txn' = [txn EXCEPT ![s] = r]
    BY <1>6 DEF ReviseRead, ReviseCommit, Request, Idle
  <2>2. approvals' = approvals /\ status' = status
    BY <1>6 DEF ReviseRead, ReviseCommit, reviewVars
  <2> QED
    BY <2>1, <2>2, QuietRequests, QuietKeepsReview
<1> QED
  BY <1>3, <1>4, <1>5, <1>6 DEF SourceStep

\* A submission takes a row no decision was ever recorded on.
LEMMA SubmitKeepsReview ==
  ASSUME TypeOK, ReviewInv, NEW u, NEW p \in Packages, Submit(u, p)
  PROVE  ReviewInv'
<1>1. /\ status[p] = "none"
      /\ status' = [status EXCEPT ![p] = "pending_delivery_hr"]
      /\ approvals' = approvals /\ txn' = txn
  BY DEF Submit, FreshRow, Pin
<1>2. Moves
  BY <1>1 DEF TypeOK, StatusTypes, Moves
<1>3. RequestsBacked'
  BY <1>1 DEF ReviewInv, RequestsBacked, FullyApproved, Refused, Approved
<1> QED
  BY <1>1, <1>2, <1>3, MovesKeepReview

\* What the guards of a decision and the status it is taken in say together.
LEMMA DecisionContext ==
  ASSUME TypeOK, ReviewInv, NEW u, NEW p \in Packages, NEW f \in Functions, MayDecide(u, p, f)
  PROVE  /\ Live(p) /\ ~Refused(p) /\ ~Approved(p, f) /\ ~FullyApproved(p)
         /\ \/ status[p] = "pending_delivery_hr" /\ f \in Stage1
            \/ /\ status[p] = "pending_finance_legal" /\ f \in Stage2
               /\ \A g \in Stage1 : Approved(p, g)
<1>1. \/ status[p] = "pending_delivery_hr" /\ f \in Stage1
      \/ status[p] = "pending_finance_legal" /\ f \in Stage2
  BY DEF MayDecide, ActiveFunctions, Functions, Stage1, Stage2
<1>2. ~Approved(p, f) /\ ~FullyApproved(p)
  BY DEF MayDecide, Approved, Decided, FullyApproved
<1>3. Live(p)
  BY <1>1 DEF Live
<1> QED
  BY <1>1, <1>2, <1>3 DEF ReviewInv, StatusBacked

\* An approval completes a stage only when its last function approves.
LEMMA ApproveKeepsReview ==
  ASSUME TypeOK, ReviewInv, NEW u, NEW p \in Packages, NEW f \in Functions,
         DecideApprove(u, p, f)
  PROVE  ReviewInv'
<1> DEFINE complete == \A g \in ActiveFunctions(status[p]) : g = f \/ Decided(p, g)
           to == IF complete THEN NextStage(p) ELSE status[p]
           d == Decision(u, p, f, "approve")
<1>1. /\ MayDecide(u, p, f) /\ txn' = txn
      /\ approvals' = approvals \cup {d}
      /\ status' = [status EXCEPT ![p] = to]
  BY DEF DecideApprove
<1>2. /\ \A q \in Packages : Refused(q)' <=> Refused(q)
      /\ \A q \in Packages, g \in Functions :
           Approved(q, g)' <=> Approved(q, g) \/ (q = p /\ g = f)
  <2>1. d.pkg = p /\ d.fn = f /\ d.verdict = "approve"
    BY DEF Decision
  <2> HIDE DEF d
  <2> QED BY <1>1, <2>1 DEF Refused, Approved
<1>3. \A q \in Packages : FullyApproved(q) => FullyApproved(q)'
  BY <1>2 DEF FullyApproved
<1>4. \A g \in Functions : Decided(p, g) => Approved(p, g)
  BY <1>1, DecisionContext DEF Decided, Approved, Refused, TypeOK, ApprovalTypes, Approvals, Verdicts
<1>5. ASSUME complete PROVE \A g \in ActiveFunctions(status[p]) : Approved(p, g)'
  BY <1>1, <1>2, <1>4, <1>5, DecisionContext DEF ActiveFunctions, Functions, Stage1, Stage2
<1>6. /\ to # "none"
      /\ to = "pending_finance_legal" => \A g \in Stage1 : Approved(p, g)'
      /\ to \in {"pending_ceo_exception", "ready_to_sign", "released"} => FullyApproved(p)'
  <2>1. CASE ~complete
    BY <1>1, <1>2, <2>1, DecisionContext DEF Functions
  <2>2. CASE complete /\ status[p] = "pending_delivery_hr"
    BY <1>5, <2>2 DEF NextStage, ActiveFunctions
  <2>3. CASE complete /\ status[p] = "pending_finance_legal"
    BY <1>1, <1>2, <1>5, <2>3, DecisionContext
    DEF NextStage, ActiveFunctions, FullyApproved, Functions
  <2> QED
    BY <1>1, <2>1, <2>2, <2>3, DecisionContext
<1>7. DecidedExists'
  BY <1>1, <1>6 DEF ReviewInv, DecidedExists, Decision, TypeOK, StatusTypes, ApprovalTypes, Approvals
<1>8. StatusBacked'
  <2> SUFFICES ASSUME NEW q \in Packages
               PROVE  /\ Live(q)' => ~Refused(q)'
                      /\ status'[q] = "pending_finance_legal" => \A g \in Stage1 : Approved(q, g)'
                      /\ status'[q] \in {"pending_ceo_exception", "ready_to_sign", "released"}
                           => FullyApproved(q)'
    BY DEF StatusBacked
  <2>1. CASE q = p
    BY <1>1, <1>2, <1>6, <2>1, DecisionContext DEF TypeOK, StatusTypes
  <2>2. CASE q # p
    BY <1>1, <1>2, <1>3, <2>2 DEF ReviewInv, StatusBacked, Live, Functions
  <2> QED
    BY <2>1, <2>2
<1>9. RequestsBacked'
  BY <1>1, <1>3 DEF ReviewInv, RequestsBacked, TypeOK, RequestTypes
<1> QED
  BY <1>7, <1>8, <1>9 DEF ReviewInv

\* A refusal leaves the package rejected and no request behind it.
LEMMA RejectKeepsReview ==
  ASSUME TypeOK, ReviewInv, NEW u, NEW p \in Packages, NEW f \in Functions,
         DecideReject(u, p, f)
  PROVE  ReviewInv'
<1> DEFINE d == Decision(u, p, f, "reject")
<1>1. /\ MayDecide(u, p, f) /\ txn' = txn
      /\ approvals' = approvals \cup {d}
      /\ status' = [status EXCEPT ![p] = "rejected"]
  BY DEF DecideReject
<1>2. \A q \in Packages \ {p} :
        /\ Refused(q)' <=> Refused(q)
        /\ FullyApproved(q)' <=> FullyApproved(q)
        /\ \A g \in Functions : Approved(q, g)' <=> Approved(q, g)
  BY <1>1 DEF Refused, FullyApproved, Approved, Decision
<1>3. DecidedExists'
  BY <1>1 DEF ReviewInv, DecidedExists, Decision, TypeOK, StatusTypes, ApprovalTypes, Approvals
<1>4. StatusBacked'
  BY <1>1, <1>2 DEF ReviewInv, StatusBacked, Live, Functions, TypeOK, StatusTypes
<1>5. RequestsBacked'
  <2>1. ~FullyApproved(p)
    BY <1>1, DecisionContext
  <2>2. \A s \in Sessions : txn[s].op \in {"ceo", "release"} => txn[s].pkg \in Packages \ {p}
    BY <2>1 DEF ReviewInv, RequestsBacked, TypeOK, RequestTypes
  <2> QED BY <1>1, <1>2, <2>2 DEF ReviewInv, RequestsBacked
<1> QED
  BY <1>3, <1>4, <1>5 DEF ReviewInv

\* The steps of Approvals.
LEMMA ReviewKeepsReview == ASSUME TypeOK, ReviewInv, ReviewStep PROVE ReviewInv'
<1>1. ASSUME NEW s \in Sessions, NEW p, NEW f, ManualVoidRead(s, p) \/ QuarantineRead(s, p, f)
      PROVE  ReviewInv'
  <2>1. PICK r : r.op \notin {"ceo", "release"} /\ txn' = [txn EXCEPT ![s] = r]
    BY <1>1 DEF ManualVoidRead, QuarantineRead, Request
  <2>2. approvals' = approvals /\ status' = status
    BY <1>1 DEF ManualVoidRead, QuarantineRead, reviewVars
  <2> QED
    BY <2>1, <2>2, QuietRequests, QuietKeepsReview
<1>2. ASSUME NEW s \in Sessions, VoidCommit(s) PROVE ReviewInv'
  <2>1. approvals' = approvals /\ Moves
    BY <1>2, VoidMoves DEF VoidCommit, reviewVars, TypeOK
  <2>2. RequestsBacked'
    BY <1>2, <2>1, QuietRequests, IdleType DEF VoidCommit
  <2> QED
    BY <2>1, <2>2, MovesKeepReview
<1>3. ASSUME NEW p, NEW f, NEW u, SaveGroup(f, u) \/ FinishOnBoard(p, f) PROVE ReviewInv'
  <2>1. approvals' = approvals /\ status' = status /\ txn' = txn
    BY <1>3 DEF SaveGroup, FinishOnBoard, reviewVars
  <2>2. RequestsBacked'
    BY <2>1 DEF ReviewInv, RequestsBacked, FullyApproved, Refused, Approved
  <2> QED
    BY <2>1, <2>2, QuietKeepsReview
<1>4. ASSUME NEW s \in Sessions, RoutingStep(s) PROVE ReviewInv'
  <2>1. txn'[s].op \notin {"ceo", "release"} /\ txn' = [txn EXCEPT ![s] = txn'[s]]
    BY <1>4, RoutingKeeps
  <2>2. approvals' = approvals /\ status' = status
    BY <1>4, RoutingKeeps
  <2> QED
    BY <2>1, <2>2, QuietRequests, QuietKeepsReview
<1> QED
  BY <1>1, <1>2, <1>3, <1>4, SubmitKeepsReview, ApproveKeepsReview, RejectKeepsReview DEF ReviewStep

\* The executive's commit acts on what its read saw fully approved.
LEMMA ExecutiveKeepsReview == ASSUME TypeOK, ReviewInv, ExecutiveStep PROVE ReviewInv'
<1>1. ASSUME NEW p, SetRationale(p) \/ Lapse(p) \/ RecordEvidence(p) PROVE ReviewInv'
  <2>1. approvals' = approvals /\ status' = status /\ txn' = txn
    BY <1>1 DEF SetRationale, Lapse, RecordEvidence, reviewVars
  <2>2. RequestsBacked'
    BY <2>1 DEF ReviewInv, RequestsBacked, FullyApproved, Refused, Approved
  <2> QED
    BY <2>1, <2>2, QuietKeepsReview
<1>2. ASSUME NEW s \in Sessions, NEW p \in Packages, NEW u, NEW arg, CeoRead(s, p, u, arg)
      PROVE  ReviewInv'
  <2>1. FullyApproved(p)
    BY <1>2 DEF CeoRead, MayExcept, ReviewInv, StatusBacked
  <2>2. PICK r : r.pkg = p /\ txn' = [txn EXCEPT ![s] = r]
    BY <1>2 DEF CeoRead, Request
  <2>3. approvals' = approvals /\ status' = status
    BY <1>2 DEF CeoRead, reviewVars
  <2> QED
    BY <2>1, <2>2, <2>3, QuietRequests, QuietKeepsReview
<1>3. ASSUME NEW s \in Sessions, CeoCommit(s) PROVE ReviewInv'
  <2>1. txn[s].pkg \in Packages /\ FullyApproved(txn[s].pkg)
    BY <1>3 DEF CeoCommit, TypeOK, RequestTypes, ReviewInv, RequestsBacked
  <2>2. approvals' = approvals /\ txn' = [txn EXCEPT ![s] = Idle]
    BY <1>3 DEF CeoCommit, reviewVars
  <2>3. Moves
    BY <1>3, <2>1 DEF CeoCommit, Moves, TypeOK, StatusTypes
  <2>4. RequestsBacked'
    BY <2>2, QuietRequests, IdleType
  <2> QED
    BY <2>2, <2>3, <2>4, MovesKeepReview
<1> QED
  BY <1>1, <1>2, <1>3 DEF ExecutiveStep

\* A release's commit acts on what its read saw ready to sign.
LEMMA SignatureKeepsReview == ASSUME TypeOK, ReviewInv, SignatureStep PROVE ReviewInv'
<1>1. ASSUME NEW p, UploadFile(p) \/ Accept(p) \/ MarkChurn PROVE ReviewInv'
  <2>1. approvals' = approvals /\ status' = status /\ txn' = txn
    BY <1>1 DEF UploadFile, Accept, MarkChurn, reviewVars
  <2>2. RequestsBacked'
    BY <2>1 DEF ReviewInv, RequestsBacked, FullyApproved, Refused, Approved
  <2> QED
    BY <2>1, <2>2, QuietKeepsReview
<1>2. ASSUME NEW s \in Sessions, NEW p, NEW i, NEW result,
             UploadRead(s, p) \/ CallbackRead(s, i, result) \/ UploadCommit(s) \/ CallbackCommit(s)
      PROVE  ReviewInv'
  <2>1. PICK r : r.op \notin {"ceo", "release"} /\ txn' = [txn EXCEPT ![s] = r]
    BY <1>2 DEF UploadRead, CallbackRead, UploadCommit, CallbackCommit, Request, Idle
  <2>2. approvals' = approvals /\ status' = status
    BY <1>2 DEF UploadRead, CallbackRead, UploadCommit, CallbackCommit, reviewVars
  <2> QED
    BY <2>1, <2>2, QuietRequests, QuietKeepsReview
<1>3. ASSUME NEW s \in Sessions, NEW i \in DOMAIN uploads, ReleaseRead(s, i) PROVE ReviewInv'
  <2>1. uploads[i].pkg \in Packages
    BY UploadRow DEF TypeOK, Uploads
  <2>2. FullyApproved(uploads[i].pkg)
    BY <1>3, <2>1 DEF ReleaseRead, ReleaseGate, AwaitsSignature, ReviewInv, StatusBacked
  <2>3. PICK r : r.pkg = uploads[i].pkg /\ txn' = [txn EXCEPT ![s] = r]
    BY <1>3 DEF ReleaseRead, Request
  <2>4. approvals' = approvals /\ status' = status
    BY <1>3 DEF ReleaseRead, reviewVars
  <2> QED
    BY <2>2, <2>3, <2>4, QuietRequests, QuietKeepsReview
<1>4. ASSUME NEW s \in Sessions, ReleaseCommit(s) PROVE ReviewInv'
  <2>1. txn[s].pkg \in Packages /\ FullyApproved(txn[s].pkg)
    BY <1>4 DEF ReleaseCommit, TypeOK, RequestTypes, ReviewInv, RequestsBacked
  <2>2. approvals' = approvals /\ txn' = [txn EXCEPT ![s] = Idle]
    BY <1>4 DEF ReleaseCommit, reviewVars
  <2>3. Moves
    BY <1>4, <2>1 DEF ReleaseCommit, Moves, TypeOK, StatusTypes
  <2>4. RequestsBacked'
    BY <2>2, QuietRequests, IdleType
  <2> QED
    BY <2>2, <2>3, <2>4, MovesKeepReview
<1> QED
  BY <1>1, <1>2, <1>3, <1>4 DEF SignatureStep

\* No package, no decision and no request exists at the start.
LEMMA InitReview == Init => ReviewInv
  BY DEF Init, ReviewInv, DecidedExists, StatusBacked, RequestsBacked, Live, Idle, Request

\* The invariant is inductive.
LEMMA StepKeepsReview == ASSUME TypeOK, ReviewInv, [Next]_vars PROVE ReviewInv'
<1>1. ASSUME NEW s \in Sessions, Abort(s) PROVE ReviewInv'
  <2>1. approvals' = approvals /\ status' = status /\ txn' = [txn EXCEPT ![s] = Idle]
    BY <1>1 DEF Abort, reviewVars
  <2> QED
    BY <2>1, QuietRequests, QuietKeepsReview, IdleType
<1>2. CASE UNCHANGED vars
  <2>1. approvals' = approvals /\ status' = status /\ txn' = txn
    BY <1>2 DEF vars, reviewVars
  <2>2. RequestsBacked'
    BY <2>1 DEF ReviewInv, RequestsBacked, FullyApproved, Refused, Approved
  <2> QED
    BY <2>1, <2>2, QuietKeepsReview
<1> QED
  BY <1>1, <1>2, SourceKeepsReview, ReviewKeepsReview, ExecutiveKeepsReview,
     SignatureKeepsReview DEF Next

\* A package beyond a stage has the approvals of that stage, a decision has its
\* package, and a request in flight was made on a fully approved one: the
\* invariant the two theorems below follow from (approvals, ceo_exception, signed_sow).
THEOREM ReviewCorrect == Spec => []ReviewInv
<1>1. Init => ReviewInv
  BY InitReview
<1>2. TypeOK /\ ReviewInv /\ [Next]_vars => ReviewInv'
  BY StepKeepsReview
<1> QED
  BY <1>1, <1>2, TypeCorrect, PTL DEF Spec

\* No race of decisions, voids, the executive's decision and releases opens for
\* signature, or releases, what one of the five functions has not approved.
THEOREM SignableIsFullyApproved == Spec => []SignableFullyApproved
<1>1. ReviewInv => SignableFullyApproved
  BY DEF ReviewInv, StatusBacked, SignableFullyApproved
<1> QED
  BY <1>1, ReviewCorrect, PTL

\* No request in flight brings back a package a function refused.
THEOREM RefusedStaysRefused == Spec => []RefusalIsFinal
<1>1. TypeOK /\ ReviewInv => RefusalIsFinal
  BY DEF TypeOK, StatusTypes, Status, Pending, ReviewInv, DecidedExists, StatusBacked,
     RefusalIsFinal, Refused, Live
<1> QED
  BY <1>1, TypeCorrect, ReviewCorrect, PTL


(***************************************************************************)
(* Facts of every step.                                                    *)
(***************************************************************************)
\* Only a submission writes pins, and only those of a row that did not exist.
LEMMA StepKeepsPins ==
  ASSUME TypeOK, [Next]_vars, NEW p \in Packages, status[p] # "none"
  PROVE  pkgSow'[p] = pkgSow[p] /\ pkgGm'[p] = pkgGm[p] /\ submitter'[p] = submitter[p]
<1>1. CASE UNCHANGED pinVars
  BY <1>1 DEF pinVars
<1>2. ASSUME NEW u, NEW q \in Packages, Submit(u, q)
      PROVE  pkgSow'[p] = pkgSow[p] /\ pkgGm'[p] = pkgGm[p] /\ submitter'[p] = submitter[p]
  <2>1. q # p
    BY <1>2 DEF Submit, FreshRow
  <2>2. PICK v, people : Pin(u, q, v, people)
    BY <1>2 DEF Submit
  <2> QED
    BY <2>1, <2>2 DEF Pin, TypeOK, PinTypes
<1>3. CASE SourceStep
  BY <1>1, <1>3 DEF SourceStep, CreateSowVersion, Confirm, CreateGm, SaveCommercial,
     ReviseRead, ReviseCommit, DeleteVersion, DiscardVersion
<1>4. CASE ReviewStep
  BY <1>1, <1>2, <1>4, RoutingKeeps DEF ReviewStep, DecideApprove, DecideReject,
     ManualVoidRead, QuarantineRead, VoidCommit, SaveGroup, FinishOnBoard
<1>5. CASE ExecutiveStep
  BY <1>1, <1>5 DEF ExecutiveStep, SetRationale, CeoRead, CeoCommit, Lapse, RecordEvidence
<1>6. CASE SignatureStep
  BY <1>1, <1>6 DEF SignatureStep, UploadFile, UploadRead, UploadCommit, CallbackRead,
     CallbackCommit, Accept, ReleaseRead, ReleaseCommit, MarkChurn
<1>7. CASE (\E s \in Sessions : Abort(s)) \/ UNCHANGED vars
  BY <1>1, <1>7 DEF Abort, vars
<1> QED
  BY <1>3, <1>4, <1>5, <1>6, <1>7 DEF Next

\* The one kind of step that records a decision.
Deciding(u, p, f, verdict) ==
  /\ MayDecide(u, p, f)
  /\ approvals' = approvals \cup {Decision(u, p, f, verdict)}
  /\ UNCHANGED <<sourceVars, pinVars>>

\* A step records one authorised decision or none at all.
LEMMA StepDecisions ==
  ASSUME TypeOK, [Next]_vars
  PROVE  \/ approvals' = approvals
         \/ \E u \in Users, p \in Packages, f \in Functions, verdict \in Verdicts :
              Deciding(u, p, f, verdict)
<1>1. CASE UNCHANGED reviewVars
  BY <1>1 DEF reviewVars
<1>2. ASSUME NEW u \in Users, NEW p \in Packages, NEW f \in Functions,
             DecideApprove(u, p, f) \/ DecideReject(u, p, f)
      PROVE  \E verdict \in Verdicts : Deciding(u, p, f, verdict)
  <2>1. CASE DecideApprove(u, p, f)
    <3>1. Deciding(u, p, f, "approve")
      BY <2>1 DEF DecideApprove, Deciding
    <3> QED BY <3>1 DEF Verdicts
  <2>2. CASE DecideReject(u, p, f)
    <3>1. Deciding(u, p, f, "reject")
      BY <2>2 DEF DecideReject, Deciding
    <3> QED BY <3>1 DEF Verdicts
  <2> QED BY <1>2, <2>1, <2>2
<1>3. CASE SourceStep
  BY <1>1, <1>3 DEF SourceStep, CreateSowVersion, Confirm, CreateGm, SaveCommercial,
     ReviseRead, ReviseCommit, DeleteVersion, DiscardVersion
<1>4. CASE ReviewStep
  <2>1. ASSUME NEW u, NEW p, Submit(u, p) PROVE approvals' = approvals
    BY <2>1 DEF Submit
  <2>2. ASSUME NEW s, NEW p, NEW f,
               ManualVoidRead(s, p) \/ QuarantineRead(s, p, f) \/ VoidCommit(s)
        PROVE  approvals' = approvals
    BY <2>2 DEF ManualVoidRead, QuarantineRead, VoidCommit, reviewVars
  <2>4. ASSUME NEW p, NEW f, NEW u, SaveGroup(f, u) \/ FinishOnBoard(p, f)
        PROVE  approvals' = approvals
    BY <2>4 DEF SaveGroup, FinishOnBoard, reviewVars
  <2>5. ASSUME NEW s \in Sessions, RoutingStep(s) PROVE approvals' = approvals
    BY <2>5, RoutingKeeps
  <2>3. ASSUME NEW p \in Packages, NEW f \in Functions,
               \/ \E u \in Approvers : DecideApprove(u, p, f)
               \/ \E u \in Refusers : DecideReject(u, p, f)
        PROVE  \E u \in Users, verdict \in Verdicts : Deciding(u, p, f, verdict)
    BY <1>2, <2>3, UsersAssumption
  <2> QED
    BY <1>4, <2>1, <2>2, <2>3, <2>4, <2>5 DEF ReviewStep
<1>5. CASE ExecutiveStep
  BY <1>1, <1>5 DEF ExecutiveStep, SetRationale, CeoRead, CeoCommit, Lapse, RecordEvidence
<1>6. CASE SignatureStep
  BY <1>1, <1>6 DEF SignatureStep, UploadFile, UploadRead, UploadCommit, CallbackRead,
     CallbackCommit, Accept, ReleaseRead, ReleaseCommit, MarkChurn
<1>7. CASE (\E s \in Sessions : Abort(s)) \/ UNCHANGED vars
  BY <1>1, <1>7 DEF Abort, vars
<1> QED
  BY <1>3, <1>4, <1>5, <1>6, <1>7 DEF Next

\* Decisions are only added and a submitted package's pins never change, over
\* voiding, quarantine, rerouting and resubmission.
THEOREM RecordOnlyGrows == Spec => RecordIsAppendOnly
<1>1. TypeOK /\ [Next]_vars =>
        [/\ approvals \subseteq approvals'
         /\ \A p \in Packages : status[p] # "none" =>
              pkgSow'[p] = pkgSow[p] /\ pkgGm'[p] = pkgGm[p] /\ submitter'[p] = submitter[p]
        ]_vars
  BY StepKeepsPins, StepDecisions DEF Deciding
<1> QED
  BY <1>1, TypeCorrect, PTL DEF Spec, RecordIsAppendOnly

(***************************************************************************)
(* Separation of duties.                                                   *)
(***************************************************************************)
\* A new decision is of another function and person than the package's others.
LEMMA StepKeepsSeparation ==
  ASSUME TypeOK, DecidedExists, FourEyes, [Next]_vars PROVE FourEyes'
<1>1. \A a \in approvals : a.pkg \in Packages /\ submitter'[a.pkg] = submitter[a.pkg]
  BY StepKeepsPins DEF TypeOK, ApprovalTypes, Approvals, DecidedExists
<1>2. CASE approvals' = approvals
  BY <1>1, <1>2 DEF FourEyes
<1>3. ASSUME NEW u \in Users, NEW p \in Packages, NEW f \in Functions, NEW verdict \in Verdicts,
             Deciding(u, p, f, verdict)
      PROVE  FourEyes'
  <2> DEFINE d == Decision(u, p, f, verdict)
  <2>1. d.pkg = p /\ d.fn = f /\ d.who = u
    BY DEF Decision
  <2>2. \A a \in approvals : a.pkg = p => a.fn # f /\ a.who # u
    BY <1>3 DEF Deciding, MayDecide, Decided
  <2>3. submitter'[p] # u
    BY <1>3 DEF Deciding, MayDecide, pinVars
  <2>4. approvals' = approvals \cup {d}
    BY <1>3 DEF Deciding
  <2> HIDE DEF d
  <2> QED
    BY <1>1, <2>1, <2>2, <2>3, <2>4 DEF FourEyes
<1> QED
  BY <1>2, <1>3, StepDecisions

\* Each function is decided once, each decision is another person's, and none
\* is the submitter's, whatever rerouting, repair and group changes happen.
THEOREM DutiesSeparate == Spec => []FourEyes
<1>1. Init => FourEyes
  BY DEF Init, FourEyes
<1>2. TypeOK /\ ReviewInv /\ FourEyes /\ [Next]_vars => FourEyes'
  BY StepKeepsSeparation DEF ReviewInv
<1> QED
  BY <1>1, <1>2, TypeCorrect, ReviewCorrect, PTL DEF Spec

(***************************************************************************)
(* The order of the stages and the executive gate.                         *)
(***************************************************************************)
\* A void in flight names a package that was submitted.
VoidsExist == \A s \in Sessions : txn[s].op = "void" => status[txn[s].pkg] # "none"

\* A submitted package's model is there to be read.
PinnedModel == \A p \in Packages : status[p] # "none" => pkgGm[p] \in DOMAIN gms

\* A decision of the executive in flight was allowed to start.
ExecutiveRequests ==
  \A s \in Sessions : txn[s].op = "ceo" =>
    /\ txn[s].who \in Deciders \ {submitter[txn[s].pkg]}
    /\ txn[s].arg # "reject" => exc[txn[s].pkg].rationale
    /\ RequiresCeo(txn[s].pkg)

ExecutiveInv == VoidsExist /\ PinnedModel /\ StagesInOrder /\ ExecutiveRequests /\ CeoGate

\* Models are only appended, so what a package pinned keeps its floor.
LEMMA StepKeepsModels ==
  ASSUME TypeOK, [Next]_vars, NEW g \in DOMAIN gms
  PROVE  g \in DOMAIN gms' /\ gms'[g] = gms[g]
<1>1. CASE gms' = gms
  BY <1>1
<1>2. CASE \E m : gms' = Append(gms, m)
  BY <1>2 DEF TypeOK, GmTypes
<1>3. CASE SourceStep
  <2>1. ASSUME NEW v, Confirm(v) PROVE gms' = gms \/ \E m : gms' = Append(gms, m)
    BY <2>1 DEF Confirm
  <2>2. ASSUME NEW v, NEW fl, CreateGm(v, fl) \/ SaveCommercial(v, fl)
        PROVE  \E m : gms' = Append(gms, m)
    BY <2>2 DEF CreateGm, SaveCommercial
  <2>3. ASSUME NEW v, NEW s, \/ CreateSowVersion \/ DeleteVersion(v) \/ DiscardVersion(v)
                             \/ ReviseRead(s) \/ ReviseCommit(s)
        PROVE  gms' = gms
    BY <2>3 DEF CreateSowVersion, DeleteVersion, DiscardVersion, ReviseRead, ReviseCommit,
       sourceVars
  <2> QED
    BY <1>1, <1>2, <1>3, <2>1, <2>2, <2>3 DEF SourceStep
<1>4. CASE ReviewStep
  BY <1>1, <1>4, RoutingKeeps DEF ReviewStep, Submit, DecideApprove, DecideReject,
     ManualVoidRead, QuarantineRead, VoidCommit, SaveGroup, FinishOnBoard, sourceVars
<1>5. CASE ExecutiveStep
  BY <1>1, <1>5 DEF ExecutiveStep, SetRationale, CeoRead, CeoCommit, Lapse, RecordEvidence,
     sourceVars
<1>6. CASE SignatureStep
  BY <1>1, <1>6 DEF SignatureStep, UploadFile, UploadRead, UploadCommit, CallbackRead,
     CallbackCommit, Accept, ReleaseRead, ReleaseCommit, MarkChurn, sourceVars
<1>7. CASE (\E s \in Sessions : Abort(s)) \/ UNCHANGED vars
  BY <1>1, <1>7 DEF Abort, vars, sourceVars
<1> QED
  BY <1>3, <1>4, <1>5, <1>6, <1>7 DEF Next

\* So a package that needs the executive always will, and no other ever does.
LEMMA StepKeepsFloor ==
  ASSUME TypeOK, PinnedModel, [Next]_vars, NEW p \in Packages, status[p] # "none"
  PROVE  RequiresCeo(p)' <=> RequiresCeo(p)
  BY StepKeepsModels, StepKeepsPins DEF PinnedModel, RequiresCeo

\* What a step may leave in a session.
LEMMA StepRequests ==
  ASSUME TypeOK, [Next]_vars, NEW s \in Sessions
  PROVE  \/ txn'[s] = txn[s]
         \/ txn'[s].op \notin {"ceo", "void", "reroute"}
         \/ txn'[s].op = "void" /\ status[txn'[s].pkg] # "none"
         \/ \E p \in Packages, u \in Deciders, arg \in CeoArgs : CeoRead(s, p, u, arg)
         \/ RoutePlan(s) /\ txn'[s].op = "reroute"
<1> DEFINE Fits == \/ txn'[s] = txn[s]
                   \/ txn'[s].op \notin {"ceo", "void", "reroute"}
                   \/ txn'[s].op = "void" /\ status[txn'[s].pkg] # "none"
                   \/ \E p \in Packages, u \in Deciders, arg \in CeoArgs : CeoRead(s, p, u, arg)
                   \/ RoutePlan(s) /\ txn'[s].op = "reroute"
<1>1. CASE txn' = txn
  BY <1>1
<1>2. ASSUME NEW t \in Sessions, NEW r, txn' = [txn EXCEPT ![t] = r],
             r.op \notin {"ceo", "void", "reroute"} \/ (r.op = "void" /\ status[r.pkg] # "none")
      PROVE  Fits
  BY <1>2 DEF TypeOK, RequestTypes
<1>3. CASE SourceStep
  <2>1. ASSUME NEW t \in Sessions, ReviseRead(t) \/ ReviseCommit(t) PROVE Fits
    <3>1. PICK r : r.op \notin {"ceo", "void", "reroute"} /\ txn' = [txn EXCEPT ![t] = r]
      BY <2>1 DEF ReviseRead, ReviseCommit, Request, Idle
    <3> QED BY <3>1, <1>2
  <2> QED
    BY <1>1, <1>3, <2>1 DEF SourceStep, CreateSowVersion, Confirm, CreateGm, SaveCommercial,
       DeleteVersion, DiscardVersion
<1>4. CASE ReviewStep
  <2>1. ASSUME NEW t \in Sessions, NEW p, NEW f, ManualVoidRead(t, p) \/ QuarantineRead(t, p, f)
        PROVE  Fits
    <3>1. PICK r : r.op = "void" /\ status[r.pkg] # "none" /\ txn' = [txn EXCEPT ![t] = r]
      BY <2>1 DEF ManualVoidRead, QuarantineRead, Request
    <3> QED BY <3>1, <1>2
  <2>2. ASSUME NEW t \in Sessions, VoidCommit(t) PROVE Fits
    <3>1. Idle.op \notin {"ceo", "void", "reroute"} /\ txn' = [txn EXCEPT ![t] = Idle]
      BY <2>2 DEF VoidCommit, Idle, Request
    <3> QED BY <3>1, <1>2
  <2>3. ASSUME NEW t \in Sessions, RoutingStep(t) PROVE Fits
    <3>1. txn'[t].op \notin {"ceo", "void"} /\ txn' = [txn EXCEPT ![t] = txn'[t]]
      BY <2>3, RoutingKeeps
    <3>2. RoutePlan(t) \/ txn'[t].op # "reroute"
      <4>1. ASSUME NEW r, txn' = [txn EXCEPT ![t] = r], r.op # "reroute"
            PROVE  txn'[t].op # "reroute"
        BY <4>1 DEF TypeOK, RequestTypes
      <4>2. ASSUME NEW p, NEW plan, NEW op, op # "reroute",
                   txn' = [txn EXCEPT ![t] = Planned(op, p, plan)]
            PROVE  txn'[t].op # "reroute"
        <5> DEFINE r == Planned(op, p, plan)
        <5>1. r.op # "reroute" /\ txn' = [txn EXCEPT ![t] = r]
          BY <4>2 DEF Planned
        <5> HIDE DEF r
        <5> QED BY <4>1, <5>1
      <4>3. ASSUME NEW p, RouteStart(t, p) \/ RouteLoad(t) PROVE txn'[t].op # "reroute"
        BY <4>2, <4>3 DEF RouteStart, RouteLoad
      <4>5. ASSUME NEW p, NEW f, NEW u, RepairRead(t, p, f, u) PROVE txn'[t].op # "reroute"
        <5>1. PICK who : txn' = [txn EXCEPT ![t] = Request("repair", p, 0, who, f)]
          BY <4>5 DEF RepairRead
        <5> DEFINE r == Request("repair", p, 0, who, f)
        <5>2. r.op # "reroute" /\ txn' = [txn EXCEPT ![t] = r]
          BY <5>1 DEF Request
        <5> HIDE DEF r
        <5> QED BY <4>1, <5>2
      <4>4. ASSUME RouteCommit(t) \/ RepairCommit(t) PROVE txn'[t].op # "reroute"
        BY <4>1, <4>4, IdleType DEF RouteCommit, RepairCommit
      <4> QED BY <2>3, <4>3, <4>4, <4>5 DEF RoutingStep
    <3>3. CASE t = s
      <4>1. txn'[s].op \notin {"ceo", "void"} /\ (RoutePlan(s) \/ txn'[s].op # "reroute")
        BY <3>1, <3>2, <3>3
      <4> QED BY <4>1
    <3>4. CASE t # s
      BY <3>1, <3>4 DEF TypeOK, RequestTypes
    <3> QED BY <3>3, <3>4
  <2> QED
    BY <1>1, <1>4, <2>1, <2>2, <2>3 DEF ReviewStep, Submit, DecideApprove, DecideReject,
       SaveGroup, FinishOnBoard
<1>5. CASE ExecutiveStep
  <2>1. ASSUME NEW t \in Sessions, NEW p \in Packages, NEW u \in Deciders, NEW arg \in CeoArgs,
               CeoRead(t, p, u, arg)
        PROVE  Fits
    <3>1. CASE t = s
      BY <2>1, <3>1
    <3>2. CASE t # s
      BY <2>1, <3>2 DEF CeoRead
    <3> QED BY <3>1, <3>2
  <2>2. ASSUME NEW t \in Sessions, CeoCommit(t) PROVE Fits
    <3>1. Idle.op \notin {"ceo", "void", "reroute"} /\ txn' = [txn EXCEPT ![t] = Idle]
      BY <2>2 DEF CeoCommit, Idle, Request
    <3> QED BY <3>1, <1>2
  <2> QED
    BY <1>1, <1>5, <2>1, <2>2 DEF ExecutiveStep, SetRationale, Lapse, RecordEvidence
<1>6. CASE SignatureStep
  <2>1. ASSUME NEW t \in Sessions, NEW p, NEW i, NEW result,
               \/ UploadRead(t, p) \/ UploadCommit(t) \/ CallbackRead(t, i, result)
               \/ CallbackCommit(t) \/ ReleaseRead(t, i) \/ ReleaseCommit(t)
        PROVE  Fits
    <3>1. PICK r : r.op \notin {"ceo", "void", "reroute"} /\ txn' = [txn EXCEPT ![t] = r]
      BY <2>1 DEF UploadRead, UploadCommit, CallbackRead, CallbackCommit, ReleaseRead,
         ReleaseCommit, Request, Idle
    <3> QED BY <3>1, <1>2
  <2> QED
    BY <1>1, <1>6, <2>1 DEF SignatureStep, UploadFile, Accept, MarkChurn
<1>7. ASSUME NEW t \in Sessions, Abort(t) PROVE Fits
  <2>1. Idle.op \notin {"ceo", "void", "reroute"} /\ txn' = [txn EXCEPT ![t] = Idle]
    BY <1>7 DEF Abort, Idle, Request
  <2> QED BY <2>1, <1>2
<1>8. CASE UNCHANGED vars
  BY <1>1, <1>8 DEF vars
<1> QED
  BY <1>3, <1>4, <1>5, <1>6, <1>7, <1>8 DEF Next

\* Only a submission brings a row to life, and no step takes one away.
LEMMA StepLife ==
  ASSUME TypeOK, ReviewInv, VoidsExist, [Next]_vars, NEW p \in Packages
  PROVE  /\ status[p] # "none" => status'[p] # "none"
         /\ status[p] = "none" /\ status'[p] # "none" => \E u : Submit(u, p)
<1> DEFINE Lives == /\ status[p] # "none" => status'[p] # "none"
                    /\ status[p] = "none" /\ status'[p] # "none" => \E u : Submit(u, p)
<1>1. CASE status' = status
  BY <1>1
<1>2. ASSUME NEW targets, Void(targets), p \in targets => status[p] # "none" PROVE Lives
  BY <1>2 DEF Void
<1>3. ASSUME NEW q \in Packages, status[q] # "none", NEW to, to # "none",
             status' = [status EXCEPT ![q] = to]
      PROVE  Lives
  BY <1>3 DEF TypeOK, StatusTypes
<1>4. \A q \in Packages : FullyApproved(q) => status[q] # "none"
  BY DEF ReviewInv, DecidedExists, FullyApproved, Approved, Functions, Stage1
<1>5. CASE SourceStep
  <2>1. p \in VoidTargets => status[p] # "none"
    BY DEF VoidTargets, IsActive, Live
  <2>2. ASSUME NEW v, p \in CommercialTargets(v) PROVE status[p] # "none"
    BY <2>1, <2>2 DEF CommercialTargets
  <2>3. ASSUME NEW v, NEW fl, \/ CreateSowVersion \/ CreateGm(v, fl) \/ SaveCommercial(v, fl)
                              \/ Confirm(v)
        PROVE  Lives
    BY <1>1, <1>2, <2>1, <2>2, <2>3 DEF CreateSowVersion, CreateGm, SaveCommercial, Confirm
  <2>4. ASSUME NEW v, NEW s, \/ DeleteVersion(v) \/ DiscardVersion(v)
                             \/ ReviseRead(s) \/ ReviseCommit(s)
        PROVE  Lives
    BY <1>1, <2>4 DEF DeleteVersion, DiscardVersion, ReviseRead, ReviseCommit
  <2> QED
    BY <1>5, <2>3, <2>4 DEF SourceStep
<1>6. CASE ReviewStep
  <2>1. ASSUME NEW u, NEW q \in Packages, Submit(u, q) PROVE Lives
    <3>1. status' = [status EXCEPT ![q] = "pending_delivery_hr"]
      BY <2>1 DEF Submit, Pin
    <3> QED BY <2>1, <3>1 DEF TypeOK, StatusTypes
  <2>2. ASSUME NEW u, NEW q \in Packages, NEW f \in Functions,
               DecideApprove(u, q, f) \/ DecideReject(u, q, f)
        PROVE  Lives
    <3>1. MayDecide(u, q, f)
      BY <2>2 DEF DecideApprove, DecideReject
    <3>2. status[q] # "none"
      BY <3>1, DecisionContext DEF Live
    <3>3. PICK to : to # "none" /\ status' = [status EXCEPT ![q] = to]
      BY <2>2, <3>2 DEF DecideApprove, DecideReject, NextStage
    <3> QED BY <1>3, <3>2, <3>3
  <2>3. ASSUME NEW s \in Sessions, VoidCommit(s) PROVE Lives
    BY <1>2, <2>3 DEF VoidCommit, VoidsExist
  <2>4. ASSUME NEW s, NEW q, NEW f, ManualVoidRead(s, q) \/ QuarantineRead(s, q, f)
        PROVE  Lives
    BY <1>1, <2>4 DEF ManualVoidRead, QuarantineRead
  <2>5. ASSUME NEW q, NEW f, NEW u, SaveGroup(f, u) \/ FinishOnBoard(q, f)
        PROVE  Lives
    BY <1>1, <2>5 DEF SaveGroup, FinishOnBoard
  <2>6. ASSUME NEW s \in Sessions, RoutingStep(s) PROVE Lives
    BY <1>1, <2>6, RoutingKeeps
  <2> QED
    BY <1>6, <2>1, <2>2, <2>3, <2>4, <2>5, <2>6 DEF ReviewStep
<1>7. CASE ExecutiveStep
  <2>1. ASSUME NEW s \in Sessions, CeoCommit(s) PROVE Lives
    <3>1. txn[s].pkg \in Packages /\ status[txn[s].pkg] # "none"
      BY <1>4, <2>1 DEF CeoCommit, TypeOK, RequestTypes, ReviewInv, RequestsBacked
    <3>2. PICK to : to # "none" /\ status' = [status EXCEPT ![txn[s].pkg] = to]
      BY <2>1 DEF CeoCommit
    <3> QED BY <1>3, <3>1, <3>2
  <2> QED
    BY <1>1, <1>7, <2>1 DEF ExecutiveStep, SetRationale, CeoRead, Lapse, RecordEvidence
<1>8. CASE SignatureStep
  <2>1. ASSUME NEW s \in Sessions, ReleaseCommit(s) PROVE Lives
    <3>1. txn[s].pkg \in Packages /\ status[txn[s].pkg] # "none"
      BY <1>4, <2>1 DEF ReleaseCommit, TypeOK, RequestTypes, ReviewInv, RequestsBacked
    <3>2. PICK to : to # "none" /\ status' = [status EXCEPT ![txn[s].pkg] = to]
      BY <2>1 DEF ReleaseCommit
    <3> QED BY <1>3, <3>1, <3>2
  <2> QED
    BY <1>1, <1>8, <2>1 DEF SignatureStep, UploadFile, UploadRead, UploadCommit, CallbackRead,
       CallbackCommit, Accept, ReleaseRead, MarkChurn
<1>9. CASE (\E s \in Sessions : Abort(s)) \/ UNCHANGED vars
  BY <1>1, <1>9 DEF Abort, vars
<1> QED
  BY <1>5, <1>6, <1>7, <1>8, <1>9 DEF Next

\* A void in flight names a package that exists.
LEMMA StepKeepsVoids ==
  ASSUME TypeOK, ReviewInv, VoidsExist, [Next]_vars PROVE VoidsExist'
<1> SUFFICES ASSUME NEW s \in Sessions, txn'[s].op = "void"
             PROVE  status'[txn'[s].pkg] # "none"
  BY DEF VoidsExist
<1>1. txn'[s].pkg \in Packages
  BY StepTypes DEF TypeOK, RequestTypes
<1>2. status[txn'[s].pkg] # "none"
  BY StepRequests DEF VoidsExist, CeoRead, Request, TypeOK, RequestTypes
<1> QED
  BY <1>1, <1>2, StepLife

\* A submitted package pins a model that exists.
LEMMA StepKeepsPinnedModel ==
  ASSUME TypeOK, ReviewInv, VoidsExist, PinnedModel, [Next]_vars PROVE PinnedModel'
<1> SUFFICES ASSUME NEW p \in Packages, status'[p] # "none" PROVE pkgGm'[p] \in DOMAIN gms'
  BY DEF PinnedModel
<1>1. CASE status[p] # "none"
  BY <1>1, StepKeepsPins, StepKeepsModels DEF PinnedModel
<1>2. CASE status[p] = "none"
  <2>1. ASSUME NEW u, Submit(u, p) PROVE pkgGm'[p] \in DOMAIN gms'
    <3>1. PICK v, people : Submittable(v) /\ Pin(u, p, v, people)
      BY <2>1 DEF Submit
    <3>2. Len(gms) \in DOMAIN gms
      BY <3>1 DEF Submittable, TypeOK, GmTypes
    <3> QED
      BY <2>1, <3>1, <3>2 DEF Pin, Submit, sourceVars, TypeOK, PinTypes
  <2> QED
    BY <1>2, <2>1, StepLife
<1> QED
  BY <1>1, <1>2

\* The steps that write an exception or make a package ready to sign.
LEMMA StepExceptions ==
  ASSUME TypeOK, [Next]_vars
  PROVE  \/ /\ exc' = exc
            /\ \A p \in Packages : status'[p] = "ready_to_sign" => status[p] = "ready_to_sign"
         \/ \E u \in Approvers, p \in Packages, f \in Functions : DecideApprove(u, p, f)
         \/ \E p \in Packages : SetRationale(p)
         \/ \E s \in Sessions : CeoCommit(s)
<1> DEFINE Still == /\ exc' = exc
                    /\ \A p \in Packages :
                         status'[p] = "ready_to_sign" => status[p] = "ready_to_sign"
<1>1. ASSUME exc' = exc, status' = status PROVE Still
  BY <1>1
<1>2. ASSUME exc' = exc, NEW targets, Void(targets) PROVE Still
  BY <1>2 DEF Void
<1>3. ASSUME exc' = exc, NEW q \in Packages, NEW to, to # "ready_to_sign",
             status' = [status EXCEPT ![q] = to]
      PROVE  Still
  BY <1>3 DEF TypeOK, StatusTypes
<1>4. CASE SourceStep
  <2>1. ASSUME NEW v, NEW fl, \/ CreateSowVersion \/ CreateGm(v, fl) \/ SaveCommercial(v, fl)
                              \/ Confirm(v)
        PROVE  Still
    BY <1>1, <1>2, <2>1 DEF CreateSowVersion, CreateGm, SaveCommercial, Confirm, execVars
  <2>2. ASSUME NEW v, NEW s, \/ DeleteVersion(v) \/ DiscardVersion(v)
                             \/ ReviseRead(s) \/ ReviseCommit(s)
        PROVE  Still
    BY <1>1, <2>2 DEF DeleteVersion, DiscardVersion, ReviseRead, ReviseCommit, execVars
  <2> QED
    BY <1>4, <2>1, <2>2 DEF SourceStep
<1>5. CASE ReviewStep
  <2>1. ASSUME NEW u, NEW q \in Packages, Submit(u, q) PROVE Still
    <3>1. status' = [status EXCEPT ![q] = "pending_delivery_hr"] /\ exc' = exc
      BY <2>1 DEF Submit, Pin, execVars
    <3> QED BY <1>3, <3>1
  <2>2. ASSUME NEW u, NEW q \in Packages, NEW f, DecideReject(u, q, f) PROVE Still
    <3>1. status' = [status EXCEPT ![q] = "rejected"] /\ exc' = exc
      BY <2>2 DEF DecideReject, execVars
    <3> QED BY <1>3, <3>1
  <2>3. ASSUME NEW s, VoidCommit(s) PROVE Still
    BY <1>2, <2>3 DEF VoidCommit, execVars
  <2>4. ASSUME NEW s, NEW q, NEW f, ManualVoidRead(s, q) \/ QuarantineRead(s, q, f)
        PROVE  Still
    BY <1>1, <2>4 DEF ManualVoidRead, QuarantineRead, execVars
  <2>5. ASSUME NEW q, NEW f, NEW u, SaveGroup(f, u) \/ FinishOnBoard(q, f)
        PROVE  Still
    BY <1>1, <2>5 DEF SaveGroup, FinishOnBoard, execVars
  <2>6. ASSUME NEW s \in Sessions, RoutingStep(s) PROVE Still
    BY <1>1, <2>6, RoutingKeeps DEF execVars
  <2> QED
    BY <1>5, <2>1, <2>2, <2>3, <2>4, <2>5, <2>6 DEF ReviewStep
<1>6. CASE ExecutiveStep
  BY <1>1, <1>6 DEF ExecutiveStep, CeoRead, Lapse, RecordEvidence, execVars
<1>7. CASE SignatureStep
  <2>1. ASSUME NEW s \in Sessions, ReleaseCommit(s) PROVE Still
    <3>1. /\ txn[s].pkg \in Packages
          /\ status' = [status EXCEPT ![txn[s].pkg] = "released"] /\ exc' = exc
      BY <2>1 DEF ReleaseCommit, TypeOK, RequestTypes, execVars
    <3> QED BY <1>3, <3>1
  <2> QED
    BY <1>1, <1>7, <2>1 DEF SignatureStep, UploadFile, UploadRead, UploadCommit, CallbackRead,
       CallbackCommit, Accept, ReleaseRead, MarkChurn, execVars
<1>8. CASE (\E s \in Sessions : Abort(s)) \/ UNCHANGED vars
  BY <1>1, <1>8 DEF Abort, vars, execVars
<1> QED
  BY <1>4, <1>5, <1>6, <1>7, <1>8 DEF Next

\* A package all five functions approved takes no further decision.
LEMMA StepKeepsClearance ==
  ASSUME TypeOK, ReviewInv, [Next]_vars, NEW p \in Packages, FullyApproved(p)
  PROVE  FullyApproved(p)'
<1>1. CASE approvals' = approvals
  BY <1>1 DEF FullyApproved, Refused, Approved
<1>2. ASSUME NEW u \in Users, NEW q \in Packages, NEW f \in Functions, NEW verdict \in Verdicts,
             Deciding(u, q, f, verdict)
      PROVE  FullyApproved(p)'
  <2> DEFINE d == Decision(u, q, f, verdict)
  <2>1. q # p
    BY <1>2, DecisionContext DEF Deciding
  <2>2. d.pkg = q /\ approvals' = approvals \cup {d}
    BY <1>2 DEF Deciding, Decision
  <2> HIDE DEF d
  <2> QED
    BY <2>1, <2>2 DEF FullyApproved, Refused, Approved
<1> QED
  BY <1>1, <1>2, StepDecisions

\* Stages run in order, and the exception is drafted after both.
LEMMA StepKeepsStages ==
  ASSUME TypeOK, ReviewInv, ReviewInv', VoidsExist, PinnedModel, StagesInOrder, [Next]_vars
  PROVE  StagesInOrder'
<1>1. ASSUME NEW p \in Packages, NEW f \in Stage2, Decided(p, f)'
      PROVE  \A g \in Stage1 : Approved(p, g)'
  <2>1. CASE approvals' = approvals
    BY <1>1, <2>1 DEF StagesInOrder, Decided, Approved
  <2>2. ASSUME NEW u \in Users, NEW q \in Packages, NEW h \in Functions,
               NEW verdict \in Verdicts, Deciding(u, q, h, verdict)
        PROVE  \A g \in Stage1 : Approved(p, g)'
    <3> DEFINE d == Decision(u, q, h, verdict)
    <3>1. d.pkg = q /\ d.fn = h /\ approvals' = approvals \cup {d}
      BY <2>2 DEF Deciding, Decision
    <3> HIDE DEF d
    <3>2. CASE Decided(p, f)
      BY <3>1, <3>2 DEF StagesInOrder, Approved
    <3>3. CASE q = p /\ h = f
      <4>1. f \notin Stage1
        BY DEF Stage1, Stage2
      <4>2. \A g \in Stage1 : Approved(p, g)
        BY <2>2, <3>3, <4>1, DecisionContext DEF Deciding
      <4> QED BY <3>1, <4>2 DEF Approved
    <3> QED
      BY <1>1, <3>1, <3>2, <3>3 DEF Decided
  <2> QED
    BY <2>1, <2>2, StepDecisions
<1>2. ASSUME NEW p \in Packages, exc'[p].drafted
      PROVE  FullyApproved(p)' /\ RequiresCeo(p)'
  <2>1. FullyApproved(p) => status[p] # "none"
    BY DEF ReviewInv, DecidedExists, FullyApproved, Approved, Functions, Stage1
  <2>2. CASE exc[p].drafted
    BY <2>1, <2>2, StepKeepsClearance, StepKeepsFloor DEF StagesInOrder
  <2>3. ASSUME ~exc[p].drafted, NEW u \in Approvers, NEW q \in Packages, NEW f \in Functions,
               DecideApprove(u, q, f)
        PROVE  FullyApproved(p)' /\ RequiresCeo(p)'
    <3> DEFINE complete == \A g \in ActiveFunctions(status[q]) : g = f \/ Decided(q, g)
               to == IF complete THEN NextStage(q) ELSE status[q]
    <3>1. /\ status' = [status EXCEPT ![q] = to]
          /\ exc' = [exc EXCEPT ![q].drafted = @ \/ to = "pending_ceo_exception"]
          /\ MayDecide(u, q, f)
      BY <2>3 DEF DecideApprove
    <3> HIDE DEF complete
    <3>2. q = p /\ to = "pending_ceo_exception"
      BY <1>2, <2>3, <3>1 DEF TypeOK, ExceptionTypes, Exceptions
    <3>3. status[p] \in {"pending_delivery_hr", "pending_finance_legal"}
      BY <3>1, <3>2, DecisionContext
    <3>4. RequiresCeo(p)
      BY <3>2, <3>3 DEF NextStage
    <3>5. status'[p] = "pending_ceo_exception"
      BY <3>1, <3>2 DEF TypeOK, StatusTypes
    <3>6. FullyApproved(p)'
      BY <3>5 DEF ReviewInv, StatusBacked
    <3> QED
      BY <3>3, <3>4, <3>6, StepKeepsFloor
  <2>4. ASSUME NEW q \in Packages, SetRationale(q) PROVE exc'[p].drafted = exc[p].drafted
    BY <2>4 DEF SetRationale, TypeOK, ExceptionTypes, Exceptions
  <2>5. ASSUME NEW s \in Sessions, CeoCommit(s) PROVE exc'[p].drafted = exc[p].drafted
    BY <2>5 DEF CeoCommit, TypeOK, ExceptionTypes, Exceptions
  <2> QED
    BY <1>2, <2>2, <2>3, <2>4, <2>5, StepExceptions
<1> QED
  BY <1>1, <1>2 DEF StagesInOrder

\* What the executive read of rationale and submitter still holds at commit.
LEMMA StepKeepsExecutiveRequests ==
  ASSUME TypeOK, ReviewInv, VoidsExist, PinnedModel, StagesInOrder, ExecutiveRequests,
         [Next]_vars
  PROVE  ExecutiveRequests'
<1> SUFFICES ASSUME NEW s \in Sessions, txn'[s].op = "ceo", NEW p \in Packages, p = txn'[s].pkg
             PROVE  /\ txn'[s].who \in Deciders \ {submitter'[p]}
                    /\ txn'[s].arg # "reject" => exc'[p].rationale
                    /\ RequiresCeo(p)'
  <2>1. \A s \in Sessions : txn'[s].op = "ceo" => txn'[s].pkg \in Packages
    BY StepTypes DEF TypeOK, RequestTypes
  <2> QED
    BY <2>1 DEF ExecutiveRequests, RequiresCeo
<1>1. /\ status[p] # "none"
      /\ txn'[s].who \in Deciders \ {submitter[p]}
      /\ txn'[s].arg # "reject" => exc[p].rationale
      /\ RequiresCeo(p)
  <2>1. CASE txn'[s] = txn[s]
    <3>1. FullyApproved(p)
      BY <2>1 DEF ReviewInv, RequestsBacked
    <3>2. status[p] # "none"
      BY <3>1 DEF ReviewInv, DecidedExists, FullyApproved, Approved, Functions, Stage1
    <3> QED
      BY <2>1, <3>2 DEF ExecutiveRequests
  <2>2. ASSUME NEW q \in Packages, NEW u \in Deciders, NEW arg \in CeoArgs, CeoRead(s, q, u, arg)
        PROVE  /\ status[p] # "none"
               /\ txn'[s].who \in Deciders \ {submitter[p]}
               /\ txn'[s].arg # "reject" => exc[p].rationale
               /\ RequiresCeo(p)
    <3>1. txn'[s].pkg = q /\ txn'[s].who = u /\ txn'[s].arg = arg
      BY <2>2 DEF CeoRead, Request, TypeOK, RequestTypes
    <3>2. /\ status[q] # "none" /\ submitter[q] # u /\ exc[q].drafted
          /\ arg # "reject" => exc[q].rationale
      BY <2>2 DEF CeoRead, MayExcept
    <3> QED
      BY <3>1, <3>2 DEF StagesInOrder
  <2> QED
    BY <2>1, <2>2, StepRequests
<1>2. exc[p].rationale => exc'[p].rationale
  <2>1. ASSUME NEW u, NEW q \in Packages, NEW f, DecideApprove(u, q, f)
        PROVE  exc[p].rationale => exc'[p].rationale
    BY <2>1 DEF DecideApprove, TypeOK, ExceptionTypes, Exceptions
  <2>2. ASSUME NEW q \in Packages, SetRationale(q) PROVE exc[p].rationale => exc'[p].rationale
    BY <2>2 DEF SetRationale, TypeOK, ExceptionTypes, Exceptions
  <2>3. ASSUME NEW t \in Sessions, CeoCommit(t) PROVE exc[p].rationale => exc'[p].rationale
    BY <2>3 DEF CeoCommit, TypeOK, ExceptionTypes, Exceptions
  <2> QED
    BY <2>1, <2>2, <2>3, StepExceptions
<1> QED
  BY <1>1, <1>2, StepKeepsPins, StepKeepsFloor

\* Only an executive approval makes a package below a floor ready to sign.
LEMMA StepKeepsCeoGate ==
  ASSUME TypeOK, ReviewInv, VoidsExist, PinnedModel, ExecutiveRequests, CeoGate, [Next]_vars
  PROVE  CeoGate'
<1> SUFFICES ASSUME NEW p \in Packages, status'[p] = "ready_to_sign", RequiresCeo(p)'
             PROVE  /\ exc'[p].decision = "approve"
                    /\ exc'[p].rationale
                    /\ exc'[p].by \in Deciders \ {submitter'[p]}
  BY DEF CeoGate
<1> DEFINE Gated == /\ exc'[p].decision = "approve"
                    /\ exc'[p].rationale
                    /\ exc'[p].by \in Deciders \ {submitter'[p]}
<1>1. status[p] # "none" /\ submitter'[p] = submitter[p] /\ RequiresCeo(p)
  <2>1. ASSUME NEW u, Submit(u, p) PROVE FALSE
    BY <2>1 DEF Submit, Pin, TypeOK, StatusTypes
  <2>2. status[p] # "none"
    BY <2>1, StepLife
  <2> QED
    BY <2>2, StepKeepsPins, StepKeepsFloor
<1>2. CASE exc'[p] = exc[p] /\ status[p] = "ready_to_sign"
  BY <1>1, <1>2 DEF CeoGate
<1>3. ASSUME NEW u, NEW q \in Packages, NEW f \in Functions, DecideApprove(u, q, f) PROVE Gated
  <2> DEFINE complete == \A g \in ActiveFunctions(status[q]) : g = f \/ Decided(q, g)
             to == IF complete THEN NextStage(q) ELSE status[q]
  <2>1. /\ status' = [status EXCEPT ![q] = to]
        /\ exc' = [exc EXCEPT ![q].drafted = @ \/ to = "pending_ceo_exception"]
        /\ MayDecide(u, q, f)
    BY <1>3 DEF DecideApprove
  <2> HIDE DEF complete
  <2>2. status[q] \in {"pending_delivery_hr", "pending_finance_legal"}
    BY <2>1, DecisionContext
  <2>3. CASE q = p
    <3>1. to = "ready_to_sign"
      BY <2>1, <2>3 DEF TypeOK, StatusTypes
    <3> QED
      BY <1>1, <2>2, <2>3, <3>1 DEF NextStage
  <2>4. CASE q # p
    BY <1>2, <2>1, <2>4 DEF TypeOK, StatusTypes, ExceptionTypes
  <2> QED
    BY <2>3, <2>4
<1>4. ASSUME NEW q \in Packages, SetRationale(q) PROVE Gated
  <2>1. status[p] = "ready_to_sign"
    BY <1>4 DEF SetRationale
  <2>2. /\ exc'[p].decision = exc[p].decision /\ exc'[p].by = exc[p].by
        /\ exc[p].rationale => exc'[p].rationale
    BY <1>4 DEF SetRationale, TypeOK, ExceptionTypes, Exceptions
  <2> QED
    BY <1>1, <2>1, <2>2 DEF CeoGate
<1>5. ASSUME NEW s \in Sessions, CeoCommit(s) PROVE Gated
  <2>1. CASE txn[s].pkg = p
    <3>1. txn[s].arg # "reject"
      BY <1>5, <2>1 DEF CeoCommit, TypeOK, StatusTypes
    <3>2. /\ exc'[p].decision = "approve" /\ exc'[p].by = txn[s].who
          /\ exc'[p].rationale = exc[p].rationale
      BY <1>5, <2>1, <3>1 DEF CeoCommit, TypeOK, ExceptionTypes, Exceptions
    <3> QED
      BY <1>1, <1>5, <2>1, <3>1, <3>2 DEF ExecutiveRequests, CeoCommit
  <2>2. CASE txn[s].pkg # p
    BY <1>2, <1>5, <2>2 DEF CeoCommit, TypeOK, StatusTypes, ExceptionTypes
  <2> QED
    BY <2>1, <2>2
<1> QED
  BY <1>2, <1>3, <1>4, <1>5, StepExceptions

\* Stage order, the gate and what the requests in flight rest on hold together:
\* the invariant the two theorems below follow from (approvals, ceo_exception).
THEOREM ExecutiveCorrect == Spec => []ExecutiveInv
<1>1. Init => ExecutiveInv
  BY DEF Init, ExecutiveInv, VoidsExist, PinnedModel, StagesInOrder, ExecutiveRequests, CeoGate,
     Decided, Idle, Request, NoException
<1>2. TypeOK /\ ReviewInv /\ ReviewInv' /\ ExecutiveInv /\ [Next]_vars => ExecutiveInv'
  BY StepKeepsVoids, StepKeepsPinnedModel, StepKeepsStages, StepKeepsExecutiveRequests,
     StepKeepsCeoGate DEF ExecutiveInv
<1> QED
  BY <1>1, <1>2, TypeCorrect, ReviewCorrect, PTL DEF Spec

\* Finance and Legal never decide before Delivery, HR and Sales approved, and an
\* exception is only drafted for a fully approved package below a floor.
THEOREM StagesRunInOrder == Spec => []StagesInOrder
  BY ExecutiveCorrect, PTL DEF ExecutiveInv

\* However executive decisions race, a package below a floor is ready to sign
\* only on an executive approval with a rationale, never its submitter's own.
THEOREM ExecutiveGates == Spec => []CeoGate
  BY ExecutiveCorrect, PTL DEF ExecutiveInv

==================================================================================
