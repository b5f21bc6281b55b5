--------------------------- MODULE DealGateContracts ---------------------------
(***************************************************************************)
(* What a contract rests on, for every value of the constants: the         *)
(* versions and models a package pins, the tasks its reviewers see, the    *)
(* record of its release, and that all of it implements SignatureGate.     *)
(***************************************************************************)
EXTENDS DealGateProofs

(***************************************************************************)
(* Facts of every step.                                                    *)
(***************************************************************************)
\* Only the sources' own steps write versions, confirmations and models.
LEMMA OthersKeepSources ==
  ASSUME TypeOK,
         \/ ReviewStep \/ ExecutiveStep \/ SignatureStep
         \/ (\E s \in Sessions : Abort(s)) \/ UNCHANGED vars
  PROVE  UNCHANGED <<versionCounter, versions, confirmed, discarded, gms>>
<1>1. CASE UNCHANGED sourceVars
  BY <1>1 DEF sourceVars, sowVars
<1>2. ASSUME NEW s \in Sessions, RoutingStep(s) PROVE UNCHANGED sourceVars
  BY <1>2, RoutingKeeps
<1>6. CASE ReviewStep
  BY <1>1, <1>2, <1>6 DEF ReviewStep, Submit, DecideApprove, DecideReject, ManualVoidRead,
     QuarantineRead, VoidCommit, SaveGroup, FinishOnBoard
<1>3. CASE ExecutiveStep
  BY <1>1, <1>3 DEF ExecutiveStep, SetRationale, CeoRead, CeoCommit, Lapse, RecordEvidence
<1>4. CASE SignatureStep
  BY <1>1, <1>4 DEF SignatureStep, UploadFile, UploadRead, UploadCommit, CallbackRead,
     CallbackCommit, Accept, ReleaseRead, ReleaseCommit, MarkChurn
<1>5. CASE (\E s \in Sessions : Abort(s)) \/ UNCHANGED vars
  BY <1>1, <1>5 DEF Abort, vars
<1> QED
  BY <1>3, <1>4, <1>5, <1>6

\* Only the signature's own steps write uploads, acceptances, mail and releases.
LEMMA OthersKeepSignatures ==
  ASSUME TypeOK,
         \/ SourceStep \/ ReviewStep \/ ExecutiveStep
         \/ (\E s \in Sessions : Abort(s)) \/ UNCHANGED vars
  PROVE  UNCHANGED signVars
<1>1. CASE SourceStep
  BY <1>1 DEF SourceStep, CreateSowVersion, Confirm, CreateGm, SaveCommercial,
     ReviseRead, ReviseCommit, DeleteVersion, DiscardVersion
<1>2. CASE ReviewStep
  <2>1. ASSUME NEW s \in Sessions, RoutingStep(s) PROVE UNCHANGED signVars
    BY <2>1, RoutingKeeps
  <2> QED
    BY <1>2, <2>1 DEF ReviewStep, Submit, DecideApprove, DecideReject, ManualVoidRead,
       QuarantineRead, VoidCommit, SaveGroup, FinishOnBoard
<1>3. CASE ExecutiveStep
  BY <1>3 DEF ExecutiveStep, SetRationale, CeoRead, CeoCommit, Lapse, RecordEvidence
<1>4. CASE (\E s \in Sessions : Abort(s)) \/ UNCHANGED vars
  BY <1>4 DEF Abort, vars
<1> QED
  BY <1>1, <1>2, <1>3, <1>4

\* No upload is ever taken away, moved to another package or stripped of its
\* release.
LEMMA StepKeepsUploads ==
  ASSUME TypeOK, [Next]_vars, NEW i \in DOMAIN uploads
  PROVE  /\ i \in DOMAIN uploads'
         /\ uploads'[i].pkg = uploads[i].pkg
         /\ uploads[i].released => uploads'[i].released
<1> DEFINE Kept == /\ i \in DOMAIN uploads'
                   /\ uploads'[i].pkg = uploads[i].pkg
                   /\ uploads[i].released => uploads'[i].released
<1>1. CASE uploads' = uploads
  BY <1>1
<1>2. ASSUME NEW p, uploads' = NewUpload(p) PROVE Kept
  BY <1>2 DEF NewUpload, TypeOK, UploadTypes
<1>3. uploads[i] \in Uploads
  BY UploadRow DEF TypeOK
<1>4. ASSUME NEW s, CallbackCommit(s) PROVE Kept
  <2>1. uploads' = [uploads EXCEPT ![txn[s].row] = [uploads[txn[s].row] EXCEPT
          !.status = IF txn[s].arg = "same" THEN uploads[txn[s].row].status ELSE txn[s].arg]]
    BY <1>4 DEF CallbackCommit
  <2> QED BY <1>3, <2>1 DEF Uploads, TypeOK, UploadTypes
<1>5. ASSUME NEW s, ReleaseCommit(s) PROVE Kept
  <2>1. uploads' = [uploads EXCEPT ![txn[s].row] = [uploads[txn[s].row] EXCEPT !.released = TRUE]]
    BY <1>5 DEF ReleaseCommit
  <2> QED BY <1>3, <2>1 DEF Uploads, TypeOK, UploadTypes
<1>6. CASE SignatureStep
  BY <1>1, <1>2, <1>4, <1>5, <1>6 DEF SignatureStep, UploadFile, UploadRead, UploadCommit,
     CallbackRead, Accept, ReleaseRead, MarkChurn, signVars
<1> QED
  BY <1>1, <1>6, OthersKeepSignatures DEF Next, signVars

(***************************************************************************)
(* A change of the sources and what it may touch.                          *)
(***************************************************************************)
\* Every step that adds a version or a model voids no signed package.
LEMMA StepSparesSigned ==
  ASSUME [Next]_vars, versionCounter' # versionCounter \/ Len(gms') # Len(gms),
         NEW p \in Packages, status[p] = "released" \/ HasVerified(p), TypeOK
  PROVE  status'[p] = status[p]
<1>1. ASSUME NEW targets, Void(targets), targets \subseteq VoidTargets
      PROVE  status'[p] = status[p]
  BY <1>1 DEF Void, VoidTargets
<1>2. SourceStep
  BY OthersKeepSources DEF Next
<1>3. ASSUME NEW v, NEW fl, \/ CreateSowVersion \/ CreateGm(v, fl) \/ SaveCommercial(v, fl)
                            \/ Confirm(v)
      PROVE  status'[p] = status[p]
  BY <1>1, <1>3 DEF CreateSowVersion, CreateGm, SaveCommercial, CommercialTargets, Confirm
<1>4. ASSUME NEW v, NEW s, \/ DeleteVersion(v) \/ DiscardVersion(v)
                           \/ ReviseRead(s) \/ ReviseCommit(s)
      PROVE  status'[p] = status[p]
  BY <1>4 DEF DeleteVersion, DiscardVersion, ReviseRead, ReviseCommit
<1> QED
  BY <1>2, <1>3, <1>4 DEF SourceStep

\* A new version or model leaves a package that is released, or whose signed
\* upload has verified, as it is (approvals.void_on_change, S21-16).
THEOREM ChangeSparesSigned == Spec => SignedSurvivesChange
<1>1. TypeOK /\ [Next]_vars =>
        [versionCounter' # versionCounter \/ Len(gms') # Len(gms) =>
           \A p \in Packages : status[p] = "released" \/ HasVerified(p) =>
             status'[p] = status[p]]_vars
  BY StepSparesSigned
<1> QED
  BY <1>1, TypeCorrect, PTL DEF Spec, SignedSurvivesChange

\* A version that was ever submitted stays, and stays confirmed.
LEMMA StepKeepsVersions ==
  ASSUME TypeOK, [Next]_vars, NEW v \in versions \cap confirmed, ~NeverSubmitted(v)
  PROVE  v \in versions' \cap confirmed'
<1>1. CASE versions \subseteq versions' /\ confirmed \subseteq confirmed'
  BY <1>1
<1>2. ASSUME NEW w, DeleteVersion(w) PROVE v \in versions' \cap confirmed'
  BY <1>2 DEF DeleteVersion
<1>3. CASE SourceStep
  BY <1>1, <1>2, <1>3 DEF SourceStep, CreateSowVersion, Confirm, CreateGm, SaveCommercial,
     ReviseRead, ReviseCommit, DiscardVersion, sowVars, sourceVars
<1> QED
  BY <1>1, <1>3, OthersKeepSources DEF Next

\* What a submission pins is current, confirmed and stays so.
LEMMA StepKeepsPinnedVersion ==
  ASSUME TypeOK, ReviewInv, VoidsExist, PinnedVersionKept, [Next]_vars
  PROVE  PinnedVersionKept'
<1> SUFFICES ASSUME NEW p \in Packages, status'[p] # "none"
             PROVE  pkgSow'[p] \in versions' \cap confirmed'
  BY DEF PinnedVersionKept
<1>1. CASE status[p] # "none"
  <2>1. pkgSow[p] \in versions \cap confirmed /\ ~NeverSubmitted(pkgSow[p])
    BY <1>1 DEF PinnedVersionKept, NeverSubmitted
  <2> QED
    BY <1>1, <2>1, StepKeepsVersions, StepKeepsPins
<1>2. ASSUME NEW u, Submit(u, p) PROVE pkgSow'[p] \in versions' \cap confirmed'
  <2>1. PICK v, people : Submittable(v) /\ Pin(u, p, v, people)
    BY <1>2 DEF Submit
  <2>2. pkgSow'[p] = v /\ versions' = versions /\ confirmed' = confirmed
    BY <1>2, <2>1 DEF Pin, Submit, sourceVars, sowVars, TypeOK, PinTypes
  <2> QED
    BY <2>1, <2>2 DEF Submittable, IsCurrent, Operative
<1> QED
  BY <1>1, <1>2, StepLife

\* However versions are revised, deleted and discarded, every submitted package
\* pins a version that exists and is confirmed (sow_lifecycle.delete_version).
THEOREM PinsStand == Spec => []PinnedVersionKept
<1>1. Init => PinnedVersionKept
  BY DEF Init, PinnedVersionKept
<1>2. TypeOK /\ ReviewInv /\ ExecutiveInv /\ PinnedVersionKept /\ [Next]_vars
        => PinnedVersionKept'
  BY StepKeepsPinnedVersion DEF ExecutiveInv
<1> QED
  BY <1>1, <1>2, TypeCorrect, ReviewCorrect, ExecutiveCorrect, PTL DEF Spec

(***************************************************************************)
(* The steps that move a package or its tasks.                             *)
(***************************************************************************)
\* Statuses, tasks, assignments and decisions change in a handful of ways only,
\* and a void meets one submitted package at most.
LEMMA StepReviews ==
  ASSUME TypeOK, VoidsExist, [Next]_vars
  PROVE  \/ UNCHANGED <<status, task, assign, approvals>>
         \/ /\ UNCHANGED <<assign, approvals>>
            /\ \E targets \in SUBSET Packages :
                 /\ Void(targets)
                 /\ \A p \in targets : status[p] # "none"
                 /\ \A p, q \in targets : p = q
         \/ \E u \in Owners, p \in Packages : Submit(u, p)
         \/ \E u \in Users, p \in Packages, f \in Functions :
              DecideApprove(u, p, f) \/ DecideReject(u, p, f)
         \/ \E p \in Packages, f \in Routed : FinishOnBoard(p, f)
         \/ \E s \in Sessions :
              RouteCommit(s) \/ RepairCommit(s) \/ CeoCommit(s) \/ ReleaseCommit(s)
<1> DEFINE Still == UNCHANGED <<status, task, assign, approvals>>
           Voiding == /\ UNCHANGED <<assign, approvals>>
                      /\ \E targets \in SUBSET Packages :
                           /\ Void(targets)
                           /\ \A p \in targets : status[p] # "none"
                           /\ \A p, q \in targets : p = q
<1>1. CASE SourceStep
  <2>1. ASSUME NEW targets, targets \subseteq VoidTargets, Void(targets), UNCHANGED reviewVars
        PROVE  Voiding
    <3>1. \A p, q \in VoidTargets : p = q
      BY Bounds DEF VoidTargets, IsActive, Packages
    <3>2. \A p \in VoidTargets : status[p] # "none"
      BY DEF VoidTargets, IsActive, Live
    <3> QED BY <2>1, <3>1, <3>2 DEF VoidTargets, reviewVars
  <2>2. ASSUME NEW v, NEW fl, CreateSowVersion \/ CreateGm(v, fl) \/ SaveCommercial(v, fl)
        PROVE  Voiding
    BY <2>1, <2>2 DEF CreateSowVersion, CreateGm, SaveCommercial, CommercialTargets
  <2>3. ASSUME NEW v, NEW s, \/ DeleteVersion(v) \/ DiscardVersion(v)
                             \/ ReviseRead(s) \/ ReviseCommit(s)
        PROVE  Still
    BY <2>3 DEF DeleteVersion, DiscardVersion, ReviseRead, ReviseCommit, reviewVars
  <2>4. ASSUME NEW v, Confirm(v) PROVE Still \/ Voiding
    <3>1. CASE UNCHANGED <<gms, status, task>>
      BY <2>4, <3>1 DEF Confirm, reviewVars
    <3>2. CASE Void(VoidTargets)
      BY <2>1, <2>4, <3>2 DEF Confirm
    <3> QED BY <2>4, <3>1, <3>2 DEF Confirm
  <2> QED
    BY <1>1, <2>2, <2>3, <2>4 DEF SourceStep
<1>2. CASE ReviewStep
  <2>1. ASSUME NEW s, NEW p, NEW f, ManualVoidRead(s, p) \/ QuarantineRead(s, p, f) PROVE Still
    BY <2>1 DEF ManualVoidRead, QuarantineRead, reviewVars
  <2>2. ASSUME NEW f, NEW members, SaveGroup(f, members) PROVE Still
    BY <2>2 DEF SaveGroup
  <2>3. ASSUME NEW s \in Sessions, VoidCommit(s) PROVE Voiding
    <3>1. status[txn[s].pkg] # "none" /\ {txn[s].pkg} \in SUBSET Packages
      BY <2>3 DEF VoidCommit, VoidsExist, TypeOK, RequestTypes
    <3> QED BY <2>3, <3>1 DEF VoidCommit, reviewVars
  <2>4. ASSUME NEW s, RoutingStep(s) PROVE Still \/ RouteCommit(s) \/ RepairCommit(s)
    BY <2>4 DEF RoutingStep, RouteStart, RouteLoad, RoutePlan, RepairRead, reviewVars
  <2>5. Approvers \subseteq Users /\ Refusers \subseteq Users
    BY UsersAssumption
  <2> QED
    BY <1>2, <2>1, <2>2, <2>3, <2>4, <2>5 DEF ReviewStep
<1>3. CASE ExecutiveStep
  BY <1>3 DEF ExecutiveStep, SetRationale, CeoRead, Lapse, RecordEvidence, reviewVars
<1>4. CASE SignatureStep
  BY <1>4 DEF SignatureStep, UploadFile, UploadRead, UploadCommit, CallbackRead,
     CallbackCommit, Accept, ReleaseRead, MarkChurn, reviewVars
<1>5. CASE (\E s \in Sessions : Abort(s)) \/ UNCHANGED vars
  BY <1>5 DEF Abort, vars, reviewVars
<1> QED
  BY <1>1, <1>2, <1>3, <1>4, <1>5 DEF Next

\* A package is in review, or ready to sign without the executive, only if it
\* was submitted just now or was so before.
LEMMA StepReopensNothing ==
  ASSUME TypeOK, ReviewInv, ExecutiveInv, [Next]_vars, NEW p \in Packages, status[p] # "none",
         status'[p] \in Pending \/ (status'[p] = "ready_to_sign" /\ ~RequiresCeo(p))
  PROVE  status[p] \in Pending \/ (status[p] = "ready_to_sign" /\ ~RequiresCeo(p))
<1> DEFINE Before == status[p] \in Pending \/ (status[p] = "ready_to_sign" /\ ~RequiresCeo(p))
<1>1. CASE status'[p] = status[p]
  BY <1>1
<1>2. ASSUME NEW targets, Void(targets) PROVE Before
  BY <1>1, <1>2 DEF Void, Pending
<1>3. ASSUME NEW u, NEW q \in Packages, Submit(u, q) PROVE Before
  <2>1. q # p /\ status' = [status EXCEPT ![q] = "pending_delivery_hr"]
    BY <1>3 DEF Submit, FreshRow, Pin
  <2> QED BY <1>1, <2>1
<1>4. ASSUME NEW u, NEW q \in Packages, NEW f \in Functions,
             DecideApprove(u, q, f) \/ DecideReject(u, q, f)
      PROVE  Before
  <2>1. status[q] \in Pending
    BY <1>4, DecisionContext DEF DecideApprove, DecideReject, Pending
  <2>2. PICK to : status' = [status EXCEPT ![q] = to]
    BY <1>4 DEF DecideApprove, DecideReject
  <2> QED BY <1>1, <2>1, <2>2
<1>5. ASSUME NEW s \in Sessions, CeoCommit(s) PROVE Before
  <2>1. RequiresCeo(txn[s].pkg)
    BY <1>5 DEF CeoCommit, ExecutiveInv, ExecutiveRequests
  <2>2. status'[p] \notin Pending \/ txn[s].pkg # p
    BY <1>5 DEF CeoCommit, Pending, TypeOK, StatusTypes
  <2> QED BY <1>1, <1>5, <2>1, <2>2 DEF CeoCommit
<1>6. ASSUME NEW s \in Sessions, ReleaseCommit(s) PROVE Before
  <2>1. status' = [status EXCEPT ![txn[s].pkg] = "released"]
    BY <1>6 DEF ReleaseCommit
  <2> QED BY <1>1, <2>1 DEF TypeOK, StatusTypes, Pending
<1>7. ASSUME NEW s, NEW q, NEW f, RouteCommit(s) \/ RepairCommit(s) \/ FinishOnBoard(q, f)
      PROVE  Before
  BY <1>1, <1>7 DEF RouteCommit, RepairCommit, FinishOnBoard
<1> QED
  BY <1>1, <1>2, <1>3, <1>4, <1>5, <1>6, <1>7, StepReviews DEF ExecutiveInv

(***************************************************************************)
(* Prices.                                                                 *)
(***************************************************************************)
\* How the models grow: never, or by a model that voids what void_on_change or
\* the commercial model names.
LEMMA StepModels ==
  ASSUME TypeOK, [Next]_vars
  PROVE  \/ gms' = gms
         \/ Void(VoidTargets)
         \/ \E v \in VersionIds, fl \in Outcomes :
              gms' = Append(gms, [sow |-> v, floor |-> fl]) /\ Void(CommercialTargets(v))
<1>1. CASE SourceStep
  <2>1. ASSUME NEW v, Confirm(v) PROVE gms' = gms \/ Void(VoidTargets)
    BY <2>1 DEF Confirm
  <2>2. ASSUME NEW v, NEW fl, CreateGm(v, fl) PROVE Void(VoidTargets)
    BY <2>2 DEF CreateGm
  <2>3. ASSUME NEW v, NEW fl, SaveCommercial(v, fl)
        PROVE  gms' = Append(gms, [sow |-> v, floor |-> fl]) /\ Void(CommercialTargets(v))
    BY <2>3 DEF SaveCommercial
  <2>4. ASSUME NEW v, NEW s, \/ CreateSowVersion \/ DeleteVersion(v) \/ DiscardVersion(v)
                             \/ ReviseRead(s) \/ ReviseCommit(s)
        PROVE  gms' = gms
    BY <2>4 DEF CreateSowVersion, DeleteVersion, DiscardVersion, ReviseRead, ReviseCommit,
       sourceVars
  <2> QED
    BY <1>1, <2>1, <2>2, <2>3, <2>4 DEF SourceStep
<1> QED
  BY <1>1, OthersKeepSources DEF Next

\* A model that prices the newest submission voids it, so none is left behind.
LEMMA StepKeepsPrices ==
  ASSUME TypeOK, ReviewInv, ExecutiveInv, CurrentReviewPricesCurrent, [Next]_vars
  PROVE  CurrentReviewPricesCurrent'
<1> SUFFICES ASSUME NEW p \in Packages,
                    status'[p] \in Pending
                      \/ (status'[p] = "ready_to_sign" /\ ~RequiresCeo(p)'),
                    \A q \in Packages : q > p => status'[q] = "none",
                    \A i \in DOMAIN uploads' : uploads'[i].pkg # p,
                    NEW g \in DOMAIN gms', g > pkgGm'[p]
             PROVE  gms'[g].sow \notin {0, pkgSow'[p]}
  BY DEF CurrentReviewPricesCurrent
<1> DEFINE Apart == gms'[g].sow \notin {0, pkgSow'[p]}
<1>1. status'[p] # "none"
  BY DEF Pending
<1>2. CASE status[p] = "none"
  <2>1. PICK u : Submit(u, p)
    BY <1>1, <1>2, StepLife DEF ExecutiveInv
  <2>2. pkgGm'[p] = Len(gms) /\ gms' = gms
    BY <2>1 DEF Submit, Pin, sourceVars, TypeOK, PinTypes
  <2> QED BY <2>2 DEF TypeOK, GmTypes
<1>3. CASE status[p] # "none"
  <2>1. pkgSow'[p] = pkgSow[p] /\ pkgGm'[p] = pkgGm[p] /\ (RequiresCeo(p)' <=> RequiresCeo(p))
    BY <1>3, StepKeepsPins, StepKeepsFloor DEF ExecutiveInv
  <2>2. status[p] \in Pending \/ (status[p] = "ready_to_sign" /\ ~RequiresCeo(p))
    BY <1>3, <2>1, StepReopensNothing
  <2>3. \A q \in Packages : q > p => status[q] = "none"
    BY StepLife DEF ExecutiveInv
  <2>4. \A i \in DOMAIN uploads : uploads[i].pkg # p
    BY StepKeepsUploads
  <2>5. p \in VoidTargets
    <3>1. Live(p) /\ status[p] # "released"
      BY <2>2 DEF Live, Pending
    <3>2. \A q \in Packages : Live(q) => q <= p
      BY <2>3, Bounds DEF Live, Packages
    <3> QED BY <2>4, <3>1, <3>2 DEF VoidTargets, IsActive, HasVerified
  <2>6. \A h \in DOMAIN gms : h > pkgGm[p] => gms[h].sow \notin {0, pkgSow[p]}
    BY <2>2, <2>3, <2>4 DEF CurrentReviewPricesCurrent
  <2>7. CASE gms' = gms
    BY <2>1, <2>6, <2>7
  <2>8. ASSUME NEW targets, p \in targets, Void(targets) PROVE FALSE
    BY <2>8 DEF Void, Pending
  <2>9. ASSUME NEW v \in VersionIds, NEW fl \in Outcomes,
               gms' = Append(gms, [sow |-> v, floor |-> fl]), Void(CommercialTargets(v))
        PROVE  Apart
    <3>1. v # pkgSow[p] /\ v # 0
      BY <2>5, <2>8, <2>9 DEF CommercialTargets, VersionIds
    <3>2. CASE g \in DOMAIN gms
      BY <2>1, <2>6, <2>9, <3>2 DEF TypeOK, GmTypes
    <3>3. CASE g \notin DOMAIN gms
      BY <2>1, <2>9, <3>1, <3>3 DEF TypeOK, GmTypes
    <3> QED BY <3>2, <3>3
  <2> QED
    BY <2>5, <2>7, <2>8, <2>9, StepModels
<1> QED
  BY <1>2, <1>3

\* Whatever versions, models, submissions and decisions race, the newest
\* submission is not reviewed, or ready to sign without the executive, at a price
\* a newer model has replaced (approvals.void_on_change).
THEOREM ReviewsPriceCurrent == Spec => []CurrentReviewPricesCurrent
<1>1. Init => CurrentReviewPricesCurrent
  BY DEF Init, CurrentReviewPricesCurrent
<1>2. TypeOK /\ ReviewInv /\ ExecutiveInv /\ CurrentReviewPricesCurrent /\ [Next]_vars
        => CurrentReviewPricesCurrent'
  BY StepKeepsPrices
<1> QED
  BY <1>1, <1>2, TypeCorrect, ReviewCorrect, ExecutiveCorrect, PTL DEF Spec

(***************************************************************************)
(* The tasks reviewers see.  That no step but an overtaken rerouting takes *)
(* an awaited review's task rests on whom a submission routed every        *)
(* function to, on tasks of later stages not being closed early, and on    *)
(* what a rerouting in flight may let go.                                  *)
(***************************************************************************)
\* Every function a submission needs is routed to someone.
AllRouted ==
  \A p \in Packages : status[p] # "none" =>
    /\ \A f \in Functions : assign[p][f] # NoOne
    /\ RequiresCeo(p) => assign[p]["executive"] # NoOne

\* Until a review ends, only decisions close tasks.
OnlyDecidedClosed ==
  \A p \in Packages : status[p] \in Pending \cup {"none"} =>
    \A f \in Routed : task[p][f] = "closed" => Decided(p, f)

\* A rerouting lets go no task of the stage it read.
PlansSpareTheirStage ==
  \A s \in Sessions : txn[s].op = "reroute" =>
    txn[s].plan.dropped \cap ActiveFunctions(txn[s].plan.stage) = {}

TaskInv == AllRouted /\ OnlyDecidedClosed /\ PlansSpareTheirStage

\* Only planning a rerouting puts one in flight.
LEMMA StepKeepsPlans ==
  ASSUME TypeOK, PlansSpareTheirStage, [Next]_vars PROVE PlansSpareTheirStage'
<1> SUFFICES ASSUME NEW s \in Sessions, txn'[s].op = "reroute"
             PROVE  txn'[s].plan.dropped \cap ActiveFunctions(txn'[s].plan.stage) = {}
  BY DEF PlansSpareTheirStage
<1>1. CASE txn'[s] = txn[s]
  BY <1>1 DEF PlansSpareTheirStage
<1>2. CASE RoutePlan(s)
  <2>1. PICK kept, plan : /\ txn'[s].plan = plan
                          /\ plan.dropped = kept \ ActiveFunctions(plan.stage)
    <3>1. PICK new : txn' = [txn EXCEPT ![s] = Planned("reroute", txn[s].pkg,
            [stage |-> txn[s].plan.stage, seen |-> {},
             to |-> [f \in Routed |-> IF f \in {g \in DOMAIN new : new[g] # NoOne} THEN new[f] ELSE NoOne],
             filed |-> ActiveFunctions(txn[s].plan.stage) \cap
                         ({g \in DOMAIN new : new[g] # NoOne}
                            \cup {f \in Rows(txn[s].pkg) : task[txn[s].pkg][f] = "none"}),
             dropped |-> ({g \in DOMAIN new : new[g] # NoOne}
                            \ {f \in Rows(txn[s].pkg) : task[txn[s].pkg][f] = "none"})
                           \ ActiveFunctions(txn[s].plan.stage)])]
      BY <1>2 DEF RoutePlan
    <3> QED BY <3>1 DEF Planned, TypeOK, RequestTypes
  <2> QED BY <2>1
<1>3. ASSUME NEW p, NEW u, NEW arg, CeoRead(s, p, u, arg) PROVE txn'[s].op = "ceo"
  BY <1>3 DEF CeoRead, Request, TypeOK, RequestTypes
<1> QED
  BY <1>1, <1>2, <1>3, StepRequests

\* What is active is routed, and no stage is active once a review has ended.
LEMMA ActiveRouted ==
  ASSUME NEW st PROVE /\ ActiveFunctions(st) \subseteq Routed
                      /\ st \notin Pending => ActiveFunctions(st) = {}
                      /\ st # "pending_ceo_exception" => ActiveFunctions(st) \subseteq Functions
  BY DEF ActiveFunctions, Routed, Functions, Pending

\* Filing a stage's tasks gives each of its routed functions one and closes none.
LEMMA WithTasksFiles ==
  ASSUME NEW t \in Tasks, NEW people, NEW st, NEW f \in Routed
  PROVE  /\ f \in ActiveFunctions(st) /\ people[f] # NoOne => WithTasks(t, people, st)[f] # "none"
         /\ WithTasks(t, people, st)[f] = "closed" => t[f] = "closed"
         /\ WithTasks(t, people, st)[f] = "none" => t[f] = "none"
  BY DEF WithTasks

\* A function's task is closed only when it decides.
LEMMA FinishedCloses ==
  ASSUME NEW t \in Tasks, NEW f \in Functions, NEW g \in Routed
  PROVE  /\ Finished(t, f)[g] = "none" <=> t[g] = "none"
         /\ g # f => Finished(t, f)[g] = t[g]
  BY DEF Finished, Tasks, OpenTask, Routed

\* A submission routes all five functions and, below a floor, the executive.
LEMMA SubmitRoutes ==
  ASSUME TypeOK, NEW u \in Owners, NEW p \in Packages, Submit(u, p)
  PROVE  /\ status[p] = "none" /\ status' = [status EXCEPT ![p] = "pending_delivery_hr"]
         /\ approvals' = approvals
         /\ \E people \in [Routed -> Users \cup {NoOne}] :
              /\ assign' = [assign EXCEPT ![p] = people]
              /\ task' = [task EXCEPT ![p] = WithTasks(task[p], people, "pending_delivery_hr")]
              /\ \A f \in Functions : people[f] # NoOne
              /\ RequiresCeo(p)' => people["executive"] # NoOne
<1>0. PICK v \in VersionIds :
        /\ Submittable(v)
        /\ \E team \in Teams, boss \in Executives(u) :
             Separate(u, team) /\ Pin(u, p, v, Reviewers(team, boss))
  BY DEF Submit
<1>1. PICK team \in Teams, boss \in Executives(u) : Pin(u, p, v, Reviewers(team, boss))
  BY <1>0
<1> DEFINE people == Reviewers(team, boss)
<1>2. people \in [Routed -> Users \cup {NoOne}]
  BY ReviewersType DEF TypeOK
<1>3. team \in [Functions -> Users]
  BY DEF TypeOK, RosterTypes, Teams, Functions, Stage1, Stage2
<1>4. \A f \in Functions : people[f] # NoOne
  BY <1>3, UsersAssumption DEF Reviewers, Routed, Functions, Stage1, Stage2
<1>5. RequiresCeo(p)' => people["executive"] # NoOne
  <2>1. pkgGm'[p] = Len(gms) /\ gms' = gms
    BY <1>1 DEF Submit, Pin, sourceVars, TypeOK, PinTypes
  <2>2. gms[Len(gms)].floor \in {"clear", "below"}
    <3>1. gms \in Seq([sow : 0..MaxSow, floor : Floors]) /\ Len(gms) \in 1..Len(gms)
      BY <1>0 DEF Submittable, TypeOK, GmTypes
    <3>2. gms[Len(gms)] \in [sow : 0..MaxSow, floor : Floors]
      BY <3>1, ElementOfSeq
    <3> QED BY <1>0, <3>2 DEF Submittable, Floors
  <2>3. RequiresCeo(p)' => boss \in Users
    BY <2>1, <2>2, UsersAssumption DEF RequiresCeo, Executives
  <2> QED BY <2>3, UsersAssumption DEF Reviewers, Routed
<1>6. /\ assign' = [assign EXCEPT ![p] = people]
      /\ task' = [task EXCEPT ![p] = WithTasks(task[p], people, "pending_delivery_hr")]
      /\ status' = [status EXCEPT ![p] = "pending_delivery_hr"]
  BY <1>1 DEF Pin
<1> HIDE DEF people
<1> QED
  BY <1>2, <1>4, <1>5, <1>6 DEF Submit, FreshRow

\* A submission files the tasks of the first stage.
LEMMA SubmitKeepsTasks ==
  ASSUME TypeOK, ReviewInv, ExecutiveInv, TaskInv, [Next]_vars,
         NEW u \in Owners, NEW p \in Packages, Submit(u, p)
  PROVE  TaskInv'
<1>1. PICK people \in [Routed -> Users \cup {NoOne}] :
        /\ assign' = [assign EXCEPT ![p] = people]
        /\ task' = [task EXCEPT ![p] = WithTasks(task[p], people, "pending_delivery_hr")]
        /\ \A f \in Functions : people[f] # NoOne
        /\ RequiresCeo(p)' => people["executive"] # NoOne
  BY SubmitRoutes
<1>2. /\ status[p] = "none" /\ status' = [status EXCEPT ![p] = "pending_delivery_hr"]
      /\ approvals' = approvals
  BY SubmitRoutes
<1>3. task[p] \in Tasks
  BY DEF TypeOK, TaskTypes, Tasks
<1>4. /\ status'[p] = "pending_delivery_hr" /\ assign'[p] = people
      /\ task'[p] = WithTasks(task[p], people, "pending_delivery_hr")
      /\ \A q \in Packages \ {p} :
           status'[q] = status[q] /\ assign'[q] = assign[q] /\ task'[q] = task[q]
  BY <1>1, <1>2 DEF TypeOK, StatusTypes, AssignTypes, TaskTypes
<1>5. AllRouted'
  <2> SUFFICES ASSUME NEW q \in Packages, status'[q] # "none"
               PROVE  /\ \A f \in Functions : assign'[q][f] # NoOne
                      /\ RequiresCeo(q)' => assign'[q]["executive"] # NoOne
    BY DEF AllRouted
  <2>1. CASE q = p
    BY <1>1, <1>4, <2>1
  <2>2. CASE q # p
    BY <1>4, <2>2, StepKeepsFloor DEF TaskInv, AllRouted, ExecutiveInv
  <2> QED BY <2>1, <2>2
<1>6. OnlyDecidedClosed'
  BY <1>2, <1>3, <1>4, WithTasksFiles DEF TaskInv, OnlyDecidedClosed, Decided
<1> QED
  BY <1>5, <1>6, StepKeepsPlans DEF TaskInv

\* An approval closes its own task and, completing a stage, files the next one's.
LEMMA ApproveKeepsTasks ==
  ASSUME TypeOK, ReviewInv, ExecutiveInv, TaskInv, [Next]_vars,
         NEW u, NEW p \in Packages, NEW f \in Functions, DecideApprove(u, p, f)
  PROVE  TaskInv'
<1> DEFINE complete == \A g \in ActiveFunctions(status[p]) : g = f \/ Decided(p, g)
           to == IF complete THEN NextStage(p) ELSE status[p]
           d == Decision(u, p, f, "approve")
           t == Finished(task[p], f)
           filed == IF complete THEN WithTasks(t, assign[p], to) ELSE t
<1>1. /\ status' = [status EXCEPT ![p] = to]
      /\ task' = [task EXCEPT ![p] = filed]
      /\ approvals' = approvals \cup {d}
      /\ assign' = assign
      /\ MayDecide(u, p, f)
  BY DEF DecideApprove
<1>2. status[p] \in {"pending_delivery_hr", "pending_finance_legal"}
  BY <1>1, DecisionContext
<1>3. task[p] \in Tasks /\ t \in Tasks
  BY FinishedType DEF TypeOK, TaskTypes, Tasks
<1>4. /\ to \in {"pending_delivery_hr", "pending_finance_legal", "pending_ceo_exception", "ready_to_sign"}
      /\ to = "pending_ceo_exception" => RequiresCeo(p)
      /\ ~complete => to = status[p]
  BY <1>2 DEF NextStage
<1>5. \A g \in Routed : filed[g] = "closed" => g = f \/ task[p][g] = "closed"
  BY <1>3, WithTasksFiles, FinishedCloses
<1>6. d.pkg = p /\ d.fn = f
  BY DEF Decision
<1> HIDE DEF complete, to, d, t, filed
<1>7. /\ status'[p] = to /\ task'[p] = filed
      /\ \A q \in Packages \ {p} : status'[q] = status[q] /\ task'[q] = task[q]
  BY <1>1 DEF TypeOK, StatusTypes, TaskTypes
<1>8. AllRouted'
  <2>1. \A q \in Packages : status'[q] # "none" => status[q] # "none"
    BY <1>2, <1>7
  <2> QED BY <1>1, <2>1, StepKeepsFloor DEF TaskInv, AllRouted, ExecutiveInv
<1>9. OnlyDecidedClosed'
  <2> SUFFICES ASSUME NEW q \in Packages, status'[q] \in Pending \cup {"none"},
                      NEW g \in Routed, task'[q][g] = "closed"
               PROVE  Decided(q, g)'
    BY DEF OnlyDecidedClosed
  <2>1. CASE q = p /\ g = f
    BY <1>1, <1>6, <2>1 DEF Decided
  <2>2. CASE ~(q = p /\ g = f)
    <3>1. status[q] \in Pending \cup {"none"} /\ task[q][g] = "closed"
      BY <1>2, <1>5, <1>7, <2>2 DEF Pending
    <3> QED BY <1>1, <3>1 DEF TaskInv, OnlyDecidedClosed, Decided
  <2> QED BY <2>1, <2>2
<1> QED
  BY <1>8, <1>9, StepKeepsPlans DEF TaskInv

\* A refusal ends the review.
LEMMA RejectKeepsTasks ==
  ASSUME TypeOK, ReviewInv, ExecutiveInv, TaskInv, [Next]_vars,
         NEW u, NEW p \in Packages, NEW f \in Functions, DecideReject(u, p, f)
  PROVE  TaskInv'
<1> DEFINE d == Decision(u, p, f, "reject")
<1>1. /\ status' = [status EXCEPT ![p] = "rejected"]
      /\ task' = [task EXCEPT ![p] = Closed(task[p])]
      /\ approvals' = approvals \cup {d}
      /\ assign' = assign
      /\ MayDecide(u, p, f)
  BY DEF DecideReject
<1>2. status[p] # "none"
  BY <1>1, DecisionContext DEF Live
<1> HIDE DEF d
<1>3. /\ status'[p] = "rejected"
      /\ \A q \in Packages \ {p} : status'[q] = status[q] /\ task'[q] = task[q]
  BY <1>1 DEF TypeOK, StatusTypes, TaskTypes
<1>4. AllRouted'
  BY <1>1, <1>2, <1>3, StepKeepsFloor DEF TaskInv, AllRouted, ExecutiveInv
<1>5. OnlyDecidedClosed'
  BY <1>1, <1>3 DEF TaskInv, OnlyDecidedClosed, Decided, Pending
<1> QED
  BY <1>4, <1>5, StepKeepsPlans DEF TaskInv

\* A step that moves packages only out of review, and changes no task but of
\* those, keeps the tasks.
LEMMA EndingKeepsTasks ==
  ASSUME TypeOK, ReviewInv, ExecutiveInv, TaskInv, [Next]_vars,
         UNCHANGED <<assign, approvals>>,
         \A p \in Packages :
           \/ status'[p] = status[p] /\ task'[p] = task[p]
           \/ status[p] # "none" /\ status'[p] \notin Pending \cup {"none"}
  PROVE  TaskInv'
<1>1. AllRouted'
  BY StepKeepsFloor DEF TaskInv, AllRouted, ExecutiveInv
<1>2. OnlyDecidedClosed'
  BY DEF TaskInv, OnlyDecidedClosed, Decided
<1> QED
  BY <1>1, <1>2, StepKeepsPlans DEF TaskInv

\* A rerouting, a repair and the task board close no task, and assign nobody
\* nothing.
LEMMA RoutingKeepsTasks ==
  ASSUME TypeOK, ReviewInv, ExecutiveInv, TaskInv, [Next]_vars,
         NEW s, NEW p0, NEW f0, RouteCommit(s) \/ RepairCommit(s) \/ FinishOnBoard(p0, f0)
  PROVE  TaskInv'
<1>1. status' = status /\ approvals' = approvals
  BY DEF FinishOnBoard, RouteCommit, RepairCommit, reviewVars
<1>2. \A p \in Packages, f \in Routed : task'[p][f] = "closed" => task[p][f] = "closed"
  <2> SUFFICES ASSUME NEW p \in Packages, NEW f \in Routed, task'[p][f] = "closed"
               PROVE  task[p][f] = "closed"
    OBVIOUS
  <2>1. CASE RouteCommit(s)
    BY <2>1 DEF RouteCommit, TypeOK, TaskTypes
  <2>2. ASSUME NEW q, NEW g, NEW kind \in {"repaired", "finished"},
               task' = [task EXCEPT ![q] = [task[q] EXCEPT ![g] = kind]]
        PROVE  task[p][f] = "closed"
    BY <2>2 DEF TypeOK, TaskTypes
  <2>3. CASE RepairCommit(s)
    BY <2>2, <2>3 DEF RepairCommit
  <2>4. ASSUME NEW q, NEW g, FinishOnBoard(q, g) PROVE task[p][f] = "closed"
    BY <2>2, <2>4 DEF FinishOnBoard
  <2> QED BY <2>1, <2>3, <2>4
<1>3. \A p \in Packages, f \in Routed : assign[p][f] # NoOne => assign'[p][f] # NoOne
  <2> SUFFICES ASSUME NEW p \in Packages, NEW f \in Routed, assign[p][f] # NoOne
               PROVE  assign'[p][f] # NoOne
    OBVIOUS
  <2>1. CASE RouteCommit(s)
    BY <2>1 DEF RouteCommit, TypeOK, AssignTypes
  <2>2. CASE RepairCommit(s)
    <3>1. PICK q, g, u : /\ u # NoOne \/ u = assign[q][g]
                         /\ assign' = [assign EXCEPT ![q] = [assign[q] EXCEPT ![g] = u]]
      BY <2>2 DEF RepairCommit
    <3> QED BY <3>1 DEF TypeOK, AssignTypes
  <2>3. CASE assign' = assign
    BY <2>3
  <2> QED BY <2>1, <2>2, <2>3 DEF FinishOnBoard, reviewVars
<1>4. AllRouted'
  BY <1>1, <1>3, StepKeepsFloor DEF TaskInv, AllRouted, ExecutiveInv, Routed
<1>5. OnlyDecidedClosed'
  BY <1>1, <1>2 DEF TaskInv, OnlyDecidedClosed, Decided
<1> QED
  BY <1>4, <1>5, StepKeepsPlans DEF TaskInv

\* The invariant is inductive.
LEMMA StepKeepsTasks ==
  ASSUME TypeOK, ReviewInv, ExecutiveInv, TaskInv, [Next]_vars
  PROVE  TaskInv'
<1>1. CASE UNCHANGED <<status, task, assign, approvals>>
  BY <1>1, EndingKeepsTasks
<1>2. ASSUME UNCHANGED <<assign, approvals>>, NEW targets, Void(targets),
             \A p \in targets : status[p] # "none"
      PROVE  TaskInv'
  <2>1. \A p \in Packages :
           \/ status'[p] = status[p] /\ task'[p] = task[p]
           \/ status[p] # "none" /\ status'[p] \notin Pending \cup {"none"}
    BY <1>2 DEF Void, Pending
  <2> QED BY <1>2, <2>1, EndingKeepsTasks
<1>3. ASSUME NEW s \in Sessions, CeoCommit(s) \/ ReleaseCommit(s) PROVE TaskInv'
  <2> DEFINE p == txn[s].pkg
  <2>1. p \in Packages /\ FullyApproved(p)
    BY <1>3 DEF CeoCommit, ReleaseCommit, TypeOK, RequestTypes, ReviewInv, RequestsBacked
  <2>2. status[p] # "none"
    BY <2>1 DEF ReviewInv, DecidedExists, FullyApproved, Approved, Functions, Stage1
  <2>3. /\ UNCHANGED <<assign, approvals>>
        /\ status'[p] \in {"ready_to_sign", "rejected", "released"}
        /\ \A q \in Packages \ {p} : status'[q] = status[q] /\ task'[q] = task[q]
    BY <1>3, <2>1 DEF CeoCommit, ReleaseCommit, reviewVars, TypeOK, StatusTypes, TaskTypes
  <2> HIDE DEF p
  <2> QED BY <2>2, <2>3, EndingKeepsTasks DEF Pending
<1>4. ASSUME NEW s, NEW p, NEW f, RouteCommit(s) \/ RepairCommit(s) \/ FinishOnBoard(p, f)
      PROVE  TaskInv'
  BY <1>4, RoutingKeepsTasks
<1> QED
  BY <1>1, <1>2, <1>3, <1>4, StepReviews, SubmitKeepsTasks, ApproveKeepsTasks,
     RejectKeepsTasks DEF ExecutiveInv

\* Every function of a submitted package is routed, no task of a review closes
\* before its decision, and a rerouting in flight lets go no task of the stage it
\* read (approval_workflow, approval_routing, approval_remediation).
THEOREM TasksCorrect == Spec => []TaskInv
<1>1. Init => TaskInv
  BY DEF Init, TaskInv, AllRouted, OnlyDecidedClosed, PlansSpareTheirStage, Idle, Request
<1>2. TypeOK /\ ReviewInv /\ ExecutiveInv /\ TaskInv /\ [Next]_vars => TaskInv'
  BY StepKeepsTasks
<1> QED
  BY <1>1, <1>2, TypeCorrect, ReviewCorrect, ExecutiveCorrect, PTL DEF Spec

\* A completed stage files what it opens, or leaves the stage as it is.
LEMMA ApproveFiles ==
  ASSUME TypeOK, ReviewInv, TaskInv, NEW u, NEW p \in Packages, NEW g \in Functions,
         DecideApprove(u, p, g), NEW q \in Packages, NEW f \in Routed, Unfiled(q, f)'
  PROVE  Unfiled(q, f)
<1> DEFINE complete == \A h \in ActiveFunctions(status[p]) : h = g \/ Decided(p, h)
           to == IF complete THEN NextStage(p) ELSE status[p]
           d == Decision(u, p, g, "approve")
           t == Finished(task[p], g)
           filed == IF complete THEN WithTasks(t, assign[p], to) ELSE t
<1>1. /\ status' = [status EXCEPT ![p] = to]
      /\ task' = [task EXCEPT ![p] = filed]
      /\ approvals' = approvals \cup {d}
      /\ MayDecide(u, p, g)
  BY DEF DecideApprove
<1>2. status[p] \in {"pending_delivery_hr", "pending_finance_legal"}
  BY <1>1, DecisionContext
<1>3. task[p] \in Tasks /\ t \in Tasks
  BY FinishedType DEF TypeOK, TaskTypes, Tasks
<1>4. /\ to \in {"pending_delivery_hr", "pending_finance_legal", "pending_ceo_exception", "ready_to_sign"}
      /\ to = "pending_ceo_exception" => RequiresCeo(p)
      /\ ~complete => to = status[p]
  BY <1>2 DEF NextStage
<1>5. d.pkg = p /\ d.fn = g
  BY DEF Decision
<1>6. f # g => /\ ~complete => filed[f] = task[p][f]
               /\ filed[f] = "closed" => task[p][f] = "closed"
               /\ complete /\ f \in ActiveFunctions(to) /\ assign[p][f] # NoOne => filed[f] # "none"
  <2>1. f # g => t[f] = task[p][f]
    BY <1>3, FinishedCloses
  <2>2. CASE complete
    BY <1>3, <2>1, <2>2, WithTasksFiles
  <2>3. CASE ~complete
    BY <2>1, <2>3
  <2> QED BY <2>2, <2>3
<1>7. f \in ActiveFunctions(to) => assign[p][f] # NoOne
  BY <1>2, <1>4 DEF TaskInv, AllRouted, ActiveFunctions, Functions
<1> HIDE DEF complete, to, d, t, filed
<1>8. /\ status'[p] = to /\ task'[p] = filed
      /\ \A r \in Packages \ {p} : status'[r] = status[r] /\ task'[r] = task[r]
  BY <1>1 DEF TypeOK, StatusTypes, TaskTypes
<1>9. ~Decided(q, f) /\ (q = p => f # g)
  BY <1>1, <1>5 DEF Unfiled, Decided
<1>10. CASE q # p
  BY <1>8, <1>9, <1>10 DEF Unfiled
<1>11. CASE q = p
  <2>1. f \in ActiveFunctions(to) /\ filed[f] \in {"none", "closed"}
    BY <1>8, <1>11 DEF Unfiled
  <2>2. filed[f] # "closed"
    BY <1>2, <1>6, <1>9, <1>11 DEF TaskInv, OnlyDecidedClosed, Pending
  <2>3. ~complete
    BY <1>6, <1>7, <1>9, <1>11, <2>1, <2>2
  <2> QED BY <1>4, <1>6, <1>9, <1>11, <2>1, <2>3 DEF Unfiled
<1> QED BY <1>10, <1>11

\* A rerouting takes the task of an awaited review only when overtaken.
LEMMA RouteLosesOvertaken ==
  ASSUME TypeOK, TaskInv, NEW s \in Sessions, RouteCommit(s),
         NEW p \in Packages, NEW f \in Routed, ~Unfiled(p, f), Unfiled(p, f)'
  PROVE  Overtaken(s, p, f) /\ txn'[s] = Idle
<1>1. /\ txn[s].op = "reroute" /\ txn' = [txn EXCEPT ![s] = Idle]
      /\ status' = status /\ approvals' = approvals
      /\ task' = [task EXCEPT ![txn[s].pkg] =
           [g \in Routed |-> IF g \in txn[s].plan.filed THEN "open"
                             ELSE IF g \in txn[s].plan.dropped THEN "none"
                             ELSE task[txn[s].pkg][g]]]
  BY DEF RouteCommit, reviewVars
<1>2. f \in ActiveFunctions(status[p]) /\ task'[p][f] # task[p][f]
      /\ task'[p][f] \in {"none", "closed"}
  BY <1>1 DEF Unfiled, Decided
<1>3. txn[s].pkg = p
  BY <1>1, <1>2 DEF TypeOK, TaskTypes
<1>4. f \in txn[s].plan.dropped
  BY <1>1, <1>2, <1>3 DEF TypeOK, TaskTypes
<1>5. txn[s].plan.stage # status[p]
  BY <1>1, <1>2, <1>4 DEF TaskInv, PlansSpareTheirStage
<1>6. txn'[s] = Idle
  BY <1>1 DEF TypeOK, RequestTypes
<1> QED
  BY <1>1, <1>3, <1>4, <1>5, <1>6 DEF Overtaken

\* Nothing else does.
LEMMA StepLosesTask ==
  ASSUME TypeOK, ReviewInv, ExecutiveInv, TaskInv, [Next]_vars,
         NEW p \in Packages, NEW f \in Routed, ~Unfiled(p, f), Unfiled(p, f)'
  PROVE  \E s \in Sessions : Overtaken(s, p, f) /\ txn'[s] = Idle
<1> DEFINE Lost == \E s \in Sessions : Overtaken(s, p, f) /\ txn'[s] = Idle
<1>0. status'[p] \in Pending
  BY ActiveRouted DEF Unfiled
<1>1. ASSUME approvals' = approvals, status'[p] = status[p],
             \/ task'[p][f] = task[p][f]
             \/ task'[p][f] \in {"repaired", "finished"}
      PROVE  FALSE
  BY <1>1 DEF Unfiled, Decided
<1>2. ASSUME UNCHANGED <<assign, approvals>>, NEW targets, Void(targets) PROVE FALSE
  <2>1. p \notin targets
    BY <1>0, <1>2 DEF Void, Pending
  <2> QED BY <1>1, <1>2, <2>1 DEF Void
<1>3. ASSUME NEW u \in Owners, NEW q \in Packages, Submit(u, q) PROVE FALSE
  <2>1. PICK people \in [Routed -> Users \cup {NoOne}] :
          /\ task' = [task EXCEPT ![q] = WithTasks(task[q], people, "pending_delivery_hr")]
          /\ \A g \in Functions : people[g] # NoOne
    BY <1>3, SubmitRoutes
  <2>2. /\ status[q] = "none" /\ status' = [status EXCEPT ![q] = "pending_delivery_hr"]
        /\ approvals' = approvals
    BY <1>3, SubmitRoutes
  <2>3. CASE q # p
    BY <1>1, <2>1, <2>2, <2>3 DEF TypeOK, StatusTypes, TaskTypes
  <2>4. CASE q = p
    <3>1. task[p] \in Tasks /\ task'[p] = WithTasks(task[p], people, "pending_delivery_hr")
      BY <2>1, <2>4 DEF TypeOK, TaskTypes, Tasks
    <3>2. f \in ActiveFunctions("pending_delivery_hr") /\ ~Decided(p, f)
      BY <2>2, <2>4 DEF Unfiled, Decided, TypeOK, StatusTypes
    <3>3. task[p][f] = "closed" => Decided(p, f)
      BY <2>2, <2>4 DEF TaskInv, OnlyDecidedClosed
    <3>4. people[f] # NoOne
      BY <2>1, <3>2, ActiveRouted
    <3> QED BY <3>1, <3>2, <3>3, <3>4, WithTasksFiles DEF Unfiled
  <2> QED BY <2>3, <2>4
<1>4. ASSUME NEW u, NEW q \in Packages, NEW g \in Functions, DecideApprove(u, q, g) PROVE FALSE
  BY <1>4, ApproveFiles
<1>5. ASSUME NEW u, NEW q \in Packages, NEW g \in Functions, DecideReject(u, q, g) PROVE FALSE
  <2>1. /\ status' = [status EXCEPT ![q] = "rejected"]
        /\ task' = [task EXCEPT ![q] = Closed(task[q])]
        /\ approvals \subseteq approvals'
    BY <1>5 DEF DecideReject
  <2>2. q # p
    BY <1>0, <2>1 DEF TypeOK, StatusTypes, Pending
  <2> QED BY <2>1, <2>2 DEF Unfiled, Decided, TypeOK, StatusTypes, TaskTypes
<1>6. ASSUME NEW q, NEW g, FinishOnBoard(q, g) PROVE FALSE
  BY <1>1, <1>6 DEF FinishOnBoard, reviewVars, TypeOK, TaskTypes
<1>7. ASSUME NEW s \in Sessions, RepairCommit(s) PROVE FALSE
  BY <1>1, <1>7 DEF RepairCommit, TypeOK, TaskTypes
<1>8. ASSUME NEW s \in Sessions, CeoCommit(s) \/ ReleaseCommit(s) PROVE FALSE
  <2>1. status'[p] = status[p] \/ status'[p] \in {"ready_to_sign", "rejected", "released"}
    BY <1>8 DEF CeoCommit, ReleaseCommit, TypeOK, StatusTypes
  <2>2. status'[p] = status[p] /\ (task'[p] = task[p] \/ status'[p] \notin Pending)
    BY <1>0, <1>8, <2>1 DEF CeoCommit, ReleaseCommit, Pending, TypeOK, StatusTypes, TaskTypes
  <2> QED BY <1>0, <1>1, <1>8, <2>2 DEF CeoCommit, ReleaseCommit, reviewVars
<1>9. ASSUME NEW s \in Sessions, RouteCommit(s) PROVE Lost
  BY <1>9, RouteLosesOvertaken
<1>10. CASE UNCHANGED <<status, task, assign, approvals>>
  BY <1>1, <1>10
<1> QED
  BY <1>2, <1>3, <1>4, <1>5, <1>6, <1>7, <1>8, <1>9, <1>10, StepReviews DEF ExecutiveInv

\* Whatever races, the task of an awaited review is never taken away but by the
\* commit of a rerouting that read the package in an earlier stage
\* (approval_workflow.create_tasks, approval_routing.route_missing).
THEOREM TasksSurvive == Spec => TaskLostOnlyWhenOvertaken
<1>1. TypeOK /\ ReviewInv /\ ExecutiveInv /\ TaskInv /\ [Next]_vars =>
        [\A p \in Packages, f \in Routed : ~Unfiled(p, f) /\ Unfiled(p, f)' =>
           \E s \in Sessions : Overtaken(s, p, f) /\ txn'[s] = Idle]_vars
  BY StepLosesTask
<1> QED
  BY <1>1, TypeCorrect, ReviewCorrect, ExecutiveCorrect, TasksCorrect, PTL
  DEF Spec, TaskLostOnlyWhenOvertaken

(***************************************************************************)
(* Release.  The requests in flight carry what they read of the gate.      *)
(***************************************************************************)
\* A release in flight read its own package's upload, and an acceptance.
ReleaseRequests ==
  \A s \in Sessions : txn[s].op = "release" =>
    /\ txn[s].pkg \in accepted
    /\ txn[s].row \in DOMAIN uploads /\ uploads[txn[s].row].pkg = txn[s].pkg

ReleaseInv == ReleaseRequests /\ ReleaseHasRecord

\* A package becomes released by the commit of a release alone.
LEMMA StepReleased ==
  ASSUME TypeOK, ReviewInv, VoidsExist, [Next]_vars, NEW p \in Packages,
         status[p] # "released", status'[p] = "released"
  PROVE  \E s \in Sessions : ReleaseCommit(s) /\ txn[s].pkg = p
<1>1. ASSUME NEW targets, Void(targets) PROVE FALSE
  BY <1>1 DEF Void
<1>2. ASSUME NEW q \in Packages, NEW to, status' = [status EXCEPT ![q] = to], to # "released"
      PROVE  FALSE
  BY <1>2 DEF TypeOK, StatusTypes
<1>3. ASSUME NEW u, NEW q \in Packages, Submit(u, q) PROVE FALSE
  BY <1>2, <1>3 DEF Submit, Pin
<1>4. ASSUME NEW u, NEW q \in Packages, NEW f \in Functions, DecideApprove(u, q, f) PROVE FALSE
  <2>1. status[q] # "released"
    BY <1>4, DecisionContext DEF DecideApprove
  <2>2. PICK to : status' = [status EXCEPT ![q] = to] /\ to # "released"
    BY <1>4, <2>1 DEF DecideApprove, NextStage
  <2> QED BY <1>2, <2>2
<1>5. ASSUME NEW u, NEW q \in Packages, NEW f, DecideReject(u, q, f) PROVE FALSE
  BY <1>2, <1>5 DEF DecideReject
<1>6. ASSUME NEW s \in Sessions, CeoCommit(s) PROVE FALSE
  BY <1>6 DEF CeoCommit, TypeOK, RequestTypes, StatusTypes
<1>7. ASSUME NEW s, NEW q, NEW f, RouteCommit(s) \/ RepairCommit(s) \/ FinishOnBoard(q, f)
      PROVE  FALSE
  BY <1>7 DEF RouteCommit, RepairCommit, FinishOnBoard
<1>8. ASSUME NEW s \in Sessions, ReleaseCommit(s) PROVE txn[s].pkg = p
  BY <1>8 DEF ReleaseCommit
<1> QED
  BY <1>1, <1>3, <1>4, <1>5, <1>6, <1>7, <1>8, StepReviews

\* A step that is no part of a release.
QuietRelease ==
  /\ UNCHANGED <<releases, mailed, pkgSuper>>
  /\ accepted \subseteq accepted'
  /\ \A s \in Sessions : txn'[s].op = "release" => txn'[s] = txn[s]

\* A step reads a release, commits one or is no part of any.
LEMMA StepReleases ==
  ASSUME TypeOK, [Next]_vars
  PROVE  \/ QuietRelease
         \/ \E s \in Sessions, i \in DOMAIN uploads : ReleaseRead(s, i)
         \/ \E s \in Sessions : ReleaseCommit(s)
<1>1. ASSUME txn' = txn, UNCHANGED <<releases, mailed, pkgSuper>>, accepted \subseteq accepted'
      PROVE  QuietRelease
  BY <1>1 DEF QuietRelease
<1>2. ASSUME NEW t \in Sessions, NEW r, txn' = [txn EXCEPT ![t] = r], r.op # "release",
             UNCHANGED <<releases, mailed, pkgSuper, accepted>>
      PROVE  QuietRelease
  BY <1>2 DEF QuietRelease, TypeOK, RequestTypes
<1>3. CASE SourceStep
  <2>1. UNCHANGED <<releases, mailed, pkgSuper, accepted>>
    BY <1>3, OthersKeepSignatures DEF signVars
  <2>2. ASSUME NEW t \in Sessions, ReviseRead(t) \/ ReviseCommit(t) PROVE QuietRelease
    <3>1. PICK r : r.op # "release" /\ txn' = [txn EXCEPT ![t] = r]
      BY <2>2 DEF ReviseRead, ReviseCommit, Request, Idle
    <3> QED BY <1>2, <2>1, <3>1
  <2> QED
    BY <1>1, <1>3, <2>1, <2>2 DEF SourceStep, CreateSowVersion, Confirm, CreateGm, SaveCommercial,
       DeleteVersion, DiscardVersion
<1>4. CASE ReviewStep
  <2>1. UNCHANGED <<releases, mailed, pkgSuper, accepted>>
    BY <1>4, OthersKeepSignatures DEF signVars
  <2>2. ASSUME NEW t \in Sessions, NEW p, NEW f,
               ManualVoidRead(t, p) \/ QuarantineRead(t, p, f) \/ VoidCommit(t)
        PROVE  QuietRelease
    <3>1. PICK r : r.op # "release" /\ txn' = [txn EXCEPT ![t] = r]
      BY <2>2 DEF ManualVoidRead, QuarantineRead, VoidCommit, Request, Idle
    <3> QED BY <1>2, <2>1, <3>1
  <2>3. ASSUME NEW t \in Sessions, RoutingStep(t) PROVE QuietRelease
    <3>1. txn' = [txn EXCEPT ![t] = txn'[t]] /\ txn'[t].op # "release"
      BY <2>3, RoutingKeeps
    <3> QED BY <1>2, <2>1, <3>1
  <2> QED
    BY <1>1, <1>4, <2>1, <2>2, <2>3 DEF ReviewStep, Submit, DecideApprove, DecideReject,
       SaveGroup, FinishOnBoard
<1>5. CASE ExecutiveStep
  <2>1. UNCHANGED <<releases, mailed, pkgSuper, accepted>>
    BY <1>5, OthersKeepSignatures DEF signVars
  <2>2. ASSUME NEW t \in Sessions, NEW p, NEW u, NEW arg, CeoRead(t, p, u, arg) \/ CeoCommit(t)
        PROVE  QuietRelease
    <3>1. PICK r : r.op # "release" /\ txn' = [txn EXCEPT ![t] = r]
      BY <2>2 DEF CeoRead, CeoCommit, Request, Idle
    <3> QED BY <1>2, <2>1, <3>1
  <2> QED
    BY <1>1, <1>5, <2>1, <2>2 DEF ExecutiveStep, SetRationale, Lapse, RecordEvidence
<1>6. CASE SignatureStep
  <2>1. ASSUME NEW t \in Sessions, NEW p, NEW i, NEW result,
               \/ UploadRead(t, p) \/ UploadCommit(t) \/ CallbackRead(t, i, result)
               \/ CallbackCommit(t)
        PROVE  QuietRelease
    <3>1. PICK r : r.op # "release" /\ txn' = [txn EXCEPT ![t] = r]
      BY <2>1 DEF UploadRead, UploadCommit, CallbackRead, CallbackCommit, Request, Idle
    <3>2. UNCHANGED <<releases, mailed, pkgSuper, accepted>>
      BY <2>1 DEF UploadRead, UploadCommit, CallbackRead, CallbackCommit, signVars
    <3> QED BY <1>2, <3>1, <3>2
  <2>2. ASSUME NEW p, UploadFile(p) \/ Accept(p) \/ MarkChurn PROVE QuietRelease
    BY <1>1, <2>2 DEF UploadFile, Accept, MarkChurn
  <2> QED
    BY <1>6, <2>1, <2>2 DEF SignatureStep
<1>7. ASSUME NEW t \in Sessions, Abort(t) PROVE QuietRelease
  <2>1. Idle.op # "release" /\ txn' = [txn EXCEPT ![t] = Idle]
    BY <1>7 DEF Abort, Idle, Request
  <2> QED BY <1>2, <1>7, <2>1 DEF Abort, signVars
<1>8. CASE UNCHANGED vars
  BY <1>1, <1>8 DEF vars, signVars
<1> QED
  BY <1>3, <1>4, <1>5, <1>6, <1>7, <1>8 DEF Next

\* What a release read of its upload and acceptance still holds at its commit.
LEMMA StepKeepsReleaseRequests ==
  ASSUME TypeOK, ReleaseRequests, [Next]_vars PROVE ReleaseRequests'
<1> SUFFICES ASSUME NEW s \in Sessions, txn'[s].op = "release"
             PROVE  /\ txn'[s].pkg \in accepted'
                    /\ txn'[s].row \in DOMAIN uploads'
                    /\ uploads'[txn'[s].row].pkg = txn'[s].pkg
  BY DEF ReleaseRequests
<1>1. ASSUME txn'[s] = txn[s], accepted \subseteq accepted'
      PROVE  /\ txn'[s].pkg \in accepted'
             /\ txn'[s].row \in DOMAIN uploads'
             /\ uploads'[txn'[s].row].pkg = txn'[s].pkg
  BY <1>1, StepKeepsUploads DEF ReleaseRequests
<1>2. CASE QuietRelease
  BY <1>1, <1>2 DEF QuietRelease
<1>3. ASSUME NEW t \in Sessions, NEW i \in DOMAIN uploads, ReleaseRead(t, i)
      PROVE  /\ txn'[s].pkg \in accepted'
             /\ txn'[s].row \in DOMAIN uploads'
             /\ uploads'[txn'[s].row].pkg = txn'[s].pkg
  <2>1. /\ txn' = [txn EXCEPT ![t] = Request("release", uploads[i].pkg, i, NoOne, "none")]
        /\ uploads' = uploads /\ accepted' = accepted /\ uploads[i].pkg \in accepted
    BY <1>3 DEF ReleaseRead, ReleaseGate
  <2>2. CASE s = t
    BY <2>1, <2>2 DEF Request, TypeOK, RequestTypes
  <2>3. CASE s # t
    BY <1>1, <2>1, <2>3 DEF TypeOK, RequestTypes
  <2> QED BY <2>2, <2>3
<1>4. ASSUME NEW t \in Sessions, ReleaseCommit(t)
      PROVE  /\ txn'[s].pkg \in accepted'
             /\ txn'[s].row \in DOMAIN uploads'
             /\ uploads'[txn'[s].row].pkg = txn'[s].pkg
  <2>1. txn' = [txn EXCEPT ![t] = Idle] /\ accepted' = accepted
    BY <1>4 DEF ReleaseCommit
  <2>2. s # t
    BY <2>1 DEF Idle, Request, TypeOK, RequestTypes
  <2> QED BY <1>1, <2>1, <2>2 DEF TypeOK, RequestTypes
<1> QED
  BY <1>2, <1>3, <1>4, StepReleases

\* What was mailed stays accepted and approved, and only such a package is mailed.
LEMMA StepKeepsMail ==
  ASSUME TypeOK, ReviewInv, ReleaseHasRecord, [Next]_vars, NEW p \in Packages, mailed'[p] > 0
  PROVE  p \in accepted' /\ FullyApproved(p)'
<1>1. ASSUME mailed'[p] = mailed[p], accepted \subseteq accepted'
      PROVE  p \in accepted' /\ FullyApproved(p)'
  BY <1>1, StepKeepsClearance DEF ReleaseHasRecord
<1>2. CASE QuietRelease
  BY <1>1, <1>2 DEF QuietRelease
<1>3. ASSUME NEW s \in Sessions, NEW i \in DOMAIN uploads, ReleaseRead(s, i)
      PROVE  p \in accepted' /\ FullyApproved(p)'
  <2>1. accepted' = accepted
    BY <1>3 DEF ReleaseRead
  <2>2. CASE uploads[i].pkg = p
    <3>1. p \in accepted /\ status[p] = "ready_to_sign"
      BY <1>3, <2>2 DEF ReleaseRead, ReleaseGate, AwaitsSignature
    <3> QED BY <2>1, <3>1, StepKeepsClearance DEF ReviewInv, StatusBacked
  <2>3. CASE uploads[i].pkg # p
    BY <1>1, <1>3, <2>1, <2>3 DEF ReleaseRead, TypeOK, ReleaseTypes
  <2> QED BY <2>2, <2>3
<1>4. ASSUME NEW s \in Sessions, ReleaseCommit(s) PROVE p \in accepted' /\ FullyApproved(p)'
  BY <1>1, <1>4 DEF ReleaseCommit
<1> QED
  BY <1>2, <1>3, <1>4, StepReleases

\* What a release records stays recorded, and every release records it all.
LEMMA StepKeepsRecord ==
  ASSUME TypeOK, ReviewInv, VoidsExist, ReleaseRequests, ReleaseHasRecord, [Next]_vars
  PROVE  ReleaseHasRecord'
<1> SUFFICES ASSUME NEW p \in Packages, status'[p] = "released"
             PROVE  /\ p \in accepted' /\ 0 < releases'[p]
                    /\ \E i \in DOMAIN uploads' : uploads'[i].pkg = p /\ uploads'[i].released
  BY StepKeepsMail DEF ReleaseHasRecord
<1>1. accepted \subseteq accepted' /\ releases[p] <= releases'[p]
  <2>1. releases \in [Packages -> Nat]
    BY DEF TypeOK, ReleaseTypes
  <2>2. CASE QuietRelease
    BY <2>1, <2>2 DEF QuietRelease
  <2>3. ASSUME NEW s \in Sessions, NEW i, ReleaseRead(s, i)
        PROVE  accepted \subseteq accepted' /\ releases[p] <= releases'[p]
    BY <2>1, <2>3 DEF ReleaseRead
  <2>4. ASSUME NEW s \in Sessions, ReleaseCommit(s)
        PROVE  accepted \subseteq accepted' /\ releases[p] <= releases'[p]
    BY <2>1, <2>4 DEF ReleaseCommit
  <2> QED BY <2>2, <2>3, <2>4, StepReleases
<1>2. CASE status[p] = "released"
  <2>1. p \in accepted /\ 0 < releases[p]
    BY <1>2 DEF ReleaseHasRecord
  <2>2. PICK i \in DOMAIN uploads : uploads[i].pkg = p /\ uploads[i].released
    BY <1>2 DEF ReleaseHasRecord
  <2>3. i \in DOMAIN uploads' /\ uploads'[i].pkg = p /\ uploads'[i].released
    BY <2>2, StepKeepsUploads
  <2>4. releases[p] \in Nat /\ releases'[p] \in Nat
    BY StepTypes DEF TypeOK, ReleaseTypes
  <2> QED BY <1>1, <2>1, <2>3, <2>4
<1>3. CASE status[p] # "released"
  <2>1. PICK s \in Sessions : ReleaseCommit(s) /\ txn[s].pkg = p
    BY <1>3, StepReleased
  <2> DEFINE i == txn[s].row
  <2>2. /\ releases' = [releases EXCEPT ![p] = releases[p] + 1]
        /\ uploads' = [uploads EXCEPT ![i] = [uploads[i] EXCEPT !.released = TRUE]]
        /\ txn[s].op = "release"
    BY <2>1 DEF ReleaseCommit
  <2>3. p \in accepted /\ i \in DOMAIN uploads /\ uploads[i].pkg = p
    BY <2>1, <2>2 DEF ReleaseRequests
  <2> HIDE DEF i
  <2>4. i \in DOMAIN uploads' /\ uploads'[i].pkg = p
    BY <2>3, StepKeepsUploads
  <2>5. uploads[i] \in Uploads
    BY <2>3, UploadRow DEF TypeOK
  <2>6. uploads'[i].released
    BY <2>2, <2>3, <2>5 DEF Uploads, TypeOK, UploadTypes
  <2>7. 0 < releases'[p]
    BY <2>2 DEF TypeOK, ReleaseTypes
  <2> QED BY <1>1, <2>3, <2>4, <2>6, <2>7
<1> QED
  BY <1>2, <1>3

\* A release in flight acts on its own package's upload, which was accepted, and
\* the record of a release holds: the next theorem's invariant (signed_sow.release).
THEOREM ReleaseCorrect == Spec => []ReleaseInv
<1>1. Init => ReleaseInv
  BY DEF Init, ReleaseInv, ReleaseRequests, ReleaseHasRecord, Idle, Request
<1>2. TypeOK /\ ReviewInv /\ ExecutiveInv /\ ReleaseInv /\ [Next]_vars => ReleaseInv'
  BY StepKeepsReleaseRequests, StepKeepsRecord DEF ReleaseInv, ExecutiveInv
<1> QED
  BY <1>1, <1>2, TypeCorrect, ReviewCorrect, ExecutiveCorrect, PTL DEF Spec

\* However releases, callbacks and voids race, a released package was accepted, has
\* its tasks and an upload that carries the release, and nothing is mailed that was
\* not accepted and approved by all five (handoff.check_release_gate,
\* signed_sow.release).
THEOREM ReleasesRecorded == Spec => []ReleaseHasRecord
  BY ReleaseCorrect, PTL DEF ReleaseInv

\* The contracts a release leaves standing are on the version it released.
LEMMA StepKeepsOneVersion ==
  ASSUME TypeOK, ReviewInv, VoidsExist, ContractsShareVersion, [Next]_vars
  PROVE  ContractsShareVersion'
<1> DEFINE Standing(p) == status[p] = "released" /\ pkgSuper[p] = 0
<1> SUFFICES ASSUME NEW p \in Packages, NEW q \in Packages, Standing(p)', Standing(q)'
             PROVE  pkgSow'[p] = pkgSow'[q]
  BY DEF ContractsShareVersion
<1>1. ASSUME NEW s \in Sessions, ReleaseCommit(s) PROVE pkgSow'[p] = pkgSow'[q]
  <2> DEFINE c == txn[s].pkg
             prior == PriorContracts(c)
  <2>1. c \in Packages /\ c # 0
    BY <1>1, Bounds DEF ReleaseCommit, TypeOK, RequestTypes, Packages
  <2>2. /\ pkgSuper' = [r \in Packages |-> IF r \in prior THEN c ELSE pkgSuper[r]]
        /\ status' = [status EXCEPT ![c] = "released"]
        /\ pkgSow' = pkgSow
    BY <1>1 DEF ReleaseCommit, pinVars
  <2> HIDE DEF c
  <2>3. ASSUME NEW r \in Packages, Standing(r)' PROVE pkgSow[r] = pkgSow[c]
    <3>1. r \notin prior /\ pkgSuper[r] = 0
      BY <2>1, <2>2, <2>3
    <3>2. r = c \/ status[r] = "released"
      BY <2>2, <2>3 DEF TypeOK, StatusTypes
    <3> QED BY <3>1, <3>2 DEF PriorContracts
  <2> QED BY <2>2, <2>3
<1>2. ASSUME ~\E s \in Sessions : ReleaseCommit(s) PROVE pkgSow'[p] = pkgSow'[q]
  <2>1. pkgSuper' = pkgSuper
    BY <1>2, StepReleases DEF QuietRelease, ReleaseRead
  <2>2. status[p] = "released" /\ status[q] = "released"
    BY <1>2, StepReleased
  <2> QED BY <2>1, <2>2, StepKeepsPins DEF ContractsShareVersion
<1> QED
  BY <1>1, <1>2

\* In whatever order amendments are submitted, voided and released, released
\* contracts that nothing superseded stand on one version (signed_sow.release,
\* step 4b).
THEOREM ContractsAgree == Spec => []ContractsShareVersion
<1>1. Init => ContractsShareVersion
  BY DEF Init, ContractsShareVersion
<1>2. TypeOK /\ ReviewInv /\ ExecutiveInv /\ ContractsShareVersion /\ [Next]_vars
        => ContractsShareVersion'
  BY StepKeepsOneVersion DEF ExecutiveInv
<1> QED
  BY <1>1, <1>2, TypeCorrect, ReviewCorrect, ExecutiveCorrect, PTL DEF Spec

(***************************************************************************)
(* The workflow implements SignatureGate.                                  *)
(***************************************************************************)
\* A row that was not submitted pins no model.
FreshUnpinned == \A p \in Packages : status[p] = "none" => pkgGm[p] = 0

\* Pins are written with the submission.
LEMMA StepKeepsFresh ==
  ASSUME TypeOK, ReviewInv, VoidsExist, FreshUnpinned, [Next]_vars PROVE FreshUnpinned'
<1> SUFFICES ASSUME NEW p \in Packages, status'[p] = "none" PROVE pkgGm'[p] = 0
  BY DEF FreshUnpinned
<1>1. status[p] = "none" /\ pkgGm[p] = 0
  BY StepLife DEF FreshUnpinned
<1>2. ASSUME NEW u, NEW q \in Packages, Submit(u, q) PROVE pkgGm'[p] = 0
  <2>1. /\ status' = [status EXCEPT ![q] = "pending_delivery_hr"]
        /\ \E v : pkgGm' = [pkgGm EXCEPT ![q] = v]
    BY <1>2 DEF Submit, Pin
  <2>2. q # p
    BY <2>1 DEF TypeOK, StatusTypes
  <2> QED BY <1>1, <2>1, <2>2
<1>3. pinVars' = pinVars => pkgGm'[p] = 0
  BY <1>1 DEF pinVars
<1>4. CASE SourceStep
  BY <1>3, <1>4 DEF SourceStep, CreateSowVersion, Confirm, CreateGm, SaveCommercial,
     ReviseRead, ReviseCommit, DeleteVersion, DiscardVersion
<1>5. CASE ReviewStep
  <2>1. ASSUME NEW s \in Sessions, RoutingStep(s) PROVE pinVars' = pinVars
    BY <2>1, RoutingKeeps
  <2> QED
    BY <1>2, <1>3, <1>5, <2>1 DEF ReviewStep, DecideApprove, DecideReject, ManualVoidRead,
       QuarantineRead, VoidCommit, SaveGroup, FinishOnBoard
<1>6. CASE ExecutiveStep
  BY <1>3, <1>6 DEF ExecutiveStep, SetRationale, CeoRead, CeoCommit, Lapse, RecordEvidence
<1>7. CASE SignatureStep
  BY <1>3, <1>7 DEF SignatureStep, UploadFile, UploadRead, UploadCommit, CallbackRead,
     CallbackCommit, Accept, ReleaseRead, ReleaseCommit, MarkChurn
<1>8. CASE (\E s \in Sessions : Abort(s)) \/ UNCHANGED vars
  BY <1>3, <1>8 DEF Abort, vars
<1> QED
  BY <1>4, <1>5, <1>6, <1>7, <1>8 DEF Next

\* A row is fresh until its submission pins a model.
LEMMA FreshRowsUnpinned == Spec => []FreshUnpinned
<1>1. Init => FreshUnpinned
  BY DEF Init, FreshUnpinned
<1>2. TypeOK /\ ReviewInv /\ ExecutiveInv /\ FreshUnpinned /\ [Next]_vars => FreshUnpinned'
  BY StepKeepsFresh DEF ExecutiveInv
<1> QED
  BY <1>1, <1>2, TypeCorrect, ReviewCorrect, ExecutiveCorrect, PTL DEF Spec

\* What the gate's state says of one package.
LEMMA GateState ==
  ASSUME NEW p \in Packages
  PROVE  /\ clearedBar[p] = {f \in Functions : Approved(p, f)}
         /\ FullyApproved(p) => clearedBar[p] = Stage1 \cup Stage2
         /\ exceptedBar[p] = (exc[p].decision = "approve")
         /\ p \in belowBar <=> pkgGm[p] # 0 /\ RequiresCeo(p)
         /\ p \in openBar <=> status[p] \in {"ready_to_sign", "released"}
  BY DEF clearedBar, exceptedBar, belowBar, openBar, FullyApproved, Functions

\* Nobody is cleared by a step that records no decision.
LEMMA QuietCleared == ASSUME approvals' = approvals PROVE clearedBar' = clearedBar
  BY DEF clearedBar, Approved

\* Nothing but a submission changes who is below a floor.
LEMMA StepBelow ==
  ASSUME TypeOK, ReviewInv, ExecutiveInv, FreshUnpinned, FreshUnpinned', [Next]_vars,
         NEW p \in Packages, status[p] # "none" \/ status'[p] = "none"
  PROVE  p \in belowBar' <=> p \in belowBar
<1>1. CASE status[p] # "none"
  BY <1>1, StepKeepsPins, StepKeepsFloor DEF ExecutiveInv, belowBar
<1>2. CASE status[p] = "none" /\ status'[p] = "none"
  BY <1>2 DEF FreshUnpinned, belowBar
<1> QED
  BY <1>1, <1>2

\* Only the executive's commit writes its decision.
LEMMA StepExcepted ==
  ASSUME TypeOK, [Next]_vars, ~\E s \in Sessions : CeoCommit(s)
  PROVE  exceptedBar' = exceptedBar
<1> SUFFICES ASSUME NEW p \in Packages PROVE exc'[p].decision = exc[p].decision
  BY DEF exceptedBar
<1>1. ASSUME NEW u, NEW q \in Packages, NEW f \in Functions, DecideApprove(u, q, f)
      PROVE  exc'[p].decision = exc[p].decision
  BY <1>1 DEF DecideApprove, TypeOK, ExceptionTypes, Exceptions
<1>2. ASSUME NEW q \in Packages, SetRationale(q) PROVE exc'[p].decision = exc[p].decision
  BY <1>2 DEF SetRationale, TypeOK, ExceptionTypes, Exceptions
<1> QED
  BY <1>1, <1>2, StepExceptions

\* A submission enters the gate.
LEMMA SubmitEnters ==
  ASSUME TypeOK, ReviewInv, ExecutiveInv, FreshUnpinned, FreshUnpinned', [Next]_vars,
         exceptedBar' = exceptedBar, NEW u \in Owners, NEW p \in Packages, Submit(u, p)
  PROVE  Gate!Enter(p)
<1>1. /\ status[p] = "none" /\ approvals' = approvals
      /\ status' = [status EXCEPT ![p] = "pending_delivery_hr"]
  BY SubmitRoutes
<1>2. clearedBar[p] = {}
  BY <1>1 DEF ReviewInv, DecidedExists, clearedBar, Approved
<1>3. openBar' = openBar /\ p \notin openBar
  BY <1>1 DEF openBar, TypeOK, StatusTypes
<1>4. \A q \in Packages \ {p} : q \in belowBar' <=> q \in belowBar
  BY <1>1, StepBelow DEF TypeOK, StatusTypes
<1>5. p \notin belowBar
  BY <1>1 DEF FreshUnpinned, belowBar
<1>6. belowBar' \in {belowBar, belowBar \cup {p}}
  <2>1. belowBar \subseteq Packages /\ belowBar' \subseteq Packages
    BY DEF belowBar
  <2> HIDE DEF belowBar
  <2>2. CASE p \in belowBar'
    <3>1. belowBar' = belowBar \cup {p}
      BY <1>4, <2>1, <2>2
    <3> QED BY <3>1
  <2>3. CASE p \notin belowBar'
    <3>1. belowBar' = belowBar
      BY <1>4, <1>5, <2>1, <2>3
    <3> QED BY <3>1
  <2> QED BY <2>2, <2>3
<1>7. clearedBar' = clearedBar
  BY <1>1, QuietCleared
<1> QED
  BY <1>2, <1>3, <1>6, <1>7 DEF Gate!Enter

\* When no row is submitted, nobody moves across the floor.
LEMMA KeepsBelow ==
  ASSUME TypeOK, ReviewInv, ExecutiveInv, FreshUnpinned, FreshUnpinned', [Next]_vars,
         \A p \in Packages : status[p] # "none" \/ status'[p] = "none"
  PROVE  belowBar' = belowBar
<1>1. \A p \in Packages : p \in belowBar' <=> p \in belowBar
  BY StepBelow
<1>2. belowBar \subseteq Packages /\ belowBar' \subseteq Packages
  BY DEF belowBar
<1> QED
  BY <1>1, <1>2

\* An approval clears its function; the last one may open the package.
LEMMA ApproveClears ==
  ASSUME TypeOK, ReviewInv, ReviewInv', ExecutiveInv, FreshUnpinned, FreshUnpinned', [Next]_vars,
         exceptedBar' = exceptedBar,
         NEW u, NEW p \in Packages, NEW f \in Functions, DecideApprove(u, p, f)
  PROVE  Gate!Clear(p, f)
<1> DEFINE complete == \A g \in ActiveFunctions(status[p]) : g = f \/ Decided(p, g)
           to == IF complete THEN NextStage(p) ELSE status[p]
           d == Decision(u, p, f, "approve")
<1>1. /\ status' = [status EXCEPT ![p] = to]
      /\ approvals' = approvals \cup {d}
      /\ MayDecide(u, p, f)
  BY DEF DecideApprove
<1>2. status[p] \in {"pending_delivery_hr", "pending_finance_legal"}
  BY <1>1, DecisionContext
<1>3. /\ to # "none" /\ to # "released"
      /\ to = "ready_to_sign" => ~RequiresCeo(p)
  BY <1>2 DEF NextStage
<1>4. d.pkg = p /\ d.fn = f /\ d.verdict = "approve"
  BY DEF Decision
<1> HIDE DEF complete, to, d
<1>5. \A q \in Packages, g \in Functions :
        Approved(q, g)' <=> Approved(q, g) \/ (q = p /\ g = f)
  BY <1>1, <1>4 DEF Approved
<1>6. f \notin clearedBar[p]
  BY <1>1, DecisionContext, GateState
<1>7. f \in Stage2 => Stage1 \subseteq clearedBar[p]
  BY <1>1, DecisionContext, GateState DEF Functions, Stage1, Stage2
<1>8. clearedBar' = [clearedBar EXCEPT ![p] = clearedBar[p] \cup {f}]
  BY <1>5 DEF clearedBar
<1>9. belowBar' = belowBar
  BY <1>1, <1>2, KeepsBelow DEF TypeOK, StatusTypes
<1>10. \/ openBar' = openBar
       \/ /\ clearedBar'[p] = Stage1 \cup Stage2
          /\ p \notin belowBar
          /\ openBar' = openBar \cup {p}
  <2>1. CASE to = "ready_to_sign"
    <3>1. status'[p] = "ready_to_sign"
      BY <1>1, <2>1 DEF TypeOK, StatusTypes
    <3>2. FullyApproved(p)'
      BY <3>1 DEF ReviewInv, StatusBacked
    <3>3. clearedBar'[p] = Stage1 \cup Stage2
      BY <3>2 DEF clearedBar, FullyApproved, Functions
    <3>4. p \notin belowBar
      BY <1>3, <2>1 DEF belowBar
    <3>5. openBar' = openBar \cup {p}
      BY <1>1, <2>1 DEF openBar, TypeOK, StatusTypes
    <3> QED BY <3>3, <3>4, <3>5
  <2>2. CASE to # "ready_to_sign"
    <3>1. openBar' = openBar
      BY <1>1, <1>2, <1>3, <2>2 DEF openBar, TypeOK, StatusTypes
    <3> QED BY <3>1
  <2> QED BY <2>1, <2>2
<1> QED
  BY <1>6, <1>7, <1>8, <1>9, <1>10 DEF Gate!Clear

\* The executive decides what all five cleared below a floor.
LEMMA CeoExcepts ==
  ASSUME TypeOK, ReviewInv, ExecutiveInv, FreshUnpinned, FreshUnpinned', [Next]_vars,
         NEW s \in Sessions, CeoCommit(s)
  PROVE  Gate!Except(txn[s].pkg)
<1> DEFINE p == txn[s].pkg
           verdict == IF txn[s].arg = "reject" THEN "reject" ELSE "approve"
           to == IF verdict = "approve" THEN "ready_to_sign" ELSE "rejected"
<1>1. /\ txn[s].op = "ceo" /\ approvals' = approvals
      /\ status' = [status EXCEPT ![p] = to]
      /\ \A q \in Packages : exc'[q].decision = IF q = p THEN verdict ELSE exc[q].decision
  BY DEF CeoCommit, reviewVars, TypeOK, ExceptionTypes, Exceptions
<1>2. p \in Packages /\ FullyApproved(p) /\ RequiresCeo(p)
  BY <1>1 DEF TypeOK, RequestTypes, ReviewInv, RequestsBacked, ExecutiveInv, ExecutiveRequests
<1> HIDE DEF p
<1>3. status[p] # "none"
  BY <1>2 DEF ReviewInv, DecidedExists, FullyApproved, Approved, Functions, Stage1
<1>4. clearedBar[p] = Stage1 \cup Stage2
  BY <1>2, GateState
<1>5. p \in belowBar
  BY <1>2, <1>3 DEF ExecutiveInv, PinnedModel, belowBar, TypeOK, GmTypes
<1>6. clearedBar' = clearedBar
  BY <1>1, QuietCleared
<1>7. belowBar' = belowBar
  BY <1>1, <1>3, KeepsBelow DEF TypeOK, StatusTypes
<1>8. \/ /\ exceptedBar' = [exceptedBar EXCEPT ![p] = TRUE]
         /\ openBar' = openBar \cup {p}
      \/ /\ exceptedBar' = [exceptedBar EXCEPT ![p] = FALSE]
         /\ openBar' = openBar \ {p}
  <2>1. CASE verdict = "approve"
    <3>1. exceptedBar' = [exceptedBar EXCEPT ![p] = TRUE]
      BY <1>1, <1>2, <2>1 DEF exceptedBar
    <3>2. openBar' = openBar \cup {p}
      BY <1>1, <1>2, <2>1 DEF openBar, TypeOK, StatusTypes
    <3> QED BY <3>1, <3>2
  <2>2. CASE verdict # "approve"
    <3>1. exceptedBar' = [exceptedBar EXCEPT ![p] = FALSE]
      BY <1>1, <1>2, <2>2 DEF exceptedBar
    <3>2. openBar' = openBar \ {p}
      BY <1>1, <1>2, <2>2 DEF openBar, TypeOK, StatusTypes
    <3> QED BY <3>1, <3>2
  <2> QED BY <2>1, <2>2
<1>9. Gate!Except(p)
  BY <1>4, <1>5, <1>6, <1>7, <1>8 DEF Gate!Except
<1> QED
  BY <1>9 DEF p

\* A release opens what it read as cleared, whatever closed it meanwhile.
LEMMA ReleaseReopens ==
  ASSUME TypeOK, ReviewInv, ExecutiveInv, FreshUnpinned, FreshUnpinned', [Next]_vars,
         exceptedBar' = exceptedBar, NEW s \in Sessions, ReleaseCommit(s)
  PROVE  Gate!Reopen(txn[s].pkg)
<1> DEFINE p == txn[s].pkg
<1>1. /\ txn[s].op = "release" /\ approvals' = approvals
      /\ status' = [status EXCEPT ![p] = "released"]
  BY DEF ReleaseCommit, reviewVars
<1>2. p \in Packages /\ FullyApproved(p)
  BY <1>1 DEF TypeOK, RequestTypes, ReviewInv, RequestsBacked
<1> HIDE DEF p
<1>3. status[p] # "none"
  BY <1>2 DEF ReviewInv, DecidedExists, FullyApproved, Approved, Functions, Stage1
<1>4. clearedBar[p] = Stage1 \cup Stage2
  BY <1>2, GateState
<1>5. clearedBar' = clearedBar
  BY <1>1, QuietCleared
<1>6. belowBar' = belowBar
  BY <1>1, <1>3, KeepsBelow DEF TypeOK, StatusTypes
<1>7. openBar' = openBar \cup {p}
  BY <1>1, <1>2 DEF openBar, TypeOK, StatusTypes
<1>8. Gate!Reopen(p)
  BY <1>4, <1>5, <1>6, <1>7 DEF Gate!Reopen
<1> QED
  BY <1>8 DEF p

\* A void closes one package, or nothing that was open.
LEMMA VoidCloses ==
  ASSUME TypeOK, ReviewInv, ExecutiveInv, FreshUnpinned, FreshUnpinned', [Next]_vars,
         exceptedBar' = exceptedBar, approvals' = approvals,
         NEW targets \in SUBSET Packages, Void(targets),
         \A p \in targets : status[p] # "none", \A p, q \in targets : p = q
  PROVE  (\E p \in Packages : Gate!Close(p)) \/ UNCHANGED Gate!gateVars
<1>1. clearedBar' = clearedBar
  BY QuietCleared
<1>2. belowBar' = belowBar
  BY KeepsBelow DEF Void
<1>3. openBar' = openBar \ targets
  BY DEF Void, openBar
<1>4. CASE targets = {}
  <2>1. openBar' = openBar
    BY <1>3, <1>4
  <2> QED BY <1>1, <1>2, <2>1 DEF Gate!gateVars
<1>5. ASSUME NEW p \in targets PROVE Gate!Close(p)
  <2>1. targets = {p}
    OBVIOUS
  <2>2. openBar' = openBar \ {p}
    BY <1>3, <2>1
  <2> QED BY <1>1, <1>2, <2>2 DEF Gate!Close
<1> QED
  BY <1>4, <1>5

\* Every other step leaves the gate as it is.
LEMMA OthersStutter ==
  ASSUME TypeOK, ReviewInv, ExecutiveInv, FreshUnpinned, FreshUnpinned', [Next]_vars,
         exceptedBar' = exceptedBar, approvals' = approvals, status' = status
  PROVE  UNCHANGED Gate!gateVars
<1>1. clearedBar' = clearedBar
  BY QuietCleared
<1>2. belowBar' = belowBar
  BY KeepsBelow
<1>3. openBar' = openBar
  BY DEF openBar
<1> QED
  BY <1>1, <1>2, <1>3 DEF Gate!gateVars

\* A refusal only ends a review.
LEMMA RejectStutters ==
  ASSUME TypeOK, ReviewInv, ExecutiveInv, FreshUnpinned, FreshUnpinned', [Next]_vars,
         exceptedBar' = exceptedBar,
         NEW u, NEW p \in Packages, NEW f \in Functions, DecideReject(u, p, f)
  PROVE  UNCHANGED Gate!gateVars
<1> DEFINE d == Decision(u, p, f, "reject")
<1>1. /\ status' = [status EXCEPT ![p] = "rejected"]
      /\ approvals' = approvals \cup {d}
      /\ MayDecide(u, p, f)
  BY DEF DecideReject
<1>2. status[p] \in {"pending_delivery_hr", "pending_finance_legal"}
  BY <1>1, DecisionContext
<1>3. d.verdict # "approve"
  BY DEF Decision
<1> HIDE DEF d
<1>4. clearedBar' = clearedBar
  BY <1>1, <1>3 DEF clearedBar, Approved
<1>5. belowBar' = belowBar
  BY <1>1, <1>2, KeepsBelow DEF TypeOK, StatusTypes
<1>6. openBar' = openBar
  BY <1>1, <1>2 DEF openBar, TypeOK, StatusTypes
<1> QED
  BY <1>4, <1>5, <1>6 DEF Gate!gateVars

\* Every step of the workflow is a step of the gate or leaves it as it is.
LEMMA StepMoves ==
  ASSUME TypeOK, ReviewInv, ReviewInv', ExecutiveInv, FreshUnpinned, FreshUnpinned', [Next]_vars
  PROVE  [Gate!Move]_(Gate!gateVars)
<1>1. CASE \E s \in Sessions : CeoCommit(s)
  <2>1. PICK s \in Sessions : CeoCommit(s)
    BY <1>1
  <2>2. txn[s].pkg \in Packages
    BY <2>1 DEF CeoCommit, TypeOK, RequestTypes
  <2> QED BY <2>1, <2>2, CeoExcepts DEF Gate!Move
<1>2. CASE ~\E s \in Sessions : CeoCommit(s)
  <2>1. exceptedBar' = exceptedBar
    BY <1>2, StepExcepted
  <2>2. ASSUME UNCHANGED <<status, approvals>> PROVE UNCHANGED Gate!gateVars
    BY <2>1, <2>2, OthersStutter
  <2>3. ASSUME approvals' = approvals, NEW targets \in SUBSET Packages, Void(targets),
               \A p \in targets : status[p] # "none", \A p, q \in targets : p = q
        PROVE  (\E p \in Packages : Gate!Close(p)) \/ UNCHANGED Gate!gateVars
    BY <2>1, <2>3, VoidCloses
  <2>4. ASSUME NEW u \in Owners, NEW p \in Packages, Submit(u, p) PROVE Gate!Enter(p)
    BY <2>1, <2>4, SubmitEnters
  <2>5. ASSUME NEW u, NEW p \in Packages, NEW f \in Functions, DecideApprove(u, p, f)
        PROVE  Gate!Clear(p, f) /\ f \in Stage1 \cup Stage2
    BY <2>1, <2>5, ApproveClears DEF Functions
  <2>6. ASSUME NEW u, NEW p \in Packages, NEW f \in Functions, DecideReject(u, p, f)
        PROVE  UNCHANGED Gate!gateVars
    BY <2>1, <2>6, RejectStutters
  <2>7. ASSUME NEW s, NEW p, NEW f, RouteCommit(s) \/ RepairCommit(s) \/ FinishOnBoard(p, f)
        PROVE  UNCHANGED <<status, approvals>>
    BY <2>7 DEF RouteCommit, RepairCommit, FinishOnBoard, reviewVars
  <2>8. ASSUME NEW s \in Sessions, ReleaseCommit(s)
        PROVE  txn[s].pkg \in Packages /\ Gate!Reopen(txn[s].pkg)
    BY <2>1, <2>8, ReleaseReopens DEF ReleaseCommit, TypeOK, RequestTypes
  <2> QED
    BY <1>2, <2>2, <2>3, <2>4, <2>5, <2>6, <2>7, <2>8, StepReviews DEF ExecutiveInv, Gate!Move
<1> QED
  BY <1>1, <1>2

\* The whole workflow, with every race of its handlers, implements the abstract
\* gate: functions clear in order and once, a package opens only when all five
\* have cleared it and, below a floor, the executive too.
THEOREM WorkflowImplementsGate == Spec => ImplementsGate
<1>1. ASSUME Init PROVE Gate!Start
  <2>1. /\ \A p \in Packages : status[p] = "none" /\ pkgGm[p] = 0 /\ exc[p] = NoException
        /\ approvals = {}
    BY <1>1 DEF Init
  <2>2. clearedBar = [p \in Packages |-> {}]
    <3>1. ASSUME NEW p \in Packages PROVE {f \in Functions : Approved(p, f)} = {}
      BY <2>1 DEF Approved
    <3> QED BY <3>1 DEF clearedBar
  <2>3. exceptedBar = [p \in Packages |-> FALSE]
    <3>1. ASSUME NEW p \in Packages PROVE (exc[p].decision = "approve") = FALSE
      BY <2>1 DEF NoException
    <3> QED BY <3>1, Zenon DEF exceptedBar
  <2>4. belowBar = {}
    BY <2>1 DEF belowBar
  <2>5. openBar = {}
    BY <2>1 DEF openBar
  <2> QED
    BY <2>2, <2>3, <2>4, <2>5 DEF Gate!Start
<1>2. TypeOK /\ ReviewInv /\ ReviewInv' /\ ExecutiveInv /\ FreshUnpinned /\ FreshUnpinned'
        /\ [Next]_vars => [Gate!Move]_(Gate!gateVars)
  BY StepMoves
<1> QED
  BY <1>1, <1>2, TypeCorrect, ReviewCorrect, ExecutiveCorrect, FreshRowsUnpinned, PTL
  DEF Spec, ImplementsGate, Gate!GateSpec
================================================================================
