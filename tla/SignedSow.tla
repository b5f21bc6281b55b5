------------------------------- MODULE SignedSow -------------------------------
(***************************************************************************)
(* Signature and release: signed_sow.py and its router, the release gate   *)
(* of handoff.py, delivery_acceptance.py, and the rows release opens.      *)
(***************************************************************************)
EXTENDS DealTables

\* require_signature_eligibility.
Eligible(p) ==
  exc[p].decision = "approve" =>
    /\ p \notin lapsed
    /\ "conditions" \in exc[p].terms => p \in evidence

PinnedOperative(p) == supersededBy[pkgSow[p]] = 0 /\ pkgSow[p] \notin discarded
AwaitsSignature(p) == status[p] = "ready_to_sign" /\ pkgSuper[p] = 0
IsLatestUpload(i) == \A j \in DOMAIN uploads : uploads[j].pkg = uploads[i].pkg => j <= i

NewUpload(p) == Append(uploads, [pkg |-> p, status |-> "pending", released |-> FALSE])

\* upload_signed_file: the checks are repeated under the opportunity's and the
\* package's row locks, so they still hold when the upload lands.
UploadFile(p) ==
  /\ Len(uploads) < MaxUpload
  /\ AwaitsSignature(p)
  /\ Eligible(p)
  /\ uploads' = NewUpload(p)
  /\ UNCHANGED <<sourceVars, pinVars, reviewVars, execVars, accepted, mailed, releases,
                 churned, pkgSuper, status, task, governance, txn>>

\* create_upload_endpoint: the same checks without a lock.
UploadRead(s, p) ==
  /\ "upload" \in Ops
  /\ txn[s] = Idle
  /\ AwaitsSignature(p)
  /\ Eligible(p)
  /\ txn' = [txn EXCEPT ![s] = Request("upload", p, 0, NoOne, "none")]
  /\ UNCHANGED <<sourceVars, pinVars, reviewVars, execVars, signVars, status, task, governance>>

UploadCommit(s) ==
  /\ txn[s].op = "upload"
  /\ Len(uploads) < MaxUpload
  /\ uploads' = NewUpload(txn[s].pkg)
  /\ txn' = [txn EXCEPT ![s] = Idle]
  /\ UNCHANGED <<sourceVars, pinVars, reviewVars, execVars, accepted, mailed, releases,
                 churned, pkgSuper, status, task, governance>>

\* _require_current_callback, then the model call of verify (or nothing for
\* mark_declined and mark_expired).  A result equal to the status read leaves
\* the column unwritten.
CallbackRead(s, i, result) ==
  LET p == uploads[i].pkg IN
  /\ "callback" \in Ops
  /\ txn[s] = Idle
  /\ IsLatestUpload(i)
  /\ AwaitsSignature(p)
  /\ PinnedOperative(p)
  /\ txn' = [txn EXCEPT ![s] = Request("callback", p, i, NoOne,
                                 IF result = uploads[i].status THEN "same" ELSE result)]
  /\ UNCHANGED <<sourceVars, pinVars, reviewVars, execVars, signVars, status, task, governance>>

\* The writes of verify, mark_declined and mark_expired.
CallbackCommit(s) ==
  /\ txn[s].op = "callback"
  /\ uploads' = [uploads EXCEPT ![txn[s].row].status =
       IF txn[s].arg = "same" THEN @ ELSE txn[s].arg]
  /\ txn' = [txn EXCEPT ![s] = Idle]
  /\ UNCHANGED <<sourceVars, pinVars, reviewVars, execVars, accepted, mailed, releases,
                 churned, pkgSuper, status, task, governance>>

\* delivery_acceptance.record: one row per package, at any stage of its life.
Accept(p) ==
  /\ Live(p)
  /\ pkgSuper[p] = 0
  /\ p \notin accepted
  /\ accepted' = accepted \cup {p}
  /\ UNCHANGED <<sourceVars, pinVars, reviewVars, execVars, uploads, mailed, releases,
                 churned, pkgSuper, status, task, governance, txn>>

\* Fault: the gate forgets the delivery acceptance.
ReleaseGate_NotAccepted(i) ==
  LET p == uploads[i].pkg IN
  /\ Approved(p, "delivery")
  /\ uploads[i].status = "verified"
  /\ Eligible(p)
  /\ AwaitsSignature(p)

\* check_release_gate.
ReleaseGate(i) ==
  LET p == uploads[i].pkg IN
  /\ Approved(p, "delivery")
  /\ uploads[i].status = "verified"
  /\ p \in accepted
  /\ Eligible(p)
  /\ AwaitsSignature(p)

\* release, up to the SES fan-out: the gate is read without a lock and the
\* mail leaves before anything is written.  Nobody may be addressed, and a
\* refused mailing is swallowed.
ReleaseRead(s, i) ==
  LET p == uploads[i].pkg IN
  /\ "release" \in Ops
  /\ txn[s] = Idle
  /\ IsLatestUpload(i)
  /\ ReleaseGate(i)
  /\ PinnedOperative(p)
  /\ \/ mailed' = mailed
     \/ /\ mailed[p] < MaxMail
        /\ mailed' = [mailed EXCEPT ![p] = @ + 1]
  /\ txn' = [txn EXCEPT ![s] = Request("release", p, i, NoOne, "none")]
  /\ UNCHANGED <<sourceVars, pinVars, reviewVars, execVars, uploads, accepted, releases,
                 churned, pkgSuper, status, task, governance>>

\* Fault: only packages submitted earlier count as prior contracts.
PriorContracts_Older(p) ==
  {q \in Packages : q < p /\ status[q] = "released" /\ pkgSuper[q] = 0 /\ pkgSow[q] # pkgSow[p]}

\* Released, unsuperseded packages of this opportunity on another version.
PriorContracts(p) ==
  {q \in Packages : q # p /\ status[q] = "released" /\ pkgSuper[q] = 0 /\ pkgSow[q] # pkgSow[p]}

\* release, its writes, serialised by the audit lock: kickoff and billing
\* tasks, a renewal and the project, the contracts this one replaces and
\* their versions, and mark_released on the status read at the start.
ReleaseCommit(s) ==
  LET p == txn[s].pkg
      prior == PriorContracts(p) IN
  /\ txn[s].op = "release"
  /\ releases' = [releases EXCEPT ![p] = @ + 1]
  /\ pkgSuper' = [q \in Packages |-> IF q \in prior THEN p ELSE pkgSuper[q]]
  /\ supersededBy' = [v \in VersionIds |->
       IF supersededBy[v] = 0 /\ \E q \in prior : pkgSow[q] = v
       THEN pkgSow[p] ELSE supersededBy[v]]
  /\ uploads' = [uploads EXCEPT ![txn[s].row].released = TRUE]
  /\ status' = [status EXCEPT ![p] = "released"]
  /\ txn' = [txn EXCEPT ![s] = Idle]
  /\ UNCHANGED <<versionCounter, versions, confirmed, discarded, gms, pinVars, reviewVars,
                 execVars, accepted, mailed, churned, task, governance>>

\* mark_churn: a renewal a release opened runs out with no extension.
MarkChurn ==
  /\ \E p \in Packages : releases[p] > 0
  /\ churned' = TRUE
  /\ UNCHANGED <<sourceVars, pinVars, reviewVars, execVars, uploads, accepted, mailed,
                 releases, pkgSuper, status, task, governance, txn>>

SignatureStep ==
  \/ \E p \in Packages : UploadFile(p) \/ Accept(p)
  \/ \E s \in Sessions, p \in Packages : UploadRead(s, p)
  \/ \E s \in Sessions, i \in DOMAIN uploads :
       \/ ReleaseRead(s, i)
       \/ \E result \in Results : CallbackRead(s, i, result)
  \/ \E s \in Sessions : UploadCommit(s) \/ CallbackCommit(s) \/ ReleaseCommit(s)
  \/ MarkChurn
===============================================================================
