---------------------------- MODULE SourceVersions ----------------------------
(***************************************************************************)
(* The sources a package pins: SOW versions (sow_extract, sow_lifecycle,   *)
(* the revise endpoint of sows_staffing) and GM models (delivery_model,    *)
(* commercial_models), with the change hook that voids the active package. *)
(***************************************************************************)
EXTENDS DealTables

\* Fault: the counter is raised once more by the caller.
NewVersion_CountedTwice == versionCounter + 2
NewVersion == versionCounter + 1

\* create_sow_version: under the opportunity lock, a pending version lands
\* and the active package is voided.  The version it replaces is left as it is.
CreateSowVersion ==
  /\ versionCounter < MaxSow
  /\ versionCounter' = NewVersion
  /\ versions' = versions \cup {NewVersion}
  /\ Void(VoidTargets)
  /\ UNCHANGED <<confirmed, discarded, supersededBy, gms, pinVars, reviewVars,
                 execVars, signVars, governance, txn>>

\* submit_sow, submit_confirmation: a version's scope is confirmed under the
\* opportunity lock.  A confirmation of the latest version that finds no model
\* of this SOW may create one, as create_gm_model_version does.
Confirm(v) ==
  /\ v \in versions
  /\ confirmed' = confirmed \cup {v}
  /\ governance' = "SOWDraft.confirmed"
  /\ \/ UNCHANGED <<gms, status, task>>
     \/ /\ \A w \in versions : w <= v
        /\ \A g \in DOMAIN gms : gms[g].sow = 0
        /\ Len(gms) < MaxGm
        /\ \E fl \in Outcomes : gms' = Append(gms, [sow |-> v, floor |-> fl])
        /\ Void(VoidTargets)
  /\ UNCHANGED <<versionCounter, versions, discarded, supersededBy, pinVars, reviewVars,
                 execVars, signVars, txn>>

\* create_gm_model_version: under the opportunity lock, a model linked to any
\* version, or to none, lands and the active package is voided.
CreateGm(v, fl) ==
  /\ Len(gms) < MaxGm
  /\ v \in versions \cup {0}
  /\ gms' = Append(gms, [sow |-> v, floor |-> fl])
  /\ Void(VoidTargets)
  /\ UNCHANGED <<sowVars, pinVars, reviewVars, execVars, signVars, governance, txn>>

\* The packages a new commercial model voids: those that pin its version.
\* Fault: a review on an unlinked model is taken not to price this version.
CommercialTargets_Linked(v) == {p \in VoidTargets : pkgSow[p] = v /\ gms[pkgGm[p]].sow = v}
CommercialTargets(v) == {p \in VoidTargets : pkgSow[p] = v}

\* save_commercial_model: only on an operative version that no signed contract
\* rests on, and it voids the active package only if that pins this version.
SaveCommercial(v, fl) ==
  /\ Len(gms) < MaxGm
  /\ Operative(v)
  /\ ~SignedBasis(v)
  /\ gms' = Append(gms, [sow |-> v, floor |-> fl])
  /\ Void(CommercialTargets(v))
  /\ UNCHANGED <<sowVars, pinVars, reviewVars, execVars, signVars, governance, txn>>

\* create_sow_revision, up to the model call: the base is the current version,
\* if the SOW has one.  No lock is taken and no package is looked at.
ReviseRead(s) ==
  /\ "revise" \in Ops
  /\ txn[s] = Idle
  /\ versionCounter > 0
  /\ \E base \in VersionIds \cup {0} :
       /\ IF base = 0 THEN \A v \in VersionIds : ~Operative(v) ELSE IsCurrent(base)
       /\ txn' = [txn EXCEPT ![s] = Request("revise", 0, base, NoOne, "none")]
  /\ UNCHANGED <<sourceVars, pinVars, reviewVars, execVars, signVars, status, task, governance>>

\* create_sow_revision, after the model call: the version lands and supersedes
\* the base read earlier unless a signed contract rests on it.
ReviseCommit(s) ==
  LET base == txn[s].row IN
  /\ txn[s].op = "revise"
  /\ base = 0 \/ base \in versions
  /\ versionCounter < MaxSow
  /\ versionCounter' = NewVersion
  /\ versions' = versions \cup {NewVersion}
  /\ supersededBy' = [v \in VersionIds |->
       IF v = base /\ ~SignedBasis(v) THEN NewVersion ELSE supersededBy[v]]
  /\ txn' = [txn EXCEPT ![s] = Idle]
  /\ UNCHANGED <<confirmed, discarded, gms, pinVars, reviewVars, execVars, signVars,
                 status, task, governance>>

\* was_ever_submitted, negated: voided and rejected packages count.
\* Fault: only live packages count as submissions.
NeverSubmitted_Live(v) == \A p \in Packages : Live(p) => pkgSow[p] # v
NeverSubmitted(v) == \A p \in Packages : pkgSow[p] # v

\* delete_version: only a version no package ever pinned; the rows it
\* superseded point nowhere again.
DeleteVersion(v) ==
  /\ "delete" \in Ops
  /\ v \in versions
  /\ NeverSubmitted(v)
  /\ versions' = versions \ {v}
  /\ confirmed' = confirmed \ {v}
  /\ discarded' = discarded \ {v}
  /\ supersededBy' = [w \in VersionIds |->
       IF w = v \/ supersededBy[w] = v THEN 0 ELSE supersededBy[w]]
  /\ UNCHANGED <<versionCounter, gms, pinVars, reviewVars, execVars, signVars,
                 status, task, governance, txn>>

\* discard_version: a soft delete of any version, submitted or not.
DiscardVersion(v) ==
  /\ "discard" \in Ops
  /\ v \in versions \ discarded
  /\ discarded' = discarded \cup {v}
  /\ UNCHANGED <<versionCounter, versions, confirmed, supersededBy, gms, pinVars, reviewVars,
                 execVars, signVars, status, task, governance, txn>>

SourceStep ==
  \/ CreateSowVersion
  \/ \E v \in VersionIds : Confirm(v) \/ DeleteVersion(v) \/ DiscardVersion(v)
  \/ \E v \in VersionIds \cup {0}, fl \in Outcomes : CreateGm(v, fl)
  \/ \E v \in VersionIds, fl \in Outcomes : SaveCommercial(v, fl)
  \/ \E s \in Sessions : ReviseRead(s) \/ ReviseCommit(s)
===============================================================================
