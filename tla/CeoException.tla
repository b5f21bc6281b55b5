----------------------------- MODULE CeoException -----------------------------
(***************************************************************************)
(* The executive exception of a package below a margin floor:              *)
(* ceo_exception.py and the evidence of its conditions.  draft_for_package *)
(* is part of the decision that completes the functional review.           *)
(***************************************************************************)
EXTENDS DealTables

\* set_rationale: the owner writes the business case until it is decided.
SetRationale(p) ==
  /\ exc[p].drafted
  /\ exc[p].decision = "none"
  /\ exc' = [exc EXCEPT ![p].rationale = TRUE]
  /\ UNCHANGED <<sourceVars, pinVars, reviewVars, lapsed, evidence, signVars, status,
                 task, governance, txn>>

\* Fault: an approval needs no written rationale.
MayExcept_NoCase(p, u, arg) ==
  /\ exc[p].drafted
  /\ exc[p].decision = "none"
  /\ status[p] = "pending_ceo_exception"
  /\ submitter[p] # u

\* The guards of decide: only a refusal needs no written rationale.
MayExcept(p, u, arg) ==
  /\ exc[p].drafted
  /\ exc[p].decision = "none"
  /\ arg = "reject" \/ exc[p].rationale
  /\ status[p] = "pending_ceo_exception"
  /\ submitter[p] # u

\* decide, its checks: the exception and the package are read without a lock.
\* return_for_changes changes the same rows as reject.
CeoRead(s, p, u, arg) ==
  /\ "ceo" \in Ops
  /\ txn[s] = Idle
  /\ MayExcept(p, u, arg)
  /\ txn' = [txn EXCEPT ![s] = Request("ceo", p, 0, u, arg)]
  /\ UNCHANGED <<sourceVars, pinVars, reviewVars, execVars, signVars, status, task, governance>>

TermsOf(arg) ==
  CASE arg = "approve_conditions" -> {"conditions"}
    [] arg = "approve_until" -> {"until"}
    [] OTHER -> {}

\* decide, its writes: columns are set from what was read, so a null term that
\* stays null is not written, terms add up, and the rest replaces what is there.
CeoCommit(s) ==
  LET p == txn[s].pkg
      verdict == IF txn[s].arg = "reject" THEN "reject" ELSE "approve" IN
  /\ txn[s].op = "ceo"
  /\ exc' = [exc EXCEPT ![p].decision = verdict, ![p].by = txn[s].who,
                        ![p].terms = @ \cup TermsOf(txn[s].arg)]
  /\ status' = [status EXCEPT ![p] = IF verdict = "approve" THEN "ready_to_sign" ELSE "rejected"]
  /\ task' = [task EXCEPT ![p]["executive"] = IF @ \in OpenTask THEN "closed" ELSE @]
  /\ governance' = IF verdict = "reject" THEN "SOWDraft" ELSE governance
  /\ txn' = [txn EXCEPT ![s] = Idle]
  /\ UNCHANGED <<sourceVars, pinVars, reviewVars, lapsed, evidence, signVars>>

\* The day after valid_until begins.
Lapse(p) ==
  /\ exc[p].decision = "approve"
  /\ "until" \in exc[p].terms
  /\ lapsed' = lapsed \cup {p}
  /\ UNCHANGED <<sourceVars, pinVars, reviewVars, exc, evidence, signVars, status, task,
                 governance, txn>>

\* condition_evidence: once per package, while it is ready to sign.
RecordEvidence(p) ==
  /\ status[p] = "ready_to_sign"
  /\ "conditions" \in exc[p].terms
  /\ p \notin evidence
  /\ evidence' = evidence \cup {p}
  /\ UNCHANGED <<sourceVars, pinVars, reviewVars, exc, lapsed, signVars, status, task,
                 governance, txn>>

ExecutiveStep ==
  \/ \E p \in Packages : SetRationale(p) \/ Lapse(p) \/ RecordEvidence(p)
  \/ \E s \in Sessions, p \in Packages, u \in Deciders, arg \in CeoArgs : CeoRead(s, p, u, arg)
  \/ \E s \in Sessions : CeoCommit(s)
===============================================================================
