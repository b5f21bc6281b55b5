-------------------------------- MODULE UploadJobs --------------------------------
(***************************************************************************)
(* SOW upload jobs: one row for each file's bytes (file_hash is unique),   *)
(* its dedupe, the upload that fills it, the pick that resumes it, and the *)
(* SOWs that come of it, beside the bulk import, which drives the same     *)
(* pipeline without a job.                                                 *)
(*                                                                         *)
(* An upload or a pick is one transaction.  Its first write takes the      *)
(* job's row, or the unique key of a new one, and keeps it to the commit;  *)
(* what it read before that, it read without a lock.  The statuses queued, *)
(* extracting, classifying, matching_client and deriving_gm are written    *)
(* and overwritten inside it: nobody else ever sees them.                  *)
(***************************************************************************)
EXTENDS Integers, FiniteSets

CONSTANTS
  Files,       \* contents of a file, known by their hash
  Ways,        \* ways uploads name the client: "matched" by the pipeline, "bound" by the caller
  MaxRequests, \* uploads, picks and imports begun
  MaxOpen,     \* of them at once
  MaxSows

ASSUME UploadAssumption ==
  /\ Ways \subseteq {"matched", "bound"}
  /\ MaxRequests \in Nat /\ MaxOpen \in Nat /\ MaxSows \in Nat

VARIABLES
  job,      \* file -> SowUploadJob
  sows,     \* SOWs with their version; a deleted one is gone
  requests, \* transactions in progress
  begun,    \* requests so far, and the ids of their job rows
  made      \* SOWs so far

vars == <<job, sows, requests, begun, made>>

\* row 0 is no row; sow 0 is no sow_version_id.
Job == [row : Nat, status : {"none", "needs_pick", "failed", "done"}, sow : Nat]
NoJob == [row |-> 0, status |-> "none", sow |-> 0]

Sow == [id : Nat, file : Files, via : {"matched", "bound", "pick", "import"}, archived : BOOLEAN]

\* seen is the job row that was read, detach that its SOW was archived; a result
\* is what the pipeline made of the file, with the SOW it duplicates.
Request == [id : Nat, file : Files, via : {"matched", "bound", "pick", "import"},
            step : {"read", "write", "resolved"}, seen : Nat, detach : BOOLEAN,
            result : {"none", "fail", "pick", "create", "duplicate"}, sow : Nat]

Init ==
  /\ job = [f \in Files |-> NoJob]
  /\ sows = {} /\ requests = {} /\ begun = 0 /\ made = 0

\* find_sow_by_hash: archived SOWs too.
Filed(f) == {n \in sows : n.file = f}
SowArchived(j) == \E n \in sows : n.id = j.sow /\ n.archived

\* Another transaction has written the row, or inserted its key.
Locked(f) == \E q \in requests : q.file = f /\ q.via \in Ways /\ q.step \in {"write", "resolved"}

Opened(f, via, step, result) ==
  [id |-> begun + 1, file |-> f, via |-> via, step |-> step, seen |-> job[f].row,
   detach |-> SowArchived(job[f]), result |-> result, sow |-> 0]

Begin(q) ==
  /\ begun < MaxRequests /\ Cardinality(requests) < MaxOpen
  /\ begun' = begun + 1
  /\ requests' = requests \cup {q}

Advance(q, next) == requests' = (requests \ {q}) \cup {next}
Leave(q) == requests' = requests \ {q}

(***************************************************************************)
(* POST /sows/upload and start_upload.                                     *)
(***************************************************************************)

\* A job that did not fail answers an upload of its bytes: 200, duplicate.
AnsweredAsDuplicate(f) == job[f].status \in {"needs_pick", "done"}

\* find_by_hash lets go of an archived SOW, and the router commits that.  (A SOW
\* that is gone has taken its job along: the foreign key holds.)
AnswerDuplicate(f) ==
  /\ AnsweredAsDuplicate(f) /\ SowArchived(job[f])
  /\ job' = [job EXCEPT ![f].sow = 0]
  /\ UNCHANGED <<sows, requests, begun, made>>

\* No job, or a failed one to run again; then the document is prepared.
ReadHash(f, way) ==
  /\ ~AnsweredAsDuplicate(f)
  /\ Begin(Opened(f, way, "read", "none"))
  /\ UNCHANGED <<job, sows, made>>

\* The row becomes queued.  Of two inserts the second violates the key; an
\* update of a row that is gone fails: both requests end (Abort).
TakeRow(q) ==
  /\ q.via \in Ways /\ q.step = "read"
  /\ ~Locked(q.file) /\ job[q.file].row = q.seen
  /\ Advance(q, [q EXCEPT !.step = "write"])
  /\ UNCHANGED <<job, sows, begun, made>>

Row(q) == IF q.seen = 0 THEN q.id ELSE q.seen
KeptSow(q) == IF q.detach THEN 0 ELSE job[q.file].sow

\* The job as the request leaves it.
Outcome(q, status, n) == [row |-> Row(q), status |-> status, sow |-> n]

\* The object cannot be stored: the router commits the failure.
StorageFails(q) ==
  /\ q.via \in Ways /\ q.step = "write"
  /\ job' = [job EXCEPT ![q.file] = Outcome(q, "failed", KeptSow(q))]
  /\ Leave(q)
  /\ UNCHANGED <<sows, begun, made>>

\* apply_pipeline looks for the hash first; a bound upload does not.
KnownSows(q) == IF q.via = "bound" THEN {} ELSE Filed(q.file)

\* "fail" stands for a business key that exists, an MSA or NDA, a binding that no
\* longer holds; "pick" for a client that cannot be told or a scanned document.
Resolve(q) ==
  /\ q.via \in Ways /\ q.step = "write"
  /\ \/ \E n \in KnownSows(q) :
          Advance(q, [q EXCEPT !.step = "resolved", !.result = "duplicate", !.sow = n.id])
     \/ /\ KnownSows(q) = {}
        /\ \E result \in {"fail", "create"} \cup (IF q.via = "bound" THEN {} ELSE {"pick"}) :
             Advance(q, [q EXCEPT !.step = "resolved", !.result = result])
  /\ UNCHANGED <<job, sows, begun, made>>

NewSow(q) == [id |-> made + 1, file |-> q.file, via |-> q.via, archived |-> FALSE]

\* The SOW of its own opportunity, or of the bound one.
Create(q) ==
  /\ made < MaxSows
  /\ made' = made + 1
  /\ sows' = sows \cup {NewSow(q)}

Finish(q) ==
  /\ q.via \in Ways /\ q.step = "resolved"
  /\ \/ /\ q.result = "create" /\ Create(q)
        /\ job' = [job EXCEPT ![q.file] = Outcome(q, "done", made + 1)]
     \/ /\ q.result = "duplicate" /\ \E n \in Filed(q.file) : n.id = q.sow
        /\ job' = [job EXCEPT ![q.file] = Outcome(q, "done", q.sow)]
        /\ UNCHANGED <<sows, made>>
     \/ /\ q.result \in {"pick", "fail"}
        /\ job' = [job EXCEPT ![q.file] =
             Outcome(q, IF q.result = "pick" THEN "needs_pick" ELSE "failed", KeptSow(q))]
        /\ UNCHANGED <<sows, made>>
  /\ Leave(q)
  /\ UNCHANGED begun

\* A document that is rejected, a refused write, a failure: nothing is kept.
Abort(q) ==
  /\ Leave(q)
  /\ UNCHANGED <<job, sows, begun, made>>

(***************************************************************************)
(* POST /sows/upload/jobs/{id}/pick and resume_after_pick.                 *)
(***************************************************************************)

\* The router reads the job to judge who may pick.
PickRead(f) ==
  /\ job[f].status = "needs_pick"
  /\ Begin(Opened(f, "pick", "read", "create"))
  /\ UNCHANGED <<job, sows, made>>

\* Fault: the job is not read again under its row lock.
StillWaits_AsRead(q) == TRUE

\* _live_upload_job: under its lock the row is there and nobody has picked.
StillWaits(q) == job[q.file].row = q.seen /\ job[q.file].status = "needs_pick"

\* A pick that comes late gets the job as it is, or a 409 (Abort).
Pick(q) ==
  /\ q.via = "pick"
  /\ ~Locked(q.file) /\ StillWaits(q)
  /\ Create(q)
  /\ job' = [job EXCEPT ![q.file] = [@ EXCEPT !.status = "done", !.sow = made + 1]]
  /\ Leave(q)
  /\ UNCHANGED begun

(***************************************************************************)
(* What else makes and unmakes SOWs.                                       *)
(***************************************************************************)

\* process_batch: a file whose hash is known is a duplicate; the others get a
\* SOW, which the batch commits at its end.
ImportRead(f) ==
  /\ Filed(f) = {}
  /\ Begin(Opened(f, "import", "resolved", "create"))
  /\ UNCHANGED <<job, sows, made>>

ImportCommit(q) ==
  /\ q.via = "import" /\ Create(q)
  /\ Leave(q)
  /\ UNCHANGED <<job, begun>>

Archive(n) ==
  /\ ~n.archived
  /\ sows' = (sows \ {n}) \cup {[n EXCEPT !.archived = TRUE]}
  /\ UNCHANGED <<job, requests, begun, made>>

\* request_sow_deletion takes the jobs that point at the SOW along.
Delete(n) ==
  /\ job[n.file].sow = n.id => ~Locked(n.file)
  /\ sows' = sows \ {n}
  /\ job' = [job EXCEPT ![n.file] = IF @.sow = n.id THEN NoJob ELSE @]
  /\ UNCHANGED <<requests, begun, made>>

Next ==
  \/ \E f \in Files :
       AnswerDuplicate(f) \/ PickRead(f) \/ ImportRead(f) \/ \E way \in Ways : ReadHash(f, way)
  \/ \E q \in requests :
       TakeRow(q) \/ StorageFails(q) \/ Resolve(q) \/ Finish(q) \/ Pick(q) \/ ImportCommit(q) \/ Abort(q)
  \/ \E n \in sows : Archive(n) \/ Delete(n)

Spec == Init /\ [][Next]_vars

(***************************************************************************)
(* Properties.                                                             *)
(***************************************************************************)

\* Every row keeps its shape; a job points at a SOW of its own file that exists.
TypeOK ==
  /\ job \in [Files -> Job]
  /\ sows \subseteq Sow /\ requests \subseteq Request
  /\ begun \in Nat /\ made \in Nat
  /\ \A n \in sows : n.id <= made
  /\ \A f \in Files : job[f].sow # 0 => \E n \in Filed(f) : n.id = job[f].sow

\* SOWs that a person or the pipeline filed, not a caller's binding or an import.
FiledByMatch(f) == {n \in Filed(f) : n.via \in {"matched", "pick"}}

\* However uploads of the same bytes overlap, fail, run again, are picked twice
\* and meet deletions, those whose client is matched or picked leave one SOW;
\* and while a job waits for a pick there is none yet.
UploadedOnce ==
  \A f \in Files :
    /\ \A m, n \in FiledByMatch(f) : m = n
    /\ job[f].status = "needs_pick" => FiledByMatch(f) = {}

(***************************************************************************)
(* What the code and its documents claim and the code does not keep.       *)
(***************************************************************************)

\* Bytes count as a duplicate only where the record is live (or waits for its
\* pick): after an archive the same file can be uploaded afresh.
DuplicatesAreLive ==
  \A f \in Files :
    AnsweredAsDuplicate(f) /\ job[f].status # "needs_pick" =>
      \E n \in Filed(f) : n.id = job[f].sow /\ ~n.archived

\* A repeated upload has one result, also when it names its deal.
OneResult == \A m, n \in sows : m.file = n.file /\ {m.via, n.via} \subseteq {"matched", "bound", "pick"} => m = n
===================================================================================
