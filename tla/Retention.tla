-------------------------------- MODULE Retention --------------------------------
(***************************************************************************)
(* Deletion and the outbox together, with the crashes of their workers.    *)
(***************************************************************************)
EXTENDS Outbox, Deletion

WorkerCrash ==
  /\ crashes < MaxCrashes
  /\ crashes' = crashes + 1
  /\ \/ \E w \in Senders : SenderCrash(w) /\ UNCHANGED <<sourceVars, jobVars>>
     \/ \E c \in Cleaners : CleanerCrash(c) /\ UNCHANGED <<mails, queueing, sender>>

Next == OutboxStep \/ DeletionStep \/ WorkerCrash

\* Both workers are started on a schedule, and time passes for every row.
Fairness ==
  /\ \A w \in Senders : WF_vars(SenderStep(w) /\ UNCHANGED <<sourceVars, jobVars, crashes>>)
  /\ \A c \in Cleaners : WF_vars(CleanerStep(c) /\ UNCHANGED <<mails, queueing, sender, crashes>>)
  /\ \A n \in Notes : WF_vars(BackoffEnds(n) /\ UNCHANGED <<sourceVars, jobVars, crashes>>)
  /\ \A x \in Subjects : SF_vars(JobBackoffEnds(x) /\ UNCHANGED <<mails, queueing, sender, crashes>>)

Spec == Init /\ [][Next]_vars
FairSpec == Spec /\ Fairness

(***************************************************************************)
(* Safety.                                                                 *)
(***************************************************************************)

\* Deletion leaves nothing to send: a producer either committed before the
\* deletion read the outbox or is refused (queue_notification, lock_source).
NothingPendingOfDeleted ==
  \A n \in Notes : note[n].status = "pending" => Source[n] \in live

\* A mail leaves only for a row that is pending and a source that exists, even
\* when the batch was read before the row was sent or its source deleted
\* (notification_sender._handle_row).
OnlyPendingMailed ==
  [][\A n \in Notes : mails'[n] # mails[n] =>
       note[n].status = "pending" /\ Source[n] \in live]_vars

\* Overlapping runs do not mail a row twice: every mail but one in flight is an
\* attempt on the row or was cut off by a crash (mark_sent, mark_failed).
MailsAccountedFor ==
  \A n \in Notes :
    LET inFlight == IF \E w \in Senders : sender[w].at = n THEN 1 ELSE 0
    IN  mails[n] <= note[n].attempts + crashes + inFlight

\* A deletion reports done only when all it waits for is done, through
\* failures, retries and overlapping cleanup runs (process_deletion_jobs,
\* parent_deletion._finish).
ParentsFinishLast ==
  \A x \in Subjects : job[x].status = "done" =>
    \A y \in job[x].children : job[y].status = "done"

(***************************************************************************)
(* Liveness.                                                               *)
(***************************************************************************)

\* Every queued row reaches an end: sent, given up, suppressed or deleted.
NotesSettle ==
  \A n \in Notes : note[n].status = "pending" ~> note[n].status # "pending"

\* Every deletion job is done, or it or one it waits for used up its attempts.
Exhausted(x) == \E y \in Tree(x) : job[y].attempts = MaxAttempts
JobsSettle ==
  \A x \in Subjects : job[x].status \in Unfinished ~> job[x].status = "done" \/ Exhausted(x)

(***************************************************************************)
(* What the code says of itself and does not do.                           *)
(***************************************************************************)

\* deletion_storage: cleanup protects the objects surviving rows refer to.
ReferencedObjectsKept ==
  [][\A k \in stored \ stored' : ~KeyIsReferenced(k)]_vars
==================================================================================
