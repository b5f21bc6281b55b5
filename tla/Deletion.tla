-------------------------------- MODULE Deletion --------------------------------
(***************************************************************************)
(* Deletion of a SOW, a deal or a client: one transaction removes the rows *)
(* of the subject and of all it owns, fences them, and leaves one job per  *)
(* subject for the objects only they referred to.  A scheduled worker      *)
(* drains the jobs, children before parents.                               *)
(***************************************************************************)
EXTENDS RetentionTables

(***************************************************************************)
(* create_sow_version with a key the caller names: SOWs of one client may  *)
(* come to share an object.  Holds the deal's and the SOW's row lock.      *)
(***************************************************************************)
ClaimKey(x, k) ==
  /\ x \in live \cap Sows /\ ~BeingDeleted(x)
  /\ k \in stored \ files[x]
  /\ files' = [files EXCEPT ![x] = @ \cup {k}]
  /\ UNCHANGED <<live, jobVars, note>>

(***************************************************************************)
(* request_sow_deletion, request_opportunity_deletion,                     *)
(* request_client_deletion: locks on the row and the sources, and the read *)
(* of the keys other SOWs hold, which may be old when the request commits. *)
(***************************************************************************)
RequestDeletion(x) ==
  /\ x \in live
  /\ \A y \in Tree(x) : ~BeingDeleted(y) /\ \A n \in queueing : Source[n] # y
  /\ request' = [request EXCEPT ![x] =
       [open |-> TRUE, others |-> UNION {files[y] : y \in (live \cap Sows) \ Tree(x)}]]
  /\ UNCHANGED <<sourceVars, job, cleaner, stored, retries, note>>

\* The subject that lists a key: the last of its holders to be deleted, and a
\* parent is deleted after all it owns.
LastHolder(k, x, holders) ==
  x \in holders /\ k \in files[x] /\ \A y \in holders : k \in files[y] => x \notin Below[y]

CommitDeletion(x) ==
  LET gone == Tree(x) \cap live
      survivors == live \ gone
      Claimed(k) == \E y \in survivors : k \in files[y]
      \* request_sow_deletion drops what others held, then what is still held;
      \* _finish of a parent only the latter.
      Dropped(k, y) == Claimed(k) \/ (y \in Sows /\ k \in request[x].others)
      held == UNION {files[y] : y \in gone}
  IN
  /\ request[x].open
  /\ \A w \in Senders : sender[w].at # None => Source[sender[w].at] \notin gone
  /\ \E by \in [held -> gone] :
       LET Objects(y) == {k \in held : by[k] = y /\ ~Dropped(k, y)}
           done == {y \in gone : \A z \in Tree(y) \cap gone : Objects(z) = {}}
       IN
       /\ \A k \in held : LastHolder(k, by[k], gone)
       /\ job' = [y \in Subjects |-> IF y \notin gone THEN job[y] ELSE
            [status |-> IF y \in done THEN "done" ELSE "pending", attempts |-> 0,
             waits |-> FALSE, objects |-> Objects(y), children |-> ChildrenOf(y) \cap gone]]
  /\ live' = survivors
  /\ files' = [y \in Subjects |-> IF y \in gone THEN {} ELSE files[y]]
  /\ note' = [n \in Notes |-> IF Source[n] \in gone /\ note[n].status # "none"
                              THEN [note[n] EXCEPT !.status = "deleted", !.waits = FALSE]
                              ELSE note[n]]
  /\ request' = [request EXCEPT ![x] = NoRequest]
  /\ UNCHANGED <<cleaner, stored, retries>>

\* The request fails and rolls back.
AbortDeletion(x) ==
  /\ request[x].open
  /\ request' = [request EXCEPT ![x] = NoRequest]
  /\ UNCHANGED <<sourceVars, job, cleaner, stored, retries, note>>

(***************************************************************************)
(* deletion_cleanup.process_deletion_jobs.                                 *)
(***************************************************************************)
Held(x) == \E c \in Cleaners : cleaner[c].job = x

\* Fault: no limit on attempts.
Due_NoLimit(x) == job[x].status \in Unfinished /\ ~job[x].waits /\ ~Held(x)

\* Fault: a failed job is not taken up again.
Due_PendingOnly(x) ==
  /\ job[x].status = "pending" /\ job[x].attempts < MaxAttempts
  /\ ~job[x].waits /\ ~Held(x)

\* The next job of the queue, FOR UPDATE SKIP LOCKED.
Due(x) ==
  /\ job[x].status \in Unfinished /\ job[x].attempts < MaxAttempts
  /\ ~job[x].waits /\ ~Held(x)

\* Fault: only failed children hold a job back.
ChildrenDone_NotFailed(x) == \A y \in job[x].children : job[y].status # "failed"

ChildrenDone(x) == \A y \in job[x].children : job[y].status = "done"
ChildFailed(x) == \E y \in job[x].children : job[y].status = "failed"

\* A job whose children are not done is put off, and fails with them, at no
\* cost in attempts.
PutOff(c, x) ==
  /\ cleaner[c] = NoCleanup /\ Due(x) /\ ~ChildrenDone(x)
  /\ job' = [job EXCEPT ![x].waits = TRUE,
                        ![x].status = IF ChildFailed(x) THEN "failed" ELSE @]
  /\ UNCHANGED <<sourceVars, request, cleaner, stored, retries, note>>

TakeJob(c, x) ==
  /\ cleaner[c] = NoCleanup /\ Due(x) /\ ChildrenDone(x)
  /\ cleaner' = [cleaner EXCEPT ![c] = [job |-> x, todo |-> job[x].objects, free |-> None]]
  /\ UNCHANGED <<sourceVars, job, request, stored, retries, note>>

\* The check of one object, and its removal in the steps after it.
CheckKey(c, k) ==
  /\ cleaner[c].free = None /\ k \in cleaner[c].todo
  /\ cleaner' = [cleaner EXCEPT ![c].todo = IF KeyIsReferenced(k) THEN @ \ {k} ELSE @,
                                ![c].free = IF KeyIsReferenced(k) THEN None ELSE k]
  /\ UNCHANGED <<sourceVars, job, request, stored, retries, note>>

RemoveObject(c) ==
  LET k == cleaner[c].free IN
  /\ k # None
  /\ stored' = stored \ {k}
  /\ cleaner' = [cleaner EXCEPT ![c].todo = @ \ {k}, ![c].free = None]
  /\ UNCHANGED <<sourceVars, job, request, retries, note>>

\* Storage fails, perhaps after it removed the object.
RemovalFails(c) ==
  LET x == cleaner[c].job
      k == cleaner[c].free
  IN
  /\ k # None
  /\ stored' \in {stored, stored \ {k}}
  /\ job' = [job EXCEPT ![x].status = "failed", ![x].attempts = @ + 1, ![x].waits = TRUE]
  /\ cleaner' = [cleaner EXCEPT ![c] = NoCleanup]
  /\ UNCHANGED <<sourceVars, request, retries, note>>

FinishJob(c) ==
  LET x == cleaner[c].job IN
  /\ x # None /\ cleaner[c].todo = {}
  /\ job' = [job EXCEPT ![x].status = "done", ![x].attempts = @ + 1,
                        ![x].waits = FALSE, ![x].objects = {}]
  /\ cleaner' = [cleaner EXCEPT ![c] = NoCleanup]
  /\ UNCHANGED <<sourceVars, request, stored, retries, note>>

\* next_attempt_at passes.  A run drains what is due before anything it put
\* off, 30 seconds or more, is due again.
JobBackoffEnds(x) ==
  /\ job[x].waits /\ \A y \in Subjects : ~Due(y)
  /\ job' = [job EXCEPT ![x].waits = FALSE]
  /\ UNCHANGED <<sourceVars, request, cleaner, stored, retries, note>>

\* The cleanup task dies: what storage did stays done, the row does not change.
CleanerCrash(c) ==
  /\ cleaner[c] # NoCleanup
  /\ cleaner' = [cleaner EXCEPT ![c] = NoCleanup]
  /\ UNCHANGED <<sourceVars, job, request, stored, retries, note>>

(***************************************************************************)
(* retry_deletion_job: the job and every job it waits for, however deep,   *)
(* under their row locks, start over unless they are done.                 *)
(***************************************************************************)
Linked(y) == \E x \in Subjects : y \in job[x].children
Retried(x) == {x} \cup {y \in Below[x] : \A z \in Below[x] : y \in Tree(z) => Linked(z)}

RetryDeletion(x) ==
  /\ job[x].status # "none" /\ retries < MaxRetries
  /\ \E y \in Retried(x) : job[y].status # "done"
  /\ \A y \in Retried(x) : ~Held(y)
  /\ job' = [y \in Subjects |->
       IF y \in Retried(x) /\ job[y].status # "done"
       THEN [job[y] EXCEPT !.status = "pending", !.attempts = 0, !.waits = FALSE]
       ELSE job[y]]
  /\ retries' = retries + 1
  /\ UNCHANGED <<sourceVars, request, cleaner, stored, note>>

CleanerStep(c) ==
  \/ \E x \in Subjects : PutOff(c, x) \/ TakeJob(c, x)
  \/ \E k \in Keys : CheckKey(c, k)
  \/ RemoveObject(c) \/ RemovalFails(c) \/ FinishJob(c)

DeletionStep ==
  /\ \/ \E x \in Subjects :
          \/ \E k \in Keys : ClaimKey(x, k)
          \/ RequestDeletion(x) \/ CommitDeletion(x) \/ AbortDeletion(x)
          \/ JobBackoffEnds(x) \/ RetryDeletion(x)
     \/ \E c \in Cleaners : CleanerStep(c)
  /\ UNCHANGED <<mails, queueing, sender, crashes>>
=================================================================================
