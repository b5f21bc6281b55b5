-------------------------------- MODULE DealScan --------------------------------
(***************************************************************************)
(* The nightly scan of all deals, also started by hand.  One SyncStatus    *)
(* row carries a lease, a generation and a cursor, so that a run may       *)
(* resume what another left, and only the lease's owner writes.  HubSpot   *)
(* is read outside the transactions: a page, its record writes and the     *)
(* cursor commit together, and a deal missing from every page is archived  *)
(* only on HubSpot's word that it was deleted.                             *)
(*                                                                         *)
(* A lease token is the run that holds it: a run takes one lease and ends. *)
(* Time is what its tests see: the lease is live or expired, the scan is   *)
(* older than SCAN_RESUME_MAX_AGE or not.                                  *)
(***************************************************************************)
EXTENDS HubspotTables

Open == {"scanning", "finalizing", "failed"}

Set(r, field) == run' = [run EXCEPT ![r] = field]
Idle(r) == Set(r, IdleRun)

\* _owned_scan, with _assert_mapping left open: token, lease and phase, under
\* the row's lock.
Owns(r, phases) == scan.holder = r /\ scan.live /\ scan.phase \in phases

(***************************************************************************)
(* Starting: the refusals of the open scan are read, then the row is       *)
(* locked and the lease taken.                                             *)
(***************************************************************************)

\* refused_in_open_scan, without a lock.
StartRun(r) ==
  /\ run[r].step = "idle"
  /\ Set(r, [IdleRun EXCEPT !.step = "acquire",
                            !.refusedBefore = scan.phase \in Open /\ scan.refused])
  /\ UNCHANGED <<crm, mirror, touched, budget, intakeVars, scan, seen, atStart>>

LeaseTaken == scan.holder # None /\ scan.live

\* acquire_scan raises: the lease is taken.
RefuseRun(r) ==
  /\ run[r].step = "acquire" /\ LeaseTaken
  /\ Idle(r)
  /\ UNCHANGED <<crm, mirror, touched, budget, intakeVars, scan, seen, atStart>>

\* Fault: refusals of earlier pages do not keep a scan from being resumed.
Resumable_Refused(r) == scan.phase \in Open /\ ~scan.old

\* Fault: a scan is resumed at any age.
Resumable_AnyAge(r) == scan.phase \in Open /\ ~run[r].refusedBefore

Resumable(r) == scan.phase \in Open /\ ~scan.old /\ ~run[r].refusedBefore

BeginGeneration(r) ==
  /\ run[r].step = "acquire" /\ ~LeaseTaken /\ ~Resumable(r)
  /\ scan' = [NoScan EXCEPT !.phase = "scanning", !.holder = r, !.live = TRUE]
  /\ seen' = {} /\ touched' = {}
  /\ atStart' = [d \in Deals |-> IF crm[d].alive THEN crm[d].version ELSE 0]
  /\ Set(r, [IdleRun EXCEPT !.step = "page"])
  /\ UNCHANGED <<crm, mirror, budget, intakeVars>>

\* A failed scan goes on scanning from its cursor; one that was finalizing
\* when its run died goes on finalizing.
ResumeScan(r) ==
  /\ run[r].step = "acquire" /\ ~LeaseTaken /\ Resumable(r)
  /\ scan' = [scan EXCEPT !.phase = IF @ = "failed" THEN "scanning" ELSE @,
                          !.holder = r, !.live = TRUE]
  /\ Set(r, [IdleRun EXCEPT !.step = IF scan.phase = "finalizing" THEN "list" ELSE "page",
                            !.at = scan.cursor, !.overtaken = run[r].overtaken])
  /\ UNCHANGED <<crm, mirror, touched, budget, intakeVars, seen, atStart>>

(***************************************************************************)
(* One page.                                                               *)
(***************************************************************************)
Listed(p) == {d \in Deals : PageOf[d] = p /\ crm[d].alive}

ReadPage(r) ==
  /\ run[r].step = "page"
  /\ Set(r, [run[r] EXCEPT !.step = "write", !.page = [d \in Deals |->
       IF d \in Listed(run[r].at) THEN [version |-> crm[d].version, owner |-> crm[d].owner] ELSE Nothing]])
  /\ UNCHANGED <<crm, mirror, touched, budget, intakeVars, scan, seen, atStart>>

OnPage(r) == {d \in Deals : run[r].page[d] # Nothing}

\* checkpoint_scan: the scan is this run's, the cursor is where the run read
\* it, and the next page's cursor is new in this generation.
\* Fault: the last page is not told.
LastPage_Missed(r) == FALSE

LastPage(r) == run[r].at = Pages
CursorRepeats(r) == ~LastPage(r) /\ run[r].at + 1 \in scan.committed
MayCheckpoint(r) == Owns(r, {"scanning"}) /\ scan.cursor = run[r].at /\ ~CursorRepeats(r)

\* A run that is about to resume has read the refusals before this page's.
Overtake(rs, refused) ==
  [q \in Runs |-> IF refused # {} /\ rs[q].step = "acquire" THEN [rs[q] EXCEPT !.overtaken = TRUE] ELSE rs[q]]

\* Each deal in its savepoint: one that is refused is counted and still marked
\* seen.
CommitPage(r) ==
  /\ run[r].step = "write" /\ MayCheckpoint(r)
  /\ \E refused \in SUBSET OnPage(r) :
       LET written == {d \in OnPage(r) \ refused : Accepts(mirror[d], run[r].page[d])} IN
         /\ budget.refusals + Cardinality(refused) <= MaxRefusals
         /\ budget' = [budget EXCEPT !.refusals = @ + Cardinality(refused)]
         /\ mirror' = [d \in Deals |-> IF d \in written THEN Upserted(mirror[d], run[r].page[d]) ELSE mirror[d]]
         /\ touched' = touched \cup written
         /\ seen' = seen \cup {d \in OnPage(r) : Exists(mirror'[d])}
         /\ scan' = [scan EXCEPT !.phase = IF LastPage(r) THEN "finalizing" ELSE "scanning",
                                 !.cursor = IF LastPage(r) THEN 1 ELSE @ + 1,
                                 !.committed = IF LastPage(r) THEN @ ELSE @ \cup {run[r].at + 1},
                                 !.refused = @ \/ refused # {}]
         /\ run' = Overtake([run EXCEPT ![r] =
              [run[r] EXCEPT !.step = IF LastPage(r) THEN "list" ELSE "page",
                             !.at = IF LastPage(r) THEN 1 ELSE @ + 1,
                             !.page = IdleRun.page, !.errors = @ \/ refused # {}]], refused)
  /\ UNCHANGED <<crm, intakeVars, atStart>>

(***************************************************************************)
(* The archive check (_finalize_scan).                                     *)
(***************************************************************************)
Missing == {d \in Deals : Exists(mirror[d]) /\ ~mirror[d].archived /\ d \notin seen \cup touched}

ListMissing(r) ==
  /\ run[r].step = "list"
  /\ Set(r, [run[r] EXCEPT !.step = "confirm", !.absent = Missing])
  /\ UNCHANGED <<crm, mirror, touched, budget, intakeVars, scan, seen, atStart>>

\* get_archived_deal: HubSpot confirms the deletion, or the absence is an
\* error of the run.
ConfirmAbsence(r, d) ==
  /\ run[r].step = "confirm" /\ d \in run[r].absent
  /\ Set(r, [run[r] EXCEPT !.absent = @ \ {d},
                           !.gone = IF crm[d].alive THEN @ ELSE @ \cup {d},
                           !.errors = @ \/ crm[d].alive])
  /\ UNCHANGED <<crm, mirror, touched, budget, intakeVars, scan, seen, atStart>>

\* The call for one deal fails: it is left alone, as an error of the run.
CheckFails(r, d) ==
  /\ run[r].step = "confirm" /\ d \in run[r].absent
  /\ budget.refusals < MaxRefusals
  /\ budget' = [budget EXCEPT !.refusals = @ + 1]
  /\ Set(r, [run[r] EXCEPT !.absent = @ \ {d}, !.errors = TRUE])
  /\ UNCHANGED <<crm, mirror, touched, intakeVars, scan, seen, atStart>>

\* _MAX_UNCONFIRMED_ABSENCES: the run stops asking and leaves the rest alone.
StopAsking(r) ==
  /\ run[r].step = "confirm" /\ run[r].absent # {} /\ run[r].errors
  /\ Set(r, [run[r] EXCEPT !.absent = {}])
  /\ UNCHANGED <<crm, mirror, touched, budget, intakeVars, scan, seen, atStart>>

\* Fault: the rows are not read again before they are archived.
Untouched_Unchecked(d) == ~mirror[d].archived

\* The row is as the check listed it: every write of it moves last_seen_at.
Untouched(d) == ~mirror[d].archived /\ d \notin seen \cup touched

\* The archiving and complete_scan commit together; a run with errors is not
\* recorded as a success.
FinishScan(r) ==
  /\ run[r].step = "confirm" /\ run[r].absent = {}
  /\ Owns(r, {"finalizing"})
  /\ mirror' = [d \in Deals |-> IF d \in run[r].gone /\ Untouched(d)
                                THEN [mirror[d] EXCEPT !.archived = TRUE] ELSE mirror[d]]
  /\ scan' = [scan EXCEPT !.phase = "completed", !.holder = None, !.live = FALSE,
                          !.clean = ~run[r].errors]
  /\ Idle(r)
  /\ UNCHANGED <<crm, touched, budget, intakeVars, seen, atStart>>

(***************************************************************************)
(* Failures.                                                               *)
(***************************************************************************)
Failed == [scan EXCEPT !.phase = "failed", !.holder = None, !.live = FALSE]

\* The run's exception handler: fail_scan if the scan is still its own.
GiveUp(r) ==
  /\ scan' = IF Owns(r, {"scanning", "finalizing"}) THEN Failed ELSE scan
  /\ Idle(r)
  /\ UNCHANGED <<crm, mirror, touched, intakeVars, seen, atStart>>

\* A call to HubSpot fails as a whole, or the mapping changed under the page.
FailRun(r) ==
  /\ run[r].step \notin {"idle", "acquire"}
  /\ budget.incidents < MaxIncidents
  /\ budget' = [budget EXCEPT !.incidents = @ + 1]
  /\ GiveUp(r)

\* The page or the archiving is refused under the row's lock.
RefusePage(r) ==
  /\ run[r].step = "write" /\ ~MayCheckpoint(r)
  /\ GiveUp(r) /\ UNCHANGED budget
RefuseFinish(r) ==
  /\ run[r].step = "confirm" /\ run[r].absent = {} /\ ~Owns(r, {"finalizing"})
  /\ GiveUp(r) /\ UNCHANGED budget

\* The process dies; its lease stays until it expires.
CrashRun(r) ==
  /\ run[r].step # "idle"
  /\ budget.incidents < MaxIncidents
  /\ budget' = [budget EXCEPT !.incidents = @ + 1]
  /\ Idle(r)
  /\ UNCHANGED <<crm, mirror, touched, intakeVars, scan, seen, atStart>>

\* Time passes: the lease of a run that is gone expires, or of one that waits
\* for HubSpot for longer than the lease; the scan grows old.
ExpireLease ==
  /\ scan.live /\ run[scan.holder].step \in {"idle", "acquire"}
  /\ scan' = [scan EXCEPT !.live = FALSE]
  /\ UNCHANGED <<crm, mirror, touched, budget, intakeVars, seen, run, atStart>>
OutliveLease ==
  /\ scan.live /\ run[scan.holder].step \notin {"idle", "acquire"}
  /\ budget.incidents < MaxIncidents
  /\ budget' = [budget EXCEPT !.incidents = @ + 1]
  /\ scan' = [scan EXCEPT !.live = FALSE]
  /\ UNCHANGED <<crm, mirror, touched, intakeVars, seen, run, atStart>>
ScanAges ==
  /\ scan.phase \in Open /\ ~scan.old
  /\ scan' = [scan EXCEPT !.old = TRUE]
  /\ UNCHANGED <<crm, mirror, touched, budget, intakeVars, seen, run, atStart>>

RunStep(r) ==
  \/ StartRun(r) \/ RefuseRun(r) \/ BeginGeneration(r) \/ ResumeScan(r)
  \/ ReadPage(r) \/ CommitPage(r) \/ RefusePage(r)
  \/ ListMissing(r) \/ (\E d \in Deals : ConfirmAbsence(r, d)) \/ StopAsking(r)
  \/ FinishScan(r) \/ RefuseFinish(r)

ScanNext ==
  \/ \E r \in Runs : RunStep(r) \/ FailRun(r) \/ CrashRun(r) \/ (\E d \in Deals : CheckFails(r, d))
  \/ ExpireLease \/ OutliveLease \/ ScanAges
================================================================================
