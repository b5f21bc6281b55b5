# DealGate in TLA+

DealGate stands between HubSpot and a signature: a statement of work (SOW) may
be signed only when Delivery, HR, Sales, Finance and Legal have approved it
against a calculated margin, and the CEO too when the margin is below a floor
(`docs/blueprint.md`, `docs/build-guide.md`). Around that gate it mirrors deals
from HubSpot, files uploaded SOWs, keeps clients' NDA and MSA, plans the demand
that deals and projects create, notifies people and deletes what they ask it to.
These modules model that as `src/api/app` and `src/worker` implement it, in six
families that share no state:

| Family | Question |
|---|---|
| Gate | may anything be signed or released that was not wholly approved? |
| Retention | does deletion leave nothing behind, and mail leave only about what exists? |
| HubSpot | does the mirror follow HubSpot, whatever order events and scans come in? |
| Agreements | do batches, their undo, the mapping and people agree on what a client holds? |
| Planning | does every change of demand or supply reach the drafts made from it? |
| Uploads | is a file filed once? |

## The system

FastAPI handlers over PostgreSQL, one transaction per request, many requests at
once. Scheduled workers (`src/worker`) drain outboxes and job tables. All state
is in the database; components meet through its rows, through hooks called in
the same transaction and through rows queued for the workers.

| Part | State | Operations | What makes it correct | Modelled |
|---|---|---|---|---|
| Packages and review (`approvals`, `approval_workflow`, `approvals_hooks`) | status, pins, decisions, tasks | submit, decide, advance, void on change, manual void | no package is signable without every approval; a refusal is final; stages in order; decisions are only added | `Approvals` |
| Routing and remediation (`approval_routing`, `approval_remediation`) | groups, assignments | save group, route missing, repair, quarantine | duties stay apart; an awaited review keeps its task, unless a rerouting it has overtaken takes it | `Approvals` |
| CEO exception (`ceo_exception`) | exception, evidence | draft, rationale, decide, evidence, lapse | below a floor only with an executive approval and a written case | `CeoException` |
| SOW versions (`sow_extract`, `sow_lifecycle`, `sow_confirmation`, `routers/sows_staffing`) | version rows, supersession, counter | create, confirm, revise, discard, delete | what a package pins is kept | `SourceVersions` |
| GM models (`delivery_model`, `commercial_models`) | models in commit order | create, save | an unsigned review prices the newest economics | `SourceVersions` |
| Signature and release (`signed_sow`, `handoff`, `delivery_acceptance`) | uploads, acceptance, release rows | upload, callback, accept, release | a release has its acceptance, its tasks and its upload, and nothing else is mailed as signed; an amendment replaces what it amends | `SignedSow` |
| Renewals (`renewals`) | renewal state | decide, churn, alert | a churned SOW takes no new submission; alerts once | churn only |
| Task board (`tasks`) | tasks | transition, snooze, reassign, escalate | a review is not finished from the board | finishing only |
| Notifications (`notifications`, `worker/notification_sender`) | outbox | queue, send, retry | each row reaches an end; no mail twice but after a failure or a crash, none about what is deleted | `Outbox` |
| Deletion (`deletion`, `parent_deletion`, `deletion_cleanup`, `deletion_fences`, `deletion_storage`) | fences, cleanup jobs, objects in storage | delete, clean up, fence, retry | nothing is queued about what is deleted; parents after children; every job ends; a referenced object stays | `Deletion` |
| HubSpot intake and scan (`hubspot_intake`, `hubspot_backfill`, `sync_status`) | mirrored opportunities, intake tasks, the scan's row | event, redelivery, replay, nightly scan with lease and cursor, resume, archive | the mirror never goes back and converges; a scan archives only what HubSpot deleted | `HubspotIntake`, `DealScan` |
| Agreements (`agreements`, `agreement_batches`, `agreement_hooks`, `agreement_mapping`) | files and marks of a client, batches | store, mark, detach, start, run, undo, cutover, map | a kind held once; a batch counts every target once; an undo takes its own copies only | `ClientAgreements`, `AgreementBatches`, `HubspotMarks` |
| Demand planning (`forecast_plans`, `people_sourcing`, `people_allocation`, `automation_jobs`) | plans, publications, supply, coverage, rules, drafts, two job tables | save, publish, import, cover, switch on and off, refresh, schedule, retry | no change is lost; no draft for demand that is not current; queues run dry | `PlanningChanges`, `RefreshJobs`, `PlanSchedules` |
| SOW uploads (`sow_upload_job_service`, `routers/sows_upload`, `sow_upload_pipeline`) | one job for each file hash, SOWs | upload, retry, pick, import | one SOW for a file | `UploadJobs` |
| Projects (`project_lifecycle`) | project state | create or link, transition | follows its contracts | as sources of demand |
| Audit chain (`app/audit.py`) | hash chain | append | one chain, each row linked to the one before | its lock only |
| Scheduler ledger (`scheduler/ledger`) | triggers | record | once per window | no |
| HubSpot writeback (`hubspot_writeback`) | job rows | queue, dispatch, retry | - | no: nothing calls what queues it |
| Forecasts, actuals, legacy import | figures | import, compare | decimal arithmetic | no |
| GM library, business calendar (`app/gm`, `business_days`) | none | pure functions | floors and dates at their boundaries | no |
| Dashboards, reports, command center, saved views, web client | none of their own that the rest reads | read | - | no: read models and interface |
| Identity, rate cards, policy versions, model and document services | reference data | - | - | no: constants or open results |

`PROJECT.json` repeats this list with files and reasons, and lists the hazards
at their lines.

### Where it is hard

The audit module takes one advisory lock per transaction (`append_audit`) and
keeps it until the commit, and most handlers lock a row too: the opportunity, the
package, the client, the job. A handler that reads what it decides on *after*
taking one of these locks is serial with its competitors. Several read *before*:
the executive decision, the manual void, quarantine, rerouting, repair, signature
callbacks, the JSON upload, the release, the revision endpoint; an upload that finds a failed
job; an undo that picks its clients; a sourcing draft that reads the population.
Between their read and their commit any other request may commit. SQLAlchemy
writes only the columns whose value changed from what was read, so even "writing
the same value" is visible. The release and the sender also send mail before
they write anything, and HubSpot is read over the network before the transaction
that writes what it said.

The workers overlap with themselves and with the handlers. A sender reads its
batch without locks, takes one row at a time under `FOR UPDATE`, sends, and only
then commits; a cleanup run holds its job's row from the pick to the commit while
it removes objects that no transaction covers. A batch of agreements and a scan
of HubSpot run in chunks, a commit each, and are taken over by another process
from their cursor. A deletion and the producers of notifications meet at an
advisory lock on the source (`lock_source`) that the transaction keeps to its
end.

## The modules

| Module | Content |
|---|---|
| `DealTables` | the rows, the constants and their assumptions, helpers every service reads the rows with, `void_on_change`, the types, `Init` |
| `SourceVersions` | versions and models |
| `Approvals` | the functional review, routing, remediation, the task board's finish |
| `CeoException` | the executive exception |
| `SignedSow` | uploads, callbacks, acceptance, the release gate, release, churn |
| `DealGate` | `Next`, `Spec`, `Abort`, the properties, the refinement mapping |
| `SignatureGate` | the abstract specification: what a review promises of a signature |
| `DealGateTypes`, `DealGateProofs`, `DealGateContracts` | theorems about `DealGate`: its types; the review, its record and the executive; versions, prices, tasks, releases, contracts and the refinement |
| `RetentionTables` | sources, files, jobs, notifications, the constants and their assumptions, the types, `Init` |
| `Outbox`, `Deletion` | producers and senders of notifications; requests, cleanup, retry |
| `Retention` | both with the deaths of workers, fairness, the properties |
| `RetentionProofs` | theorems about `Retention` |
| `HubspotTables` | HubSpot's deals, webhooks, the mirror, the scan's row and its runs |
| `HubspotIntake`, `DealScan` | the event handler; the nightly scan |
| `HubspotSync` | both, fairness, the properties |
| `HubspotProofs` | theorems about `HubspotSync` |
| `AgreementTables` | clients, what they hold, batches, runners |
| `ClientAgreements`, `AgreementBatches`, `HubspotMarks` | people and the nightly settlement; batches and undo; the mapping |
| `Agreements` | all three, fairness, the properties |
| `AgreementProofs` | theorems about `Agreements` |
| `PlanningTables` | sources of demand, drafts, both job tables |
| `PlanningChanges`, `RefreshJobs`, `PlanSchedules` | what people change and enqueue; the refresh worker and drafts by hand; the schedule worker |
| `Planning` | all three, fairness, the properties |
| `PlanningProofs` | theorems about `Planning` |
| `UploadJobs`, `UploadProofs` | the whole of uploads with its properties; theorems |
| `MCDealGate`, `MCRetention`, `MCHubspot`, `MCAgreements`, `MCPlanning`, `MCUploads` | instances for TLC |

### State and code: the gate

A row's id is its position. Versions are numbered by `Sow.version_counter`, so
1..`MaxSow`; models and uploads are sequences in commit order; packages are
numbered in the order they are submitted. "Newest" is therefore "largest".
`status[p]` is `ApprovalPackage.status`, with `"none"` for a row that does not
exist yet. `task[p][f]` is the task of the assignment of function `f`:
`"open"`, `"repaired"` for an open task a repair filed (its category differs),
`"finished"` by the board, `"closed"` by the workflow.

Each handler is one action when its reads are under a lock, and two otherwise:
`XRead` checks and leaves the request in `txn[s]`, `XCommit` writes from what
was read. `Sessions` are the requests in flight at once. `Abort` is a request
that fails after its read, for any reason: its transaction rolls back and the
mail it sent stays sent. That is also how a crash of the process looks from the
database. The abstractions:

* A model's economics are its outcome against the floors: `clear`, `below` or
  `incomplete`. The policy a package pins does not change, so neither does the
  outcome.
* `request_changes` and `return_for_changes` write what `reject` writes and are
  not told apart.
* An executive approval carries conditions, an end date or neither; two that race
  leave the terms of both (`terms` is a set).
* Which eligible member routing proposes is open; that it is a member, not the
  submitter and not used is not.
* Whether a recorded approver is outside the trusted scope (quarantine) is open.
* The CEO group and the active delegate are the constant `Deciders`. Endpoint
  roles and ownership decide who may call, and are the constants `Owners`,
  `Approvers` and `Refusers`.
* One opportunity with one SOW. Reviews of different opportunities share only
  groups and the audit lock.
* Rerouting is four steps: the endpoint's read of the package, whose status is
  not read again (`RouteStart`), the decisions (`RouteLoad`), the groups,
  assignments and tasks with all that follows from them (`RoutePlan`), and the
  writes, which the audit lock serialises (`RouteCommit`). `plan` in a request is
  what the steps carry along. Groups, assignments and tasks are read one after the
  other in the code and together here. Repair is `RepairRead` and `RepairCommit`.
* Some handlers whose reads are not locked are still one action: rationale,
  acceptance, condition evidence, discard and delete of a version. Deletion is
  protected by the foreign key of the package; for the others the split is in
  the plan below. `decide` reads the group and its assignment under the package's
  row lock, but before the audit lock that a membership change, a rerouting or a
  repair commits under: it is ordered before any of these it did not see.
* A confirmation may seed a model when its version is the latest and no model of
  this SOW exists, and then voids as every new model does. Whether the document
  held a roster to seed it from is open.
* A release's mailing may reach nobody: recipients may be missing and a refused
  send is swallowed (`signed_sow.py:990`), so `mailed` grows or not.
* `submit_package` is one action because a version created, revised or
  discarded during it is ordered after it: it holds the opportunity's lock, and
  an unlocked revision writes nothing the submission reads that could not have
  been written just after it.

### State and code: retention

* A source is a client, a deal or a SOW; a SOW stands for its packages and tasks
  too, which are locked, fenced and deleted with it. `Below` gives what a source
  owns. `job[x]` is the deletion job of `x` and, once it exists, its fence.
* `RequestDeletion` takes the locks of the whole subtree and reads which keys
  other SOWs hold; `CommitDeletion` writes all of it. The order in which the
  locks are taken, and so the deadlock of a client's deletion with a deal's, is
  not modelled.
* A key held by several rows of one deletion is listed by the last of them to be
  deleted, since each request drops the keys another row still holds.
* `QueueNotification` takes the source's lock and checks the fence;
  `CommitNotification` is the commit of the caller, whatever it is. Whether the
  user's settings suppress the row is open. Retired channels are suppressed rows.
* A row a sender skips (gone, or no longer pending) is dropped from its batch at
  once; the code keeps its lock until the next commit. The branch that deletes a
  pending row of a deleted source is not met: `NothingPendingOfDeleted` is
  exactly that.
* `waits` is `next_attempt_at` in the future. A notification's wait may end at
  any time. A job's ends only when no job is due, since the shortest is 30
  seconds and a run drains what is due first.
* `MaxAttempts` is 5 in the code for both. The batch of 50, the 25 jobs of a run
  and their order are above the instances.

### State and code: HubSpot

* `crm[d]` is the deal as HubSpot has it (external): alive or deleted, its
  version (`hs_lastmodifieddate`), and one property, the owner, for all of them.
  `mirror[d]` is the opportunity, `touched` and `tasks` what intake files with it.
* An event is delivered at least once, in any order, and may be given up: one
  that is given up is one no handler takes. A handler reads HubSpot in one step
  and writes in the next.
* The scan's row has its lease (`holder`, `live`), generation, cursor, phase and
  counters. A lease token is the run that holds it. Time is what its tests see:
  `ExpireLease`, `ScanAges` (twelve hours) and nothing else.
* A page, its record writes and the cursor commit together; the check of an
  absent deal's deletion is a call to HubSpot before the archiving transaction.
* Not modelled: the rows of the run history, the mirror of companies, stages and
  owners, payloads without a modified date, the renewal of the lease during the
  archive check.

### State and code: agreements

* `doc[c][k]` is what a client holds of a kind: nothing, its own file, or a
  standard copy with the batch that attached it. `mark[c][k]` is the active mark
  and whether there ever was one. `client[c].rel` says who settled whether it is
  existing or net new: nobody, the rule or a person; the rule itself is open.
* Each operation of a person holds the client's row from its first read to its
  commit, hence one action.
* A batch's chunk is one transaction under the batch's row. The frozen target
  list is `targets`, `left` is what is past the cursor; its order is open. The
  API, the minute worker and the command line may all run one batch: `Runners`.
* The start of a batch is two steps (`start.open`): the population is read, then
  the batch and, the first time, the cutover are written. An undo picks its
  clients in one step and takes each under its lock in another.
* File versions, storage and the reasons of marks are left out.

### State and code: planning

* Every event that calls `enqueue_refresh` is numbered by `clock`; `world` is the
  number of the last one that changed sources, supply or coverage, and stands for
  the watermark a draft records. The audit chain's lock, which each of these
  requests holds from its audit row to its commit, puts them in that order;
  `created_at` is taken as the same order.
* A refresh that must publish its source holds the audit lock throughout and is
  one step. One whose source is published reads the population first, so it is
  two (`BeginPreparation`, then an end), as is a draft a person prepares. The row
  of the lead-time rules, which both lock, allows one of them at a time.
* Jobs that ended well or that nobody reads again leave `jobs`; `ended` is the
  event after which a job ended badly.
* `rule.admin` is whether the rule's author is a system administrator now, which
  every event and every refresh looks up. The role is lost and regained through
  the groups page and through the identity provider's token; neither enqueues
  anything, and `rule.since` remembers when it last came back.
* `MaxFaults` covers failures, incomplete drafts (`review`), deaths of workers
  and failed schedules. One tenant and one classification.
* Changes of the population that enqueue nothing (a client renamed, a project
  archived) are left out: after one of these every draft is stale with nothing
  owed, which `people_allocation.py:107` makes so.

### State and code: uploads

* `job[f]` is the row of a file's hash, `sows` the SOWs that came of files. A
  request is an upload, a pick or an item of the bulk import; it is one
  transaction whose first write takes the job's row or its unique key and keeps
  it to the commit, and which reads without locks before that.
* The statuses in between are overwritten inside the transaction and never seen.
* A rejected client, agreement or binding ends the job as failed; a rejected
  document rolls back (`Abort`); a storage failure commits `failed`.
* An upload whose caller names the deal (`"bound"`) skips the search by hash.
* Archiving and deletion of SOWs are the environment. Extraction, client
  matching, the derived GM and orphaned objects are left out.

## What is checked

`tlc -config X.cfg M` in this directory. Deadlock checking is off because a
bounded instance really stops: when the rows are used up there is nothing left
to do.

| Run | Module, config | Instance | Question |
|---|---|---|---|
| `review` | `MCDealGate`, `MCReview` | one package, one version, one model, seven accounts, two sessions; membership changes, reroutings, repairs, voids, quarantine, executive decisions | is anything signable that was not wholly approved, by people with no conflicting duty, in order, with the executive when below a floor? What takes the task of an awaited review? Does it implement `SignatureGate`? |
| `sources` | `MCDealGate`, `MCSources` | two packages, two versions, two models, revise, discard, delete | does a review stand on what it pinned, and is it voided when its price changes? |
| `release` | `MCDealGate`, `MCRelease` | two packages, two versions, two uploads, two mailings, two sessions, callbacks, releases, voids, uploads | has every release its acceptance, tasks and upload, whatever becomes of its mail, does an amendment replace the earlier contract, do changes leave signed packages alone? |
| `retention` | `MCRetention`, `MCRetention` | a deal with one SOW, an object each that they may come to share, one notification, two senders, two cleanups, two attempts, a crash, a retry, fairness | does anything go out about what is deleted, or twice, does a parent finish before its child, does every notification and every job reach an end? |
| `hubspot` | `MCHubspot`, `MCHubspot` | one deal, two pages, one handler, two runs, two changes, a refusal, an incident, fairness | does the mirror ever go back, does a scan archive what lives, does it converge by scans alone? |
| `agreements` | `MCAgreements`, `MCAgreements` | two clients, one kind, two runners, chunks of one, two batches, a write, a kill, fairness | is anything held twice, counted twice, undone wrongly; does every batch end? |
| `planning` | `MCPlanning`, `MCPlanning` | a plan, a project that arrives, two changes, a draft by hand, two attempts, two faults, a retry, fairness | is a change ever lost, a draft stored for stale demand, a job tried for ever? |
| `uploads` | `MCUploads`, `MCUploads` | one file, six requests of which three at once, three SOWs | is a file filed twice? |
| `ceo_revives_voided`, `archives_restored`, `archived_blocks_upload`, `cutover_misses_client` | | small | the findings below |

Bounds of the gate. Two sessions are enough for every race of two unlocked
requests, and locked handlers need none. Two packages are the fewest at which
"newest live package" and "prior contract" differ from "the package"; two
versions the fewest at which "current" and "pinned" differ; two models the fewest
at which one prices a version and a later one reprices it. `review` has one
model: what a change of sources voids is the question of `sources`, and manual
voids and quarantine strike at any moment here too. One member per function is
enough for separation of duties to bite, since the membership change then hands
Legal to the HR reviewer, the submitter and the CEO, and repairs hand it to the
first two. A refusal of each stage is enough (`Refusers`). Sessions are
interchangeable (`Symmetry`).
`MaxMail` bounds the mailings that reach somebody, so a release may fail once
after its mail and succeed with another, or without. `release` takes only verified callbacks: a declined one writes less.

In `Retention` a deal over a SOW is the least with a parent and a child, and the
SOW may come to share the deal's object (`ClaimKey`); two workers of a kind are
what an overlap of scheduled runs gives; two attempts tell the last from the
others; one crash and one retry are enough to undo what either protects. A safety
run with a second SOW (575,053 states) agrees, and the theorems need no bound.
Deals under clients repeat SOWs under deals in the code (`_finish`,
`process_deletion_jobs` do not look at the kind), so the third level is left out.

In `HubspotSync` deals meet only in the scan's row: two pages and one deal give a
page with a deal, one without, and a cursor between them. Two runs are what a
resumption needs, two changes a deletion and a restoration. In `Agreements` two
clients are the fewest for a batch left half done, one of them mirrored from
HubSpot, one a newcomer; 2 batches, 2 writes and 1 kill (2,064,448 states) show
nothing new. In `Planning` two sources are the fewest of which one is direct; a
safety run with 3 changes, 1 draft, 1 retry, 2 faults (2,994,840 states) agrees.
In `UploadJobs` files share nothing but the bounds, so one file is enough; three
requests at once are two that race and one that acts between them.

Fairness. The gate and the uploads assume none: all their properties are safety
properties, and a handler is not obliged to be called. Elsewhere `FairSpec`
assumes what the schedule and the clock give, and never a request of a person:

* `Retention`: each worker is weakly fair: EventBridge starts the sender every
  five minutes and the cleanup every minute (`infra-tf/modules/schedulers`; the
  latter only where `s21_jobs_enabled` is set), and a run goes on until its work
  is done or it dies. The end of a notification's wait is weakly fair, because
  time passes. The end of a job's wait is strongly fair: it is enabled only
  between drains, which recur. Deaths are bounded by `MaxCrashes`, without which
  a sender that always dies would never send.
* `HubspotSync`: the steps of a run, the expiry of a lease and the ageing of a
  scan are weakly fair. Nothing is asked of webhooks: the mirror converges by the
  nightly scan alone.
* `Agreements`: the steps of each runner, and for each active batch that some
  runner takes it: its heartbeat grows old and `resume_stale` looks every minute.
* `Planning`: the refresh worker, the schedule worker, and the end of a request
  that a person began.

### What the runs show

* `SignableFullyApproved`, `FourEyes`, `StagesInOrder`, `RefusalIsFinal`,
  `CeoGate`: the gate holds under every interleaving of two unlocked requests.
  This is not for lack of races: a stale executive decision can revive a voided
  package, but only one whose five approvals are still recorded.
* `TaskLostOnlyWhenOvertaken`: decisions, voids, repairs and reroutings of the
  stage they read never leave an awaited review without a task. A rerouting that
  read an earlier stage does (`AwaitedReviewHasTask`, below), and nothing else.
* `PinnedVersionKept`: no package loses its version.
* `CurrentReviewPricesCurrent`: the newest submission, while unsigned, is never
  left priced by an older model, although the two hooks that void follow
  different rules. It says nothing of older live packages, which the hooks skip,
  nor of what the executive has opened: both are left behind (`NoReviewOutpriced`,
  below).
* `ContractsShareVersion`, `SignedSurvivesChange`, `ReleaseHasRecord`: releases
  of amendments are serialised by the audit lock well enough that contracts are
  always replaced. A released package was accepted, its tasks are filed and an
  upload of its own carries the release. That somebody was told is not promised:
  a failed mailing does not stop a release. What was mailed without a release,
  because a failure came after the mail, had passed review and acceptance.
* `ImplementsGate`: the review refines `SignatureGate` with `cleared` read off
  the decisions, `excepted` off the exception, `open` off the status.
* `NothingPendingOfDeleted`, `OnlyPendingMailed`: the source lock and the reread
  under the row lock are enough; neither is without the other, as the mutants
  of `QueueNotification` and `LockRow` show.
* `MailsAccountedFor`: overlapping batches never mail a row twice. A row is mailed
  again only after an attempt that failed or a crash, so at most five times and
  once for each crash.
* `ParentsFinishLast`, `NotesSettle`, `JobsSettle`: a deletion is not reported
  done early, and nothing stays pending for ever, except a job below which one
  has used up its attempts: it waits for a person's retry.
* `MirrorMovesForward`, `ScanArchivesDeleted`: the comparison of modified dates
  under the opportunity's lock orders all writers, and the second reading of an
  absent deal, taken with the mirrored version, is what protects a restored one.
* `CleanScanFresh`: a scan that several runs shared and that reports itself clean
  has seen every deal; the exception is a record refused between the count of
  refusals and the lease (`sync_status.py:361`), which the code does not see.
* `Converges`: through failures, refusals and expired leases the mirror comes to
  what HubSpot holds. A live deal counts as mirrored by its version alone, also
  when a late deletion has archived its row (`ArchivedWasDeleted`, below). A run
  that failed after the last page cannot be resumed
  (below); it converges because the scan grows old and starts again.
* `HeldOnce`, `RemovedMarkStays`, `OneRunning`, `BatchAddsUp`,
  `UndoneLeavesNothing`, `UndoTakesOwnCopies`, `BatchesEnd`: the client's row lock
  in every chunk, the unique `running_guard` and the counters committed with the
  chunk make a batch safe to run twice at once and to leave at any point.
* `NoChangeLost`: jobs are coalesced only where the worker holds the rule's row;
  this is what keeps a change made during a refresh owed. It holds from the first
  event after the rule's author last regained the role: what was changed without
  the role is owed nothing when it returns, and the next event, which enqueues
  every source, catches it up. `DraftsFitDemand`,
  `DisabledStops`: rules read before are tested again under their locks.
  `JobsEnd`, `SchedulesSettle`: the attempts bound both queues.
* `UploadedOnce`: the unique hash, and the search by it under the row, keep
  matched uploads and picks to one SOW through retries and deletions.

### Where the code departs from its own words

| Run | What the code says | What happens |
|---|---|---|
| `ceo_revives_voided` | terminal statuses receive no decisions (`approvals.py:62`) | the executive's status check is unlocked: a package voided after it comes back |
| `archives_restored` | out-of-order events must not undo a newer state (`docs/directives/s21-forecast-implementation.md:656`) | a deletion's event archives without reading the deal: delivered late, it archives a restored one |
| `archived_blocks_upload` | dedupe runs against live records only (`docs/directives/s13a-delete-reset.md:17`) | `find_by_hash` lets go of the archived SOW, but its job is still `done` and answers as a duplicate |
| `cutover_misses_client` | the first batch stamps every client still empty (`agreement_batches.py:212`), and who was created before the cutover is left to it (`agreement_hooks.py:136`) | a client whose transaction began before the cutover and commits after the start has read the population is stamped by neither |

Stated in the modules, refuted by TLC and not given a run of their own:

* `DealGate!NewVersionVoids`: the revision endpoint adds a version and calls no
  hook (`approvals_hooks.py:32`): the review goes on over the superseded version.
  It can still reach `ready_to_sign`; the callbacks and the release then refuse
  it, so the cost is a dead review.
* `DealGate!NoReviewOutpriced`: `void_on_change` voids the newest live package
  only (`approvals.py:258`), where `approvals_hooks.py:53` says any active one. In
  the instance of `sources` with `MaxSow = 3` and `Ops = {"revise", "discard"}`
  two versions are reviewed, the newer is discarded, and a new model voids the
  newer review: the older, whose version is current again, goes on at the price
  it replaced. In the same instance with `MaxSow = 1`, `MaxPkg = 1`,
  `Ops = {"ceo"}`, `Outcomes = {"clear", "below"}` and all accounts as approvers,
  an executive decision read before a new model and committed after it opens the
  package it voided. Callbacks and the release test whether the
  pinned version is current, never the pinned model (`signed_sow.py:404`), so
  neither is caught there.
* `DealGate!CeoDecisionOnce`, `DealGate!ReleasesReadyPackage`: two unlocked
  executive decisions, and two releases, both commit.
* `DealGate!AwaitedReviewHasTask`: `route_missing` reads the package's status
  without a lock (`approval_routing.py:276`) and files tasks for it after a
  decision has advanced the package: Legal, moved away from a reviewer who left
  the group, loses the task the advance filed and gets none. Another rerouting
  files it.
* `DealGate!AwaitedReviewStaysOpen`: a repaired assignment's task has another
  category (`approval_remediation.py:99`), so the board finishes it.
* `Planning!NeverStale`, which is `NoChangeLost` without its condition on the
  role: the author loses it, a plan is saved, the role comes back, and the stale
  drafts are owed nothing (`automation_jobs.py:51`).
* `Retention!ReferencedObjectsKept`: a key is checked and its object removed in
  two steps; a version that claims it between them loses its object.
* `HubspotSync!NoFalseCycle`: a run that failed after the last page resumes at the
  first cursor, whose next one this generation has seen: it is refused as a cycle
  until the scan is twelve hours old. `HubspotSync!OneIntakeTask`: a deal whose
  owner changed gets another intake task.
* `Agreements!MarksFollowMapping`: the candidates of a mapping that is withdrawn
  meanwhile are still marked.
* `UploadJobs!OneResult`: two bound retries of one failed job both file.

Met while modelling and outside the models: `manual_void` refuses `ready_to_sign`
although `void_on_change` names it as the way out for a verified package, and
accepts `released`; a signature may go from declined to verified on one upload;
a refresh job whose attempt ends in an exception the worker does not catch is
rolled back and taken first again by every later run (`automation_jobs.py:165`).

## What is proved

For every value of the constants that satisfies the named assumptions of each
family's tables (accounts, rosters and bounds are what they say, nothing about
sizes but that some sets are finite):

| Module | Theorem | States |
|---|---|---|
| `DealGateTypes` | `TypeCorrect` | `Spec => []TypeOK` |
| `DealGateProofs` | `SignableIsFullyApproved` | `Spec => []SignableFullyApproved` |
| `DealGateProofs` | `RefusedStaysRefused` | `Spec => []RefusalIsFinal` |
| `DealGateProofs` | `RecordOnlyGrows` | `Spec => RecordIsAppendOnly` |
| `DealGateProofs` | `DutiesSeparate` | `Spec => []FourEyes` |
| `DealGateProofs` | `StagesRunInOrder` | `Spec => []StagesInOrder` |
| `DealGateProofs` | `ExecutiveGates` | `Spec => []CeoGate` |
| `DealGateContracts` | `ChangeSparesSigned` | `Spec => SignedSurvivesChange` |
| `DealGateContracts` | `PinsStand` | `Spec => []PinnedVersionKept` |
| `DealGateContracts` | `ReviewsPriceCurrent` | `Spec => []CurrentReviewPricesCurrent` |
| `DealGateContracts` | `TasksSurvive` | `Spec => TaskLostOnlyWhenOvertaken` |
| `DealGateContracts` | `ReleasesRecorded` | `Spec => []ReleaseHasRecord` |
| `DealGateContracts` | `ContractsAgree` | `Spec => []ContractsShareVersion` |
| `DealGateContracts` | `WorkflowImplementsGate` | `Spec => ImplementsGate` |
| `PlanningProofs` | `PlanningTypes` | `Spec => []TypeOK` |
| `PlanningProofs` | `EveryChangeIsFollowed` | `Spec => []NoChangeLost` |
| `PlanningProofs` | `DraftsFollowDemand` | `Spec => DraftsFitDemand` |
| `PlanningProofs` | `SwitchedOffStops` | `Spec => DisabledStops` |
| `UploadProofs` | `UploadTypes` | `Spec => []TypeOK` |
| `UploadProofs` | `MatchedUploadsFileOnce` | `Spec => []UploadedOnce` |
| `RetentionProofs` | `RetentionTypes` | `Spec => []TypeOK` |
| `RetentionProofs` | `DeletedAreSilent` | `Spec => []NothingPendingOfDeleted` |
| `RetentionProofs` | `EveryMailCounted` | `Spec => []MailsAccountedFor` |
| `RetentionProofs` | `ChildrenFirst` | `Spec => []ParentsFinishLast` |
| `RetentionProofs` | `OnlyLiveMailed` | `Spec => OnlyPendingMailed` |
| `AgreementProofs` | `AgreementTypes` | `Spec => []TypeOK` |
| `AgreementProofs` | `KindHeldOnce` | `Spec => []HeldOnce` |
| `AgreementProofs` | `OneBatchAtATime` | `Spec => []OneRunning` |
| `AgreementProofs` | `BatchBooksBalance` | `Spec => []BatchAddsUp` |
| `AgreementProofs` | `UndoIsComplete` | `Spec => []UndoneLeavesNothing` |
| `AgreementProofs` | `UndoSparesOthers` | `Spec => UndoTakesOwnCopies` |
| `AgreementProofs` | `MappingRespectsPeople` | `Spec => RemovedMarkStays` |
| `HubspotProofs` | `HubspotTypes` | `Spec => []TypeOK` |
| `HubspotProofs` | `MirrorNeverGoesBack` | `Spec => MirrorMovesForward` |
| `HubspotProofs` | `ScansArchiveDeleted` | `Spec => ScanArchivesDeleted` |
| `HubspotProofs` | `CleanScansAreFresh` | `Spec => CleanScanFresh` |

The gate. `SignableFullyApproved` is not inductive: a release or an
executive decision in flight makes a package signable from what its read saw.
`ReviewInv` (theorem `ReviewCorrect`) adds that: decisions are only recorded on
submitted packages (`DecidedExists`), each status is backed by the approvals of
the stages before it (`StatusBacked`), and each executive decision or release in
flight is backed by a full set of approvals (`RequestsBacked`). That last part
survives every other step because decisions are only added and a fully approved
package admits no further one, so no refusal can arrive either.
`ExecutiveInv` (theorem `ExecutiveCorrect`) adds for the exception that a void
in flight names a submitted package (`VoidsExist`), a package pins a model that
exists (`PinnedModel`, so its floor outcome never changes), and an executive
decision in flight was made by a decider who is not the submitter, with a
written case (`ExecutiveRequests`). `FourEyes` rests on the pins: the submitter
of a package never changes (`StepKeepsPins`), and a decision is recorded only
past all of `MayDecide` (`StepDecisions`).

What a contract rests on. Each of these follows from the two invariants above
and one of its own:

* `PinnedVersionKept` is inductive: a submission pins a current, confirmed
  version, and the only step that removes one asks that nothing ever pinned it.
* `CurrentReviewPricesCurrent` is inductive because the newest submission, live
  and with no upload, is always a target of `void_on_change`, so a model either
  voids it or prices another version (`StepKeepsPrices`), and because no step but
  its own submission brings it back into review (`StepReopensNothing`).
* `TaskLostOnlyWhenOvertaken` is about steps, and the advance to a stage must find
  the stage's tasks unclosed and routed. `TaskInv` (theorem `TasksCorrect`) says
  that a submitted package is routed for every function it needs (`AllRouted`),
  that until its review ends only decisions close tasks, those of later stages
  included (`OnlyDecidedClosed`), and that a rerouting in flight lets no task of
  the stage it read go (`PlansSpareTheirStage`). `StepLosesTask` then leaves one
  step that takes an awaited task: the commit of a rerouting whose stage is past.
* `ReleaseHasRecord` is not inductive: several releases of one package may be in
  flight. `ReleaseInv` (theorem `ReleaseCorrect`) adds that each rests on an
  acceptance and on an upload of its own package (`ReleaseRequests`); a package
  becomes released by such a commit alone (`StepReleased`).
* `ContractsShareVersion`: a release supersedes every released package of another
  version in the step that writes it, so the invariant needs no strengthening.

`ImplementsGate` is proved step by step: `StepReviews` lists the ways statuses and
decisions change, and one lemma for each gives its abstract step (`SubmitEnters`,
`ApproveClears`, `CeoExcepts`, `VoidCloses`, `ReleaseReopens`; a rejection, routing
and everything else stutter). That the floor side of a package is settled at its
submission needs that a row that was not submitted pins no model
(`FreshUnpinned`).

Planning. `NoChangeLost` is not inductive: a draft that was read before a change
is stored after it. `PlanningInv` (theorem `PlanningCorrect`) says what a
transaction in progress may rest on while the automation watches (`Watching`: the
rule is on, its author an administrator, and an event came since the role last
returned): its reading is current, or a job other than
the one in hand is owed (`StillOwed`); the job in hand is its rule's and its
source's (`HandSound`), and what it drafts is published and under the rules in
force (`ReadingSound`). Behind it, every event has its own job for each source
(`QueueSound` and the uniqueness in `TypeOK`).

Uploads. `UploadInv` (theorem `UploadCorrect`) adds that at most one request
holds a file's row (`OneHolder`), and that what a request that holds it found by
its hash is still so (`LookStillHolds`): nobody else files by match while it
holds the row.

Retention. `RetentionInv` (theorem `RetentionCorrect`) has two halves. `NoteInv`
is about rows: a producer that has queued and not committed keeps deletions of
its source away (`ProducerSound`), so nothing becomes pending about what is
deleted; a row at a sender is pending and at no other (`SenderSound`); and each
mail is a counted attempt, one cut off by a crash, or one whose answer is at hand
(`MailsCounted`). `JobInv` is about deletions: a source is gone exactly when it
has a job, and so is what the job waits for (`FenceSound`); a cleanup run alone
holds an unfinished job with attempts left whose children are done
(`CleanerSound`).

Agreements. `AgreementInv` (theorem `AgreementCorrect`) joins what clients hold
(`HoldingsInv`) to each batch's books (`Books`). They meet in the copies a batch
has out: attached and skipped together are the clients behind the cursor times
the kinds, and those undone and the copies still out are no more than those
attached. Only a running batch adds copies and anybody may take one away, which
is why the second is an inequality and survives every person's write.

HubSpot. `HubspotInv` (theorem `HubspotCorrect`) rests on two facts. Whatever was
read of a deal is no newer than the deal (`VersionsSound`), so a deal that is dead
was deleted at the mirrored version or later (`GoneSound`), and stays so unless
the row is touched. And only the run that holds the scan writes its row: that run
knows of every refusal but those it was overtaken by (`RefusalsKnown`), its pages
were read in this generation (`PagesFresh`), and what is behind the cursor is
mirrored or was refused (`BehindCursor`). A run that takes the lease starts with
nothing read, which is why a run that lost it can do no harm.

Every safety invariant and action property that a run checks is proved. Only
model-checked: the liveness properties `NotesSettle`, `JobsSettle`, `Converges`,
`BatchesEnd`, `JobsEnd` and `SchedulesSettle`, and that the properties of the
violation runs and of the list above fail.
Liveness, `ENABLED`, induction over data and recursive operators are out of the
prover's reach and stay with TLC.

## Not modelled

Most of the repository's lines are read models (dashboards, workspaces,
pipelines, command center), decimal arithmetic over large tables (forecasts,
actuals, GM, allocation), extraction from documents, and user interface. They
change no state that the rest decides on, or compute values that a small
instance says nothing about. The map covers the services whose order of steps
matters. Left out among those with state:

* HubSpot writeback: `on_package_ready_to_sign`, the only caller of
  `queue_writeback`, is called by nothing.
* Legacy import: one load in one transaction of its own.
* Actuals and engagement forecasts: imports under one advisory lock into tables
  of figures.
* The scheduler ledger: a claim of one row under a unique key.
* The audit chain's links, and deadlocks over its lock: the database ends one of
  the two, which the models have as a request that fails at any point.
* The version counter (`reserve_version_no` increments a counter read without a
  lock): version numbers are commit order here, so a duplicate cannot show.
* Tasks beyond their finish, renewals beyond churn, project stages and documents, delegations that
  expire.

## Plan

1. The safety half of the liveness properties: that a notification, a job, a
   batch or a schedule that has not ended always has a step of its worker ahead.
2. In `HubspotSync`, the renewal of the lease during the archive check and the
   mirror of stages and companies.
3. Renewals: the tick, its ledger keys and the decisions that race it; financial
   actuals: revisions and replays under the request's lock.
4. `AuditChain` with `LockOrder`: the chain's links, and the order in which
   handlers take a package, the chain's lock, a source and its row.
5. The version counter's race, rationale and evidence as two steps, projects, the
   floor test and the business calendar over bounded inputs.
