---------------------------- MODULE RetentionTables ----------------------------
(***************************************************************************)
(* The rows behind a deletion: the sources (a client, its deals, their     *)
(* SOWs), the files they own in object storage, the deletion jobs with     *)
(* their fences, and the notifications about the sources.                  *)
(*                                                                         *)
(* A source has one deletion job (uq_deletion_subject) and its fence is    *)
(* written with it, so job[x] stands for both.  A request is two steps     *)
(* where another transaction may commit between its reads and its commit.  *)
(***************************************************************************)
EXTENDS Integers, FiniteSets

CONSTANTS
  Subjects,    \* everything that can be deleted
  Below,       \* subject -> the subjects it owns, at any depth
  Sows,        \* the subjects that are SOWs
  Keys,        \* object keys
  InitFiles,   \* subject -> keys its rows hold at the start
  Notes,       \* notification rows that may be queued
  Source,      \* note -> the subject it is about
  Senders, Cleaners,  \* concurrent runs of the two workers
  None,        \* no row
  MaxAttempts, \* MAX_ATTEMPTS of the outbox, and the limit of the cleanup
  MaxCrashes, MaxRetries  \* bounds

ASSUME SubjectsAssumption ==
  /\ Below \in [Subjects -> SUBSET Subjects]
  /\ \A x \in Subjects : x \notin Below[x] /\ \A y \in Below[x] : Below[y] \subseteq Below[x]
  /\ Sows \subseteq Subjects
  /\ None \notin Subjects \cup Keys \cup Notes
ASSUME RowsAssumption ==
  /\ InitFiles \in [Subjects -> SUBSET Keys]
  /\ Source \in [Notes -> Subjects]
ASSUME LimitsAssumption ==
  /\ MaxAttempts \in Nat \ {0}
  /\ MaxCrashes \in Nat /\ MaxRetries \in Nat

VARIABLES
  live,      \* subjects whose rows exist
  files,     \* subject -> keys its rows refer to
  stored,    \* keys with an object in storage
  job,       \* subject -> DeletionJob
  request,   \* subject -> the deletion transaction open on it
  cleaner,   \* cleanup worker -> the job it holds
  note,      \* note -> Notification
  mails,     \* note -> mails that left
  queueing,  \* notes whose producer's transaction is open
  sender,    \* notification sender -> its batch
  crashes, retries  \* bounded events so far

sourceVars == <<live, files>>
jobVars == <<job, request, cleaner, stored, retries>>
noteVars == <<note, mails, queueing, sender>>
vars == <<sourceVars, jobVars, noteVars, crashes>>

Unfinished == {"pending", "failed"}
JobStatus == Unfinished \cup {"none", "done"}
NoteStatus == {"none", "pending", "sent", "failed", "suppressed", "deleted"}
Job == [status : JobStatus, attempts : 0..MaxAttempts, waits : BOOLEAN,
        objects : SUBSET Keys, children : SUBSET Subjects]
Channels == {"email", "inapp"}
Notification == [status : NoteStatus, channel : Channels, attempts : 0..MaxAttempts, waits : BOOLEAN]
Deletion == [open : BOOLEAN, others : SUBSET Keys]
Cleanup == [job : Subjects \cup {None}, todo : SUBSET Keys, free : Keys \cup {None}]
Batch == [rows : SUBSET Notes, at : Notes \cup {None}, reply : {"none", "ok", "refused"}]

NoJob == [status |-> "none", attempts |-> 0, waits |-> FALSE, objects |-> {}, children |-> {}]
NoNote == [status |-> "none", channel |-> "inapp", attempts |-> 0, waits |-> FALSE]
NoRequest == [open |-> FALSE, others |-> {}]
NoCleanup == [job |-> None, todo |-> {}, free |-> None]
NoBatch == [rows |-> {}, at |-> None, reply |-> "none"]

TypeOK ==
  /\ live \subseteq Subjects
  /\ files \in [Subjects -> SUBSET Keys]
  /\ stored \subseteq Keys
  /\ job \in [Subjects -> Job]
  /\ request \in [Subjects -> Deletion]
  /\ cleaner \in [Cleaners -> Cleanup]
  /\ note \in [Notes -> Notification]
  /\ mails \in [Notes -> Nat]
  /\ queueing \subseteq Notes
  /\ sender \in [Senders -> Batch]
  /\ crashes \in 0..MaxCrashes
  /\ retries \in 0..MaxRetries

Init ==
  /\ live = Subjects
  /\ files = InitFiles
  /\ stored = UNION {InitFiles[x] : x \in Subjects}
  /\ job = [x \in Subjects |-> NoJob]
  /\ request = [x \in Subjects |-> NoRequest]
  /\ cleaner = [c \in Cleaners |-> NoCleanup]
  /\ note = [n \in Notes |-> NoNote]
  /\ mails = [n \in Notes |-> 0]
  /\ queueing = {}
  /\ sender = [w \in Senders |-> NoBatch]
  /\ crashes = 0
  /\ retries = 0

(***************************************************************************)
(* Helpers.                                                                *)
(***************************************************************************)
Tree(x) == {x} \cup Below[x]
ChildrenOf(x) == {y \in Below[x] : \A z \in Below[x] : y \notin Below[z]}

\* deletion_fences.source_deleted.
SourceDeleted(x) == job[x].status # "none"

\* deletion_storage.key_is_referenced.
KeyIsReferenced(k) == \E x \in live : k \in files[x]

\* The row and source locks an open deletion of x, or of what owns x, holds.
BeingDeleted(x) == \E y \in Subjects : request[y].open /\ x \in Tree(y)
================================================================================
