------------------------------ MODULE RetentionProofs ------------------------------
(***************************************************************************)
(* Safety of Retention, for every value of its constants.                  *)
(*                                                                         *)
(* The outbox and the deletions meet only at the locks of the sources, so  *)
(* the inductive invariant has two halves: JobInv about the rows and jobs  *)
(* of a deletion, which an outbox step leaves alone, and NoteInv about the *)
(* notifications, which reads of the other half only which sources live.   *)
(***************************************************************************)
EXTENDS Retention, TLAPS

SourceTypes ==
  /\ live \subseteq Subjects
  /\ files \in [Subjects -> SUBSET Keys]
  /\ stored \subseteq Keys
  /\ job \in [Subjects -> Job]
  /\ request \in [Subjects -> Deletion]
  /\ cleaner \in [Cleaners -> Cleanup]
  /\ retries \in 0..MaxRetries

NoteTypes ==
  /\ note \in [Notes -> Notification]
  /\ mails \in [Notes -> Nat]
  /\ queueing \subseteq Notes
  /\ sender \in [Senders -> Batch]
  /\ crashes \in 0..MaxCrashes

\* A source has a job, its fence, from the moment its row is gone; what a job
\* waits for is gone too.
FenceSound ==
  \A x \in Subjects :
    /\ x \in live <=> job[x].status = "none"
    /\ job[x].children \cap live = {}

\* A cleanup run holds a job of its own that is not at an end and waits for
\* nothing any more.
Holding(c) ==
  LET x == cleaner[c].job IN
  /\ x = None => cleaner[c].todo = {} /\ cleaner[c].free = None
  /\ x # None => job[x].status \in Unfinished /\ job[x].attempts < MaxAttempts /\ ChildrenDone(x)
CleanerSound ==
  /\ \A c \in Cleaners : Holding(c)
  /\ \A c, d \in Cleaners : cleaner[c].job # None /\ cleaner[c].job = cleaner[d].job => c = d

JobInv == SourceTypes /\ FenceSound /\ CleanerSound /\ ParentsFinishLast

\* A producer in progress keeps deletions away from its source.
ProducerSound ==
  \A n \in queueing : note[n] = NoNote /\ Source[n] \in live /\ ~BeingDeleted(Source[n])

\* A pending row has attempts left and a source.
RowsSound ==
  \A n \in Notes : note[n].status = "pending" => note[n].attempts < MaxAttempts /\ Source[n] \in live

\* The row a sender is at is pending and nobody else's.
SenderSound ==
  /\ \A w \in Senders :
       /\ sender[w].at # None => note[sender[w].at].status = "pending"
       /\ sender[w].at = None => sender[w].reply = "none"
  /\ \A v, w \in Senders : sender[v].at # None /\ sender[v].at = sender[w].at => v = w

\* A mail is an attempt, was cut off by a crash, or its answer is at hand.
Answered(n) == \E w \in Senders : sender[w].at = n /\ sender[w].reply # "none"
MailsCounted ==
  \A n \in Notes : mails[n] <= note[n].attempts + crashes + (IF Answered(n) THEN 1 ELSE 0)

NoteInv == NoteTypes /\ ProducerSound /\ RowsSound /\ SenderSound /\ MailsCounted

RetentionInv == JobInv /\ NoteInv

LEMMA TypesSplit == TypeOK <=> SourceTypes /\ NoteTypes
BY DEF TypeOK, SourceTypes, NoteTypes

LEMMA InvTypes == RetentionInv => TypeOK
BY TypesSplit DEF RetentionInv, JobInv, NoteInv

\* A source is deleted exactly when it has its fence.
LEMMA DeletedIsFenced ==
  ASSUME JobInv, NEW x \in Subjects
  PROVE  SourceDeleted(x) <=> x \notin live
BY DEF JobInv, FenceSound, SourceDeleted

(***************************************************************************)
(* Frames: what leaves one half's variables alone keeps that half.         *)
(***************************************************************************)
LEMMA JobFrame ==
  ASSUME JobInv, UNCHANGED <<sourceVars, jobVars>>
  PROVE  JobInv'
BY DEF JobInv, SourceTypes, FenceSound, CleanerSound, Holding, ChildrenDone, ParentsFinishLast,
       sourceVars, jobVars

LEMMA NoteFrame ==
  ASSUME NoteInv, UNCHANGED <<note, mails, queueing, sender, crashes, live>>,
         \A x \in Subjects : request'[x].open => request[x].open \/ \A n \in queueing : Source[n] \notin Tree(x)
  PROVE  NoteInv'
<1>1. \A n \in queueing : Source[n] \in live /\ ~BeingDeleted(Source[n]) => ~BeingDeleted(Source[n])'
  BY DEF BeingDeleted, Tree
<1>2. ProducerSound'
  BY <1>1 DEF NoteInv, ProducerSound
<1>3. NoteTypes' /\ RowsSound' /\ SenderSound' /\ MailsCounted'
  BY DEF NoteInv, NoteTypes, RowsSound, SenderSound, MailsCounted, Answered
<1> QED
  BY <1>2, <1>3 DEF NoteInv

(***************************************************************************)
(* The outbox.                                                             *)
(***************************************************************************)
NoteOnly == UNCHANGED <<sourceVars, jobVars>>

LEMMA QueueKeepsNotes ==
  ASSUME RowsAssumption, JobInv, NoteInv, NoteOnly, UNCHANGED crashes, NEW n \in Notes, QueueNotification(n)
  PROVE  NoteInv'
<1>1. Source[n] \in Subjects
  BY DEF RowsAssumption
<1>2. Source[n] \in live
  BY <1>1, DeletedIsFenced DEF QueueNotification
<1>3. ProducerSound'
  BY <1>2 DEF QueueNotification, NoteInv, ProducerSound, NoteOnly, sourceVars, jobVars, BeingDeleted, Tree
<1>4. NoteTypes' /\ RowsSound' /\ SenderSound' /\ MailsCounted'
  BY DEF QueueNotification, NoteOnly, sourceVars, NoteInv, NoteTypes, RowsSound, SenderSound, MailsCounted, Answered
<1> QED
  BY <1>3, <1>4 DEF NoteInv

LEMMA AbandonKeepsNotes ==
  ASSUME NoteInv, NoteOnly, UNCHANGED crashes, NEW n \in Notes, AbandonNotification(n)
  PROVE  NoteInv'
<1>1. ProducerSound'
  BY DEF AbandonNotification, NoteInv, ProducerSound, NoteOnly, sourceVars, jobVars, BeingDeleted, Tree
<1>2. NoteTypes' /\ RowsSound' /\ SenderSound' /\ MailsCounted'
  BY DEF AbandonNotification, NoteOnly, sourceVars, NoteInv, NoteTypes, RowsSound, SenderSound, MailsCounted, Answered
<1> QED
  BY <1>1, <1>2 DEF NoteInv

LEMMA CommitKeepsNotes ==
  ASSUME SubjectsAssumption, LimitsAssumption, NoteInv, NoteOnly, UNCHANGED crashes, NEW n \in Notes,
         CommitNotification(n)
  PROVE  NoteInv'
<1>1. PICK s \in {"pending", "suppressed"}, ch \in Channels :
        note' = [note EXCEPT ![n].status = s, ![n].channel = ch]
  BY DEF CommitNotification
<1>2. note \in [Notes -> Notification] /\ note[n] = NoNote /\ Source[n] \in live
  BY DEF CommitNotification, NoteInv, NoteTypes, ProducerSound
<1>3. note' = [note EXCEPT ![n] = [[@ EXCEPT !.status = s] EXCEPT !.channel = ch]]
  BY <1>1, <1>2
<1>4. [[note[n] EXCEPT !.status = s] EXCEPT !.channel = ch] \in Notification
  <2>1. note[n] \in Notification
    BY <1>2
  <2> QED
    BY <2>1 DEF Notification, NoteStatus
<1>5. note' \in [Notes -> Notification]
  BY <1>2, <1>3, <1>4
<1>6. \A m \in Notes \ {n} : note'[m] = note[m]
  BY <1>2, <1>3
<1>7. note'[n].attempts = 0 /\ note[n].attempts = 0 /\ note[n].status # "pending"
  BY <1>2, <1>3 DEF NoNote
<1>8. \A w \in Senders : sender[w].at # n
  BY <1>2, <1>7 DEF NoteInv, SenderSound, SubjectsAssumption
<1>9. NoteTypes'
  BY <1>5 DEF CommitNotification, NoteInv, NoteTypes
<1>10. ProducerSound'
  BY <1>6 DEF CommitNotification, NoteInv, NoteTypes, ProducerSound, NoteOnly, sourceVars, jobVars, BeingDeleted, Tree
<1>11. RowsSound'
  BY <1>2, <1>6, <1>7 DEF NoteInv, RowsSound, NoteOnly, sourceVars, LimitsAssumption
<1>12. SenderSound'
  <2>1. \A w \in Senders : sender[w].at \in Notes \cup {None}
    BY DEF NoteInv, NoteTypes, Batch
  <2>2. sender' = sender
    BY DEF CommitNotification
  <2>3. \A w \in Senders : sender[w].at # None => note'[sender[w].at] = note[sender[w].at]
    BY <2>1, <1>6, <1>8
  <2> QED
    BY <2>2, <2>3 DEF NoteInv, SenderSound
<1>13. MailsCounted'
  BY <1>6, <1>7 DEF NoteInv, MailsCounted, Answered, CommitNotification
<1> QED
  BY <1>9, <1>10, <1>11, <1>12, <1>13 DEF NoteInv

\* A sender's step that writes no row: what changes is its batch.
LEMMA BatchKeepsNotes ==
  ASSUME NoteInv, NoteOnly, UNCHANGED <<note, mails, queueing>>, crashes' \in {crashes, crashes + 1},
         crashes' \in 0..MaxCrashes,
         NEW w \in Senders, sender' \in [Senders -> Batch],
         \A v \in Senders \ {w} : sender'[v] = sender[v],
         sender'[w].reply = "none",
         sender[w].reply # "none" => crashes' = crashes + 1,
         sender'[w].at # None =>
           /\ note[sender'[w].at].status = "pending"
           /\ \A v \in Senders \ {w} : sender[v].at # sender'[w].at
  PROVE  NoteInv'
<1>1. NoteTypes' /\ ProducerSound' /\ RowsSound'
  BY DEF NoteInv, NoteTypes, ProducerSound, RowsSound, NoteOnly, sourceVars, jobVars, BeingDeleted, Tree
<1>2. SenderSound'
  BY DEF NoteInv, NoteTypes, SenderSound
<1>3. MailsCounted'
  <2> SUFFICES ASSUME NEW n \in Notes
               PROVE  mails'[n] <= note'[n].attempts + crashes' + (IF Answered(n)' THEN 1 ELSE 0)
    BY DEF MailsCounted
  <2>1. note[n].attempts \in Nat /\ mails[n] \in Nat /\ crashes \in Nat
        /\ mails[n] <= note[n].attempts + crashes + (IF Answered(n) THEN 1 ELSE 0)
    BY DEF NoteInv, NoteTypes, Notification, MailsCounted
  <2>2. crashes' = crashes => (Answered(n) => Answered(n)')
    BY DEF Answered
  <2> QED
    BY <2>1, <2>2
<1> QED
  BY <1>1, <1>2, <1>3 DEF NoteInv

LEMMA StartBatchKeepsNotes ==
  ASSUME NoteInv, NoteOnly, UNCHANGED crashes, NEW w \in Senders, StartBatch(w)
  PROVE  NoteInv'
<1>1. sender \in [Senders -> Batch] /\ crashes \in 0..MaxCrashes
  BY DEF NoteInv, NoteTypes
<1>2. sender[w] = NoBatch /\ sender' = [sender EXCEPT ![w].rows = PendingNotifications]
      /\ PendingNotifications \subseteq Notes
  BY DEF StartBatch, PendingNotifications
<1>3. sender' \in [Senders -> Batch] /\ sender'[w].at = None /\ sender'[w].reply = "none"
      /\ \A v \in Senders \ {w} : sender'[v] = sender[v]
  BY <1>1, <1>2 DEF Batch, NoBatch
<1> QED
  BY <1>1, <1>2, <1>3, BatchKeepsNotes DEF StartBatch, NoBatch

LEMMA LockRowKeepsNotes ==
  ASSUME NoteInv, NoteOnly, UNCHANGED crashes, NEW w \in Senders, NEW n \in Notes, LockRow(w, n)
  PROVE  NoteInv'
<1>1. sender \in [Senders -> Batch] /\ crashes \in 0..MaxCrashes
  BY DEF NoteInv, NoteTypes
<1>2. sender[w].reply = "none"
  BY DEF NoteInv, SenderSound, LockRow
<1>3. sender' \in [Senders -> Batch] /\ sender'[w].at = n /\ sender'[w].reply = "none"
      /\ \A v \in Senders \ {w} : sender'[v] = sender[v] /\ sender[v].at # n
  BY <1>1, <1>2 DEF Batch, LockRow, RowFree
<1>4. note[n].status = "pending"
  BY DEF LockRow
<1> QED
  BY <1>1, <1>2, <1>3, <1>4, BatchKeepsNotes DEF LockRow

LEMMA SkipRowKeepsNotes ==
  ASSUME NoteInv, NoteOnly, UNCHANGED crashes, NEW w \in Senders, NEW n \in Notes, SkipRow(w, n)
  PROVE  NoteInv'
<1>1. sender \in [Senders -> Batch] /\ crashes \in 0..MaxCrashes
  BY DEF NoteInv, NoteTypes
<1>2. sender[w].reply = "none"
  BY DEF NoteInv, SenderSound, SkipRow
<1>3. sender' \in [Senders -> Batch] /\ sender'[w].at = None /\ sender'[w].reply = "none"
      /\ \A v \in Senders \ {w} : sender'[v] = sender[v]
  BY <1>1, <1>2 DEF Batch, SkipRow
<1> QED
  BY <1>1, <1>2, <1>3, BatchKeepsNotes DEF SkipRow

LEMMA SenderCrashKeepsNotes ==
  ASSUME LimitsAssumption, NoteInv, NoteOnly, crashes' = crashes + 1, crashes < MaxCrashes,
         NEW w \in Senders, SenderCrash(w), UNCHANGED <<mails, queueing, note>>
  PROVE  NoteInv'
<1>1. sender \in [Senders -> Batch] /\ crashes' \in 0..MaxCrashes
  BY DEF NoteInv, NoteTypes, LimitsAssumption
<1>2. sender' \in [Senders -> Batch] /\ sender'[w].at = None /\ sender'[w].reply = "none"
      /\ \A v \in Senders \ {w} : sender'[v] = sender[v]
  BY <1>1 DEF Batch, SenderCrash, NoBatch
<1> QED
  BY <1>1, <1>2, BatchKeepsNotes

LEMMA SendKeepsNotes ==
  ASSUME NoteInv, NoteOnly, UNCHANGED crashes, NEW w \in Senders, Send(w)
  PROVE  NoteInv'
<1> DEFINE n == sender[w].at
<1>1. sender \in [Senders -> Batch] /\ mails \in [Notes -> Nat] /\ n \in Notes /\ n # None
      /\ sender[w].reply = "none"
  BY DEF NoteInv, NoteTypes, Batch, Send
<1>2. PICK r \in {"ok", "refused"} : sender' = [sender EXCEPT ![w].reply = r]
  BY DEF Send
<1>3. mails' = mails \/ mails' = [mails EXCEPT ![n] = @ + 1]
  BY DEF Send
<1>4. sender' \in [Senders -> Batch] /\ sender'[w].at = n /\ sender'[w].reply # "none"
      /\ \A v \in Senders \ {w} : sender'[v] = sender[v]
  BY <1>1, <1>2 DEF Batch
<1>5. UNCHANGED <<note, queueing, crashes, live, request>>
  BY DEF Send, NoteOnly, sourceVars, jobVars
<1>6. mails' \in [Notes -> Nat] /\ mails'[n] \in {mails[n], mails[n] + 1}
      /\ \A m \in Notes \ {n} : mails'[m] = mails[m]
  BY <1>1, <1>3
<1> HIDE DEF n
<1>7. NoteTypes' /\ ProducerSound' /\ RowsSound'
  BY <1>4, <1>5, <1>6 DEF NoteInv, NoteTypes, ProducerSound, RowsSound, BeingDeleted, Tree
<1>8. SenderSound'
  BY <1>1, <1>4, <1>5 DEF NoteInv, SenderSound, n
<1>9. MailsCounted'
  <2> SUFFICES ASSUME NEW m \in Notes
               PROVE  mails'[m] <= note'[m].attempts + crashes' + (IF Answered(m)' THEN 1 ELSE 0)
    BY DEF MailsCounted
  <2>1. /\ note[m].attempts \in Nat /\ mails[m] \in Nat /\ crashes \in Nat
        /\ mails[m] <= note[m].attempts + crashes + (IF Answered(m) THEN 1 ELSE 0)
    BY DEF NoteInv, NoteTypes, Notification, MailsCounted
  <2>2. CASE m = n
    <3>1. ~Answered(m)
      BY <1>1, <2>2 DEF Answered, NoteInv, SenderSound, n
    <3>2. Answered(m)'
      BY <1>4, <2>2 DEF Answered
    <3> QED
      BY <2>1, <2>2, <3>1, <3>2, <1>5, <1>6
  <2>3. CASE m # n
    <3>1. Answered(m) => Answered(m)'
      BY <1>4, <2>3 DEF Answered, n
    <3> QED
      BY <2>1, <2>3, <3>1, <1>5, <1>6
  <2> QED
    BY <2>2, <2>3
<1> QED
  BY <1>7, <1>8, <1>9 DEF NoteInv

\* The commit that ends the handling of a row counts an attempt, or the row was
\* never sent.
LEMMA RowDoneKeepsNotes ==
  ASSUME NoteInv, NoteOnly, UNCHANGED <<crashes, mails, queueing>>,
         NEW w \in Senders, sender[w].at # None, RowDone(w),
         NEW row \in Notification, note' = [note EXCEPT ![sender[w].at] = row],
         row.attempts = note[sender[w].at].attempts + 1
           \/ (row.attempts = note[sender[w].at].attempts /\ sender[w].reply = "none"),
         row.status = "pending" => row.attempts < MaxAttempts
  PROVE  NoteInv'
<1> DEFINE n == sender[w].at
<1>1. sender \in [Senders -> Batch] /\ note \in [Notes -> Notification] /\ n \in Notes
  BY DEF NoteInv, NoteTypes, Batch
<1>2. note' \in [Notes -> Notification] /\ note'[n] = row /\ \A m \in Notes \ {n} : note'[m] = note[m]
  BY <1>1
<1>3. sender' \in [Senders -> Batch] /\ sender'[w].at = None /\ sender'[w].reply = "none"
      /\ \A v \in Senders \ {w} : sender'[v] = sender[v]
  BY <1>1 DEF RowDone, Batch
<1>4. \A v \in Senders \ {w} : sender[v].at # n
  BY DEF NoteInv, SenderSound
<1>5. note[n].status = "pending"
  BY DEF NoteInv, SenderSound
<1>6. UNCHANGED <<live, request, crashes, mails, queueing>>
  BY DEF NoteOnly, sourceVars, jobVars
<1>7. /\ row.attempts = note[n].attempts + 1 \/ (row.attempts = note[n].attempts /\ sender[w].reply = "none")
      /\ row.status = "pending" => row.attempts < MaxAttempts
      /\ n # None
  OBVIOUS
<1>11. n = sender[w].at
  OBVIOUS
<1> HIDE DEF n
<1>8. NoteTypes' /\ RowsSound'
  BY <1>1, <1>2, <1>3, <1>5, <1>6, <1>7 DEF NoteInv, NoteTypes, RowsSound
<1>9. ProducerSound' /\ SenderSound'
  <2>1. n \notin queueing
    BY <1>5 DEF NoteInv, ProducerSound, NoNote
  <2>2. ProducerSound'
    BY <2>1, <1>2, <1>6 DEF NoteInv, NoteTypes, ProducerSound, BeingDeleted, Tree
  <2>3. \A v \in Senders : sender[v].at \in Notes \cup {None}
    BY <1>1 DEF Batch
  <2>4. SenderSound'
    BY <2>3, <1>2, <1>3, <1>4 DEF NoteInv, SenderSound
  <2> QED
    BY <2>2, <2>4
<1>10. MailsCounted'
  <2> SUFFICES ASSUME NEW m \in Notes
               PROVE  mails'[m] <= note'[m].attempts + crashes' + (IF Answered(m)' THEN 1 ELSE 0)
    BY DEF MailsCounted
  <2>1. /\ note[m].attempts \in Nat /\ mails[m] \in Nat /\ crashes \in Nat
        /\ mails[m] <= note[m].attempts + crashes + (IF Answered(m) THEN 1 ELSE 0)
    BY DEF NoteInv, NoteTypes, Notification, MailsCounted
  <2>2. CASE m = n
    <3>1. Answered(m) => sender[w].reply # "none"
      BY <1>4, <2>2 DEF Answered
    <3> QED
      BY <2>1, <2>2, <3>1, <1>2, <1>6, <1>7
  <2>3. CASE m # n
    <3>1. Answered(m) => Answered(m)'
      BY <1>3, <1>11, <2>3 DEF Answered
    <3> QED
      BY <2>1, <2>3, <3>1, <1>2, <1>6
  <2> QED
    BY <2>2, <2>3
<1> QED
  BY <1>8, <1>9, <1>10 DEF NoteInv

\* What is at a sender is pending and has attempts left.
LEMMA AtSender ==
  ASSUME LimitsAssumption, NoteInv, NEW w \in Senders, sender[w].at # None
  PROVE  /\ sender[w].at \in Notes /\ note[sender[w].at] \in Notification
         /\ note[sender[w].at].status = "pending"
         /\ note[sender[w].at].attempts + 1 \in 0..MaxAttempts
         /\ note[sender[w].at].attempts < MaxAttempts
         /\ Source[sender[w].at] \in live
<1>1. sender[w].at \in Notes
  BY DEF NoteInv, NoteTypes, Batch
<1>2. note[sender[w].at] \in Notification /\ note[sender[w].at].status = "pending"
  BY <1>1 DEF NoteInv, NoteTypes, SenderSound
<1>3. note[sender[w].at].attempts < MaxAttempts /\ Source[sender[w].at] \in live
  BY <1>1, <1>2 DEF NoteInv, RowsSound
<1>4. note[sender[w].at].attempts + 1 \in 0..MaxAttempts
  BY <1>2, <1>3 DEF Notification, LimitsAssumption
<1> QED
  BY <1>1, <1>2, <1>3, <1>4

LEMMA SuppressKeepsNotes ==
  ASSUME LimitsAssumption, NoteInv, NoteOnly, UNCHANGED crashes, NEW w \in Senders, Suppress(w)
  PROVE  NoteInv'
<1> DEFINE n == sender[w].at
<1> DEFINE row == [[note[n] EXCEPT !.status = "suppressed"] EXCEPT !.waits = FALSE]
<1>1. n # None /\ n \in Notes /\ note[n] \in Notification /\ note \in [Notes -> Notification]
  BY AtSender DEF Suppress, NoteInv, NoteTypes
<1>2. note' = [note EXCEPT ![n] = row] /\ RowDone(w) /\ UNCHANGED <<mails, queueing>>
      /\ sender[w].reply = "none"
  BY <1>1 DEF Suppress
<1>3. row \in Notification /\ row.attempts = note[n].attempts /\ row.status = "suppressed"
  BY <1>1 DEF Notification, NoteStatus
<1> HIDE DEF row
<1> QED
  BY <1>1, <1>2, <1>3, RowDoneKeepsNotes

\* mark_sent, of a mail or of a row in the application.
LEMMA SentKeepsNotes ==
  ASSUME LimitsAssumption, NoteInv, NoteOnly, UNCHANGED <<crashes, mails, queueing>>,
         NEW w \in Senders, sender[w].at # None, RowDone(w),
         note' = [note EXCEPT ![sender[w].at].status = "sent", ![sender[w].at].attempts = @ + 1,
                              ![sender[w].at].waits = FALSE]
  PROVE  NoteInv'
<1> DEFINE n == sender[w].at
<1> DEFINE row == [[[note[n] EXCEPT !.status = "sent"] EXCEPT !.attempts = @ + 1] EXCEPT !.waits = FALSE]
<1>1. n \in Notes /\ note[n] \in Notification /\ note \in [Notes -> Notification]
      /\ note[n].attempts + 1 \in 0..MaxAttempts
  BY AtSender DEF NoteInv, NoteTypes
<1>2. note' = [note EXCEPT ![n] = row]
  BY <1>1
<1>3. row \in Notification /\ row.attempts = note[n].attempts + 1 /\ row.status = "sent"
  BY <1>1 DEF Notification, NoteStatus
<1> HIDE DEF row
<1> QED
  BY <1>1, <1>2, <1>3, RowDoneKeepsNotes

LEMMA MarkFailedKeepsNotes ==
  ASSUME LimitsAssumption, NoteInv, NoteOnly, UNCHANGED crashes, NEW w \in Senders, MarkFailed(w)
  PROVE  NoteInv'
<1> DEFINE n == sender[w].at
<1> DEFINE gaveUp == note[n].attempts + 1 >= MaxAttempts
<1> DEFINE status == IF gaveUp THEN "failed" ELSE "pending"
<1> DEFINE waits == ~gaveUp
<1> DEFINE row == [[[note[n] EXCEPT !.status = status] EXCEPT !.attempts = note[n].attempts + 1]
                             EXCEPT !.waits = waits]
<1>1. n # None
  BY DEF MarkFailed, NoteInv, SenderSound
<1>2. n \in Notes /\ note[n] \in Notification /\ note \in [Notes -> Notification]
      /\ note[n].attempts + 1 \in 0..MaxAttempts
  BY <1>1, AtSender DEF NoteInv, NoteTypes
<1>3. RowDone(w) /\ UNCHANGED <<mails, queueing>>
  BY DEF MarkFailed
<1>4. note' = [note EXCEPT ![n].status = status, ![n].attempts = @ + 1, ![n].waits = waits]
  BY DEF MarkFailed
<1>5. status \in {"failed", "pending"} /\ waits \in BOOLEAN
      /\ (status = "pending" => note[n].attempts + 1 < MaxAttempts)
  BY <1>2 DEF LimitsAssumption
<1> HIDE DEF status, waits, gaveUp
<1>6. note' = [note EXCEPT ![n] = row]
  BY <1>2, <1>4 DEF Notification
<1>7. row \in Notification /\ row.attempts = note[n].attempts + 1 /\ row.status = status
  BY <1>2, <1>5 DEF Notification, NoteStatus
<1> HIDE DEF row
<1> QED
  BY <1>1, <1>2, <1>3, <1>5, <1>6, <1>7, RowDoneKeepsNotes

LEMMA BackoffKeepsNotes ==
  ASSUME NoteInv, NoteOnly, UNCHANGED crashes, NEW n \in Notes, BackoffEnds(n)
  PROVE  NoteInv'
<1>1. note \in [Notes -> Notification]
  BY DEF NoteInv, NoteTypes
<1>2. note' = [note EXCEPT ![n] = [@ EXCEPT !.waits = FALSE]]
  BY <1>1 DEF BackoffEnds
<1>3. [note[n] EXCEPT !.waits = FALSE] \in Notification
  BY <1>1 DEF Notification
<1>4. /\ note' \in [Notes -> Notification]
      /\ \A m \in Notes : note'[m].status = note[m].status /\ note'[m].attempts = note[m].attempts
      /\ \A m \in Notes \ {n} : note'[m] = note[m]
  BY <1>1, <1>2, <1>3 DEF Notification
<1>5. UNCHANGED <<mails, queueing, sender, crashes, live, request>>
  BY DEF BackoffEnds, NoteOnly, sourceVars, jobVars
<1>6. NoteTypes' /\ RowsSound' /\ MailsCounted'
  BY <1>4, <1>5 DEF NoteInv, NoteTypes, RowsSound, MailsCounted, Answered
<1>7. ProducerSound'
  <2>1. n \notin queueing
    BY DEF BackoffEnds, NoteInv, ProducerSound, NoNote
  <2> QED
    BY <2>1, <1>4, <1>5 DEF NoteInv, NoteTypes, ProducerSound, BeingDeleted, Tree
<1>8. SenderSound'
  <2>1. \A w \in Senders : sender[w].at \in Notes \cup {None}
    BY DEF NoteInv, NoteTypes, Batch
  <2> QED
    BY <2>1, <1>4, <1>5 DEF NoteInv, SenderSound
<1> QED
  BY <1>6, <1>7, <1>8 DEF NoteInv

LEMMA OutboxKeepsInv ==
  ASSUME SubjectsAssumption, RowsAssumption, LimitsAssumption, RetentionInv, OutboxStep
  PROVE  RetentionInv'
<1>1. JobInv /\ NoteInv /\ NoteOnly /\ UNCHANGED crashes
  BY DEF RetentionInv, OutboxStep, NoteOnly
<1>2. ASSUME NEW n \in Notes, ProducerStep(n) \/ BackoffEnds(n) PROVE NoteInv'
  BY <1>1, <1>2, QueueKeepsNotes, CommitKeepsNotes, AbandonKeepsNotes, BackoffKeepsNotes DEF ProducerStep
<1>3. ASSUME NEW w \in Senders, SenderStep(w) PROVE NoteInv'
  <2>1. CASE MarkInappSent(w) \/ MarkSent(w)
    <3>1. sender[w].at # None
      BY <1>1, <2>1 DEF MarkInappSent, MarkSent, NoteInv, SenderSound
    <3> QED
      BY <1>1, <2>1, <3>1, SentKeepsNotes DEF MarkInappSent, MarkSent
  <2> QED
    BY <1>1, <1>3, <2>1, StartBatchKeepsNotes, LockRowKeepsNotes, SkipRowKeepsNotes, SuppressKeepsNotes,
       SendKeepsNotes, MarkFailedKeepsNotes DEF SenderStep
<1>4. NoteInv'
  BY <1>2, <1>3 DEF OutboxStep
<1>5. JobInv'
  BY <1>1, JobFrame DEF NoteOnly
<1> QED
  BY <1>4, <1>5 DEF RetentionInv

(***************************************************************************)
(* Deletions.                                                              *)
(***************************************************************************)
NotesApart == UNCHANGED <<note, mails, queueing, sender, crashes, live>>

\* What an ordinary step of a deletion or its cleanup may do to the jobs: no job
\* comes or goes, none is done before what it waits for, and none is undone.
Advances(y) ==
  /\ job'[y].children = job[y].children
  /\ job'[y].status = "none" <=> job[y].status = "none"
  /\ job[y].status = "done" => job'[y].status = "done"
  /\ job'[y].status = "done" => job[y].status = "done" \/ ChildrenDone(y)

LEMMA JobsKeepInv ==
  ASSUME JobInv, SourceTypes', UNCHANGED live, \A y \in Subjects : Advances(y),
         \A c \in Cleaners :
           /\ cleaner'[c].job = None => cleaner'[c].todo = {} /\ cleaner'[c].free = None
           /\ cleaner'[c].job # None =>
                /\ job'[cleaner'[c].job].status \in Unfinished
                /\ job'[cleaner'[c].job].attempts < MaxAttempts
                /\ ChildrenDone(cleaner'[c].job),
         \A c, d \in Cleaners : cleaner'[c].job # None /\ cleaner'[c].job = cleaner'[d].job => c = d
  PROVE  JobInv'
<1>1. \A y \in Subjects : job[y].children \subseteq Subjects
  BY DEF JobInv, SourceTypes, Job
<1>2. \A y \in Subjects : ChildrenDone(y) => ChildrenDone(y)'
  BY <1>1 DEF ChildrenDone, Advances
<1>3. FenceSound'
  BY DEF JobInv, FenceSound, Advances
<1>4. CleanerSound'
  <2>1. \A c \in Cleaners : cleaner'[c].job \in Subjects \cup {None}
    BY DEF SourceTypes, Cleanup
  <2> QED
    BY <2>1, <1>2 DEF CleanerSound, Holding
<1>5. ParentsFinishLast'
  BY <1>1, <1>2 DEF JobInv, ParentsFinishLast, Advances, ChildrenDone
<1> QED
  BY <1>3, <1>4, <1>5 DEF JobInv

\* Where the jobs do not change, only the cleanup runs are left to see to.
LEMMA SameJobs ==
  ASSUME JobInv, UNCHANGED job, NEW y \in Subjects
  PROVE  Advances(y)
BY DEF Advances

LEMMA CleanersHold ==
  ASSUME JobInv, NEW c \in Cleaners
  PROVE  /\ cleaner[c] \in Cleanup
         /\ cleaner[c].job = None => cleaner[c].todo = {} /\ cleaner[c].free = None
         /\ cleaner[c].job # None =>
              /\ cleaner[c].job \in Subjects
              /\ job[cleaner[c].job] \in Job
              /\ job[cleaner[c].job].status \in Unfinished
              /\ job[cleaner[c].job].attempts < MaxAttempts
              /\ ChildrenDone(cleaner[c].job)
         /\ \A d \in Cleaners : cleaner[c].job # None /\ cleaner[c].job = cleaner[d].job => c = d
BY DEF JobInv, SourceTypes, Cleanup, CleanerSound, Holding

\* Requests and the sharing of objects.
LEMMA RequestsKeepInv ==
  ASSUME RetentionInv, NotesApart, UNCHANGED <<job, cleaner, stored, retries>>,
         files' \in [Subjects -> SUBSET Keys], request' \in [Subjects -> Deletion],
         \A x \in Subjects : request'[x].open => request[x].open \/ \A n \in queueing : Source[n] \notin Tree(x)
  PROVE  RetentionInv'
<1>1. JobInv
  BY DEF RetentionInv
<1>2. SourceTypes'
  BY <1>1 DEF JobInv, SourceTypes, NotesApart
<1>3. UNCHANGED live
  BY DEF NotesApart
<1>4. \A c \in Cleaners : cleaner'[c] = cleaner[c]
  OBVIOUS
<1>5. JobInv'
  BY <1>1, <1>2, <1>3, <1>4, JobsKeepInv, SameJobs, CleanersHold
<1>6. NoteInv'
  BY NoteFrame DEF RetentionInv, NotesApart
<1> QED
  BY <1>5, <1>6 DEF RetentionInv

LEMMA ClaimKeepsInv ==
  ASSUME RetentionInv, NotesApart, NEW x \in Subjects, NEW k \in Keys, ClaimKey(x, k)
  PROVE  RetentionInv'
<1>1. files \in [Subjects -> SUBSET Keys] /\ request \in [Subjects -> Deletion]
  BY DEF RetentionInv, JobInv, SourceTypes
<1>2. files' \in [Subjects -> SUBSET Keys] /\ UNCHANGED <<job, request, cleaner, stored, retries>>
  BY <1>1 DEF ClaimKey, jobVars
<1> QED
  BY <1>1, <1>2, RequestsKeepInv

LEMMA RequestKeepsInv ==
  ASSUME RetentionInv, NotesApart, NEW x \in Subjects, RequestDeletion(x)
  PROVE  RetentionInv'
<1>1. files \in [Subjects -> SUBSET Keys] /\ request \in [Subjects -> Deletion]
  BY DEF RetentionInv, JobInv, SourceTypes
<1> DEFINE others == UNION {files[y] : y \in (live \cap Sows) \ Tree(x)}
<1>2. live \subseteq Subjects
  BY DEF RetentionInv, JobInv, SourceTypes
<1>3. others \subseteq Keys
  BY <1>1, <1>2
<1>4. request' = [request EXCEPT ![x] = [open |-> TRUE, others |-> others]]
      /\ UNCHANGED <<files, job, cleaner, stored, retries>>
  BY DEF RequestDeletion, sourceVars
<1> HIDE DEF others
<1>5. request' \in [Subjects -> Deletion] /\ \A y \in Subjects \ {x} : request'[y] = request[y]
  BY <1>1, <1>3, <1>4 DEF Deletion
<1>6. \A n \in queueing : Source[n] \notin Tree(x)
  BY DEF RequestDeletion
<1> QED
  BY <1>1, <1>4, <1>5, <1>6, RequestsKeepInv

LEMMA AbortKeepsInv ==
  ASSUME RetentionInv, NotesApart, NEW x \in Subjects, AbortDeletion(x)
  PROVE  RetentionInv'
<1>1. files \in [Subjects -> SUBSET Keys] /\ request \in [Subjects -> Deletion]
  BY DEF RetentionInv, JobInv, SourceTypes
<1>2. request' = [request EXCEPT ![x] = NoRequest] /\ UNCHANGED <<files, job, cleaner, stored, retries>>
  BY DEF AbortDeletion, sourceVars
<1>3. request' \in [Subjects -> Deletion] /\ \A y \in Subjects : request'[y].open => request[y].open
  BY <1>1, <1>2 DEF Deletion, NoRequest
<1> QED
  BY <1>1, <1>2, <1>3, RequestsKeepInv

(***************************************************************************)
(* The cleanup.                                                            *)
(***************************************************************************)
LEMMA CleanupKeepsInv ==
  ASSUME RetentionInv, NotesApart, UNCHANGED <<files, request>>, stored' \subseteq Keys,
         retries' \in 0..MaxRetries, cleaner' \in [Cleaners -> Cleanup], job' \in [Subjects -> Job],
         \A y \in Subjects : Advances(y),
         \A c \in Cleaners :
           /\ cleaner'[c].job = None => cleaner'[c].todo = {} /\ cleaner'[c].free = None
           /\ cleaner'[c].job # None =>
                /\ job'[cleaner'[c].job].status \in Unfinished
                /\ job'[cleaner'[c].job].attempts < MaxAttempts
                /\ ChildrenDone(cleaner'[c].job),
         \A c, d \in Cleaners : cleaner'[c].job # None /\ cleaner'[c].job = cleaner'[d].job => c = d
  PROVE  RetentionInv'
<1>1. SourceTypes'
  BY DEF RetentionInv, JobInv, SourceTypes, NotesApart
<1>2. JobInv'
  BY <1>1, JobsKeepInv DEF RetentionInv, NotesApart
<1>3. NoteInv'
  BY NoteFrame DEF RetentionInv, NotesApart
<1> QED
  BY <1>2, <1>3 DEF RetentionInv

\* A run changes what it holds, and the jobs stay as they are.
LEMMA HoldKeepsInv ==
  ASSUME RetentionInv, NotesApart, UNCHANGED <<files, request, job, retries>>, stored' \subseteq Keys,
         NEW c \in Cleaners, cleaner' \in [Cleaners -> Cleanup],
         \A d \in Cleaners \ {c} : cleaner'[d] = cleaner[d],
         cleaner'[c].job = None => cleaner'[c].todo = {} /\ cleaner'[c].free = None,
         cleaner'[c].job # None => cleaner'[c].job = cleaner[c].job \/
           /\ job[cleaner'[c].job].status \in Unfinished
           /\ job[cleaner'[c].job].attempts < MaxAttempts
           /\ ChildrenDone(cleaner'[c].job)
           /\ ~Held(cleaner'[c].job)
  PROVE  RetentionInv'
<1>1. JobInv /\ retries' \in 0..MaxRetries /\ job' \in [Subjects -> Job]
  BY DEF RetentionInv, JobInv, SourceTypes
<1>2. \A d \in Cleaners :
        /\ cleaner'[d].job = None => cleaner'[d].todo = {} /\ cleaner'[d].free = None
        /\ cleaner'[d].job # None =>
             /\ job'[cleaner'[d].job].status \in Unfinished
             /\ job'[cleaner'[d].job].attempts < MaxAttempts
             /\ ChildrenDone(cleaner'[d].job)
  BY <1>1, CleanersHold
<1>3. \A d, e \in Cleaners : cleaner'[d].job # None /\ cleaner'[d].job = cleaner'[e].job => d = e
  BY <1>1, CleanersHold DEF Held
<1>4. \A y \in Subjects : Advances(y)
  BY <1>1, SameJobs
<1> QED
  BY <1>1, <1>2, <1>3, <1>4, CleanupKeepsInv

LEMMA TakeJobKeepsInv ==
  ASSUME SubjectsAssumption, RetentionInv, NotesApart,
         NEW c \in Cleaners, NEW x \in Subjects, TakeJob(c, x)
  PROVE  RetentionInv'
<1>1. cleaner \in [Cleaners -> Cleanup] /\ job[x].objects \subseteq Keys /\ stored \subseteq Keys
  BY DEF RetentionInv, JobInv, SourceTypes, Job
<1>2. /\ cleaner' \in [Cleaners -> Cleanup]
      /\ cleaner'[c].job = x /\ cleaner'[c].free = None
      /\ \A d \in Cleaners \ {c} : cleaner'[d] = cleaner[d]
  BY <1>1 DEF TakeJob, Cleanup
<1>3. UNCHANGED <<files, request, job, retries, stored>>
  BY DEF TakeJob, sourceVars
<1>4. job[x].status \in Unfinished /\ job[x].attempts < MaxAttempts /\ ChildrenDone(x) /\ ~Held(x)
  BY DEF TakeJob, Due
<1>5. x # None
  BY DEF SubjectsAssumption
<1> QED
  BY <1>1, <1>2, <1>3, <1>4, <1>5, HoldKeepsInv

LEMMA CheckKeyKeepsInv ==
  ASSUME RetentionInv, NotesApart, NEW c \in Cleaners, NEW k \in Keys, CheckKey(c, k)
  PROVE  RetentionInv'
<1>1. cleaner \in [Cleaners -> Cleanup] /\ stored \subseteq Keys /\ JobInv
  BY DEF RetentionInv, JobInv, SourceTypes
<1>2. /\ cleaner' \in [Cleaners -> Cleanup]
      /\ cleaner'[c].job = cleaner[c].job
      /\ \A d \in Cleaners \ {c} : cleaner'[d] = cleaner[d]
  <2>1. cleaner[c] \in Cleanup
    BY <1>1
  <2>2. CASE KeyIsReferenced(k)
    BY <1>1, <2>1, <2>2 DEF CheckKey, Cleanup
  <2>3. CASE ~KeyIsReferenced(k)
    BY <1>1, <2>1, <2>3 DEF CheckKey, Cleanup
  <2> QED
    BY <2>2, <2>3
<1>3. UNCHANGED <<files, request, job, retries, stored>>
  BY DEF CheckKey, sourceVars
<1>4. cleaner[c].job # None
  BY <1>1, CleanersHold DEF CheckKey
<1> QED
  BY <1>1, <1>2, <1>3, <1>4, HoldKeepsInv

LEMMA RemoveObjectKeepsInv ==
  ASSUME RetentionInv, NotesApart, NEW c \in Cleaners, RemoveObject(c)
  PROVE  RetentionInv'
<1>1. cleaner \in [Cleaners -> Cleanup] /\ stored \subseteq Keys /\ JobInv
  BY DEF RetentionInv, JobInv, SourceTypes
<1>2. /\ cleaner' \in [Cleaners -> Cleanup]
      /\ cleaner'[c].job = cleaner[c].job
      /\ \A d \in Cleaners \ {c} : cleaner'[d] = cleaner[d]
  BY <1>1 DEF RemoveObject, Cleanup
<1>3. UNCHANGED <<files, request, job, retries>> /\ stored' \subseteq Keys
  BY <1>1 DEF RemoveObject, sourceVars
<1>4. cleaner[c].job # None
  BY <1>1, CleanersHold DEF RemoveObject
<1> QED
  BY <1>1, <1>2, <1>3, <1>4, HoldKeepsInv

\* A job in a transaction of its own: put off, failed, finished, due again.
LEMMA JobKeepsInv ==
  ASSUME SubjectsAssumption, RetentionInv, NotesApart, UNCHANGED <<files, request, retries>>,
         stored' \subseteq Keys,
         NEW x \in Subjects, NEW row \in Job, job' = [job EXCEPT ![x] = row],
         row.children = job[x].children, row.status # "none", job[x].status # "none",
         job[x].status = "done" => row.status = "done",
         row.status = "done" => job[x].status = "done" \/ ChildrenDone(x),
         cleaner' \in [Cleaners -> Cleanup],
         \A c \in Cleaners : cleaner'[c] = cleaner[c] \/ cleaner'[c] = NoCleanup,
         \A c \in Cleaners : cleaner'[c].job = x =>
           row.status \in Unfinished /\ row.attempts < MaxAttempts
  PROVE  RetentionInv'
<1>1. JobInv /\ job \in [Subjects -> Job] /\ retries' \in 0..MaxRetries
  BY DEF RetentionInv, JobInv, SourceTypes
<1>2. job' \in [Subjects -> Job] /\ job'[x] = row /\ \A y \in Subjects \ {x} : job'[y] = job[y]
  BY <1>1
<1>3. \A y \in Subjects : Advances(y)
  BY <1>2 DEF Advances
<1>4. \A c \in Cleaners : cleaner'[c].job # None =>
        cleaner'[c] = cleaner[c] /\ cleaner'[c].job \in Subjects
  BY <1>1, CleanersHold DEF NoCleanup
<1>5. \A c \in Cleaners :
        /\ cleaner'[c].job = None => cleaner'[c].todo = {} /\ cleaner'[c].free = None
        /\ cleaner'[c].job # None =>
             /\ job'[cleaner'[c].job].status \in Unfinished
             /\ job'[cleaner'[c].job].attempts < MaxAttempts
             /\ ChildrenDone(cleaner'[c].job)
  BY <1>1, <1>2, <1>4, CleanersHold DEF NoCleanup
<1>6. \A c, d \in Cleaners : cleaner'[c].job # None /\ cleaner'[c].job = cleaner'[d].job => c = d
  BY <1>1, <1>4, CleanersHold
<1> QED
  BY <1>1, <1>2, <1>3, <1>5, <1>6, CleanupKeepsInv

LEMMA PutOffKeepsInv ==
  ASSUME SubjectsAssumption, RetentionInv, NotesApart,
         NEW c \in Cleaners, NEW x \in Subjects, PutOff(c, x)
  PROVE  RetentionInv'
<1> DEFINE status == IF ChildFailed(x) THEN "failed" ELSE job[x].status
<1> DEFINE row == [[job[x] EXCEPT !.waits = TRUE] EXCEPT !.status = status]
<1>1. job \in [Subjects -> Job] /\ cleaner \in [Cleaners -> Cleanup] /\ stored \subseteq Keys
  BY DEF RetentionInv, JobInv, SourceTypes
<1>2. job[x].status \in Unfinished /\ status \in Unfinished /\ ~Held(x) /\ job[x].attempts < MaxAttempts
      /\ job[x] \in Job
  BY <1>1 DEF PutOff, Due, Unfinished
<1>3. job' = [job EXCEPT ![x].waits = TRUE, ![x].status = status]
      /\ UNCHANGED <<files, request, cleaner, stored, retries>>
  BY DEF PutOff, sourceVars
<1> HIDE DEF status
<1>4. job' = [job EXCEPT ![x] = row]
  BY <1>1, <1>3 DEF Job
<1>5. row \in Job /\ row.children = job[x].children /\ row.status = status /\ row.attempts = job[x].attempts
  BY <1>2 DEF Job, JobStatus, Unfinished
<1>6. status # "none" /\ status # "done" /\ job[x].status # "none" /\ job[x].status # "done"
  BY <1>2 DEF Unfinished
<1> HIDE DEF row
<1> QED
  BY <1>1, <1>2, <1>3, <1>4, <1>5, <1>6, JobKeepsInv

\* A run ends its job: the other runs hold other jobs.
LEMMA OthersHoldOthers ==
  ASSUME RetentionInv, NEW c \in Cleaners, cleaner[c].job # None,
         cleaner' = [cleaner EXCEPT ![c] = NoCleanup]
  PROVE  /\ cleaner' \in [Cleaners -> Cleanup]
         /\ \A d \in Cleaners : cleaner'[d] = cleaner[d] \/ cleaner'[d] = NoCleanup
         /\ \A d \in Cleaners : cleaner'[d].job # None => cleaner'[d].job # cleaner[c].job
<1>1. JobInv /\ cleaner \in [Cleaners -> Cleanup]
  BY DEF RetentionInv, JobInv, SourceTypes
<1>2. NoCleanup \in Cleanup
  BY DEF NoCleanup, Cleanup
<1>3. cleaner'[c] = NoCleanup /\ \A d \in Cleaners \ {c} : cleaner'[d] = cleaner[d]
  BY <1>1
<1>4. \A d \in Cleaners \ {c} : cleaner[d].job # None => cleaner[d].job # cleaner[c].job
  BY <1>1, CleanersHold
<1> QED
  BY <1>1, <1>2, <1>3, <1>4 DEF NoCleanup

LEMMA FailsKeepsInv ==
  ASSUME SubjectsAssumption, LimitsAssumption, RetentionInv, NotesApart, NEW c \in Cleaners, RemovalFails(c)
  PROVE  RetentionInv'
<1> DEFINE x == cleaner[c].job
<1> DEFINE row == [[[job[x] EXCEPT !.status = "failed"] EXCEPT !.attempts = job[x].attempts + 1]
                             EXCEPT !.waits = TRUE]
<1>1. job \in [Subjects -> Job] /\ stored \subseteq Keys /\ JobInv
  BY DEF RetentionInv, JobInv, SourceTypes
<1>2. x # None
  BY <1>1, CleanersHold DEF RemovalFails
<1>3. x \in Subjects /\ job[x] \in Job /\ job[x].status \in Unfinished /\ job[x].attempts < MaxAttempts
  BY <1>1, <1>2, CleanersHold
<1>4. job[x].attempts + 1 \in 0..MaxAttempts
  BY <1>3 DEF Job, LimitsAssumption
<1>5. /\ job' = [job EXCEPT ![x].status = "failed", ![x].attempts = @ + 1, ![x].waits = TRUE]
      /\ cleaner' = [cleaner EXCEPT ![c] = NoCleanup]
      /\ UNCHANGED <<files, request, retries>> /\ stored' \subseteq Keys
  BY <1>1 DEF RemovalFails, sourceVars
<1>6. job' = [job EXCEPT ![x] = row]
  BY <1>1, <1>3, <1>5
<1>7. row \in Job /\ row.children = job[x].children /\ row.status = "failed"
  BY <1>3, <1>4 DEF Job, JobStatus, Unfinished
<1>8. job[x].status # "none" /\ job[x].status # "done"
  BY <1>3 DEF Unfinished
<1>9. /\ cleaner' \in [Cleaners -> Cleanup]
      /\ \A d \in Cleaners : cleaner'[d] = cleaner[d] \/ cleaner'[d] = NoCleanup
      /\ \A d \in Cleaners : cleaner'[d].job # x
  BY <1>2, <1>5, OthersHoldOthers DEF NoCleanup
<1> HIDE DEF row, x
<1> QED
  BY <1>3, <1>5, <1>6, <1>7, <1>8, <1>9, JobKeepsInv

LEMMA FinishKeepsInv ==
  ASSUME SubjectsAssumption, LimitsAssumption, RetentionInv, NotesApart, NEW c \in Cleaners, FinishJob(c)
  PROVE  RetentionInv'
<1> DEFINE x == cleaner[c].job
<1> DEFINE row == [[[[job[x] EXCEPT !.status = "done"] EXCEPT !.attempts = job[x].attempts + 1]
                              EXCEPT !.waits = FALSE] EXCEPT !.objects = {}]
<1>1. job \in [Subjects -> Job] /\ stored \subseteq Keys /\ JobInv
  BY DEF RetentionInv, JobInv, SourceTypes
<1>2. x # None
  BY DEF FinishJob
<1>3. x \in Subjects /\ job[x] \in Job /\ job[x].status \in Unfinished /\ job[x].attempts < MaxAttempts
      /\ ChildrenDone(x)
  BY <1>1, <1>2, CleanersHold
<1>4. job[x].attempts + 1 \in 0..MaxAttempts
  BY <1>3 DEF Job, LimitsAssumption
<1>5. /\ job' = [job EXCEPT ![x].status = "done", ![x].attempts = @ + 1, ![x].waits = FALSE,
                            ![x].objects = {}]
      /\ cleaner' = [cleaner EXCEPT ![c] = NoCleanup]
      /\ UNCHANGED <<files, request, retries, stored>>
  BY DEF FinishJob, sourceVars
<1>6. job' = [job EXCEPT ![x] = row]
  BY <1>1, <1>3, <1>5
<1>7. row \in Job /\ row.children = job[x].children /\ row.status = "done"
  BY <1>3, <1>4 DEF Job, JobStatus
<1>8. job[x].status # "none"
  BY <1>3 DEF Unfinished
<1>9. /\ cleaner' \in [Cleaners -> Cleanup]
      /\ \A d \in Cleaners : cleaner'[d] = cleaner[d] \/ cleaner'[d] = NoCleanup
      /\ \A d \in Cleaners : cleaner'[d].job # x
  BY <1>2, <1>5, OthersHoldOthers DEF NoCleanup
<1> HIDE DEF row, x
<1> QED
  BY <1>1, <1>3, <1>5, <1>6, <1>7, <1>8, <1>9, JobKeepsInv

LEMMA JobDueAgainKeepsInv ==
  ASSUME SubjectsAssumption, RetentionInv, NotesApart, NEW x \in Subjects, JobBackoffEnds(x)
  PROVE  RetentionInv'
<1> DEFINE row == [job[x] EXCEPT !.waits = FALSE]
<1>1. job \in [Subjects -> Job] /\ cleaner \in [Cleaners -> Cleanup] /\ stored \subseteq Keys /\ JobInv
  BY DEF RetentionInv, JobInv, SourceTypes
<1>2. job' = [job EXCEPT ![x] = row] /\ UNCHANGED <<files, request, cleaner, stored, retries>>
  BY DEF JobBackoffEnds, sourceVars
<1>3. row \in Job /\ row.children = job[x].children /\ row.status = job[x].status
      /\ row.attempts = job[x].attempts
  <2>1. job[x] \in Job
    BY <1>1
  <2> QED
    BY <2>1 DEF Job
<1>4. \A c \in Cleaners : cleaner'[c].job = x => row.status \in Unfinished /\ row.attempts < MaxAttempts
  BY <1>1, <1>2, <1>3, CleanersHold DEF SubjectsAssumption
<1> HIDE DEF row
<1>5. \A y \in Subjects \ {x} : job'[y] = job[y]
  BY <1>1, <1>2
<1>6. job' \in [Subjects -> Job] /\ job'[x] = row
  BY <1>1, <1>2, <1>3
<1>7. \A y \in Subjects : Advances(y)
  BY <1>3, <1>5, <1>6 DEF Advances
<1>8. \A c \in Cleaners :
        /\ cleaner'[c].job = None => cleaner'[c].todo = {} /\ cleaner'[c].free = None
        /\ cleaner'[c].job # None =>
             /\ job'[cleaner'[c].job].status \in Unfinished
             /\ job'[cleaner'[c].job].attempts < MaxAttempts
             /\ ChildrenDone(cleaner'[c].job)
  BY <1>1, <1>2, <1>3, <1>5, <1>6, CleanersHold
<1>9. \A c, d \in Cleaners : cleaner'[c].job # None /\ cleaner'[c].job = cleaner'[d].job => c = d
  BY <1>1, <1>2, CleanersHold
<1>10. retries' \in 0..MaxRetries
  BY <1>2 DEF RetentionInv, JobInv, SourceTypes
<1> QED
  BY <1>1, <1>2, <1>6, <1>7, <1>8, <1>9, <1>10, CleanupKeepsInv

\* What a retry reaches has a job: the job itself, or one that some job waits for.
LEMMA RetriedHaveJobs ==
  ASSUME SubjectsAssumption, JobInv, NEW x \in Subjects, job[x].status # "none", NEW y \in Retried(x)
  PROVE  y \in Subjects /\ job[y].status # "none"
<1>1. CASE y = x
  BY <1>1
<1>2. CASE y # x
  <2>1. y \in Below[x] /\ y \in Subjects
    BY <1>2 DEF Retried, SubjectsAssumption
  <2>2. y \in Tree(y)
    BY DEF Tree
  <2>3. Linked(y)
    BY <1>2, <2>1, <2>2 DEF Retried
  <2>4. PICK z \in Subjects : y \in job[z].children
    BY <2>3 DEF Linked
  <2>5. y \notin live
    BY <2>4 DEF JobInv, FenceSound
  <2> QED
    BY <2>1, <2>5 DEF JobInv, FenceSound
<1> QED
  BY <1>1, <1>2

LEMMA RetryKeepsInv ==
  ASSUME SubjectsAssumption, LimitsAssumption, RetentionInv, NotesApart, NEW x \in Subjects, RetryDeletion(x)
  PROVE  RetentionInv'
<1> DEFINE again(y) == [[[job[y] EXCEPT !.status = "pending"] EXCEPT !.attempts = 0] EXCEPT !.waits = FALSE]
<1> DEFINE restarts(y) == y \in Retried(x) /\ job[y].status # "done"
<1>1. job \in [Subjects -> Job] /\ cleaner \in [Cleaners -> Cleanup] /\ stored \subseteq Keys /\ JobInv
      /\ retries \in 0..MaxRetries
  BY DEF RetentionInv, JobInv, SourceTypes
<1>2. /\ job' = [y \in Subjects |-> IF restarts(y) THEN again(y) ELSE job[y]]
      /\ retries' = retries + 1 /\ retries < MaxRetries
      /\ UNCHANGED <<files, request, cleaner, stored>>
      /\ job[x].status # "none" /\ \A y \in Retried(x) : ~Held(y)
  BY DEF RetryDeletion, sourceVars
<1>3. \A y \in Subjects : /\ again(y) \in Job /\ again(y).status = "pending"
                          /\ again(y).children = job[y].children
  <2> TAKE y \in Subjects
  <2>1. job[y] \in Job /\ 0 \in 0..MaxAttempts
    BY <1>1 DEF LimitsAssumption
  <2> QED
    BY <2>1 DEF Job, JobStatus, Unfinished
<1>4. \A y \in Subjects : restarts(y) => job[y].status # "none" /\ job[y].status # "done"
  BY <1>1, <1>2, RetriedHaveJobs
<1>5. \A c \in Cleaners : cleaner[c].job \in Subjects => ~restarts(cleaner[c].job)
  BY <1>2 DEF Held
<1> HIDE DEF again, restarts
<1>6. job' \in [Subjects -> Job] /\ \A y \in Subjects : job'[y] = IF restarts(y) THEN again(y) ELSE job[y]
  BY <1>1, <1>2, <1>3
<1>7. \A y \in Subjects : Advances(y)
  BY <1>3, <1>4, <1>6 DEF Advances
<1>8. \A c \in Cleaners :
        /\ cleaner'[c].job = None => cleaner'[c].todo = {} /\ cleaner'[c].free = None
        /\ cleaner'[c].job # None =>
             /\ job'[cleaner'[c].job].status \in Unfinished
             /\ job'[cleaner'[c].job].attempts < MaxAttempts
             /\ ChildrenDone(cleaner'[c].job)
  BY <1>1, <1>2, <1>5, <1>6, CleanersHold
<1>9. \A c, d \in Cleaners : cleaner'[c].job # None /\ cleaner'[c].job = cleaner'[d].job => c = d
  BY <1>1, <1>2, CleanersHold
<1>10. retries' \in 0..MaxRetries
  BY <1>1, <1>2 DEF LimitsAssumption
<1> QED
  BY <1>1, <1>2, <1>6, <1>7, <1>8, <1>9, <1>10, CleanupKeepsInv

(***************************************************************************)
(* The commit of a deletion.                                               *)
(***************************************************************************)

\* The rows, fences and jobs: what goes had a row, so it had no job, and a new
\* job waits for what goes with it only.
LEMMA DeletionCommitKeepsJobs ==
  ASSUME SubjectsAssumption, LimitsAssumption, JobInv, NEW x \in Subjects, CommitDeletion(x)
  PROVE  JobInv'
<1> DEFINE gone == Tree(x) \cap live
<1> DEFINE survivors == live \ gone
<1> DEFINE Claimed(k) == \E y \in survivors : k \in files[y]
<1> DEFINE Dropped(k, y) == Claimed(k) \/ (y \in Sows /\ k \in request[x].others)
<1> DEFINE held == UNION {files[y] : y \in gone}
<1>1. SourceTypes /\ FenceSound /\ CleanerSound /\ ParentsFinishLast
  BY DEF JobInv
<1>2. gone \subseteq live /\ live \subseteq Subjects /\ held \subseteq Keys
  BY <1>1 DEF SourceTypes
<1>3. PICK by \in [held -> gone] :
        LET Objects(y) == {k \in held : by[k] = y /\ ~Dropped(k, y)}
            done == {y \in gone : \A z \in Tree(y) \cap gone : Objects(z) = {}}
        IN  job' = [y \in Subjects |-> IF y \notin gone THEN job[y] ELSE
              [status |-> IF y \in done THEN "done" ELSE "pending", attempts |-> 0,
               waits |-> FALSE, objects |-> Objects(y), children |-> ChildrenOf(y) \cap gone]]
  BY DEF CommitDeletion
<1> DEFINE Objects(y) == {k \in held : by[k] = y /\ ~Dropped(k, y)}
<1> DEFINE done == {y \in gone : \A z \in Tree(y) \cap gone : Objects(z) = {}}
<1> DEFINE status(y) == IF y \in done THEN "done" ELSE "pending"
<1> DEFINE new(y) == [status |-> status(y), attempts |-> 0, waits |-> FALSE, objects |-> Objects(y),
                      children |-> ChildrenOf(y) \cap gone]
<1>4. job' = [y \in Subjects |-> IF y \notin gone THEN job[y] ELSE new(y)]
  BY <1>3
<1>5. /\ live' = survivors /\ files' = [y \in Subjects |-> IF y \in gone THEN {} ELSE files[y]]
      /\ request' = [request EXCEPT ![x] = NoRequest] /\ UNCHANGED <<cleaner, stored, retries>>
  BY DEF CommitDeletion
<1>6. \A y \in Subjects : ChildrenOf(y) \subseteq Below[y] /\ Below[y] \subseteq Subjects
  BY DEF ChildrenOf, SubjectsAssumption
<1>7. \A y \in gone : /\ new(y) \in Job
                      /\ new(y).children = ChildrenOf(y) \cap gone /\ new(y).status = status(y)
  <2> TAKE y \in gone
  <2>1. Objects(y) \subseteq Keys /\ ChildrenOf(y) \cap gone \subseteq Subjects /\ 0 \in 0..MaxAttempts
    BY <1>2 DEF LimitsAssumption
  <2>2. status(y) \in JobStatus
    BY DEF JobStatus, Unfinished
  <2> HIDE DEF Objects, status, gone
  <2> QED
    BY <2>1, <2>2 DEF Job
<1>8. \A y \in done : ChildrenOf(y) \cap gone \subseteq done
  <2> SUFFICES ASSUME NEW y \in done, NEW z \in ChildrenOf(y) \cap gone PROVE z \in done
    OBVIOUS
  <2>1. y \in Subjects /\ z \in Below[y] /\ z \in gone
    BY <1>2, <1>6
  <2>2. Tree(z) \subseteq Tree(y)
    BY <2>1 DEF Tree, SubjectsAssumption
  <2>3. \A u \in Tree(y) \cap gone : Objects(u) = {}
    OBVIOUS
  <2> HIDE DEF Objects
  <2> QED
    BY <2>1, <2>2, <2>3
<1>9. \A y \in gone : status(y) \in {"done", "pending"} /\ (status(y) = "done" <=> y \in done)
  OBVIOUS
<1> HIDE DEF new, done, Objects, held, status
<1>10. /\ \A y \in gone : job'[y] = new(y) /\ job[y].status = "none"
       /\ \A y \in Subjects \ gone : job'[y] = job[y]
       /\ job' \in [Subjects -> Job]
  <2>1. \A y \in gone : job[y].status = "none"
    BY <1>1, <1>2 DEF FenceSound
  <2>2. job \in [Subjects -> Job]
    BY <1>1 DEF SourceTypes
  <2> QED
    BY <1>2, <1>4, <1>7, <2>1, <2>2
<1> HIDE DEF gone
<1>11. SourceTypes'
  <2>1. request' \in [Subjects -> Deletion]
    BY <1>1, <1>5 DEF SourceTypes, Deletion, NoRequest
  <2>2. files' \in [Subjects -> SUBSET Keys]
    BY <1>1, <1>5 DEF SourceTypes
  <2> QED
    BY <1>1, <1>2, <1>5, <1>10, <2>1, <2>2 DEF SourceTypes
<1>12. FenceSound'
  <2> SUFFICES ASSUME NEW y \in Subjects
               PROVE  (y \in live' <=> job'[y].status = "none") /\ job'[y].children \cap live' = {}
    BY DEF FenceSound
  <2>1. CASE y \in gone
    BY <1>5, <1>7, <1>9, <1>10, <2>1
  <2>2. CASE y \notin gone
    BY <1>1, <1>5, <1>10, <2>2 DEF FenceSound
  <2> QED
    BY <2>1, <2>2
<1>13. \A y \in Subjects \ gone : job[y].children \subseteq Subjects \ gone
  BY <1>1, <1>2 DEF FenceSound, SourceTypes, Job
<1>14. CleanerSound'
  <2>1. ASSUME NEW c \in Cleaners, cleaner[c].job # None
        PROVE  cleaner[c].job \in Subjects \ gone /\ job[cleaner[c].job].children \subseteq Subjects \ gone
    <3>1. cleaner[c].job \in Subjects /\ job[cleaner[c].job].status \in Unfinished
      BY <2>1, CleanersHold
    <3> QED
      BY <3>1, <1>10, <1>13 DEF Unfinished
  <2> QED
    BY <1>1, <1>5, <1>10, <2>1 DEF CleanerSound, Holding, ChildrenDone
<1>15. ParentsFinishLast'
  <2> SUFFICES ASSUME NEW y \in Subjects, job'[y].status = "done", NEW z \in job'[y].children
               PROVE  job'[z].status = "done"
    BY DEF ParentsFinishLast
  <2>1. CASE y \in gone
    <3>1. y \in done /\ z \in ChildrenOf(y) \cap gone
      BY <1>7, <1>9, <1>10, <2>1
    <3>2. z \in gone /\ z \in done
      BY <3>1, <1>8
    <3> QED
      BY <3>2, <1>7, <1>9, <1>10
  <2>2. CASE y \notin gone
    BY <1>1, <1>10, <1>13, <2>2 DEF ParentsFinishLast
  <2> QED
    BY <2>1, <2>2
<1> QED
  BY <1>11, <1>12, <1>14, <1>15 DEF JobInv

\* The notifications: those about what goes are deleted, and neither a producer
\* nor a sender has one of them in hand.
LEMMA DeletionCommitKeepsNotes ==
  ASSUME SubjectsAssumption, RowsAssumption, JobInv, NoteInv, NEW x \in Subjects, CommitDeletion(x),
         UNCHANGED <<mails, queueing, sender, crashes>>
  PROVE  NoteInv'
<1> DEFINE gone == Tree(x) \cap live
<1> DEFINE fate(n) == [[note[n] EXCEPT !.status = "deleted"] EXCEPT !.waits = FALSE]
<1>1. /\ live' = live \ gone /\ request[x].open
      /\ note' = [n \in Notes |-> IF Source[n] \in gone /\ note[n].status # "none" THEN fate(n) ELSE note[n]]
      /\ request' = [request EXCEPT ![x] = NoRequest]
      /\ \A w \in Senders : sender[w].at # None => Source[sender[w].at] \notin gone
  BY DEF CommitDeletion
<1>2. note \in [Notes -> Notification] /\ queueing \subseteq Notes /\ request \in [Subjects -> Deletion]
  BY DEF NoteInv, NoteTypes, JobInv, SourceTypes
<1>3. \A n \in Notes : fate(n) \in Notification /\ fate(n).status = "deleted" /\ fate(n).attempts = note[n].attempts
  <2> TAKE n \in Notes
  <2>1. note[n] \in Notification
    BY <1>2
  <2> QED
    BY <2>1 DEF Notification, NoteStatus
<1> HIDE DEF fate
<1>4. /\ note' \in [Notes -> Notification]
      /\ \A n \in Notes : note'[n].attempts = note[n].attempts
      /\ \A n \in Notes : note'[n].status = "pending" => note[n].status = "pending" /\ Source[n] \notin gone
      /\ \A n \in Notes : Source[n] \notin gone => note'[n] = note[n]
  BY <1>1, <1>2, <1>3
<1>5. \A n \in queueing : Source[n] \notin gone
  BY <1>1 DEF NoteInv, ProducerSound, BeingDeleted
<1>6. \A y \in Subjects : request'[y].open => request[y].open
  BY <1>1, <1>2 DEF NoRequest
<1>7. NoteTypes'
  BY <1>4 DEF NoteInv, NoteTypes
<1>8. ProducerSound'
  BY <1>1, <1>2, <1>4, <1>5, <1>6 DEF NoteInv, ProducerSound, BeingDeleted, Tree
<1>9. RowsSound'
  BY <1>1, <1>4 DEF NoteInv, RowsSound
<1>10. SenderSound'
  <2>1. \A w \in Senders : sender[w].at \in Notes \cup {None}
    BY DEF NoteInv, NoteTypes, Batch
  <2>2. \A w \in Senders : sender[w].at # None => note'[sender[w].at] = note[sender[w].at]
    BY <1>1, <1>4, <2>1
  <2> QED
    BY <2>2 DEF NoteInv, SenderSound
<1>11. MailsCounted'
  BY <1>4 DEF NoteInv, MailsCounted, Answered
<1> QED
  BY <1>7, <1>8, <1>9, <1>10, <1>11 DEF NoteInv

LEMMA DeletionKeepsInv ==
  ASSUME SubjectsAssumption, RowsAssumption, LimitsAssumption, RetentionInv, DeletionStep
  PROVE  RetentionInv'
<1>1. UNCHANGED <<mails, queueing, sender, crashes>>
  BY DEF DeletionStep
<1>2. ASSUME NEW x \in Subjects, CommitDeletion(x) PROVE RetentionInv'
  BY <1>1, <1>2, DeletionCommitKeepsJobs, DeletionCommitKeepsNotes DEF RetentionInv
<1>3. ASSUME NEW x \in Subjects, NEW k \in Keys, ClaimKey(x, k) PROVE RetentionInv'
  <2>1. NotesApart
    BY <1>1, <1>3 DEF ClaimKey, NotesApart
  <2> QED
    BY <1>3, <2>1, ClaimKeepsInv
<1>4. ASSUME NEW x \in Subjects, RequestDeletion(x) \/ AbortDeletion(x) \/ JobBackoffEnds(x) \/ RetryDeletion(x)
      PROVE RetentionInv'
  <2>1. NotesApart
    BY <1>1, <1>4 DEF RequestDeletion, AbortDeletion, JobBackoffEnds, RetryDeletion, NotesApart, sourceVars
  <2> QED
    BY <1>4, <2>1, RequestKeepsInv, AbortKeepsInv, JobDueAgainKeepsInv, RetryKeepsInv
<1>5. ASSUME NEW c \in Cleaners, CleanerStep(c) PROVE RetentionInv'
  <2>1. NotesApart
    BY <1>1, <1>5 DEF CleanerStep, PutOff, TakeJob, CheckKey, RemoveObject, RemovalFails, FinishJob,
                      NotesApart, sourceVars
  <2> QED
    BY <1>5, <2>1, PutOffKeepsInv, TakeJobKeepsInv, CheckKeyKeepsInv, RemoveObjectKeepsInv, FailsKeepsInv,
       FinishKeepsInv DEF CleanerStep
<1> QED
  BY <1>2, <1>3, <1>4, <1>5 DEF DeletionStep

LEMMA CrashKeepsInv ==
  ASSUME SubjectsAssumption, LimitsAssumption, RetentionInv, WorkerCrash
  PROVE  RetentionInv'
<1>1. crashes < MaxCrashes /\ crashes' = crashes + 1
  BY DEF WorkerCrash
<1>2. ASSUME NEW w \in Senders, SenderCrash(w), UNCHANGED <<sourceVars, jobVars>> PROVE RetentionInv'
  <2>1. NoteInv'
    BY <1>1, <1>2, SenderCrashKeepsNotes DEF RetentionInv, NoteOnly, SenderCrash
  <2> QED
    BY <1>2, <2>1, JobFrame DEF RetentionInv
<1>3. ASSUME NEW c \in Cleaners, CleanerCrash(c), UNCHANGED <<mails, queueing, sender>> PROVE RetentionInv'
  <2>1. JobInv /\ NoteInv /\ UNCHANGED <<files, request, job, retries, stored, live, note>>
    BY <1>3 DEF RetentionInv, CleanerCrash, sourceVars
  <2>2. cleaner \in [Cleaners -> Cleanup] /\ cleaner' = [cleaner EXCEPT ![c] = NoCleanup]
    BY <1>3, <2>1 DEF CleanerCrash, JobInv, SourceTypes
  <2>3. cleaner' \in [Cleaners -> Cleanup] /\ \A d \in Cleaners : cleaner'[d] \in {cleaner[d], NoCleanup}
    BY <2>2 DEF Cleanup, NoCleanup
  <2>4. SourceTypes'
    BY <2>1, <2>3 DEF JobInv, SourceTypes
  <2>5. JobInv'
    <3>1. \A d \in Cleaners : cleaner'[d].job # None => cleaner'[d] = cleaner[d]
      BY <2>3 DEF NoCleanup
    <3>2. \A d \in Cleaners : cleaner'[d].job = None => cleaner'[d].todo = {} /\ cleaner'[d].free = None
      BY <2>1, <2>3, CleanersHold DEF NoCleanup
    <3>3. \A d \in Cleaners : cleaner'[d].job # None =>
            /\ job'[cleaner'[d].job].status \in Unfinished
            /\ job'[cleaner'[d].job].attempts < MaxAttempts
            /\ ChildrenDone(cleaner'[d].job)
      BY <2>1, <3>1, CleanersHold
    <3>4. \A d, e \in Cleaners : cleaner'[d].job # None /\ cleaner'[d].job = cleaner'[e].job => d = e
      BY <2>1, <3>1, CleanersHold
    <3> QED
      BY <2>1, <2>4, <3>2, <3>3, <3>4, JobsKeepInv, SameJobs
  <2>6. NoteInv'
    <3>1. NoteTypes'
      BY <1>1, <1>3, <2>1 DEF NoteInv, NoteTypes, LimitsAssumption
    <3>2. ProducerSound' /\ RowsSound' /\ SenderSound'
      BY <1>3, <2>1 DEF NoteInv, ProducerSound, RowsSound, SenderSound, BeingDeleted, Tree
    <3>3. MailsCounted'
      <4> SUFFICES ASSUME NEW n \in Notes
                   PROVE  mails'[n] <= note'[n].attempts + crashes' + (IF Answered(n)' THEN 1 ELSE 0)
        BY DEF MailsCounted
      <4>1. /\ note[n].attempts \in Nat /\ mails[n] \in Nat /\ crashes \in Nat
            /\ mails[n] <= note[n].attempts + crashes + (IF Answered(n) THEN 1 ELSE 0)
        BY <2>1 DEF NoteInv, NoteTypes, Notification, MailsCounted
      <4>2. Answered(n)' <=> Answered(n)
        BY <1>3 DEF Answered
      <4> QED
        BY <1>1, <1>3, <2>1, <4>1, <4>2
    <3> QED
      BY <3>1, <3>2, <3>3 DEF NoteInv
  <2> QED
    BY <2>5, <2>6 DEF RetentionInv
<1> QED
  BY <1>2, <1>3 DEF WorkerCrash

LEMMA StutterKeepsInv ==
  ASSUME RetentionInv, UNCHANGED vars
  PROVE  RetentionInv'
<1>1. JobInv'
  BY JobFrame DEF RetentionInv, vars
<1>2. NoteInv'
  BY NoteFrame DEF RetentionInv, vars, noteVars, jobVars, sourceVars
<1> QED
  BY <1>1, <1>2 DEF RetentionInv

(***************************************************************************)
(* The theorems.                                                           *)
(***************************************************************************)

\* The inductive invariant: fences, jobs and cleanup runs fit together, and so
\* do producers, rows and senders (deletion, deletion_cleanup, notifications,
\* notification_sender).
THEOREM RetentionCorrect == Spec => []RetentionInv
<1>1. Init => RetentionInv
  <2> SUFFICES ASSUME Init PROVE RetentionInv
    OBVIOUS
  <2> USE SubjectsAssumption, RowsAssumption, LimitsAssumption DEF Init
  <2>1. job \in [Subjects -> Job] /\ request \in [Subjects -> Deletion] /\ cleaner \in [Cleaners -> Cleanup]
    <3>1. NoJob \in Job /\ NoRequest \in Deletion /\ NoCleanup \in Cleanup
      BY DEF NoJob, Job, JobStatus, NoRequest, Deletion, NoCleanup, Cleanup, LimitsAssumption
    <3> QED
      BY <3>1
  <2>2. note \in [Notes -> Notification] /\ sender \in [Senders -> Batch]
    <3>1. NoNote \in Notification /\ NoBatch \in Batch
      BY DEF NoNote, Notification, NoteStatus, Channels, NoBatch, Batch, LimitsAssumption
    <3> QED
      BY <3>1
  <2>3. SourceTypes
    BY <2>1 DEF SourceTypes, RowsAssumption, LimitsAssumption
  <2>4. NoteTypes
    BY <2>2 DEF NoteTypes, LimitsAssumption
  <2>5. JobInv
    BY <2>3 DEF JobInv, FenceSound, CleanerSound, Holding, ParentsFinishLast, NoJob, NoCleanup
  <2>6. NoteInv
    BY <2>4 DEF NoteInv, ProducerSound, RowsSound, SenderSound, MailsCounted, Answered, NoNote, NoBatch
  <2> QED
    BY <2>5, <2>6 DEF RetentionInv
<1>2. RetentionInv /\ [Next]_vars => RetentionInv'
  BY SubjectsAssumption, RowsAssumption, LimitsAssumption, OutboxKeepsInv, DeletionKeepsInv, CrashKeepsInv,
     StutterKeepsInv DEF Next
<1> QED
  BY <1>1, <1>2, PTL DEF Spec

\* Every table keeps its shape; attempts never pass the limit.
THEOREM RetentionTypes == Spec => []TypeOK
BY RetentionCorrect, InvTypes, PTL

\* Nothing is pending about a deleted source: a producer and a deletion of its
\* source never overlap (lock_source, fence_deleted_source).
THEOREM DeletedAreSilent == Spec => []NothingPendingOfDeleted
<1>1. RetentionInv => NothingPendingOfDeleted
  BY DEF RetentionInv, NoteInv, RowsSound, NothingPendingOfDeleted
<1> QED
  BY <1>1, RetentionCorrect, PTL

\* Overlapping senders never mail a row twice but after a counted attempt or a
\* crash (process_batch, mark_sent, mark_failed).
THEOREM EveryMailCounted == Spec => []MailsAccountedFor
<1>1. RetentionInv => MailsAccountedFor
  <2> SUFFICES ASSUME RetentionInv, NEW n \in Notes
               PROVE  mails[n] <= note[n].attempts + crashes
                        + (IF \E w \in Senders : sender[w].at = n THEN 1 ELSE 0)
    BY DEF MailsAccountedFor
  <2>1. /\ note[n].attempts \in Nat /\ mails[n] \in Nat /\ crashes \in Nat
        /\ mails[n] <= note[n].attempts + crashes + (IF Answered(n) THEN 1 ELSE 0)
    BY DEF RetentionInv, NoteInv, NoteTypes, Notification, MailsCounted
  <2>2. Answered(n) => \E w \in Senders : sender[w].at = n
    BY DEF Answered
  <2> QED
    BY <2>1, <2>2
<1> QED
  BY <1>1, RetentionCorrect, PTL

\* A deletion reports done only after everything it waits for
\* (process_deletion_jobs).
THEOREM ChildrenFirst == Spec => []ParentsFinishLast
<1>1. RetentionInv => ParentsFinishLast
  BY DEF RetentionInv, JobInv
<1> QED
  BY <1>1, RetentionCorrect, PTL

\* A mail leaves only for a row that is pending about a source that exists
\* (_handle_row).
THEOREM OnlyLiveMailed == Spec => OnlyPendingMailed
<1>1. RetentionInv /\ [Next]_vars =>
        [\A n \in Notes : mails'[n] # mails[n] => note[n].status = "pending" /\ Source[n] \in live]_vars
  <2> SUFFICES ASSUME RetentionInv, Next, NEW n \in Notes, mails'[n] # mails[n]
               PROVE  note[n].status = "pending" /\ Source[n] \in live
    OBVIOUS
  <2>1. UNCHANGED mails \/ \E w \in Senders : Send(w)
    BY DEF Next, OutboxStep, DeletionStep, WorkerCrash, ProducerStep, QueueNotification, CommitNotification,
           AbandonNotification, BackoffEnds, SenderStep, StartBatch, LockRow, SkipRow, Suppress, MarkInappSent,
           MarkSent, MarkFailed, SenderCrash
  <2>2. PICK w \in Senders : Send(w)
    BY <2>1
  <2>3. mails \in [Notes -> Nat] /\ sender[w].at # None
    BY <2>2 DEF Send, RetentionInv, NoteInv, NoteTypes
  <2>4. sender[w].at = n
    BY <2>2, <2>3 DEF Send
  <2> QED
    BY <2>3, <2>4, LimitsAssumption, AtSender DEF RetentionInv
<1> QED
  BY <1>1, RetentionCorrect, PTL DEF Spec, OnlyPendingMailed
==================================================================================
