--------------------------------- MODULE Outbox ---------------------------------
(***************************************************************************)
(* The notification outbox: producers queue rows in the transaction of the *)
(* change they are about, the scheduled sender drains them.  Runs of the   *)
(* sender may overlap; each row is handled under its own lock and          *)
(* committed on its own.  The mail leaves before that commit.              *)
(***************************************************************************)
EXTENDS RetentionTables

\* Fault: the row is queued without the lock of its source.
QueueNotification_Unlocked(n) ==
  /\ note[n] = NoNote
  /\ ~SourceDeleted(Source[n])
  /\ queueing' = queueing \cup {n}
  /\ UNCHANGED <<note, mails, sender>>

(***************************************************************************)
(* notifications.queue_notification, for one channel: it takes the         *)
(* source's lock, refuses a deleted source, and the row appears with its   *)
(* caller's commit.  A row the user or policy has switched off is          *)
(* suppressed at birth.                                                    *)
(***************************************************************************)
QueueNotification(n) ==
  /\ note[n] = NoNote
  /\ ~BeingDeleted(Source[n])
  /\ ~SourceDeleted(Source[n])
  /\ queueing' = queueing \cup {n}
  /\ UNCHANGED <<note, mails, sender>>

CommitNotification(n) ==
  /\ n \in queueing
  /\ queueing' = queueing \ {n}
  /\ \E s \in {"pending", "suppressed"}, ch \in Channels :
       note' = [note EXCEPT ![n].status = s, ![n].channel = ch]
  /\ UNCHANGED <<mails, sender>>

\* The caller's transaction fails.
AbandonNotification(n) ==
  /\ n \in queueing
  /\ queueing' = queueing \ {n}
  /\ UNCHANGED <<note, mails, sender>>

(***************************************************************************)
(* notification_sender.process_batch.                                      *)
(***************************************************************************)

\* notifications.pending_notifications.
PendingNotifications ==
  {n \in Notes : note[n].status = "pending" /\ note[n].attempts < MaxAttempts /\ ~note[n].waits}

StartBatch(w) ==
  /\ sender[w] = NoBatch
  /\ PendingNotifications # {}
  /\ sender' = [sender EXCEPT ![w].rows = PendingNotifications]
  /\ UNCHANGED <<note, mails, queueing>>

\* Fault: the row is read without FOR UPDATE.
RowFree_Unlocked(n) == TRUE

\* _handle_row waits for the row's lock and reads the row again under it.
RowFree(n) == \A w \in Senders : sender[w].at # n

\* Fault: the row is taken as the batch query read it.
LockRow_Stale(w, n) ==
  /\ sender[w].at = None /\ n \in sender[w].rows
  /\ RowFree(n)
  /\ sender' = [sender EXCEPT ![w].at = n]
  /\ UNCHANGED <<note, mails, queueing>>

LockRow(w, n) ==
  /\ sender[w].at = None /\ n \in sender[w].rows
  /\ RowFree(n)
  /\ note[n].status = "pending" /\ ~SourceDeleted(Source[n])
  /\ sender' = [sender EXCEPT ![w].at = n]
  /\ UNCHANGED <<note, mails, queueing>>

SkipRow(w, n) ==
  /\ sender[w].at = None /\ n \in sender[w].rows
  /\ RowFree(n)
  /\ note[n].status # "pending" \/ SourceDeleted(Source[n])
  /\ sender' = [sender EXCEPT ![w].rows = @ \ {n}]
  /\ UNCHANGED <<note, mails, queueing>>

\* The commit that ends the handling of a row.
RowDone(w) ==
  sender' = [sender EXCEPT ![w] = [rows |-> @.rows \ {@.at}, at |-> None, reply |-> "none"]]

\* _suppress: a fixture's recipient, or an account without an address.
Suppress(w) ==
  LET n == sender[w].at IN
  /\ n # None /\ sender[w].reply = "none"
  /\ note' = [note EXCEPT ![n].status = "suppressed", ![n].waits = FALSE]
  /\ RowDone(w)
  /\ UNCHANGED <<mails, queueing>>

\* _mark_inapp_sent.
MarkInappSent(w) ==
  LET n == sender[w].at IN
  /\ n # None /\ note[n].channel = "inapp"
  /\ note' = [note EXCEPT ![n].status = "sent", ![n].attempts = @ + 1, ![n].waits = FALSE]
  /\ RowDone(w)
  /\ UNCHANGED <<mails, queueing>>

\* SESClient.send.  Any exception is a refusal to the caller, a timeout after
\* the mail was accepted too.
Send(w) ==
  LET n == sender[w].at IN
  /\ n # None /\ note[n].channel = "email" /\ sender[w].reply = "none"
  /\ \/ sender' = [sender EXCEPT ![w].reply = "ok"] /\ mails' = [mails EXCEPT ![n] = @ + 1]
     \/ sender' = [sender EXCEPT ![w].reply = "refused"] /\ mails' = [mails EXCEPT ![n] = @ + 1]
     \/ sender' = [sender EXCEPT ![w].reply = "refused"] /\ UNCHANGED mails
  /\ UNCHANGED <<note, queueing>>

MarkSent(w) ==
  LET n == sender[w].at IN
  /\ sender[w].reply = "ok"
  /\ note' = [note EXCEPT ![n].status = "sent", ![n].attempts = @ + 1, ![n].waits = FALSE]
  /\ RowDone(w)
  /\ UNCHANGED <<mails, queueing>>

\* Fault: one attempt more than the batch query ever selects.
MarkFailed_OneMore(w) ==
  LET n == sender[w].at
      gaveUp == note[n].attempts >= MaxAttempts
  IN
  /\ sender[w].reply = "refused"
  /\ note' = [note EXCEPT ![n].status = IF gaveUp THEN "failed" ELSE "pending",
                          ![n].attempts = @ + 1, ![n].waits = ~gaveUp]
  /\ RowDone(w)
  /\ UNCHANGED <<mails, queueing>>

MarkFailed(w) ==
  LET n == sender[w].at
      gaveUp == note[n].attempts + 1 >= MaxAttempts
  IN
  /\ sender[w].reply = "refused"
  /\ note' = [note EXCEPT ![n].status = IF gaveUp THEN "failed" ELSE "pending",
                          ![n].attempts = @ + 1, ![n].waits = ~gaveUp]
  /\ RowDone(w)
  /\ UNCHANGED <<mails, queueing>>

\* next_attempt_at passes.
BackoffEnds(n) ==
  /\ note[n].waits
  /\ note' = [note EXCEPT ![n].waits = FALSE]
  /\ UNCHANGED <<mails, queueing, sender>>

\* The sender's task dies: what it has not committed is rolled back.
SenderCrash(w) ==
  /\ sender[w] # NoBatch
  /\ sender' = [sender EXCEPT ![w] = NoBatch]
  /\ UNCHANGED <<note, mails, queueing>>

SenderStep(w) ==
  \/ StartBatch(w)
  \/ \E n \in Notes : LockRow(w, n) \/ SkipRow(w, n)
  \/ Suppress(w) \/ MarkInappSent(w)
  \/ Send(w) \/ MarkSent(w) \/ MarkFailed(w)

ProducerStep(n) == QueueNotification(n) \/ CommitNotification(n) \/ AbandonNotification(n)

OutboxStep ==
  /\ \/ \E n \in Notes : ProducerStep(n) \/ BackoffEnds(n)
     \/ \E w \in Senders : SenderStep(w)
  /\ UNCHANGED <<sourceVars, jobVars, crashes>>
=================================================================================
