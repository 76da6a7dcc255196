----------------------------- MODULE Maintenance -----------------------------
(***************************************************************************)
(* The two services of app/application/services/maintenance.py.  They      *)
(* share no state, so a behaviour of both is one of each, and it is enough *)
(* to follow one of them at a time: `service' is the one a behaviour       *)
(* follows, chosen at the start; the other one stands still.               *)
(***************************************************************************)
EXTENDS Naturals

CONSTANTS
  User, Unreachable, Limit, MaxQueued, MaxForbidden, MaxLost,  \* see Notifications
  Creation, None, MaxDay, MaxSecond                            \* see Backups

ASSUME QueueIsBounded ==
  /\ Unreachable \subseteq User
  /\ Limit \in Nat \ {0} /\ MaxQueued \in Nat /\ MaxForbidden \in Nat /\ MaxLost \in Nat

ASSUME ClockIsBounded == MaxDay \in Nat \ {0} /\ MaxSecond \in Nat /\ None \notin Creation

VARIABLES
  service,
  queue, received, stage, work, lost,                          \* see Notifications
  day, second, files, rows, progress, output, linked, beside   \* see Backups

Notifying == INSTANCE Notifications
BackingUp == INSTANCE Backups WITH stage <- progress

ASSUME NoneIsNoFile == None \notin BackingUp!FileName

notificationVars == <<queue, received, stage, work, lost>>

backupVars == <<day, second, files, rows, progress, output, linked, beside>>

vars == <<service, notificationVars, backupVars>>

TypeOK == Notifying!TypeOK /\ BackingUp!TypeOK

Init ==
  /\ service \in {"NotificationService", "BackupService"}
  /\ Notifying!Init
  /\ BackingUp!Init

Next ==
  /\ \/ service = "NotificationService" /\ Notifying!Next /\ UNCHANGED backupVars
     \/ service = "BackupService" /\ BackingUp!Next /\ UNCHANGED notificationVars
  /\ UNCHANGED service

Spec ==
  /\ Init /\ [][Next]_vars
  /\ service = "NotificationService" => Notifying!Fairness

-----------------------------------------------------------------------------
(* Properties *)

\* A user gets a notification again only when its mark was lost, once for each
\* loss (deliver_pending).
RepeatedOnlyAfterLoss == Notifying!RepeatedOnlyAfterLoss

\* Every notification of a user who can be reached is sent in the end, although
\* rows that can never be sent stay at the head of the queue (deliver_pending).
PendingIsSent == service = "NotificationService" => Notifying!PendingIsSent

\* A backup that has a row can be restored, unless another creation ran beside
\* it (create).
RecordedBackupIsWhole == BackingUp!RecordedBackupIsWhole

\* A file without a row has an explanation; a failed pg_dump is none (create).
UnrecordedFileIsExplained == BackingUp!UnrecordedFileIsExplained

=============================================================================
