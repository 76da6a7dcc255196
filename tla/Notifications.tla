---------------------------- MODULE Notifications ----------------------------
(***************************************************************************)
(* NotificationService (app/application/services/maintenance.py): the      *)
(* hourly job that sends the unsent rows of notifications to their users,  *)
(* oldest first and Limit at a time, and marks each one sent in a          *)
(* transaction of its own after Telegram took it.  One run at a time       *)
(* (max_instances in app/tasks/scheduler.py).                              *)
(*                                                                         *)
(* A row is identified by its position in the queue: ids rise with the     *)
(* order of insertion and rows are never deleted.                          *)
(***************************************************************************)
EXTENDS Integers, Sequences, FiniteSetsExt

CONSTANTS
  User,        \* the users the services notify
  Unreachable, \* those who blocked the bot (TelegramForbiddenError)
  Limit,       \* how many rows a run reads
  MaxQueued,   \* bound of the rows
  MaxForbidden,\* bound of the rows of unreachable users
  MaxLost      \* bound of the failures between a message and its mark

VARIABLES
  queue,    \* notifications: the user and is_sent of each row
  received, \* Telegram: how often each notification reached its user
  stage,    \* of the run: "idle", "sending" the oldest of work, or "marking" it
  work,     \* the ids the run read and has not handled
  lost      \* how many marks of sent notifications were lost

vars == <<queue, received, stage, work, lost>>

TypeOK ==
  /\ queue \in Seq([user : User, sent : BOOLEAN])
  /\ received \in Seq(Nat) /\ Len(received) = Len(queue)
  /\ stage \in {"idle", "sending", "marking"}
  /\ work \subseteq DOMAIN queue
  /\ lost \in 0..MaxLost

Init ==
  /\ queue = <<>> /\ received = <<>>
  /\ stage = "idle" /\ work = {} /\ lost = 0

-----------------------------------------------------------------------------
Forbidden == {k \in DOMAIN queue : queue[k].user \in Unreachable}

\* A service inserts a notification.
Insert(u) ==
  /\ Len(queue) < MaxQueued
  /\ u \in Unreachable => Cardinality(Forbidden) < MaxForbidden
  /\ queue' = Append(queue, [user |-> u, sent |-> FALSE])
  /\ received' = Append(received, 0)
  /\ UNCHANGED <<stage, work, lost>>

\* Mutant: the rows that were sent are read again.
AllRows == DOMAIN queue

Pending == {k \in DOMAIN queue : ~queue[k].sent}

FirstOf(rows) == {k \in rows : Cardinality({j \in rows : j < k}) < Limit}

Oldest == Min(work)

ReadPending ==
  /\ stage = "idle"
  /\ stage' = "sending"
  /\ work' = FirstOf(Pending)
  /\ UNCHANGED <<queue, received, lost>>

Sends ==
  /\ stage = "sending"
  /\ work # {}
  /\ ~queue[Oldest].sent
  /\ queue[Oldest].user \notin Unreachable
  /\ received' = [received EXCEPT ![Oldest] = @ + 1]
  /\ stage' = "marking"
  /\ UNCHANGED <<queue, work, lost>>

\* Mutant: the mark is not stored.
NotMarked(k) == queue

Marked(k) == [queue EXCEPT ![k].sent = TRUE]

LeftPending(k) == queue

\* TelegramRetryAfter or TelegramForbiddenError, so that the next run tries
\* again; or the row is found to be sent already.
IsRefused ==
  /\ stage = "sending"
  /\ work # {}
  /\ queue' = LeftPending(Oldest)
  /\ work' = work \ {Oldest}
  /\ UNCHANGED <<received, stage, lost>>

Marks ==
  /\ stage = "marking"
  /\ queue' = Marked(Oldest)
  /\ work' = work \ {Oldest}
  /\ stage' = "sending"
  /\ UNCHANGED <<received, lost>>

\* Any other exception, a restart of the process, or a failing transaction
\* leaves the loop; after a message was sent, its mark is lost.
BreaksOff ==
  /\ stage # "idle"
  /\ stage = "marking" => lost < MaxLost
  /\ lost' = IF stage = "marking" THEN lost + 1 ELSE lost
  /\ stage' = "idle"
  /\ work' = {}
  /\ UNCHANGED <<queue, received>>

Ends ==
  /\ stage = "sending" /\ work = {}
  /\ stage' = "idle"
  /\ UNCHANGED <<queue, received, work, lost>>

Next ==
  \/ \E u \in User : Insert(u)
  \/ ReadPending
  \/ Sends
  \/ IsRefused
  \/ Marks
  \/ BreaksOff
  \/ Ends

\* The scheduler starts the job again and again and a run goes on; Telegram does
\* not refuse the same notification for ever, unless its user blocked the bot,
\* and no run is the last to break off.
Fairness ==
  /\ WF_vars(ReadPending)
  /\ WF_vars(IsRefused \/ BreaksOff \/ Sends)
  /\ WF_vars(Marks)
  /\ WF_vars(Ends)
  /\ \A k \in 1..MaxQueued : SF_vars(Sends /\ Oldest = k)
  /\ \A k \in 1..MaxQueued : SF_vars(IsRefused /\ Oldest = k /\ k \in Forbidden)

Spec == Init /\ [][Next]_vars /\ Fairness

-----------------------------------------------------------------------------
(* Properties *)

\* A user gets a notification again only when its mark was lost, once for each
\* loss, in all notifications together.
RepeatedOnlyAfterLoss ==
  SumFunctionOnSet(received, DOMAIN queue)
    <= lost + Cardinality({k \in DOMAIN queue : received[k] > 0})

\* Every unsent notification of a user who can be reached is sent in the end.
PendingIsSent ==
  \A k \in 1..MaxQueued :
    (k \in DOMAIN queue /\ k \notin Forbidden) ~> (k \in DOMAIN queue /\ queue[k].sent)

=============================================================================
