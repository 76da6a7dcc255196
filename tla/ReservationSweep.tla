-------------------------- MODULE ReservationSweep --------------------------
(***************************************************************************)
(* The marketplace as it is deployed: the only caller of                   *)
(* expire_pending_payment is the job "expire_reservations" of              *)
(* app/tasks/scheduler.py, which runs                                      *)
(* MarketplaceService.expire_pending_payments once a minute, one instance  *)
(* at a time, inside _guard.                                               *)
(*                                                                         *)
(* The last line of expire_pending_payments hands sum() a generator whose  *)
(* condition awaits.  Such a generator is asynchronous and sum() accepts   *)
(* only iterables: it raises TypeError before the first element is asked   *)
(* for, also when there is none, and _guard logs the exception.            *)
(***************************************************************************)
EXTENDS Marketplace

VARIABLE
  sweep     \* the job: the payloads it read, and its last outcome

sweepVars == <<vars, sweep>>

SweepInit == Init /\ sweep = [running |-> FALSE, payloads |-> {}, last |-> "not run"]

PendingExpired == {i \in Intent : intents[i].status = "PENDING" /\ intents[i].due}

\* The first transaction of the job.
SweepReads ==
  /\ ~sweep.running
  /\ sweep' = [sweep EXCEPT !.running = TRUE, !.payloads = PendingExpired]
  /\ UNCHANGED vars

\* sum(...) raises; _guard ends the run.
SweepFails ==
  /\ sweep.running
  /\ sweep' = [running |-> FALSE, payloads |-> {}, last |-> "failed"]
  /\ UNCHANGED vars

SweepNext == (Request /\ UNCHANGED sweep) \/ SweepReads \/ SweepFails

\* The scheduler keeps starting the job, and a started job ends.
SweepSpec ==
  SweepInit /\ [][SweepNext]_sweepVars /\ WF_sweepVars(SweepReads) /\ WF_sweepVars(SweepFails)

-----------------------------------------------------------------------------
\* What an overdue invoice holds, a number's reservation or a plate, is given
\* back ("expired reservations are removed automatically").
OverdueHoldIsReleased ==
  \A i \in Intent :
    (intents[i].status = "PENDING" /\ intents[i].due /\ Holds(i)) ~> ~Holds(i)

=============================================================================
