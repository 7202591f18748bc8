---------------------------- MODULE Notifications ----------------------------
(***************************************************************************)
(* NotificationsService, NotificationsProcessor and the WhatsApp webhook:  *)
(* a notification is a row and a BullMQ job.  The one worker sends the     *)
(* message, up to three attempts, and records the provider's message id;   *)
(* the provider reports by webhook what became of the message.             *)
(*                                                                         *)
(* A message is named by the notification it was sent for and its number   *)
(* among that notification's messages.  The push that goes along is never  *)
(* waited for and writes none of these rows.                               *)
(***************************************************************************)
EXTENDS Integers, Sequences

CONSTANTS
  Notices,     \* the notifications
  MaxAttempts, \* the job's attempts
  MaxFaults    \* bound: restarts, failed writes and lost replies in a behaviour

ASSUME NotificationsAssumption == MaxAttempts \in Nat \ {0} /\ MaxFaults \in Nat

VARIABLES
  orderly, \* never changes: the webhooks of a message come once, in order
  notice,  \* the Notification rows
  job,     \* their BullMQ jobs
  fate,    \* the provider's view: what became of each message of a notification
  heard,   \* if orderly: how many webhooks of each message have come
  faults   \* how many faults so far

vars == <<orderly, notice, job, fate, heard, faults>>

NoticeStatuses == {"QUEUED", "SENT", "DELIVERED", "READ", "FAILED"}

\* unadded: the row is written, its job not.  waiting: queued, or delayed before the
\* next attempt.  send, record, finish: the worker's next statement.  exhausted: the
\* last attempt failed, onFailed is to run.  unrecorded: it never will.
JobStates == {"none", "unadded", "waiting", "send", "record", "finish", "done",
              "exhausted", "unrecorded"}

Fates == {"sent", "delivered", "read", "failed"}

\* The provider's webhooks for a message, so far.
Reports(f) ==
  CASE f = "sent" -> <<"sent">>
    [] f = "delivered" -> <<"sent", "delivered">>
    [] f = "read" -> <<"sent", "delivered", "read">>
    [] f = "failed" -> <<"sent", "failed">>

NoRow == [status |-> "NONE", message |-> 0]

Init ==
  /\ orderly \in BOOLEAN
  /\ notice = [n \in Notices |-> NoRow]
  /\ job = [n \in Notices |-> [state |-> "none", attempts |-> 0]]
  /\ fate = [n \in Notices |-> <<>>]
  /\ heard = [n \in Notices |-> <<>>]
  /\ faults = 0

JobIs(n, state) == job[n].state = state

JobTo(n, state) == job' = [job EXCEPT ![n].state = state]

Active(n) == job[n].state \in {"send", "record", "finish"}

Fault == faults < MaxFaults /\ faults' = faults + 1

-----------------------------------------------------------------------------
(* enqueue *)

CreateRow(n) ==
  /\ JobIs(n, "none")
  /\ notice' = [notice EXCEPT ![n].status = "QUEUED"]
  /\ JobTo(n, "unadded")
  /\ UNCHANGED <<orderly, fate, heard, faults>>

AddJob(n) ==
  /\ JobIs(n, "unadded")
  /\ JobTo(n, "waiting")
  /\ UNCHANGED <<orderly, notice, fate, heard, faults>>

-----------------------------------------------------------------------------
(* NotificationsProcessor *)

\* The worker takes one job at a time.
Take(n) ==
  /\ JobIs(n, "waiting")
  /\ \A other \in Notices : ~Active(other)
  /\ JobTo(n, "send")
  /\ UNCHANGED <<orderly, notice, fate, heard, faults>>

\* The provider accepts a message.
Accept(n) ==
  /\ fate' = [fate EXCEPT ![n] = Append(@, "sent")]
  /\ heard' = [heard EXCEPT ![n] = Append(@, 0)]

Send(n) ==
  /\ JobIs(n, "send")
  /\ Accept(n)
  /\ JobTo(n, "record")
  /\ UNCHANGED <<orderly, notice, faults>>

\* Mutant: one attempt too many.
FailAttemptLate(n) ==
  job' = [job EXCEPT ![n] =
    [state |-> IF @.attempts < MaxAttempts THEN "waiting" ELSE "exhausted",
     attempts |-> @.attempts + 1]]

\* A failed attempt: another one, or none is left.
FailAttempt(n) ==
  job' = [job EXCEPT ![n] =
    [state |-> IF @.attempts + 1 < MaxAttempts THEN "waiting" ELSE "exhausted",
     attempts |-> @.attempts + 1]]

SendRejected(n) ==
  /\ JobIs(n, "send")
  /\ FailAttempt(n)
  /\ UNCHANGED <<orderly, notice, fate, heard, faults>>

\* The provider's acceptance is lost on its way.
SendUnanswered(n) ==
  /\ JobIs(n, "send")
  /\ Fault
  /\ Accept(n)
  /\ FailAttempt(n)
  /\ UNCHANGED <<orderly, notice>>

\* Mutant: a row that is past SENT keeps its status.
RecordForward(n) ==
  /\ JobIs(n, "record")
  /\ notice' = [notice EXCEPT ![n] =
       [status |-> IF @.status \in {"DELIVERED", "READ"} THEN @.status ELSE "SENT",
        message |-> Len(fate[n])]]
  /\ JobTo(n, "finish")
  /\ UNCHANGED <<orderly, fate, heard, faults>>

Record(n) ==
  /\ JobIs(n, "record")
  /\ notice' = [notice EXCEPT ![n] = [status |-> "SENT", message |-> Len(fate[n])]]
  /\ JobTo(n, "finish")
  /\ UNCHANGED <<orderly, fate, heard, faults>>

RecordFails(n) ==
  /\ JobIs(n, "record")
  /\ Fault
  /\ FailAttempt(n)
  /\ UNCHANGED <<orderly, notice, fate, heard>>

\* Mutant: the row is marked SENT when the job completes.
FinishSent(n) ==
  /\ JobIs(n, "finish")
  /\ notice' = [notice EXCEPT ![n].status = "SENT"]
  /\ JobTo(n, "done")
  /\ UNCHANGED <<orderly, fate, heard, faults>>

Finish(n) ==
  /\ JobIs(n, "finish")
  /\ JobTo(n, "done")
  /\ UNCHANGED <<orderly, notice, fate, heard, faults>>

\* Mutant: every failed attempt marks the row.
OnFailedEarly(n) ==
  /\ job[n].attempts > 0 /\ job[n].state \in {"waiting", "exhausted"}
  /\ notice' = [notice EXCEPT ![n].status = "FAILED"]
  /\ IF JobIs(n, "exhausted") THEN JobTo(n, "done") ELSE UNCHANGED job
  /\ UNCHANGED <<orderly, fate, heard, faults>>

\* Mutant: the last attempt is taken for one that is retried.
OnFailedNever(n) ==
  /\ JobIs(n, "exhausted")
  /\ JobTo(n, "done")
  /\ UNCHANGED <<orderly, notice, fate, heard, faults>>

\* onFailed, once no attempt is left; other jobs are processed meanwhile.
OnFailed(n) ==
  /\ JobIs(n, "exhausted")
  /\ notice' = [notice EXCEPT ![n].status = "FAILED"]
  /\ JobTo(n, "done")
  /\ UNCHANGED <<orderly, fate, heard, faults>>

\* The process restarts, or the database refuses what onFailed writes: an active job
\* stalls and waits again, a job not yet added or a failure not yet recorded is lost.
AfterRestart(state) ==
  CASE state \in {"send", "record", "finish"} -> "waiting"
    [] state = "exhausted" -> "unrecorded"
    [] state = "unadded" -> "done"
    [] OTHER -> state

Restart ==
  /\ Fault
  /\ job' = [n \in Notices |-> [job[n] EXCEPT !.state = AfterRestart(job[n].state)]]
  /\ UNCHANGED <<orderly, notice, fate, heard>>

-----------------------------------------------------------------------------
(* The provider, and recordDeliveryStatus for what it reports *)

Progress(n) ==
  /\ \E m \in DOMAIN fate[n], to \in Fates :
       /\ <<fate[n][m], to>> \in {<<"sent", "delivered">>, <<"delivered", "read">>,
                                  <<"sent", "failed">>}
       /\ fate' = [fate EXCEPT ![n][m] = to]
  /\ UNCHANGED <<orderly, notice, job, heard, faults>>

\* DELIVERY_STATUS_MAP
StatusOf(reported) ==
  CASE reported = "sent" -> "SENT"
    [] reported = "delivered" -> "DELIVERED"
    [] reported = "read" -> "READ"
    [] reported = "failed" -> "FAILED"

\* A webhook counts if the row holds its message's id.  One may come before the id is
\* recorded; unless orderly one may overtake another, come again or never come.
Report(n) ==
  \E m \in DOMAIN fate[n] : \E i \in DOMAIN Reports(fate[n][m]) :
    /\ orderly => i = heard[n][m] + 1
    /\ heard' = IF orderly THEN [heard EXCEPT ![n][m] = i] ELSE heard
    /\ notice' = IF notice[n].message = m
                 THEN [notice EXCEPT ![n].status = StatusOf(Reports(fate[n][m])[i])]
                 ELSE notice
    /\ UNCHANGED <<orderly, job, fate, faults>>

-----------------------------------------------------------------------------
Work(n) ==
  \/ Take(n)
  \/ Send(n) \/ SendRejected(n) \/ SendUnanswered(n)
  \/ Record(n) \/ RecordFails(n)
  \/ Finish(n)
  \/ OnFailed(n)

Next ==
  \/ \E n \in Notices : CreateRow(n) \/ AddJob(n) \/ Work(n) \/ Progress(n) \/ Report(n)
  \/ Restart

Spec == Init /\ [][Next]_vars

\* The worker keeps taking jobs and runs the one it took.
FairSpec == Spec /\ \A n \in Notices : WF_vars(Work(n))

-----------------------------------------------------------------------------
\* Rows, jobs and webhooks have the types the code gives them.
TypeOK ==
  /\ orderly \in BOOLEAN
  /\ notice \in [Notices -> [status : NoticeStatuses \cup {"NONE"}, message : Nat]]
  /\ job \in [Notices -> [state : JobStates, attempts : 0 .. MaxAttempts]]
  /\ fate \in [Notices -> Seq(Fates)]
  /\ heard \in [Notices -> Seq(Nat)]
  /\ faults \in 0 .. MaxFaults

\* A row shows what became of the very message whose id it holds, through retries,
\* restarts and webhooks that are early, late, repeated or out of order.
ShownIsTrue ==
  \A n \in Notices :
    LET row == notice[n] IN
    /\ row.status \in {"SENT", "DELIVERED", "READ"} => row.message \in DOMAIN fate[n]
    /\ row.status = "DELIVERED" => fate[n][row.message] \in {"delivered", "read"}
    /\ row.status = "READ" => fate[n][row.message] = "read"

\* A failed attempt that is to be retried "doesn't leave a stale FAILED row behind":
\* FAILED means that no attempt is left or that the provider gave the message up.
FailedIsFinal ==
  \A n \in Notices :
    notice[n].status = "FAILED" =>
      \/ job[n].attempts = MaxAttempts
      \/ /\ notice[n].message \in DOMAIN fate[n]
         /\ fate[n][notice[n].message] = "failed"

\* What the customer has read stays READ, unless webhooks overtake one another or a
\* restart has the job run again.
ReadStaysRead ==
  [][\A n \in Notices :
       orderly /\ faults' = 0 /\ notice[n].status = "READ" => notice'[n].status = "READ"]_vars

\* A job in the queue does not leave its row QUEUED for ever: it is sent or given up,
\* unless the process dies between the last failure and its record.
QueuedIsResolved ==
  \A n \in Notices :
    JobIs(n, "waiting") ~> notice[n].status # "QUEUED" \/ JobIs(n, "unrecorded")
=============================================================================
