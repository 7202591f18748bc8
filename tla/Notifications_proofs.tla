------------------------ MODULE Notifications_proofs ------------------------
(***************************************************************************)
(* What a notification's row says is true, who resolves it, and how often  *)
(* its message is sent, for every number of notifications, attempts and    *)
(* faults.                                                                 *)
(***************************************************************************)
EXTENDS Notifications, SequenceTheorems, TLAPS

-----------------------------------------------------------------------------
(* The invariant.  Types alone are not inductive: a row's message must be    *)
(* one that was sent, an attempt must be left for a job that will run again, *)
(* and none for one that is given up.                                        *)

MessageSent(n) == notice[n].message \in 0 .. Len(fate[n])

Spent(n) == job[n].attempts = MaxAttempts

AttemptsOK(n) ==
  /\ job[n].state \in {"waiting", "send", "record", "finish"} => ~Spent(n)
  /\ job[n].state = "exhausted" => Spent(n)
  /\ job[n].state \in {"none", "unadded"} => job[n].attempts = 0

SentFirst(n) == job[n].state = "record" => Len(fate[n]) > 0

TrueOf(n) ==
  LET row == notice[n] IN
  /\ row.status \in {"SENT", "DELIVERED", "READ"} => row.message \in DOMAIN fate[n]
  /\ row.status = "DELIVERED" => fate[n][row.message] \in {"delivered", "read"}
  /\ row.status = "READ" => fate[n][row.message] = "read"

FinalOf(n) ==
  notice[n].status = "FAILED" =>
    \/ Spent(n)
    \/ notice[n].message \in DOMAIN fate[n] /\ fate[n][notice[n].message] = "failed"

NoticeOK(n) ==
  MessageSent(n) /\ AttemptsOK(n) /\ SentFirst(n) /\ TrueOf(n) /\ FinalOf(n)

IInv == TypeOK /\ \A n \in Notices : NoticeOK(n)

\* A step that concerns one notification leaves the others as they were.
Others(n) ==
  \A other \in Notices \ {n} :
    /\ notice'[other] = notice[other] /\ job'[other] = job[other]
    /\ fate'[other] = fate[other]

LEMMA OthersOK ==
  ASSUME IInv, NEW n \in Notices, Others(n), NoticeOK(n)'
  PROVE  \A m \in Notices : NoticeOK(m)'
BY DEF IInv, Others, NoticeOK, MessageSent, AttemptsOK, Spent, SentFirst, TrueOf, FinalOf

LEMMA UntouchedOK ==
  ASSUME IInv, UNCHANGED <<notice, job, fate>>
  PROVE  \A m \in Notices : NoticeOK(m)'
BY DEF IInv, NoticeOK, MessageSent, AttemptsOK, Spent, SentFirst, TrueOf, FinalOf

LEMMA InitOK == Init => IInv
BY NotificationsAssumption
DEF Init, IInv, TypeOK, NoRow, NoticeOK, MessageSent, AttemptsOK, Spent, SentFirst, TrueOf,
    FinalOf, NoticeStatuses, JobStates, Fates

-----------------------------------------------------------------------------
(* Steps *)

\* The provider's messages grow at the end or change their fate in place.
LEMMA AcceptOK ==
  ASSUME TypeOK, NEW n \in Notices, Accept(n)
  PROVE  /\ fate' \in [Notices -> Seq(Fates)] /\ heard' \in [Notices -> Seq(Nat)]
         /\ Len(fate'[n]) = Len(fate[n]) + 1
         /\ DOMAIN fate[n] \subseteq DOMAIN fate'[n]
         /\ \A m \in DOMAIN fate[n] : fate'[n][m] = fate[n][m]
         /\ \A other \in Notices \ {n} : fate'[other] = fate[other]
<1>1. fate[n] \in Seq(Fates) /\ heard[n] \in Seq(Nat) /\ "sent" \in Fates
  BY DEF TypeOK, Fates
<1>2. /\ Append(fate[n], "sent") \in Seq(Fates)
      /\ Len(Append(fate[n], "sent")) = Len(fate[n]) + 1
      /\ \A m \in 1 .. Len(fate[n]) : Append(fate[n], "sent")[m] = fate[n][m]
  BY <1>1, AppendProperties
<1>3. Append(heard[n], 0) \in Seq(Nat)
  BY <1>1, AppendProperties
<1>4. fate'[n] = Append(fate[n], "sent")
  BY DEF Accept, TypeOK
<1>. QED BY <1>1, <1>2, <1>3, <1>4 DEF Accept, TypeOK

LEMMA FailAttemptOK ==
  ASSUME TypeOK, NEW n \in Notices, ~Spent(n), FailAttempt(n)
  PROVE  /\ job' \in [Notices -> [state : JobStates, attempts : 0 .. MaxAttempts]]
         /\ job'[n].state \in {"waiting", "exhausted"}
         /\ job'[n].state = "waiting" => job'[n].attempts # MaxAttempts
         /\ job'[n].state = "exhausted" => job'[n].attempts = MaxAttempts
         /\ \A other \in Notices \ {n} : job'[other] = job[other]
<1>1. job[n].attempts \in 0 .. MaxAttempts /\ job[n].attempts < MaxAttempts
  BY NotificationsAssumption DEF TypeOK, Spent
<1>. QED BY <1>1, NotificationsAssumption DEF FailAttempt, TypeOK, JobStates

LEMMA JobToOK ==
  ASSUME TypeOK, NEW n \in Notices, NEW state \in JobStates, JobTo(n, state)
  PROVE  /\ job' \in [Notices -> [state : JobStates, attempts : 0 .. MaxAttempts]]
         /\ job'[n].state = state /\ job'[n].attempts = job[n].attempts
         /\ \A other \in Notices \ {n} : job'[other] = job[other]
BY DEF JobTo, TypeOK

LEMMA WorkStep ==
  ASSUME IInv, NEW n \in Notices, Work(n)
  PROVE  IInv'
<1>. USE DEF NoticeOK, MessageSent, AttemptsOK, Spent, SentFirst, TrueOf, FinalOf
<1>0. TypeOK /\ NoticeOK(n) /\ fate[n] \in Seq(Fates)
  BY DEF IInv, TypeOK
<1>. SUFFICES TypeOK' /\ NoticeOK(n)' /\ Others(n)
  BY OthersOK DEF IInv
<1>1. CASE Take(n)
  <2>1. JobTo(n, "send") /\ job[n].state = "waiting"
        /\ UNCHANGED <<orderly, notice, fate, heard, faults>>
    BY <1>1 DEF Take, JobIs
  <2>. QED BY <1>0, <2>1, JobToOK DEF TypeOK, Others, JobStates
<1>2. CASE Send(n)
  <2>1. JobTo(n, "record") /\ job[n].state = "send" /\ Accept(n)
        /\ UNCHANGED <<orderly, notice, faults>>
    BY <1>2 DEF Send, JobIs
  <2>2. /\ job' \in [Notices -> [state : JobStates, attempts : 0 .. MaxAttempts]]
        /\ job'[n].state = "record" /\ job'[n].attempts = job[n].attempts
        /\ \A other \in Notices \ {n} : job'[other] = job[other]
    BY <1>0, <2>1, JobToOK DEF JobStates
  <2>3. TypeOK' /\ Others(n)
    BY <1>0, <2>1, <2>2, AcceptOK DEF TypeOK, Others
  <2>4. NoticeOK(n)'
    BY <1>0, <2>1, <2>2, AcceptOK
  <2>. QED BY <2>3, <2>4
<1>3. CASE SendRejected(n)
  <2>1. job[n].state = "send" /\ FailAttempt(n)
        /\ UNCHANGED <<orderly, notice, fate, heard, faults>>
    BY <1>3 DEF SendRejected, JobIs
  <2>. QED BY <1>0, <2>1, FailAttemptOK DEF TypeOK, Others
<1>4. CASE SendUnanswered(n)
  <2>1. job[n].state = "send" /\ FailAttempt(n) /\ Accept(n) /\ Fault
        /\ UNCHANGED <<orderly, notice>>
    BY <1>4 DEF SendUnanswered, JobIs
  <2>2. faults' \in 0 .. MaxFaults
    BY <1>0, <2>1, NotificationsAssumption DEF Fault, TypeOK
  <2>3. TypeOK' /\ Others(n)
    BY <1>0, <2>1, <2>2, AcceptOK, FailAttemptOK DEF TypeOK, Others
  <2>4. NoticeOK(n)'
    BY <1>0, <2>1, AcceptOK, FailAttemptOK
  <2>. QED BY <2>3, <2>4
<1>5. CASE Record(n)
  <2>1. JobTo(n, "finish") /\ job[n].state = "record"
        /\ notice' = [notice EXCEPT ![n] = [status |-> "SENT", message |-> Len(fate[n])]]
        /\ UNCHANGED <<orderly, fate, heard, faults>>
    BY <1>5 DEF Record, JobIs
  <2>2. Len(fate[n]) \in Nat /\ DOMAIN fate[n] = 1 .. Len(fate[n])
    BY <1>0
  <2>3. /\ job' \in [Notices -> [state : JobStates, attempts : 0 .. MaxAttempts]]
        /\ job'[n].state = "finish" /\ job'[n].attempts = job[n].attempts
        /\ \A other \in Notices \ {n} : job'[other] = job[other]
    BY <1>0, <2>1, JobToOK DEF JobStates
  <2>4. TypeOK' /\ Others(n)
    BY <1>0, <2>1, <2>2, <2>3 DEF TypeOK, Others, NoticeStatuses
  <2>5. notice'[n].status = "SENT" /\ notice'[n].message = Len(fate[n])
    BY <1>0, <2>1 DEF TypeOK
  <2>. QED BY <1>0, <2>1, <2>2, <2>3, <2>4, <2>5
<1>6. CASE RecordFails(n)
  <2>1. job[n].state = "record" /\ FailAttempt(n) /\ Fault
        /\ UNCHANGED <<orderly, notice, fate, heard>>
    BY <1>6 DEF RecordFails, JobIs
  <2>2. faults' \in 0 .. MaxFaults
    BY <1>0, <2>1, NotificationsAssumption DEF Fault, TypeOK
  <2>. QED BY <1>0, <2>1, <2>2, FailAttemptOK DEF TypeOK, Others
<1>7. CASE Finish(n)
  <2>1. JobTo(n, "done") /\ UNCHANGED <<orderly, notice, fate, heard, faults>>
    BY <1>7 DEF Finish
  <2>. QED BY <1>0, <2>1, JobToOK DEF TypeOK, Others, JobStates
<1>8. CASE OnFailed(n)
  <2>1. JobTo(n, "done") /\ job[n].state = "exhausted"
        /\ notice' = [notice EXCEPT ![n].status = "FAILED"]
        /\ UNCHANGED <<orderly, fate, heard, faults>>
    BY <1>8 DEF OnFailed, JobIs
  <2>2. /\ job' \in [Notices -> [state : JobStates, attempts : 0 .. MaxAttempts]]
        /\ job'[n].state = "done" /\ job'[n].attempts = job[n].attempts
        /\ \A other \in Notices \ {n} : job'[other] = job[other]
    BY <1>0, <2>1, JobToOK DEF JobStates
  <2>3. TypeOK' /\ Others(n)
    BY <1>0, <2>1, <2>2 DEF TypeOK, Others, NoticeStatuses
  <2>4. notice'[n].status = "FAILED" /\ notice'[n].message = notice[n].message
    BY <1>0, <2>1 DEF TypeOK
  <2>. QED BY <1>0, <2>1, <2>2, <2>3, <2>4
<1>. QED BY <1>1, <1>2, <1>3, <1>4, <1>5, <1>6, <1>7, <1>8 DEF Work

LEMMA EnqueueStep ==
  ASSUME IInv, NEW n \in Notices, CreateRow(n) \/ AddJob(n)
  PROVE  IInv'
<1>. USE DEF NoticeOK, MessageSent, AttemptsOK, Spent, SentFirst, TrueOf, FinalOf
<1>0. TypeOK /\ NoticeOK(n) /\ fate[n] \in Seq(Fates)
  BY DEF IInv, TypeOK
<1>. SUFFICES TypeOK' /\ NoticeOK(n)' /\ Others(n)
  BY OthersOK DEF IInv
<1>1. CASE CreateRow(n)
  <2>1. JobTo(n, "unadded") /\ job[n].state = "none"
        /\ notice' = [notice EXCEPT ![n].status = "QUEUED"]
        /\ UNCHANGED <<orderly, fate, heard, faults>>
    BY <1>1 DEF CreateRow, JobIs
  <2>2. /\ job' \in [Notices -> [state : JobStates, attempts : 0 .. MaxAttempts]]
        /\ job'[n].state = "unadded" /\ job'[n].attempts = job[n].attempts
        /\ \A other \in Notices \ {n} : job'[other] = job[other]
    BY <1>0, <2>1, JobToOK DEF JobStates
  <2>3. TypeOK' /\ Others(n)
    BY <1>0, <2>1, <2>2 DEF TypeOK, Others, NoticeStatuses
  <2>4. notice'[n].status = "QUEUED" /\ notice'[n].message = notice[n].message
    BY <1>0, <2>1 DEF TypeOK
  <2>. QED BY <1>0, <2>1, <2>2, <2>3, <2>4
<1>2. CASE AddJob(n)
  <2>1. JobTo(n, "waiting") /\ job[n].state = "unadded"
        /\ UNCHANGED <<orderly, notice, fate, heard, faults>>
    BY <1>2 DEF AddJob, JobIs
  <2>. QED BY <1>0, <2>1, JobToOK, NotificationsAssumption DEF TypeOK, Others, JobStates
<1>. QED BY <1>1, <1>2

LEMMA ProgressStep ==
  ASSUME IInv, NEW n \in Notices, Progress(n)
  PROVE  IInv'
<1>. USE DEF NoticeOK, MessageSent, AttemptsOK, Spent, SentFirst, TrueOf, FinalOf
<1>0. TypeOK /\ NoticeOK(n) /\ fate[n] \in Seq(Fates)
  BY DEF IInv, TypeOK
<1>. SUFFICES TypeOK' /\ NoticeOK(n)' /\ Others(n)
  BY OthersOK DEF IInv
<1>1. PICK m \in DOMAIN fate[n], to \in Fates :
        /\ <<fate[n][m], to>> \in {<<"sent", "delivered">>, <<"delivered", "read">>,
                                   <<"sent", "failed">>}
        /\ fate' = [fate EXCEPT ![n][m] = to]
  BY DEF Progress
<1>2. UNCHANGED <<orderly, notice, job, heard, faults>>
  BY DEF Progress
<1>3. fate'[n] = [fate[n] EXCEPT ![m] = to] /\ \A o \in Notices \ {n} : fate'[o] = fate[o]
  BY <1>0, <1>1 DEF TypeOK
<1>4. m \in 1 .. Len(fate[n])
  BY <1>0
<1>5. /\ [fate[n] EXCEPT ![m] = to] \in Seq(Fates)
      /\ Len([fate[n] EXCEPT ![m] = to]) = Len(fate[n])
      /\ \A j \in 1 .. Len(fate[n]) :
           [fate[n] EXCEPT ![m] = to][j] = IF j = m THEN to ELSE fate[n][j]
  BY <1>0, <1>4, ExceptSeq
<1>6. TypeOK' /\ Others(n)
  BY <1>0, <1>1, <1>2, <1>3, <1>5 DEF TypeOK, Others
<1>7. DOMAIN fate'[n] = DOMAIN fate[n]
  BY <1>0, <1>3
<1>8. \A j \in DOMAIN fate[n] : fate'[n][j] = IF j = m THEN to ELSE fate[n][j]
  BY <1>0, <1>3
<1>9. NoticeOK(n)'
  BY <1>0, <1>1, <1>2, <1>3, <1>5, <1>7, <1>8
<1>. QED BY <1>6, <1>9

LEMMA ReportStep ==
  ASSUME IInv, NEW n \in Notices, Report(n)
  PROVE  IInv'
<1>. USE DEF NoticeOK, MessageSent, AttemptsOK, Spent, SentFirst, TrueOf, FinalOf
<1>0. TypeOK /\ NoticeOK(n) /\ fate[n] \in Seq(Fates)
  BY DEF IInv, TypeOK
<1>. SUFFICES TypeOK' /\ NoticeOK(n)' /\ Others(n)
  BY OthersOK DEF IInv
<1>m. PICK m \in DOMAIN fate[n] : \E i \in DOMAIN Reports(fate[n][m]) :
        /\ heard' = IF orderly THEN [heard EXCEPT ![n][m] = i] ELSE heard
        /\ notice' = IF notice[n].message = m
                     THEN [notice EXCEPT ![n].status = StatusOf(Reports(fate[n][m])[i])]
                     ELSE notice
        /\ UNCHANGED <<orderly, job, fate, faults>>
  BY DEF Report
<1>1. PICK i \in DOMAIN Reports(fate[n][m]) :
        /\ heard' = IF orderly THEN [heard EXCEPT ![n][m] = i] ELSE heard
        /\ notice' = IF notice[n].message = m
                     THEN [notice EXCEPT ![n].status = StatusOf(Reports(fate[n][m])[i])]
                     ELSE notice
        /\ UNCHANGED <<orderly, job, fate, faults>>
  BY <1>m
<1>2. fate[n][m] \in Fates
  BY <1>0
<1>3. /\ i \in Nat
      /\ LET status == StatusOf(Reports(fate[n][m])[i]) IN
         /\ status \in NoticeStatuses \ {"QUEUED"}
         /\ status = "DELIVERED" => fate[n][m] \in {"delivered", "read"}
         /\ status = "READ" => fate[n][m] = "read"
         /\ status = "FAILED" => fate[n][m] = "failed"
  <2>1. CASE fate[n][m] = "sent"
    BY <2>1, i \in {1} DEF Reports, StatusOf, NoticeStatuses
  <2>2. CASE fate[n][m] = "delivered"
    BY <2>2, i \in {1, 2} DEF Reports, StatusOf, NoticeStatuses
  <2>3. CASE fate[n][m] = "read"
    BY <2>3, i \in {1, 2, 3} DEF Reports, StatusOf, NoticeStatuses
  <2>4. CASE fate[n][m] = "failed"
    BY <2>4, i \in {1, 2} DEF Reports, StatusOf, NoticeStatuses
  <2>. QED BY <1>2, <2>1, <2>2, <2>3, <2>4 DEF Fates
<1>4. heard' \in [Notices -> Seq(Nat)]
  <2>0. heard[n] \in Seq(Nat)
    BY <1>0 DEF TypeOK
  <2>1. [heard[n] EXCEPT ![m] = i] \in Seq(Nat)
    <3>1. CASE m \in 1 .. Len(heard[n])
      BY <2>0, <3>1, <1>3, ExceptSeq
    <3>2. CASE m \notin 1 .. Len(heard[n])
      <4>1. [heard[n] EXCEPT ![m] = i] = heard[n]
        BY <2>0, <3>2
      <4>. QED BY <2>0, <4>1
    <3>. QED BY <3>1, <3>2
  <2>. QED BY <1>0, <1>1, <2>1 DEF TypeOK
<1>5. TypeOK' /\ Others(n)
  BY <1>0, <1>1, <1>3, <1>4 DEF TypeOK, Others
<1>6. CASE notice[n].message = m
  <2>1. /\ notice'[n].status = StatusOf(Reports(fate[n][m])[i])
        /\ notice'[n].message = m
    BY <1>0, <1>1, <1>6 DEF TypeOK
  <2>. QED BY <1>0, <1>1, <1>3, <1>5, <2>1
<1>7. CASE notice[n].message # m
  BY <1>0, <1>1, <1>5, <1>7
<1>. QED BY <1>6, <1>7

LEMMA RestartStep ==
  ASSUME IInv, Restart
  PROVE  IInv'
<1>. USE DEF NoticeOK, MessageSent, AttemptsOK, Spent, SentFirst, TrueOf, FinalOf
<1>0. TypeOK
  BY DEF IInv
<1>1. faults' \in 0 .. MaxFaults /\ UNCHANGED <<orderly, notice, fate, heard>>
  BY <1>0, NotificationsAssumption DEF Restart, Fault, TypeOK
<1>2. ASSUME NEW n \in Notices
      PROVE  /\ job'[n] \in [state : JobStates, attempts : 0 .. MaxAttempts]
             /\ job'[n].attempts = job[n].attempts
             /\ job'[n].state = AfterRestart(job[n].state)
  <2>1. job'[n] = [job[n] EXCEPT !.state = AfterRestart(job[n].state)]
    BY DEF Restart
  <2>2. AfterRestart(job[n].state) \in JobStates
    BY <1>0 DEF TypeOK, JobStates, AfterRestart
  <2>. QED BY <1>0, <2>1, <2>2 DEF TypeOK
<1>3. TypeOK'
  <2>1. DOMAIN job' = Notices /\ job' = [n \in Notices |-> job'[n]]
    BY DEF Restart
  <2>. QED BY <1>0, <1>1, <1>2, <2>1 DEF TypeOK
<1>4. ASSUME NEW n \in Notices PROVE NoticeOK(n)'
  <2>1. NoticeOK(n) /\ job[n].state \in JobStates
    BY <1>0 DEF IInv, TypeOK
  <2>. QED BY <2>1, <1>1, <1>2 DEF AfterRestart, JobStates
<1>. QED BY <1>3, <1>4 DEF IInv

LEMMA NextStep == IInv /\ [Next]_vars => IInv'
<1>. SUFFICES ASSUME IInv, [Next]_vars PROVE IInv'
  OBVIOUS
<1>1. CASE UNCHANGED vars
  BY <1>1, UntouchedOK DEF IInv, TypeOK, vars
<1>. QED BY <1>1, WorkStep, EnqueueStep, ProgressStep, ReportStep, RestartStep DEF Next

-----------------------------------------------------------------------------
\* Rows, jobs and webhooks keep their types through restarts and retries: no job makes
\* more attempts than it has.
THEOREM NotificationsTypeCorrect == Spec => []TypeOK
BY InitOK, NextStep, PTL DEF Spec, IInv

\* However retries, restarts and webhooks interleave, a row shows what became of the
\* message whose id it holds.
THEOREM RowsTellTheTruth == Spec => []ShownIsTrue
<1>1. IInv => ShownIsTrue
  BY DEF IInv, NoticeOK, TrueOf, ShownIsTrue
<1>. QED BY <1>1, InitOK, NextStep, PTL DEF Spec

\* A row is FAILED only when no attempt is left or the provider gave the message up.
THEOREM FailuresAreFinal == Spec => []FailedIsFinal
<1>1. IInv => FailedIsFinal
  BY DEF IInv, NoticeOK, FinalOf, Spent, FailedIsFinal
<1>. QED BY <1>1, InitOK, NextStep, PTL DEF Spec

-----------------------------------------------------------------------------
(* Read stays read.  Webhooks in order: the row that says READ has heard all *)
(* three of its message.  No faults: a job that is still to be recorded, or  *)
(* is given up, has sent no message its row knows of.                        *)

HeardOK(n) ==
  /\ Len(heard[n]) = Len(fate[n])
  /\ orderly /\ notice[n].status = "READ" => heard[n][notice[n].message] = 3

UnrecordedOK(n) ==
  faults = 0 /\ job[n].state \notin {"finish", "done"} => notice[n].message = 0

ReadOK(n) == HeardOK(n) /\ UnrecordedOK(n)

RInv == IInv /\ \A n \in Notices : ReadOK(n)

LEMMA ReadInit == Init => RInv
BY InitOK DEF Init, RInv, ReadOK, HeardOK, UnrecordedOK, NoRow

LEMMA HeardAccept ==
  ASSUME TypeOK, NEW n \in Notices, Accept(n)
  PROVE  /\ Len(heard'[n]) = Len(heard[n]) + 1
         /\ \A m \in 1 .. Len(heard[n]) : heard'[n][m] = heard[n][m]
         /\ \A other \in Notices \ {n} : heard'[other] = heard[other]
<1>1. heard[n] \in Seq(Nat) /\ heard'[n] = Append(heard[n], 0)
  BY DEF Accept, TypeOK
<1>2. 0 \in Nat
  OBVIOUS
<1>. QED BY <1>1, <1>2, AppendProperties DEF Accept, TypeOK

LEMMA AcceptUnread ==
  ASSUME TypeOK, NEW n \in Notices, Accept(n), ReadOK(n), NoticeOK(n), orderly' = orderly,
         notice'[n] = notice[n]
  PROVE  HeardOK(n)'
<1>1. fate[n] \in Seq(Fates) /\ heard[n] \in Seq(Nat) /\ Len(heard[n]) = Len(fate[n])
  BY DEF TypeOK, ReadOK, HeardOK
<1>2. Len(heard'[n]) = Len(fate'[n])
  BY <1>1, AcceptOK, HeardAccept
<1>3. ASSUME orderly, notice[n].status = "READ"
      PROVE  heard'[n][notice[n].message] = 3
  <2>1. notice[n].message \in 1 .. Len(heard[n])
    BY <1>1, <1>3 DEF NoticeOK, TrueOf
  <2>2. heard[n][notice[n].message] = 3
    BY <1>3 DEF ReadOK, HeardOK
  <2>. QED BY <2>1, <2>2, HeardAccept
<1>. QED BY <1>2, <1>3 DEF HeardOK

\* The parts of a notification's row that a step leaves alone.
LEMMA RowKept ==
  ASSUME IInv, NEW n \in Notices, ReadOK(n), notice'[n] = notice[n], orderly' = orderly,
         fate'[n] = fate[n], heard'[n] = heard[n],
         faults' = 0 => faults = 0,
         job'[n].state \notin {"finish", "done"} => job[n].state \notin {"finish", "done"}
  PROVE  ReadOK(n)'
BY DEF ReadOK, HeardOK, UnrecordedOK

LEMMA FaultsGrow == ASSUME TypeOK, [Next]_vars PROVE orderly' = orderly /\ (faults' = 0 => faults = 0)
<1>1. ASSUME Fault PROVE faults' # 0
  BY <1>1 DEF Fault, TypeOK
<1>. QED BY <1>1 DEF Next, vars, Work, CreateRow, AddJob, Take, Send, SendRejected, SendUnanswered,
       Record, RecordFails, Finish, OnFailed, Progress, Report, Restart

LEMMA ReadOthers ==
  ASSUME RInv, [Next]_vars, NEW n \in Notices, ReadOK(n)',
         \A other \in Notices \ {n} :
           /\ notice'[other] = notice[other] /\ job'[other] = job[other]
           /\ fate'[other] = fate[other] /\ heard'[other] = heard[other]
  PROVE  \A m \in Notices : ReadOK(m)'
<1>1. ASSUME NEW other \in Notices \ {n} PROVE ReadOK(other)'
  <2>1. orderly' = orderly /\ (faults' = 0 => faults = 0)
    BY FaultsGrow DEF RInv, IInv
  <2>. QED BY <2>1, RowKept DEF RInv
<1>. QED BY <1>1

LEMMA ReadWork ==
  ASSUME RInv, NEW n \in Notices, Work(n) \/ CreateRow(n) \/ AddJob(n)
  PROVE  /\ \A m \in Notices : ReadOK(m)'
         /\ orderly /\ faults' = 0 /\ notice[n].status = "READ" => notice'[n].status = "READ"
<1>0. /\ TypeOK /\ ReadOK(n) /\ NoticeOK(n) /\ fate[n] \in Seq(Fates) /\ heard[n] \in Seq(Nat)
      /\ orderly' = orderly /\ (faults' = 0 => faults = 0) /\ [Next]_vars
  BY FaultsGrow DEF RInv, IInv, TypeOK, Next
<1>. DEFINE Kept == orderly /\ faults' = 0 /\ notice[n].status = "READ" => notice'[n].status = "READ"
            Beside == \A other \in Notices \ {n} :
                        /\ notice'[other] = notice[other] /\ job'[other] = job[other]
                        /\ fate'[other] = fate[other] /\ heard'[other] = heard[other]
<1>a. SUFFICES ReadOK(n)' /\ Beside /\ Kept
  BY <1>0, ReadOthers
<1>b. faults = 0 /\ job[n].state \notin {"finish", "done"} => notice[n].status # "READ"
  BY <1>0 DEF ReadOK, UnrecordedOK, NoticeOK, TrueOf
<1>1. CASE Take(n) \/ AddJob(n) \/ Finish(n)
  <2>1. PICK state \in {"send", "waiting", "done"} :
          /\ JobTo(n, state) /\ (state # "done" => job[n].state \in {"waiting", "unadded"})
          /\ UNCHANGED <<notice, fate, heard>>
    BY <1>1 DEF Take, AddJob, Finish, JobIs
  <2>2. job'[n].state = state /\ Beside
    BY <1>0, <2>1, JobToOK DEF JobStates
  <2>. QED BY <1>0, <2>1, <2>2, RowKept DEF RInv
<1>2. CASE Send(n)
  <2>1. JobTo(n, "record") /\ job[n].state = "send" /\ Accept(n) /\ notice' = notice
    BY <1>2 DEF Send, JobIs
  <2>2. job'[n].state = "record" /\ Beside
    BY <1>0, <2>1, JobToOK, AcceptOK, HeardAccept DEF JobStates
  <2>3. HeardOK(n)'
    BY <1>0, <2>1, AcceptUnread
  <2>. QED BY <1>0, <2>1, <2>2, <2>3 DEF ReadOK, UnrecordedOK
<1>3. CASE SendRejected(n) \/ RecordFails(n)
  <2>1. /\ job[n].state \in {"send", "record"} /\ FailAttempt(n)
        /\ UNCHANGED <<notice, fate, heard>>
    BY <1>3 DEF SendRejected, RecordFails, JobIs
  <2>2. ~Spent(n)
    BY <1>0, <2>1 DEF NoticeOK, AttemptsOK
  <2>. QED BY <1>0, <2>1, <2>2, RowKept, FailAttemptOK DEF RInv
<1>4. CASE SendUnanswered(n)
  <2>1. job[n].state = "send" /\ FailAttempt(n) /\ Accept(n) /\ notice' = notice
    BY <1>4 DEF SendUnanswered, JobIs
  <2>2. ~Spent(n)
    BY <1>0, <2>1 DEF NoticeOK, AttemptsOK
  <2>3. HeardOK(n)'
    BY <1>0, <2>1, AcceptUnread
  <2>4. Beside
    BY <1>0, <2>1, <2>2, AcceptOK, HeardAccept, FailAttemptOK
  <2>. QED BY <1>0, <2>1, <2>3, <2>4 DEF ReadOK, UnrecordedOK
<1>5. CASE Record(n) \/ OnFailed(n) \/ CreateRow(n)
  <2>1. PICK state \in {"finish", "done", "unadded"} :
          /\ JobTo(n, state) /\ job[n].state \in {"record", "exhausted", "none"}
          /\ state = "unadded" => job[n].state = "none"
          /\ \A other \in Notices \ {n} : notice'[other] = notice[other]
          /\ notice'[n].status # "READ"
          /\ state = "unadded" => notice'[n].message = notice[n].message
          /\ UNCHANGED <<fate, heard>>
    BY <1>0, <1>5 DEF Record, OnFailed, CreateRow, JobIs, TypeOK
  <2>2. job'[n].state = state /\ Beside
    BY <1>0, <2>1, JobToOK DEF JobStates
  <2>3. ReadOK(n)'
    BY <1>0, <2>1, <2>2 DEF ReadOK, HeardOK, UnrecordedOK
  <2>4. Kept
    BY <1>0, <1>b, <2>1
  <2>. QED BY <2>2, <2>3, <2>4
<1>. QED BY <1>1, <1>2, <1>3, <1>4, <1>5 DEF Work

LEMMA ReadProgress ==
  ASSUME RInv, NEW n \in Notices, Progress(n)
  PROVE  (\A m \in Notices : ReadOK(m)') /\ UNCHANGED notice
<1>0. TypeOK /\ ReadOK(n) /\ fate[n] \in Seq(Fates) /\ [Next]_vars
  BY DEF RInv, IInv, TypeOK, Next
<1>1. PICK m \in DOMAIN fate[n], to \in Fates : fate' = [fate EXCEPT ![n][m] = to]
  BY DEF Progress
<1>2. UNCHANGED <<orderly, notice, job, heard, faults>>
  BY DEF Progress
<1>3. /\ fate'[n] = [fate[n] EXCEPT ![m] = to] /\ m \in 1 .. Len(fate[n])
      /\ \A o \in Notices \ {n} : fate'[o] = fate[o]
  BY <1>0, <1>1 DEF TypeOK
<1>4. Len(fate'[n]) = Len(fate[n])
  BY <1>0, <1>3, ExceptSeq
<1>5. ReadOK(n)'
  BY <1>0, <1>2, <1>4 DEF ReadOK, HeardOK, UnrecordedOK
<1>. QED BY <1>0, <1>2, <1>3, <1>5, ReadOthers

LEMMA ReadReport ==
  ASSUME RInv, NEW n \in Notices, Report(n)
  PROVE  /\ \A m \in Notices : ReadOK(m)'
         /\ orderly /\ notice[n].status = "READ" => notice'[n].status = "READ"
<1>0. /\ TypeOK /\ ReadOK(n) /\ NoticeOK(n) /\ [Next]_vars
      /\ fate[n] \in Seq(Fates) /\ heard[n] \in Seq(Nat)
  BY DEF RInv, IInv, TypeOK, Next
<1>m. PICK m \in DOMAIN fate[n] : \E i \in DOMAIN Reports(fate[n][m]) :
        /\ orderly => i = heard[n][m] + 1
        /\ heard' = IF orderly THEN [heard EXCEPT ![n][m] = i] ELSE heard
        /\ notice' = IF notice[n].message = m
                     THEN [notice EXCEPT ![n].status = StatusOf(Reports(fate[n][m])[i])]
                     ELSE notice
        /\ UNCHANGED <<orderly, job, fate, faults>>
  BY DEF Report
<1>1. PICK i \in DOMAIN Reports(fate[n][m]) :
        /\ orderly => i = heard[n][m] + 1
        /\ heard' = IF orderly THEN [heard EXCEPT ![n][m] = i] ELSE heard
        /\ notice' = IF notice[n].message = m
                     THEN [notice EXCEPT ![n].status = StatusOf(Reports(fate[n][m])[i])]
                     ELSE notice
        /\ UNCHANGED <<orderly, job, fate, faults>>
  BY <1>m
<1>2. i \in 1 .. 3 /\ (StatusOf(Reports(fate[n][m])[i]) = "READ" => i = 3)
  <2>1. CASE fate[n][m] = "sent"
    BY <2>1, i \in {1} DEF Reports, StatusOf
  <2>2. CASE fate[n][m] = "delivered"
    BY <2>2, i \in {1, 2} DEF Reports, StatusOf
  <2>3. CASE fate[n][m] = "read"
    BY <2>3, i \in {1, 2, 3} DEF Reports, StatusOf
  <2>4. CASE fate[n][m] = "failed"
    BY <2>4, i \in {1, 2} DEF Reports, StatusOf
  <2>. QED BY <1>0, <2>1, <2>2, <2>3, <2>4 DEF Fates
<1>3. m \in 1 .. Len(heard[n])
  BY <1>0 DEF ReadOK, HeardOK
<1>4. /\ Len(heard'[n]) = Len(heard[n])
      /\ \A j \in 1 .. Len(heard[n]) :
           heard'[n][j] = IF orderly /\ j = m THEN i ELSE heard[n][j]
      /\ \A o \in Notices \ {n} : heard'[o] = heard[o]
  <2>1. CASE orderly
    <3>1. heard' = [heard EXCEPT ![n][m] = i] /\ i \in Nat
      BY <1>1, <1>2, <2>1
    <3>2. heard'[n] = [heard[n] EXCEPT ![m] = i] /\ \A o \in Notices \ {n} : heard'[o] = heard[o]
      BY <1>0, <3>1 DEF TypeOK
    <3>3. /\ Len([heard[n] EXCEPT ![m] = i]) = Len(heard[n])
          /\ \A j \in 1 .. Len(heard[n]) :
               [heard[n] EXCEPT ![m] = i][j] = IF j = m THEN i ELSE heard[n][j]
      BY <1>0, <1>3, <3>1, ExceptSeq
    <3>. QED BY <2>1, <3>2, <3>3
  <2>2. CASE ~orderly
    BY <1>1, <2>2
  <2>. QED BY <2>1, <2>2
<1>5. CASE notice[n].message = m
  <2>1. /\ notice'[n].status = StatusOf(Reports(fate[n][m])[i]) /\ notice'[n].message = m
        /\ \A o \in Notices \ {n} : notice'[o] = notice[o]
    BY <1>0, <1>1, <1>5 DEF TypeOK
  <2>2. ReadOK(n)'
    BY <1>0, <1>1, <1>2, <1>3, <1>4, <1>5, <2>1 DEF ReadOK, HeardOK, UnrecordedOK
  <2>3. orderly => notice[n].status # "READ"
    BY <1>0, <1>1, <1>2, <1>5 DEF ReadOK, HeardOK
  <2>. QED BY <1>0, <1>1, <1>4, <2>1, <2>2, <2>3, ReadOthers
<1>6. CASE notice[n].message # m
  <2>1. notice' = notice
    BY <1>1, <1>6
  <2>2. notice[n].status = "READ" => notice[n].message \in 1 .. Len(heard[n])
    BY <1>0 DEF NoticeOK, TrueOf, ReadOK, HeardOK
  <2>3. ReadOK(n)'
    BY <1>0, <1>1, <1>4, <1>6, <2>1, <2>2 DEF ReadOK, HeardOK, UnrecordedOK
  <2>. QED BY <1>0, <1>1, <1>4, <2>1, <2>3, ReadOthers
<1>. QED BY <1>5, <1>6

LEMMA ReadRestart ==
  ASSUME RInv, Restart
  PROVE  (\A m \in Notices : ReadOK(m)') /\ UNCHANGED notice
<1>1. faults' # 0 /\ UNCHANGED <<orderly, notice, fate, heard>>
  BY DEF Restart, Fault, RInv, IInv, TypeOK
<1>. QED BY <1>1 DEF RInv, ReadOK, HeardOK, UnrecordedOK

LEMMA ReadStep ==
  ASSUME RInv, [Next]_vars
  PROVE  /\ RInv'
         /\ \A n \in Notices :
              orderly /\ faults' = 0 /\ notice[n].status = "READ" => notice'[n].status = "READ"
<1>0. IInv' /\ TypeOK
  BY NextStep DEF RInv, IInv
<1>. DEFINE Kept(n) ==
       orderly /\ faults' = 0 /\ notice[n].status = "READ" => notice'[n].status = "READ"
<1>1. ASSUME NEW n \in Notices, Work(n) \/ CreateRow(n) \/ AddJob(n)
      PROVE  (\A m \in Notices : ReadOK(m)') /\ \A m \in Notices : Kept(m)
  <2>1. (\A m \in Notices : ReadOK(m)') /\ Kept(n)
    BY <1>1, ReadWork
  <2>2. \A m \in Notices \ {n} : notice'[m] = notice[m]
    BY <1>0, <1>1 DEF Work, CreateRow, AddJob, Take, Send, SendRejected, SendUnanswered, Record,
       RecordFails, Finish, OnFailed, TypeOK
  <2>. QED BY <2>1, <2>2
<1>2. ASSUME NEW n \in Notices, Progress(n)
      PROVE  (\A m \in Notices : ReadOK(m)') /\ \A m \in Notices : Kept(m)
  BY <1>2, ReadProgress
<1>3. ASSUME NEW n \in Notices, Report(n)
      PROVE  (\A m \in Notices : ReadOK(m)') /\ \A m \in Notices : Kept(m)
  <2>1. (\A m \in Notices : ReadOK(m)') /\ Kept(n)
    BY <1>3, ReadReport
  <2>2. \A m \in Notices \ {n} : notice'[m] = notice[m]
    BY <1>0, <1>3 DEF Report, TypeOK
  <2>. QED BY <2>1, <2>2
<1>4. CASE Restart
  BY <1>4, ReadRestart, <1>0 DEF RInv
<1>5. CASE UNCHANGED vars
  BY <1>0, <1>5 DEF vars, RInv, ReadOK, HeardOK, UnrecordedOK
<1>. QED BY <1>0, <1>1, <1>2, <1>3, <1>4, <1>5 DEF Next, RInv

\* Without faults, and webhooks coming once and in order, what the customer has read
\* stays READ: the worker's own writes never come after it.
THEOREM ReadIsFinal == Spec => ReadStaysRead
<1>1. RInv /\ [Next]_vars => RInv'
  BY ReadStep
<1>2. RInv /\ [Next]_vars =>
        [\A n \in Notices :
           orderly /\ faults' = 0 /\ notice[n].status = "READ" => notice'[n].status = "READ"]_vars
  BY ReadStep
<1>. QED BY <1>1, <1>2, ReadInit, PTL DEF Spec, ReadStaysRead

-----------------------------------------------------------------------------
(* What a fault can do.  A job sends once unless a fault has it run again,   *)
(* and leaves its row QUEUED for good only if a fault took its last step.    *)

\* A customer is sent a notification's message again only where a fault - a lost reply,
\* a failed write, a restart - made the worker repeat itself: never more often than that.
NotToldTwice == \A n \in Notices : Len(fate[n]) <= 1 + faults

\* A row that says QUEUED has a job that will resolve it.  Only a fault leaves one
\* without: then its job was never added and nothing was sent, or no attempt is left and
\* the failure was not recorded.  The safety half of QueuedIsResolved.
QueuedHasItsJob ==
  \A n \in Notices : notice[n].status = "QUEUED" =>
    \/ job[n].state \in {"unadded", "waiting", "send", "record", "exhausted"}
    \/ faults > 0 /\ job[n].state = "unrecorded" /\ job[n].attempts = MaxAttempts
    \/ faults > 0 /\ job[n].state = "done" /\ fate[n] = <<>>

\* A message for this run of the job, and one for every fault so far.
SentForRun(n) ==
  Len(fate[n]) <= faults + (IF job[n].state \in {"record", "finish", "done"} THEN 1 ELSE 0)

UnaddedUnsent(n) == job[n].state \in {"none", "unadded"} => fate[n] = <<>>

UnrecordedSpent(n) == job[n].state = "unrecorded" => Spent(n)

QueuedOf(n) ==
  notice[n].status = "QUEUED" =>
    \/ job[n].state \in {"unadded", "waiting", "send", "record", "exhausted"}
    \/ faults > 0 /\ job[n].state = "unrecorded" /\ Spent(n)
    \/ faults > 0 /\ job[n].state = "done" /\ fate[n] = <<>>

QueueOK(n) == SentForRun(n) /\ UnaddedUnsent(n) /\ UnrecordedSpent(n) /\ QueuedOf(n)

QInv == IInv /\ \A n \in Notices : QueueOK(n)

LEMMA QueueInit == Init => QInv
<1>. SUFFICES ASSUME Init PROVE \A n \in Notices : QueueOK(n)
  BY InitOK DEF QInv
<1>1. Len(<<>>) = 0 /\ NoRow.status = "NONE"
  BY DEF NoRow
<1>2. ASSUME NEW n \in Notices
      PROVE  /\ fate[n] = <<>> /\ Len(fate[n]) = 0 /\ faults = 0
             /\ job[n].state = "none" /\ notice[n].status = "NONE"
  BY <1>1 DEF Init
<1>3. ASSUME NEW n \in Notices PROVE SentForRun(n)
  BY <1>2 DEF SentForRun
<1>. QED BY <1>2, <1>3 DEF QueueOK, UnaddedUnsent, UnrecordedSpent, QueuedOf

\* A fault is counted, and no count is taken back.
LEMMA FaultsCount ==
  ASSUME TypeOK, [Next]_vars
  PROVE  faults \in Nat /\ faults' \in Nat /\ faults' >= faults
<1>0. faults \in Nat
  BY NotificationsAssumption DEF TypeOK
<1>1. Fault => faults' = faults + 1
  BY DEF Fault
<1>2. faults' = faults \/ Fault
  BY DEF Next, vars, Work, CreateRow, AddJob, Take, Send, SendRejected, SendUnanswered,
     Record, RecordFails, Finish, OnFailed, Progress, Report, Restart
<1>. QED BY <1>0, <1>1, <1>2

\* What a step does to the notification n: nothing but a webhook's, or one of the moves
\* of its job.
Idles(n) ==
  /\ job'[n] = job[n] /\ Len(fate'[n]) = Len(fate[n])
  /\ notice'[n].status = "QUEUED" => notice[n].status = "QUEUED"

Creates(n) ==
  /\ job[n].state = "none" /\ job'[n].state = "unadded" /\ fate'[n] = fate[n]

Moves(n) ==
  /\ <<job[n].state, job'[n].state>> \in
       {<<"unadded", "waiting">>, <<"waiting", "send">>, <<"finish", "done">>}
  /\ notice'[n] = notice[n] /\ fate'[n] = fate[n]

Sends(n) ==
  /\ job[n].state = "send" /\ job'[n].state = "record"
  /\ Len(fate'[n]) = Len(fate[n]) + 1

Retries(n) ==
  /\ job[n].state \in {"send", "record"} /\ job'[n].state \in {"waiting", "exhausted"}
  /\ \/ job[n].state = "send" /\ fate'[n] = fate[n]
     \/ job[n].state = "send" /\ Len(fate'[n]) = Len(fate[n]) + 1 /\ faults' = faults + 1
     \/ job[n].state = "record" /\ fate'[n] = fate[n] /\ faults' = faults + 1

Resolves(n) ==
  /\ <<job[n].state, job'[n].state>> \in {<<"record", "finish">>, <<"exhausted", "done">>}
  /\ notice'[n].status # "QUEUED" /\ fate'[n] = fate[n]

Restarts(n) ==
  /\ job'[n].state = AfterRestart(job[n].state) /\ job'[n].attempts = job[n].attempts
  /\ notice'[n] = notice[n] /\ fate'[n] = fate[n] /\ faults' = faults + 1

MovesOf(n) ==
  Idles(n) \/ Creates(n) \/ Moves(n) \/ Sends(n) \/ Retries(n) \/ Resolves(n) \/ Restarts(n)

LEMMA WorkMoves ==
  ASSUME IInv, NEW n \in Notices, Work(n) \/ CreateRow(n) \/ AddJob(n)
  PROVE  MovesOf(n) /\ \A m \in Notices \ {n} : Idles(m)
<1>0. TypeOK /\ NoticeOK(n)
  BY DEF IInv
<1>1. CASE Take(n) \/ AddJob(n) \/ Finish(n)
  <2>1. PICK state \in {"send", "waiting", "done"} :
          /\ JobTo(n, state) /\ UNCHANGED <<notice, fate>>
          /\ <<job[n].state, state>> \in
               {<<"unadded", "waiting">>, <<"waiting", "send">>, <<"finish", "done">>}
    BY <1>1 DEF Take, AddJob, Finish, JobIs
  <2>2. job'[n].state = state /\ \A m \in Notices \ {n} : job'[m] = job[m]
    BY <1>0, <2>1, JobToOK DEF JobStates
  <2>. QED BY <2>1, <2>2 DEF MovesOf, Moves, Idles
<1>2. CASE Send(n)
  <2>1. JobTo(n, "record") /\ job[n].state = "send" /\ Accept(n) /\ notice' = notice
    BY <1>2 DEF Send, JobIs
  <2>2. job'[n].state = "record" /\ \A m \in Notices \ {n} : job'[m] = job[m]
    BY <1>0, <2>1, JobToOK DEF JobStates
  <2>. QED BY <1>0, <2>1, <2>2, AcceptOK DEF MovesOf, Sends, Idles
<1>3. CASE SendRejected(n) \/ RecordFails(n)
  <2>1. /\ FailAttempt(n) /\ UNCHANGED <<notice, fate>>
        /\ job[n].state = "send" \/ (job[n].state = "record" /\ faults' = faults + 1)
    BY <1>3 DEF SendRejected, RecordFails, JobIs, Fault
  <2>2. ~Spent(n)
    BY <1>0, <2>1 DEF NoticeOK, AttemptsOK
  <2>3. /\ job'[n].state \in {"waiting", "exhausted"}
        /\ \A m \in Notices \ {n} : job'[m] = job[m]
    BY <1>0, <2>1, <2>2, FailAttemptOK
  <2>. QED BY <2>1, <2>3 DEF MovesOf, Retries, Idles
<1>4. CASE SendUnanswered(n)
  <2>1. /\ job[n].state = "send" /\ FailAttempt(n) /\ Accept(n) /\ notice' = notice
        /\ faults' = faults + 1
    BY <1>4 DEF SendUnanswered, JobIs, Fault
  <2>2. ~Spent(n)
    BY <1>0, <2>1 DEF NoticeOK, AttemptsOK
  <2>3. /\ job'[n].state \in {"waiting", "exhausted"}
        /\ \A m \in Notices \ {n} : job'[m] = job[m]
    BY <1>0, <2>1, <2>2, FailAttemptOK
  <2>. QED BY <1>0, <2>1, <2>3, AcceptOK DEF MovesOf, Retries, Idles
<1>5. CASE Record(n) \/ OnFailed(n)
  <2>1. PICK state \in {"finish", "done"} :
          /\ JobTo(n, state) /\ UNCHANGED fate
          /\ <<job[n].state, state>> \in {<<"record", "finish">>, <<"exhausted", "done">>}
          /\ notice'[n].status # "QUEUED"
          /\ \A m \in Notices \ {n} : notice'[m] = notice[m]
    BY <1>0, <1>5 DEF Record, OnFailed, JobIs, TypeOK
  <2>2. job'[n].state = state /\ \A m \in Notices \ {n} : job'[m] = job[m]
    BY <1>0, <2>1, JobToOK DEF JobStates
  <2>. QED BY <2>1, <2>2 DEF MovesOf, Resolves, Idles
<1>6. CASE CreateRow(n)
  <2>1. /\ JobTo(n, "unadded") /\ UNCHANGED fate /\ job[n].state = "none"
        /\ \A m \in Notices \ {n} : notice'[m] = notice[m]
    BY <1>0, <1>6 DEF CreateRow, JobIs, TypeOK
  <2>2. job'[n].state = "unadded" /\ \A m \in Notices \ {n} : job'[m] = job[m]
    BY <1>0, <2>1, JobToOK DEF JobStates
  <2>. QED BY <2>1, <2>2 DEF MovesOf, Creates, Idles
<1>. QED BY <1>1, <1>2, <1>3, <1>4, <1>5, <1>6 DEF Work

\* A webhook never says QUEUED.
LEMMA ReportMoves ==
  ASSUME IInv, NEW n \in Notices, Report(n)
  PROVE  \A m \in Notices : Idles(m)
<1>0. TypeOK /\ fate[n] \in Seq(Fates)
  BY DEF IInv, TypeOK
<1>1. PICK m \in DOMAIN fate[n] : \E i \in DOMAIN Reports(fate[n][m]) :
        /\ notice' = IF notice[n].message = m
                     THEN [notice EXCEPT ![n].status = StatusOf(Reports(fate[n][m])[i])]
                     ELSE notice
        /\ UNCHANGED <<job, fate>>
  BY DEF Report
<1>2. PICK i \in DOMAIN Reports(fate[n][m]) :
        /\ notice' = IF notice[n].message = m
                     THEN [notice EXCEPT ![n].status = StatusOf(Reports(fate[n][m])[i])]
                     ELSE notice
        /\ UNCHANGED <<job, fate>>
  BY <1>1
<1>3. StatusOf(Reports(fate[n][m])[i]) # "QUEUED"
  <2>1. CASE fate[n][m] = "sent"
    BY <2>1, i \in {1} DEF Reports, StatusOf
  <2>2. CASE fate[n][m] = "delivered"
    BY <2>2, i \in {1, 2} DEF Reports, StatusOf
  <2>3. CASE fate[n][m] = "read"
    BY <2>3, i \in {1, 2, 3} DEF Reports, StatusOf
  <2>4. CASE fate[n][m] = "failed"
    BY <2>4, i \in {1, 2} DEF Reports, StatusOf
  <2>. QED BY <1>0, <2>1, <2>2, <2>3, <2>4 DEF Fates
<1>4. CASE notice[n].message = m
  <2>1. /\ notice'[n].status # "QUEUED"
        /\ \A o \in Notices \ {n} : notice'[o] = notice[o]
    BY <1>0, <1>2, <1>3, <1>4 DEF TypeOK
  <2>. QED BY <1>2, <2>1 DEF Idles
<1>5. CASE notice[n].message # m
  BY <1>2, <1>5 DEF Idles
<1>. QED BY <1>4, <1>5

LEMMA NoticeMoves ==
  ASSUME IInv, [Next]_vars, NEW n \in Notices
  PROVE  MovesOf(n)
<1>0. TypeOK
  BY DEF IInv
<1>1. ASSUME NEW m \in Notices, Work(m) \/ CreateRow(m) \/ AddJob(m) PROVE MovesOf(n)
  BY <1>1, WorkMoves DEF MovesOf
<1>2. ASSUME NEW m \in Notices, Progress(m) PROVE MovesOf(n)
  <2>1. PICK k \in DOMAIN fate[m], to \in Fates : fate' = [fate EXCEPT ![m][k] = to]
    BY <1>2 DEF Progress
  <2>2. fate[m] \in Seq(Fates) /\ k \in 1 .. Len(fate[m])
    BY <1>0, <2>1 DEF TypeOK
  <2>3. Len([fate[m] EXCEPT ![k] = to]) = Len(fate[m])
    BY <2>2, ExceptSeq
  <2>4. Len(fate'[n]) = Len(fate[n])
    BY <1>0, <2>1, <2>3 DEF TypeOK
  <2>. QED BY <1>2, <2>4 DEF Progress, MovesOf, Idles
<1>3. ASSUME NEW m \in Notices, Report(m) PROVE MovesOf(n)
  BY <1>3, ReportMoves DEF MovesOf
<1>4. CASE Restart
  <2>1. job'[n] = [job[n] EXCEPT !.state = AfterRestart(job[n].state)]
    BY <1>4 DEF Restart
  <2>2. job'[n].state = AfterRestart(job[n].state) /\ job'[n].attempts = job[n].attempts
    BY <1>0, <2>1 DEF TypeOK
  <2>. QED BY <1>4, <2>2 DEF Restart, Fault, MovesOf, Restarts
<1>5. CASE UNCHANGED vars
  BY <1>5 DEF vars, MovesOf, Idles
<1>. QED BY <1>1, <1>2, <1>3, <1>4, <1>5 DEF Next

LEMMA QueueStep ==
  ASSUME QInv, [Next]_vars
  PROVE  QInv'
<1>0. IInv' /\ TypeOK /\ TypeOK'
  BY NextStep DEF QInv, IInv
<1>. SUFFICES ASSUME NEW n \in Notices PROVE QueueOK(n)'
  BY <1>0 DEF QInv
<1>. USE DEF QueueOK, SentForRun, UnaddedUnsent, UnrecordedSpent, QueuedOf, Spent
<1>1. /\ QueueOK(n) /\ MovesOf(n)
      /\ faults \in Nat /\ faults' \in Nat /\ faults' >= faults
      /\ fate[n] \in Seq(Fates) /\ fate'[n] \in Seq(Fates)
      /\ job[n].state \in JobStates
  BY <1>0, NoticeMoves, FaultsCount DEF QInv, TypeOK
<1>2. /\ Len(fate[n]) \in Nat /\ Len(fate'[n]) \in Nat
      /\ fate[n] = <<>> <=> Len(fate[n]) = 0
      /\ fate'[n] = <<>> <=> Len(fate'[n]) = 0
  BY <1>1, EmptySeq
<1>. HIDE DEF QueueOK, SentForRun, UnaddedUnsent, UnrecordedSpent, QueuedOf
<1>3. QueueOK(n) => /\ SentForRun(n) /\ UnaddedUnsent(n) /\ UnrecordedSpent(n) /\ QueuedOf(n)
  BY DEF QueueOK
<1>. USE DEF SentForRun, UnaddedUnsent, UnrecordedSpent, QueuedOf
<1>4. CASE Idles(n)
  BY <1>1, <1>2, <1>3, <1>4 DEF Idles, QueueOK
<1>5. CASE Creates(n)
  BY <1>1, <1>2, <1>3, <1>5 DEF Creates, QueueOK
<1>6. CASE Moves(n)
  BY <1>1, <1>2, <1>3, <1>6 DEF Moves, QueueOK
<1>7. CASE Sends(n)
  BY <1>1, <1>2, <1>3, <1>7 DEF Sends, QueueOK
<1>8. CASE Retries(n)
  BY <1>1, <1>2, <1>3, <1>8 DEF Retries, QueueOK
<1>9. CASE Resolves(n)
  BY <1>1, <1>2, <1>3, <1>9 DEF Resolves, QueueOK
<1>10. CASE Restarts(n)
  <2>1. NoticeOK(n)
    BY DEF QInv, IInv
  <2>2. job[n].state = "exhausted" => Spent(n)
    BY <2>1 DEF NoticeOK, AttemptsOK
  <2>. QED BY <1>1, <1>2, <1>3, <1>10, <2>2 DEF Restarts, AfterRestart, JobStates, QueueOK
<1>. QED BY <1>1, <1>4, <1>5, <1>6, <1>7, <1>8, <1>9, <1>10 DEF MovesOf

LEMMA AlwaysQueued == Spec => []QInv
BY QueueInit, QueueStep, PTL DEF Spec

\* A notification is sent once, and once more at most for every fault.
THEOREM SentOncePerFault == Spec => []NotToldTwice
<1>1. ASSUME QInv, NEW n \in Notices PROVE Len(fate[n]) <= 1 + faults
  <2>1. faults \in Nat /\ Len(fate[n]) \in Nat /\ SentForRun(n)
    BY <1>1, NotificationsAssumption DEF QInv, IInv, TypeOK, QueueOK
  <2>. QED BY <2>1 DEF SentForRun
<1>2. QInv => NotToldTwice
  BY <1>1 DEF NotToldTwice
<1>. QED BY <1>2, AlwaysQueued, PTL

\* A row that says QUEUED has a job that will resolve it, unless a fault took its last
\* step; and then nothing was sent, or every attempt was made.
THEOREM QueuedRowsHaveJobs == Spec => []QueuedHasItsJob
<1>1. QInv => QueuedHasItsJob
  BY DEF QInv, QueueOK, QueuedOf, Spent, QueuedHasItsJob
<1>. QED BY <1>1, AlwaysQueued, PTL
=============================================================================
