---------------------------- MODULE OutboxProofs ----------------------------
(* Theorems about the outbox, for every number of rows, processes and      *)
(* retries.                                                                *)
EXTENDS Outbox, FiniteSetTheorems, SequenceTheorems, TLAPS

(* The calls process p makes on behalf of a row. *)
AtWork(p) == pc[p] \in {"sending", "record", "send", "settle", "ack", "note"}

(* A process at a row's call has a row, which it has taken out of its      *)
(* batch; between passes it holds none.                                    *)
HasRow ==
    \A p \in Procs :
        /\ AtWork(p) => item[p] \in Items
        /\ item[p] \notin batch[p]
        /\ pc[p] \in {"idle", "requeue", "lease"} => item[p] = NoItem /\ batch[p] = {}

(* Only a leased row has an owner a process can match; a row that left the *)
(* queue had a route.                                                      *)
LeaseColumns ==
    \A i \in Items :
        /\ status[i] \in {"absent", "queued"} => owner[i] = NoOwner
        /\ status[i] \notin {"absent", "queued"} => route[i] = "ready_to_send"

(* Each lease is paid for by the retry that ends it. *)
LeaseBudget ==
    \A i \in Items :
        /\ status[i] = "absent" => granted[i] = 0 /\ retries[i] = 0
        /\ status[i] = "queued" => granted[i] <= retries[i] /\ retries[i] < MaxRetry
        /\ granted[i] <= retries[i] + 1
        /\ granted[i] <= MaxRetry

(* What a process is about to write is what it was answered. *)
ToldByAnswer ==
    \A p \in Procs :
        /\ pc[p] \in {"settle", "ack"} => outcome[p] \in answers[item[p]]
        /\ pc[p] = "note" /\ note[p] # "dispatch_failed" => outcome[p] \in answers[item[p]]
        /\ pc[p] = "ack" => outcome[p] = "acked"

Rows == LeaseColumns /\ LeaseBudget
Answers == ToldByAnswer /\ StatusEarned
IInv == TypeOK /\ HasRow /\ Rows /\ Answers

-----------------------------------------------------------------------------
LEMMA InitIInv == Init => IInv
  <1> SUFFICES ASSUME Init PROVE IInv
    OBVIOUS
  <1> USE OutboxAssumption DEF Init
  <1>1. TypeOK
    BY DEF TypeOK, Status, RouteStatus, Call, Outcome, AttemptStatus
  <1>2. HasRow
    BY DEF HasRow, AtWork
  <1>3. LeaseColumns /\ LeaseBudget
    BY DEF LeaseColumns, LeaseBudget
  <1>4. ToldByAnswer /\ StatusEarned
    BY DEF ToldByAnswer, StatusEarned
  <1> QED
    BY <1>1, <1>2, <1>3, <1>4 DEF IInv, Rows, Answers

-----------------------------------------------------------------------------
(* Type correctness.                                                       *)

LEMMA GotoType ==
    ASSUME TypeOK, NEW p \in Procs, NEW c \in Call, NEW n \in AttemptStatus, Goto(p, c, n)
    PROVE  pc' \in [Procs -> Call] /\ note' \in [Procs -> AttemptStatus]
  BY DEF TypeOK, Goto

LEMMA MarkType ==
    ASSUME TypeOK, NEW p \in Procs, NEW s \in Status, item[p] \in Items,
           UpdateQueueState(p, s) \/ NotLeasedByThisWorker(p)
    PROVE  /\ status' \in [Items -> Status]
           /\ UNCHANGED <<route, owner, lapsed, retries, lessee>>
  BY DEF TypeOK, UpdateQueueState, NotLeasedByThisWorker, rowVars

LEMMA TypeStep == TypeOK /\ HasRow /\ [Next]_vars => TypeOK'
  <1> SUFFICES ASSUME TypeOK, HasRow, [Next]_vars PROVE TypeOK'
    OBVIOUS
  <1> USE OutboxAssumption DEF TypeOK
  <1>1. ASSUME NEW i \in Items, RowStep(i) PROVE TypeOK'
    <2>1. ASSUME NEW rs \in RouteStatus, EnqueueOutbound(i, rs) PROVE TypeOK'
      BY <2>1 DEF EnqueueOutbound, procVars, history, Status
    <2>2. CASE Compact(i)
      BY <2>2 DEF Compact, procVars, Status, RouteStatus
    <2>3. CASE LeaseRunsOut(i)
      BY <2>3 DEF LeaseRunsOut, procVars, history
    <2>4. ASSUME NEW r \in Planners, SelectForReplan(r, i) PROVE TypeOK'
      BY <2>4 DEF SelectForReplan, rowVars, procVars, history
    <2> QED
      BY <1>1, <2>1, <2>2, <2>3, <2>4 DEF RowStep
  <1>2. ASSUME NEW r \in Planners, NEW rs \in RouteStatus, UpdateQueueRoutePlan(r, rs)
        PROVE TypeOK'
    BY <1>2 DEF UpdateQueueRoutePlan, procVars, history
  <1>3. ASSUME NEW p \in Procs, PassStep(p) PROVE TypeOK'
    <2>1. CASE RecoverDead(p)
      BY <2>1 DEF RecoverDead, history, Status, Call
    <2>2. CASE RecoverRequeue(p)
      BY <2>2 DEF RecoverRequeue, Status, Call
    <2>3. ASSUME NEW S \in SUBSET Items, LeaseOutbound(p, S) PROVE TypeOK'
      BY <2>3 DEF LeaseOutbound, Status, InFlight, Call
    <2> QED
      BY <1>3, <2>1, <2>2, <2>3 DEF PassStep
  <1>4. ASSUME NEW p \in Procs, DispatchStep(p) PROVE TypeOK'
    <2> DEFINE i == item[p]
    <2>0. AtWork(p) => i \in Items
      BY DEF HasRow
    <2>1. CASE TakeNext(p)
      <3>1. FirstCall(p) \in Call
        BY DEF FirstCall, Call
      <3>2. /\ pc' \in [Procs -> Call] /\ batch' \in [Procs -> SUBSET Items]
            /\ item' \in [Procs -> Items \cup {NoItem}]
        <4>1. CASE batch[p] = {} /\ item' = [item EXCEPT ![p] = NoItem]
                   /\ pc' = [pc EXCEPT ![p] = "idle"] /\ UNCHANGED batch
          BY <4>1 DEF Call
        <4>2. ASSUME NEW j \in batch[p], item' = [item EXCEPT ![p] = j],
                     batch' = [batch EXCEPT ![p] = @ \ {j}], pc' = [pc EXCEPT ![p] = FirstCall(p)]
              PROVE  <3>2
          <5>1. j \in Items
            OBVIOUS
          <5> QED
            BY <3>1, <4>2, <5>1
        <4> QED
          BY <2>1, <4>1, <4>2 DEF TakeNext
      <3>3. attempt' \in [Procs -> Nat] /\ outcome' \in [Procs -> Outcome]
            /\ note' \in [Procs -> AttemptStatus]
        BY <2>1 DEF TakeNext, Outcome, AttemptStatus
      <3> QED
        BY <2>1, <3>2, <3>3 DEF TakeNext, rowVars, history
    <2>2. CASE MarkSending(p)
      BY <2>0, <2>2 DEF MarkSending, UpdateQueueState, NotLeasedByThisWorker, GiveUp, Goto,
         AtWork, rowVars, Call, AttemptStatus, Status, InFlight
    <2>3. CASE RecordOutboundAttempt(p)
      <3>1. i \in Items /\ Append(attempts[i], "planned") \in Seq(AttemptStatus)
        BY <2>0, <2>3 DEF RecordOutboundAttempt, AtWork, AttemptStatus
      <3>2. Len(attempts[i]) + 1 \in Nat
        BY <3>1
      <3> QED
        BY <2>3, <3>1, <3>2 DEF RecordOutboundAttempt, Goto, rowVars, history, Call, AttemptStatus
    <2>4. ASSUME NEW o \in Outcome, Answered(p, o), pc[p] = "send"
          PROVE  /\ outcome' \in [Procs -> Outcome] /\ answers' \in [Items -> SUBSET Outcome]
                 /\ pc' \in [Procs -> Call] /\ note' \in [Procs -> AttemptStatus]
      <3>1. NoteFor(p, o) \in AttemptStatus
        BY DEF NoteFor, AttemptStatus, Outcome
      <3> QED
        BY <2>0, <2>4, <3>1 DEF Answered, Goto, AtWork, Call
    <2>5. ASSUME NEW o \in Outcome, Send(p, o) PROVE TypeOK'
      BY <2>0, <2>4, <2>5 DEF Send, AtWork, rowVars
    <2>6. CASE EncodeFails(p)
      BY <2>4, <2>6 DEF EncodeFails, rowVars, Outcome
    <2>7. CASE Settle(p)
      <3>1. i \in Items
        BY <2>0, <2>7 DEF Settle, AtWork
      <3>2. UNCHANGED <<attempts, batch, item, attempt, outcome, selected, faults,
                        granted, sends, answers>>
        BY <2>7 DEF Settle
      <3>3. ASSUME RetryOutbound(p) PROVE TypeOK'
        <4>1. /\ status' \in [Items -> Status] /\ retries' \in [Items -> Nat] /\ route' = route
              /\ owner' \in [Items -> {WorkerID[q] : q \in Procs} \cup {NoOwner}]
              /\ lapsed' \subseteq Items /\ lessee' \in [Items -> Procs \cup {NoProc}]
          <5>1. CASE RetryToDead(p, i)
            BY <3>1, <5>1 DEF RetryToDead, Status
          <5>2. CASE RetryToQueued(p, i)
            BY <3>1, <5>2 DEF RetryToQueued, Status
          <5>3. CASE UNCHANGED <<rowVars, lessee>>
            BY <5>3 DEF rowVars
          <5> QED
            BY <3>3, <5>1, <5>2, <5>3 DEF RetryOutbound
        <4>2. \E c \in Call, n \in AttemptStatus : Goto(p, c, n)
          <5>1. "note" \in Call /\ "next" \in Call
                /\ {"dead", "retry", "dispatch_failed"} \subseteq AttemptStatus
            BY DEF Call, AttemptStatus
          <5> QED
            BY <3>3, <5>1 DEF RetryOutbound, GiveUp
        <4>3. pc' \in [Procs -> Call] /\ note' \in [Procs -> AttemptStatus]
          BY <4>2, GotoType
        <4> QED
          BY <3>2, <4>1, <4>3
      <3>4. ASSUME MarkSettled(p) PROVE TypeOK'
        <4>1. SettledStatus(p) \in Status /\ AfterSettled(p) \in Call
          BY DEF SettledStatus, AfterSettled, Status, InFlight, Call
        <4>2. /\ status' \in [Items -> Status]
              /\ UNCHANGED <<route, owner, lapsed, retries, lessee>>
          BY <3>1, <3>4, <4>1, MarkType DEF MarkSettled
        <4>3. \E c \in Call, n \in AttemptStatus : Goto(p, c, n)
          <5>1. "note" \in Call /\ "next" \in Call /\ "dispatch_failed" \in AttemptStatus
                /\ note[p] \in AttemptStatus
            BY DEF Call, AttemptStatus
          <5> QED
            BY <3>4, <4>1, <5>1 DEF MarkSettled
        <4>4. pc' \in [Procs -> Call] /\ note' \in [Procs -> AttemptStatus]
          BY <4>3, GotoType
        <4> QED
          BY <3>2, <4>2, <4>4
      <3> QED
        BY <2>7, <3>3, <3>4 DEF Settle
    <2>8. CASE AckOutbound(p)
      BY <2>0, <2>8 DEF AckOutbound, UpdateQueueState, NotLeasedByThisWorker, Goto, AtWork,
         rowVars, Call, AttemptStatus, Status
    <2>9. CASE UpdateOutboundAttempt(p)
      <3>1. i \in Items
        BY <2>0, <2>9 DEF UpdateOutboundAttempt, AtWork
      <3>2. [attempts[i] EXCEPT ![attempt[p]] = note[p]] \in Seq(AttemptStatus)
        <4>1. attempts[i] \in Seq(AttemptStatus) /\ note[p] \in AttemptStatus
          BY <3>1
        <4>2. CASE attempt[p] \in 1 .. Len(attempts[i])
          BY <4>1, <4>2, ExceptSeq
        <4>3. CASE attempt[p] \notin 1 .. Len(attempts[i])
          <5>1. [attempts[i] EXCEPT ![attempt[p]] = note[p]] = attempts[i]
            BY <4>1, <4>3
          <5> QED
            BY <4>1, <5>1
        <4> QED
          BY <4>2, <4>3
      <3> QED
        BY <2>9, <3>1, <3>2 DEF UpdateOutboundAttempt, AfterNote, Goto, rowVars, history, Call
    <2> QED
      BY <1>4, <2>1, <2>2, <2>3, <2>5, <2>6, <2>7, <2>8, <2>9 DEF DispatchStep
  <1>5. ASSUME NEW p \in Procs, DbError(p) PROVE TypeOK'
    <2>1. AfterError(p) \in Call
      BY DEF AfterError, AfterNote, Call
    <2> QED
      BY <1>5, <2>1 DEF DbError, Goto, rowVars, history, AttemptStatus
  <1>6. ASSUME NEW p \in Procs, Crash(p) PROVE TypeOK'
    BY <1>6 DEF Crash, rowVars, history, Call, Outcome, AttemptStatus
  <1>7. CASE UNCHANGED vars
    BY <1>7 DEF vars, rowVars, procVars, history
  <1> QED
    BY <1>1, <1>2, <1>3, <1>4, <1>5, <1>6, <1>7 DEF Next

-----------------------------------------------------------------------------
(* The inductive step.  Calls change rows in few ways; each is a lemma.    *)

LEMMA MarkRows ==
    ASSUME TypeOK, Rows, NEW p \in Procs, NEW s \in {"sending", "sent_ok", "acked", "dead"},
           item[p] \in Items, UNCHANGED granted,
           UpdateQueueState(p, s) \/ NotLeasedByThisWorker(p)
    PROVE  Rows'
  <1>1. CASE UpdateQueueState(p, s)
    <2>1. status[item[p]] \notin {"absent", "queued"}
      BY <1>1, OutboxAssumption DEF UpdateQueueState, Owns, Rows, LeaseColumns
    <2>2. LeaseColumns'
      BY <1>1, <2>1 DEF UpdateQueueState, Rows, LeaseColumns, TypeOK
    <2>3. LeaseBudget'
      BY <1>1, <2>1 DEF UpdateQueueState, Rows, LeaseBudget, TypeOK
    <2> QED
      BY <2>2, <2>3 DEF Rows
  <1>2. CASE NotLeasedByThisWorker(p)
    BY <1>2 DEF NotLeasedByThisWorker, rowVars, Rows, LeaseColumns, LeaseBudget
  <1> QED
    BY <1>1, <1>2

LEMMA RetryRows ==
    ASSUME TypeOK, Rows, NEW p \in Procs, item[p] \in Items, UNCHANGED granted,
           RetryOutbound(p)
    PROVE  Rows'
  <1> DEFINE i == item[p]
  <1> USE OutboxAssumption DEF TypeOK
  <1>1. CASE RetryToDead(p, i)
    <2>1. LeaseColumns'
      BY <1>1 DEF RetryToDead, Retryable, InFlight, Rows, LeaseColumns
    <2>2. LeaseBudget'
      BY <1>1 DEF RetryToDead, Retryable, InFlight, Rows, LeaseBudget
    <2> QED
      BY <2>1, <2>2 DEF Rows
  <1>2. CASE RetryToQueued(p, i)
    <2>1. LeaseColumns'
      BY <1>2 DEF RetryToQueued, Retryable, InFlight, Rows, LeaseColumns
    <2>2. LeaseBudget'
      BY <1>2 DEF RetryToQueued, Retryable, InFlight, Exhausted, Rows, LeaseBudget
    <2> QED
      BY <2>1, <2>2 DEF Rows
  <1>3. CASE UNCHANGED rowVars
    BY <1>3 DEF rowVars, Rows, LeaseColumns, LeaseBudget
  <1> QED
    BY <1>1, <1>2, <1>3 DEF RetryOutbound

LEMMA RowsStep == TypeOK /\ HasRow /\ Rows /\ [Next]_vars => Rows'
  <1> SUFFICES ASSUME TypeOK, HasRow, Rows, [Next]_vars PROVE Rows'
    OBVIOUS
  <1> USE OutboxAssumption
  <1>0. ASSUME UNCHANGED <<rowVars, granted>> PROVE Rows'
    BY <1>0 DEF rowVars, Rows, LeaseColumns, LeaseBudget
  <1>1. ASSUME NEW i \in Items, RowStep(i) PROVE Rows'
    <2>1. ASSUME NEW rs \in RouteStatus, EnqueueOutbound(i, rs) PROVE Rows'
      BY <2>1 DEF EnqueueOutbound, history, Rows, LeaseColumns, LeaseBudget, TypeOK
    <2>2. CASE Compact(i)
      BY <2>2 DEF Compact, Rows, LeaseColumns, LeaseBudget, TypeOK
    <2>3. CASE LeaseRunsOut(i)
      BY <2>3 DEF LeaseRunsOut, history, Rows, LeaseColumns, LeaseBudget
    <2>4. ASSUME NEW r \in Planners, SelectForReplan(r, i) PROVE Rows'
      BY <1>0, <2>4 DEF SelectForReplan, history
    <2> QED
      BY <1>1, <2>1, <2>2, <2>3, <2>4 DEF RowStep
  <1>2. ASSUME NEW r \in Planners, NEW rs \in RouteStatus, UpdateQueueRoutePlan(r, rs)
        PROVE Rows'
    BY <1>2 DEF UpdateQueueRoutePlan, Replannable, history, Rows, LeaseColumns, LeaseBudget, TypeOK
  <1>3. ASSUME NEW p \in Procs, PassStep(p) PROVE Rows'
    <2>1. CASE RecoverDead(p)
      BY <2>1 DEF RecoverDead, Expired, InFlight, history, Rows, LeaseColumns, LeaseBudget, TypeOK
    <2>2. CASE RecoverRequeue(p)
      <3>1. LeaseColumns'
        BY <2>2 DEF RecoverRequeue, Expired, InFlight, Rows, LeaseColumns, TypeOK
      <3>2. LeaseBudget'
        BY <2>2 DEF RecoverRequeue, Expired, InFlight, Exhausted, Rows, LeaseBudget, TypeOK
      <3> QED
        BY <3>1, <3>2 DEF Rows
    <2>3. ASSUME NEW S \in SUBSET Items, LeaseOutbound(p, S) PROVE Rows'
      <3>1. \A i \in S : status[i] = "queued" /\ route[i] = "ready_to_send"
        BY <2>3 DEF LeaseOutbound, Leasable, Ready
      <3>2. LeaseColumns'
        BY <2>3, <3>1 DEF LeaseOutbound, Rows, LeaseColumns, TypeOK
      <3>3. LeaseBudget'
        BY <2>3, <3>1 DEF LeaseOutbound, Rows, LeaseBudget, TypeOK
      <3> QED
        BY <3>2, <3>3 DEF Rows
    <2> QED
      BY <1>3, <2>1, <2>2, <2>3 DEF PassStep
  <1>4. ASSUME NEW p \in Procs, DispatchStep(p) PROVE Rows'
    <2>0. AtWork(p) => item[p] \in Items
      BY DEF HasRow
    <2>1. CASE TakeNext(p) \/ RecordOutboundAttempt(p) \/ UpdateOutboundAttempt(p)
               \/ EncodeFails(p) \/ \E o \in Outcome : Send(p, o)
      BY <1>0, <2>1 DEF TakeNext, RecordOutboundAttempt, UpdateOutboundAttempt, EncodeFails,
         Send, history
    <2>2. CASE MarkSending(p)
      BY <2>0, <2>2, MarkRows DEF MarkSending, AtWork
    <2>3. CASE Settle(p)
      <3>1. item[p] \in Items /\ UNCHANGED granted
        BY <2>0, <2>3 DEF Settle, AtWork
      <3>2. SettledStatus(p) \in {"sending", "sent_ok", "acked", "dead"}
        BY DEF SettledStatus
      <3> QED
        BY <2>3, <3>1, <3>2, MarkRows, RetryRows DEF Settle, MarkSettled
    <2>4. CASE AckOutbound(p)
      BY <2>0, <2>4, MarkRows DEF AckOutbound, AtWork
    <2> QED
      BY <1>4, <2>1, <2>2, <2>3, <2>4 DEF DispatchStep
  <1>5. ASSUME NEW p \in Procs, DbError(p) \/ Crash(p) PROVE Rows'
    BY <1>0, <1>5 DEF DbError, Crash, history
  <1>6. CASE UNCHANGED vars
    BY <1>0, <1>6 DEF vars, history
  <1> QED
    BY <1>1, <1>2, <1>3, <1>4, <1>5, <1>6 DEF Next

-----------------------------------------------------------------------------
LEMMA HasRowStep == TypeOK /\ HasRow /\ [Next]_vars => HasRow'
  <1> SUFFICES ASSUME TypeOK, HasRow, [Next]_vars PROVE HasRow'
    OBVIOUS
  <1> USE OutboxAssumption DEF TypeOK, HasRow, AtWork
  <1>0. ASSUME UNCHANGED <<pc, batch, item>> PROVE HasRow'
    BY <1>0
  <1>1. ASSUME NEW p \in Procs, NEW c \in Call, NEW n, Goto(p, c, n), UNCHANGED <<batch, item>>,
               pc[p] \notin {"idle", "next"},
               c \in {"sending", "record", "send", "settle", "ack", "note"} => AtWork(p),
               c \in {"idle", "requeue", "lease"} => pc[p] \in {"requeue", "lease"}
        PROVE  HasRow'
    BY <1>1 DEF Goto
  <1>2. ASSUME NEW i \in Items, RowStep(i) PROVE HasRow'
    BY <1>0, <1>2 DEF RowStep, EnqueueOutbound, Compact, LeaseRunsOut, SelectForReplan, procVars
  <1>3. ASSUME NEW r \in Planners, NEW rs \in RouteStatus, UpdateQueueRoutePlan(r, rs)
        PROVE HasRow'
    BY <1>0, <1>3 DEF UpdateQueueRoutePlan, procVars
  <1>4. ASSUME NEW p \in Procs, PassStep(p) PROVE HasRow'
    BY <1>4 DEF PassStep, RecoverDead, RecoverRequeue, LeaseOutbound
  <1>5. ASSUME NEW p \in Procs, DispatchStep(p) PROVE HasRow'
    <2>1. CASE TakeNext(p)
      <3>1. ASSUME NEW i \in batch[p], item' = [item EXCEPT ![p] = i],
                   batch' = [batch EXCEPT ![p] = @ \ {i}], pc' = [pc EXCEPT ![p] = FirstCall(p)]
            PROVE  HasRow'
        <4>1. i \in Items /\ FirstCall(p) \in {"sending", "record"}
          BY DEF FirstCall
        <4> QED
          BY <3>1, <4>1
      <3>2. CASE batch[p] = {} /\ item' = [item EXCEPT ![p] = NoItem]
                 /\ pc' = [pc EXCEPT ![p] = "idle"] /\ UNCHANGED batch
        BY <3>2
      <3> QED
        BY <2>1, <3>1, <3>2 DEF TakeNext
    <2>2. CASE MarkSending(p)
      BY <1>1, <2>2 DEF MarkSending, GiveUp, Call
    <2>3. CASE RecordOutboundAttempt(p)
      BY <1>1, <2>3 DEF RecordOutboundAttempt, Call
    <2>4. ASSUME NEW o \in Outcome, Answered(p, o), pc[p] = "send", UNCHANGED <<batch, item>>
          PROVE  HasRow'
      BY <1>1, <2>4 DEF Answered, Call
    <2>5. CASE EncodeFails(p) \/ \E o \in Outcome : Send(p, o)
      BY <2>4, <2>5 DEF EncodeFails, Send, Outcome
    <2>6. CASE Settle(p)
      BY <1>1, <2>6 DEF Settle, RetryOutbound, GiveUp, MarkSettled, AfterSettled, Call
    <2>7. CASE AckOutbound(p)
      BY <1>1, <2>7 DEF AckOutbound, Call
    <2>8. CASE UpdateOutboundAttempt(p)
      BY <1>1, <2>8 DEF UpdateOutboundAttempt, AfterNote, Call
    <2> QED
      BY <1>5, <2>1, <2>2, <2>3, <2>5, <2>6, <2>7, <2>8 DEF DispatchStep
  <1>6. ASSUME NEW p \in Procs, DbError(p) PROVE HasRow'
    BY <1>1, <1>6 DEF DbError, AfterError, AfterNote, Call
  <1>7. ASSUME NEW p \in Procs, Crash(p) PROVE HasRow'
    BY <1>7 DEF Crash
  <1>8. CASE UNCHANGED vars
    BY <1>0, <1>8 DEF vars, procVars
  <1> QED
    BY <1>2, <1>3, <1>4, <1>5, <1>6, <1>7, <1>8 DEF Next

-----------------------------------------------------------------------------
LEMMA AnswersStep == IInv /\ [Next]_vars => Answers'
  <1> SUFFICES ASSUME IInv, [Next]_vars PROVE Answers'
    OBVIOUS
  <1> USE OutboxAssumption DEF IInv, Answers, TypeOK
  <1>0. ASSUME UNCHANGED <<status, retries, pc, item, outcome, note, answers>> PROVE Answers'
    BY <1>0 DEF ToldByAnswer, StatusEarned
  <1>1. ASSUME NEW i \in Items, RowStep(i) PROVE Answers'
    <2>1. ASSUME NEW rs \in RouteStatus, EnqueueOutbound(i, rs) PROVE Answers'
      BY <2>1 DEF EnqueueOutbound, procVars, history, ToldByAnswer, StatusEarned
    <2>2. CASE Compact(i)
      BY <2>2 DEF Compact, Holds, procVars, ToldByAnswer, StatusEarned
    <2>3. CASE LeaseRunsOut(i) \/ \E r \in Planners : SelectForReplan(r, i)
      BY <1>0, <2>3 DEF LeaseRunsOut, SelectForReplan, rowVars, procVars, history
    <2> QED
      BY <1>1, <2>1, <2>2, <2>3 DEF RowStep
  <1>2. ASSUME NEW r \in Planners, NEW rs \in RouteStatus, UpdateQueueRoutePlan(r, rs)
        PROVE Answers'
    BY <1>0, <1>2 DEF UpdateQueueRoutePlan, procVars, history
  <1>3. ASSUME NEW p \in Procs, PassStep(p) PROVE Answers'
    <2>1. CASE RecoverDead(p)
      BY <2>1 DEF RecoverDead, Exhausted, history, ToldByAnswer, StatusEarned
    <2>2. CASE RecoverRequeue(p)
      BY <2>2 DEF RecoverRequeue, Expired, InFlight, ToldByAnswer, StatusEarned
    <2>3. ASSUME NEW S \in SUBSET Items, LeaseOutbound(p, S) PROVE Answers'
      BY <2>3 DEF LeaseOutbound, ToldByAnswer, StatusEarned
    <2> QED
      BY <1>3, <2>1, <2>2, <2>3 DEF PassStep
  <1>4. ASSUME NEW p \in Procs, DispatchStep(p) PROVE Answers'
    <2>0. AtWork(p) => item[p] \in Items
      BY DEF HasRow
    <2>1. CASE TakeNext(p)
      BY <2>1 DEF TakeNext, FirstCall, rowVars, history, ToldByAnswer, StatusEarned
    <2>2. CASE MarkSending(p)
      <3>1. ToldByAnswer'
        BY <2>2 DEF MarkSending, GiveUp, Goto, ToldByAnswer
      <3>2. StatusEarned'
        BY <2>0, <2>2 DEF MarkSending, UpdateQueueState, NotLeasedByThisWorker, AtWork, rowVars,
           StatusEarned
      <3> QED
        BY <3>1, <3>2
    <2>3. CASE RecordOutboundAttempt(p)
      BY <2>3 DEF RecordOutboundAttempt, Goto, rowVars, history, ToldByAnswer, StatusEarned
    <2>4. ASSUME NEW o \in Outcome, Answered(p, o), pc[p] = "send",
                 UNCHANGED <<status, retries, item>>
          PROVE  Answers'
      <3>0. item[p] \in Items
        BY <2>0, <2>4 DEF AtWork
      <3>1. ToldByAnswer'
        BY <2>4, <3>0 DEF Answered, Goto, ToldByAnswer, HasRow, AtWork
      <3>2. StatusEarned'
        BY <2>4, <3>0 DEF Answered, StatusEarned
      <3> QED
        BY <3>1, <3>2
    <2>5. CASE EncodeFails(p) \/ \E o \in Outcome : Send(p, o)
      BY <2>4, <2>5 DEF EncodeFails, Send, Outcome, rowVars
    <2>6. CASE Settle(p)
      <3>0. item[p] \in Items /\ outcome[p] \in answers[item[p]]
            /\ UNCHANGED <<item, outcome, answers>>
        BY <2>0, <2>6 DEF Settle, AtWork, ToldByAnswer
      <3>1. ASSUME RetryOutbound(p) PROVE Answers'
        <4>1. ToldByAnswer'
          BY <3>0, <3>1 DEF RetryOutbound, GiveUp, Goto, ToldByAnswer
        <4>2. StatusEarned'
          <5>1. CASE RetryToDead(p, item[p])
            BY <3>0, <5>1 DEF RetryToDead, Exhausted, StatusEarned
          <5>2. CASE RetryToQueued(p, item[p])
            BY <3>0, <5>2 DEF RetryToQueued, StatusEarned
          <5>3. CASE UNCHANGED rowVars
            BY <3>0, <5>3 DEF rowVars, StatusEarned
          <5> QED
            BY <3>1, <5>1, <5>2, <5>3 DEF RetryOutbound
        <4> QED
          BY <4>1, <4>2
      <3>2. ASSUME MarkSettled(p), outcome[p] \notin {"retry", "unknown"} PROVE Answers'
        <4>1. ToldByAnswer'
          BY <3>0, <3>2 DEF MarkSettled, AfterSettled, Goto, ToldByAnswer
        <4>2. CASE UpdateQueueState(p, SettledStatus(p))
          BY <3>0, <3>2, <4>1, <4>2 DEF UpdateQueueState, SettledStatus, Outcome, StatusEarned
        <4>3. CASE NotLeasedByThisWorker(p)
          BY <3>0, <4>1, <4>3 DEF NotLeasedByThisWorker, rowVars, StatusEarned
        <4> QED
          BY <3>2, <4>2, <4>3 DEF MarkSettled
      <3> QED
        BY <2>6, <3>1, <3>2 DEF Settle
    <2>7. CASE AckOutbound(p)
      <3>0. item[p] \in Items /\ "acked" \in answers[item[p]] /\ outcome[p] = "acked"
        BY <2>0, <2>7 DEF AckOutbound, AtWork, ToldByAnswer
      <3>1. ToldByAnswer'
        BY <2>7, <3>0 DEF AckOutbound, Goto, ToldByAnswer
      <3>2. StatusEarned'
        BY <2>7, <3>0 DEF AckOutbound, UpdateQueueState, NotLeasedByThisWorker, rowVars, StatusEarned
      <3> QED
        BY <3>1, <3>2
    <2>8. CASE UpdateOutboundAttempt(p)
      BY <2>8 DEF UpdateOutboundAttempt, AfterNote, Goto, rowVars, history, ToldByAnswer, StatusEarned
    <2> QED
      BY <1>4, <2>1, <2>2, <2>3, <2>5, <2>6, <2>7, <2>8 DEF DispatchStep
  <1>5. ASSUME NEW p \in Procs, DbError(p) PROVE Answers'
    <2>1. ToldByAnswer'
      BY <1>5 DEF DbError, AfterError, AfterNote, Goto, history, ToldByAnswer
    <2>2. StatusEarned'
      BY <1>5 DEF DbError, rowVars, history, StatusEarned
    <2> QED
      BY <2>1, <2>2
  <1>6. ASSUME NEW p \in Procs, Crash(p) PROVE Answers'
    BY <1>6 DEF Crash, rowVars, history, ToldByAnswer, StatusEarned
  <1>7. CASE UNCHANGED vars
    BY <1>0, <1>7 DEF vars, rowVars, procVars, history
  <1> QED
    BY <1>1, <1>2, <1>3, <1>4, <1>5, <1>6, <1>7 DEF Next

LEMMA Inductive == Spec => []IInv
  <1>1. IInv /\ [Next]_vars => IInv'
    BY TypeStep, HasRowStep, RowsStep, AnswersStep DEF IInv
  <1> QED
    BY InitIInv, <1>1, PTL DEF Spec

-----------------------------------------------------------------------------
(* Every variable keeps its type, attempt numbers and budgets included.    *)
THEOREM TypeCorrect == Spec => []TypeOK
  BY Inductive, PTL DEF IInv

(* A row's status is backed by what a transport answered.                  *)
THEOREM StatusIsEarned == Spec => []StatusEarned
  BY Inductive, PTL DEF IInv, Answers

(* Pending and blocked rows never leave the queue.                         *)
THEOREM OnlyReadyRowsLeave == Spec => []OnlyReadyLeaves
  <1>1. IInv => OnlyReadyLeaves
    BY DEF IInv, Rows, LeaseColumns, OnlyReadyLeaves
  <1> QED
    BY <1>1, Inductive, PTL

-----------------------------------------------------------------------------
(* sends <= granted: a process that was granted a row and has not yet sent *)
(* it holds one lease's worth of sending.                                  *)
Pending(p, i) ==
    \/ i \in batch[p]
    \/ item[p] = i /\ pc[p] \in {"sending", "record", "send"}

PendingProcs(i) == {p \in Procs : Pending(p, i)}

SendsCovered ==
    \A i \in Items : sends[i] + Cardinality(PendingProcs(i)) <= granted[i]

LEMMA PendingFinite ==
    ASSUME NEW i
    PROVE  /\ IsFiniteSet(PendingProcs(i)) /\ Cardinality(PendingProcs(i)) \in Nat
           /\ IsFiniteSet(PendingProcs(i)') /\ Cardinality(PendingProcs(i)') \in Nat
  <1>1. PendingProcs(i) \subseteq Procs /\ PendingProcs(i)' \subseteq Procs
    BY DEF PendingProcs
  <1> QED
    BY <1>1, FS_Subset, FS_CardinalityType, OutboxAssumption

(* A step that gives nobody row i keeps the account of row i. *)
LEMMA NobodyGains ==
    ASSUME TypeOK, SendsCovered, NEW i \in Items,
           sends'[i] = sends[i], granted'[i] = granted[i],
           \A p \in Procs : Pending(p, i)' => Pending(p, i)
    PROVE  sends'[i] + Cardinality(PendingProcs(i)') <= granted'[i]
  <1>1. PendingProcs(i)' \subseteq PendingProcs(i)
    BY DEF PendingProcs
  <1>2. Cardinality(PendingProcs(i)') <= Cardinality(PendingProcs(i))
    BY <1>1, PendingFinite, FS_Subset
  <1>3. sends[i] \in Nat /\ granted[i] \in Nat
        /\ sends[i] + Cardinality(PendingProcs(i)) <= granted[i]
    BY DEF TypeOK, SendsCovered
  <1> QED
    BY <1>2, <1>3, PendingFinite

LEMMA SendsStart == Init => SendsCovered
  <1> SUFFICES ASSUME Init, NEW i \in Items
               PROVE  sends[i] + Cardinality(PendingProcs(i)) <= granted[i]
    BY DEF SendsCovered
  <1>1. PendingProcs(i) = {}
    BY DEF Init, PendingProcs, Pending
  <1> QED
    BY <1>1, FS_EmptySet DEF Init

LEMMA SendsStep == TypeOK /\ HasRow /\ SendsCovered /\ [Next]_vars => SendsCovered'
  <1> SUFFICES ASSUME TypeOK, HasRow, SendsCovered, [Next]_vars,
                      NEW j \in Items
               PROVE  sends'[j] + Cardinality(PendingProcs(j)') <= granted'[j]
    BY DEF SendsCovered
  <1> DEFINE Covered == sends'[j] + Cardinality(PendingProcs(j)') <= granted'[j]
  <1> USE DEF TypeOK, HasRow
  <1>0. ASSUME UNCHANGED <<sends, granted, pc, batch, item>> PROVE Covered
    BY <1>0, NobodyGains DEF Pending
  <1>a. ASSUME NEW p \in Procs, NEW c, NEW n, Goto(p, c, n),
               UNCHANGED <<sends, granted, batch, item>>,
               c \in {"sending", "record", "send"} => pc[p] \in {"sending", "record", "send"}
        PROVE  Covered
    BY <1>a, NobodyGains DEF Goto, Pending
  <1>1. ASSUME NEW i \in Items, RowStep(i) PROVE Covered
    <2>1. CASE Compact(i)
      <3>1. CASE i = j
        <4>1. \A p \in Procs : ~Pending(p, j)'
          BY <2>1, <3>1 DEF Compact, Holds, Pending, procVars
        <4>2. PendingProcs(j)' = {}
          BY <4>1 DEF PendingProcs
        <4> QED
          BY <2>1, <3>1, <4>2, FS_EmptySet DEF Compact
      <3>2. CASE i # j
        BY <2>1, <3>2, NobodyGains DEF Compact, Pending, procVars
      <3> QED
        BY <3>1, <3>2
    <2>2. CASE ~Compact(i)
      BY <1>0, <1>1, <2>2 DEF RowStep, EnqueueOutbound, LeaseRunsOut, SelectForReplan,
         procVars, history
    <2> QED
      BY <2>1, <2>2
  <1>2. ASSUME NEW r \in Planners, NEW rs \in RouteStatus, UpdateQueueRoutePlan(r, rs)
        PROVE Covered
    BY <1>0, <1>2 DEF UpdateQueueRoutePlan, procVars, history
  <1>3. ASSUME NEW p \in Procs, RecoverDead(p) \/ RecoverRequeue(p) PROVE Covered
    BY <1>3, NobodyGains DEF RecoverDead, RecoverRequeue, Pending, history
  <1>4. ASSUME NEW p \in Procs, NEW S \in SUBSET Items, LeaseOutbound(p, S) PROVE Covered
    <2>1. ~Pending(p, j) /\ sends'[j] = sends[j]
      BY <1>4 DEF LeaseOutbound, Pending
    <2>2. \A q \in Procs : Pending(q, j)' => Pending(q, j) \/ (q = p /\ j \in S)
      BY <1>4 DEF LeaseOutbound, Pending
    <2>3. CASE j \in S
      <3>1. PendingProcs(j)' \in SUBSET (PendingProcs(j) \cup {p})
        BY <2>2 DEF PendingProcs
      <3>2. /\ IsFiniteSet(PendingProcs(j) \cup {p})
            /\ Cardinality(PendingProcs(j) \cup {p}) = Cardinality(PendingProcs(j)) + 1
        <4>1. p \notin PendingProcs(j)
          BY <2>1 DEF PendingProcs
        <4>2. IsFiniteSet(PendingProcs(j))
          BY PendingFinite
        <4> QED
          BY <4>1, <4>2, FS_AddElement
      <3>3. Cardinality(PendingProcs(j)') <= Cardinality(PendingProcs(j)) + 1
        <4> DEFINE more == PendingProcs(j) \cup {p}
        <4>1. IsFiniteSet(more) /\ Cardinality(more) = Cardinality(PendingProcs(j)) + 1
          BY <3>2
        <4>2. PendingProcs(j)' \in SUBSET more
          BY <3>1
        <4> HIDE DEF more
        <4>3. Cardinality(PendingProcs(j)') <= Cardinality(more)
          BY <4>1, <4>2, FS_Subset
        <4> QED
          BY <4>1, <4>3
      <3>4. granted'[j] = granted[j] + 1
        BY <1>4, <2>3 DEF LeaseOutbound
      <3>5. sends[j] \in Nat /\ granted[j] \in Nat
            /\ sends[j] + Cardinality(PendingProcs(j)) <= granted[j]
        BY DEF SendsCovered
      <3> QED
        BY <2>1, <3>3, <3>4, <3>5, PendingFinite
    <2>4. CASE j \notin S
      BY <1>4, <2>1, <2>2, <2>4, NobodyGains DEF LeaseOutbound
    <2> QED
      BY <2>3, <2>4
  <1>5. ASSUME NEW p \in Procs, TakeNext(p) PROVE Covered
    <2>1. \A q \in Procs : Pending(q, j)' => Pending(q, j)
      <3>1. \A q \in Procs : q # p => (Pending(q, j)' <=> Pending(q, j))
        BY <1>5 DEF TakeNext, Pending
      <3>2. ASSUME NEW i \in batch[p], item' = [item EXCEPT ![p] = i],
                   batch' = [batch EXCEPT ![p] = @ \ {i}], Pending(p, j)'
            PROVE  Pending(p, j)
        BY <3>2 DEF Pending
      <3>3. CASE batch[p] = {} /\ UNCHANGED batch /\ pc' = [pc EXCEPT ![p] = "idle"]
        BY <3>1, <3>3 DEF Pending
      <3> QED
        BY <1>5, <3>1, <3>2, <3>3 DEF TakeNext
    <2> QED
      BY <1>5, <2>1, NobodyGains DEF TakeNext, history
  <1>6. ASSUME NEW p \in Procs, NEW o \in Outcome, Send(p, o) PROVE Covered
    <2>0. item[p] \in Items
      BY <1>6 DEF Send, AtWork
    <2>1. \A q \in Procs : Pending(q, j)' => Pending(q, j)
      BY <1>6 DEF Send, Answered, Goto, Pending
    <2>2. CASE item[p] = j
      <3>1. p \in PendingProcs(j) /\ ~Pending(p, j)'
        BY <1>6, <2>2 DEF Send, Answered, Goto, Pending, PendingProcs
      <3>2. PendingProcs(j)' \subseteq PendingProcs(j) \ {p}
        BY <2>1, <3>1 DEF PendingProcs
      <3>3. /\ IsFiniteSet(PendingProcs(j) \ {p})
            /\ Cardinality(PendingProcs(j) \ {p}) = Cardinality(PendingProcs(j)) - 1
        BY <3>1, PendingFinite, FS_RemoveElement
      <3>4. Cardinality(PendingProcs(j)') <= Cardinality(PendingProcs(j)) - 1
        BY <3>2, <3>3, FS_Subset
      <3>5. sends'[j] = sends[j] + 1 /\ granted'[j] = granted[j]
        BY <1>6, <2>2 DEF Send
      <3>6. sends[j] \in Nat /\ granted[j] \in Nat
            /\ sends[j] + Cardinality(PendingProcs(j)) <= granted[j]
        BY DEF SendsCovered
      <3> QED
        BY <3>4, <3>5, <3>6, PendingFinite
    <2>3. CASE item[p] # j
      BY <1>6, <2>0, <2>1, <2>3, NobodyGains DEF Send
    <2> QED
      BY <2>2, <2>3
  <1>7. ASSUME NEW p \in Procs, EncodeFails(p) PROVE Covered
    <2>1. \A q \in Procs : Pending(q, j)' => Pending(q, j)
      BY <1>7 DEF EncodeFails, Answered, Goto, Pending
    <2> QED
      BY <1>7, <2>1, NobodyGains DEF EncodeFails
  <1>8. ASSUME NEW p \in Procs, MarkSending(p) PROVE Covered
    BY <1>a, <1>8 DEF MarkSending, GiveUp
  <1>9. ASSUME NEW p \in Procs, RecordOutboundAttempt(p) PROVE Covered
    BY <1>a, <1>9 DEF RecordOutboundAttempt, history
  <1>10. ASSUME NEW p \in Procs, Settle(p) PROVE Covered
    BY <1>a, <1>10 DEF Settle, RetryOutbound, GiveUp, MarkSettled, AfterSettled
  <1>11. ASSUME NEW p \in Procs, AckOutbound(p) PROVE Covered
    BY <1>a, <1>11 DEF AckOutbound
  <1>12. ASSUME NEW p \in Procs, UpdateOutboundAttempt(p) PROVE Covered
    BY <1>a, <1>12 DEF UpdateOutboundAttempt, AfterNote, history
  <1>13. ASSUME NEW p \in Procs, DbError(p) PROVE Covered
    BY <1>a, <1>13 DEF DbError, AfterError, AfterNote, history
  <1>14. ASSUME NEW p \in Procs, Crash(p) PROVE Covered
    <2>1. \A q \in Procs : Pending(q, j)' => Pending(q, j)
      BY <1>14 DEF Crash, Pending
    <2> QED
      BY <1>14, <2>1, NobodyGains DEF Crash, history
  <1>15. CASE UNCHANGED vars
    BY <1>0, <1>15 DEF vars, procVars, history
  <1> QED
    BY <1>1, <1>2, <1>3, <1>4, <1>5, <1>6, <1>7, <1>8, <1>9, <1>10, <1>11, <1>12, <1>13,
       <1>14, <1>15 DEF Next, PassStep, DispatchStep

(* However processes interleave, crash or come back late, a row is handed  *)
(* out at most MaxRetry times, and once per lease.                         *)
THEOREM SendsAreBounded == Spec => []SendBudget
  <1>1. Init => SendsCovered
    BY SendsStart
  <1>2. IInv /\ SendsCovered /\ [Next]_vars => SendsCovered'
    BY SendsStep DEF IInv
  <1>3. IInv /\ SendsCovered => SendBudget
    <2> SUFFICES ASSUME IInv, SendsCovered, NEW i \in Items
                 PROVE  sends[i] <= granted[i] /\ granted[i] <= MaxRetry
      BY DEF SendBudget
    <2>1. Cardinality(PendingProcs(i)) \in Nat
      BY PendingFinite
    <2>2. sends[i] \in Nat /\ granted[i] \in Nat
          /\ sends[i] + Cardinality(PendingProcs(i)) <= granted[i]
      BY DEF IInv, TypeOK, SendsCovered
    <2> QED
      BY <2>1, <2>2 DEF IInv, Rows, LeaseBudget
  <1> QED
    BY <1>1, <1>2, <1>3, Inductive, PTL DEF Spec

-----------------------------------------------------------------------------
(* The fence.  It needs worker ids of their own: with a shared id an       *)
(* earlier lessee matches the columns of the later one.                    *)
OwnIDs == \A p, q \in Procs : WorkerID[p] = WorkerID[q] => p = q

LesseeOwns ==
    \A i \in Items : owner[i] # NoOwner =>
        lessee[i] \in Procs /\ owner[i] = WorkerID[lessee[i]]

LEMMA LesseeStep == TypeOK /\ HasRow /\ LesseeOwns /\ [Next]_vars => LesseeOwns'
  <1> SUFFICES ASSUME TypeOK, HasRow, LesseeOwns, [Next]_vars PROVE LesseeOwns'
    OBVIOUS
  <1> USE OutboxAssumption DEF TypeOK, LesseeOwns
  <1>0. ASSUME UNCHANGED <<owner, lessee>> PROVE LesseeOwns'
    BY <1>0
  <1>1. ASSUME NEW i \in Items, RowStep(i) PROVE LesseeOwns'
    <2>1. CASE Compact(i)
      BY <2>1 DEF Compact
    <2>2. CASE ~Compact(i)
      <3>1. UNCHANGED <<owner, lessee>>
        BY <1>1, <2>2 DEF RowStep, EnqueueOutbound, LeaseRunsOut, SelectForReplan, rowVars, history
      <3> QED
        BY <1>0, <3>1
    <2> QED
      BY <2>1, <2>2
  <1>2. ASSUME NEW r \in Planners, NEW rs \in RouteStatus, UpdateQueueRoutePlan(r, rs)
        PROVE LesseeOwns'
    BY <1>0, <1>2 DEF UpdateQueueRoutePlan, history
  <1>3. ASSUME NEW p \in Procs, PassStep(p) PROVE LesseeOwns'
    <2>1. CASE RecoverDead(p)
      BY <1>0, <2>1 DEF RecoverDead, history
    <2>2. CASE RecoverRequeue(p)
      BY <2>2 DEF RecoverRequeue
    <2>3. ASSUME NEW S \in SUBSET Items, LeaseOutbound(p, S) PROVE LesseeOwns'
      BY <2>3 DEF LeaseOutbound
    <2> QED
      BY <1>3, <2>1, <2>2, <2>3 DEF PassStep
  <1>4. ASSUME NEW p \in Procs, Settle(p) PROVE LesseeOwns'
    <2>1. item[p] \in Items
      BY <1>4 DEF Settle, HasRow, AtWork
    <2>2. CASE RetryToQueued(p, item[p])
      BY <2>1, <2>2 DEF RetryToQueued
    <2>3. CASE ~RetryToQueued(p, item[p])
      BY <1>0, <1>4, <2>3 DEF Settle, RetryOutbound, RetryToDead, MarkSettled,
         UpdateQueueState, NotLeasedByThisWorker, rowVars
    <2> QED
      BY <2>2, <2>3
  <1>5. ASSUME NEW p \in Procs, DispatchStep(p), ~Settle(p) PROVE LesseeOwns'
    BY <1>0, <1>5 DEF DispatchStep, TakeNext, MarkSending, RecordOutboundAttempt, Send,
       EncodeFails, AckOutbound, UpdateOutboundAttempt, UpdateQueueState,
       NotLeasedByThisWorker, rowVars, history
  <1>6. ASSUME NEW p \in Procs, DbError(p) \/ Crash(p) PROVE LesseeOwns'
    BY <1>0, <1>6 DEF DbError, Crash, rowVars, history
  <1>7. CASE UNCHANGED vars
    BY <1>0, <1>7 DEF vars, rowVars, history
  <1> QED
    BY <1>1, <1>2, <1>3, <1>4, <1>5, <1>6, <1>7 DEF Next

(* The part of NoStaleWrite one step must satisfy. *)
Fenced ==
    \A p \in Procs, i \in Items :
        pc[p] \in {"sending", "settle", "ack"} /\ pc[p]' # pc[p] /\ RowChanged(i)
            => lessee[i] = p

LEMMA FencedStep ==
    ASSUME OwnIDs, TypeOK, HasRow, LesseeOwns, [Next]_vars
    PROVE  Fenced
  <1> SUFFICES ASSUME NEW p \in Procs, NEW i \in Items,
                      pc[p] \in {"sending", "settle", "ack"}, pc[p]' # pc[p], RowChanged(i)
               PROVE  lessee[i] = p
    BY DEF Fenced
  <1> USE OutboxAssumption DEF TypeOK
  <1>0. item[p] \in Items
    BY DEF HasRow, AtWork
  <1>1. Owns(p, item[p]) => lessee[item[p]] = p
    BY <1>0 DEF Owns, LesseeOwns, OwnIDs
  <1>2. ASSUME UNCHANGED <<status, owner, retries>> PROVE FALSE
    BY <1>2 DEF RowChanged
  <1>3. ASSUME NEW j \in Items, RowStep(j) PROVE FALSE
    BY <1>3 DEF RowStep, EnqueueOutbound, Compact, LeaseRunsOut, SelectForReplan, procVars
  <1>4. ASSUME NEW r \in Planners, NEW rs \in RouteStatus, UpdateQueueRoutePlan(r, rs)
        PROVE FALSE
    BY <1>4 DEF UpdateQueueRoutePlan, procVars
  <1>5. ASSUME NEW q \in Procs, PassStep(q) PROVE FALSE
    BY <1>5 DEF PassStep, RecoverDead, RecoverRequeue, LeaseOutbound
  <1>6. ASSUME NEW q \in Procs, MarkSending(q) \/ Settle(q) \/ AckOutbound(q) PROVE q = p
    BY <1>6 DEF MarkSending, Settle, AckOutbound, RetryOutbound, MarkSettled, GiveUp, Goto
  <1>8. ASSUME NEW s \in Status, UpdateQueueState(p, s) PROVE lessee[i] = p
    BY <1>0, <1>1, <1>8 DEF UpdateQueueState, RowChanged
  <1>9. ASSUME NotLeasedByThisWorker(p) \/ UNCHANGED rowVars PROVE FALSE
    BY <1>2, <1>9 DEF NotLeasedByThisWorker, rowVars
  <1>10. ASSUME RetryToDead(p, item[p]) \/ RetryToQueued(p, item[p]) PROVE lessee[i] = p
    BY <1>0, <1>1, <1>10 DEF RetryToDead, RetryToQueued, Retryable, RowChanged
  <1>11. CASE MarkSending(p)
    BY <1>8, <1>9, <1>11 DEF MarkSending, Status, InFlight
  <1>12. CASE AckOutbound(p)
    BY <1>8, <1>9, <1>12 DEF AckOutbound, Status
  <1>13. CASE Settle(p)
    <2>1. SettledStatus(p) \in Status
      BY DEF SettledStatus, Status, InFlight
    <2> QED
      BY <1>8, <1>9, <1>10, <1>13, <2>1 DEF Settle, RetryOutbound, MarkSettled
  <1>14. ASSUME NEW q \in Procs, DispatchStep(q), ~MarkSending(q), ~Settle(q), ~AckOutbound(q)
         PROVE  FALSE
    BY <1>2, <1>14 DEF DispatchStep, TakeNext, RecordOutboundAttempt, Send, EncodeFails,
       UpdateOutboundAttempt, rowVars
  <1>15. ASSUME NEW q \in Procs, DbError(q) \/ Crash(q) PROVE FALSE
    BY <1>2, <1>15 DEF DbError, Crash, rowVars
  <1>16. CASE UNCHANGED vars
    BY <1>2, <1>16 DEF vars, rowVars
  <1> QED
    BY <1>3, <1>4, <1>5, <1>6, <1>11, <1>12, <1>13, <1>14, <1>15, <1>16 DEF Next

(* When every process has a worker id of its own, no process marks, acks,  *)
(* retries or buries a row under a lease that is no longer its own.        *)
THEOREM StaleWritesAreFenced ==
    ASSUME OwnIDs
    PROVE  Spec => NoStaleWrite
  <1>1. Init => LesseeOwns
    BY DEF Init, LesseeOwns
  <1>2. IInv /\ LesseeOwns /\ [Next]_vars => LesseeOwns'
    BY LesseeStep DEF IInv
  <1>3. IInv /\ LesseeOwns /\ [Next]_vars => [Fenced]_vars
    BY FencedStep DEF IInv
  <1>4. Spec => []LesseeOwns
    BY <1>1, <1>2, Inductive, PTL DEF Spec
  <1>5. Spec => [][Fenced]_vars
    BY <1>3, <1>4, Inductive, PTL DEF Spec
  <1> QED
    BY <1>5 DEF NoStaleWrite, Fenced

-----------------------------------------------------------------------------
(* Attempts: a process that has recorded its attempt and not yet sent has  *)
(* one attempt of the row to itself.                                       *)
Announced(p, i) ==
    /\ item[p] = i
    /\ pc[p] = "send" \/ (pc[p] = "sending" /\ Kind[p] = "host")

AnnouncedProcs(i) == {p \in Procs : Announced(p, i)}

AttemptsCover ==
    \A i \in Items : sends[i] + Cardinality(AnnouncedProcs(i)) <= Len(attempts[i])

LEMMA AnnouncedFinite ==
    ASSUME NEW i
    PROVE  /\ IsFiniteSet(AnnouncedProcs(i)) /\ Cardinality(AnnouncedProcs(i)) \in Nat
           /\ IsFiniteSet(AnnouncedProcs(i)') /\ Cardinality(AnnouncedProcs(i)') \in Nat
  <1>1. AnnouncedProcs(i) \subseteq Procs /\ AnnouncedProcs(i)' \subseteq Procs
    BY DEF AnnouncedProcs
  <1> QED
    BY <1>1, FS_Subset, FS_CardinalityType, OutboxAssumption

(* A step after which nobody new is about to send row i keeps its account. *)
LEMMA NobodyAnnounces ==
    ASSUME TypeOK, AttemptsCover, NEW i \in Items,
           sends'[i] = sends[i], Len(attempts'[i]) = Len(attempts[i]),
           \A p \in Procs : Announced(p, i)' => Announced(p, i)
    PROVE  sends'[i] + Cardinality(AnnouncedProcs(i)') <= Len(attempts'[i])
  <1>1. AnnouncedProcs(i)' \subseteq AnnouncedProcs(i)
    BY DEF AnnouncedProcs
  <1>2. Cardinality(AnnouncedProcs(i)') <= Cardinality(AnnouncedProcs(i))
    BY <1>1, AnnouncedFinite, FS_Subset
  <1>3. sends[i] \in Nat /\ Len(attempts[i]) \in Nat
        /\ sends[i] + Cardinality(AnnouncedProcs(i)) <= Len(attempts[i])
    BY DEF TypeOK, AttemptsCover
  <1> QED
    BY <1>2, <1>3, AnnouncedFinite

LEMMA AttemptsStep == TypeOK /\ HasRow /\ AttemptsCover /\ [Next]_vars => AttemptsCover'
  <1> SUFFICES ASSUME TypeOK, HasRow, AttemptsCover, [Next]_vars,
                      NEW j \in Items
               PROVE  sends'[j] + Cardinality(AnnouncedProcs(j)') <= Len(attempts'[j])
    BY DEF AttemptsCover
  <1> DEFINE Covered == sends'[j] + Cardinality(AnnouncedProcs(j)') <= Len(attempts'[j])
  <1> USE OutboxAssumption DEF TypeOK, HasRow
  <1>0. ASSUME UNCHANGED <<sends, attempts, pc, item>> PROVE Covered
    BY <1>0, NobodyAnnounces DEF Announced
  <1>a. ASSUME NEW p \in Procs, NEW c, NEW n, Goto(p, c, n),
               UNCHANGED <<sends, attempts, item>>,
               c = "send" => pc[p] = "sending" /\ Kind[p] = "host",
               c # "sending"
        PROVE  Covered
    BY <1>a, NobodyAnnounces DEF Goto, Announced
  <1>1. ASSUME NEW i \in Items, RowStep(i) PROVE Covered
    <2>1. CASE Compact(i)
      <3>1. CASE i = j
        <4>1. \A p \in Procs : ~Announced(p, j)'
          BY <2>1, <3>1 DEF Compact, Holds, Announced, procVars
        <4>2. AnnouncedProcs(j)' = {}
          BY <4>1 DEF AnnouncedProcs
        <4> QED
          BY <2>1, <3>1, <4>2, FS_EmptySet DEF Compact
      <3>2. CASE i # j
        BY <2>1, <3>2, NobodyAnnounces DEF Compact, Announced, procVars
      <3> QED
        BY <3>1, <3>2
    <2>2. CASE ~Compact(i)
      BY <1>0, <1>1, <2>2 DEF RowStep, EnqueueOutbound, LeaseRunsOut, SelectForReplan,
         procVars, history
    <2> QED
      BY <2>1, <2>2
  <1>2. ASSUME NEW r \in Planners, NEW rs \in RouteStatus, UpdateQueueRoutePlan(r, rs)
        PROVE Covered
    BY <1>0, <1>2 DEF UpdateQueueRoutePlan, procVars, history
  <1>3. ASSUME NEW p \in Procs, PassStep(p) PROVE Covered
    <2>1. \A q \in Procs : Announced(q, j)' => Announced(q, j)
      BY <1>3 DEF PassStep, RecoverDead, RecoverRequeue, LeaseOutbound, Announced
    <2>2. UNCHANGED <<sends, attempts>>
      BY <1>3 DEF PassStep, RecoverDead, RecoverRequeue, LeaseOutbound, history
    <2> QED
      BY <2>1, <2>2, NobodyAnnounces
  <1>4. ASSUME NEW p \in Procs, TakeNext(p) PROVE Covered
    (* The agent's first call is the record of its attempt. *)
    <2>1. ~Announced(p, j)'
      BY <1>4 DEF TakeNext, FirstCall, Announced
    <2>2. \A q \in Procs \ {p} : Announced(q, j)' => Announced(q, j)
      BY <1>4 DEF TakeNext, Announced
    <2> QED
      BY <1>4, <2>1, <2>2, NobodyAnnounces DEF TakeNext, history
  <1>5. ASSUME NEW p \in Procs, MarkSending(p) PROVE Covered
    <2>1. \A q \in Procs : Announced(q, j)' => Announced(q, j)
      BY <1>5 DEF MarkSending, GiveUp, Goto, Announced
    <2> QED
      BY <1>5, <2>1, NobodyAnnounces DEF MarkSending
  <1>6. ASSUME NEW p \in Procs, RecordOutboundAttempt(p) PROVE Covered
    <2>0. item[p] \in Items /\ UNCHANGED sends
      BY <1>6 DEF RecordOutboundAttempt, AtWork, history
    <2>1. \A q \in Procs : Announced(q, j)' => Announced(q, j) \/ (q = p /\ item[p] = j)
      BY <1>6 DEF RecordOutboundAttempt, Goto, Announced
    <2>2. CASE item[p] = j
      <3> DEFINE more == AnnouncedProcs(j) \cup {p}
      <3>1. AnnouncedProcs(j)' \subseteq more
        BY <2>1 DEF AnnouncedProcs
      <3>2. p \notin AnnouncedProcs(j)
        BY <1>6 DEF RecordOutboundAttempt, Announced, AnnouncedProcs
      <3>3. IsFiniteSet(more) /\ Cardinality(more) = Cardinality(AnnouncedProcs(j)) + 1
        BY <3>2, AnnouncedFinite, FS_AddElement
      <3> HIDE DEF more
      <3>4. Cardinality(AnnouncedProcs(j)') <= Cardinality(AnnouncedProcs(j)) + 1
        BY <3>1, <3>3, FS_Subset
      <3>5. Len(attempts'[j]) = Len(attempts[j]) + 1
        BY <1>6, <2>2 DEF RecordOutboundAttempt, AttemptStatus
      <3>6. sends[j] \in Nat /\ Len(attempts[j]) \in Nat
            /\ sends[j] + Cardinality(AnnouncedProcs(j)) <= Len(attempts[j])
        BY DEF AttemptsCover
      <3> QED
        BY <2>0, <3>4, <3>5, <3>6, AnnouncedFinite
    <2>3. CASE item[p] # j
      <3>1. attempts'[j] = attempts[j]
        BY <1>6, <2>0, <2>3 DEF RecordOutboundAttempt
      <3> QED
        BY <2>0, <2>1, <2>3, <3>1, NobodyAnnounces
    <2> QED
      BY <2>2, <2>3
  <1>7. ASSUME NEW p \in Procs, NEW o \in Outcome, Send(p, o) PROVE Covered
    <2>0. item[p] \in Items /\ UNCHANGED attempts
      BY <1>7 DEF Send, AtWork
    <2>1. \A q \in Procs : Announced(q, j)' => Announced(q, j)
      BY <1>7 DEF Send, Answered, Goto, Announced
    <2>2. CASE item[p] = j
      <3>1. p \in AnnouncedProcs(j) /\ ~Announced(p, j)'
        BY <1>7, <2>2 DEF Send, Answered, Goto, Announced, AnnouncedProcs
      <3>2. AnnouncedProcs(j)' \subseteq AnnouncedProcs(j) \ {p}
        BY <2>1, <3>1 DEF AnnouncedProcs
      <3>3. /\ IsFiniteSet(AnnouncedProcs(j) \ {p})
            /\ Cardinality(AnnouncedProcs(j) \ {p}) = Cardinality(AnnouncedProcs(j)) - 1
        BY <3>1, AnnouncedFinite, FS_RemoveElement
      <3>4. Cardinality(AnnouncedProcs(j)') <= Cardinality(AnnouncedProcs(j)) - 1
        BY <3>2, <3>3, FS_Subset
      <3>5. sends'[j] = sends[j] + 1
        BY <1>7, <2>2 DEF Send
      <3>6. sends[j] \in Nat /\ Len(attempts[j]) \in Nat
            /\ sends[j] + Cardinality(AnnouncedProcs(j)) <= Len(attempts[j])
        BY DEF AttemptsCover
      <3> QED
        BY <2>0, <3>4, <3>5, <3>6, AnnouncedFinite
    <2>3. CASE item[p] # j
      BY <1>7, <2>0, <2>1, <2>3, NobodyAnnounces DEF Send
    <2> QED
      BY <2>2, <2>3
  <1>8. ASSUME NEW p \in Procs, EncodeFails(p) PROVE Covered
    <2>1. \A q \in Procs : Announced(q, j)' => Announced(q, j)
      BY <1>8 DEF EncodeFails, Answered, Goto, Announced
    <2> QED
      BY <1>8, <2>1, NobodyAnnounces DEF EncodeFails
  <1>9. ASSUME NEW p \in Procs, Settle(p) PROVE Covered
    BY <1>a, <1>9 DEF Settle, RetryOutbound, GiveUp, MarkSettled, AfterSettled
  <1>10. ASSUME NEW p \in Procs, AckOutbound(p) PROVE Covered
    BY <1>a, <1>10 DEF AckOutbound
  <1>11. ASSUME NEW p \in Procs, UpdateOutboundAttempt(p) PROVE Covered
    <2>1. \A q \in Procs : Announced(q, j)' => Announced(q, j)
      BY <1>11 DEF UpdateOutboundAttempt, AfterNote, Goto, Announced
    <2>2. Len(attempts'[j]) = Len(attempts[j])
      BY <1>11 DEF UpdateOutboundAttempt
    <2> QED
      BY <1>11, <2>1, <2>2, NobodyAnnounces DEF UpdateOutboundAttempt, history
  <1>12. ASSUME NEW p \in Procs, DbError(p) PROVE Covered
    BY <1>a, <1>12 DEF DbError, AfterError, AfterNote, history
  <1>13. ASSUME NEW p \in Procs, Crash(p) PROVE Covered
    <2>1. \A q \in Procs : Announced(q, j)' => Announced(q, j)
      BY <1>13 DEF Crash, Announced
    <2> QED
      BY <1>13, <2>1, NobodyAnnounces DEF Crash, history
  <1>14. CASE UNCHANGED vars
    BY <1>0, <1>14 DEF vars, procVars, history
  <1> QED
    BY <1>1, <1>2, <1>3, <1>4, <1>5, <1>6, <1>7, <1>8, <1>9, <1>10, <1>11, <1>12, <1>13,
       <1>14 DEF Next, DispatchStep

(* However many processes send a row, whatever calls fail between, each    *)
(* transmission has an attempt that was recorded before it.                *)
THEOREM SendsAreRecorded == Spec => []SendsRecorded
  <1>1. Init => AttemptsCover
    <2> SUFFICES ASSUME Init, NEW i \in Items
                 PROVE  sends[i] + Cardinality(AnnouncedProcs(i)) <= Len(attempts[i])
      BY DEF AttemptsCover
    <2>1. AnnouncedProcs(i) = {}
      BY DEF Init, AnnouncedProcs, Announced
    <2> QED
      BY <2>1, FS_EmptySet DEF Init
  <1>2. IInv /\ AttemptsCover /\ [Next]_vars => AttemptsCover'
    BY AttemptsStep DEF IInv
  <1>3. IInv /\ AttemptsCover => SendsRecorded
    <2> SUFFICES ASSUME IInv, AttemptsCover, NEW i \in Items
                 PROVE  sends[i] <= Len(attempts[i])
      BY DEF SendsRecorded
    <2>1. Cardinality(AnnouncedProcs(i)) \in Nat
      BY AnnouncedFinite
    <2>2. sends[i] \in Nat /\ Len(attempts[i]) \in Nat
          /\ sends[i] + Cardinality(AnnouncedProcs(i)) <= Len(attempts[i])
      BY DEF IInv, TypeOK, AttemptsCover
    <2> QED
      BY <2>1, <2>2
  <1> QED
    BY <1>1, <1>2, <1>3, Inductive, PTL DEF Spec

-----------------------------------------------------------------------------
(* The outbox implements QueueRow for each row.  Two facts are needed      *)
(* beside the ones above: a row's retries tell the rounds it was granted,  *)
(* and a row that is acked, or was buried by its own worker, is behind     *)
(* that worker.                                                            *)
RoundsCounted ==
    \A i \in Items :
        /\ status[i] \in {"absent", "queued"} => granted[i] = retries[i]
        /\ status[i] \in InFlight => granted[i] = retries[i] + 1
        /\ granted[i] = retries[i] \/ granted[i] = retries[i] + 1

Over(i) == status[i] = "acked" \/ (status[i] = "dead" /\ granted[i] = retries[i])

Behind(p, i) ==
    /\ i \notin batch[p]
    /\ item[p] = i => pc[p] = "next" \/ (pc[p] = "note" /\ AfterNote(p) = "next")

OverIsBehind == \A p \in Procs, i \in Items : lessee[i] = p /\ Over(i) => Behind(p, i)

(* An agent whose transport did not know gives the row up; only an agent   *)
(* acks in a call of its own.                                              *)
RightCalls ==
    \A p \in Procs :
        /\ pc[p] = "settle" => ~(Kind[p] = "host" /\ outcome[p] = "unknown")
        /\ pc[p] = "note" /\ Kind[p] = "host" /\ outcome[p] = "unknown"
              => note[p] = "dispatch_failed"
        /\ pc[p] = "ack" => Kind[p] = "host"

Order == RoundsCounted /\ OverIsBehind /\ RightCalls

LEMMA RightCallsStep ==
    ASSUME TypeOK, ToldByAnswer, RightCalls, [Next]_vars
    PROVE  RightCalls'
  <1> USE OutboxAssumption DEF TypeOK, RightCalls
  <1>0. ASSUME UNCHANGED <<pc, outcome, note>> PROVE RightCalls'
    BY <1>0
  <1>1. ASSUME NEW i \in Items, RowStep(i) PROVE RightCalls'
    BY <1>0, <1>1 DEF RowStep, EnqueueOutbound, Compact, LeaseRunsOut, SelectForReplan, procVars
  <1>2. ASSUME NEW r \in Planners, NEW rs \in RouteStatus, UpdateQueueRoutePlan(r, rs)
        PROVE RightCalls'
    BY <1>0, <1>2 DEF UpdateQueueRoutePlan, procVars
  <1>3. ASSUME NEW p \in Procs, PassStep(p) PROVE RightCalls'
    BY <1>3 DEF PassStep, RecoverDead, RecoverRequeue, LeaseOutbound
  <1>4. ASSUME NEW p \in Procs, TakeNext(p) PROVE RightCalls'
    BY <1>4 DEF TakeNext, FirstCall
  <1>5. ASSUME NEW p \in Procs, MarkSending(p) \/ RecordOutboundAttempt(p) PROVE RightCalls'
    BY <1>5 DEF MarkSending, RecordOutboundAttempt, GiveUp, Goto
  <1>6. ASSUME NEW p \in Procs, NEW o \in Outcome, Answered(p, o) PROVE RightCalls'
    BY <1>6 DEF Answered, NotesFirst, NoteFor, Goto, Outcome
  <1>7. ASSUME NEW p \in Procs, Settle(p) PROVE RightCalls'
    <2>1. CASE RetryOutbound(p)
      BY <1>7, <2>1 DEF Settle, RetryOutbound, GiveUp, Goto
    <2>2. CASE MarkSettled(p) /\ outcome[p] \notin {"retry", "unknown"}
      <3>1. PICK c \in {"next", "note", "ack"} :
                   (\E n : Goto(p, c, n)) /\ (c = "ack" => Kind[p] = "host")
        <4>1. /\ AfterSettled(p) \in {"next", "note", "ack"}
              /\ AfterSettled(p) = "ack" => Kind[p] = "host"
          BY DEF AfterSettled, NotesFirst
        <4> QED
          BY <2>2, <4>1 DEF MarkSettled
      <3> QED
        BY <1>7, <2>2, <3>1 DEF Settle, Goto
    <2> QED
      BY <1>7, <2>1, <2>2 DEF Settle
  <1>8. ASSUME NEW p \in Procs, AckOutbound(p) PROVE RightCalls'
    BY <1>8 DEF AckOutbound, Goto, ToldByAnswer
  <1>9. ASSUME NEW p \in Procs, UpdateOutboundAttempt(p) PROVE RightCalls'
    BY <1>9 DEF UpdateOutboundAttempt, AfterNote, NotesFirst, Goto
  <1>10. ASSUME NEW p \in Procs, DbError(p) PROVE RightCalls'
    BY <1>10 DEF DbError, AfterError, AfterNote, NotesFirst, Goto, ToldByAnswer
  <1>11. ASSUME NEW p \in Procs, Crash(p) PROVE RightCalls'
    BY <1>11 DEF Crash
  <1>12. CASE UNCHANGED vars
    BY <1>0, <1>12 DEF vars, procVars
  <1>13. ASSUME NEW p \in Procs, DispatchStep(p) PROVE RightCalls'
    BY <1>4, <1>5, <1>6, <1>7, <1>8, <1>9, <1>13
       DEF DispatchStep, Send, EncodeFails, Outcome
  <1> QED
    BY <1>1, <1>2, <1>3, <1>10, <1>11, <1>12, <1>13 DEF Next

(* A process that still acts on a row of its own has a row that is not     *)
(* over.                                                                   *)
LEMMA OwnRow ==
    ASSUME OwnIDs, TypeOK, LesseeOwns, Rows, Order, NEW p \in Procs, item[p] \in Items,
           Owns(p, item[p])
    PROVE  /\ lessee[item[p]] = p
           /\ status[item[p]] \in InFlight \cup {"acked", "dead"}
           /\ pc[p] \in {"sending", "settle"} =>
                 /\ status[item[p]] \in InFlight \cup {"dead"}
                 /\ granted[item[p]] = retries[item[p]] + 1
  <1> USE OutboxAssumption
  <1>1. lessee[item[p]] = p
    BY DEF Owns, LesseeOwns, OwnIDs
  <1>2. status[item[p]] \in InFlight \cup {"acked", "dead"}
    BY DEF Owns, Rows, LeaseColumns, TypeOK, Status
  <1>3. pc[p] \in {"sending", "settle"} => ~Over(item[p])
    BY <1>1 DEF Order, OverIsBehind, Behind
  <1> QED
    BY <1>1, <1>2, <1>3 DEF Over, Order, RoundsCounted

LEMMA RoundsStep ==
    ASSUME OwnIDs, TypeOK, HasRow, Rows, LesseeOwns, Order, [Next]_vars
    PROVE  RoundsCounted'
  <1> USE OutboxAssumption DEF Order, RoundsCounted, TypeOK
  <1>0. ASSUME UNCHANGED <<status, granted, retries>> PROVE RoundsCounted'
    BY <1>0
  <1>m. ASSUME NEW p \in Procs, NEW s \in {"sending", "sent_ok", "dead", "acked"}, item[p] \in Items,
               UpdateQueueState(p, s), UNCHANGED granted,
               pc[p] \in {"sending", "settle"} \/ s = "acked"
        PROVE  RoundsCounted'
    <2>1. granted[item[p]] = retries[item[p]] + 1 \/ s = "acked"
      BY <1>m, OwnRow DEF UpdateQueueState
    <2> QED
      BY <1>m, <2>1 DEF UpdateQueueState, InFlight
  <1>1. ASSUME NEW i \in Items, RowStep(i) PROVE RoundsCounted'
    <2>1. CASE Compact(i)
      BY <2>1 DEF Compact, InFlight
    <2>2. ASSUME NEW rs, EnqueueOutbound(i, rs) PROVE RoundsCounted'
      BY <2>2 DEF EnqueueOutbound, history, InFlight
    <2> QED
      BY <1>0, <1>1, <2>1, <2>2 DEF RowStep, LeaseRunsOut, SelectForReplan, rowVars, history
  <1>2. ASSUME NEW r \in Planners, NEW rs \in RouteStatus, UpdateQueueRoutePlan(r, rs)
        PROVE RoundsCounted'
    BY <1>0, <1>2 DEF UpdateQueueRoutePlan, history
  <1>3. ASSUME NEW p \in Procs, PassStep(p) PROVE RoundsCounted'
    <2>1. CASE RecoverDead(p)
      BY <2>1 DEF RecoverDead, Expired, history, InFlight
    <2>2. CASE RecoverRequeue(p)
      BY <2>2 DEF RecoverRequeue, Expired, InFlight
    <2>3. ASSUME NEW S \in SUBSET Items, LeaseOutbound(p, S) PROVE RoundsCounted'
      <3>1. \A i \in S : status[i] = "queued"
        BY <2>3 DEF LeaseOutbound, Leasable, Ready
      <3> QED
        BY <2>3, <3>1 DEF LeaseOutbound, InFlight
    <2> QED
      BY <1>3, <2>1, <2>2, <2>3 DEF PassStep
  <1>4. ASSUME NEW p \in Procs, MarkSending(p) PROVE RoundsCounted'
    BY <1>0, <1>m, <1>4 DEF MarkSending, NotLeasedByThisWorker, HasRow, AtWork, rowVars
  <1>5. ASSUME NEW p \in Procs, Settle(p) PROVE RoundsCounted'
    <2>0. item[p] \in Items /\ UNCHANGED granted
      BY <1>5 DEF Settle, HasRow, AtWork
    <2>1. CASE RetryToDead(p, item[p])
      BY <2>0, <2>1 DEF RetryToDead, Retryable, InFlight
    <2>2. CASE RetryToQueued(p, item[p])
      BY <2>0, <2>2 DEF RetryToQueued, Retryable, InFlight
    <2>3. CASE UNCHANGED rowVars
      BY <1>0, <2>0, <2>3 DEF rowVars
    <2>4. CASE UpdateQueueState(p, SettledStatus(p))
      BY <1>5, <1>m, <2>0, <2>4 DEF Settle, SettledStatus
    <2> QED
      BY <1>5, <2>1, <2>2, <2>3, <2>4
         DEF Settle, RetryOutbound, MarkSettled, NotLeasedByThisWorker
  <1>6. ASSUME NEW p \in Procs, AckOutbound(p) PROVE RoundsCounted'
    BY <1>0, <1>m, <1>6 DEF AckOutbound, NotLeasedByThisWorker, HasRow, AtWork, rowVars
  <1>7. ASSUME NEW p \in Procs, DispatchStep(p), ~MarkSending(p), ~Settle(p), ~AckOutbound(p)
        PROVE  RoundsCounted'
    BY <1>0, <1>7 DEF DispatchStep, TakeNext, RecordOutboundAttempt, Send, EncodeFails,
       UpdateOutboundAttempt, rowVars, history
  <1>8. ASSUME NEW p \in Procs, DbError(p) \/ Crash(p) PROVE RoundsCounted'
    BY <1>0, <1>8 DEF DbError, Crash, rowVars, history
  <1>9. CASE UNCHANGED vars
    BY <1>0, <1>9 DEF vars, rowVars, history
  <1> QED
    BY <1>1, <1>2, <1>3, <1>4, <1>5, <1>6, <1>7, <1>8, <1>9 DEF Next

LEMMA OverStep ==
    ASSUME OwnIDs, TypeOK, HasRow, Rows, ToldByAnswer, LesseeOwns, Order, [Next]_vars
    PROVE  OverIsBehind'
  <1> SUFFICES ASSUME NEW q \in Procs, NEW j \in Items, lessee'[j] = q, Over(j)'
               PROVE  Behind(q, j)'
    BY DEF OverIsBehind
  <1> USE OutboxAssumption DEF TypeOK
  <1>0. ASSUME UNCHANGED <<pc, batch, item, outcome, note>>, lessee[j] = q, Over(j)
        PROVE  Behind(q, j)'
    BY <1>0 DEF Order, OverIsBehind, Behind, AfterNote, NotesFirst
  (* A call of p on its row: the row of another process is what it was.    *)
  <1>a. ASSUME NEW p \in Procs, NEW c, NEW n, Goto(p, c, n), UNCHANGED <<batch, item>>,
               \A r \in Procs \ {p} : outcome'[r] = outcome[r],
               lessee[j] = q, Over(j),
               pc[p] = "next" \/ (pc[p] = "note" /\ AfterNote(p) = "next") => c = "next"
        PROVE  Behind(q, j)'
    <2>1. CASE q # p
      BY <1>a, <2>1 DEF Goto, Order, OverIsBehind, Behind, AfterNote, NotesFirst
    <2>2. CASE q = p
      BY <1>a, <2>2 DEF Goto, Order, OverIsBehind, Behind
    <2> QED
      BY <2>1, <2>2
  <1>1. ASSUME NEW i \in Items, RowStep(i) PROVE Behind(q, j)'
    <2>1. UNCHANGED <<pc, batch, item, outcome, note>>
      BY <1>1 DEF RowStep, EnqueueOutbound, Compact, LeaseRunsOut, SelectForReplan, procVars
    <2>2. lessee[j] = q /\ Over(j)
      <3>1. CASE Compact(i)
        BY <3>1 DEF Compact, Over
      <3>2. ASSUME NEW rs, EnqueueOutbound(i, rs) PROVE <2>2
        BY <3>2 DEF EnqueueOutbound, Over, history
      <3> QED
        BY <1>1, <3>1, <3>2 DEF RowStep, LeaseRunsOut, SelectForReplan, rowVars, history, Over
    <2> QED
      BY <1>0, <2>1, <2>2
  <1>2. ASSUME NEW r \in Planners, NEW rs \in RouteStatus, UpdateQueueRoutePlan(r, rs)
        PROVE Behind(q, j)'
    BY <1>0, <1>2 DEF UpdateQueueRoutePlan, Over, procVars, history
  <1>3. ASSUME NEW p \in Procs, RecoverDead(p) \/ RecoverRequeue(p) PROVE Behind(q, j)'
    <2>1. lessee[j] = q /\ Over(j)
      <3>1. CASE RecoverDead(p)
        BY <3>1 DEF RecoverDead, Expired, Over, Order, RoundsCounted, history
      <3>2. CASE RecoverRequeue(p)
        BY <3>2 DEF RecoverRequeue, Expired, InFlight, Over
      <3> QED
        BY <1>3, <3>1, <3>2
    <2>2. Behind(q, j)
      BY <2>1 DEF Order, OverIsBehind
    <2> QED
      BY <1>3, <2>2 DEF RecoverDead, RecoverRequeue, Behind, AfterNote, NotesFirst, HasRow
  <1>4. ASSUME NEW p \in Procs, NEW S \in SUBSET Items, LeaseOutbound(p, S)
        PROVE  Behind(q, j)'
    <2>1. j \notin S /\ lessee[j] = q /\ Over(j)
      BY <1>4 DEF LeaseOutbound, Over
    <2>2. Behind(q, j)
      BY <2>1 DEF Order, OverIsBehind
    <2> QED
      BY <1>4, <2>1, <2>2 DEF LeaseOutbound, Behind, AfterNote, NotesFirst, HasRow
  <1>5. ASSUME NEW p \in Procs, TakeNext(p) PROVE Behind(q, j)'
    <2>1. lessee[j] = q /\ Over(j)
      BY <1>5 DEF TakeNext, rowVars, history, Over
    <2>2. Behind(q, j)
      BY <2>1 DEF Order, OverIsBehind
    <2>3. CASE q # p
      BY <1>5, <2>2, <2>3 DEF TakeNext, Behind, AfterNote, NotesFirst
    <2>4. CASE q = p
      BY <1>5, <2>2, <2>4 DEF TakeNext, Behind
    <2> QED
      BY <2>3, <2>4
  <1>6. ASSUME NEW p \in Procs, MarkSending(p) PROVE Behind(q, j)'
    <2>1. lessee[j] = q /\ Over(j)
      BY <1>6 DEF MarkSending, UpdateQueueState, NotLeasedByThisWorker, rowVars, Over
    <2> QED
      BY <1>6, <1>a, <2>1 DEF MarkSending, GiveUp
  <1>7. ASSUME NEW p \in Procs, RecordOutboundAttempt(p) PROVE Behind(q, j)'
    BY <1>7, <1>a DEF RecordOutboundAttempt, rowVars, history, Over
  <1>8. ASSUME NEW p \in Procs, NEW o \in Outcome, pc[p] = "send", Answered(p, o),
               UNCHANGED <<rowVars, batch, item, granted, lessee>>
        PROVE  Behind(q, j)'
    BY <1>8, <1>a DEF Answered, rowVars, Over
  <1>9. ASSUME NEW p \in Procs, Settle(p) PROVE Behind(q, j)'
    <2>0. /\ item[p] \in Items /\ pc[p] = "settle"
          /\ UNCHANGED <<granted, batch, item, outcome>>
      BY <1>9 DEF Settle, HasRow, AtWork
    <2>1. ASSUME lessee[j] = q, Over(j) PROVE Behind(q, j)'
      BY <1>9, <1>a, <2>0, <2>1 DEF Settle, RetryOutbound, GiveUp, MarkSettled
    <2>2. CASE RetryToDead(p, item[p]) /\ Goto(p, "note", "dead") /\ outcome[p] \in {"retry", "unknown"}
      <3>1. CASE j # item[p]
        BY <2>0, <2>1, <2>2, <3>1 DEF RetryToDead, Over
      <3>2. CASE j = item[p]
        <4>1. q = p
          BY <2>0, <2>2, <3>2, OwnRow DEF RetryToDead, Retryable
        <4>2. AfterNote(p)' = "next"
          BY <2>0, <2>2 DEF Goto, AfterNote, NotesFirst, Order, RightCalls
        <4> QED
          BY <2>0, <2>2, <3>2, <4>1, <4>2 DEF Goto, Behind, HasRow
      <3> QED
        BY <3>1, <3>2
    <2>3. CASE RetryToQueued(p, item[p])
      BY <2>0, <2>1, <2>3 DEF RetryToQueued, Over
    <2>4. CASE UNCHANGED <<rowVars, lessee>>
      BY <2>0, <2>1, <2>4 DEF rowVars, Over
    <2>5. CASE UpdateQueueState(p, SettledStatus(p)) /\ Goto(p, AfterSettled(p), note[p])
      <3>1. CASE j # item[p]
        BY <2>0, <2>1, <2>5, <3>1 DEF UpdateQueueState, Over
      <3>2. CASE j = item[p]
        <4>1. q = p /\ granted[j] = retries[j] + 1
          BY <2>0, <2>5, <3>2, OwnRow DEF UpdateQueueState
        <4>2. SettledStatus(p) = "acked"
          BY <2>0, <2>5, <3>2, <4>1 DEF UpdateQueueState, Over
        <4>3. AfterSettled(p) = "next"
          <5>1. outcome[p] = "acked" /\ Kind[p] = "router"
            BY <4>2 DEF SettledStatus
          <5> QED
            BY <5>1 DEF AfterSettled, NotesFirst
        <4> QED
          BY <2>0, <2>5, <3>2, <4>1, <4>3 DEF Goto, Behind, HasRow
      <3> QED
        BY <3>1, <3>2
    <2> QED
      BY <1>9, <2>2, <2>3, <2>4, <2>5
         DEF Settle, RetryOutbound, MarkSettled, NotLeasedByThisWorker
  <1>10. ASSUME NEW p \in Procs, AckOutbound(p) PROVE Behind(q, j)'
    <2>0. /\ item[p] \in Items /\ pc[p] = "ack" /\ outcome[p] = "acked" /\ Kind[p] = "host"
          /\ UNCHANGED <<granted, batch, item, outcome>>
      BY <1>10 DEF AckOutbound, HasRow, AtWork, ToldByAnswer, Order, RightCalls
    <2>1. ASSUME lessee[j] = q, Over(j) PROVE Behind(q, j)'
      BY <1>10, <1>a, <2>0, <2>1 DEF AckOutbound
    <2>2. CASE j = item[p] /\ UpdateQueueState(p, "acked") /\ Goto(p, "note", note[p])
      <3>1. q = p
        BY <2>0, <2>2, OwnRow DEF UpdateQueueState
      <3>2. AfterNote(p)' = "next"
        BY <2>0 DEF AfterNote, NotesFirst
      <3> QED
        BY <2>0, <2>2, <3>1, <3>2 DEF Goto, Behind, HasRow
    <2> QED
      BY <1>10, <2>0, <2>1, <2>2 DEF AckOutbound, UpdateQueueState, NotLeasedByThisWorker, rowVars, Over
  <1>11. ASSUME NEW p \in Procs, UpdateOutboundAttempt(p) PROVE Behind(q, j)'
    BY <1>11, <1>a DEF UpdateOutboundAttempt, rowVars, history, Over
  <1>12. ASSUME NEW p \in Procs, DbError(p) PROVE Behind(q, j)'
    BY <1>12, <1>a DEF DbError, AfterError, rowVars, history, Over
  <1>13. ASSUME NEW p \in Procs, Crash(p) PROVE Behind(q, j)'
    <2>1. lessee[j] = q /\ Over(j)
      BY <1>13 DEF Crash, rowVars, history, Over
    <2>2. Behind(q, j)
      BY <2>1 DEF Order, OverIsBehind
    <2> QED
      BY <1>13, <2>2 DEF Crash, Behind, AfterNote, NotesFirst
  <1>14. CASE UNCHANGED vars
    BY <1>0, <1>14 DEF vars, rowVars, procVars, history, Over
  <1>15. ASSUME NEW p \in Procs, DispatchStep(p) PROVE Behind(q, j)'
    BY <1>5, <1>6, <1>7, <1>8, <1>9, <1>10, <1>11, <1>15
       DEF DispatchStep, Send, EncodeFails, Outcome
  <1> QED
    BY <1>1, <1>2, <1>3, <1>4, <1>12, <1>13, <1>14, <1>15 DEF Next, PassStep

(* What a step must do to the columns of row i to be a step of QueueRow.   *)
LEMMA RowKept ==
    ASSUME NEW i, status'[i] = status[i], lessee'[i] = lessee[i], granted'[i] = granted[i],
           sends'[i] = sends[i], answers'[i] = answers[i]
    PROVE  UNCHANGED Row(i)!vars
  BY DEF Row!vars, Phase

LEMMA RowAccepts ==
    ASSUME NEW i, status[i] = "absent", status'[i] = "queued", lessee'[i] = lessee[i],
           granted'[i] = granted[i], sends'[i] = sends[i], answers'[i] = answers[i]
    PROVE  Row(i)!Next
  <1>1. Row(i)!Accept
    BY DEF Row!Accept, Phase
  <1> QED
    BY <1>1 DEF Row!Next

LEMMA RowGrants ==
    ASSUME NEW i, NEW p \in Procs, status[i] = "queued", status'[i] = "leased", lessee'[i] = p,
           granted[i] < MaxRetry, granted'[i] = granted[i] + 1,
           sends'[i] = sends[i], answers'[i] = answers[i]
    PROVE  Row(i)!Next
  <1>1. Row(i)!Grant(p)
    BY DEF Row!Grant, Phase
  <1> QED
    BY <1>1 DEF Row!Next

LEMMA RowReports ==
    ASSUME NEW i, NEW s \in {"sending", "sent_ok", "acked", "dead"},
           status[i] \in InFlight \cup {"dead"}, status'[i] = s,
           s = "sent_ok" => answers[i] \cap {"sent", "acked"} # {},
           s = "acked" => "acked" \in answers[i],
           s = "dead" => "permanent" \in answers[i],
           lessee'[i] = lessee[i], granted'[i] = granted[i], sends'[i] = sends[i],
           answers'[i] = answers[i]
    PROVE  Row(i)!Next
  <1> DEFINE t == IF s = "sending" THEN "held" ELSE IF s = "sent_ok" THEN "sent" ELSE s
  <1>1. Phase(i) \in {"held", "sent", "dead"} /\ Phase(i)' = t
    BY DEF Phase, InFlight
  <1>2. t \in {"held", "sent", "acked", "dead"}
    OBVIOUS
  <1>3. /\ t = "sent" => answers[i] \cap {"sent", "acked"} # {}
        /\ t = "acked" => "acked" \in answers[i]
        /\ t = "dead" => "permanent" \in answers[i]
    OBVIOUS
  <1> HIDE DEF t
  <1>4. Row(i)!Report(t)
    BY <1>1, <1>2, <1>3 DEF Row!Report
  <1> QED
    BY <1>2, <1>4 DEF Row!Next

LEMMA RowGivesBack ==
    ASSUME NEW i, status[i] \in InFlight, status'[i] = "queued", granted[i] < MaxRetry,
           lessee'[i] = NoProc, granted'[i] = granted[i], sends'[i] = sends[i],
           answers'[i] = answers[i]
    PROVE  Row(i)!Next
  <1>1. Row(i)!GiveBack
    BY DEF Row!GiveBack, Phase, InFlight
  <1> QED
    BY <1>1 DEF Row!Next

LEMMA RowBuries ==
    ASSUME NEW i, status[i] \in InFlight, status'[i] = "dead", granted[i] = MaxRetry,
           lessee'[i] = lessee[i], granted'[i] = granted[i], sends'[i] = sends[i],
           answers'[i] = answers[i]
    PROVE  Row(i)!Next
  <1>1. Row(i)!Bury
    BY DEF Row!Bury, Phase, InFlight
  <1> QED
    BY <1>1 DEF Row!Next

(* An exhausted row has been through all its rounds. *)
LEMMA ExhaustedIsSpent ==
    ASSUME TypeOK, Rows, Order, NEW i \in Items, status[i] \in InFlight
    PROVE  IF Exhausted(i) THEN granted[i] = MaxRetry ELSE granted[i] < MaxRetry
  BY OutboxAssumption DEF Exhausted, Order, RoundsCounted, Rows, LeaseBudget, TypeOK

LEMMA RowTransmits ==
    ASSUME TypeOK, SendsCovered, NEW p \in Procs, NEW o \in Outcome, NEW i \in Items,
           item[p] = i, pc[p] = "send",
           answers'[i] = answers[i] \cup {o}, status'[i] = status[i], lessee'[i] = lessee[i],
           granted'[i] = granted[i], sends'[i] = sends[i] + 1 \/ (sends'[i] = sends[i] /\ o = "permanent")
    PROVE  Row(i)!Next
  <1>1. sends[i] < granted[i] /\ granted[i] > 0
    <2>1. p \in PendingProcs(i)
      BY DEF PendingProcs, Pending
    <2>2. Cardinality(PendingProcs(i)) \in Nat /\ Cardinality(PendingProcs(i)) # 0
      BY <2>1, PendingFinite, FS_EmptySet
    <2>3. sends[i] \in Nat /\ granted[i] \in Nat
          /\ sends[i] + Cardinality(PendingProcs(i)) <= granted[i]
      BY DEF TypeOK, SendsCovered
    <2> QED
      BY <2>2, <2>3
  <1>2. o \in Row(i)!Answer
    BY DEF Row!Answer, Outcome
  <1>3. Phase(i)' = Phase(i)
    BY DEF Phase
  <1>4. CASE sends'[i] = sends[i] + 1
    <2>1. Row(i)!Transmit(o)
      BY <1>1, <1>3, <1>4 DEF Row!Transmit
    <2> QED
      BY <1>2, <2>1 DEF Row!Next
  <1>5. CASE sends'[i] = sends[i] /\ o = "permanent"
    <2>1. Row(i)!Refuse
      BY <1>1, <1>3, <1>5 DEF Row!Refuse
    <2> QED
      BY <2>1 DEF Row!Next
  <1> QED
    BY <1>4, <1>5

LEMMA RowStepKeeps ==
    ASSUME OwnIDs, IInv, SendsCovered, LesseeOwns, Order, [Next]_vars, NEW j \in Items
    PROVE  Row(j)!Next \/ UNCHANGED Row(j)!vars
  <1> DEFINE Promised == Row(j)!Next \/ UNCHANGED Row(j)!vars
  <1> USE OutboxAssumption DEF IInv, TypeOK
  <1>0. ASSUME UNCHANGED <<status, lessee, granted, sends, answers>> PROVE Promised
    BY <1>0, RowKept
  <1> HIDE DEF Promised
  <1>m. ASSUME NEW p \in Procs, NEW s \in {"sending", "sent_ok", "acked", "dead"},
               item[p] \in Items, UpdateQueueState(p, s), pc[p] \in {"sending", "settle"} \/ s = "acked",
               UNCHANGED <<granted, sends, answers>>,
               s = "sent_ok" => answers[item[p]] \cap {"sent", "acked"} # {},
               s = "acked" => "acked" \in answers[item[p]],
               s = "dead" => "permanent" \in answers[item[p]]
        PROVE  Promised
    <2>0. UNCHANGED lessee /\ Owns(p, item[p])
      BY <1>m DEF UpdateQueueState
    <2>1. CASE j # item[p]
      <3>1. status'[j] = status[j]
        BY <1>m, <2>1 DEF UpdateQueueState
      <3> QED
        BY <1>m, <2>0, <3>1, RowKept DEF Promised
    <2>2. CASE j = item[p]
      <3>1. status'[j] = s
        BY <1>m, <2>2 DEF UpdateQueueState
      <3>2. CASE status[j] = "acked"
        <4>1. s = "acked"
          BY <1>m, <2>0, <2>2, <3>2, OwnRow DEF InFlight
        <4> QED
          BY <1>m, <2>0, <3>1, <3>2, <4>1, RowKept DEF Promised
      <3>3. CASE status[j] # "acked"
        <4>1. status[j] \in InFlight \cup {"dead"}
          BY <1>m, <2>0, <2>2, <3>3, OwnRow
        <4> QED
          BY <1>m, <2>0, <2>2, <3>1, <4>1, RowReports DEF Promised
      <3> QED
        BY <3>2, <3>3
    <2> QED
      BY <2>1, <2>2
  <1>1. ASSUME NEW i \in Items, RowStep(i) PROVE Promised
    <2>1. ASSUME NEW rs \in RouteStatus, EnqueueOutbound(i, rs) PROVE Promised
      <3>1. CASE i = j
        BY <2>1, <3>1, RowAccepts DEF EnqueueOutbound, history, Promised
      <3>2. CASE i # j
        BY <2>1, <3>2, RowKept DEF EnqueueOutbound, history, Promised
      <3> QED
        BY <3>1, <3>2
    <2>2. CASE Compact(i)
      <3>1. CASE i = j
        <4>1. Phase(j) = "dead" /\ Phase(j)' = "none"
          BY <2>2, <3>1 DEF Compact, Phase
        <4>2. Row(j)!Drop
          BY <2>2, <3>1, <4>1 DEF Compact, Row!Drop
        <4> QED
          BY <4>2 DEF Row!Next, Promised
      <3>2. CASE i # j
        BY <2>2, <3>2, RowKept DEF Compact, Promised
      <3> QED
        BY <3>1, <3>2
    <2> QED
      BY <1>0, <1>1, <2>1, <2>2 DEF RowStep, LeaseRunsOut, SelectForReplan, rowVars, history
  <1>2. ASSUME NEW r \in Planners, NEW rs \in RouteStatus, UpdateQueueRoutePlan(r, rs)
        PROVE Promised
    BY <1>0, <1>2 DEF UpdateQueueRoutePlan, history
  <1>3. ASSUME NEW p \in Procs, RecoverDead(p) PROVE Promised
    <2>1. CASE j \in Expired /\ Exhausted(j)
      <3>1. status[j] \in InFlight /\ granted[j] = MaxRetry
        BY <2>1, ExhaustedIsSpent DEF Expired
      <3> QED
        BY <1>3, <2>1, <3>1, RowBuries DEF RecoverDead, history, Promised
    <2>2. CASE ~(j \in Expired /\ Exhausted(j))
      BY <1>3, <2>2, RowKept DEF RecoverDead, history, Promised
    <2> QED
      BY <2>1, <2>2
  <1>4. ASSUME NEW p \in Procs, RecoverRequeue(p) PROVE Promised
    <2>1. CASE j \in Expired /\ ~Exhausted(j)
      <3>1. status[j] \in InFlight /\ granted[j] < MaxRetry
        BY <2>1, ExhaustedIsSpent DEF Expired
      <3> QED
        BY <1>4, <2>1, <3>1, RowGivesBack DEF RecoverRequeue, Promised
    <2>2. CASE ~(j \in Expired /\ ~Exhausted(j))
      BY <1>4, <2>2, RowKept DEF RecoverRequeue, Promised
    <2> QED
      BY <2>1, <2>2
  <1>5. ASSUME NEW p \in Procs, NEW S \in SUBSET Items, LeaseOutbound(p, S) PROVE Promised
    <2>1. CASE j \in S
      <3>1. status[j] = "queued" /\ granted[j] < MaxRetry
        BY <1>5, <2>1 DEF LeaseOutbound, Leasable, Ready, Rows, LeaseBudget
      <3>2. /\ status'[j] = "leased" /\ lessee'[j] = p /\ granted'[j] = granted[j] + 1
            /\ UNCHANGED <<sends, answers>>
        BY <1>5, <2>1 DEF LeaseOutbound
      <3> QED
        BY <3>1, <3>2, RowGrants DEF Promised
    <2>2. CASE j \notin S
      BY <1>5, <2>2, RowKept DEF LeaseOutbound, Promised
    <2> QED
      BY <2>1, <2>2
  <1>6. ASSUME NEW p \in Procs, MarkSending(p) PROVE Promised
    <2>1. item[p] \in Items /\ pc[p] = "sending" /\ UNCHANGED <<granted, sends, answers>>
      BY <1>6 DEF MarkSending, HasRow, AtWork
    <2> QED
      BY <1>0, <1>m, <1>6, <2>1 DEF MarkSending, NotLeasedByThisWorker, rowVars
  <1>7. ASSUME NEW p \in Procs, NEW o \in Outcome, pc[p] = "send", Answered(p, o),
               UNCHANGED <<status, lessee, granted>>,
               sends' = [sends EXCEPT ![item[p]] = @ + 1] \/ (sends' = sends /\ o = "permanent")
        PROVE  Promised
    <2>1. item[p] \in Items
      BY <1>7 DEF HasRow, AtWork
    <2>2. CASE j = item[p]
      BY <1>7, <2>1, <2>2, RowTransmits DEF Answered, Promised
    <2>3. CASE j # item[p]
      BY <1>7, <2>1, <2>3, RowKept DEF Answered, Promised
    <2> QED
      BY <2>2, <2>3
  <1>8. ASSUME NEW p \in Procs, Settle(p) PROVE Promised
    <2>0. /\ item[p] \in Items /\ pc[p] = "settle" /\ outcome[p] \in answers[item[p]]
          /\ UNCHANGED <<granted, sends, answers>>
      BY <1>8 DEF Settle, HasRow, AtWork, Answers, ToldByAnswer
    <2>1. CASE RetryToDead(p, item[p])
      <3>1. CASE j = item[p]
        <4>1. status[j] \in InFlight /\ granted[j] = MaxRetry
          BY <2>1, <3>1, ExhaustedIsSpent DEF RetryToDead, Retryable
        <4> QED
          BY <2>0, <2>1, <3>1, <4>1, RowBuries DEF RetryToDead, Promised
      <3>2. CASE j # item[p]
        BY <2>0, <2>1, <3>2, RowKept DEF RetryToDead, Promised
      <3> QED
        BY <3>1, <3>2
    <2>2. CASE RetryToQueued(p, item[p])
      <3>1. CASE j = item[p]
        <4>1. status[j] \in InFlight /\ granted[j] < MaxRetry
          BY <2>2, <3>1, ExhaustedIsSpent DEF RetryToQueued, Retryable
        <4> QED
          BY <2>0, <2>2, <3>1, <4>1, RowGivesBack DEF RetryToQueued, Promised
      <3>2. CASE j # item[p]
        BY <2>0, <2>2, <3>2, RowKept DEF RetryToQueued, Promised
      <3> QED
        BY <3>1, <3>2
    <2>3. CASE UNCHANGED <<rowVars, lessee>>
      BY <1>0, <2>0, <2>3 DEF rowVars
    <2>4. CASE UpdateQueueState(p, SettledStatus(p)) /\ outcome[p] \notin {"retry", "unknown"}
      <3>1. /\ SettledStatus(p) \in {"sent_ok", "acked", "dead"}
            /\ SettledStatus(p) = "sent_ok" => outcome[p] \in {"sent", "acked"}
            /\ SettledStatus(p) = "acked" => outcome[p] = "acked"
            /\ SettledStatus(p) = "dead" => outcome[p] = "permanent"
        BY <2>4 DEF SettledStatus, Outcome
      <3> QED
        BY <1>m, <2>0, <2>4, <3>1
    <2> QED
      BY <1>8, <2>1, <2>2, <2>3, <2>4
         DEF Settle, RetryOutbound, MarkSettled, NotLeasedByThisWorker
  <1>9. ASSUME NEW p \in Procs, AckOutbound(p) PROVE Promised
    <2>1. item[p] \in Items /\ "acked" \in answers[item[p]] /\ UNCHANGED <<granted, sends, answers>>
      BY <1>9 DEF AckOutbound, HasRow, AtWork, Answers, ToldByAnswer
    <2> QED
      BY <1>0, <1>m, <1>9, <2>1 DEF AckOutbound, NotLeasedByThisWorker, rowVars
  <1>10. ASSUME NEW p \in Procs, TakeNext(p) \/ RecordOutboundAttempt(p) \/ UpdateOutboundAttempt(p)
         PROVE Promised
    BY <1>0, <1>10 DEF TakeNext, RecordOutboundAttempt, UpdateOutboundAttempt, rowVars, history
  <1>11. ASSUME NEW p \in Procs, DbError(p) \/ Crash(p) PROVE Promised
    BY <1>0, <1>11 DEF DbError, Crash, rowVars, history
  <1>12. CASE UNCHANGED vars
    <2>1. UNCHANGED <<status, lessee, granted, sends, answers>>
      BY <1>12 DEF vars, rowVars, history
    <2> QED
      BY <1>0, <2>1 DEF Promised
  <1>13. ASSUME NEW p \in Procs, EncodeFails(p) \/ (\E o \in Outcome : Send(p, o)) PROVE Promised
    BY <1>7, <1>13 DEF Send, EncodeFails, Outcome, rowVars
  <1> QED
    BY <1>1, <1>2, <1>3, <1>4, <1>5, <1>6, <1>8, <1>9, <1>10, <1>11, <1>12, <1>13
       DEF Next, PassStep, DispatchStep, Promised

(* With worker ids of their own, whatever the processes do is, for each    *)
(* row, a step of the promise QueueRow or none.                            *)
THEOREM ImplementsQueueRow ==
    ASSUME OwnIDs
    PROVE  Spec => KeepsPromise
  <1>1. Init => LesseeOwns /\ Order
    BY OutboxAssumption DEF Init, LesseeOwns, Order, RoundsCounted, OverIsBehind, Over, RightCalls, InFlight
  <1>2. IInv /\ LesseeOwns /\ [Next]_vars => LesseeOwns'
    BY LesseeStep DEF IInv
  <1>3. IInv /\ LesseeOwns /\ Order /\ [Next]_vars => Order'
    BY RightCallsStep, RoundsStep, OverStep DEF IInv, Answers, Order
  <1>4. Init => SendsCovered
    BY SendsStart
  <1>5. IInv /\ SendsCovered /\ [Next]_vars => SendsCovered'
    BY SendsStep DEF IInv
  <1>6. Spec => [](IInv /\ LesseeOwns /\ Order /\ SendsCovered)
    BY <1>1, <1>2, <1>3, <1>4, <1>5, Inductive, PTL DEF Spec
  <1>7. Init => \A i \in Items : Row(i)!Init
    BY OutboxAssumption DEF Init, Row!Init, Phase
  <1>8. IInv /\ LesseeOwns /\ Order /\ SendsCovered /\ [Next]_vars
           => [\A i \in Items : Row(i)!Next \/ UNCHANGED Row(i)!vars]_vars
    BY RowStepKeeps
  <1> QED
    BY <1>6, <1>7, <1>8, PTL DEF Spec, KeepsPromise
=============================================================================
