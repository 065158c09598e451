------------------------------- MODULE Outbox -------------------------------
(***************************************************************************)
(* The Site Router's durable outbox (internal/siterouter/router.go,        *)
(* worker.go, route_replan.go) and the two kinds of process that drain it: *)
(* the router's DispatchWorker and the Host Agent's egress loop            *)
(* (internal/hostagent/egress.go).  The outbox is a table that several     *)
(* processes open at once; one call of the Router is one transaction, so   *)
(* one call is one action here, and calls of different processes           *)
(* interleave.                                                             *)
(*                                                                         *)
(* A row carries the columns that decide what happens to it: status,       *)
(* route_status, lease_owner, lease_until (as: has it passed?) and         *)
(* retry_count.  Its attempts are the rows of outbox_attempt.              *)
(***************************************************************************)
EXTENDS Naturals, Sequences, FiniteSets

CONSTANTS Items,      \* outbox rows; AUTOINCREMENT never reuses an id
          Procs,      \* processes that run dispatch passes
          Planners,   \* processes that run ReplanQueuedRoutes
          Kind,       \* Kind[p]: which dispatch loop p runs
          WorkerID,   \* WorkerID[p]: the lease_owner p writes
          Limit,      \* Limit[p]: rows p leases in one pass
          Urgency,    \* Urgency[i]: rank of the row's priority, 0 is "critical"
          MaxRetry,   \* Router.maxRetryCount
          MaxFaults,  \* bound: crashes and database errors in one behaviour
          NoOwner, NoItem, NoProc

ASSUME OutboxAssumption ==
    /\ IsFiniteSet(Items) /\ NoItem \notin Items
    /\ IsFiniteSet(Procs) /\ NoProc \notin Procs
    /\ Kind \in [Procs -> {"router", "host"}]
    /\ \A p \in Procs : WorkerID[p] # NoOwner
    /\ Limit \in [Procs -> Nat \ {0}]
    /\ Urgency \in [Items -> 0 .. 3]
    /\ MaxRetry \in Nat \ {0}
    /\ MaxFaults \in Nat

VARIABLES
    status,     \* outbox_queue.status; "absent" is no row
    route,      \* outbox_queue.route_status
    owner,      \* outbox_queue.lease_owner
    lapsed,     \* the rows whose lease_until is in the past
    retries,    \* outbox_queue.retry_count
    attempts,   \* outbox_attempt: the statuses of a row's attempts, by attempt_no
    pc,         \* the call process p makes next
    batch,      \* leased rows p has not yet taken up in this pass
    item,       \* the row p is dispatching
    attempt,    \* the attempt_no p recorded for it
    outcome,    \* what the dispatcher or transport answered
    note,       \* the attempt status p will write
    selected,   \* the row a planner selected and is planning for
    faults,     \* faults so far
    granted,    \* history: leases granted on a row
    lessee,     \* history: the process the latest lease on a row was granted to
    sends,      \* history: times a row was handed to a dispatcher or transport
    answers     \* history: the outcomes any process has met for a row

rowVars  == <<status, route, owner, lapsed, retries>>
procVars == <<pc, batch, item, attempt, outcome, note>>
history  == <<granted, lessee, sends, answers>>
vars == <<rowVars, attempts, procVars, selected, faults, history>>

-----------------------------------------------------------------------------
InFlight == {"leased", "sending", "sent_ok"}
Status == {"absent", "queued", "acked", "dead"} \cup InFlight
RouteStatus == {"route_pending", "route_blocked", "ready_to_send"}
Outcome == {"sent", "acked", "retry", "permanent", "unknown"}
AttemptStatus == {"planned", "sent_ok", "acked", "retry", "dead",
                  "permanent_failure", "dispatch_failed", "ack_update_failed"}
Call == {"idle", "requeue", "lease", "next", "sending", "record", "send",
         "settle", "ack", "note"}

Ready(i) == status[i] = "queued" /\ route[i] = "ready_to_send"
(* Mutant of Exhausted: the retry about to be counted is forgotten. *)
ExhaustedOneLate(i) == retries[i] >= MaxRetry

Exhausted(i) == retries[i] + 1 >= MaxRetry
Holds(p, i) == item[p] = i \/ i \in batch[p]

(* Mutant of Owns: rows are matched by id alone. *)
AnyoneOwns(p, i) == status[i] # "absent"

(* updateQueueState and RetryOutbound match rows by id and lease_owner. *)
Owns(p, i) == status[i] # "absent" /\ owner[i] = WorkerID[p]

Init ==
    /\ status = [i \in Items |-> "absent"]
    /\ route = [i \in Items |-> "route_pending"]
    /\ owner = [i \in Items |-> NoOwner]
    /\ lapsed = {}
    /\ retries = [i \in Items |-> 0]
    /\ attempts = [i \in Items |-> <<>>]
    /\ pc = [p \in Procs |-> "idle"]
    /\ batch = [p \in Procs |-> {}]
    /\ item = [p \in Procs |-> NoItem]
    /\ attempt = [p \in Procs |-> 0]
    /\ outcome = [p \in Procs |-> "unknown"]
    /\ note = [p \in Procs |-> "planned"]
    /\ selected = [r \in Planners |-> NoItem]
    /\ faults = 0
    /\ granted = [i \in Items |-> 0]
    /\ lessee = [i \in Items |-> NoProc]
    /\ sends = [i \in Items |-> 0]
    /\ answers = [i \in Items |-> {}]

-----------------------------------------------------------------------------
(* Producers, planners and retention.                                      *)

(* EnqueueOutbound: the plan is made outside the transaction, so the row   *)
(* may enter with any route_status.  A queue_key that exists is left alone.*)
EnqueueOutbound(i, rs) ==
    /\ status[i] = "absent"
    /\ status' = [status EXCEPT ![i] = "queued"]
    /\ route' = [route EXCEPT ![i] = rs]
    /\ UNCHANGED <<owner, lapsed, retries, attempts, procVars, selected, faults, history>>

Replannable(i) == status[i] = "queued" /\ route[i] \in {"route_pending", "route_blocked"}

(* ReplanQueuedRoutes reads its candidates first ... *)
SelectForReplan(r, i) ==
    /\ selected[r] = NoItem
    /\ Replannable(i)
    /\ selected' = [selected EXCEPT ![r] = i]
    /\ UNCHANGED <<rowVars, attempts, procVars, faults, history>>

(* Mutant of UpdateQueueRoutePlan: the update trusts the earlier read. *)
UpdateRouteUnguarded(r, rs) ==
    /\ selected[r] # NoItem
    /\ route' = [route EXCEPT ![selected[r]] = rs]
    /\ selected' = [selected EXCEPT ![r] = NoItem]
    /\ UNCHANGED <<status, owner, lapsed, retries, attempts, procVars, faults, history>>

(* ... and updates each later, when it may no longer be a candidate. *)
UpdateQueueRoutePlan(r, rs) ==
    LET i == selected[r] IN
    /\ i # NoItem
    /\ route' = IF Replannable(i) THEN [route EXCEPT ![i] = rs] ELSE route
    /\ selected' = [selected EXCEPT ![r] = NoItem]
    /\ UNCHANGED <<status, owner, lapsed, retries, attempts, procVars, faults, history>>

(* Compact deletes a dead row and its attempts.  The retention is at least *)
(* a day, a lease some seconds: no process is still at work on the row.    *)
Compact(i) ==
    /\ status[i] = "dead"
    /\ \A p \in Procs : ~Holds(p, i)
    /\ \A r \in Planners : selected[r] # i
    /\ status' = [status EXCEPT ![i] = "absent"]
    /\ route' = [route EXCEPT ![i] = "route_pending"]
    /\ owner' = [owner EXCEPT ![i] = NoOwner]
    /\ lapsed' = lapsed \ {i}
    /\ retries' = [retries EXCEPT ![i] = 0]
    /\ attempts' = [attempts EXCEPT ![i] = <<>>]
    /\ granted' = [granted EXCEPT ![i] = 0]
    /\ lessee' = [lessee EXCEPT ![i] = NoProc]
    /\ sends' = [sends EXCEPT ![i] = 0]
    /\ answers' = [answers EXCEPT ![i] = {}]
    /\ UNCHANGED <<procVars, selected, faults>>

(* Time passes lease_until of a row. *)
LeaseRunsOut(i) ==
    /\ status[i] \in InFlight
    /\ i \notin lapsed
    /\ lapsed' = lapsed \cup {i}
    /\ UNCHANGED <<status, route, owner, retries, attempts, procVars, selected, faults, history>>

-----------------------------------------------------------------------------
(* One dispatch pass of process p: recover, lease, then row by row.        *)

(* Mutants of Expired: the recovery minimum of the storage document, which *)
(* leaves sent_ok out; every row whose lease_until has passed.             *)
ExpiredBeforeSent == {i \in lapsed : status[i] \in {"leased", "sending"}}
ExpiredAnyStatus == {i \in lapsed : status[i] # "dead"}

(* First statement of RecoverExpiredLeases: lease_owner and lease_until    *)
(* stay in the dead row.                                                   *)
Expired == {i \in lapsed : status[i] \in InFlight}

RecoverDead(p) ==
    /\ pc[p] = "idle"
    /\ status' = [i \in Items |-> IF i \in Expired /\ Exhausted(i) THEN "dead" ELSE status[i]]
    /\ pc' = [pc EXCEPT ![p] = "requeue"]
    /\ UNCHANGED <<route, owner, lapsed, retries, attempts, batch, item, attempt,
                   outcome, note, selected, faults, history>>

(* Second statement, its own transaction: a lease that lapsed since the    *)
(* first is treated as if this pass had started now.                       *)
RecoverRequeue(p) ==
    LET back == {i \in Expired : ~Exhausted(i)} IN
    /\ pc[p] = "requeue"
    /\ status' = [i \in Items |-> IF i \in back THEN "queued" ELSE status[i]]
    /\ owner' = [i \in Items |-> IF i \in back THEN NoOwner ELSE owner[i]]
    /\ lessee' = [i \in Items |-> IF i \in back THEN NoProc ELSE lessee[i]]
    /\ retries' = [i \in Items |-> IF i \in back THEN retries[i] + 1 ELSE retries[i]]
    /\ lapsed' = lapsed \ back
    /\ pc' = [pc EXCEPT ![p] = "lease"]
    /\ UNCHANGED <<route, attempts, batch, item, attempt, outcome, note,
                   selected, faults, granted, sends, answers>>

(* LeaseOutbound: the most urgent ready rows, ties (created_at) in any way.*)
Leasable(p, S) ==
    /\ \A i \in S : Ready(i)
    /\ LET left == {i \in Items : Ready(i)} \ S IN
       /\ Cardinality(S) <= Limit[p]
       /\ left # {} => Cardinality(S) = Limit[p]
       /\ \A i \in S, j \in left : Urgency[i] <= Urgency[j]

LeaseOutbound(p, S) ==
    /\ pc[p] = "lease"
    /\ Leasable(p, S)
    /\ status' = [i \in Items |-> IF i \in S THEN "leased" ELSE status[i]]
    /\ owner' = [i \in Items |-> IF i \in S THEN WorkerID[p] ELSE owner[i]]
    /\ lessee' = [i \in Items |-> IF i \in S THEN p ELSE lessee[i]]
    /\ granted' = [i \in Items |-> IF i \in S THEN granted[i] + 1 ELSE granted[i]]
    /\ lapsed' = lapsed \ S
    /\ batch' = [batch EXCEPT ![p] = S]
    /\ pc' = [pc EXCEPT ![p] = "next"]
    /\ UNCHANGED <<route, retries, attempts, item, attempt, outcome, note,
                   selected, faults, sends, answers>>

(* Mutant of FirstCall: the agent takes the router's order. *)
FirstCallSame(p) == "sending"

(* The router marks the row before it records the attempt, the agent after.*)
FirstCall(p) == IF Kind[p] = "router" THEN "sending" ELSE "record"

(* Leases are taken up in the order LeaseOutbound read them. *)
TakeNext(p) ==
    /\ pc[p] = "next"
    /\ attempt' = [attempt EXCEPT ![p] = 0]
    /\ outcome' = [outcome EXCEPT ![p] = "unknown"]
    /\ note' = [note EXCEPT ![p] = "planned"]
    /\ \/ \E i \in batch[p] :
            /\ \A j \in batch[p] : Urgency[i] <= Urgency[j]
            /\ item' = [item EXCEPT ![p] = i]
            /\ batch' = [batch EXCEPT ![p] = @ \ {i}]
            /\ pc' = [pc EXCEPT ![p] = FirstCall(p)]
       \/ /\ batch[p] = {}
          /\ item' = [item EXCEPT ![p] = NoItem]
          /\ pc' = [pc EXCEPT ![p] = "idle"]
          /\ UNCHANGED batch
    /\ UNCHANGED <<rowVars, attempts, selected, faults, history>>

(* Continue with call c, the attempt status to write being n. *)
Goto(p, c, n) ==
    /\ pc' = [pc EXCEPT ![p] = c]
    /\ note' = [note EXCEPT ![p] = n]

(* updateQueueState: no condition on the row's status or on lease_until. *)
UpdateQueueState(p, s) ==
    /\ Owns(p, item[p])
    /\ status' = [status EXCEPT ![item[p]] = s]
    /\ UNCHANGED <<route, owner, lapsed, retries, lessee>>

NotLeasedByThisWorker(p) ==
    /\ ~Owns(p, item[p])
    /\ UNCHANGED <<rowVars, lessee>>

(* Where a failed call leads: the router gives the row up, the agent first *)
(* notes the failure in the attempt.                                       *)
GiveUp(p, n) == Goto(p, IF Kind[p] = "router" THEN "next" ELSE "note", n)

MarkSending(p) ==
    /\ pc[p] = "sending"
    /\ \/ /\ UpdateQueueState(p, "sending")
          /\ Goto(p, IF Kind[p] = "router" THEN "record" ELSE "send", "planned")
       \/ /\ NotLeasedByThisWorker(p)
          /\ GiveUp(p, "dispatch_failed")
    /\ UNCHANGED <<attempts, batch, item, attempt, outcome, selected, faults,
                   granted, sends, answers>>

RecordOutboundAttempt(p) ==
    /\ pc[p] = "record"
    /\ attempts' = [attempts EXCEPT ![item[p]] = Append(@, "planned")]
    /\ attempt' = [attempt EXCEPT ![p] = Len(attempts[item[p]]) + 1]
    /\ Goto(p, IF Kind[p] = "router" THEN "send" ELSE "sending", "planned")
    /\ UNCHANGED <<rowVars, batch, item, outcome, selected, faults, history>>

(* Mutant of NoteFor: the transport's word is written as it came. *)
NoteAsAnswered(p, o) == o

(* What an outcome makes of the attempt: the agent and the router differ.  *)
NoteFor(p, o) ==
    CASE o = "sent" -> "sent_ok"
      [] o = "acked" -> "acked"
      [] o = "permanent" -> IF Kind[p] = "router" THEN "dead" ELSE "permanent_failure"
      [] o = "retry" -> "retry"
      [] OTHER -> IF Kind[p] = "router" THEN "retry" ELSE "dispatch_failed"

(* The attempt is updated before the row. *)
NotesFirst(p, o) ==
    \/ o = "permanent"
    \/ Kind[p] = "router" /\ o \in {"sent", "acked"}
    \/ Kind[p] = "host" /\ o = "unknown"

Answered(p, o) ==
    /\ outcome' = [outcome EXCEPT ![p] = o]
    /\ answers' = [answers EXCEPT ![item[p]] = @ \cup {o}]
    /\ Goto(p, IF NotesFirst(p, o) THEN "note" ELSE "settle", NoteFor(p, o))

Send(p, o) ==
    /\ pc[p] = "send"
    /\ Answered(p, o)
    /\ sends' = [sends EXCEPT ![item[p]] = @ + 1]
    /\ UNCHANGED <<rowVars, attempts, batch, item, attempt, selected, faults,
                   granted, lessee>>

(* The agent's envelope does not encode: dead-lettered without a send. *)
EncodeFails(p) ==
    /\ pc[p] = "send" /\ Kind[p] = "host"
    /\ Answered(p, "permanent")
    /\ UNCHANGED <<rowVars, attempts, batch, item, attempt, selected, faults,
                   granted, lessee, sends>>

(* RetryOutbound: dead keeps the lease columns, queued clears them. *)
Retryable(p, i) == Owns(p, i) /\ status[i] \in InFlight

RetryToDead(p, i) ==
    /\ Retryable(p, i) /\ Exhausted(i)
    /\ status' = [status EXCEPT ![i] = "dead"]
    /\ retries' = [retries EXCEPT ![i] = @ + 1]
    /\ UNCHANGED <<route, owner, lapsed, lessee>>

RetryToQueued(p, i) ==
    /\ Retryable(p, i) /\ ~Exhausted(i)
    /\ status' = [status EXCEPT ![i] = "queued"]
    /\ retries' = [retries EXCEPT ![i] = @ + 1]
    /\ owner' = [owner EXCEPT ![i] = NoOwner]
    /\ lessee' = [lessee EXCEPT ![i] = NoProc]
    /\ lapsed' = lapsed \ {i}
    /\ UNCHANGED route

RetryOutbound(p) ==
    \/ RetryToDead(p, item[p]) /\ Goto(p, "note", "dead")
    \/ RetryToQueued(p, item[p]) /\ Goto(p, "note", "retry")
    \/ /\ ~Retryable(p, item[p])
       /\ UNCHANGED <<rowVars, lessee>>
       /\ GiveUp(p, "dispatch_failed")

(* Mutant of SettledStatus: a handoff is taken for an acknowledgement. *)
SettledAsAcked(p) == IF outcome[p] = "permanent" THEN "dead" ELSE "acked"

(* The row update an outcome asks for; the agent marks sent_ok before acked.*)
SettledStatus(p) ==
    CASE outcome[p] = "permanent" -> "dead"
      [] outcome[p] = "acked" /\ Kind[p] = "router" -> "acked"
      [] OTHER -> "sent_ok"

AfterSettled(p) ==
    CASE NotesFirst(p, outcome[p]) -> "next"
      [] outcome[p] = "acked" /\ Kind[p] = "host" -> "ack"
      [] OTHER -> "note"

MarkSettled(p) ==
    \/ /\ UpdateQueueState(p, SettledStatus(p))
       /\ Goto(p, AfterSettled(p), note[p])
    \/ /\ NotLeasedByThisWorker(p)
       /\ IF NotesFirst(p, outcome[p]) THEN Goto(p, "next", note[p])
                                       ELSE Goto(p, "note", "dispatch_failed")

Settle(p) ==
    /\ pc[p] = "settle"
    /\ IF outcome[p] \in {"retry", "unknown"} THEN RetryOutbound(p) ELSE MarkSettled(p)
    /\ UNCHANGED <<attempts, batch, item, attempt, outcome, selected, faults,
                   granted, sends, answers>>

AckOutbound(p) ==
    /\ pc[p] = "ack"
    /\ \/ UpdateQueueState(p, "acked") /\ Goto(p, "note", note[p])
       \/ NotLeasedByThisWorker(p) /\ Goto(p, "note", "ack_update_failed")
    /\ UNCHANGED <<attempts, batch, item, attempt, outcome, selected, faults,
                   granted, sends, answers>>

(* After the attempt is updated, the row is still to be settled when the   *)
(* outcome is noted first and is not the agent's unknown status.           *)
AfterNote(p) ==
    IF note[p] # "dispatch_failed" /\ NotesFirst(p, outcome[p])
    THEN "settle" ELSE "next"

UpdateOutboundAttempt(p) ==
    /\ pc[p] = "note"
    /\ attempts' = [attempts EXCEPT ![item[p]][attempt[p]] = note[p]]
    /\ Goto(p, AfterNote(p), note[p])
    /\ UNCHANGED <<rowVars, batch, item, attempt, outcome, selected, faults, history>>

-----------------------------------------------------------------------------
(* Faults.                                                                 *)

(* A database call returns an error and changes nothing: the pass ends, or *)
(* the row is given up as its error branch says.  The agent ignores an     *)
(* error of UpdateOutboundAttempt.                                         *)
AfterError(p) ==
    CASE pc[p] \in {"requeue", "lease"} -> "idle"
      [] pc[p] = "note" -> IF Kind[p] = "host" THEN AfterNote(p) ELSE "next"
      [] pc[p] = "record" -> "next"
      [] NotesFirst(p, outcome[p]) /\ pc[p] = "settle" -> "next"
      [] OTHER -> IF Kind[p] = "router" THEN "next" ELSE "note"

DbError(p) ==
    /\ pc[p] \notin {"idle", "next", "send"}
    /\ faults < MaxFaults
    /\ faults' = faults + 1
    /\ Goto(p, AfterError(p), IF AfterError(p) # "note" THEN note[p]
                              ELSE IF pc[p] = "ack" THEN "ack_update_failed"
                              ELSE "dispatch_failed")
    /\ UNCHANGED <<rowVars, attempts, batch, item, attempt, outcome, selected, history>>

(* The process dies between two calls; the table is what it was. *)
Crash(p) ==
    /\ pc[p] # "idle"
    /\ faults < MaxFaults
    /\ faults' = faults + 1
    /\ pc' = [pc EXCEPT ![p] = "idle"]
    /\ batch' = [batch EXCEPT ![p] = {}]
    /\ item' = [item EXCEPT ![p] = NoItem]
    /\ attempt' = [attempt EXCEPT ![p] = 0]
    /\ outcome' = [outcome EXCEPT ![p] = "unknown"]
    /\ note' = [note EXCEPT ![p] = "planned"]
    /\ UNCHANGED <<rowVars, attempts, selected, history>>

-----------------------------------------------------------------------------
PassStep(p) ==
    \/ RecoverDead(p)
    \/ RecoverRequeue(p)
    \/ \E S \in SUBSET Items : LeaseOutbound(p, S)

DispatchStep(p) ==
    \/ TakeNext(p)
    \/ MarkSending(p)
    \/ RecordOutboundAttempt(p)
    \/ \E o \in Outcome : Send(p, o)
    \/ EncodeFails(p)
    \/ Settle(p)
    \/ AckOutbound(p)
    \/ UpdateOutboundAttempt(p)

RowStep(i) ==
    \/ \E rs \in RouteStatus : EnqueueOutbound(i, rs)
    \/ Compact(i)
    \/ LeaseRunsOut(i)
    \/ \E r \in Planners : SelectForReplan(r, i)

Next ==
    \/ \E p \in Procs : PassStep(p) \/ DispatchStep(p) \/ DbError(p) \/ Crash(p)
    \/ \E i \in Items : RowStep(i)
    \/ \E r \in Planners, rs \in RouteStatus : UpdateQueueRoutePlan(r, rs)

Spec == Init /\ [][Next]_vars

(* Passes keep being run (each command runs one), calls return, time moves.*)
Fairness ==
    /\ \A p \in Procs : WF_vars(PassStep(p)) /\ WF_vars(DispatchStep(p))
    /\ \A i \in Items : WF_vars(LeaseRunsOut(i))

FairSpec == Spec /\ Fairness

-----------------------------------------------------------------------------
(* Properties.                                                             *)

TypeOK ==
    /\ status \in [Items -> Status]
    /\ route \in [Items -> RouteStatus]
    /\ owner \in [Items -> {WorkerID[p] : p \in Procs} \cup {NoOwner}]
    /\ lapsed \subseteq Items
    /\ retries \in [Items -> Nat]
    /\ attempts \in [Items -> Seq(AttemptStatus)]
    /\ pc \in [Procs -> Call]
    /\ batch \in [Procs -> SUBSET Items]
    /\ item \in [Procs -> Items \cup {NoItem}]
    /\ attempt \in [Procs -> Nat]
    /\ outcome \in [Procs -> Outcome]
    /\ note \in [Procs -> AttemptStatus]
    /\ selected \in [Planners -> Items \cup {NoItem}]
    /\ faults \in 0 .. MaxFaults
    /\ granted \in [Items -> Nat]
    /\ lessee \in [Items -> Procs \cup {NoProc}]
    /\ sends \in [Items -> Nat]
    /\ answers \in [Items -> SUBSET Outcome]

(* maxRetryCount bounds the radio traffic of a row: however leases lapse,  *)
(* workers return late and processes crash, it is handed out at most       *)
(* MaxRetry times, and sent at most once per lease (recover and retry      *)
(* count on retry_count, never on the lease).                              *)
SendBudget == \A i \in Items : sends[i] <= granted[i] /\ granted[i] <= MaxRetry

(* A row's terminal or sent status is backed by an answer of the transport:*)
(* acked only after an acknowledgement, sent_ok only after a handoff, dead *)
(* only after a permanent failure or with the retry budget used up.        *)
StatusEarned ==
    \A i \in Items :
        /\ status[i] = "acked" => "acked" \in answers[i]
        /\ status[i] = "sent_ok" => answers[i] \cap {"sent", "acked"} # {}
        /\ status[i] = "dead" => "permanent" \in answers[i] \/ retries[i] + 1 >= MaxRetry

(* A row whose route is pending or blocked is never leased, sent or acked, *)
(* although the replanner updates routes from a stale read.                *)
OnlyReadyLeaves ==
    \A i \in Items : status[i] \notin {"absent", "queued"} => route[i] = "ready_to_send"

(* Every transmission has an outbox_attempt row that was there before it.  *)
SendsRecorded == \A i \in Items : sends[i] <= Len(attempts[i])

RowChanged(i) == status[i]' # status[i] \/ owner[i]' # owner[i] \/ retries[i]' # retries[i]

(* lease_owner is a fence: when a process marks, acks, retries or buries a *)
(* row it is the one the current lease was granted to, never an earlier    *)
(* lessee that comes back after recovery gave the row away.                *)
NoStaleWrite ==
    [][\A p \in Procs, i \in Items :
         pc[p] \in {"sending", "settle", "ack"} /\ pc[p]' # pc[p] /\ RowChanged(i)
            => lessee[i] = p]_vars

(* A dead row leaves the table or stays dead: the queue state machine of   *)
(* the storage document has no way out of dead.                            *)
DeadIsFinal ==
    [][\A i \in Items : status[i] = "dead" => status[i]' \in {"dead", "absent"}]_vars

Settled(i) == status[i] \in {"acked", "dead", "absent"}

(* A row that has a route or is in flight is settled in the end, though    *)
(* nobody acknowledges a sent_ok row later: it lapses and is sent again    *)
(* until its budget ends.  Rows a late worker brings back from dead too.   *)
EventuallySettled ==
    \A i \in Items : (Ready(i) \/ status[i] \in InFlight) ~> Settled(i)

-----------------------------------------------------------------------------
(* The promise of QueueRow, for each row.                                  *)

Phase(i) ==
    CASE status[i] = "absent" -> "none"
      [] status[i] = "queued" -> "waiting"
      [] status[i] \in {"leased", "sending"} -> "held"
      [] status[i] = "sent_ok" -> "sent"
      [] OTHER -> status[i]

Row(i) == INSTANCE QueueRow WITH
    Workers <- Procs, NoOne <- NoProc, Rounds <- MaxRetry, phase <- Phase(i),
    holder <- lessee[i], round <- granted[i], sent <- sends[i], heard <- answers[i]

(* The outbox implements QueueRow for every row, although many processes   *)
(* and several statements stand behind one step of the promise.            *)
KeepsPromise ==
    /\ \A i \in Items : Row(i)!Init
    /\ [][\A i \in Items : Row(i)!Next \/ UNCHANGED Row(i)!vars]_vars
=============================================================================
