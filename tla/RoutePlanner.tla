---------------------------- MODULE RoutePlanner ----------------------------
(***************************************************************************)
(* The device registry (node_manifest, node_lease), the route plans of     *)
(* outbox rows and the calls that make them: EnqueueOutbound,              *)
(* IssueCommand and ReplanQueuedRoutes of internal/siterouter.             *)
(*                                                                         *)
(* IssueCommand plans inside its transaction.  The others read the         *)
(* registry before it, one query per table and node, so devices can be     *)
(* registered anew between any two of the reads and before the plan is     *)
(* written.  Any of the reads and the write may fail.                      *)
(***************************************************************************)
EXTENDS RoutePlan, Sequences, FiniteSets, SequencesExt

CONSTANTS Nodes,
          Manifests,  \* manifests each node may report: sleepy, roles, bearers
          Leases,     \* leases each may be given: role, bearer, fallback, short
          Envelopes,  \* the envelope of each queue_key
          Callers,    \* processes that enqueue
          Planners,   \* processes that replan
          Limit,      \* rows a replan takes up
          MaxRows,    \* bound: rows of the outbox when a call begins
          MaxChanges, \* bound: changes of the registry
          MaxFaults,  \* bound: reads and writes that fail
          MaxCalls,   \* bound: calls under way at a time
          NoRow

Requests == DOMAIN Envelopes

ASSUME RoutePlannerAssumption ==
    /\ Nobody \notin Nodes
    /\ \A n \in Nodes : NoManifest \notin Manifests[n] /\ NoLease \notin Leases[n]
    /\ \A q \in Requests : {Envelopes[q].target, Envelopes[q].relay} \subseteq Nodes \cup {Nobody}
    /\ \A n \in Nodes : \A l \in Leases[n] : l.short \in ShortIDs \cup {0}   \* others are refused
    /\ Callers \cap Planners = {}
    /\ Limit \in Nat \ {0} /\ {MaxRows, MaxChanges, MaxFaults, MaxCalls} \subseteq Nat

VARIABLES
    manifests,  \* node_manifest
    leases,     \* node_lease
    rows,       \* the queued rows of outbox_queue: route_status and plan
    order,      \* their queue_keys in the order of updated_at, created_at
    calls,      \* what each process is doing
    changes,    \* changes of the registry so far
    faults      \* reads and writes that failed so far

registry == <<manifests, leases>>
outbox == <<rows, order>>
vars == <<registry, outbox, calls, changes, faults>>

Unread == [manifest |-> NoManifest, lease |-> NoLease]
Idle ==
    [batch |-> <<>>, reads |-> <<>>, failed |-> FALSE, target |-> Unread, via |-> Unread]

Init ==
    /\ manifests = [n \in Nodes |-> NoManifest]
    /\ leases = [n \in Nodes |-> NoLease]
    /\ rows = [q \in Requests |-> NoRow]
    /\ order = <<>>
    /\ calls = [p \in Callers \cup Planners |-> Idle]
    /\ changes = 0
    /\ faults = 0

-----------------------------------------------------------------------------
(* The registry.                                                           *)

(* Mutant of Taken: the conflict is looked for on the node itself.         *)
TakenHere(n, short) == short # 0 /\ leases[n] # NoLease /\ leases[n].short = short

(* idx_node_lease_fabric_short_id *)
Taken(n, short) ==
    short # 0 /\ \E k \in Nodes \ {n} : leases[k] # NoLease /\ leases[k].short = short

Change ==
    /\ changes < MaxChanges
    /\ changes' = changes + 1
    /\ UNCHANGED <<outbox, calls, faults>>

(* UpsertManifest; a lease there is is not looked at. *)
UpsertManifest(n, m) ==
    /\ Change
    /\ manifests' = [manifests EXCEPT ![n] = m]
    /\ UNCHANGED leases

UpsertLease(n, l) ==
    /\ Change
    /\ Fits(l, manifests[n]) /\ ~Taken(n, l.short)
    /\ leases' = [leases EXCEPT ![n] = l]
    /\ UNCHANGED manifests

(* RegisterDevice with a lease; one transaction, both or neither. *)
RegisterDevice(n, m, l) ==
    /\ Change
    /\ Fits(l, m) /\ ~Taken(n, l.short)
    /\ manifests' = [manifests EXCEPT ![n] = m]
    /\ leases' = [leases EXCEPT ![n] = l]

-----------------------------------------------------------------------------
(* Planning calls.                                                         *)

(* The queries a plan needs: manifest and lease of the target, then of the *)
(* relay.                                                                  *)
Queries(q) ==
    LET of(who) == <<<<who, "manifest">>, <<who, "lease">>>>
    IN  CASE Envelopes[q].target = Nobody -> <<>>
          [] Envelopes[q].target # Nobody /\ ~Relayed(Envelopes[q]) -> of("target")
          [] OTHER -> of("target") \o of("via")

Start(p, batch) ==
    calls' = [calls EXCEPT ![p] =
        IF batch = <<>> THEN Idle ELSE [Idle EXCEPT !.batch = batch, !.reads = Queries(batch[1])]]

Underway == Cardinality({p \in DOMAIN calls : calls[p].batch # <<>>})

(* runtimeInfoForNode, one query of it. *)
Read(p) ==
    LET me == calls[p]
        who == Head(me.reads)[1]
        what == Head(me.reads)[2]
        envelope == Envelopes[Head(me.batch)]
        n == IF who = "target" THEN envelope.target ELSE envelope.relay
        found == IF what = "manifest" THEN manifests[n] ELSE leases[n]
    IN  /\ me.reads # <<>>
        /\ calls' = [calls EXCEPT ![p] =
              [[me EXCEPT !.reads = Tail(@)] EXCEPT ![who][what] = found]]
        /\ UNCHANGED <<registry, outbox, changes, faults>>

Fault ==
    /\ faults < MaxFaults
    /\ faults' = faults + 1

(* The query fails: an error in place of a plan, and of what was read. *)
ReadFails(p) ==
    /\ Fault
    /\ calls[p].reads # <<>>
    /\ calls' = [calls EXCEPT ![p] = [Idle EXCEPT !.batch = calls[p].batch, !.failed = TRUE]]
    /\ UNCHANGED <<registry, outbox, changes>>

(* The row is not written: an error ends the call, with the rest of its    *)
(* batch.                                                                  *)
WriteFails(p) ==
    /\ Fault
    /\ calls[p].batch # <<>> /\ calls[p].reads = <<>>
    /\ calls' = [calls EXCEPT ![p] = Idle]
    /\ UNCHANGED <<registry, outbox, changes>>

Drawn(me) ==
    IF me.failed THEN Failure ELSE PlanRoute(Envelopes[Head(me.batch)], me.target, me.via)

InfoOf(n) ==
    IF n \in Nodes THEN [manifest |-> manifests[n], lease |-> leases[n]] ELSE Unread

(* The plan that the registry of this moment asks for. *)
PlanNow(q) == PlanRoute(Envelopes[q], InfoOf(Envelopes[q].target), InfoOf(Envelopes[q].relay))

Row(plan) == [status |-> StatusOf(plan), plan |-> plan]

(* enqueueOutboundTx: a row of the same queue_key stays as it is. *)
Insert(q, plan) ==
    IF rows[q] = NoRow
    THEN /\ rows' = [rows EXCEPT ![q] = Row(plan)]
         /\ order' = Append(order, q)
    ELSE UNCHANGED outbox

EnqueueOutbound(p, q) ==
    /\ p \in Callers /\ calls[p] = Idle
    /\ rows[q] # NoRow \/ Len(order) < MaxRows
    /\ Underway < MaxCalls
    /\ Start(p, <<q>>)
    /\ UNCHANGED <<registry, outbox, changes, faults>>

FinishEnqueue(p) ==
    LET me == calls[p]
    IN  /\ p \in Callers /\ me.batch # <<>> /\ me.reads = <<>>
        /\ IF Drawn(me) = Failure THEN UNCHANGED outbox ELSE Insert(Head(me.batch), Drawn(me))
        /\ calls' = [calls EXCEPT ![p] = Idle]
        /\ UNCHANGED <<registry, changes, faults>>

(* A command that is known already is answered from the ledger, and one    *)
(* whose route is not ready is refused.                                    *)
IssueCommand(q) ==
    /\ Envelopes[q].kind = "command" /\ rows[q] = NoRow /\ Len(order) < MaxRows
    /\ StatusOf(PlanNow(q)) = "ready_to_send"
    /\ Insert(q, PlanNow(q))
    /\ UNCHANGED <<registry, calls, changes, faults>>

Waiting(q) == rows[q] # NoRow /\ rows[q].status \in {"route_pending", "route_blocked"}

(* ReplanQueuedRoutes: the rows longest unchanged, *)
Selected ==
    FoldLeft(LAMBDA batch, q : IF Waiting(q) /\ Len(batch) < Limit THEN Append(batch, q) ELSE batch,
             <<>>, order)

Select(p) ==
    /\ p \in Planners /\ calls[p] = Idle
    /\ \E q \in Requests : Waiting(q)
    /\ Underway < MaxCalls
    /\ Start(p, Selected)
    /\ UNCHANGED <<registry, outbox, changes, faults>>

(* Mutant of Touched: a row that stays blocked keeps its updated_at. *)
Untouched(q) == order

Touched(q) == Append(RemoveFirst(order, q), q)

(* Mutant of Update: that the row was waiting when it was selected is      *)
(* enough.                                                                 *)
UpdateSelected(p) ==
    LET me == calls[p]
        q == Head(me.batch)
    IN  /\ p \in Planners /\ me.batch # <<>> /\ me.reads = <<>>
        /\ rows' = [rows EXCEPT ![q] = Row(Drawn(me))]
        /\ order' = Touched(q)
        /\ Start(p, Tail(me.batch))
        /\ UNCHANGED <<registry, changes, faults>>

(* and updateQueueRoutePlan for each, unless it is ready by now. *)
Update(p) ==
    LET me == calls[p]
        q == Head(me.batch)
    IN  /\ p \in Planners /\ me.batch # <<>> /\ me.reads = <<>>
        /\ Start(p, Tail(me.batch))
        /\ IF Waiting(q)
           THEN /\ rows' = [rows EXCEPT ![q] = Row(Drawn(me))]
                /\ order' = Touched(q)
           ELSE UNCHANGED outbox
        /\ UNCHANGED <<registry, changes, faults>>

Plans(p) == Select(p) \/ Read(p) \/ Update(p)

Next ==
    \/ \E n \in Nodes : \E m \in Manifests[n] :
          UpsertManifest(n, m) \/ \E l \in Leases[n] : RegisterDevice(n, m, l)
    \/ \E n \in Nodes : \E l \in Leases[n] : UpsertLease(n, l)
    \/ \E q \in Requests : IssueCommand(q) \/ \E p \in Callers : EnqueueOutbound(p, q)
    \/ \E p \in Callers : Read(p) \/ FinishEnqueue(p)
    \/ \E p \in Planners : Plans(p)
    \/ \E p \in Callers \cup Planners : ReadFails(p) \/ WriteFails(p)

Spec == Init /\ [][Next]_vars

(* Replanning is run again and again; nothing else has to happen. *)
FairSpec == Spec /\ WF_vars(\E p \in Planners : Plans(p))

-----------------------------------------------------------------------------
(* Properties.                                                             *)

Reported == (UNION {Manifests[n] : n \in Nodes}) \cup {NoManifest}
Granted == (UNION {Leases[n] : n \in Nodes}) \cup {NoLease}
Info == [manifest : Reported, lease : Granted]

(* Rows and their order speak of the same queue_keys, and no short id is   *)
(* held twice.                                                             *)
TypeOK ==
    /\ manifests \in [Nodes -> Reported]
    /\ leases \in [Nodes -> Granted]
    /\ \A n, k \in Nodes :
          /\ n # k /\ leases[n] # NoLease /\ leases[k] # NoLease
          /\ leases[n].short # 0
          => leases[n].short # leases[k].short
    /\ ToSet(order) = {q \in Requests : rows[q] # NoRow}
    /\ Cardinality(ToSet(order)) = Len(order)
    /\ \A q \in ToSet(order) : rows[q].status = StatusOf(rows[q].plan)
    /\ \A p \in Callers \cup Planners : calls[p].target \in Info /\ calls[p].via \in Info
    /\ changes \in 0 .. MaxChanges /\ faults \in 0 .. MaxFaults

(* What a plan that may be sent has to be, whatever path of the planner    *)
(* made it, given the registry entries of the target and the relay it was  *)
(* made from.                                                              *)
Permitted(q, plan, info, via) ==
    LET class == RouteClasses[q.class]
        over == IF Relayed(q) THEN via ELSE info
        relayed == plan.bearer \in RelayBearers
        bytes == IF q.class = "sleepy_tiny_control" THEN 5 ELSE BodyBytes(q)
        wire == bytes + Overhead(plan.bearer)
    IN
    IF q.target = Nobody THEN plan.bearer = "host_local"
    ELSE IF q.class = Unclassed
         THEN plan.bearer \notin LoRaBearers /\ Supports(info, Medium(plan.bearer))
         ELSE
           /\ q.class \in Classes
           /\ over.lease # NoLease /\ Fits(over.lease, over.manifest)
           /\ Supports(over, Medium(plan.bearer))
           /\ class.roles # {} => over.lease.role \in class.roles
           /\ plan.bearer \notin class.forbidden
           /\ \/ plan.bearer \in class.allowed
              \/ /\ relayed /\ class.allowed \cap LoRaBearers # {}
                 /\ q.allow = "yes" \/ class.relay
           /\ plan.bearer \in LoRaBearers => bytes > 0 /\ wire <= TotalPayloadCap
           /\ plan.bearer \in LoRaBearers /\ class.body # 0 => bytes <= class.body
           /\ relayed => /\ plan.next = over.lease.short /\ plan.next # 0
                         /\ plan.final \in ShortIDs
                         /\ q.allow # "no" /\ q.hopLimit # 0

Readied(q) ==
    rows'[q] # NoRow /\ rows'[q].status = "ready_to_send"
    /\ (rows[q] = NoRow \/ rows[q].status # "ready_to_send")

(* A row is made ready to send only by a plan that the route class, the    *)
(* radio profile, the lease and the manifest allow, as the call that makes *)
(* it read them - also where the registry holds a lease that goes beyond   *)
(* a manifest reported since.                                              *)
PermittedOnly ==
    [][\A q \in Requests :
         LET e == Envelopes[q]
             permits(info, via) == Permitted(e, rows'[q].plan, info, via)
         IN
         Readied(q) =>
             \/ permits(InfoOf(e.target), InfoOf(e.relay))
             \/ \E p \in Callers \cup Planners :
                   /\ calls[p].batch # <<>> /\ Head(calls[p].batch) = q
                   /\ permits(calls[p].target, calls[p].via)]_vars

(* A plan that a worker may be sending by is not replaced: replans that    *)
(* took the row up while it waited, and a second enqueue of its key, leave *)
(* it as it is.                                                            *)
ReadyStays ==
    [][\A q \in Requests :
         rows[q] # NoRow /\ rows[q].status = "ready_to_send" => rows'[q] = rows[q]]_vars

(* When devices are no longer registered anew, every row that waits comes  *)
(* to have the route status the registry asks for: no row is passed over   *)
(* for ever by a replan that takes up only the first few.                  *)
RoutesCatchUp ==
    <>[](\A q \in Requests : Waiting(q) => rows[q].status = StatusOf(PlanNow(q)))

(* Said by the design: sleepy_leaf MUST NOT relay.  No plan that may be    *)
(* sent has a sleeping leaf as its next hop.                               *)
SleepyNeverRelays ==
    [][\A q \in Requests :
         Readied(q) /\ rows'[q].plan.next # 0 =>
             \A n \in Nodes : leases[n] # NoLease /\ leases[n].short = rows'[q].plan.next
                                 => leases[n].role # "sleepy_leaf"]_vars
=============================================================================
