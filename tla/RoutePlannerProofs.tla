------------------------- MODULE RoutePlannerProofs -------------------------
(* Theorems about the route planner, for every registry, request and set   *)
(* of processes.                                                           *)
EXTENDS RoutePlanner, SequenceFacts, FiniteSetTheorems

-----------------------------------------------------------------------------
(* A plan that is ready is permitted: the paths of the planner one by one, *)
(* then PlanRoute.                                                         *)

LEMMA LabelMedium ==
    ASSUME NEW l, l # NoLease, l.bearer # ""
    PROVE  Medium(Label(l)) = Medium(l.bearer)
  BY DEF Label, Medium, LoRaBearers, WiFiBearers

(* A lease that names a bearer and fits its manifest names a bearer of it. *)
LEMMA LabelSupported ==
    ASSUME NEW info, Consistent(info), Label(info.lease) # "unplanned"
    PROVE  /\ info.lease # NoLease /\ Fits(info.lease, info.manifest)
           /\ Supports(info, Medium(Label(info.lease)))
<1>1. info.lease # NoLease /\ info.lease.bearer # ""
  BY DEF Label
<1>2. Fits(info.lease, info.manifest)
  BY <1>1 DEF Consistent, Fits
<1>3. Medium(Label(info.lease)) = Medium(info.lease.bearer)
  BY <1>1, LabelMedium
<1>4. Supports(info, Medium(info.lease.bearer))
  BY <1>1, <1>2 DEF Supports, Fits
<1> QED BY <1>1, <1>2, <1>3, <1>4

LEMMA LoRaFitsTheFrame ==
    ASSUME NEW q, NEW bearer, LoRaFits(q, bearer)
    PROVE  /\ BodyBytes(q) > 0
           /\ BodyBytes(q) + Overhead(bearer) <= TotalPayloadCap
           /\ RouteClasses[q.class].body # 0 => BodyBytes(q) <= RouteClasses[q.class].body
<1>1. /\ BodyBytes(q) \in 1 .. TotalPayloadCap - Overhead(bearer)
      /\ RouteClasses[q.class].body # 0 => BodyBytes(q) <= RouteClasses[q.class].body
  BY Zenon DEF LoRaFits, BodyCap
<1>2. Overhead(bearer) \in Nat /\ TotalPayloadCap \in Nat
  BY DEF Overhead, TotalPayloadCap, DirectUplinkOverheadBytes, RelayedUplinkOverheadBytes
<1> QED BY <1>1, <1>2

LEMMA HopsLeftMeans ==
    ASSUME NEW q, NEW bearer \in RelayBearers, HopsLeft(q, bearer)
    PROVE  RelayAllowed(q) /\ q.allow # "no" /\ q.hopLimit # 0
<1>1. 0 # Unset
  BY UnsetAssumption
<1>2. RelayAllowed(q) /\ (HopLimit(q) # Unset => HopLimit(q) # 0)
  BY Zenon DEF HopsLeft
<1>3. q.hopLimit = 0 => HopLimit(q) = 0
  BY <1>1 DEF HopLimit
<1>4. q.allow # "no"
  BY <1>2 DEF RelayAllowed
<1> QED BY <1>1, <1>2, <1>3, <1>4

LEMMA AllowedMeans ==
    ASSUME NEW q, NEW bearer, Allowed(q, bearer)
    PROVE  \/ bearer \in RouteClasses[q.class].allowed
           \/ /\ bearer \in RelayBearers /\ RouteClasses[q.class].allowed \cap LoRaBearers # {}
              /\ q.allow = "yes" \/ RouteClasses[q.class].relay
<1>1. PICK c \in RouteClasses[q.class].allowed :
         bearer = c \/ (RelayAllowed(q) /\ bearer \in RelayBearers /\ Medium(c) = "lora")
  BY DEF Allowed
<1>2. Medium(c) = "lora" => c \in LoRaBearers
  BY DEF Medium, WiFiBearers, LoRaBearers
<1>3. RelayAllowed(q) => q.allow = "yes" \/ RouteClasses[q.class].relay
  BY DEF RelayAllowed
<1> QED BY <1>1, <1>2, <1>3

LEMMA PolicyFitsMeans ==
    ASSUME NEW q, NEW lease, NEW end, PolicyFits(q, lease, end)
    PROVE  /\ RouteClasses[q.class].roles # {} => RoleOf(lease) \in RouteClasses[q.class].roles
           /\ ~Forbidden(q, Label(lease)) /\ Allowed(q, Label(lease))
  BY DEF PolicyFits

LEMMA PolicyFitsLoRa ==
    ASSUME NEW q, NEW lease, NEW end, PolicyFits(q, lease, end), Label(lease) \in LoRaBearers
    PROVE  LoRaFits(q, Label(lease))
  BY DEF PolicyFits

LEMMA PolicyFitsRelay ==
    ASSUME NEW q, NEW lease, NEW end, PolicyFits(q, lease, end), Label(lease) \in RelayBearers
    PROVE  /\ HopsLeft(q, Label(lease))
           /\ lease.short # 0 /\ end \in ShortIDs
  BY DEF PolicyFits

(* The policy path, over the lease of the relay or of the target.          *)
LEMMA PolicyPermitted ==
    ASSUME NEW q, NEW info, NEW via, NEW final,
           q.target # Nobody, q.class \in Classes, q.class # "sleepy_tiny_control",
           NEW over, over = IF Relayed(q) THEN via ELSE info,
           Consistent(over),
           StatusOf(PolicyPlan(q, over.lease, final)) = "ready_to_send"
    PROVE  Permitted(q, PolicyPlan(q, over.lease, final), info, via)
<1> DEFINE plan == PolicyPlan(q, over.lease, final)
           class == RouteClasses[q.class]
           bearer == Label(over.lease)
           end == IF final # 0 THEN final ELSE q.finalShort
<1>1. /\ bearer # "unplanned" /\ PolicyFits(q, over.lease, end)
      /\ plan.bearer = bearer
  BY DEF PolicyPlan, StatusOf, Plan
<1>2. ASSUME bearer \in RelayBearers
      PROVE  plan.next = over.lease.short /\ plan.final = end
  BY <1>1, <1>2 DEF PolicyPlan
<1> HIDE DEF plan, end
<1>3. /\ over.lease # NoLease /\ Fits(over.lease, over.manifest)
      /\ Supports(over, Medium(bearer))
  BY <1>1, LabelSupported
<1>4. class.roles # {} => over.lease.role \in class.roles
  BY <1>1, <1>3, PolicyFitsMeans DEF RoleOf
<1>5. bearer \notin class.forbidden
  BY <1>1, PolicyFitsMeans DEF Forbidden
<1>6. \/ bearer \in class.allowed
      \/ /\ bearer \in RelayBearers /\ class.allowed \cap LoRaBearers # {}
         /\ q.allow = "yes" \/ class.relay
  BY <1>1, PolicyFitsMeans, AllowedMeans
<1>7. ASSUME bearer \in LoRaBearers
      PROVE  /\ BodyBytes(q) > 0
             /\ BodyBytes(q) + Overhead(bearer) <= TotalPayloadCap
             /\ class.body # 0 => BodyBytes(q) <= class.body
  BY <1>1, <1>7, PolicyFitsLoRa, LoRaFitsTheFrame
<1>8. ASSUME bearer \in RelayBearers
      PROVE  /\ plan.next = over.lease.short /\ plan.next # 0
             /\ plan.final \in ShortIDs
             /\ q.allow # "no" /\ q.hopLimit # 0
  BY <1>1, <1>2, <1>8, PolicyFitsRelay, HopsLeftMeans
<1>9. q.class # Unclassed
  BY DEF Classes, RouteClasses, Unclassed
<1> HIDE DEF class, bearer
<1> QED BY <1>1, <1>3, <1>4, <1>5, <1>6, <1>7, <1>8, <1>9 DEF Permitted, plan, class

LEMMA TinyPermitted ==
    ASSUME NEW q, NEW info, NEW via,
           q.target # Nobody, q.class = "sleepy_tiny_control", Consistent(info),
           StatusOf(TinyPlan(q, info)) = "ready_to_send"
    PROVE  Permitted(q, TinyPlan(q, info), info, via)
<1>1. /\ Supports(info, "lora") /\ info.lease # NoLease /\ info.lease.role = "sleepy_leaf"
      /\ TinyPlan(q, info).bearer = "lora_direct"
  BY DEF TinyPlan, StatusOf, Plan, Failure
<1>2. Fits(info.lease, info.manifest)
  BY <1>1 DEF Consistent, Fits
<1>3. ~Relayed(q) /\ q.class # Unclassed /\ q.class \in Classes
  BY DEF Relayed, Unclassed, Classes, RouteClasses
<1>4. /\ RouteClasses[q.class].roles = {"sleepy_leaf"} /\ RouteClasses[q.class].forbidden = {}
      /\ RouteClasses[q.class].allowed = {"lora_direct"} /\ RouteClasses[q.class].body = 16
  BY DEF RouteClasses, Class
<1>5. Medium("lora_direct") = "lora" /\ "lora_direct" \notin RelayBearers
  BY DEF Medium, LoRaBearers, RelayBearers
<1>6. 5 + Overhead("lora_direct") <= TotalPayloadCap
  BY <1>5 DEF Overhead, TotalPayloadCap, DirectUplinkOverheadBytes
<1> QED BY <1>1, <1>2, <1>3, <1>4, <1>5, <1>6 DEF Permitted

LEMMA MaintenancePermitted ==
    ASSUME NEW q, NEW info, NEW via,
           q.target # Nobody, q.class = "maintenance_sync", Consistent(info),
           StatusOf(MaintenancePlan(info)) = "ready_to_send"
    PROVE  Permitted(q, MaintenancePlan(info), info, via)
<1>1. /\ Supports(info, "ble_maintenance") /\ RoleOf(info.lease) = "sleepy_leaf"
      /\ MaintenancePlan(info).bearer = "ble_maintenance"
  BY DEF MaintenancePlan, StatusOf, Plan, Failure
<1>2. info.lease # NoLease /\ info.lease.role = "sleepy_leaf"
  BY <1>1 DEF RoleOf
<1>3. Fits(info.lease, info.manifest)
  BY <1>2 DEF Consistent, Fits
<1>4. ~Relayed(q) /\ q.class # Unclassed /\ q.class \in Classes
  BY DEF Relayed, Unclassed, Classes, RouteClasses
<1>5. /\ RouteClasses[q.class].roles = {"sleepy_leaf"} /\ RouteClasses[q.class].forbidden = {}
      /\ RouteClasses[q.class].allowed = {"ble_maintenance"}
  BY DEF RouteClasses, Class
<1>6. /\ Medium("ble_maintenance") = "ble_maintenance"
      /\ "ble_maintenance" \notin RelayBearers /\ "ble_maintenance" \notin LoRaBearers
  BY DEF Medium, LoRaBearers, WiFiBearers, RelayBearers
<1> QED BY <1>1, <1>2, <1>3, <1>4, <1>5, <1>6 DEF Permitted

LEMMA UnclassedPermitted ==
    ASSUME NEW q, NEW info, NEW via,
           q.target # Nobody, q.class = Unclassed, Consistent(info),
           StatusOf(UnclassedPlan(info)) = "ready_to_send"
    PROVE  Permitted(q, UnclassedPlan(info), info, via)
<1>1. /\ Label(info.lease) \notin LoRaBearers /\ Label(info.lease) # "unplanned"
      /\ UnclassedPlan(info).bearer = Label(info.lease)
  BY DEF UnclassedPlan, StatusOf, Plan, Failure
<1> QED BY <1>1, LabelSupported DEF Permitted

LEMMA PlanPermitted ==
    ASSUME NEW q, NEW info, NEW via,
           StatusOf(PlanRoute(q, info, via)) = "ready_to_send"
    PROVE  Permitted(q, PlanRoute(q, info, via), info, via)
<1>1. CASE q.target = Nobody
  BY <1>1 DEF PlanRoute, Plan, Permitted
<1>2. CASE q.target # Nobody
  <2>1. StatusOf(Failure) # "ready_to_send"
    BY DEF StatusOf, Failure, Plan
  <2>2. Consistent(info) /\ q.class \in Classes \cup {Unclassed}
    BY <1>2, <2>1 DEF PlanRoute
  <2>3. CASE q.class = Unclassed
    BY <1>2, <2>2, <2>3, UnclassedPermitted DEF PlanRoute
  <2>4. CASE q.class = "sleepy_tiny_control"
    <3>1. q.class # Unclassed
      BY <2>4 DEF Unclassed
    <3> QED BY <1>2, <2>2, <2>4, <3>1, TinyPermitted DEF PlanRoute
  <2>5. CASE q.class = "maintenance_sync"
    <3>1. q.class # Unclassed
      BY <2>5 DEF Unclassed
    <3> QED BY <1>2, <2>2, <2>5, <3>1, MaintenancePermitted DEF PlanRoute
  <2>6. CASE q.class \notin {Unclassed, "sleepy_tiny_control", "maintenance_sync"}
    <3>1. CASE ~Relayed(q)
      <4>1. PlanRoute(q, info, via) = PolicyPlan(q, info.lease, 0)
        BY <1>2, <2>2, <2>6, <3>1 DEF PlanRoute
      <4> QED BY <1>2, <2>2, <2>6, <3>1, <4>1, PolicyPermitted
    <3>2. CASE Relayed(q)
      <4>1. /\ Consistent(via)
            /\ PlanRoute(q, info, via) = PolicyPlan(q, via.lease, ShortOf(info.lease))
        BY <1>2, <2>1, <2>2, <2>6, <3>2 DEF PlanRoute
      <4> QED BY <1>2, <2>2, <2>6, <3>2, <4>1, PolicyPermitted
    <3> QED BY <3>1, <3>2
  <2> QED BY <2>2, <2>3, <2>4, <2>5, <2>6
<1> QED BY <1>1, <1>2

-----------------------------------------------------------------------------
(* The rows.                                                               *)

RowsKept == DOMAIN rows = Requests

LEMMA KeepsRows == Spec => []RowsKept
<1>1. Init => RowsKept
  BY DEF Init, RowsKept
<1>2. RowsKept /\ [Next]_vars => RowsKept'
  BY DEF RowsKept, Next, vars, registry, outbox, UpsertManifest, RegisterDevice, UpsertLease,
         Change, EnqueueOutbound, Read, FinishEnqueue, Insert, IssueCommand, Plans, Select, Update,
         ReadFails, WriteFails
<1> QED BY <1>1, <1>2, PTL DEF Spec

(* What a step may do to a row: nothing, make it where there was none or   *)
(* make it anew while it waited, and always by a plan drawn for its        *)
(* envelope from what the call read or from the registry of the moment.    *)
Replaced(q, plan) == /\ rows[q] = NoRow \/ Waiting(q)
                     /\ rows'[q] = Row(plan)

DrawnBySomeone(q) ==
    \/ Replaced(q, PlanNow(q))
    \/ \E p \in Callers \cup Planners :
          /\ calls[p].batch # <<>> /\ Head(calls[p].batch) = q
          /\ Replaced(q, Drawn(calls[p]))

LEMMA RowsChange ==
    ASSUME RowsKept, [Next]_vars, NEW q \in Requests
    PROVE  rows'[q] = rows[q] \/ DrawnBySomeone(q)
<1>1. CASE rows' = rows
  BY <1>1
<1>2. ASSUME NEW r \in Requests, IssueCommand(r)
      PROVE  rows'[q] = rows[q] \/ DrawnBySomeone(q)
  BY <1>2 DEF IssueCommand, Insert, RowsKept, DrawnBySomeone, Replaced
<1>3. ASSUME NEW p \in Callers, FinishEnqueue(p)
      PROVE  rows'[q] = rows[q] \/ DrawnBySomeone(q)
  BY <1>3 DEF FinishEnqueue, Insert, RowsKept, DrawnBySomeone, Replaced, outbox
<1>4. ASSUME NEW p \in Planners, Update(p)
      PROVE  rows'[q] = rows[q] \/ DrawnBySomeone(q)
  BY <1>4 DEF Update, RowsKept, DrawnBySomeone, Replaced, outbox
<1>5. \/ rows' = rows
      \/ \E r \in Requests : IssueCommand(r)
      \/ \E p \in Callers : FinishEnqueue(p)
      \/ \E p \in Planners : Update(p)
  BY DEF Next, vars, outbox, registry, UpsertManifest, RegisterDevice, UpsertLease, Change,
         EnqueueOutbound, Read, Plans, Select, ReadFails, WriteFails
<1> QED BY <1>1, <1>2, <1>3, <1>4, <1>5

(* Whatever the registry does between the reads of a call and its write, a *)
(* row becomes ready to send only by a permitted plan.                      *)
THEOREM OnlyPermittedPlans == Spec => PermittedOnly
<1>1. ASSUME RowsKept, [Next]_vars, NEW q \in Requests, Readied(q)
      PROVE  LET e == Envelopes[q]
                 permits(info, via) == Permitted(e, rows'[q].plan, info, via)
             IN  \/ permits(InfoOf(e.target), InfoOf(e.relay))
                 \/ \E p \in Callers \cup Planners :
                       /\ calls[p].batch # <<>> /\ Head(calls[p].batch) = q
                       /\ permits(calls[p].target, calls[p].via)
  <2>1. DrawnBySomeone(q)
    BY <1>1, RowsChange DEF Readied
  <2>2. ASSUME NEW plan, Replaced(q, plan)
        PROVE  rows'[q].plan = plan /\ StatusOf(plan) = "ready_to_send"
    BY <1>1, <2>2 DEF Replaced, Row, Readied
  <2>3. CASE Replaced(q, PlanNow(q))
    BY <2>2, <2>3, PlanPermitted DEF PlanNow
  <2>4. ASSUME NEW p \in Callers \cup Planners,
               calls[p].batch # <<>>, Head(calls[p].batch) = q,
               Replaced(q, Drawn(calls[p]))
        PROVE  Permitted(Envelopes[q], rows'[q].plan, calls[p].target, calls[p].via)
    <3>1. StatusOf(Failure) # "ready_to_send"
      BY DEF StatusOf, Failure, Plan
    <3>2. Drawn(calls[p]) = PlanRoute(Envelopes[q], calls[p].target, calls[p].via)
      BY <2>2, <2>4, <3>1 DEF Drawn
    <3> QED BY <2>2, <2>4, <3>2, PlanPermitted
  <2> QED BY <2>1, <2>3, <2>4 DEF DrawnBySomeone
<1>2. RowsKept /\ [Next]_vars =>
        [\A q \in Requests :
           LET e == Envelopes[q]
               permits(info, via) == Permitted(e, rows'[q].plan, info, via)
           IN
           Readied(q) =>
               \/ permits(InfoOf(e.target), InfoOf(e.relay))
               \/ \E p \in Callers \cup Planners :
                     /\ calls[p].batch # <<>> /\ Head(calls[p].batch) = q
                     /\ permits(calls[p].target, calls[p].via)]_vars
  BY <1>1
<1> QED BY <1>2, KeepsRows, PTL DEF Spec, PermittedOnly

(* A replan that was overtaken and a repeated enqueue leave a ready row as  *)
(* it is.                                                                   *)
THEOREM ReadyRowsStay == Spec => ReadyStays
<1>1. ASSUME RowsKept, [Next]_vars, NEW q \in Requests,
             rows[q] # NoRow, rows[q].status = "ready_to_send"
      PROVE  rows'[q] = rows[q]
  BY <1>1, RowsChange DEF DrawnBySomeone, Replaced, Waiting
<1>2. RowsKept /\ [Next]_vars =>
        [\A q \in Requests :
           rows[q] # NoRow /\ rows[q].status = "ready_to_send" => rows'[q] = rows[q]]_vars
  BY <1>1
<1> QED BY <1>2, KeepsRows, PTL DEF Spec, ReadyStays

-----------------------------------------------------------------------------
(* TypeOK: the registry, the rows with their order, and the calls.         *)

Registry ==
    /\ manifests \in [Nodes -> Reported]
    /\ leases \in [Nodes -> Granted]
    /\ \A n, k \in Nodes :
          n # k /\ leases[n] # NoLease /\ leases[k] # NoLease /\ leases[n].short # 0
          => leases[n].short # leases[k].short
    /\ changes \in 0 .. MaxChanges /\ faults \in 0 .. MaxFaults

(* The table and its order by updated_at hold the same rows, each once. *)
Rows ==
    /\ DOMAIN rows = Requests
    /\ order \in Seq(Requests)
    /\ \A i, j \in 1 .. Len(order) : order[i] = order[j] => i = j
    /\ ToSet(order) = {q \in Requests : rows[q] # NoRow}
    /\ \A q \in Requests : rows[q] # NoRow => rows[q].status = StatusOf(rows[q].plan)

Query == {"target", "via"} \X {"manifest", "lease"}
Doing == [batch : Seq(Requests), reads : Seq(Query), failed : BOOLEAN,
          target : Info, via : Info]

NodeOf(q, who) == IF who = "target" THEN Envelopes[q].target ELSE Envelopes[q].relay

(* What a call has still to read is of nodes of the request it plans. *)
Asking(me) ==
    me.reads # <<>> =>
        /\ me.batch # <<>>
        /\ \A i \in 1 .. Len(me.reads) : NodeOf(Head(me.batch), me.reads[i][1]) \in Nodes

Calls ==
    /\ calls \in [Callers \cup Planners -> Doing]
    /\ \A p \in Callers \cup Planners : Asking(calls[p])

(* What stands for a missing row is not a row. *)
NoRowIsNone == \A plan : Row(plan) # NoRow

LEMMA Offered ==
    ASSUME NEW n \in Nodes
    PROVE  /\ \A m \in Manifests[n] : m \in Reported
           /\ \A l \in Leases[n] : l \in Granted
           /\ NoManifest \in Reported
<1>1. Manifests[n] \subseteq UNION {Manifests[k] : k \in Nodes}
  BY Zenon
<1>2. Leases[n] \subseteq UNION {Leases[k] : k \in Nodes}
  BY Zenon
<1> QED BY <1>1, <1>2 DEF Reported, Granted

LEMMA RegistryNext ==
    ASSUME Registry, [Next]_vars
    PROVE  Registry'
<1>0. Granted' = Granted /\ Reported' = Reported
  BY DEF Granted, Reported
<1>1. CASE UNCHANGED <<registry, changes, faults>>
  BY <1>1 DEF registry, Registry, Granted, Reported
<1>2. ASSUME NEW n \in Nodes, NEW m \in Manifests[n], UpsertManifest(n, m)
      PROVE  Registry'
  <2>1. m \in Reported
    BY Offered
  <2> QED BY <1>2, <2>1, RoutePlannerAssumption DEF UpsertManifest, Change, Registry, Granted, Reported
<1>3. ASSUME NEW n \in Nodes, NEW l \in Leases[n], NEW m \in Reported, Change, ~Taken(n, l.short),
             leases' = [leases EXCEPT ![n] = l],
             manifests' = manifests \/ manifests' = [manifests EXCEPT ![n] = m]
      PROVE  Registry'
  <2>1. l \in Granted
    BY Offered
  <2>2. /\ leases' \in [Nodes -> Granted] /\ manifests' \in [Nodes -> Reported]
        /\ changes' \in 0 .. MaxChanges /\ faults' \in 0 .. MaxFaults
    BY <1>3, <2>1, RoutePlannerAssumption DEF Change, Registry
  <2>3. ASSUME NEW a \in Nodes, NEW k \in Nodes, a # k, leases'[a] # NoLease, leases'[k] # NoLease,
               leases'[a].short # 0
        PROVE  leases'[a].short # leases'[k].short
    <3>1. CASE a = n
      <4>1. leases'[a] = l /\ leases'[k] = leases[k]
        BY <1>3, <2>3, <3>1 DEF Registry
      <4> QED BY <1>3, <2>3, <3>1, <4>1 DEF Taken
    <3>2. CASE k = n
      <4>1. leases'[k] = l /\ leases'[a] = leases[a]
        BY <1>3, <2>3, <3>2 DEF Registry
      <4> QED BY <1>3, <2>3, <3>2, <4>1 DEF Taken
    <3>3. CASE a # n /\ k # n
      <4>1. leases'[a] = leases[a] /\ leases'[k] = leases[k]
        BY <1>3, <3>3 DEF Registry
      <4> QED BY <2>3, <4>1 DEF Registry
    <3> QED BY <3>1, <3>2, <3>3
  <2> QED BY <1>0, <2>2, <2>3 DEF Registry
<1>4. ASSUME NEW n \in Nodes, NEW m \in Manifests[n], NEW l \in Leases[n], RegisterDevice(n, m, l)
      PROVE  Registry'
  <2>1. m \in Reported
    BY Offered
  <2> QED BY <1>3, <1>4, <2>1 DEF RegisterDevice
<1>5. ASSUME NEW n \in Nodes, NEW l \in Leases[n], UpsertLease(n, l)
      PROVE  Registry'
  <2>1. NoManifest \in Reported
    BY Offered
  <2> QED BY <1>3, <1>5, <2>1 DEF UpsertLease
<1>6. ASSUME NEW q \in Requests, IssueCommand(q) \/ \E p \in Callers : EnqueueOutbound(p, q)
      PROVE  UNCHANGED <<registry, changes, faults>>
  BY <1>6 DEF IssueCommand, EnqueueOutbound
<1>7. ASSUME NEW p, Read(p) \/ FinishEnqueue(p) \/ Plans(p)
      PROVE  UNCHANGED <<registry, changes, faults>>
  BY <1>7 DEF Read, FinishEnqueue, Plans, Select, Update
<1>8. ASSUME NEW p, ReadFails(p) \/ WriteFails(p)
      PROVE  Registry'
  <2>1. faults' \in 0 .. MaxFaults /\ UNCHANGED <<registry, changes>>
    BY <1>8, RoutePlannerAssumption DEF ReadFails, WriteFails, Fault, Registry
  <2> QED BY <2>1 DEF registry, Registry, Granted, Reported
<1> QED BY <1>1, <1>2, <1>4, <1>5, <1>6, <1>7, <1>8 DEF Next, vars

LEMMA RowAdded ==
    ASSUME NoRowIsNone, Rows, NEW q \in Requests, NEW plan, Insert(q, plan)
    PROVE  Rows'
<1>1. CASE rows[q] # NoRow
  BY <1>1 DEF Insert, outbox, Rows
<1>2. CASE rows[q] = NoRow
  <2>1. rows' = [rows EXCEPT ![q] = Row(plan)] /\ order' = Append(order, q)
    BY <1>2 DEF Insert
  <2> DEFINE n == Len(order)
  <2>2. n \in Nat /\ order \in Seq(Requests)
    BY DEF Rows
  <2>3. /\ order' \in Seq(Requests) /\ Len(order') = n + 1
        /\ order'[n + 1] = q /\ \A i \in 1 .. n : order'[i] = order[i]
    BY <2>1, <2>2
  <2>4. ToSet(order) = {order[i] : i \in 1 .. n} /\ ToSet(order') = {order'[i] : i \in 1 .. n + 1}
    <3>1. DOMAIN order = 1 .. n /\ DOMAIN order' = 1 .. n + 1
      BY <2>2, <2>3
    <3> QED BY <3>1 DEF ToSet
  <2>5. \A i \in 1 .. n : order[i] # q
    BY <1>2, <2>4 DEF Rows
  <2>6. 1 .. n + 1 = (1 .. n) \cup {n + 1}
    BY <2>2
  <2> HIDE DEF n
  <2>7. ToSet(order') = ToSet(order) \cup {q}
    BY <2>3, <2>4, <2>6
  <2>8. \A i, j \in 1 .. n + 1 : order'[i] = order'[j] => i = j
    BY <2>3, <2>5, <2>6 DEF Rows, n
  <2>9. /\ DOMAIN rows' = Requests /\ rows'[q] = Row(plan) /\ rows'[q] # NoRow
        /\ \A r \in Requests \ {q} : rows'[r] = rows[r]
    BY <2>1 DEF Rows, NoRowIsNone
  <2>10. ToSet(order') = {r \in Requests : rows'[r] # NoRow}
    BY <2>7, <2>9 DEF Rows
  <2>11. rows'[q].status = StatusOf(rows'[q].plan)
    BY <2>9 DEF Row
  <2> QED BY <2>3, <2>8, <2>9, <2>10, <2>11 DEF Rows
<1> QED BY <1>1, <1>2

(* The place of a row in the order. *)
LEMMA PlaceOf ==
    ASSUME Rows, NEW q \in Requests, rows[q] # NoRow
    PROVE  \E k \in 1 .. Len(order) :
              /\ order[k] = q
              /\ RemoveFirst(order, q) = RemoveAt(order, k)
<1> DEFINE n == Len(order)
           I == {i \in 1 .. n : order[i] = q}
<1>1. n \in Nat /\ DOMAIN order = 1 .. n
  BY DEF Rows
<1>2. PICK k \in 1 .. n : order[k] = q
  BY <1>1 DEF Rows, ToSet
<1>3. I = {k}
  BY <1>2 DEF Rows
<1>4. Min(I) = k
  BY <1>1, <1>2, <1>3 DEF Min
<1>5. SelectInSeq(order, LAMBDA v : v = q) = k
  BY <1>2, <1>3, <1>4 DEF SelectInSeq
<1> QED BY <1>2, <1>5 DEF RemoveFirst

(* Moving a row to the end of the order keeps every row in it, once. *)
LEMMA TouchedKeeps ==
    ASSUME Rows, NEW q \in Requests, rows[q] # NoRow
    PROVE  /\ Touched(q) \in Seq(Requests)
           /\ \A i, j \in 1 .. Len(Touched(q)) : Touched(q)[i] = Touched(q)[j] => i = j
           /\ ToSet(Touched(q)) = ToSet(order)
<1> DEFINE n == Len(order)
           t == Touched(q)
<1>1. /\ n \in Nat /\ order \in Seq(Requests) /\ DOMAIN order = 1 .. n
      /\ \A i, j \in 1 .. n : order[i] = order[j] => i = j
      /\ \A i \in 1 .. n : order[i] \in Requests
  BY DEF Rows
<1>2. PICK k \in 1 .. n : order[k] = q /\ RemoveFirst(order, q) = RemoveAt(order, k)
  BY PlaceOf
<1> DEFINE before == SubSeq(order, 1, k - 1)
           after == SubSeq(order, k + 1, n)
           rest == before \o after
<1>3. /\ before \in Seq(Requests) /\ Len(before) = k - 1
      /\ \A i \in 1 .. k - 1 : before[i] = order[i]
  <2>1. \A i \in 1 .. k - 1 : order[i] \in Requests
    BY <1>1, <1>2
  <2> QED BY <1>1, <1>2, <2>1, SubSeqProperties
<1>4. /\ after \in Seq(Requests) /\ Len(after) = n - k
      /\ \A i \in 1 .. n - k : after[i] = order[k + i]
  <2>1. \A i \in k + 1 .. n : order[i] \in Requests
    BY <1>1, <1>2
  <2>2. k + 1 \in Int /\ n \in Int /\ k + 1 <= n + 1
    BY <1>1, <1>2
  <2>3. /\ after \in Seq(Requests)
        /\ Len(after) = IF k + 1 <= n THEN n - (k + 1) + 1 ELSE 0
        /\ \A i \in 1 .. n - (k + 1) + 1 : after[i] = order[(k + 1) + i - 1]
    BY <2>1, <2>2, SubSeqProperties
  <2> HIDE DEF after, n
  <2>4. /\ (IF k + 1 <= n THEN n - (k + 1) + 1 ELSE 0) = n - k
        /\ n - (k + 1) + 1 = n - k
        /\ \A i \in 1 .. n - k : (k + 1) + i - 1 = k + i
    BY <1>1, <1>2
  <2> QED BY <2>3, <2>4
<1>5. t = Append(rest, q)
  BY <1>2 DEF Touched, RemoveAt
<1> HIDE DEF before, after, t, n
<1>6. /\ rest \in Seq(Requests) /\ Len(rest) = n - 1
      /\ \A i \in 1 .. n - 1 : rest[i] = IF i < k THEN order[i] ELSE order[i + 1]
  <2>1. rest \in Seq(Requests) /\ Len(rest) = (k - 1) + (n - k)
        /\ \A i \in 1 .. (k - 1) + (n - k) :
              rest[i] = IF i <= k - 1 THEN before[i] ELSE after[i - (k - 1)]
    <3>1. /\ before \in Seq(Requests) /\ after \in Seq(Requests)
          /\ Len(before) = k - 1 /\ Len(after) = n - k
      BY <1>3, <1>4
    <3>2. /\ rest \in Seq(Requests) /\ Len(rest) = Len(before) + Len(after)
          /\ \A i \in 1 .. Len(before) + Len(after) :
                rest[i] = IF i <= Len(before) THEN before[i] ELSE after[i - Len(before)]
      BY <3>1, ConcatProperties
    <3> QED BY <3>1, <3>2
  <2>2. (k - 1) + (n - k) = n - 1
    BY <1>1, <1>2
  <2>3. ASSUME NEW i \in 1 .. n - 1
        PROVE  rest[i] = IF i < k THEN order[i] ELSE order[i + 1]
    <3>1. CASE i < k
      <4>1. i <= k - 1 /\ i \in 1 .. k - 1
        BY <1>1, <1>2, <3>1
      <4> QED BY <1>3, <2>1, <2>2, <3>1, <4>1
    <3>2. CASE ~(i < k)
      <4>1. ~(i <= k - 1) /\ i - (k - 1) \in 1 .. n - k /\ k + (i - (k - 1)) = i + 1
        BY <1>1, <1>2, <3>2
      <4> QED BY <1>4, <2>1, <2>2, <3>2, <4>1
    <3> QED BY <3>1, <3>2
  <2> QED BY <2>1, <2>2, <2>3
<1> HIDE DEF rest
<1>7. /\ t \in Seq(Requests) /\ Len(t) = n /\ t[n] = q
      /\ \A i \in 1 .. n - 1 : t[i] = rest[i]
  <2>1. Len(rest) + 1 = n /\ n \in 1 .. n
    BY <1>1, <1>2, <1>6
  <2> QED BY <1>5, <1>6, <2>1
<1> DEFINE from(i) == IF i = n THEN k ELSE IF i < k THEN i ELSE i + 1
<1>8. ASSUME NEW i \in 1 .. n
      PROVE  from(i) \in 1 .. n /\ t[i] = order[from(i)]
  <2>1. CASE i = n
    BY <1>2, <1>7, <2>1
  <2>2. CASE i # n
    <3>1. i \in 1 .. n - 1
      BY <1>1, <2>2
    <3> QED BY <1>1, <1>2, <1>6, <1>7, <2>2, <3>1
  <2> QED BY <2>1, <2>2
<1>9. \A i, j \in 1 .. n : from(i) = from(j) => i = j
  BY <1>1, <1>2
<1>10. \A x \in 1 .. n : \E i \in 1 .. n : from(i) = x
  <2> SUFFICES ASSUME NEW x \in 1 .. n
               PROVE  \E i \in 1 .. n : from(i) = x
    OBVIOUS
  <2>1. CASE x < k
    <3>1. x \in 1 .. n /\ from(x) = x
      BY <1>1, <1>2, <2>1
    <3> QED BY <3>1
  <2>2. CASE x = k
    <3>1. n \in 1 .. n /\ from(n) = x
      BY <1>1, <1>2, <2>2
    <3> QED BY <3>1
  <2>3. CASE x > k
    <3>1. x - 1 \in 1 .. n /\ from(x - 1) = x
      BY <1>1, <1>2, <2>3
    <3> QED BY <3>1
  <2> QED BY <1>1, <1>2, <2>1, <2>2, <2>3
<1> HIDE DEF from
<1>11. DOMAIN t = 1 .. n
  BY <1>7
<1>12. ToSet(t) = {t[i] : i \in 1 .. n} /\ ToSet(order) = {order[i] : i \in 1 .. n}
  BY <1>1, <1>11 DEF ToSet
<1>13. ToSet(t) = ToSet(order)
  <2>1. ToSet(t) \subseteq ToSet(order)
    BY <1>8, <1>12
  <2>2. \A x \in 1 .. n : order[x] \in ToSet(t)
    BY <1>8, <1>10, <1>12
  <2> QED BY <1>12, <2>1, <2>2
<1>14. \A i, j \in 1 .. n : t[i] = t[j] => i = j
  BY <1>1, <1>8, <1>9
<1> QED BY <1>7, <1>13, <1>14 DEF t

LEMMA RowReplanned ==
    ASSUME NoRowIsNone, Rows, NEW q \in Requests, Waiting(q), NEW plan,
           rows' = [rows EXCEPT ![q] = Row(plan)], order' = Touched(q)
    PROVE  Rows'
<1>1. rows[q] # NoRow
  BY DEF Waiting
<1>2. /\ order' \in Seq(Requests)
      /\ \A i, j \in 1 .. Len(order') : order'[i] = order'[j] => i = j
      /\ ToSet(order') = ToSet(order)
  BY <1>1, TouchedKeeps
<1>3. /\ DOMAIN rows' = Requests /\ rows'[q] = Row(plan) /\ rows'[q] # NoRow
      /\ \A r \in Requests \ {q} : rows'[r] = rows[r]
  BY DEF Rows, NoRowIsNone
<1>4. ToSet(order') = {r \in Requests : rows'[r] # NoRow}
  BY <1>1, <1>2, <1>3 DEF Rows
<1>5. rows'[q].status = StatusOf(rows'[q].plan)
  BY <1>3 DEF Row
<1> QED BY <1>2, <1>3, <1>4, <1>5 DEF Rows

(* A replan takes up rows of the queue. *)
LEMMA SelectedQueued ==
    ASSUME Rows
    PROVE  Selected \in Seq(Requests)
<1> DEFINE n == Len(order)
           A == Seq(Requests)
           Step(batch, q) == IF Waiting(q) /\ Len(batch) < Limit THEN Append(batch, q) ELSE batch
           Takes(f) == f = [s \in SUBSET DOMAIN order |->
                        IF s = {} THEN <<>> ELSE Step(f[s \ {Latest(s)}], order[Latest(s)])]
           F == CHOOSE f : Takes(f)
           op == [p \in A \X (1 .. n) |-> Step(p[1], order[p[2]])]
<1>1. n \in Nat /\ DOMAIN order = 1 .. n /\ (\A i \in 1 .. n : order[i] \in Requests) /\ <<>> \in A
  BY DEF Rows
<1>2. Selected = F[DOMAIN order]
  BY DEF Selected, FoldLeft, MapThenFoldSet, Max, Latest
<1>3. \A batch \in A, q \in Requests : Step(batch, q) \in A
  OBVIOUS
<1> HIDE DEF Step
<1>4. op \in [A \X (1 .. n) -> A]
  <2> HIDE DEF A, n
  <2> QED BY <1>1, <1>3
<1>5. PICK g \in [SUBSET (1 .. n) -> A] : Solves(g, n, <<>>, op)
  <2> HIDE DEF op, n, A
  <2> QED BY <1>1, <1>4, FoldExists
<1>6. Takes(g)
  <2>1. \A s \in SUBSET (1 .. n) :
           s # {} => op[<<g[s \ {Latest(s)}], Latest(s)>>] = Step(g[s \ {Latest(s)}], order[Latest(s)])
    <3> SUFFICES ASSUME NEW s \in SUBSET (1 .. n), s # {}
                 PROVE  op[<<g[s \ {Latest(s)}], Latest(s)>>] = Step(g[s \ {Latest(s)}], order[Latest(s)])
      OBVIOUS
    <3>1. Latest(s) \in 1 .. n
      BY <1>1, LatestOf
    <3>2. g[s \ {Latest(s)}] \in A
      BY <1>5
    <3> HIDE DEF n, A
    <3> QED BY <3>1, <3>2
  <2> HIDE DEF op, n
  <2> QED BY <1>1, <1>5, <2>1 DEF Solves
<1>7. Takes(F)
  <2> HIDE DEF Takes
  <2> QED BY <1>6
<1> HIDE DEF F, n, op, A
<1>8. F[{}] = <<>>
  BY <1>1, <1>7
<1> DEFINE S == {k \in 0 .. n : F[1 .. k] \in A}
<1>9. 0 \in S
  <2>1. 1 .. 0 = {} /\ 0 \in 0 .. n
    BY <1>1
  <2> HIDE DEF Takes
  <2> QED BY <1>1, <1>8, <2>1
<1>10. ASSUME NEW k \in S, k < n
       PROVE  k + 1 \in S
  <2>1. k \in Nat /\ k + 1 \in 0 .. n /\ k + 1 \in 1 .. n /\ F[1 .. k] \in A
    BY <1>1, <1>10
  <2>2. 1 .. k + 1 \in SUBSET DOMAIN order
    BY <1>1, <2>1
  <2>3. Latest(1 .. k + 1) = k + 1 /\ (1 .. k + 1) \ {k + 1} = 1 .. k /\ 1 .. k + 1 # {}
    BY <2>1, LatestOfPrefix
  <2>4. F[1 .. k + 1] = Step(F[(1 .. k + 1) \ {Latest(1 .. k + 1)}], order[Latest(1 .. k + 1)])
    BY <1>7, <2>2, <2>3
  <2>5. F[1 .. k + 1] = Step(F[1 .. k], order[k + 1])
    BY <2>3, <2>4
  <2> HIDE DEF Takes
  <2> QED BY <1>1, <1>3, <2>1, <2>5
<1>11. n \in S
  <2>1. S \subseteq 0 .. n /\ n \in 0 .. n
    BY <1>1
  <2> HIDE DEF S
  <2>2. S = 0 .. n
    BY <1>1, <1>9, <1>10, <2>1, Counting
  <2> QED BY <2>1, <2>2
<1> QED BY <1>1, <1>2, <1>11 DEF A

LEMMA RowsNext ==
    ASSUME NoRowIsNone, Rows, Calls, [Next]_vars
    PROVE  Rows'
<1>1. CASE UNCHANGED outbox
  BY <1>1 DEF outbox, Rows
<1>2. ASSUME NEW q \in Requests, IssueCommand(q)
      PROVE  Rows'
  BY <1>2, RowAdded DEF IssueCommand
<1>3. ASSUME NEW p \in Callers \cup Planners, calls[p].batch # <<>>
      PROVE  Head(calls[p].batch) \in Requests
  BY <1>3 DEF Calls, Doing
<1>4. ASSUME NEW p \in Callers, FinishEnqueue(p)
      PROVE  Rows'
  <2>1. Head(calls[p].batch) \in Requests
    BY <1>3, <1>4 DEF FinishEnqueue
  <2>2. UNCHANGED outbox \/ Insert(Head(calls[p].batch), Drawn(calls[p]))
    BY <1>4 DEF FinishEnqueue
  <2> QED BY <1>1, <2>1, <2>2, RowAdded
<1>5. ASSUME NEW p \in Planners, Update(p)
      PROVE  Rows'
  <2> DEFINE q == Head(calls[p].batch)
  <2>1. q \in Requests
    BY <1>3, <1>5 DEF Update
  <2>2. CASE Waiting(q)
    <3>1. rows' = [rows EXCEPT ![q] = Row(Drawn(calls[p]))] /\ order' = Touched(q)
      BY <1>5, <2>2 DEF Update
    <3> HIDE DEF q
    <3> QED BY <2>1, <2>2, <3>1, RowReplanned
  <2>3. CASE ~Waiting(q)
    BY <1>1, <1>5, <2>3 DEF Update
  <2> QED BY <2>2, <2>3
<1>6. \/ UNCHANGED outbox
      \/ \E q \in Requests : IssueCommand(q)
      \/ \E p \in Callers : FinishEnqueue(p)
      \/ \E p \in Planners : Update(p)
  BY DEF Next, vars, UpsertManifest, RegisterDevice, UpsertLease, Change, EnqueueOutbound, Read,
         Plans, Select, ReadFails, WriteFails
<1> QED BY <1>1, <1>2, <1>4, <1>5, <1>6

(* A call that begins with a batch reads of nodes of its first request. *)
LEMMA QueriesOfNodes ==
    ASSUME NEW q \in Requests
    PROVE  /\ Queries(q) \in Seq(Query)
           /\ \A i \in 1 .. Len(Queries(q)) : NodeOf(q, Queries(q)[i][1]) \in Nodes
<1> DEFINE of(who) == <<<<who, "manifest">>, <<who, "lease">>>>
           e == Envelopes[q]
<1>1. \A who \in {"target", "via"} :
         /\ of(who) \in Seq(Query) /\ Len(of(who)) = 2
         /\ \A i \in 1 .. 2 : of(who)[i][1] = who
  <2> SUFFICES ASSUME NEW who \in {"target", "via"}
               PROVE  /\ of(who) \in Seq(Query) /\ Len(of(who)) = 2
                      /\ \A i \in 1 .. 2 : of(who)[i][1] = who
    OBVIOUS
  <2>1. <<who, "manifest">> \in Query /\ <<who, "lease">> \in Query
    BY DEF Query
  <2>2. of(who) \in Seq(Query) /\ Len(of(who)) = 2
    BY <2>1
  <2>3. 1 .. 2 = {1, 2}
    OBVIOUS
  <2> QED BY <2>2, <2>3
<1>2. e.target \in Nodes \cup {Nobody} /\ e.relay \in Nodes \cup {Nobody}
  BY RoutePlannerAssumption
<1>3. CASE e.target = Nobody
  <2>1. Queries(q) = <<>>
    BY <1>3 DEF Queries
  <2> QED BY <2>1
<1>4. CASE e.target # Nobody /\ ~Relayed(e)
  <2>1. Queries(q) = of("target")
    BY <1>4 DEF Queries
  <2>2. e.target \in Nodes
    BY <1>2, <1>4
  <2> HIDE DEF of
  <2> QED BY <1>1, <2>1, <2>2 DEF NodeOf
<1>5. CASE e.target # Nobody /\ Relayed(e)
  <2>1. Queries(q) = of("target") \o of("via")
    BY <1>5 DEF Queries
  <2>2. e.target \in Nodes /\ e.relay \in Nodes
    BY <1>2, <1>5 DEF Relayed
  <2> HIDE DEF of
  <2>3. /\ of("target") \in Seq(Query) /\ Len(of("target")) = 2
        /\ of("via") \in Seq(Query) /\ Len(of("via")) = 2
        /\ \A i \in 1 .. 2 : of("target")[i][1] = "target" /\ of("via")[i][1] = "via"
    BY <1>1
  <2>4. /\ Queries(q) \in Seq(Query) /\ Len(Queries(q)) = 4
        /\ \A i \in 1 .. 4 : Queries(q)[i] = IF i <= 2 THEN of("target")[i] ELSE of("via")[i - 2]
    <3> DEFINE a == of("target")
               b == of("via")
    <3>1. a \in Seq(Query) /\ b \in Seq(Query) /\ Len(a) = 2 /\ Len(b) = 2 /\ Queries(q) = a \o b
      BY <2>1, <2>3
    <3> HIDE DEF a, b
    <3>2. /\ a \o b \in Seq(Query) /\ Len(a \o b) = Len(a) + Len(b)
          /\ \A i \in 1 .. Len(a) + Len(b) :
                (a \o b)[i] = IF i <= Len(a) THEN a[i] ELSE b[i - Len(a)]
      BY <3>1, ConcatProperties
    <3>3. 2 + 2 = 4
      OBVIOUS
    <3>4. /\ Queries(q) \in Seq(Query) /\ Len(Queries(q)) = 4
          /\ \A i \in 1 .. 4 : Queries(q)[i] = IF i <= 2 THEN a[i] ELSE b[i - 2]
      BY <3>1, <3>2, <3>3
    <3> QED BY <3>4 DEF a, b
  <2>5. ASSUME NEW i \in 1 .. 4
        PROVE  Queries(q)[i][1] \in {"target", "via"}
    <3>1. CASE i <= 2
      BY <2>3, <2>4, <3>1
    <3>2. CASE i > 2
      <4>1. i - 2 \in 1 .. 2
        BY <3>2
      <4> QED BY <2>3, <2>4, <3>2, <4>1
    <3> QED BY <3>1, <3>2
  <2> QED BY <2>2, <2>4, <2>5 DEF NodeOf
<1> QED BY <1>3, <1>4, <1>5

(* A call of nothing, and one that starts anew. *)
LEMMA IdleIsDoing == Idle \in Doing /\ Asking(Idle)
<1>1. Unread \in Info
  BY DEF Unread, Info, Reported, Granted
<1> QED BY <1>1 DEF Idle, Doing, Asking

LEMMA Starts ==
    ASSUME Calls, NEW p \in Callers \cup Planners, NEW batch \in Seq(Requests), Start(p, batch)
    PROVE  Calls'
<1>1. CASE batch = <<>>
  <2>1. calls' = [calls EXCEPT ![p] = Idle]
    BY <1>1 DEF Start
  <2> QED BY <2>1, IdleIsDoing DEF Calls, Doing, Asking, NodeOf, Info, Reported, Granted
<1>2. CASE batch # <<>>
  <2> DEFINE me == [Idle EXCEPT !.batch = batch, !.reads = Queries(batch[1])]
  <2>1. calls' = [calls EXCEPT ![p] = me]
    BY <1>2 DEF Start
  <2>2. batch[1] \in Requests /\ Head(batch) = batch[1]
    BY <1>2
  <2>3. Queries(batch[1]) \in Seq(Query)
    BY <2>2, QueriesOfNodes
  <2>4. me \in Doing /\ me.batch = batch /\ me.reads = Queries(batch[1])
    BY <2>3, IdleIsDoing DEF Doing
  <2> HIDE DEF me
  <2>5. Asking(me)
    BY <1>2, <2>2, <2>4, QueriesOfNodes DEF Asking
  <2> QED BY <2>1, <2>4, <2>5 DEF Calls, Doing, Asking, NodeOf, Info, Reported, Granted
<1> QED BY <1>1, <1>2

(* A query of a call answers with an entry of the registry. *)
LEMMA Reads ==
    ASSUME Registry, Calls, NEW p \in Callers \cup Planners, Read(p)
    PROVE  Calls'
<1> DEFINE me == calls[p]
           who == Head(me.reads)[1]
           what == Head(me.reads)[2]
           n == IF who = "target" THEN Envelopes[Head(me.batch)].target
                ELSE Envelopes[Head(me.batch)].relay
           found == IF what = "manifest" THEN manifests[n] ELSE leases[n]
           then == [[me EXCEPT !.reads = Tail(@)] EXCEPT ![who][what] = found]
<1>1. me.reads # <<>> /\ calls' = [calls EXCEPT ![p] = then]
  BY DEF Read
<1>2. me \in Doing /\ Asking(me)
  BY DEF Calls
<1>3. /\ Len(me.reads) \in Nat /\ 1 \in 1 .. Len(me.reads)
      /\ Head(me.reads) = me.reads[1] /\ Head(me.reads) \in Query
  BY <1>1, <1>2 DEF Doing
<1>4. n \in Nodes
  <2>1. n = NodeOf(Head(me.batch), me.reads[1][1])
    BY <1>3 DEF NodeOf
  <2> HIDE DEF n, me
  <2> QED BY <1>1, <1>2, <1>3, <2>1 DEF Asking
<1>5. who \in {"target", "via"} /\ what \in {"manifest", "lease"}
  BY <1>3 DEF Query
<1>6. (what = "manifest" => found \in Reported) /\ (what = "lease" => found \in Granted)
  <2> HIDE DEF n
  <2> QED BY <1>4 DEF Registry
<1>7. /\ then.batch = me.batch /\ then.reads = Tail(me.reads)
      /\ then.target \in Info /\ then.via \in Info
      /\ then \in Doing
  <2> HIDE DEF who, what, found, n, me
  <2>1. Tail(me.reads) \in Seq(Query)
    BY <1>1, <1>2 DEF Doing
  <2> DEFINE rest == [me EXCEPT !.reads = Tail(@)]
             info == [rest[who] EXCEPT ![what] = found]
  <2>2. /\ rest \in Doing /\ rest.batch = me.batch /\ rest.reads = Tail(me.reads)
        /\ then = [rest EXCEPT ![who] = info]
    BY <1>2, <2>1 DEF Doing
  <2> HIDE DEF rest, then
  <2>3. rest[who] \in Info
    BY <1>5, <2>2 DEF Doing
  <2>4. info \in Info
    BY <1>5, <1>6, <2>3 DEF Info
  <2> HIDE DEF info
  <2> QED BY <1>5, <2>2, <2>4 DEF Doing
<1> HIDE DEF then, who, what, n, found
<1>8. Asking(then)
  <2>1. ASSUME NEW i \in 1 .. Len(Tail(me.reads))
        PROVE  i + 1 \in 1 .. Len(me.reads) /\ Tail(me.reads)[i] = me.reads[i + 1]
    BY <1>1, <1>2 DEF Doing
  <2> QED BY <1>1, <1>2, <1>7, <2>1 DEF Asking
<1> QED BY <1>1, <1>7, <1>8 DEF Calls, Doing, Asking, NodeOf, Info, Reported, Granted

LEMMA CallsNext ==
    ASSUME Registry, Rows, Calls, [Next]_vars
    PROVE  Calls'
<1>1. CASE UNCHANGED calls
  BY <1>1 DEF Calls, Doing, Asking, NodeOf, Info, Reported, Granted
<1>2. ASSUME NEW q \in Requests, NEW p \in Callers, EnqueueOutbound(p, q)
      PROVE  Calls'
  <2>1. Start(p, <<q>>) /\ <<q>> \in Seq(Requests)
    BY <1>2 DEF EnqueueOutbound
  <2> QED BY <2>1, Starts
<1>3. ASSUME NEW p \in Callers, FinishEnqueue(p)
      PROVE  Calls'
  <2>1. Start(p, <<>>) /\ <<>> \in Seq(Requests)
    BY <1>3 DEF FinishEnqueue, Start
  <2> QED BY <2>1, Starts
<1>4. ASSUME NEW p \in Planners, Select(p)
      PROVE  Calls'
  BY <1>4, SelectedQueued, Starts DEF Select
<1>5. ASSUME NEW p \in Planners, Update(p)
      PROVE  Calls'
  <2>1. calls[p].batch \in Seq(Requests) /\ calls[p].batch # <<>>
    BY <1>5 DEF Update, Calls, Doing
  <2>2. Tail(calls[p].batch) \in Seq(Requests)
    BY <2>1
  <2>3. Start(p, Tail(calls[p].batch))
    BY <1>5 DEF Update
  <2> QED BY <2>2, <2>3, Starts
<1>6. ASSUME NEW p \in Callers \cup Planners, Read(p)
      PROVE  Calls'
  BY <1>6, Reads
<1>7. ASSUME NEW p \in Callers \cup Planners, WriteFails(p)
      PROVE  Calls'
  <2>1. Start(p, <<>>) /\ <<>> \in Seq(Requests)
    BY <1>7 DEF WriteFails, Start
  <2> QED BY <2>1, Starts
<1>8. ASSUME NEW p \in Callers \cup Planners, ReadFails(p)
      PROVE  Calls'
  <2> DEFINE me == [Idle EXCEPT !.batch = calls[p].batch, !.failed = TRUE]
  <2>1. calls' = [calls EXCEPT ![p] = me]
    BY <1>8 DEF ReadFails
  <2>2. calls[p].batch \in Seq(Requests)
    BY DEF Calls, Doing
  <2>3. me \in Doing /\ me.reads = <<>>
    BY <2>2, IdleIsDoing DEF Doing, Idle
  <2> HIDE DEF me
  <2> QED BY <2>1, <2>3 DEF Calls, Doing, Asking, NodeOf, Info, Reported, Granted
<1>9. ASSUME NEW n, NEW m, NEW l,
             UpsertManifest(n, m) \/ RegisterDevice(n, m, l) \/ UpsertLease(n, l)
      PROVE  UNCHANGED calls
  BY <1>9 DEF UpsertManifest, RegisterDevice, UpsertLease, Change
<1>10. ASSUME NEW q, IssueCommand(q)
       PROVE  UNCHANGED calls
  BY <1>10 DEF IssueCommand
<1> QED BY <1>1, <1>2, <1>3, <1>4, <1>5, <1>6, <1>7, <1>8, <1>9, <1>10 DEF Next, Plans, vars

(* The order holds as many entries as rows. *)
LEMMA OrderCounts ==
    ASSUME Rows
    PROVE  Cardinality(ToSet(order)) = Len(order)
<1>1. Len(order) \in Nat /\ DOMAIN order = 1 .. Len(order)
  BY DEF Rows
<1>2. ToSet(order) = {order[i] : i \in 1 .. Len(order)}
  BY <1>1 DEF ToSet
<1> DEFINE f == [i \in 1 .. Len(order) |-> order[i]]
<1>3. f \in Bijection(1 .. Len(order), ToSet(order))
  <2>1. f \in [1 .. Len(order) -> ToSet(order)] /\ \A i \in 1 .. Len(order) : f[i] = order[i]
    BY <1>2
  <2>2. \A i, j \in 1 .. Len(order) : f[i] = f[j] => i = j
    BY <2>1 DEF Rows
  <2>3. \A x \in ToSet(order) : \E i \in 1 .. Len(order) : f[i] = x
    BY <1>2, <2>1
  <2> HIDE DEF f
  <2> QED BY <2>1, <2>2, <2>3 DEF Bijection, Injection, Surjection, IsInjective
<1>4. ExistsBijection(1 .. Len(order), ToSet(order))
  BY <1>3 DEF ExistsBijection
<1> QED BY <1>1, <1>4, FS_CountingElements

(* The registry holds what nodes report and are given, no short id twice;  *)
(* the queue and the order its rows are taken up in agree; and every call  *)
(* plans with entries of the registry.                                     *)
THEOREM TypeCorrect ==
    ASSUME NoRowIsNone
    PROVE  Spec => []TypeOK
<1> DEFINE IInv == Registry /\ Rows /\ Calls
<1>1. Init => IInv
  <2> SUFFICES ASSUME Init
               PROVE  IInv
    OBVIOUS
  <2>1. Registry
    BY RoutePlannerAssumption DEF Init, Registry, Reported, Granted
  <2>2. Rows
    BY DEF Init, Rows, ToSet
  <2>3. Calls
    BY IdleIsDoing DEF Init, Calls
  <2> QED BY <2>1, <2>2, <2>3
<1>2. IInv /\ [Next]_vars => IInv'
  BY RegistryNext, RowsNext, CallsNext
<1>3. IInv => TypeOK
  BY OrderCounts DEF Registry, Rows, Calls, Doing, TypeOK
<1> QED BY <1>1, <1>2, <1>3, PTL DEF Spec
=============================================================================
