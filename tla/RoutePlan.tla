------------------------------ MODULE RoutePlan -----------------------------
(***************************************************************************)
(* planOutboundRoute of internal/siterouter/router.go as a function of a   *)
(* request and of what the registry says of its target and of its relay,   *)
(* with the tables of contracts/policy and the radio arithmetic of         *)
(* internal/protocol/jp.                                                   *)
(*                                                                         *)
(* A request is an envelope as the planner sees it: target (Nobody: not a  *)
(* node), class (delivery.route_class), kind, representable (its payload   *)
(* has an on-air body), declared (the size it declares, 0: none), mode,    *)
(* tiny (it is one of the compact commands, with a token), relay (the      *)
(* relay_hardware_id), finalShort (final_target_short_id, 0: none), allow  *)
(* (delivery.allow_relay: "yes", "no", "unset"), hopLimit and hopCount     *)
(* (integers, or Unset).                                                   *)
(***************************************************************************)
EXTENDS Integers

CONSTANTS Nobody,     \* no hardware id
          NoManifest, \* no row in node_manifest
          NoLease,    \* no row in node_lease
          Unset       \* a number that is left out

ASSUME UnsetAssumption == Unset \notin Int

LoRaBearers == {"lora", "lora_direct", "lora_relay", "lora_mesh"}
WiFiBearers == {"wifi", "wifi_ip", "wifi_mesh", "wifi_lr"}
RelayBearers == {"lora_relay", "lora_mesh"}
Bearers == LoRaBearers \cup WiFiBearers \cup {"usb_cdc", "ble_maintenance"}

AlwaysOnRoles == {"powered_leaf", "mesh_router", "mesh_root", "ack_owner", "lora_relay",
                  "dual_bearer_bridge", "gateway_head"}
Roles == AlwaysOnRoles \cup {"sleepy_leaf"}

(* A route class: bearers allowed and forbidden, roles required of the     *)
(* target (none: any), the largest LoRa body (0: no limit of its own),     *)
(* whether relaying is allowed unless the request says otherwise, the hop  *)
(* limit (Unset: none) and the airtime budget.                             *)
Class(allowed, forbidden, roles, body, relay, hops, budget) ==
    [allowed |-> allowed, forbidden |-> forbidden, roles |-> roles, body |-> body,
     relay |-> relay, hops |-> hops, budget |-> budget]

RouteClasses ==
    LET wifi == {"wifi", "wifi_ip"}
        lora == {"lora", "lora_direct"}
        sleeper == {"sleepy_leaf"}
    IN
    [sleepy_tiny_control |-> Class({"lora_direct"}, {}, sleeper, 16, FALSE, Unset, 600),
     maintenance_sync    |-> Class({"ble_maintenance"}, {}, sleeper, 0, FALSE, Unset, 600),
     critical_alert      |-> Class(wifi \cup {"lora_direct"}, {}, {}, 10, FALSE, Unset, 600),
     redundant_critical  |-> Class(wifi \cup {"wifi_mesh", "lora_direct", "lora_relay"}, {}, {},
                                   10, TRUE, 2, 600),
     lora_relay_1        |-> Class({"lora_relay"}, {}, {"lora_relay"}, 6, TRUE, 1, 520),
     wifi_mesh_backbone  |-> Class({"wifi_mesh"}, {},
                                   {"mesh_router", "mesh_root", "dual_bearer_bridge"}, 0, TRUE, Unset, 600),
     sparse_summary      |-> Class(wifi \cup {"lora_direct"}, {}, {}, 0, FALSE, Unset, 600),
     sleepy_heartbeat    |-> Class(wifi \cup {"lora_direct"}, {}, sleeper, 10, FALSE, Unset, 600),
     normal_state        |-> Class(wifi \cup {"lora_direct"}, {}, {}, 10, FALSE, Unset, 600),
     control_event       |-> Class(wifi, lora, {}, 0, FALSE, Unset, 600),
     bulk_wifi_only      |-> Class(wifi \cup {"wifi_mesh"}, lora \cup {"lora_relay"}, {}, 0, FALSE, Unset, 600),
     local_control       |-> Class(wifi \cup {"usb_cdc"}, lora, {}, 0, FALSE, Unset, 600)]

Classes == DOMAIN RouteClasses
Unclassed == ""

-----------------------------------------------------------------------------
(* Radio: profile JP125_LONG_SF10.                                         *)

SpreadingFactor == 10
BandwidthKHz == 125
TotalPayloadCap == 24
DirectUplinkOverheadBytes == 14
RelayedUplinkOverheadBytes == 18

CeilDiv(a, b) == (a + b - 1) \div b

(* AirtimeMS: coding rate 4/5, eight preamble symbols, CRC, no low data    *)
(* rate optimisation at this spreading factor.                             *)
AirtimeMS(bytes) ==
    LET symbols == 8 + 5 * CeilDiv(8 * bytes - 4 * SpreadingFactor + 44, 4 * SpreadingFactor)
    IN  CeilDiv((49 + 4 * symbols) * 2 ^ SpreadingFactor, 4 * BandwidthKHz)

Overhead(bearer) ==
    IF bearer \in RelayBearers THEN RelayedUplinkOverheadBytes ELSE DirectUplinkOverheadBytes

(* BodyCapForProfile *)
BodyCap(bearer) == TotalPayloadCap - Overhead(bearer)

(* applyRadioBudgetToPlan *)
WithinBudget(class, body, bearer) ==
    AirtimeMS(body + Overhead(bearer)) <= RouteClasses[class].budget

(* The wire bytes of a compact command: on-air header and body. *)
CompactCommandBytes == 8 + 5

-----------------------------------------------------------------------------
(* Leases and manifests.                                                   *)

(* manifestBearerName *)
Medium(bearer) == IF bearer \in LoRaBearers THEN "lora"
                  ELSE IF bearer \in WiFiBearers THEN "wifi" ELSE bearer

(* validateLeaseAgainstManifest *)
Fits(l, m) ==
    m # NoManifest =>
        /\ m.roles # {} => l.role \in m.roles
        /\ \A b \in {l.bearer, l.fallback} \ {""} : Medium(b) \in m.bearers
        /\ m.sleepy => l.role \notin AlwaysOnRoles

(* bearerLabel *)
Label(l) == IF l = NoLease THEN "unplanned"
            ELSE IF l.bearer = "" THEN "unplanned"
            ELSE IF l.bearer = "lora" THEN "lora_direct"
            ELSE IF l.bearer = "wifi" THEN "wifi_ip" ELSE l.bearer

(* validateOptionalFabricShortID *)
ShortIDs == 1 .. 65535

RoleOf(l) == IF l = NoLease THEN "" ELSE l.role
ShortOf(l) == IF l = NoLease THEN 0 ELSE l.short

Consistent(info) ==
    info.lease # NoLease /\ info.manifest # NoManifest => Fits(info.lease, info.manifest)

Supports(info, medium) == info.manifest # NoManifest => medium \in info.manifest.bearers

-----------------------------------------------------------------------------
(* The plan.                                                               *)

(* What the planner answers: an error, or a plan that fits or does not,    *)
(* for a relayed one with the short ids of the next hop and the target.    *)
Plan(bearer, fit) == [bearer |-> bearer, fit |-> fit, next |-> 0, final |-> 0]
Failure == Plan("error", FALSE)

(* routeStatusForPlan, and how a replan records an error. *)
StatusOf(plan) == IF plan.bearer = "unplanned" THEN "route_pending"
                  ELSE IF plan.fit THEN "ready_to_send" ELSE "route_blocked"

(* applyRouteClassDefaults *)
RelayAllowed(q) == q.allow = "yes" \/ (q.allow = "unset" /\ RouteClasses[q.class].relay)

HopLimit(q) == IF q.hopLimit # Unset THEN q.hopLimit ELSE RouteClasses[q.class].hops

(* applyRouteIntentToPlan *)
HopsLeft(q, bearer) ==
    LET limit == HopLimit(q)
        hopping == bearer \in RelayBearers \cup {"wifi_mesh"}
        hops == IF q.hopCount = Unset THEN 0 ELSE q.hopCount
    IN  /\ limit # Unset /\ hopping => limit # 0
        /\ limit # Unset /\ hopping /\ RelayAllowed(q) => hops < limit
        /\ bearer \in RelayBearers => RelayAllowed(q)

(* bearerForbiddenByPolicy *)
Forbidden(q, bearer) ==
    \E c \in RouteClasses[q.class].forbidden :
        bearer = c \/ (c = "lora" /\ bearer \in LoRaBearers) \/ (c = "wifi" /\ Medium(bearer) = "wifi")

(* bearerAllowedByPolicy *)
Allowed(q, bearer) ==
    \E c \in RouteClasses[q.class].allowed :
        bearer = c \/ (RelayAllowed(q) /\ bearer \in RelayBearers /\ Medium(c) = "lora")

(* compactPayloadBodyBytes; a size that is only declared does not count in *)
(* production.                                                             *)
BodyBytes(q) ==
    CASE q.representable /\ q.kind = "event" -> 4
      [] q.representable /\ q.kind = "heartbeat" -> 5
      [] q.representable /\ q.kind = "state" -> 3
      [] OTHER -> IF q.mode = "production" THEN 0 ELSE q.declared

(* Mutant of LoRaFits: the relayed header is taken for the direct one. *)
LoRaFitsDirect(q, bearer) ==
    LET class == RouteClasses[q.class]
    IN  /\ BodyBytes(q) \in 1 .. BodyCap("lora_direct")
        /\ class.body # 0 => BodyBytes(q) <= class.body
        /\ WithinBudget(q.class, BodyBytes(q), bearer)

LoRaFits(q, bearer) ==
    LET class == RouteClasses[q.class]
    IN  /\ \E b \in class.allowed : b \in LoRaBearers
        /\ BodyBytes(q) \in 1 .. BodyCap(bearer)
        /\ class.body # 0 => BodyBytes(q) <= class.body
        /\ WithinBudget(q.class, BodyBytes(q), bearer)

(* The checks of planPolicyRoute over a lease, the target's or the relay's; *)
(* end is the short id of the target of a relayed frame.                    *)
PolicyFits(q, lease, end) ==
    LET bearer == Label(lease)
        class == RouteClasses[q.class]
    IN  /\ class.roles # {} => RoleOf(lease) \in class.roles
        /\ HopsLeft(q, bearer)
        /\ ~Forbidden(q, bearer)
        /\ Allowed(q, bearer)
        /\ bearer \in LoRaBearers => LoRaFits(q, bearer)
        /\ bearer \in RelayBearers => lease.short # 0 /\ end \in ShortIDs

(* planPolicyRoute; final is the target's short id when the registry gives *)
(* it.                                                                     *)
PolicyPlan(q, lease, final) ==
    LET bearer == Label(lease)
        end == IF final # 0 THEN final ELSE q.finalShort
    IN  IF bearer = "unplanned" \/ ~PolicyFits(q, lease, end) THEN Plan(bearer, FALSE)
        ELSE IF bearer \in RelayBearers
             THEN [bearer |-> bearer, fit |-> TRUE, next |-> lease.short, final |-> end]
             ELSE Plan(bearer, TRUE)

(* planSleepyCompactCommand and the checks before it. *)
TinyPlan(q, info) ==
    IF /\ Supports(info, "lora")
       /\ info.lease # NoLease
       /\ Label(info.lease) = "lora_direct"
       /\ info.lease.short # 0
       /\ info.lease.role = "sleepy_leaf"
       /\ q.tiny
       /\ CompactCommandBytes <= TotalPayloadCap
    THEN Plan("lora_direct", WithinBudget(q.class, CompactCommandBytes, "lora_direct"))
    ELSE Failure

MaintenancePlan(info) ==
    IF RoleOf(info.lease) # "sleepy_leaf" THEN Plan(Label(info.lease), FALSE)
    ELSE IF Supports(info, "ble_maintenance") THEN Plan("ble_maintenance", TRUE) ELSE Failure

UnclassedPlan(info) ==
    IF Label(info.lease) \in LoRaBearers THEN Failure ELSE Plan(Label(info.lease), TRUE)

(* planLoRaRelayOneHop asks for another node's lease. *)
Relayed(q) == q.class = "lora_relay_1" /\ q.relay \notin {Nobody, q.target}

(* planOutboundRoute; info is what was read of the target, via of the      *)
(* relay.                                                                  *)
PlanRoute(q, info, via) ==
    IF q.target = Nobody THEN Plan("host_local", TRUE)
    ELSE IF ~Consistent(info) \/ q.class \notin Classes \cup {Unclassed} THEN Failure
    ELSE IF q.class = Unclassed THEN UnclassedPlan(info)
    ELSE IF q.class = "sleepy_tiny_control" THEN TinyPlan(q, info)
    ELSE IF q.class = "maintenance_sync" THEN MaintenancePlan(info)
    ELSE IF ~Relayed(q) THEN PolicyPlan(q, info.lease, 0)
    ELSE IF Consistent(via) THEN PolicyPlan(q, via.lease, ShortOf(info.lease)) ELSE Failure
=============================================================================
