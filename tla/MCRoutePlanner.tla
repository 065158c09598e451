--------------------------- MODULE MCRoutePlanner ---------------------------
(* Small instances of the route planner: a sleeping leaf and a relay.      *)
EXTENDS RoutePlanner

CONSTANTS leaf, hop

Battery == [sleepy |-> TRUE, roles |-> {"sleepy_leaf"}, bearers |-> {"lora", "ble_maintenance"}]
Mains == [sleepy |-> FALSE, roles |-> {}, bearers |-> {"lora", "wifi"}]

(* The relay once its radio is gone. *)
Deaf == [sleepy |-> FALSE, roles |-> {}, bearers |-> {"wifi"}]

MCManifests == (leaf :> {Battery}) @@ (hop :> {Mains, Deaf})

Lease(role, bearer, short) == [role |-> role, bearer |-> bearer, fallback |-> "", short |-> short]

MCLeases ==
    (leaf :> {Lease("sleepy_leaf", "lora", 1), Lease("lora_relay", "lora_relay", 2)})
    @@ (hop :> {Lease("lora_relay", "lora_relay", 2)})

(* A leaf is given a relay's bearer. *)
MCRelayingLeases == (leaf :> {Lease("sleepy_leaf", "lora_relay", 1)}) @@ (hop :> {})

Request(target, class, kind, representable, declared, relay) ==
    [target |-> target, class |-> class, kind |-> kind, representable |-> representable,
     declared |-> declared, mode |-> "field-alpha", tiny |-> kind = "command", relay |-> relay,
     finalShort |-> 9, allow |-> "unset", hopLimit |-> Unset, hopCount |-> Unset]

MCEnvelopes ==
    [valve |-> Request(leaf, "lora_relay_1", "command", FALSE, 3, hop),
     alert |-> Request(hop, "redundant_critical", "event", FALSE, 7, Nobody)]

(* An event for the leaf. *)
MCAlert == [alert |-> Request(leaf, "redundant_critical", "event", TRUE, 0, Nobody)]
=============================================================================
