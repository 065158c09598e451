--------------------------- MODULE MCGatewayHead ---------------------------
(***************************************************************************)
(* A small instance of GatewayHead.  What a behaviour does is settled by   *)
(* what the host writes, before any of it is read: with a write cut short  *)
(* or a stray magic byte it is about the USB link and the radio stays as   *)
(* it is; without, it is about both.                                       *)
(***************************************************************************)
EXTENDS GatewayHead

\* The host is ahead of the USB task: a read finds ChunkSizes bytes, or the rest.
WrittenFirst ==
    written' # written => written = Len(wire) /\ pc = "check" /\ arrived = 0 /\ faults = 0

FewStrays == Cardinality(strays') <= 1

Plainly == cuts = {} /\ strays = {}

OneConcern == WrittenFirst /\ FewStrays /\ (air' # air => Plainly)
=============================================================================
