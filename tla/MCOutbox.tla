------------------------------ MODULE MCOutbox ------------------------------
(* Small instances of the outbox: a router worker and a host agent with    *)
(* their own worker ids.                                                   *)
EXTENDS Outbox, TLC

CONSTANTS r1, h1, i1, w1, w2

MCKind == [p \in Procs |-> IF p = r1 THEN "router" ELSE "host"]

(* Every process has a worker id of its own. *)
MCOwnIDs == [p \in Procs |-> IF p = r1 THEN w1 ELSE w2]

MCLimit == [p \in Procs |-> 1]

MCUrgency == [i \in Items |-> 0]
=============================================================================
