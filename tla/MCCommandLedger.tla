-------------------------- MODULE MCCommandLedger ---------------------------
(* Small instances of the command ledger.                                  *)
EXTENDS CommandLedger

CONSTANTS a, b, p, leaf, motor

MCTarget == [c \in Commands |-> IF c = p THEN motor ELSE leaf]

(* p carries a token of its caller's choice, the one a and b collide on. *)
MCGiven == [c \in Commands |-> IF c = p THEN MaxToken ELSE 0]
MCHash == [c \in Commands |-> MaxToken]

(* b has an expiry time. *)
MCEpoch == [c \in Commands |-> IF c = b THEN "expires" ELSE ""]

(* Bound: p has a node to itself and its place among the rows does not     *)
(* matter; it is the oldest or not there.                                   *)
OldestIfAny == p \in Recorded => rows[1] = p

Symmetry == Permutations(Clients)
=============================================================================
