---------------------------- MODULE MCSleepyLeaf ----------------------------
(* Small instances of one sleeping node.                                   *)
EXTENDS SleepyLeaf

CONSTANTS on, off, set, odd, bad

(* A token of its own for every command but the malformed one. *)
MCToken == [c \in Commands |->
    CASE c = on -> 1 [] c = off -> 2 [] c = set -> 3 [] c = odd -> 4 [] c = bad -> 0]

MCKind == [c \in Commands |->
    CASE c = on -> "maintenance_on" [] c = off -> "maintenance_off" [] c = odd -> "unknown" [] OTHER -> "set"]
=============================================================================
