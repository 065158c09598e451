---------------------------- MODULE MCHostSpool -----------------------------
(* Small instances of the Host Agent.                                      *)
EXTENDS HostSpool

CONSTANTS m1, m2, m3, frame, t1, t2, agent1, agent2

(* m1 and m2 were decoded from the same on-air frame. *)
MCKey == [m \in Messages |-> IF m \in {m1, m2} THEN frame ELSE NoKey]

OneProcess == [t \in Threads |-> agent1]
=============================================================================
