---------------------------- MODULE TokenMemory -----------------------------
(***************************************************************************)
(* What a node that obeys commands promises about their tokens: a token it *)
(* took is not taken again before RingSize other ones were.  A reset makes *)
(* it forget.                                                              *)
(***************************************************************************)
EXTENDS Naturals, Sequences

CONSTANTS Tokens, RingSize

VARIABLE log  \* the tokens taken since the last reset

(* The last RingSize tokens. *)
Recent == {log[k] : k \in {j \in 1 .. Len(log) : j + RingSize > Len(log)}}

Init == log = <<>>

Take(t) ==
    /\ t \notin Recent
    /\ log' = Append(log, t)

Forget == log' = <<>>

Next == Forget \/ \E t \in Tokens : Take(t)

Spec == Init /\ [][Next]_log
=============================================================================
