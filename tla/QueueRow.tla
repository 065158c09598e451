------------------------------ MODULE QueueRow ------------------------------
(***************************************************************************)
(* What the outbox promises to whoever enqueued one message, whatever the  *)
(* dispatchers, their crashes and the retention do: the message is handed  *)
(* out in at most Rounds rounds, each to one worker, transmitted at most   *)
(* once per round granted, and its phase follows what was heard from the   *)
(* field.  A worker whose round is over may still transmit: its frame is   *)
(* already on the way.                                                     *)
(***************************************************************************)
EXTENDS Naturals

CONSTANTS Workers, NoOne, Rounds

VARIABLES phase,    \* where the message stands
          holder,   \* the worker of the current round
          round,    \* rounds granted
          sent,     \* transmissions
          heard     \* what the transport answered, in any round

vars == <<phase, holder, round, sent, heard>>

Answer == {"sent", "acked", "retry", "permanent", "unknown"}

Init == phase = "none" /\ holder = NoOne /\ round = 0 /\ sent = 0 /\ heard = {}

Accept ==
    /\ phase = "none"
    /\ phase' = "waiting"
    /\ UNCHANGED <<holder, round, sent, heard>>

Grant(w) ==
    /\ phase = "waiting" /\ round < Rounds
    /\ phase' = "held"
    /\ holder' = w
    /\ round' = round + 1
    /\ UNCHANGED <<sent, heard>>

Transmit(a) ==
    /\ sent < round
    /\ sent' = sent + 1
    /\ heard' = heard \cup {a}
    /\ UNCHANGED <<phase, holder, round>>

(* The message cannot be put into a frame. *)
Refuse ==
    /\ round > 0
    /\ heard' = heard \cup {"permanent"}
    /\ UNCHANGED <<phase, holder, round, sent>>

(* Nothing but an answer moves the message on.  A buried message may come  *)
(* back, through the holder that was late; an acknowledged one may not.    *)
Report(s) ==
    /\ phase \in {"held", "sent", "dead"}
    /\ CASE s = "held" -> TRUE
         [] s = "sent" -> heard \cap {"sent", "acked"} # {}
         [] s = "acked" -> "acked" \in heard
         [] s = "dead" -> "permanent" \in heard
    /\ phase' = s
    /\ UNCHANGED <<holder, round, sent, heard>>

(* A round ends without a result: another one, or none is left. *)
GiveBack ==
    /\ phase \in {"held", "sent"} /\ round < Rounds
    /\ phase' = "waiting"
    /\ holder' = NoOne
    /\ UNCHANGED <<round, sent, heard>>

Bury ==
    /\ phase \in {"held", "sent"} /\ round = Rounds
    /\ phase' = "dead"
    /\ UNCHANGED <<holder, round, sent, heard>>

Drop ==
    /\ phase = "dead"
    /\ phase' = "none" /\ holder' = NoOne /\ round' = 0 /\ sent' = 0 /\ heard' = {}

Next ==
    \/ Accept
    \/ \E w \in Workers : Grant(w)
    \/ \E a \in Answer : Transmit(a)
    \/ Refuse
    \/ \E s \in {"held", "sent", "acked", "dead"} : Report(s)
    \/ GiveBack
    \/ Bury
    \/ Drop

Spec == Init /\ [][Next]_vars
=============================================================================
