----------------------------- MODULE LatestState ----------------------------
(***************************************************************************)
(* The projection latest_state of internal/siterouter/router.go: which of  *)
(* two states of one subject is the newer, what an arriving state does to  *)
(* the row, and how the row is rebuilt from the messages kept.             *)
(*                                                                         *)
(* A state is a record: at (occurred_at; 0 when the envelope has none),    *)
(* session (session_id), seq (seq_local; -1 when absent), rank (the place  *)
(* of the message id in the order of strings) and subject.                 *)
(***************************************************************************)
EXTENDS Integers, Sequences, SequencesExt

CONSTANTS NoSession,  \* the empty session_id
          NoRow       \* no row in latest_state

(* compareStateOrder(a, b) > 0 *)
Newer(a, b) ==
    LET together == a.session = b.session /\ a.session # NoSession
    IN  \/ a.at > b.at
        \/ /\ a.at = b.at
           /\ \/ together /\ a.seq > b.seq
              \/ (together => a.seq = b.seq) /\ a.rank > b.rank

(* Mutant of Upserted: what arrives last is current. *)
Overwritten(row, e) == e

(* upsertLatestState on the row of the state's subject. *)
Upserted(row, e) == IF row = NoRow \/ Newer(e, row) THEN e ELSE row

(* stateCandidateOccurredAt: a message without a time counts from when it  *)
(* was persisted.                                                          *)
Dated(m) == IF m.env.at = 0 THEN [m.env EXCEPT !.at = m.at] ELSE m.env

(* One step of the insertion sort that sort.SliceStable runs on up to 20   *)
(* items: the item moves left past every newer one.                        *)
Placed(sorted, e) ==
    LET k == CHOOSE j \in 0 .. Len(sorted) :
                /\ \A i \in j + 1 .. Len(sorted) : Newer(sorted[i], e)
                /\ j = 0 \/ ~Newer(sorted[j], e)
    IN  InsertAt(sorted, k + 1, e)

(* RebuildLatestState: all messages of kind state, in table order, are     *)
(* sorted and then upserted one by one; this is the row of subject s.      *)
Rebuilt(kept, s) ==
    LET candidates == [i \in DOMAIN kept |-> Dated(kept[i])]
        sorted == FoldLeft(Placed, <<>>, candidates)
        Taken(row, e) == IF e.subject = s THEN Upserted(row, e) ELSE row
    IN  FoldLeft(Taken, NoRow, sorted)
=============================================================================
