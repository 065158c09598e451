----------------------------- MODULE UsbParser -----------------------------
(***************************************************************************)
(* The frame parser of the USB link (components/fabric_proto).  A frame is *)
(* shortened to two magic symbols, its length, a payload and one check     *)
(* symbol.  A symbol carries where it stands in the stream (at), where the *)
(* frame it was written for begins and ends (of), which magic byte it      *)
(* reads as (is) and which length (n).                                     *)
(***************************************************************************)
EXTENDS Naturals, Sequences

CONSTANT MaxTotal   \* max_frame_len: the longest frame taken

Overhead == 4       \* of a frame around its payload

\* A frame written from position p on; body is what its payload and its check
\* symbol read as.  A symbol that is not the length may be read as one by a parser
\* that is out of step: then it says junk.
Frame(p, body, junk) ==
    LET reads == <<"first", "second", "plain">> \o body
    IN [i \in 1 .. Len(reads) |->
            [at |-> p + i - 1, of |-> <<p, p + Len(reads) - 1>>, is |-> reads[i],
             n |-> IF i = 3 THEN Len(body) - 1 ELSE junk]]

\* A symbol that is not the magic expected is dropped, with a first one before it.
Skipped(buffer, s) ==
    \/ buffer = <<>> /\ s.is # "first"
    \/ Len(buffer) = 1 /\ s.is # "second"

Taken(buffer, s) == IF Skipped(buffer, s) THEN <<>> ELSE Append(buffer, s)

Sized(b) == Len(b) >= 3
Total(b) == Overhead + b[3].n
TooLong(b) == Sized(b) /\ Total(b) > MaxTotal
Complete(b) == Sized(b) /\ ~TooLong(b) /\ Len(b) = Total(b)

\* The checksum is right for the symbols of one frame, from its first on.
Checks(b) == \A k \in DOMAIN b : b[k].of = b[1].of /\ b[k].at = b[1].of[1] + k - 1

(* Mutant of FrameReady: the checksum is not compared. *)
FrameComplete(b) == Complete(b)

FrameReady(b) == Complete(b) /\ Checks(b)

(* Mutant of Kept: only a good frame empties the buffer. *)
KeptUnlessReady(b) == IF TooLong(b) \/ FrameReady(b) THEN <<>> ELSE b

Kept(b) == IF TooLong(b) \/ Complete(b) THEN <<>> ELSE b
=============================================================================
