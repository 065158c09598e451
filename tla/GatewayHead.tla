---------------------------- MODULE GatewayHead ----------------------------
(***************************************************************************)
(* The gateway head (firmware/esp-idf/gateway-head) with its USB link, the *)
(* TinyUSB backend and the SX1262 backend.  Two tasks: the USB task, whose *)
(* callback fills a bounded queue of chunks, and the runtime task, whose   *)
(* poll serves the USB link, the radio, one frame from the host and one    *)
(* frame from the air.  The host writes frames and may be stopped in one;  *)
(* the radio chip receives and transmits by itself (external).             *)
(*                                                                         *)
(* An error in a step of the poll ends the poll: the next begins at the    *)
(* top.                                                                    *)
(***************************************************************************)
EXTENDS UsbParser, FiniteSets

CONSTANTS ChunkSizes,  \* bytes one read may find; an item of the backend's queue holds 64
          ChunkDepth,  \* items in it (16)
          RxDepth,     \* rx_queue_depth of the link (4)
          RadioDepth,  \* items in the radio's queue (4)
          Bodies,      \* what symbols of a payload and the check symbol read as
          Junk,        \* what a parser out of step reads as a length
          MaxFrames, MaxCuts,    \* bounds: frames written, writes cut short
          MaxPackets, MaxFaults  \* bounds: packets on the air, failing SPI transfers

ASSUME GatewayHeadAssumption ==
    /\ {MaxTotal, ChunkDepth, RxDepth, RadioDepth} \subseteq Nat \ {0}
    /\ ChunkSizes \subseteq Nat \ {0}
    /\ Bodies \subseteq {"first", "second", "plain"} /\ Junk \subseteq Nat
    /\ {MaxFrames, MaxCuts, MaxPackets, MaxFaults} \subseteq Nat

VARIABLES
    wire,       \* written by the host and not yet read
    chunks,     \* s_rx_queue of the backend
    overflowed, \* s_rx_queue_overflowed
    callback,   \* where the USB task is
    pc,         \* where the runtime task is
    hand,       \* the chunk being parsed, from the next symbol on
    buffer,     \* s_parser
    rx,         \* s_rx_queue of the link: the starts of its frames
    chip,       \* the radio: its mode and the packet received, 0 for none
    radio,      \* s_rx_queue of the radio HAL
    faults,     \* SPI transfers that failed
    written,    \* history: symbols written
    whole,      \* history: start and end of each frame written in full
    cuts,       \* history: where a write was cut short
    strays,     \* history: symbols after a header that read as magic
    gone,       \* history: symbols dropped because a queue was full
    handled,    \* history: frames taken up, in order
    arrived     \* packets received

host == <<wire, written, whole, cuts, strays>>
backend == <<chunks, overflowed, callback>>
link == <<hand, buffer, rx>>
air == <<chip, radio, faults, arrived>>
vars == <<pc, host, backend, link, air, gone, handled>>

Positions(s) == {s[i].at : i \in DOMAIN s}

Init ==
    /\ pc = "check" /\ callback = "idle"
    /\ wire = <<>> /\ chunks = <<>> /\ hand = <<>> /\ buffer = <<>> /\ rx = <<>>
    /\ overflowed = FALSE
    /\ chip = [mode |-> "rx", got |-> 0] /\ radio = <<>>
    /\ faults = 0 /\ written = 0 /\ arrived = 0
    /\ whole = {} /\ cuts = {} /\ strays = {} /\ gone = {}
    /\ handled = <<>>

-----------------------------------------------------------------------------
(* The host (internal/hostagent) and the USB task.                         *)

Written == UNION {[1 .. n + 1 -> Bodies] : n \in 0 .. MaxTotal - Overhead}

Put(symbols) ==
    /\ wire' = wire \o symbols /\ written' = written + Len(symbols)
    /\ strays' = strays \cup {s \in Positions(symbols) :
                                \E i \in 4 .. Len(symbols) : symbols[i].at = s /\ symbols[i].is = "first"}
    /\ UNCHANGED <<pc, backend, link, air, gone, handled>>

Write ==
    /\ Cardinality(whole) < MaxFrames
    /\ \E body \in Written, junk \in Junk :
          LET f == Frame(written, body, junk)
          IN Put(f) /\ whole' = whole \cup {f[1].of}
    /\ UNCHANGED cuts

\* The host program or its machine stops in the middle of a frame.
WriteCut ==
    /\ Cardinality(cuts) < MaxCuts
    /\ \E body \in Written, junk \in Junk :
          LET f == Frame(written, body, junk)
          IN \E k \in 1 .. Len(f) - 1 :
                Put(SubSeq(f, 1, k)) /\ cuts' = cuts \cup {written + k - 1}
    /\ UNCHANGED whole

\* usb_tinyusb_rx_callback reads what is there and queues it, or drops it and
\* raises the flag.  After a drop or a short read the rest waits for the next
\* event, so nothing says when it is read.
Receive ==
    /\ callback = "idle" /\ wire # <<>>
    /\ \E size \in ChunkSizes :
          LET k == IF size < Len(wire) THEN size ELSE Len(wire)
              chunk == SubSeq(wire, 1, k)
          IN /\ wire' = SubSeq(wire, k + 1, Len(wire))
             /\ \/ /\ Len(chunks) < ChunkDepth
                   /\ chunks' = Append(chunks, chunk)
                   /\ UNCHANGED <<callback, gone>>
                \/ /\ Len(chunks) = ChunkDepth
                   /\ callback' = "mark" /\ gone' = gone \cup Positions(chunk)
                   /\ UNCHANGED chunks
    /\ UNCHANGED <<pc, written, whole, cuts, strays, overflowed, link, air, handled>>

Mark ==
    /\ callback = "mark" /\ callback' = "idle" /\ overflowed' = TRUE
    /\ UNCHANGED <<pc, host, chunks, link, air, gone, handled>>

-----------------------------------------------------------------------------
(* usb_link_service: chunks are parsed until there is none.                *)

Check ==
    /\ pc = "check" /\ pc' = (IF overflowed THEN "reset" ELSE "fetch")
    /\ overflowed' = FALSE
    /\ UNCHANGED <<host, chunks, callback, link, air, gone, handled>>

(* Mutant of ResetParser: the chunks are dropped and the parser goes on. *)
ResetNothing ==
    /\ pc = "reset" /\ pc' = "drain"
    /\ UNCHANGED <<host, backend, link, air, gone, handled>>

ResetParser ==
    /\ pc = "reset" /\ pc' = "drain"
    /\ buffer' = <<>> /\ gone' = gone \cup Positions(buffer)
    /\ UNCHANGED <<host, backend, hand, rx, air, handled>>

Drain ==
    /\ pc = "drain"
    /\ \/ /\ chunks = <<>> /\ pc' = "radio"
          /\ UNCHANGED <<chunks, gone>>
       \/ /\ chunks # <<>> /\ chunks' = Tail(chunks)
          /\ gone' = gone \cup Positions(Head(chunks))
          /\ UNCHANGED pc
    /\ UNCHANGED <<host, overflowed, callback, link, air, handled>>

Fetch ==
    /\ pc = "fetch"
    /\ \/ /\ chunks = <<>> /\ pc' = "radio"
          /\ UNCHANGED <<chunks, hand>>
       \/ /\ chunks # <<>> /\ pc' = "parse"
          /\ hand' = Head(chunks) /\ chunks' = Tail(chunks)
    /\ UNCHANGED <<host, overflowed, callback, buffer, rx, air, gone, handled>>

(* Mutant of RxIsFull: one frame more than the queue has room for. *)
RxIsOverfull == Len(rx) > RxDepth

RxIsFull == Len(rx) = RxDepth

(* Mutant of Parse: a frame that finds the queue full is tried again. *)
ParseAgain ==
    /\ pc = "parse"
    /\ LET b == Taken(buffer, Head(hand))
           full == FrameReady(b) /\ RxIsFull
       IN /\ buffer' = (IF full THEN buffer ELSE Kept(b))
          /\ hand' = (IF full THEN hand ELSE Tail(hand))
          /\ rx' = (IF FrameReady(b) /\ ~full THEN Append(rx, b[1].at) ELSE rx)
    /\ pc' = (IF hand' = <<>> THEN "check" ELSE "parse")
    /\ UNCHANGED <<host, backend, air, gone, handled>>

\* usb_link_inject_rx_bytes, one byte.  A frame that finds the queue full takes
\* the rest of its chunk with it and ends the poll.
Parse ==
    /\ pc = "parse"
    /\ LET b == Taken(buffer, Head(hand))
           full == FrameReady(b) /\ RxIsFull
       IN /\ buffer' = Kept(b)
          /\ hand' = (IF full THEN <<>> ELSE Tail(hand))
          /\ rx' = (IF FrameReady(b) /\ ~full THEN Append(rx, b[1].at) ELSE rx)
          /\ gone' = (IF full THEN gone \cup Positions(b) \cup Positions(hand) ELSE gone)
    /\ pc' = (IF hand' = <<>> THEN "check" ELSE "parse")
    /\ UNCHANGED <<host, backend, air, handled>>

-----------------------------------------------------------------------------
(* The radio.  Receiving goes on until a transmission; when that is over,   *)
(* has timed out or is to be given up ("sent") the poll must let the chip  *)
(* receive again.                                                          *)

\* A packet overwrites one that was not fetched; a damaged one takes it along.
Arrive ==
    /\ chip.mode = "rx" /\ arrived < MaxPackets
    /\ arrived' = arrived + 1
    /\ \E ok \in BOOLEAN : chip' = [chip EXCEPT !.got = IF ok THEN arrived + 1 ELSE 0]
    /\ UNCHANGED <<pc, host, backend, link, radio, faults, gone, handled>>

TxDone ==
    /\ chip.mode = "tx" /\ chip' = [chip EXCEPT !.mode = "sent"]
    /\ UNCHANGED <<pc, host, backend, link, radio, faults, arrived, gone, handled>>

Fault == faults < MaxFaults /\ faults' = faults + 1
Fine == UNCHANGED faults

\* A transfer fails before or after the one that reads, or clears, what the chip
\* has to report.  A transmission whose end is cleared so is never asked for again.
ChipAfterFault ==
    {chip, [mode |-> IF chip.mode = "sent" THEN "deaf" ELSE chip.mode, got |-> 0]}

(* Mutant of Receiving: the end of a transmission is left as it is. *)
StandingBy == [mode |-> "sent", got |-> 0]

Receiving == [mode |-> "rx", got |-> 0]

Reporting == chip.mode = "sent" \/ chip.got # 0

\* radio_hal_service: until the chip has nothing to report, or reports a packet
\* without payload.  sx1262_real_backend_poll_rx tells the chip to receive after
\* each report, in whatever mode it is; a transfer may fail once that is done.
ServeRadio ==
    /\ pc = "radio"
    /\ \/ /\ Fault /\ pc' = "check" /\ UNCHANGED radio
          /\ chip' \in ChipAfterFault \/ (Reporting /\ chip' = Receiving)
       \/ /\ chip.mode = "sent" /\ Fine
          /\ chip' = Receiving /\ pc' = "usb" /\ UNCHANGED radio
       \/ /\ ~Reporting /\ Fine
          /\ pc' = "usb" /\ UNCHANGED <<chip, radio>>
       \/ /\ chip.mode # "sent" /\ chip.got # 0 /\ chip' = Receiving /\ Fine
          /\ \/ Len(radio) < RadioDepth /\ radio' = Append(radio, chip.got) /\ UNCHANGED pc
             \/ Len(radio) = RadioDepth /\ pc' = "check" /\ UNCHANGED radio
             \/ pc' = "usb" /\ UNCHANGED radio
    /\ UNCHANGED <<host, backend, link, arrived, gone, handled>>

\* sx126x_set_tx reaches the chip.  A packet that came after the interrupts were
\* cleared is still reported: the poll that finds it, or finds it damaged, gives
\* the transmission up.
Transmit ==
    \/ chip' = [mode |-> "tx", got |-> 0] /\ UNCHANGED arrived
    \/ /\ chip.mode = "rx" /\ arrived < MaxPackets /\ arrived' = arrived + 1
       /\ chip' \in {[mode |-> "tx", got |-> arrived + 1], [mode |-> "sent", got |-> 0]}

\* One frame from the host: refused or a heartbeat, transmitted, or answered with
\* an error because a transfer failed, be it the chip that stayed busy after it
\* had begun to transmit.  The answer to a frame transmitted may find the host
\* gone, which ends the poll.
HandleUsb ==
    /\ pc = "usb"
    /\ \/ /\ rx = <<>> /\ pc' = "air"
          /\ UNCHANGED <<rx, handled, chip, faults, arrived>>
       \/ /\ rx # <<>> /\ rx' = Tail(rx) /\ handled' = Append(handled, Head(rx))
          /\ \/ Fine /\ UNCHANGED <<chip, arrived>> /\ pc' \in {"check", "air"}
             \/ Fine /\ Transmit /\ pc' \in {"check", "air"}
             \/ /\ Fault /\ pc' = "check"
                /\ Transmit \/ (chip' \in ChipAfterFault /\ UNCHANGED arrived)
    /\ UNCHANGED <<host, backend, hand, buffer, radio, gone>>

\* One frame from the air: nothing the gateway knows, or lost because the host
\* does not listen, or sent to the host; then a heartbeat that may fail.
HandleAir ==
    /\ pc = "air"
    /\ \/ radio = <<>> /\ pc' = "beat" /\ UNCHANGED radio
       \/ radio # <<>> /\ radio' = Tail(radio) /\ pc' \in {"check", "beat"}
    /\ UNCHANGED <<host, backend, link, chip, faults, arrived, gone, handled>>

Heartbeat ==
    /\ pc = "beat" /\ pc' = "check"
    /\ UNCHANGED <<host, backend, link, air, gone, handled>>

Poll == Check \/ ResetParser \/ Drain \/ Fetch \/ Parse
        \/ ServeRadio \/ HandleUsb \/ HandleAir \/ Heartbeat

Next == Write \/ WriteCut \/ Receive \/ Mark \/ Arrive \/ TxDone \/ Poll

Spec == Init /\ [][Next]_vars

\* The runtime task runs, and a transmission ends.  Of the USB task, which waits
\* for the next event of the host, nothing is assumed.
FairSpec == Spec /\ WF_vars(Poll) /\ WF_vars(TxDone)

-----------------------------------------------------------------------------
Symbols == [at : Nat, of : Nat \X Nat, is : {"first", "second", "plain"}, n : Nat]

\* Every variable has its type, and no queue holds more than its depth.
TypeOK ==
    /\ pc \in {"check", "reset", "drain", "fetch", "parse", "radio", "usb", "air", "beat"}
    /\ callback \in {"idle", "mark"} /\ overflowed \in BOOLEAN
    /\ wire \in Seq(Symbols) /\ hand \in Seq(Symbols) /\ buffer \in Seq(Symbols)
    /\ chunks \in Seq(Seq(Symbols)) /\ Len(chunks) <= ChunkDepth
    /\ rx \in Seq(Nat) /\ Len(rx) <= RxDepth /\ handled \in Seq(Nat)
    /\ chip \in [mode : {"rx", "tx", "sent", "deaf"}, got : Nat]
    /\ radio \in Seq(Nat) /\ Len(radio) <= RadioDepth
    /\ {faults, written, arrived} \subseteq Nat
    /\ whole \subseteq Nat \X Nat /\ cuts \subseteq Nat /\ strays \subseteq Nat /\ gone \subseteq Nat

\* What came before a dropped chunk and what came after it never stay together in
\* the parser past the flag that tells of the drop (usb_tinyusb_consume_overflow,
\* usb_link_reset_parser, usb_link_inject_rx_bytes).
NoSplice ==
    ~overflowed /\ pc # "reset" =>
        \A k \in 1 .. Len(buffer) - 1 : buffer[k + 1].at = buffer[k].at + 1

Ascending(s) == \A i, j \in DOMAIN s : i < j => s[i] < s[j]

\* What the gateway takes up for the radio are frames the host wrote in full,
\* each once and in the order written, whatever was cut or dropped in between.
InOrder ==
    /\ Ascending(handled \o rx)
    /\ \A i \in DOMAIN handled : \E f \in whole : f[1] = handled[i]

Waiting == Positions(wire) \cup Positions(hand)
           \cup UNION {Positions(chunks[i]) : i \in DOMAIN chunks}
Got == {handled[i] : i \in DOMAIN handled} \cup {rx[i] : i \in DOMAIN rx}
Lost == {f \in whole : f[1] \notin Got /\ \A p \in Waiting : p > f[2]}

\* The parser resynchronises ("dropping USB RX chunk because queue is full;
\* parser will resync", usb_tinyusb_backend.c:116): a frame is lost only after a
\* chunk was dropped or a write cut short, and only if within one frame's length
\* before it, or in it, there is a dropped symbol, a cut, or a byte of a
\* payload or checksum that reads as magic.
LossIsNear ==
    \A f \in Lost :
        /\ \E c \in gone \cup cuts : c <= f[2]
        /\ \E c \in gone \cup cuts \cup strays : f[1] - MaxTotal < c /\ c <= f[2]

\* After a transmission the radio receives again, unless the transfer that
\* should tell it so fails.
ListensAgain == chip.mode \in {"tx", "sent"} ~> chip.mode \in {"rx", "deaf"}

\* As long as the host pauses in the end, frames do not stay in the queues, the
\* radio does not stay in transmission, and the poll gets to its heartbeat, again
\* and again (gateway_head_runtime_poll_once, radio_hal_service).
KeepsServing == []<>(pc = "beat") /\ []<>(rx = <<>>) /\ []<>(radio = <<>>) /\ ListensAgain
=============================================================================
