----------------------------- MODULE SleepyLeaf -----------------------------
(***************************************************************************)
(* The wake cycle of a sleeping node (firmware/esp-idf/node-sdk/main):     *)
(* publish "awake", keep a receive window open, obey commands once, publish*)
(* "sleep", sleep.  In deep sleep the RAM is lost and only the RTC copy    *)
(* survives; a reset for any other reason reloads the RTC memory as well   *)
(* (external: the ESP-IDF start-up code).                                  *)
(*                                                                         *)
(* The policy task runs the cycle; other tasks may call the public         *)
(* functions of sleepy_policy.c, which take the state lock.  One section   *)
(* under the lock is one action.                                           *)
(***************************************************************************)
EXTENDS Naturals, Sequences

CONSTANTS Commands,       \* commands the network holds for this node
          Token,          \* Token[c]: its 16-bit token; 0 is malformed
          Kind,           \* Kind[c]: what it asks for
          RingSize,       \* SLEEPY_RECENT_COMMAND_TOKEN_CACHE_SIZE
          MaxCycles,      \* maintenance_max_cycles
          SeqMod,         \* 256: next_sequence is a uint8_t
          RxTicks, MaintenanceTicks, PollTicks,  \* windows, in loop turns
          Persist,        \* ENABLE_RTC_PERSISTENCE
          DeepSleep,      \* USE_DEEP_SLEEP
          MaxDeliveries,  \* bound: times one command is received
          MaxResets,      \* bound: resets
          NoRtc           \* an RTC copy whose magic, version or checksum fails

ASSUME SleepyLeafAssumption ==
    /\ Token \in [Commands -> Nat]
    /\ Kind \in [Commands -> {"maintenance_on", "maintenance_off", "set", "unknown"}]
    /\ RingSize \in Nat \ {0} /\ MaxCycles \in Nat \ {0} /\ SeqMod \in Nat \ {0}
    /\ {RxTicks, MaintenanceTicks, PollTicks} \subseteq Nat \ {0}
    /\ {Persist, DeepSleep} \subseteq BOOLEAN
    /\ {MaxDeliveries, MaxResets} \subseteq Nat

VARIABLES
    pc,         \* where the policy task is
    ring,       \* recent_command_tokens; 0 is an empty slot
    cursor,     \* recent_command_cursor
    awake,      \* maintenance_awake
    cycles,     \* maintenance_cycles_remaining
    seq,        \* next_sequence
    left,       \* loop turns until the deadline of the open window
    reply,      \* the command whose result is to be sent, as <<c, phase>>
    rtc,        \* s_rtc_state
    deliveries, \* times each command was received
    resets,     \* resets so far
    log,        \* history: tokens recorded since the last reset
    uplinks,    \* history: frames sent since the last reset, modulo SeqMod
    long        \* history: maintenance windows since maintenance was enabled

ram == <<ring, cursor, awake, cycles, seq>>
history == <<log, uplinks, long>>
vars == <<pc, ram, left, reply, rtc, deliveries, resets, history>>

Slots == 0 .. RingSize - 1
Tokens == {Token[c] : c \in Commands}
Pc == {"boot", "wake", "open", "window", "reply", "finish", "sleep", "down"}
Phase == {"succeeded", "rejected", "expired"}

EmptyRing == [k \in Slots |-> 0]

Rtc == [seq : 0 .. SeqMod - 1, cycles : 0 .. MaxCycles, cursor : Slots,
        ring : [Slots -> Tokens \cup {0}]]

ASSUME NoRtcAssumption == NoRtc \notin Rtc

-----------------------------------------------------------------------------
(* Pieces of the handlers.  SaveRtc stands last in an action: it copies    *)
(* the new RAM.                                                            *)
SaveRtc ==
    rtc' = IF Persist THEN [seq |-> seq', cycles |-> cycles', cursor |-> cursor', ring |-> ring']
                      ELSE rtc

TakeNextSequence ==
    /\ seq' = (seq + 1) % SeqMod
    /\ uplinks' = (uplinks + 1) % SeqMod

Seen(t) == t # 0 /\ \E k \in Slots : ring[k] = t

(* Mutant of RecordRecent: the cursor does not wrap. *)
RecordWithoutWrap(t) ==
    /\ ring' = [ring EXCEPT ![cursor] = t]
    /\ cursor' = cursor + 1
    /\ log' = Append(log, t)

RecordRecent(t) ==
    /\ ring' = [ring EXCEPT ![cursor] = t]
    /\ cursor' = (cursor + 1) % RingSize
    /\ log' = Append(log, t)

EnableMaintenance == awake' = TRUE /\ cycles' = MaxCycles /\ long' = 0
DisableMaintenance == awake' = FALSE /\ cycles' = 0 /\ UNCHANGED long

ColdRam ==
    /\ ring' = EmptyRing /\ cursor' = 0
    /\ awake' = FALSE /\ cycles' = 0
    /\ seq' = 0

Init ==
    /\ pc = "boot"
    /\ ring = EmptyRing /\ cursor = 0
    /\ awake = FALSE /\ cycles = 0
    /\ seq = 0
    /\ left = 0
    /\ reply = <<>>
    /\ rtc = NoRtc
    /\ deliveries = [c \in Commands |-> 0]
    /\ resets = 0
    /\ log = <<>> /\ uplinks = 0 /\ long = 0

-----------------------------------------------------------------------------
(* The cycle.                                                              *)

(* Mutant of ApplyDefaults: the ring comes back without its cursor. *)
RestoreWithoutCursor ==
    /\ pc = "boot"
    /\ pc' = "wake"
    /\ IF Persist /\ rtc # NoRtc
       THEN /\ seq' = rtc.seq /\ cycles' = rtc.cycles /\ awake' = (rtc.cycles > 0)
            /\ ring' = rtc.ring
            /\ UNCHANGED <<cursor, rtc>>
       ELSE UNCHANGED ram /\ SaveRtc
    /\ UNCHANGED <<left, reply, deliveries, resets, history>>

(* sleepy_policy_apply_defaults: restore, or start over with a new copy. *)
ApplyDefaults ==
    /\ pc = "boot"
    /\ pc' = "wake"
    /\ IF Persist /\ rtc # NoRtc
       THEN /\ seq' = rtc.seq /\ cycles' = rtc.cycles /\ awake' = (rtc.cycles > 0)
            /\ cursor' = rtc.cursor % RingSize
            /\ ring' = rtc.ring
            /\ UNCHANGED rtc
       ELSE UNCHANGED ram /\ SaveRtc
    /\ UNCHANGED <<left, reply, deliveries, resets, history>>

(* Mutant of Uplink: the sequence is saved with the end of the cycle only. *)
UplinkUnsaved ==
    /\ TakeNextSequence
    /\ UNCHANGED <<ring, cursor, awake, cycles, rtc>>

(* Any frame: the number is taken and saved before the frame is sent. *)
Uplink ==
    /\ TakeNextSequence
    /\ UNCHANGED <<ring, cursor, awake, cycles>>
    /\ SaveRtc

PublishAwake ==
    /\ pc = "wake"
    /\ pc' = "open"
    /\ Uplink
    /\ UNCHANGED <<left, reply, deliveries, resets, log, long>>

OpenDownlinkWindow ==
    /\ pc = "open"
    /\ pc' = "window"
    /\ left' = IF awake THEN MaintenanceTicks ELSE RxTicks
    /\ long' = IF awake THEN long + 1 ELSE long
    /\ UNCHANGED <<ram, reply, rtc, deliveries, resets, log, uplinks>>

(* Mutant of WindowTick: no deadline while in maintenance. *)
TickUnlessAwake ==
    /\ pc = "window" /\ left > 0 /\ ~awake
    /\ left' = left - 1
    /\ UNCHANGED <<pc, ram, reply, rtc, deliveries, resets, history>>

(* A turn of the receive loop without a frame. *)
WindowTick ==
    /\ pc = "window" /\ left > 0
    /\ left' = left - 1
    /\ UNCHANGED <<pc, ram, reply, rtc, deliveries, resets, history>>

(* A digest with pending commands is answered by a poll, and only if that  *)
(* could be sent the deadline is set anew.                                 *)
ReceiveDigest ==
    /\ pc = "window" /\ left > 0
    /\ Uplink
    /\ left' \in {left, PollTicks}
    /\ UNCHANGED <<pc, reply, deliveries, resets, log, long>>

Replying(c, phase) == pc' = "reply" /\ reply' = <<c, phase>>

(* Expired or unknown commands are recorded and refused. *)
Refuse(c, phase) ==
    /\ Replying(c, phase)
    /\ RecordRecent(Token[c])
    /\ UNCHANGED <<awake, cycles, seq, uplinks, long>>
    /\ SaveRtc

(* Applied, recorded and saved in one section under the lock; the result   *)
(* is sent after it.                                                       *)
Obey(c) ==
    /\ CASE Kind[c] = "maintenance_on" -> EnableMaintenance
         [] Kind[c] = "maintenance_off" -> DisableMaintenance
         [] OTHER -> UNCHANGED <<awake, cycles, long>>
    /\ RecordRecent(Token[c])
    /\ Replying(c, "succeeded")
    /\ UNCHANGED <<seq, uplinks>>
    /\ SaveRtc

(* sleepy_apply_compact_command; expired: expires_in_sec is 0. *)
ReceiveCommand(c, expired) ==
    /\ pc = "window" /\ left > 0
    /\ deliveries[c] < MaxDeliveries
    /\ deliveries' = [deliveries EXCEPT ![c] = @ + 1]
    /\ \/ /\ Token[c] = 0
          /\ Replying(c, "rejected")
          /\ UNCHANGED <<ram, rtc, history>>
       \/ /\ Seen(Token[c])
          /\ UNCHANGED <<pc, ram, reply, rtc, history>>
       \/ /\ Token[c] # 0 /\ ~Seen(Token[c])
          /\ CASE expired -> Refuse(c, "expired")
               [] ~expired /\ Kind[c] = "unknown" -> Refuse(c, "rejected")
               [] OTHER -> Obey(c)
    /\ UNCHANGED <<left, resets>>

SendResult ==
    /\ pc = "reply"
    /\ pc' = "window"
    /\ reply' = <<>>
    /\ Uplink
    /\ UNCHANGED <<left, deliveries, resets, log, long>>

CloseWindow ==
    /\ pc = "window" /\ left = 0
    /\ pc' = "finish"
    /\ UNCHANGED <<ram, left, reply, rtc, deliveries, resets, history>>

(* Mutant of FinishCycle: the countdown ends, the mode does not. *)
FinishStaysAwake ==
    /\ pc = "finish"
    /\ pc' = "sleep"
    /\ cycles' = IF awake /\ cycles > 0 THEN cycles - 1 ELSE cycles
    /\ UNCHANGED <<ring, cursor, awake, seq>>
    /\ SaveRtc
    /\ UNCHANGED <<left, reply, deliveries, resets, history>>

FinishCycle ==
    /\ pc = "finish"
    /\ pc' = "sleep"
    /\ cycles' = IF awake /\ cycles > 0 THEN cycles - 1 ELSE cycles
    /\ awake' = (awake /\ cycles' > 0)
    /\ UNCHANGED <<ring, cursor, seq>>
    /\ SaveRtc
    /\ UNCHANGED <<left, reply, deliveries, resets, history>>

PublishSleep ==
    /\ pc = "sleep"
    /\ pc' = "down"
    /\ Uplink
    /\ UNCHANGED <<left, reply, deliveries, resets, log, long>>

(* Deep sleep starts the program anew, light sleep continues the loop. *)
SleepUntilTimer ==
    /\ pc = "down"
    /\ IF DeepSleep THEN pc' = "boot" /\ ColdRam ELSE pc' = "wake" /\ UNCHANGED ram
    /\ UNCHANGED <<left, reply, rtc, deliveries, resets, history>>

-----------------------------------------------------------------------------
(* Other tasks.                                                            *)

SetMaintenanceAwake(enabled) ==
    /\ pc # "boot"
    /\ IF enabled THEN EnableMaintenance ELSE DisableMaintenance
    /\ UNCHANGED <<ring, cursor, seq>>
    /\ SaveRtc
    /\ UNCHANGED <<pc, left, reply, deliveries, resets, log, uplinks>>

EmitEvent ==
    /\ pc # "boot"
    /\ Uplink
    /\ UNCHANGED <<pc, left, reply, deliveries, resets, log, long>>

(* Power loss, watchdog, or ESP_ERROR_CHECK on a failed uplink. *)
Reset ==
    /\ resets < MaxResets
    /\ resets' = resets + 1
    /\ pc' = "boot"
    /\ ColdRam
    /\ left' = 0 /\ reply' = <<>>
    /\ rtc' = NoRtc
    /\ log' = <<>> /\ uplinks' = 0 /\ long' = 0
    /\ UNCHANGED deliveries

Cycle ==
    \/ ApplyDefaults
    \/ PublishAwake
    \/ OpenDownlinkWindow
    \/ SendResult
    \/ CloseWindow
    \/ FinishCycle
    \/ PublishSleep
    \/ SleepUntilTimer

Next ==
    \/ Cycle
    \/ WindowTick
    \/ ReceiveDigest
    \/ \E c \in Commands, expired \in BOOLEAN : ReceiveCommand(c, expired)
    \/ \E enabled \in BOOLEAN : SetMaintenanceAwake(enabled)
    \/ EmitEvent
    \/ Reset

Spec == Init /\ [][Next]_vars

(* The policy task runs and time passes; nothing is assumed of the radio.  *)
FairSpec == Spec /\ WF_vars(Cycle) /\ WF_vars(WindowTick)

-----------------------------------------------------------------------------
(* Properties.                                                             *)

TypeOK ==
    /\ pc \in Pc
    /\ ring \in [Slots -> Tokens \cup {0}]
    /\ cursor \in Slots
    /\ awake \in BOOLEAN
    /\ cycles \in 0 .. MaxCycles
    /\ seq \in 0 .. SeqMod - 1
    /\ left \in Nat
    /\ reply \in (Commands \X Phase) \cup {<<>>}
    /\ rtc \in Rtc \cup {NoRtc}
    /\ deliveries \in [Commands -> Nat]
    /\ resets \in Nat
    /\ log \in Seq(Tokens)
    /\ uplinks \in 0 .. SeqMod - 1
    /\ long \in Nat

(* A command token that was obeyed or refused is not taken again before    *)
(* RingSize other ones were, deep sleep or not.                            *)
NoEarlyRepeat ==
    \A j, k \in 1 .. Len(log) : j < k /\ log[j] = log[k] => k - j > RingSize

(* The node implements the promise the rest of the system relies on. *)
Promise == INSTANCE TokenMemory
KeepsTokens == Promise!Spec

(* Maintenance ends by itself: after it was enabled at most MaxCycles long *)
(* windows are opened, across deep sleep.                                  *)
MaintenanceBounded == long <= MaxCycles /\ (awake <=> cycles > 0)

(* No sequence number is skipped or used twice in a row of uplinks, by     *)
(* whichever task they are sent and whether the node slept in between.     *)
SequenceContinues == pc # "boot" => seq = uplinks

(* Once the digests stop, an open window is followed by sleep, whatever    *)
(* commands, resets and calls of other tasks come in between.              *)
DigestsStop == <>[][~ReceiveDigest]_vars
QuietWindowCloses == DigestsStop => (pc = "window" ~> pc = "sleep")
=============================================================================
