-------------------------- MODULE SleepyLeafProofs --------------------------
(* Theorems about the sleeping node, for every ring size, countdown and    *)
(* set of commands.                                                        *)
EXTENDS SleepyLeaf, SequenceTheorems, TLAPS

(* What the RAM holds of what is to survive, and what it holds at a start. *)
Ram == [seq |-> seq, cycles |-> cycles, cursor |-> cursor, ring |-> ring]
Cold == [seq |-> 0, cycles |-> 0, cursor |-> 0, ring |-> EmptyRing]

(* What the node will know when it runs next. *)
Memory == IF pc = "boot" /\ Persist /\ rtc # NoRtc THEN rtc ELSE Ram

(* The builds that remember anything. *)
Remembers == Persist \/ ~DeepSleep

(* Every change of the RAM is copied at once; a start begins cold. *)
CopyIsCurrent ==
    /\ Persist /\ pc # "boot" => rtc = Ram
    /\ pc = "boot" => Ram = Cold /\ ~awake

InCycle == pc \in {"window", "reply", "finish"}

(* A long window is paid for by the cycle that ends with it. *)
Countdown ==
    /\ awake <=> cycles > 0
    /\ long <= MaxCycles
    /\ Memory.cycles > 0 => long + Memory.cycles <= MaxCycles + (IF InCycle THEN 1 ELSE 0)

(* The slot that was written k records before the latest one. *)
Slot(c, k) == IF c > k THEN c - 1 - k ELSE c - 1 - k + RingSize

(* The ring holds the last RingSize tokens of the log. *)
RingIsLog ==
    \A k \in Slots : k < Len(log) => Memory.ring[Slot(Memory.cursor, k)] = log[Len(log) - k]

Numbering == Memory.seq = uplinks
Ring == RingIsLog /\ NoEarlyRepeat

IInv == TypeOK /\ CopyIsCurrent /\ Countdown
RInv == Numbering /\ Ring

-----------------------------------------------------------------------------
LEMMA Wrap ==
    ASSUME NEW n \in Nat \ {0}, NEW c \in 0 .. n - 1
    PROVE  c % n = c /\ (c + 1) % n = IF c + 1 = n THEN 0 ELSE c + 1
  BY SMT

LEMMA Modulo ==
    ASSUME NEW n \in Nat \ {0}, NEW c \in Nat
    PROVE  c % n \in 0 .. n - 1
  BY SMT

(* What SaveRtc stores is a copy of the right type. *)
LEMMA RamType == TypeOK => Ram \in Rtc /\ Ram # NoRtc
  BY NoRtcAssumption DEF TypeOK, Ram, Rtc

LEMMA ColdType == EmptyRing \in [Slots -> Tokens \cup {0}] /\ 0 \in Slots
  BY SleepyLeafAssumption DEF EmptyRing, Slots

LEMMA SaveRtcType ==
    ASSUME rtc \in Rtc \cup {NoRtc}, SaveRtc,
           seq' \in 0 .. SeqMod - 1, cycles' \in 0 .. MaxCycles, cursor' \in Slots,
           ring' \in [Slots -> Tokens \cup {0}]
    PROVE  rtc' \in Rtc \cup {NoRtc}
  BY DEF SaveRtc, Rtc

LEMMA TakeNextType ==
    ASSUME TypeOK, TakeNextSequence
    PROVE  seq' \in 0 .. SeqMod - 1 /\ uplinks' \in 0 .. SeqMod - 1
  BY SleepyLeafAssumption, Modulo DEF TypeOK, TakeNextSequence

LEMMA RecordType ==
    ASSUME TypeOK, NEW c \in Commands, RecordRecent(Token[c])
    PROVE  /\ ring' \in [Slots -> Tokens \cup {0}]
           /\ cursor' \in Slots
           /\ log' \in Seq(Tokens)
  <1>1. Token[c] \in Tokens
    BY DEF Tokens
  <1>2. ring' \in [Slots -> Tokens \cup {0}]
    BY <1>1 DEF TypeOK, RecordRecent
  <1>3. cursor' \in Slots
    BY SleepyLeafAssumption, Modulo DEF TypeOK, RecordRecent, Slots
  <1>4. log' \in Seq(Tokens)
    BY <1>1 DEF TypeOK, RecordRecent
  <1> QED
    BY <1>2, <1>3, <1>4

LEMMA UplinkType ==
    ASSUME TypeOK, Uplink
    PROVE  /\ seq' \in 0 .. SeqMod - 1 /\ uplinks' \in 0 .. SeqMod - 1
           /\ rtc' \in Rtc \cup {NoRtc}
  BY TakeNextType, SaveRtcType DEF TypeOK, Uplink

-----------------------------------------------------------------------------
(* Types.                                                                  *)
LEMMA Bounds ==
    /\ 0 \in 0 .. SeqMod - 1
    /\ 0 \in 0 .. MaxCycles /\ MaxCycles \in 0 .. MaxCycles
  BY SleepyLeafAssumption

LEMMA MaintenanceType ==
    ASSUME TypeOK, EnableMaintenance \/ DisableMaintenance \/ UNCHANGED <<awake, cycles, long>>
    PROVE  awake' \in BOOLEAN /\ cycles' \in 0 .. MaxCycles /\ long' \in Nat
  <1>1. awake' \in BOOLEAN
    BY Zenon DEF TypeOK, EnableMaintenance, DisableMaintenance
  <1>2. cycles' \in 0 .. MaxCycles /\ long' \in Nat
    BY Bounds DEF TypeOK, EnableMaintenance, DisableMaintenance
  <1> QED
    BY <1>1, <1>2

LEMMA InitTypeOK == Init => TypeOK
  <1> SUFFICES ASSUME Init PROVE TypeOK
    OBVIOUS
  <1>1. log \in Seq(Tokens)
    BY DEF Init
  <1>2. deliveries \in [Commands -> Nat]
    BY DEF Init
  <1> QED
    BY <1>1, <1>2, Bounds, ColdType DEF Init, TypeOK, Pc

LEMMA ReceiveTypeOK ==
    ASSUME TypeOK, NEW c \in Commands, NEW expired \in BOOLEAN, ReceiveCommand(c, expired)
    PROVE  TypeOK'
  <1> USE SleepyLeafAssumption
  <1>1. deliveries' \in [Commands -> Nat] /\ UNCHANGED <<left, resets>>
    <2>1. deliveries' = [deliveries EXCEPT ![c] = @ + 1] /\ UNCHANGED <<left, resets>>
      BY DEF ReceiveCommand
    <2> QED
      BY <2>1 DEF TypeOK
  <1>2. CASE Replying(c, "rejected") /\ UNCHANGED <<ram, rtc, history>>
    BY <1>1, <1>2 DEF TypeOK, Replying, Phase, Pc, ram, history
  <1>3. CASE UNCHANGED <<pc, ram, reply, rtc, history>>
    BY <1>1, <1>3 DEF TypeOK, ram, history
  <1>4. ASSUME NEW p \in Phase, Refuse(c, p) PROVE TypeOK'
    <2>1. ring' \in [Slots -> Tokens \cup {0}] /\ cursor' \in Slots /\ log' \in Seq(Tokens)
      BY <1>4, RecordType DEF Refuse
    <2>2. rtc' \in Rtc \cup {NoRtc}
      BY <1>4, <2>1, SaveRtcType DEF Refuse, TypeOK
    <2> QED
      BY <1>1, <1>4, <2>1, <2>2 DEF TypeOK, Refuse, Replying, Pc
  <1>5. CASE Obey(c)
    <2>1. ring' \in [Slots -> Tokens \cup {0}] /\ cursor' \in Slots /\ log' \in Seq(Tokens)
      BY <1>5, RecordType DEF Obey
    <2>2. awake' \in BOOLEAN /\ cycles' \in 0 .. MaxCycles /\ long' \in Nat
      <3>1. \/ EnableMaintenance
            \/ DisableMaintenance
            \/ UNCHANGED <<awake, cycles, long>>
        BY <1>5 DEF Obey
      <3> QED
        BY <3>1, MaintenanceType
    <2>3. rtc' \in Rtc \cup {NoRtc}
      BY <1>5, <2>1, <2>2, SaveRtcType DEF Obey, TypeOK
    <2> QED
      BY <1>1, <1>5, <2>1, <2>2, <2>3 DEF TypeOK, Obey, Replying, Phase, Pc
  <1> QED
    BY <1>2, <1>3, <1>4, <1>5 DEF ReceiveCommand, Phase

LEMMA NextTypeOK == TypeOK /\ [Next]_vars => TypeOK'
  <1> SUFFICES ASSUME TypeOK, [Next]_vars PROVE TypeOK'
    OBVIOUS
  <1> USE SleepyLeafAssumption
  <1>1. CASE ApplyDefaults
    <2>1. /\ seq' \in 0 .. SeqMod - 1 /\ cycles' \in 0 .. MaxCycles /\ awake' \in BOOLEAN
          /\ cursor' \in Slots /\ ring' \in [Slots -> Tokens \cup {0}]
      <3>1. CASE Persist /\ rtc # NoRtc
        <4>1. rtc \in Rtc
          BY <3>1 DEF TypeOK
        <4>2. /\ rtc.seq \in 0 .. SeqMod - 1 /\ rtc.cycles \in 0 .. MaxCycles
              /\ rtc.cursor \in Slots /\ rtc.ring \in [Slots -> Tokens \cup {0}]
          BY <4>1 DEF Rtc
        <4>3. rtc.cursor % RingSize \in Slots
          BY <4>2, Modulo DEF Slots
        <4>4. awake' \in BOOLEAN
          <5>1. awake' = (rtc.cycles > 0)
            BY <1>1, <3>1, Zenon DEF ApplyDefaults
          <5>2. (rtc.cycles > 0) \in BOOLEAN
            OBVIOUS
          <5> QED
            BY <5>1, <5>2, Zenon
        <4> QED
          BY <1>1, <3>1, <4>2, <4>3, <4>4 DEF ApplyDefaults
      <3>2. CASE ~(Persist /\ rtc # NoRtc)
        BY <1>1, <3>2 DEF ApplyDefaults, TypeOK, ram
      <3> QED
        BY <3>1, <3>2
    <2>2. rtc' \in Rtc \cup {NoRtc}
      BY <1>1, <2>1, SaveRtcType DEF ApplyDefaults, TypeOK
    <2> QED
      BY <1>1, <2>1, <2>2 DEF ApplyDefaults, TypeOK, history, Pc
  <1>2. CASE PublishAwake
    BY <1>2, UplinkType DEF PublishAwake, Uplink, TypeOK, Pc
  <1>3. CASE OpenDownlinkWindow
    BY <1>3 DEF OpenDownlinkWindow, TypeOK, ram, Pc
  <1>4. CASE WindowTick
    BY <1>4 DEF WindowTick, TypeOK, ram, history
  <1>5. CASE ReceiveDigest
    BY <1>5, UplinkType DEF ReceiveDigest, Uplink, TypeOK
  <1>6. CASE \E c \in Commands, expired \in BOOLEAN : ReceiveCommand(c, expired)
    BY <1>6, ReceiveTypeOK
  <1>7. CASE SendResult
    BY <1>7, UplinkType DEF SendResult, Uplink, TypeOK, Pc
  <1>8. CASE CloseWindow
    BY <1>8 DEF CloseWindow, TypeOK, ram, history, Pc
  <1>9. CASE FinishCycle
    <2>1. cycles' \in 0 .. MaxCycles /\ awake' \in BOOLEAN
      BY <1>9 DEF FinishCycle, TypeOK
    <2>2. rtc' \in Rtc \cup {NoRtc}
      BY <1>9, <2>1, SaveRtcType DEF FinishCycle, TypeOK
    <2> QED
      BY <1>9, <2>1, <2>2 DEF FinishCycle, TypeOK, history, Pc
  <1>10. CASE PublishSleep
    BY <1>10, UplinkType DEF PublishSleep, Uplink, TypeOK, Pc
  <1>11. CASE SleepUntilTimer
    <2>1. CASE DeepSleep
      <3>1. pc' = "boot" /\ ColdRam
        BY <1>11, <2>1 DEF SleepUntilTimer
      <3>2. UNCHANGED <<left, reply, rtc, deliveries, resets, log, uplinks, long>>
        BY <1>11 DEF SleepUntilTimer, history
      <3> QED
        BY <3>1, <3>2, ColdType, Bounds DEF ColdRam, TypeOK, Pc
    <2>2. CASE ~DeepSleep
      BY <1>11, <2>2 DEF SleepUntilTimer, TypeOK, ram, history, Pc
    <2> QED
      BY <2>1, <2>2
  <1>12. CASE \E enabled \in BOOLEAN : SetMaintenanceAwake(enabled)
    <2>1. awake' \in BOOLEAN /\ cycles' \in 0 .. MaxCycles /\ long' \in Nat
      BY <1>12, MaintenanceType DEF SetMaintenanceAwake
    <2>2. rtc' \in Rtc \cup {NoRtc}
      BY <1>12, <2>1, SaveRtcType DEF SetMaintenanceAwake, TypeOK
    <2> QED
      BY <1>12, <2>1, <2>2 DEF SetMaintenanceAwake, TypeOK
  <1>13. CASE EmitEvent
    BY <1>13, UplinkType DEF EmitEvent, Uplink, TypeOK
  <1>14. CASE Reset
    <2>1. log' \in Seq(Tokens)
      BY <1>14 DEF Reset
    <2>2. /\ ring' \in [Slots -> Tokens \cup {0}] /\ cursor' \in Slots
          /\ awake' \in BOOLEAN /\ cycles' \in 0 .. MaxCycles /\ seq' \in 0 .. SeqMod - 1
      BY <1>14, ColdType, Bounds DEF Reset, ColdRam
    <2>3. /\ pc' \in Pc /\ left' \in Nat /\ reply' = <<>> /\ rtc' = NoRtc
          /\ UNCHANGED deliveries /\ resets' \in Nat
          /\ uplinks' \in 0 .. SeqMod - 1 /\ long' \in Nat
      BY <1>14, Bounds DEF Reset, TypeOK, Pc
    <2> QED
      BY <2>1, <2>2, <2>3 DEF TypeOK
  <1>15. CASE UNCHANGED vars
    BY <1>15 DEF vars, ram, history, TypeOK
  <1> QED
    BY <1>1, <1>2, <1>3, <1>4, <1>5, <1>6, <1>7, <1>8, <1>9, <1>10, <1>11, <1>12, <1>13, <1>14, <1>15
    DEF Next, Cycle

(* The state of the node keeps its types: no path writes a cursor outside  *)
(* the ring, a countdown above its start or a number wider than its byte.  *)
THEOREM TypeCorrect == Spec => []TypeOK
  BY InitTypeOK, NextTypeOK, PTL DEF Spec

-----------------------------------------------------------------------------
(* The RTC copy.                                                           *)
LEMMA Running == pc # "boot" => Memory = Ram
  BY DEF Memory

LEMMA Saved == SaveRtc /\ pc' # "boot" => CopyIsCurrent'
  BY DEF SaveRtc, CopyIsCurrent, Ram

LEMMA Untouched ==
    ASSUME CopyIsCurrent, pc # "boot", pc' # "boot", UNCHANGED <<ram, rtc>>
    PROVE  CopyIsCurrent'
  BY DEF CopyIsCurrent, Ram, ram

LEMMA ColdStart == ColdRam /\ pc' = "boot" => Ram' = Cold /\ awake' = FALSE
  BY DEF ColdRam, Ram, Cold

(* What was saved is restored. *)
LEMMA Waking ==
    ASSUME TypeOK, CopyIsCurrent, ApplyDefaults
    PROVE  /\ Ram' = Memory /\ Memory' = Memory
           /\ awake' <=> cycles' > 0
           /\ Persist => rtc' = Ram'
  <1>1. pc = "boot" /\ pc' = "wake"
    BY DEF ApplyDefaults
  <1>2. CASE Persist /\ rtc # NoRtc
    <2>1. rtc \in Rtc
      BY <1>2 DEF TypeOK
    <2>2. rtc.cursor % RingSize = rtc.cursor
      BY <2>1, Wrap, SleepyLeafAssumption DEF Rtc, Slots
    <2>3. Ram' = rtc
      BY <1>2, <2>1, <2>2 DEF ApplyDefaults, Ram, Rtc
    <2>4. rtc' = rtc
      BY <1>2 DEF ApplyDefaults
    <2>5. awake' <=> cycles' > 0
      BY <1>2 DEF ApplyDefaults
    <2> QED
      BY <1>1, <1>2, <2>3, <2>4, <2>5 DEF Memory
  <1>3. CASE ~(Persist /\ rtc # NoRtc)
    <2>1. Ram' = Ram /\ SaveRtc /\ UNCHANGED <<awake, cycles>>
      BY <1>3 DEF ApplyDefaults, Ram, ram
    <2>2. Persist => rtc' = Ram'
      BY <2>1 DEF SaveRtc, Ram
    <2>3. ~awake /\ cycles = 0
      BY <1>1 DEF CopyIsCurrent, Ram, Cold
    <2> QED
      BY <1>1, <1>3, <2>1, <2>2, <2>3 DEF Memory
  <1> QED
    BY <1>2, <1>3

LEMMA Sleeping ==
    ASSUME TypeOK, CopyIsCurrent, SleepUntilTimer
    PROVE  /\ CopyIsCurrent'
           /\ Memory' = Memory \/ (Memory' = Cold /\ ~Remembers)
  <1>1. pc = "down" /\ rtc' = rtc
    BY DEF SleepUntilTimer
  <1>2. CASE DeepSleep
    <2>1. pc' = "boot" /\ Ram' = Cold /\ awake' = FALSE
      BY <1>2, ColdStart DEF SleepUntilTimer
    <2>2. CopyIsCurrent'
      BY <2>1 DEF CopyIsCurrent
    <2>3. CASE Persist
      <3>1. rtc = Ram /\ rtc # NoRtc
        BY <1>1, <2>3, RamType DEF CopyIsCurrent
      <3> QED
        BY <1>1, <2>1, <2>2, <2>3, <3>1 DEF Memory
    <2>4. CASE ~Persist
      BY <1>2, <2>1, <2>2, <2>4 DEF Memory, Remembers
    <2> QED
      BY <2>3, <2>4
  <1>3. CASE ~DeepSleep
    <2>1. pc' = "wake" /\ UNCHANGED ram
      BY <1>3 DEF SleepUntilTimer
    <2> QED
      BY <1>1, <2>1, Untouched DEF Memory, Ram, ram
  <1> QED
    BY <1>2, <1>3

LEMMA CopyStep == TypeOK /\ CopyIsCurrent /\ [Next]_vars => CopyIsCurrent'
  <1> SUFFICES ASSUME TypeOK, CopyIsCurrent, [Next]_vars PROVE CopyIsCurrent'
    OBVIOUS
  <1>1. CASE ApplyDefaults
    <2>1. pc' = "wake"
      BY <1>1 DEF ApplyDefaults
    <2> QED
      BY <1>1, <2>1, Waking DEF CopyIsCurrent
  <1>2. CASE PublishAwake \/ ReceiveDigest \/ SendResult \/ PublishSleep \/ EmitEvent
    <2>1. SaveRtc
      BY <1>2 DEF PublishAwake, ReceiveDigest, SendResult, PublishSleep, EmitEvent, Uplink
    <2>2. pc' # "boot"
      BY <1>2 DEF PublishAwake, ReceiveDigest, SendResult, PublishSleep, EmitEvent
    <2> QED
      BY <2>1, <2>2, Saved
  <1>3. CASE OpenDownlinkWindow \/ WindowTick \/ CloseWindow
    BY <1>3, Untouched DEF OpenDownlinkWindow, WindowTick, CloseWindow
  <1>4. ASSUME NEW c \in Commands, NEW expired \in BOOLEAN, ReceiveCommand(c, expired)
        PROVE  CopyIsCurrent'
    <2>1. pc = "window" /\ pc' # "boot"
      BY <1>4 DEF ReceiveCommand, Replying, Refuse, Obey
    <2>2. SaveRtc \/ UNCHANGED <<ram, rtc>>
      BY <1>4 DEF ReceiveCommand, Refuse, Obey
    <2> QED
      BY <2>1, <2>2, Saved, Untouched
  <1>5. CASE FinishCycle
    BY <1>5, Saved DEF FinishCycle
  <1>6. CASE SleepUntilTimer
    BY <1>6, Sleeping
  <1>7. CASE \E enabled \in BOOLEAN : SetMaintenanceAwake(enabled)
    BY <1>7, Saved DEF SetMaintenanceAwake
  <1>8. CASE Reset
    <2>1. pc' = "boot" /\ ColdRam
      BY <1>8 DEF Reset
    <2> QED
      BY <2>1, ColdStart DEF CopyIsCurrent
  <1>9. CASE UNCHANGED vars
    BY <1>9 DEF vars, ram, CopyIsCurrent, Ram
  <1> QED
    BY <1>1, <1>2, <1>3, <1>4, <1>5, <1>6, <1>7, <1>8, <1>9 DEF Next, Cycle

-----------------------------------------------------------------------------
(* The countdown of maintenance cycles.                                    *)
LEMMA SameCountdown ==
    ASSUME TypeOK, Countdown, pc # "boot", pc' # "boot", InCycle => InCycle',
           UNCHANGED <<awake, cycles, long>>
    PROVE  Countdown'
  <1>1. Memory.cycles = cycles /\ Memory'.cycles = cycles'
    BY DEF Memory, Ram
  <1>2. Memory'.cycles > 0 => long + Memory.cycles <= MaxCycles + (IF InCycle' THEN 1 ELSE 0)
    BY <1>1, SleepyLeafAssumption DEF Countdown, TypeOK
  <1> QED
    BY <1>1, <1>2 DEF Countdown

LEMMA NewCountdown ==
    ASSUME TypeOK, Countdown, pc # "boot", pc' = pc \/ (InCycle /\ InCycle'),
           EnableMaintenance \/ DisableMaintenance
    PROVE  Countdown'
  <1> USE SleepyLeafAssumption
  <1>1. pc' # "boot" /\ Memory'.cycles = cycles'
    BY DEF Memory, Ram, InCycle
  <1>2. CASE EnableMaintenance
    BY <1>1, <1>2 DEF EnableMaintenance, Countdown
  <1>3. CASE DisableMaintenance
    BY <1>1, <1>3 DEF DisableMaintenance, Countdown
  <1> QED
    BY <1>2, <1>3

LEMMA CountdownStep == IInv /\ [Next]_vars => Countdown'
  <1> SUFFICES ASSUME TypeOK, CopyIsCurrent, Countdown, [Next]_vars PROVE Countdown'
    BY DEF IInv
  <1> USE SleepyLeafAssumption
  <1>1. CASE ApplyDefaults
    <2>1. Memory'.cycles = Memory.cycles /\ cycles' = Memory.cycles
      BY <1>1, Waking DEF Ram
    <2>2. long' = long /\ ~InCycle /\ ~InCycle'
      BY <1>1 DEF ApplyDefaults, history, InCycle
    <2> QED
      BY <1>1, <2>1, <2>2, Waking DEF Countdown
  <1>2. CASE PublishAwake \/ ReceiveDigest \/ SendResult \/ PublishSleep \/ EmitEvent
    <2>1. UNCHANGED <<awake, cycles, long>>
      BY <1>2 DEF PublishAwake, ReceiveDigest, SendResult, PublishSleep, EmitEvent, Uplink
    <2>2. pc # "boot" /\ pc' # "boot" /\ (InCycle => InCycle')
      BY <1>2 DEF PublishAwake, ReceiveDigest, SendResult, PublishSleep, EmitEvent, InCycle
    <2> QED
      BY <2>1, <2>2, SameCountdown
  <1>3. CASE OpenDownlinkWindow
    <2>1. /\ pc = "open" /\ pc' = "window" /\ UNCHANGED <<awake, cycles>>
          /\ long' = IF awake THEN long + 1 ELSE long
      BY <1>3 DEF OpenDownlinkWindow, ram
    <2>2. Memory.cycles = cycles /\ Memory'.cycles = cycles /\ ~InCycle /\ InCycle'
      BY <2>1 DEF Memory, Ram, InCycle
    <2> QED
      BY <2>1, <2>2 DEF Countdown, TypeOK
  <1>4. CASE WindowTick \/ CloseWindow
    BY <1>4, SameCountdown DEF WindowTick, CloseWindow, ram, history, InCycle
  <1>5. ASSUME NEW c \in Commands, NEW expired \in BOOLEAN, ReceiveCommand(c, expired)
        PROVE  Countdown'
    <2>1. pc = "window" /\ InCycle /\ InCycle' /\ pc' # "boot"
      BY <1>5 DEF ReceiveCommand, Replying, Refuse, Obey, InCycle
    <2>2. \/ EnableMaintenance \/ DisableMaintenance
          \/ UNCHANGED <<awake, cycles, long>>
      BY <1>5 DEF ReceiveCommand, Refuse, Obey, ram, history
    <2> QED
      BY <2>1, <2>2, SameCountdown, NewCountdown
  <1>6. CASE FinishCycle
    <2>1. /\ pc = "finish" /\ pc' = "sleep" /\ long' = long
          /\ cycles' = IF awake /\ cycles > 0 THEN cycles - 1 ELSE cycles
          /\ awake' = (awake /\ cycles' > 0)
      BY <1>6 DEF FinishCycle, history
    <2>2. Memory.cycles = cycles /\ Memory'.cycles = cycles' /\ ~InCycle'
      BY <2>1 DEF Memory, Ram, InCycle
    <2>3. CASE awake
      <3>1. cycles > 0 /\ cycles' = cycles - 1
        BY <2>1, <2>3 DEF Countdown
      <3>2. awake' <=> cycles' > 0
        BY <2>1, <2>3
      <3>3. InCycle
        BY <2>1 DEF InCycle
      <3>4. long + cycles <= MaxCycles + 1
        BY <2>2, <3>1, <3>3 DEF Countdown
      <3>5. long' + Memory'.cycles <= MaxCycles
        BY <2>1, <2>2, <3>1, <3>4 DEF TypeOK
      <3> QED
        BY <2>1, <2>2, <3>2, <3>5 DEF Countdown
    <2>4. CASE ~awake
      <3>1. cycles = 0 /\ cycles' = 0 /\ ~awake'
        BY <2>1, <2>4 DEF Countdown, TypeOK
      <3> QED
        BY <2>1, <2>2, <3>1 DEF Countdown
    <2> QED
      BY <2>3, <2>4
  <1>7. CASE SleepUntilTimer
    <2>1. pc = "down" /\ long' = long /\ ~InCycle /\ ~InCycle'
      BY <1>7 DEF SleepUntilTimer, InCycle, history
    <2>2. Memory'.cycles = Memory.cycles \/ Memory'.cycles = 0
      BY <1>7, Sleeping DEF Cold
    <2>3. awake' <=> cycles' > 0
      BY <1>7 DEF SleepUntilTimer, ColdRam, ram, Countdown
    <2> QED
      BY <2>1, <2>2, <2>3 DEF Countdown
  <1>8. CASE \E enabled \in BOOLEAN : SetMaintenanceAwake(enabled)
    BY <1>8, NewCountdown DEF SetMaintenanceAwake
  <1>9. CASE Reset
    <2>1. pc' = "boot" /\ ColdRam /\ rtc' = NoRtc /\ long' = 0
      BY <1>9 DEF Reset
    <2>2. Memory'.cycles = 0
      BY <2>1, ColdStart DEF Memory, Cold
    <2> QED
      BY <2>1, <2>2 DEF Countdown, ColdRam
  <1>10. CASE UNCHANGED vars
    BY <1>10 DEF vars, ram, history, Countdown, Memory, Ram, InCycle
  <1> QED
    BY <1>1, <1>2, <1>3, <1>4, <1>5, <1>6, <1>7, <1>8, <1>9, <1>10 DEF Next, Cycle

LEMMA InitIInv == Init => IInv
  <1> SUFFICES ASSUME Init PROVE CopyIsCurrent /\ Countdown
    BY InitTypeOK DEF IInv
  <1>1. pc = "boot" /\ Ram = Cold /\ awake = FALSE /\ cycles = 0 /\ rtc = NoRtc /\ long = 0
    BY DEF Init, Ram, Cold
  <1>2. Memory.cycles = 0
    BY <1>1 DEF Memory, Cold
  <1> QED
    BY <1>1, <1>2, SleepyLeafAssumption DEF CopyIsCurrent, Countdown

LEMMA InductiveIInv == Spec => []IInv
  <1>1. IInv /\ [Next]_vars => IInv'
    BY NextTypeOK, CopyStep, CountdownStep DEF IInv
  <1> QED
    BY InitIInv, <1>1, PTL DEF Spec

(* However often maintenance is switched on and off, by the network or by  *)
(* a task of the node: it ends after MaxCycles long windows, asleep or not.*)
THEOREM MaintenanceEnds == Spec => []MaintenanceBounded
  <1>1. IInv => MaintenanceBounded
    BY DEF IInv, Countdown, MaintenanceBounded
  <1> QED
    BY InductiveIInv, <1>1, PTL

-----------------------------------------------------------------------------
(* Sequence numbers and the ring, in a build that remembers.               *)
LEMMA Slots1 ==
    ASSUME NEW c \in Slots, NEW k \in Slots
    PROVE  /\ Slot(c, k) \in Slots
           /\ Slot((c + 1) % RingSize, 0) = c
           /\ k > 0 => /\ k - 1 \in Slots
                       /\ Slot((c + 1) % RingSize, k) = Slot(c, k - 1)
                       /\ Slot(c, k - 1) # c
  <1>1. (c + 1) % RingSize = IF c + 1 = RingSize THEN 0 ELSE c + 1
    BY Wrap, SleepyLeafAssumption DEF Slots
  <1> QED
    BY <1>1, SleepyLeafAssumption DEF Slot, Slots

LEMMA SameMemory ==
    ASSUME RInv, Memory' = Memory, UNCHANGED history
    PROVE  RInv'
  BY DEF RInv, Numbering, Ring, RingIsLog, NoEarlyRepeat, history

LEMMA NextNumber ==
    ASSUME TypeOK, RInv, pc # "boot", pc' # "boot", TakeNextSequence, UNCHANGED <<ring, cursor, log>>
    PROVE  RInv'
  <1>1. /\ Memory.seq = seq /\ Memory'.seq = seq'
        /\ Memory'.ring = Memory.ring /\ Memory'.cursor = Memory.cursor
    BY DEF Memory, Ram
  <1>2. Numbering'
    BY <1>1 DEF RInv, Numbering, TakeNextSequence
  <1> QED
    BY <1>1, <1>2 DEF RInv, Ring, RingIsLog, NoEarlyRepeat

LEMMA SameNumber ==
    ASSUME RInv, pc # "boot", pc' # "boot", UNCHANGED <<seq, ring, cursor, log, uplinks>>
    PROVE  RInv'
  <1>1. /\ Memory.seq = seq /\ Memory'.seq = seq'
        /\ Memory'.ring = Memory.ring /\ Memory'.cursor = Memory.cursor
    BY DEF Memory, Ram
  <1> QED
    BY <1>1 DEF RInv, Numbering, Ring, RingIsLog, NoEarlyRepeat

(* Recording a token that was not seen keeps the ring the end of the log.  *)
LEMMA Recorded ==
    ASSUME TypeOK, RInv, pc # "boot", pc' # "boot", NEW c \in Commands,
           Token[c] # 0, ~Seen(Token[c]), RecordRecent(Token[c]), UNCHANGED <<seq, uplinks>>
    PROVE  RInv'
  <1> DEFINE t == Token[c]
  <1> USE SleepyLeafAssumption
  <1>1. /\ Memory = Ram /\ Memory' = Ram' /\ Memory.ring = ring /\ Memory.cursor = cursor
        /\ Memory'.ring = ring' /\ Memory'.cursor = cursor' /\ Numbering'
    BY DEF Memory, Ram, RInv, Numbering
  <1>2. /\ log \in Seq(Tokens) /\ t \in Tokens /\ cursor \in Slots
        /\ ring \in [Slots -> Tokens \cup {0}]
    BY DEF TypeOK, Tokens
  <1>3. /\ Len(log') = Len(log) + 1 /\ log'[Len(log) + 1] = t
        /\ \A j \in 1 .. Len(log) : log'[j] = log[j]
    BY <1>2 DEF RecordRecent
  <1>4. \A k \in Slots : ring[k] # t
    BY DEF Seen
  <1>5. RingIsLog'
    <2>1. SUFFICES ASSUME NEW k \in Slots, k < Len(log')
                   PROVE  ring'[Slot(cursor', k)] = log'[Len(log') - k]
      BY <1>1 DEF RingIsLog, Slots, Slot
    <2>2. cursor' = (cursor + 1) % RingSize /\ ring' = [ring EXCEPT ![cursor] = t]
      BY DEF RecordRecent
    <2>3. CASE k = 0
      BY <1>2, <1>3, <2>2, <2>3, Slots1
    <2>4. CASE k > 0
      <3>1. /\ k - 1 \in Slots /\ Slot(cursor', k) = Slot(cursor, k - 1)
            /\ Slot(cursor, k - 1) # cursor /\ Slot(cursor, k - 1) \in Slots
        BY <1>2, <2>2, <2>4, Slots1
      <3>2. ring'[Slot(cursor', k)] = ring[Slot(cursor, k - 1)]
        BY <1>2, <2>2, <3>1
      <3>3. k - 1 < Len(log) /\ Len(log) \in Nat
        BY <1>2, <1>3, <2>1, <2>4 DEF Slots
      <3>4. ring[Slot(cursor, k - 1)] = log[Len(log) - (k - 1)]
        BY <1>1, <3>1, <3>3 DEF RInv, Ring, RingIsLog
      <3>5. Len(log) - (k - 1) \in 1 .. Len(log) /\ Len(log') - k = Len(log) - (k - 1)
        BY <1>3, <3>3, <2>4 DEF Slots
      <3> QED
        BY <1>3, <3>2, <3>4, <3>5
    <2> QED
      BY <2>3, <2>4 DEF Slots
  <1>6. NoEarlyRepeat'
    <2>1. SUFFICES ASSUME NEW j \in 1 .. Len(log'), NEW k \in 1 .. Len(log'),
                          j < k, log'[j] = log'[k]
                   PROVE  k - j > RingSize
      BY DEF NoEarlyRepeat
    <2>2. Len(log) \in Nat
      BY <1>2
    <2>3. CASE k <= Len(log)
      <3>1. j \in 1 .. Len(log) /\ k \in 1 .. Len(log) /\ log[j] = log[k]
        BY <1>3, <2>1, <2>2, <2>3
      <3> QED
        BY <2>1, <3>1 DEF RInv, Ring, NoEarlyRepeat
    <2>4. CASE k = Len(log) + 1
      <3>1. j \in 1 .. Len(log) /\ log[j] = t
        BY <1>3, <2>1, <2>2, <2>4
      <3>2. SUFFICES ASSUME k - j <= RingSize PROVE FALSE
        BY <2>2, <2>4, <3>1
      <3> DEFINE i == Len(log) - j
      <3>3. i \in Slots /\ i < Len(log) /\ Len(log) - i = j
        BY <2>2, <2>4, <3>1, <3>2 DEF Slots
      <3>4. ring[Slot(cursor, i)] = t
        BY <1>1, <3>1, <3>3 DEF RInv, Ring, RingIsLog
      <3> QED
        BY <1>2, <1>4, <3>3, <3>4, Slots1
    <2> QED
      BY <1>3, <2>2, <2>3, <2>4
  <1> QED
    BY <1>1, <1>5, <1>6 DEF RInv, Ring

LEMMA ReceiveRInv ==
    ASSUME TypeOK, RInv, NEW c \in Commands, NEW expired \in BOOLEAN, ReceiveCommand(c, expired)
    PROVE  RInv'
  <1>1. pc = "window" /\ pc' # "boot"
    BY DEF ReceiveCommand, Replying, Refuse, Obey
  <1>2. \/ UNCHANGED <<seq, ring, cursor, log, uplinks>>
        \/ /\ Token[c] # 0 /\ ~Seen(Token[c])
           /\ RecordRecent(Token[c])
           /\ UNCHANGED <<seq, uplinks>>
    BY DEF ReceiveCommand, Refuse, Obey, ram, history
  <1> QED
    BY <1>1, <1>2, SameNumber, Recorded

LEMMA RStep ==
    ASSUME Remembers
    PROVE  IInv /\ RInv /\ [Next]_vars => RInv'
  <1> SUFFICES ASSUME TypeOK, CopyIsCurrent, RInv, [Next]_vars PROVE RInv'
    BY DEF IInv
  <1>1. CASE ApplyDefaults
    BY <1>1, Waking, SameMemory DEF ApplyDefaults
  <1>2. CASE PublishAwake \/ ReceiveDigest \/ SendResult \/ PublishSleep \/ EmitEvent
    BY <1>2, NextNumber DEF PublishAwake, ReceiveDigest, SendResult, PublishSleep, EmitEvent, Uplink
  <1>3. CASE OpenDownlinkWindow \/ WindowTick \/ CloseWindow
    BY <1>3, SameNumber DEF OpenDownlinkWindow, WindowTick, CloseWindow, ram, history
  <1>4. CASE \E c \in Commands, expired \in BOOLEAN : ReceiveCommand(c, expired)
    BY <1>4, ReceiveRInv
  <1>5. CASE FinishCycle
    BY <1>5, SameNumber DEF FinishCycle, history
  <1>6. CASE SleepUntilTimer
    BY <1>6, Sleeping, SameMemory DEF SleepUntilTimer
  <1>7. CASE \E enabled \in BOOLEAN : SetMaintenanceAwake(enabled)
    BY <1>7, SameNumber DEF SetMaintenanceAwake
  <1>8. CASE Reset
    <2>1. pc' = "boot" /\ ColdRam /\ rtc' = NoRtc /\ uplinks' = 0 /\ log' = <<>>
      BY <1>8 DEF Reset
    <2>2. Memory' = Cold
      BY <2>1, ColdStart DEF Memory
    <2> QED
      BY <2>1, <2>2 DEF RInv, Numbering, Ring, RingIsLog, NoEarlyRepeat, Cold, Slots
  <1>9. CASE UNCHANGED vars
    <2>1. Memory' = Memory /\ UNCHANGED history
      BY <1>9 DEF vars, ram, Memory, Ram
    <2> QED
      BY <2>1, SameMemory
  <1> QED
    BY <1>1, <1>2, <1>3, <1>4, <1>5, <1>6, <1>7, <1>8, <1>9 DEF Next, Cycle

LEMMA InitRInv == Init => RInv
  <1> SUFFICES ASSUME Init PROVE RInv
    OBVIOUS
  <1>1. Memory = Cold /\ log = <<>> /\ uplinks = 0
    BY DEF Init, Memory, Ram, Cold
  <1> QED
    BY <1>1 DEF RInv, Numbering, Ring, RingIsLog, NoEarlyRepeat, Cold, Slots

LEMMA InductiveRInv ==
    ASSUME Remembers
    PROVE  Spec => []RInv
  <1>1. IInv /\ RInv /\ [Next]_vars => RInv'
    BY RStep
  <1> QED
    BY InductiveIInv, InitRInv, <1>1, PTL DEF Spec

(* The node numbers its frames without a gap or a repetition from one      *)
(* reset to the next, over every sleep and whichever task sends.           *)
THEOREM NumbersContinue ==
    ASSUME Remembers
    PROVE  Spec => []SequenceContinues
  <1>1. RInv => SequenceContinues
    BY DEF RInv, Numbering, SequenceContinues, Memory, Ram
  <1> QED
    BY InductiveRInv, <1>1, PTL

(* For every ring size: a command that comes again is not taken before     *)
(* RingSize other tokens were recorded, though RAM was lost in between.    *)
THEOREM TokensNotRepeated ==
    ASSUME Remembers
    PROVE  Spec => []NoEarlyRepeat
  <1>1. RInv => NoEarlyRepeat
    BY DEF RInv, Ring
  <1> QED
    BY InductiveRInv, <1>1, PTL

-----------------------------------------------------------------------------
(* The refinement: a command that is taken was not among the last RingSize *)
(* ones of the log, because it is not in the ring.                         *)
LEMMA TakenIsFresh ==
    ASSUME TypeOK, RInv, pc # "boot", NEW c \in Commands,
           Token[c] # 0, ~Seen(Token[c]), RecordRecent(Token[c])
    PROVE  \E t \in Tokens : Promise!Take(t)
  <1> USE SleepyLeafAssumption
  <1> DEFINE t == Token[c]
  <1>1. /\ t \in Tokens /\ log \in Seq(Tokens) /\ Len(log) \in Nat /\ cursor \in Slots
        /\ Memory.ring = ring /\ Memory.cursor = cursor
    BY DEF TypeOK, Tokens, Memory, Ram
  <1>2. ASSUME NEW j \in 1 .. Len(log), j + RingSize > Len(log), log[j] = t
        PROVE  FALSE
    <2> DEFINE i == Len(log) - j
    <2>1. i \in Slots /\ i < Len(log) /\ Len(log) - i = j
      BY <1>1, <1>2 DEF Slots
    <2>2. ring[Slot(cursor, i)] = t
      BY <1>1, <1>2, <2>1 DEF RInv, Ring, RingIsLog
    <2>3. Slot(cursor, i) \in Slots
      BY <1>1, <2>1, Slots1
    <2> QED
      BY <2>2, <2>3 DEF Seen
  <1>3. t \notin Promise!Recent
    BY <1>2 DEF Promise!Recent
  <1>4. Promise!Take(t)
    BY <1>3 DEF Promise!Take, RecordRecent
  <1> QED
    BY <1>1, <1>4

LEMMA PromiseStep ==
    ASSUME Remembers
    PROVE  IInv /\ RInv /\ [Next]_vars => [Promise!Next]_log
  <1> SUFFICES ASSUME TypeOK, RInv, [Next]_vars PROVE Promise!Next \/ log' = log
    BY DEF IInv
  <1>1. CASE \E c \in Commands, expired \in BOOLEAN : ReceiveCommand(c, expired)
    <2>1. PICK c \in Commands, expired \in BOOLEAN : ReceiveCommand(c, expired)
      BY <1>1
    <2>2. \/ log' = log
          \/ Token[c] # 0 /\ ~Seen(Token[c]) /\ RecordRecent(Token[c])
      BY <2>1 DEF ReceiveCommand, Refuse, Obey, ram, history
    <2>3. pc # "boot"
      BY <2>1 DEF ReceiveCommand
    <2> QED
      BY <2>2, <2>3, TakenIsFresh DEF Promise!Next
  <1>2. CASE Reset
    BY <1>2 DEF Reset, Promise!Next, Promise!Forget
  <1>3. CASE UNCHANGED vars
    BY <1>3 DEF vars, history
  <1>4. CASE Cycle
    BY <1>4 DEF Cycle, ApplyDefaults, PublishAwake, OpenDownlinkWindow, SendResult,
                CloseWindow, FinishCycle, PublishSleep, SleepUntilTimer, history
  <1>5. CASE WindowTick \/ ReceiveDigest \/ EmitEvent
    BY <1>5 DEF WindowTick, ReceiveDigest, EmitEvent, history
  <1>6. CASE \E enabled \in BOOLEAN : SetMaintenanceAwake(enabled)
    BY <1>6 DEF SetMaintenanceAwake
  <1> QED
    BY <1>1, <1>2, <1>3, <1>4, <1>5, <1>6 DEF Next

(* The firmware implements the token memory that the command ledger relies *)
(* on, for every ring size, over every sleep.                              *)
THEOREM ImplementsTokenMemory ==
    ASSUME Remembers
    PROVE  Spec => KeepsTokens
  <1>1. Init => Promise!Init
    BY DEF Init, Promise!Init
  <1>2. IInv /\ RInv /\ [Next]_vars => [Promise!Next]_log
    BY PromiseStep
  <1> QED
    BY InductiveIInv, InductiveRInv, <1>1, <1>2, PTL DEF Spec, KeepsTokens, Promise!Spec
=============================================================================
