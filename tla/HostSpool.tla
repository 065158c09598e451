----------------------------- MODULE HostSpool ------------------------------
(***************************************************************************)
(* The Host Agent between the field and the Site Router (agent.go): every  *)
(* frame becomes a message, the router takes it, or it goes to the spool   *)
(* file, or, if the router finds it invalid, to the rejects file; a flush  *)
(* offers the spooled messages again.  Frames heard twice within the       *)
(* on-air window are answered without being relayed.                       *)
(*                                                                         *)
(* Threads of one process share the mutex and the on-air window; processes *)
(* that were given the same path share the two files only.  A section      *)
(* under the mutex is one action, except for FlushSpool, which calls the   *)
(* router once per line while holding it.                                  *)
(***************************************************************************)
EXTENDS Naturals, Sequences, FiniteSets

CONSTANTS Messages,
          Key,          \* Key[m]: the on-air frame m was decoded from
          NoKey,        \* the key of a message that came as JSON
          Bad,          \* messages the router refuses with a ValidationError
          Huge,         \* messages whose line exceeds the scanner's buffer; the
                        \* lines of a few others together do not
          Processes, Threads,
          ProcessOf,    \* ProcessOf[t]
          NoMsg,
          MaxRelays,    \* bound: times one message is relayed
          MaxOutages,   \* bound: calls the router fails for another reason
          MaxFaults     \* bound: failed file operations and crashes

ASSUME HostSpoolAssumption ==
    /\ DOMAIN Key = Messages
    /\ Bad \subseteq Messages /\ Huge \subseteq Messages
    /\ ProcessOf \in [Threads -> Processes]
    /\ NoMsg \notin Messages
    /\ {MaxRelays, MaxOutages, MaxFaults} \subseteq Nat

VARIABLES
    spool,      \* the lines of the spool file
    openTail,   \* its last line has no newline
    rejects,    \* the lines of the rejects file
    torn,       \* its last line, if it has no newline
    ledger,     \* messages the router stored
    seen,       \* onairSeen of every process
    pc, msg,    \* where a thread is, with which message
    unread,     \* lines of the open spool file the flush has not read
    linked,     \* its open file is still the one at the path
    remaining,  \* what the flush will leave
    told,       \* history: answers given, as <<message, status>>
    relays, outages, faults

files == <<spool, openTail, rejects, torn>>
flush == <<unread, linked, remaining>>
vars == <<files, ledger, seen, pc, msg, flush, told, relays, outages, faults>>

(* A line is one record, or debris; it is of the messages whose record it  *)
(* has in full.                                                            *)
Line == [whole : BOOLEAN, of : SUBSET Messages, long : BOOLEAN]
Record(m) == [whole |-> TRUE, of |-> {m}, long |-> m \in Huge]
Glued(a, b) == [whole |-> FALSE, of |-> a.of \cup b.of, long |-> a.long \/ b.long]

(* The part of a line that a failed write leaves. *)
Cut(line) == {[whole |-> FALSE, of |-> {}, long |-> l] : l \in {FALSE, line.long}}

Keys == {Key[m] : m \in Messages} \ {NoKey}
In(lines) == UNION {lines[k].of : k \in 1 .. Len(lines)}
Rejects == rejects \cup torn
RejectedMessages == UNION {l.of : l \in Rejects}

(* Mutant of Unlocked: every thread has a mutex of its own. *)
UnlockedToMe(t) == pc[t] # "flush"

(* No thread of the process holds the mutex. *)
Unlocked(t) == \A u \in Threads : ProcessOf[u] = ProcessOf[t] => pc[u] # "flush"

Init ==
    /\ spool = <<>> /\ openTail = FALSE /\ rejects = {} /\ torn = {}
    /\ ledger = {}
    /\ seen = [p \in Processes |-> {}]
    /\ pc = [t \in Threads |-> "idle"]
    /\ msg = [t \in Threads |-> NoMsg]
    /\ unread = [t \in Threads |-> <<>>]
    /\ linked = [t \in Threads |-> FALSE]
    /\ remaining = [t \in Threads |-> <<>>]
    /\ told = {}
    /\ relays = [m \in Messages |-> 0]
    /\ outages = 0 /\ faults = 0

-----------------------------------------------------------------------------
Fault == faults < MaxFaults /\ faults' = faults + 1
Outage == outages < MaxOutages /\ outages' = outages + 1

(* What follows is glued to a last line that has no newline. *)
Extend(lines, line) ==
    IF ~openTail THEN Append(lines, line)
    ELSE IF lines = <<>> THEN lines
    ELSE [lines EXCEPT ![Len(lines)] = Glued(@, line)]

(* appendJSONLUnlocked on the spool; a flush that still reads the file     *)
(* meets the new line, too.                                                *)
AppendSpool(line, open) ==
    /\ spool' = Extend(spool, line)
    /\ openTail' = open
    /\ unread' = [t \in Threads |-> IF linked[t] THEN Extend(unread[t], line) ELSE unread[t]]

(* A write that fails leaves nothing, a part, or all but the newline; a    *)
(* Sync that fails leaves all of it.                                       *)
AppendSpoolFails(line) ==
    /\ Fault
    /\ \/ UNCHANGED <<spool, openTail, unread>>
       \/ AppendSpool(line, FALSE)
       \/ \E l \in {line} \cup Cut(line) : AppendSpool(l, TRUE)

(* The same on the rejects file, which nothing but a line count reads. *)
AppendRejects(line, open) ==
    LET last == IF torn = {} THEN {line} ELSE {Glued(d, line) : d \in torn}
    IN /\ rejects' = IF open THEN rejects ELSE rejects \cup last
       /\ torn' = IF open THEN last ELSE {}

AppendRejectsFails(line) ==
    /\ Fault
    /\ \/ UNCHANGED <<rejects, torn>>
       \/ AppendRejects(line, FALSE)
       \/ \E l \in {line} \cup Cut(line) : AppendRejects(l, TRUE)

Return(t) ==
    /\ pc' = [pc EXCEPT ![t] = "idle"]
    /\ msg' = [msg EXCEPT ![t] = NoMsg]

Goto(t, l) == pc' = [pc EXCEPT ![t] = l] /\ UNCHANGED msg

Answer(t, status) == told' = told \cup {<<msg[t], status>>}

(* Mutant of ThenRemember: a frame is remembered when it could not be kept. *)
RememberAnyway(t, status) ==
    IF Key[msg[t]] # NoKey THEN Goto(t, "remember") ELSE Return(t)

(* RelayUSBFrame remembers what was persisted or spooled, and only that. *)
ThenRemember(t, status) ==
    IF Key[msg[t]] # NoKey /\ status \in {"persisted", "spooled"} THEN Goto(t, "remember") ELSE Return(t)

-----------------------------------------------------------------------------
(* RelayUSBFrame and RelayDirectIP.                                        *)

(* A frame that was heard shortly before ends here (duplicate_onair). *)
Relay(t, m) ==
    /\ pc[t] = "idle" /\ relays[m] < MaxRelays
    /\ Key[m] # NoKey => Unlocked(t) /\ Key[m] \notin seen[ProcessOf[t]]
    /\ relays' = [relays EXCEPT ![m] = @ + 1]
    /\ pc' = [pc EXCEPT ![t] = "ingest"]
    /\ msg' = [msg EXCEPT ![t] = m]
    /\ UNCHANGED <<files, ledger, seen, flush, told, outages, faults>>

(* Mutant of IngestRefuses: an outage is taken for a refusal. *)
IngestRefusesAny(t) ==
    /\ pc[t] = "ingest"
    /\ msg[t] \in Bad \/ outages < MaxOutages
    /\ Goto(t, "reject")
    /\ UNCHANGED <<files, ledger, seen, flush, told, relays, outages, faults>>

IngestStores(t) ==
    /\ pc[t] = "ingest" /\ msg[t] \notin Bad
    /\ ledger' = ledger \cup {msg[t]}
    /\ Answer(t, "persisted")
    /\ ThenRemember(t, IF msg[t] \in ledger THEN "duplicate" ELSE "persisted")
    /\ UNCHANGED <<files, seen, flush, relays, outages, faults>>

IngestRefuses(t) ==
    /\ pc[t] = "ingest" /\ msg[t] \in Bad
    /\ Goto(t, "reject")
    /\ UNCHANGED <<files, ledger, seen, flush, told, relays, outages, faults>>

(* The router fails: database locked, disk full, context cancelled. *)
IngestFails(t) ==
    /\ pc[t] = "ingest"
    /\ Outage
    /\ Goto(t, "spool")
    /\ UNCHANGED <<files, ledger, seen, flush, told, relays, faults>>

Reject(t) ==
    /\ pc[t] = "reject" /\ Unlocked(t)
    /\ \/ /\ AppendRejects(Record(msg[t]), FALSE)
          /\ Answer(t, "rejected")
          /\ ThenRemember(t, "rejected")
          /\ UNCHANGED faults
       \/ /\ AppendRejectsFails(Record(msg[t]))
          /\ ThenRemember(t, "reject_spool_failed")
          /\ UNCHANGED told
    /\ UNCHANGED <<spool, openTail, ledger, seen, flush, relays, outages>>

Spool(t) ==
    /\ pc[t] = "spool" /\ Unlocked(t)
    /\ \/ /\ AppendSpool(Record(msg[t]), FALSE)
          /\ Answer(t, "spooled")
          /\ ThenRemember(t, "spooled")
          /\ UNCHANGED faults
       \/ /\ AppendSpoolFails(Record(msg[t]))
          /\ ThenRemember(t, "spool_failed")
          /\ UNCHANGED told
    /\ UNCHANGED <<rejects, torn, ledger, seen, linked, remaining, relays, outages>>

Remember(t) ==
    /\ pc[t] = "remember" /\ Unlocked(t)
    /\ seen' = [seen EXCEPT ![ProcessOf[t]] = @ \cup {Key[msg[t]]}]
    /\ Return(t)
    /\ UNCHANGED <<files, ledger, flush, told, relays, outages, faults>>

(* onairDuplicateWindow has passed. *)
Forget(p, k) ==
    /\ k \in seen[p]
    /\ seen' = [seen EXCEPT ![p] = @ \ {k}]
    /\ UNCHANGED <<files, ledger, pc, msg, flush, told, relays, outages, faults>>

-----------------------------------------------------------------------------
(* FlushSpool.                                                             *)

FlushOpen(t) ==
    /\ pc[t] = "idle" /\ Unlocked(t)
    /\ spool # <<>>
    /\ Goto(t, "flush")
    /\ unread' = [unread EXCEPT ![t] = spool]
    /\ linked' = [linked EXCEPT ![t] = TRUE]
    /\ UNCHANGED <<files, ledger, seen, remaining, told, relays, outages, faults>>

Close(t) ==
    /\ Return(t)
    /\ unread' = [unread EXCEPT ![t] = <<>>]
    /\ linked' = [linked EXCEPT ![t] = FALSE]
    /\ remaining' = [remaining EXCEPT ![t] = <<>>]

Reading(t) == pc[t] = "flush" /\ unread[t] # <<>>
Readable(line) == ~line.long
Taken(t) == unread' = [unread EXCEPT ![t] = Tail(@)]

FlushStores(t) ==
    LET line == Head(unread[t]) IN
    /\ Reading(t) /\ Readable(line) /\ line.whole /\ line.of \cap Bad = {}
    /\ Taken(t)
    /\ ledger' = ledger \cup line.of
    /\ UNCHANGED <<files, seen, pc, msg, linked, remaining, told, relays, outages, faults>>

(* Debris and refused messages go to the rejects file. *)
Refusable(line) == ~line.whole \/ line.of \subseteq Bad

FlushRejects(t) ==
    LET line == Head(unread[t]) IN
    /\ Reading(t) /\ Readable(line) /\ Refusable(line)
    /\ Taken(t)
    /\ AppendRejects(line, FALSE)
    /\ UNCHANGED <<spool, openTail, ledger, seen, pc, msg, linked, remaining, told, relays, outages, faults>>

(* Mutant of FlushKeeps: the line is dropped when the router fails. *)
FlushDrops(t) ==
    LET line == Head(unread[t]) IN
    /\ Reading(t) /\ Readable(line) /\ line.whole
    /\ Outage
    /\ Taken(t)
    /\ UNCHANGED <<files, ledger, seen, pc, msg, linked, remaining, told, relays, faults>>

FlushKeeps(t) ==
    LET line == Head(unread[t]) IN
    /\ Reading(t) /\ Readable(line) /\ line.whole
    /\ Outage
    /\ Taken(t)
    /\ remaining' = [remaining EXCEPT ![t] = Append(@, line)]
    /\ UNCHANGED <<files, ledger, seen, pc, msg, linked, told, relays, faults>>

(* The rejects file cannot be written, or the line is too long: the flush  *)
(* returns and leaves the file as it is.                                   *)
FlushAborts(t) ==
    LET line == Head(unread[t]) IN
    /\ Reading(t)
    /\ IF Readable(line) THEN Refusable(line) /\ AppendRejectsFails(line)
                         ELSE UNCHANGED <<rejects, torn, faults>>
    /\ Close(t)
    /\ UNCHANGED <<spool, openTail, ledger, seen, told, relays, outages>>

(* The file is removed, or replaced by rename; who had it open elsewhere   *)
(* goes on reading the old one.                                            *)
FlushReplaces(t) ==
    /\ pc[t] = "flush" /\ unread[t] = <<>>
    /\ spool' = remaining[t]
    /\ openTail' = FALSE
    /\ Return(t)
    /\ linked' = [u \in Threads |-> FALSE]
    /\ remaining' = [remaining EXCEPT ![t] = <<>>]
    /\ UNCHANGED <<rejects, torn, ledger, seen, unread, told, relays, outages, faults>>

(* Neither: an error of os.Remove is ignored, one of the rewrite returned. *)
FlushReplaceFails(t) ==
    /\ pc[t] = "flush" /\ unread[t] = <<>>
    /\ Fault
    /\ Close(t)
    /\ UNCHANGED <<files, ledger, seen, told, relays, outages>>

(* The process dies; a write it was in counts as a failed one before. *)
Crash(p) ==
    LET mine(t) == ProcessOf[t] = p IN
    /\ Fault
    /\ seen' = [seen EXCEPT ![p] = {}]
    /\ pc' = [t \in Threads |-> IF mine(t) THEN "idle" ELSE pc[t]]
    /\ msg' = [t \in Threads |-> IF mine(t) THEN NoMsg ELSE msg[t]]
    /\ unread' = [t \in Threads |-> IF mine(t) THEN <<>> ELSE unread[t]]
    /\ linked' = [t \in Threads |-> ~mine(t) /\ linked[t]]
    /\ remaining' = [t \in Threads |-> IF mine(t) THEN <<>> ELSE remaining[t]]
    /\ UNCHANGED <<files, ledger, told, relays, outages>>

(* A relay that was begun goes on. *)
RelayStep(t) ==
    \/ IngestStores(t) \/ IngestRefuses(t) \/ IngestFails(t)
    \/ Reject(t)
    \/ Spool(t)
    \/ Remember(t)

FlushStep(t) ==
    \/ FlushOpen(t)
    \/ FlushStores(t) \/ FlushRejects(t) \/ FlushKeeps(t) \/ FlushAborts(t)
    \/ FlushReplaces(t) \/ FlushReplaceFails(t)

Next ==
    \/ \E t \in Threads, m \in Messages : Relay(t, m)
    \/ \E t \in Threads : RelayStep(t) \/ FlushStep(t)
    \/ \E p \in Processes : Crash(p) \/ \E k \in Keys : Forget(p, k)

Spec == Init /\ [][Next]_vars

(* FlushSpool is called again and again (nothing in the program does it;   *)
(* the operator runs the flush-spool mode).                                *)
FairSpec ==
    /\ Spec
    /\ WF_vars(\E t \in Threads : FlushStep(t))
    /\ \A t \in Threads : WF_vars(RelayStep(t))

-----------------------------------------------------------------------------
(* Properties.                                                             *)

(* A process is in one flush at a time, and a thread has a file open and   *)
(* lines in hand only while it holds the mutex for it.                     *)
Sections ==
    /\ \A t, u \in Threads :
          pc[t] = "flush" /\ pc[u] = "flush" /\ ProcessOf[t] = ProcessOf[u] => t = u
    /\ \A t \in Threads :
          pc[t] # "flush" => ~linked[t] /\ unread[t] = <<>> /\ remaining[t] = <<>>

TypeOK ==
    /\ spool \in Seq(Line)
    /\ openTail \in BOOLEAN
    /\ rejects \subseteq Line /\ torn \subseteq Line
    /\ ledger \subseteq Messages
    /\ seen \in [Processes -> SUBSET Keys]
    /\ pc \in [Threads -> {"idle", "ingest", "reject", "spool", "remember", "flush"}]
    /\ msg \in [Threads -> Messages \cup {NoMsg}]
    /\ unread \in [Threads -> Seq(Line)]
    /\ linked \in [Threads -> BOOLEAN]
    /\ remaining \in [Threads -> Seq(Line)]
    /\ told \subseteq Messages \X {"persisted", "rejected", "spooled"}
    /\ relays \in [Messages -> Nat]
    /\ outages \in Nat /\ faults \in Nat
    /\ Sections

Kept == ledger \cup RejectedMessages \cup In(spool)

(* A message whose relay was answered persisted, rejected or spooled is in *)
(* the ledger, the rejects file or the spool from then on, whatever        *)
(* flushes, failing writes, outages and crashes come in between.           *)
NothingLost == \A a \in told : a[1] \in Kept

(* A frame is answered duplicate_onair only if a message decoded from it   *)
(* was kept before.                                                        *)
RememberedIsKept ==
    \A p \in Processes : \A k \in seen[p] : \E m \in Kept : Key[m] = k

(* Only what the router refused, and debris, is in the rejects file: an    *)
(* outage of the router never is a refusal.                                *)
RejectedForCause == \A l \in Rejects : l.whole => l.of \subseteq Bad

(* A message that the router would take and that was answered spooled      *)
(* waits in the spool or is in the ledger.                                 *)
SpoolIsABuffer ==
    \A m \in Messages \ Bad : <<m, "spooled">> \in told => m \in ledger \cup In(spool)

(* With repeated flushes the spool empties when the router is back, unless *)
(* a line in it is too long for the scanner.                               *)
Overlong == \E k \in 1 .. Len(spool) : spool[k].long
SpoolDrains ==
    []~Overlong => \A m \in Messages : m \in In(spool) ~> m \in ledger \cup RejectedMessages
=============================================================================
