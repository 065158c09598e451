----------------------------- MODULE SiteLedger -----------------------------
(***************************************************************************)
(* Router.Ingest of internal/siterouter/router.go and the tables it fills: *)
(* messages, event_ledger, radio_packet_observation, latest_state,         *)
(* file_chunk_ledger, heartbeat_ledger and fabric_summary_latest; with     *)
(* Compact and RebuildLatestState.  (A command and its result are in       *)
(* CommandLedger, a manifest and a lease in RoutePlanner.)                 *)
(*                                                                         *)
(* Radio events reach it through several Host Agents: each one that hears  *)
(* a frame makes an envelope of its own, with an event id that holds the   *)
(* frame's on-air key and the five minutes in which it was heard.  An      *)
(* envelope is handed in any number of times, early or late, since agents  *)
(* and clients repeat what was not answered.                               *)
(*                                                                         *)
(* One unit of time is the five minutes of an event id.  An age of k units *)
(* is anything between k - 1 and k + 1 of them, so at an age of exactly    *)
(* Window either side of the code's comparison may be taken.               *)
(***************************************************************************)
EXTENDS LatestState, FiniteSets

CONSTANTS Frames,      \* frames sent by nodes
          Agents,      \* Host Agents
          Key,         \* Key[f]: stableOnAirKey of the frame
          Posts,       \* envelopes that clients and agents hand in
          Window,      \* radioPacketObservationWindow
          Retention,   \* Retention[t]: age at which Compact deletes from t
          MaxTime,     \* bound: units of time
          MaxMessages, \* bound: messages kept
          Absent       \* an empty field of an envelope

Tables == {"observation", "heartbeat", "file_chunk"}   \* that Compact deletes from
Kinds == {"event", "state", "command", "command_result", "manifest", "lease",
          "fabric_summary", "heartbeat", "file_chunk"}

ASSUME SiteLedgerAssumption ==
    /\ Window \in Nat /\ MaxTime \in Nat \ {0} /\ MaxMessages \in Nat
    /\ Retention \in [Tables -> Nat]
    /\ Retention["observation"] > Window   \* hours against ten minutes
    /\ \A f \in Frames : Key[f] # Absent
    /\ \A e \in Posts :
          /\ e.id \notin Frames \X Agents   \* message ids are new
          /\ e.kind = "file_chunk" => e.index \in Int /\ e.total \in Int
          /\ e.kind = "state" =>
                /\ {"at", "seq", "rank", "subject"} \subseteq DOMAIN e
                /\ e.at \in Nat /\ e.seq \in Int /\ e.rank \in Int
                /\ \A d \in Posts : d.kind = "state" /\ d.rank = e.rank => d.id = e.id
    /\ NoRow \notin Posts

VARIABLES
    now,        \* the five minutes the clocks show
    sent,       \* sent[f]: when the frame was sent, 0: not yet
    heard,      \* heard[f][h]: when agent h decoded a copy of it, 0: it did not
    messages,   \* messages: the envelopes kept
    readings,   \* its rows of kind state in table order, with persisted_at
    ledger,     \* event_ledger
    observed,   \* radio_packet_observation
    latest,     \* latest_state, by subject
    reports,    \* heartbeat_ledger and fabric_summary_latest
    chunks,     \* file_chunk_ledger
    answered,   \* history: envelopes answered, each with acked_message_id
    swept       \* history: primary keys of what Compact deleted

tables == <<messages, readings, ledger, observed, latest, reports, chunks>>
air == <<sent, heard>>
vars == <<now, air, tables, answered, swept>>

Subjects == {e.subject : e \in {p \in Posts : p.kind = "state"}}

(* persisted_at of the next state, on the scale of occurred_at. *)
Instant == now * (MaxMessages + 1) + Len(readings)

Init ==
    /\ now = 1
    /\ sent = [f \in Frames |-> 0]
    /\ heard = [f \in Frames |-> [h \in Agents |-> 0]]
    /\ messages = {} /\ readings = <<>>
    /\ ledger = {} /\ observed = {} /\ reports = {} /\ chunks = {}
    /\ latest = [s \in Subjects |-> NoRow]
    /\ answered = {} /\ swept = {}

-----------------------------------------------------------------------------
(* Frames and the envelopes agents make of them.                           *)

Send(f) ==
    /\ sent[f] = 0
    /\ sent' = [sent EXCEPT ![f] = now]
    /\ UNCHANGED <<now, heard, tables, answered, swept>>

(* Copies of a frame arrive with it or, relayed, a little later. *)
Hear(f, h) ==
    /\ sent[f] # 0 /\ now <= sent[f] + 1
    /\ heard[f][h] = 0
    /\ heard' = [heard EXCEPT ![f][h] = now]
    /\ UNCHANGED <<now, sent, tables, answered, swept>>

Tick ==
    /\ now < MaxTime
    /\ now' = now + 1
    /\ UNCHANGED <<air, tables, answered, swept>>

(* stableOnAirEventID and the event decodeCompactSummaryEnvelope makes. *)
Copy(f, h) ==
    [id |-> <<f, h>>, kind |-> "event", key |-> Key[f], event |-> <<Key[f], heard[f][h]>>,
     lacks |-> {}]

Copies == {Copy(p[1], p[2]) : p \in {q \in Frames \X Agents : heard[q[1]][q[2]] # 0}}
Envelopes == Posts \cup Copies

-----------------------------------------------------------------------------
(* What Ingest reads and decides.                                          *)

(* Envelope.Validate: fields that must be there, and those that must be    *)
(* well formed when they are.  lacks holds the fields that are not.        *)
Needed(kind) ==
    {"schema_version", "message_id", "priority", "source", "target", "payload"}
    \cup {"fabric_short_id", "occurred_at", "expires_at", "hop_limit", "hop_count", "ttl"}
    \cup (CASE kind = "command" -> {"command_id"}
            [] kind = "command_result" -> {"command_id or token"}
            [] kind = "file_chunk" -> {"chunk_index", "total_chunks"}
            [] OTHER -> {})

Valid(e) == e.kind \in Kinds /\ e.lacks \cap Needed(e.kind) = {}

Ids == {m.id : m \in messages}

Named(e) == e.kind = "event" /\ e.event # Absent

(* Mutant of Duplicate: events are looked up by message id only. *)
DuplicateById(e) == Ids \cap {e.id}

(* lookupDuplicate: the message id found for the envelope, at most one. *)
Duplicate(e) ==
    LET byEvent == {r.msg : r \in {x \in ledger : Named(e) /\ x.event = e.event}}
    IN  IF byEvent # {} THEN byEvent ELSE Ids \cap {e.id}

Keyed(e) == e.kind = "event" /\ e.key # Absent

Observations(e) == {o \in observed : Keyed(e) /\ o.key = e.key}

(* recordDuplicateRadioObservation: the window of the key may be open (the *)
(* copy is another of an event that is kept), or may have closed.          *)
WindowOpen(e) == \E o \in Observations(e) : now - o.seen <= Window

(* Mutant of WindowClosed: the age is not compared. *)
AlwaysClosed(e) == TRUE

WindowClosed(e) == \A o \in Observations(e) : now - o.seen >= Window

FileOf(e) == CASE e.file # Absent -> e.file
               [] e.file = Absent /\ e.correlation # Absent -> e.correlation
               [] OTHER -> <<e.source, e.target>>

(* Mutant of Agrees: totals are not compared. *)
AlwaysAgrees(e) == TRUE

(* total_chunks must be that of the chunks there are. *)
Agrees(e) == \A c \in chunks : c.file = FileOf(e) => c.total = e.total

GatewayStatuses == {"lora_ingress", "radio_tx_queued", "hop_buffered", "radio_handoff_accepted"}

(* heartbeatSubjectKind *)
SubjectKind(e) ==
    CASE e.subject_kind # Absent -> e.subject_kind
      [] e.subject_kind = Absent /\ e.gateway # Absent -> "gateway"
      [] OTHER -> IF e.status \in GatewayStatuses THEN "gateway" ELSE "node"

(* heartbeatKeyForEnvelope *)
HeartbeatOf(e) ==
    CASE e.subject # Absent -> <<SubjectKind(e), e.subject>>
      [] e.subject = Absent /\ e.gateway # Absent -> <<"gateway", e.gateway>>
      [] OTHER -> <<SubjectKind(e), e.source>>

(* fabricSummaryKeyForEnvelope *)
SummaryOf(e) == CASE e.scope # Absent -> e.scope
                  [] e.scope = Absent /\ e.site # Absent -> e.site
                  [] OTHER -> e.target

(* validateHeartbeatSubject *)
SubjectGiven(e) ==
    e.strict =>
        /\ e.subject # Absent
        /\ e.subject_kind \in {"gateway", "node", "host_agent", "relay"}
        /\ e.subject_kind = "gateway" => e.gateway \in {Absent, e.subject}

(* Ingest's step for the kind does not return an error. *)
Applicable(e) == CASE e.kind = "file_chunk" -> Agrees(e)
                   [] e.kind = "heartbeat" -> SubjectGiven(e)
                   [] OTHER -> TRUE

Reported(e) == e.kind \in {"heartbeat", "fabric_summary"}

(* The primary keys of the rows the envelope writes. *)
ReportOf(e) == CASE e.kind = "heartbeat" -> <<"heartbeat", HeartbeatOf(e)>>
                 [] e.kind = "fabric_summary" -> <<"fabric_summary", SummaryOf(e)>>
                 [] OTHER -> <<"none">>

ChunkOf(e) == IF e.kind = "file_chunk" THEN <<"file_chunk", FileOf(e), e.index>> ELSE <<"none">>
KeyOfChunk(c) == <<"file_chunk", c.file, c.index>>

When(condition, row) == IF condition THEN {row} ELSE {}

-----------------------------------------------------------------------------
(* Router.Ingest.                                                          *)

Answer(e, id) == answered' = answered \cup {<<e, id>>}

Keep(e) ==
    /\ Cardinality(messages) < MaxMessages
    /\ messages' = messages \cup {e}
    /\ readings' = IF e.kind = "state" THEN Append(readings, [env |-> e, at |-> Instant])
                   ELSE readings

(* Mutant of Refuse: the message row outlives the failed transaction. *)
RefuseHalfway(e) ==
    /\ Valid(e) /\ ~Applicable(e) /\ Duplicate(e) = {}
    /\ Keep(e)
    /\ UNCHANGED <<now, air, ledger, observed, latest, reports, chunks, answered, swept>>

(* An error: the transaction is rolled back. *)
Refuse(e) ==
    /\ ~Valid(e) \/ (~Applicable(e) /\ Duplicate(e) = {})
    /\ UNCHANGED <<now, air, tables, answered, swept>>

AnswerDuplicate(e) ==
    /\ Valid(e)
    /\ \E id \in Duplicate(e) : Answer(e, id)
    /\ UNCHANGED <<now, air, tables, swept>>

(* Another copy within the window: the row is touched, nothing is stored. *)
AnswerHeardAgain(e) ==
    /\ Valid(e) /\ Duplicate(e) = {} /\ WindowOpen(e)
    /\ \E o \in Observations(e) :
          /\ Answer(e, o.first)
          /\ observed' = (observed \ {o}) \cup {[key |-> o.key, first |-> o.first, seen |-> now]}
    /\ UNCHANGED <<now, air, messages, readings, ledger, latest, reports, chunks, swept>>

Persist(e) ==
    /\ Valid(e) /\ Duplicate(e) = {} /\ Applicable(e) /\ WindowClosed(e)
    /\ Keep(e)
    /\ ledger' = ledger \cup When(Named(e), [event |-> e.event, msg |-> e.id, at |-> now])
    /\ observed' = (observed \ Observations(e))
          \cup When(Keyed(e), [key |-> e.key, first |-> e.id, seen |-> now])
    /\ latest' = [s \in Subjects |->
          IF e.kind = "state" /\ e.subject = s THEN Upserted(latest[s], e) ELSE latest[s]]
    /\ reports' = {r \in reports : r.key # ReportOf(e)}
          \cup When(Reported(e), [key |-> ReportOf(e), msg |-> e.id, at |-> now])
    /\ chunks' = {c \in chunks : KeyOfChunk(c) # ChunkOf(e)}
          \cup When(e.kind = "file_chunk",
                     [file |-> FileOf(e), index |-> e.index, total |-> e.total,
                      msg |-> e.id, at |-> now])
    /\ Answer(e, e.id)
    /\ UNCHANGED <<now, air, swept>>

Ingest(e) == Refuse(e) \/ AnswerDuplicate(e) \/ AnswerHeardAgain(e) \/ Persist(e)

-----------------------------------------------------------------------------
(* Upkeep.                                                                 *)

(* Compact: one DELETE per table, each its own transaction.  Summaries are *)
(* kept: there is one row per scope.                                       *)
Compact(t) ==
    LET old(at) == now - at >= Retention[t]
        reportsOf == {r \in reports : r.key[1] = t /\ old(r.at)}
        files == {c \in chunks : t = "file_chunk" /\ old(c.at)}
    IN  /\ observed' = {o \in observed : ~(t = "observation" /\ old(o.seen))}
        /\ reports' = reports \ reportsOf
        /\ chunks' = chunks \ files
        /\ swept' = swept \cup {r.key : r \in reportsOf}
                         \cup {KeyOfChunk(c) : c \in files}
        /\ UNCHANGED <<now, air, messages, readings, ledger, latest, answered>>

(* RebuildLatestState *)
Rebuild ==
    /\ latest' = [s \in Subjects |-> Rebuilt(readings, s)]
    /\ UNCHANGED <<now, air, messages, readings, ledger, observed, reports, chunks, answered, swept>>

Next ==
    \/ \E f \in Frames : Send(f) \/ \E h \in Agents : Hear(f, h)
    \/ Tick
    \/ \E e \in Envelopes : Ingest(e)
    \/ \E t \in Tables : Compact(t)
    \/ Rebuild

Spec == Init /\ [][Next]_vars

-----------------------------------------------------------------------------
(* Properties.                                                             *)

OnePerKey(S, K(_)) == \A x, y \in S : K(x) = K(y) => x = y

(* The columns hold what they are for, and no table holds two rows of one  *)
(* primary key, though nothing but the lookups before the writes sees to   *)
(* it for messages and event_ledger.                                       *)
TypeOK ==
    /\ now \in 1 .. MaxTime
    /\ sent \in [Frames -> 0 .. now]
    /\ heard \in [Frames -> [Agents -> 0 .. now]]
    /\ messages \subseteq Envelopes
    /\ OnePerKey(messages, LAMBDA m : m.id)
    /\ readings \in Seq([env : Envelopes, at : Nat])
    /\ {readings[i].env : i \in DOMAIN readings} = {m \in messages : m.kind = "state"}
    /\ \A r \in ledger : r.msg \in Ids /\ r.at \in 1 .. now
    /\ OnePerKey(ledger, LAMBDA r : r.event)
    /\ \A o \in observed : o.first \in Ids /\ o.seen \in 1 .. now
    /\ OnePerKey(observed, LAMBDA o : o.key)
    /\ OnePerKey(reports, LAMBDA r : r.key)
    /\ OnePerKey(chunks, KeyOfChunk)
    /\ answered \subseteq Envelopes \X Ids

EntriesOf(f) == {r \in ledger : r.msg \in {f} \X Agents}

(* However many agents hear a frame, and whenever they hand their copies   *)
(* in, the event is entered once - except that copies heard on two sides   *)
(* of a five-minute boundary have two event ids, and then the second entry *)
(* comes a window after the first (an agent that was cut off).             *)
CountedOnce ==
    \A f \in Frames : \A r, s \in EntriesOf(f) :
        r # s => r.at - s.at >= Window \/ s.at - r.at >= Window

SameEvent(e, d) ==
    e.id = d.id \/ (Named(e) /\ Named(d) /\ e.event = d.event) \/ (Keyed(e) /\ Keyed(d) /\ e.key = d.key)

(* What ingesting the envelope was to bring about can be read back. *)
Applied(e) ==
    /\ e.kind = "event" =>
          \E m \in messages :
              /\ m.kind = "event" /\ SameEvent(e, m)
              /\ Named(m) => \E r \in ledger : r.event = m.event /\ r.msg = m.id
    /\ e.kind # "event" => e.id \in Ids
    /\ e.kind = "state" => latest[e.subject] # NoRow /\ latest[e.subject].at >= e.at
    /\ e.kind = "file_chunk" => ChunkOf(e) \in swept \cup {KeyOfChunk(c) : c \in chunks}
    /\ Reported(e) =>
          \/ ReportOf(e) \in {r.key : r \in reports}
          \/ e.kind = "heartbeat" /\ ReportOf(e) \in swept

(* An answer lets the sender forget the envelope, so what it was to do is  *)
(* done, and stays done: its event is in the ledger under a kept message,  *)
(* its chunk or heartbeat has a row unless retention took it, its summary  *)
(* always has, and its state is the current one or an older one.  A        *)
(* duplicate names a kept message.                                         *)
AnsweredIsApplied ==
    \A a \in answered : Applied(a[1]) /\ a[2] \in Ids

StatesOf(s) == {m \in messages : m.kind = "state" /\ m.subject = s}

(* The code's order is not transitive when states of one moment mix        *)
(* sessions; here it is, and every state says when it was.                 *)
Ordered(S) ==
    /\ \A a \in S : a.at # 0
    /\ \A a, b, c \in S : Newer(a, b) /\ Newer(b, c) => Newer(a, c)

(* In whatever order states arrive, and whenever the table is rebuilt, the *)
(* row of a subject is the newest state kept, as long as there is one.     *)
LatestIsNewest ==
    \A s \in Subjects :
        Ordered(StatesOf(s)) =>
            \A a \in StatesOf(s) : latest[s] = a \/ Newer(latest[s], a)

ChunksOf(f) == {c \in chunks : c.file = f}

(* FileChunkProgress *)
Complete(f) ==
    LET indices == {c.index : c \in ChunksOf(f)}
        totals == {c.total : c \in ChunksOf(f)}
    IN  \E t \in totals :
            /\ \A u \in totals : u <= t
            /\ t > 0 /\ Cardinality(ChunksOf(f)) = t
            /\ 0 \in indices /\ t - 1 \in indices
            /\ \A i \in indices : 0 <= i /\ i < t

(* A file that is reported complete has each chunk of its total, every one *)
(* cut by the same total, whatever was repeated, compacted or sent anew.   *)
FileIsWhole ==
    \A f \in {c.file : c \in chunks} :
        Complete(f) =>
            \E t \in {c.total : c \in ChunksOf(f)} :
                           /\ {c.index : c \in ChunksOf(f)} = 0 .. t - 1
                           /\ \A c \in ChunksOf(f) : c.total = t

Current(s) == IF latest[s] = NoRow THEN Absent ELSE latest[s].id

(* Said by the design's chapter on storage: latest_state can be rebuilt    *)
(* from the ledger.  Rebuilding leaves every subject with the same state.  *)
RebuildKeeps == [][Rebuild => \A s \in Subjects : Current(s)' = Current(s)]_vars
=============================================================================
