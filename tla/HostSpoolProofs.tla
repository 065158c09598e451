-------------------------- MODULE HostSpoolProofs ---------------------------
(* Theorems about the spool of the Host Agent, for every set of messages,  *)
(* threads and processes and any number of relays, outages and faults.     *)
EXTENDS HostSpool, TLAPS

USE HostSpoolAssumption

-----------------------------------------------------------------------------
(* Lines.                                                                  *)

LEMMA InMember ==
    ASSUME NEW s, NEW m
    PROVE  m \in In(s) <=> \E k \in 1 .. Len(s) : m \in s[k].of
  BY DEF In

LEMMA InNone == In(<<>>) = {}
  BY DEF In

LEMMA Appended ==
    ASSUME NEW s \in Seq(Line), NEW line \in Line
    PROVE  /\ Append(s, line) \in Seq(Line) /\ Append(s, line) # <<>>
           /\ In(Append(s, line)) = In(s) \cup line.of
<1>1. /\ Append(s, line) \in Seq(Line) /\ Len(Append(s, line)) = Len(s) + 1 /\ Len(s) \in Nat
      /\ \A k \in 1 .. Len(s) : Append(s, line)[k] = s[k]
      /\ Append(s, line)[Len(s) + 1] = line
  OBVIOUS
<1>2. ASSUME NEW m
      PROVE  m \in In(Append(s, line)) <=> m \in In(s) \cup line.of
  <2>1. ASSUME NEW k \in 1 .. Len(s) + 1, m \in Append(s, line)[k].of
        PROVE  m \in In(s) \cup line.of
    <3>1. CASE k \in 1 .. Len(s)
      BY <2>1, <3>1, <1>1, InMember
    <3>2. CASE k = Len(s) + 1
      BY <2>1, <3>2, <1>1
    <3> QED BY <3>1, <3>2, <1>1
  <2>2. ASSUME NEW k \in 1 .. Len(s), m \in s[k].of
        PROVE  m \in In(Append(s, line))
    <3>1. k \in 1 .. Len(Append(s, line)) /\ m \in Append(s, line)[k].of
      BY <2>2, <1>1
    <3> QED BY <3>1, InMember
  <2>3. ASSUME m \in line.of
        PROVE  m \in In(Append(s, line))
    <3>1. Len(s) + 1 \in 1 .. Len(Append(s, line)) /\ m \in Append(s, line)[Len(s) + 1].of
      BY <2>3, <1>1
    <3> QED BY <3>1, InMember
  <2> QED BY <2>1, <2>2, <2>3, <1>1, InMember
<1>3. Append(s, line) # <<>>
  BY <1>1
<1> QED BY <1>1, <1>2, <1>3

LEMMA HeadTaken ==
    ASSUME NEW s \in Seq(Line), s # <<>>
    PROVE  /\ Head(s) \in Line /\ Tail(s) \in Seq(Line)
           /\ In(s) = Head(s).of \cup In(Tail(s))
<1>1. /\ Len(s) \in Nat \ {0} /\ Head(s) = s[1] /\ Head(s) \in Line /\ Tail(s) \in Seq(Line)
      /\ Len(Tail(s)) = Len(s) - 1
      /\ \A k \in 1 .. Len(s) - 1 : Tail(s)[k] = s[k + 1]
  OBVIOUS
<1>2. ASSUME NEW m
      PROVE  m \in In(s) <=> m \in Head(s).of \cup In(Tail(s))
  <2>1. ASSUME NEW k \in 1 .. Len(s), m \in s[k].of
        PROVE  m \in Head(s).of \cup In(Tail(s))
    <3>1. CASE k = 1
      BY <2>1, <3>1, <1>1
    <3>2. CASE k # 1
      <4>1. k - 1 \in 1 .. Len(Tail(s)) /\ Tail(s)[k - 1] = s[k]
        BY <3>2, <1>1
      <4> QED BY <2>1, <4>1, InMember
    <3> QED BY <3>1, <3>2
  <2>2. ASSUME m \in Head(s).of
        PROVE  m \in In(s)
    <3>1. 1 \in 1 .. Len(s)
      BY <1>1
    <3> QED BY <2>2, <3>1, <1>1, InMember
  <2>3. ASSUME NEW k \in 1 .. Len(Tail(s)), m \in Tail(s)[k].of
        PROVE  m \in In(s)
    <3>1. k + 1 \in 1 .. Len(s) /\ Tail(s)[k] = s[k + 1]
      BY <1>1
    <3> QED BY <2>3, <3>1, InMember
  <2> QED BY <2>1, <2>2, <2>3, InMember
<1> QED BY <1>1, <1>2

(* Extend keeps what was there, and adds the line unless the file ends     *)
(* without a newline and has no line.                                      *)
LEMMA Extended ==
    ASSUME NEW s \in Seq(Line), NEW line \in Line
    PROVE  /\ Extend(s, line) \in Seq(Line)
           /\ In(s) \subseteq In(Extend(s, line))
           /\ In(Extend(s, line)) \subseteq In(s) \cup line.of
           /\ ~ (openTail /\ s = <<>>) =>
                 line.of \subseteq In(Extend(s, line)) /\ Extend(s, line) # <<>>
<1>1. CASE ~openTail
  BY <1>1, Appended DEF Extend
<1>2. CASE openTail /\ s = <<>>
  BY <1>2 DEF Extend
<1>3. CASE openTail /\ s # <<>>
  <2> DEFINE n == Len(s)
             last == Glued(s[n], line)
             t == [s EXCEPT ![n] = last]
  <2>1. n \in 1 .. Len(s) /\ s[n] \in Line /\ Len(s) \in Nat
    BY <1>3
  <2>2. last \in Line /\ last.of = s[n].of \cup line.of
    BY <2>1 DEF Line, Glued
  <2>3. Extend(s, line) = t
    BY <1>3 DEF Extend
  <2> HIDE DEF last
  <2>4. /\ t \in Seq(Line) /\ Len(t) = Len(s) /\ t # <<>>
        /\ t[n] = last /\ \A k \in 1 .. Len(s) : k # n => t[k] = s[k]
    BY <1>3, <2>1, <2>2
  <2> HIDE DEF t
  <2>5. ASSUME NEW m \in In(s)
        PROVE  m \in In(t)
    <3>1. PICK k \in 1 .. Len(s) : m \in s[k].of
      BY InMember
    <3>2. m \in t[k].of
      BY <3>1, <2>2, <2>4
    <3> QED BY <3>2, <2>4, InMember
  <2>6. ASSUME NEW m \in line.of
        PROVE  m \in In(t)
    <3>1. m \in t[n].of
      BY <2>2, <2>4
    <3> QED BY <3>1, <2>1, <2>4, InMember
  <2>7. ASSUME NEW m \in In(t)
        PROVE  m \in In(s) \cup line.of
    <3>1. PICK k \in 1 .. Len(s) : m \in t[k].of
      BY <2>4, InMember
    <3>2. m \in s[k].of \cup line.of
      BY <3>1, <2>2, <2>4
    <3> QED BY <3>2, InMember
  <2> QED BY <2>3, <2>4, <2>5, <2>6, <2>7
<1> QED BY <1>1, <1>2, <1>3

-----------------------------------------------------------------------------
(* Type correctness.  TypeOK needs that a thread at work on a message has  *)
(* one, and that only messages of a frame are remembered.                  *)

AtWork ==
    \A t \in Threads :
        /\ pc[t] \in {"ingest", "reject", "spool", "remember"} => msg[t] \in Messages
        /\ pc[t] = "remember" => Key[msg[t]] \in Keys

FileTypes ==
    /\ spool \in Seq(Line) /\ openTail \in BOOLEAN
    /\ rejects \subseteq Line /\ torn \subseteq Line
    /\ ledger \subseteq Messages
    /\ seen \in [Processes -> SUBSET Keys]

Place == {"idle", "ingest", "reject", "spool", "remember", "flush"}

ThreadTypes ==
    /\ pc \in [Threads -> Place]
    /\ msg \in [Threads -> Messages \cup {NoMsg}]

FlushTypes ==
    /\ unread \in [Threads -> Seq(Line)]
    /\ linked \in [Threads -> BOOLEAN]
    /\ remaining \in [Threads -> Seq(Line)]

CountTypes ==
    /\ told \subseteq Messages \X {"persisted", "rejected", "spooled"}
    /\ relays \in [Messages -> Nat]
    /\ outages \in Nat /\ faults \in Nat

Types == FileTypes /\ ThreadTypes /\ FlushTypes /\ CountTypes

LEMMA TypeParts == TypeOK <=> Types /\ Sections
  BY DEF TypeOK, Types, FileTypes, ThreadTypes, FlushTypes, CountTypes, Place

LEMMA TypeAfter ==
    ASSUME FileTypes', ThreadTypes', FlushTypes', CountTypes'
    PROVE  Types'
  BY DEF Types

LEMMA TypeInit == Init => TypeOK /\ AtWork
<1> SUFFICES ASSUME Init
             PROVE  TypeOK /\ AtWork
  OBVIOUS
<1>0. <<>> \in Seq(Line)
  OBVIOUS
<1>1. FileTypes
  BY <1>0 DEF Init, FileTypes
<1>2. ThreadTypes /\ AtWork
  BY DEF Init, ThreadTypes, AtWork, Place
<1>3. FlushTypes
  BY <1>0 DEF Init, FlushTypes
<1>4. CountTypes
  BY DEF Init, CountTypes
<1>5. Sections
  BY DEF Init, Sections
<1> QED BY <1>1, <1>2, <1>3, <1>4, <1>5, TypeParts DEF Types

LEMMA RecordIsLine ==
    ASSUME NEW m \in Messages
    PROVE  Record(m) \in Line /\ Record(m).of = {m} /\ Record(m).whole = TRUE
  BY DEF Record, Line

LEMMA CutIsLine ==
    ASSUME NEW line \in Line, NEW l \in {line} \cup Cut(line)
    PROVE  l \in Line /\ (l.whole => l = line)
<1>1. CASE l \in Cut(line)
  <2>1. PICK b \in {FALSE, line.long} : l = [whole |-> FALSE, of |-> {}, long |-> b]
    BY <1>1 DEF Cut
  <2>2. b \in BOOLEAN
    BY DEF Line
  <2>3. l.whole = FALSE /\ l \in Line
    BY <2>1, <2>2 DEF Line
  <2> QED BY <2>3
<1> QED BY <1>1

(* What an append makes of the rejects file, whether it succeeds or fails. *)
LEMMA RejectsAppended ==
    ASSUME TypeOK, NEW line \in Line, NEW open \in BOOLEAN, AppendRejects(line, open)
    PROVE  /\ rejects' \subseteq Line /\ torn' \subseteq Line
           /\ RejectedMessages' = RejectedMessages \cup line.of
           /\ \A l \in Rejects' : l \in Rejects \/ l = line \/ ~ l.whole
<1> DEFINE last == IF torn = {} THEN {line} ELSE {Glued(d, line) : d \in torn}
<1>1. /\ rejects' = IF open THEN rejects ELSE rejects \cup last
      /\ torn' = IF open THEN last ELSE {}
  BY DEF AppendRejects
<1>2. \A d \in torn : /\ Glued(d, line) \in Line /\ ~ Glued(d, line).whole
                      /\ Glued(d, line).of = d.of \cup line.of
  BY DEF Glued, Line, TypeOK
<1>3. /\ last \subseteq Line
      /\ \A l \in last : l = line \/ ~ l.whole
      /\ UNION {l.of : l \in last} = line.of \cup UNION {l.of : l \in torn}
  <2>1. CASE torn = {}
    BY <2>1
  <2>2. CASE torn # {}
    <3>1. last = {Glued(d, line) : d \in torn}
      BY <2>2
    <3> HIDE DEF last
    <3>2. PICK e \in torn : TRUE
      BY <2>2
    <3> QED BY <1>2, <3>1, <3>2
  <2> QED BY <2>1, <2>2
<1> HIDE DEF last
<1>4. Rejects' = rejects \cup last
  BY <1>1 DEF Rejects
<1>5. RejectedMessages' = RejectedMessages \cup line.of
  <2>1. \A m : m \in RejectedMessages' <=> (\E l \in Rejects' : m \in l.of)
    BY DEF RejectedMessages
  <2>2. \A m : m \in RejectedMessages <=> (\E l \in rejects : m \in l.of) \/ (\E l \in torn : m \in l.of)
    BY DEF RejectedMessages, Rejects
  <2>3. \A m : (\E l \in last : m \in l.of) <=> m \in line.of \/ (\E l \in torn : m \in l.of)
    BY <1>3
  <2> QED BY <1>4, <2>1, <2>2, <2>3
<1>6. rejects' \subseteq Line /\ torn' \subseteq Line
  BY <1>1, <1>3 DEF TypeOK
<1>7. \A l \in Rejects' : l \in Rejects \/ l = line \/ ~ l.whole
  BY <1>3, <1>4 DEF Rejects
<1> QED BY <1>5, <1>6, <1>7

LEMMA RejectsAppendFails ==
    ASSUME TypeOK, NEW line \in Line, AppendRejectsFails(line)
    PROVE  /\ rejects' \subseteq Line /\ torn' \subseteq Line /\ faults' \in Nat
           /\ RejectedMessages \subseteq RejectedMessages'
           /\ \A l \in Rejects' : l \in Rejects \/ l = line \/ ~ l.whole
<1>0. faults' \in Nat
  BY DEF AppendRejectsFails, Fault, TypeOK
<1>1. CASE UNCHANGED <<rejects, torn>>
  BY <1>0, <1>1 DEF TypeOK, Rejects, RejectedMessages
<1>2. ASSUME NEW l \in {line} \cup Cut(line), NEW open \in BOOLEAN, AppendRejects(l, open)
      PROVE  /\ rejects' \subseteq Line /\ torn' \subseteq Line
             /\ RejectedMessages \subseteq RejectedMessages'
             /\ \A k \in Rejects' : k \in Rejects \/ k = line \/ ~ k.whole
  <2>1. l \in Line /\ (l.whole => l = line)
    BY CutIsLine
  <2> QED BY <1>2, <2>1, RejectsAppended
<1>3. \/ UNCHANGED <<rejects, torn>>
      \/ \E l \in {line} \cup Cut(line), open \in BOOLEAN : AppendRejects(l, open)
  BY DEF AppendRejectsFails
<1> QED BY <1>0, <1>1, <1>2, <1>3

(* Where a thread goes after a step. *)
LEMMA ReturnType ==
    ASSUME TypeOK, AtWork, NEW t \in Threads, Return(t)
    PROVE  ThreadTypes' /\ AtWork'
<1>1. ThreadTypes'
  BY DEF Return, TypeOK, ThreadTypes, Place
<1>2. AtWork'
  BY DEF Return, TypeOK, AtWork
<1> QED BY <1>1, <1>2

LEMMA GotoType ==
    ASSUME TypeOK, AtWork, NEW t \in Threads, NEW l \in Place, Goto(t, l),
           l # "flush" => msg[t] \in Messages, l = "remember" => Key[msg[t]] \in Keys
    PROVE  ThreadTypes' /\ AtWork'
<1>1. ThreadTypes'
  BY DEF Goto, TypeOK, ThreadTypes, Place
<1>2. AtWork'
  BY DEF Goto, TypeOK, AtWork
<1> QED BY <1>1, <1>2

LEMMA ThenType ==
    ASSUME TypeOK, AtWork, NEW t \in Threads, NEW status, ThenRemember(t, status),
           msg[t] \in Messages
    PROVE  ThreadTypes' /\ AtWork'
<1>1. CASE Key[msg[t]] # NoKey /\ Goto(t, "remember")
  <2>1. Key[msg[t]] \in Keys /\ "remember" \in Place
    BY <1>1 DEF Keys, Place
  <2> QED BY <1>1, <2>1, GotoType
<1>2. CASE Return(t)
  BY <1>2, ReturnType
<1> QED BY <1>1, <1>2 DEF ThenRemember

LEMMA AppendType ==
    ASSUME TypeOK, NEW line \in Line, NEW open \in BOOLEAN, AppendSpool(line, open)
    PROVE  /\ spool' \in Seq(Line) /\ openTail' \in BOOLEAN
           /\ unread' \in [Threads -> Seq(Line)]
<1>1. \A t \in Threads : Extend(unread[t], line) \in Seq(Line)
  BY Extended DEF TypeOK
<1>2. Extend(spool, line) \in Seq(Line)
  BY Extended DEF TypeOK
<1> QED BY <1>1, <1>2 DEF AppendSpool, TypeOK

LEMMA TypeRelay ==
    ASSUME TypeOK, AtWork, NEW t \in Threads,
           RelayStep(t) \/ \E m \in Messages : Relay(t, m)
    PROVE  Types' /\ AtWork'
<1>0. {"reject", "spool", "remember", "ingest"} \subseteq Place
  BY DEF Place
<1>1. ASSUME NEW m \in Messages, Relay(t, m)
      PROVE  Types' /\ AtWork'
  <2>1. ThreadTypes' /\ AtWork'
    BY <1>0, <1>1 DEF Relay, TypeOK, ThreadTypes, AtWork, Place
  <2>2. FileTypes' /\ FlushTypes'
    BY <1>1, TypeParts DEF Types, Relay, files, flush, FileTypes, FlushTypes
  <2>3. CountTypes'
    BY <1>1 DEF Relay, TypeOK, CountTypes
  <2> QED BY <2>1, <2>2, <2>3, TypeAfter
<1>2. ASSUME IngestStores(t)
      PROVE  Types' /\ AtWork'
  <2>1. msg[t] \in Messages
    BY <1>2 DEF IngestStores, AtWork
  <2>2. ThreadTypes' /\ AtWork'
    BY <1>2, <2>1, ThenType DEF IngestStores
  <2>3. FileTypes' /\ FlushTypes'
    BY <1>2, <2>1 DEF IngestStores, TypeOK, files, flush, FileTypes, FlushTypes
  <2>4. CountTypes'
    BY <1>2, <2>1 DEF IngestStores, Answer, TypeOK, CountTypes
  <2> QED BY <2>2, <2>3, <2>4, TypeAfter
<1>3. ASSUME IngestRefuses(t)
      PROVE  Types' /\ AtWork'
  <2>1. msg[t] \in Messages
    BY <1>3 DEF IngestRefuses, AtWork
  <2>2. ThreadTypes' /\ AtWork'
    BY <1>0, <1>3, <2>1, GotoType DEF IngestRefuses
  <2>3. FileTypes' /\ FlushTypes' /\ CountTypes'
    BY <1>3, TypeParts DEF Types, IngestRefuses, files, flush, FileTypes, FlushTypes, CountTypes
  <2> QED BY <2>2, <2>3, TypeAfter
<1>4. ASSUME IngestFails(t)
      PROVE  Types' /\ AtWork'
  <2>1. msg[t] \in Messages
    BY <1>4 DEF IngestFails, AtWork
  <2>2. ThreadTypes' /\ AtWork'
    BY <1>0, <1>4, <2>1, GotoType DEF IngestFails
  <2>3. FileTypes' /\ FlushTypes'
    BY <1>4, TypeParts DEF Types, IngestFails, files, flush, FileTypes, FlushTypes
  <2>4. CountTypes'
    BY <1>4 DEF IngestFails, Outage, TypeOK, CountTypes
  <2> QED BY <2>2, <2>3, <2>4, TypeAfter
<1>5. ASSUME Reject(t)
      PROVE  Types' /\ AtWork'
  <2>1. msg[t] \in Messages
    BY <1>5 DEF Reject, AtWork
  <2>2. ThreadTypes' /\ AtWork'
    BY <1>5, <2>1, ThenType DEF Reject
  <2>3. rejects' \subseteq Line /\ torn' \subseteq Line /\ faults' \in Nat
    <3>1. Record(msg[t]) \in Line
      BY <2>1, RecordIsLine
    <3>2. CASE AppendRejects(Record(msg[t]), FALSE) /\ UNCHANGED faults
      BY <3>1, <3>2, RejectsAppended DEF TypeOK
    <3>3. CASE AppendRejectsFails(Record(msg[t]))
      BY <3>1, <3>3, RejectsAppendFails
    <3> QED BY <1>5, <3>2, <3>3 DEF Reject
  <2>4. FileTypes' /\ FlushTypes'
    BY <1>5, <2>3 DEF Reject, TypeOK, flush, FileTypes, FlushTypes
  <2>5. CountTypes'
    <3>1. told' = told \/ told' = told \cup {<<msg[t], "rejected">>}
      BY <1>5 DEF Reject, Answer
    <3>2. UNCHANGED <<relays, outages>>
      BY <1>5 DEF Reject
    <3> QED BY <2>1, <2>3, <3>1, <3>2 DEF TypeOK, CountTypes
  <2> QED BY <2>2, <2>4, <2>5, TypeAfter
<1>6. ASSUME Spool(t)
      PROVE  Types' /\ AtWork'
  <2>1. msg[t] \in Messages
    BY <1>6 DEF Spool, AtWork
  <2>2. ThreadTypes' /\ AtWork'
    BY <1>6, <2>1, ThenType DEF Spool
  <2>3. /\ spool' \in Seq(Line) /\ openTail' \in BOOLEAN
        /\ unread' \in [Threads -> Seq(Line)]
    <3>1. PICK line \in Line : line = Record(msg[t])
      BY <2>1, RecordIsLine
    <3>2. ASSUME NEW l \in {line} \cup Cut(line), NEW open \in BOOLEAN, AppendSpool(l, open)
          PROVE  /\ spool' \in Seq(Line) /\ openTail' \in BOOLEAN
                 /\ unread' \in [Threads -> Seq(Line)]
      BY <3>2, CutIsLine, AppendType
    <3>3. CASE UNCHANGED <<spool, openTail, unread>>
      BY <3>3 DEF TypeOK
    <3>4. \/ UNCHANGED <<spool, openTail, unread>>
          \/ \E l \in {line} \cup Cut(line), open \in BOOLEAN : AppendSpool(l, open)
      BY <1>6, <3>1 DEF Spool, AppendSpoolFails
    <3> QED BY <3>2, <3>3, <3>4
  <2>4. FileTypes' /\ FlushTypes'
    BY <1>6, <2>3 DEF Spool, TypeOK, FileTypes, FlushTypes
  <2>5. CountTypes'
    <3>1. told' = told \/ told' = told \cup {<<msg[t], "spooled">>}
      BY <1>6 DEF Spool, Answer
    <3>2. faults' = faults \/ faults' = faults + 1
      BY <1>6 DEF Spool, AppendSpoolFails, Fault
    <3>3. UNCHANGED <<relays, outages>>
      BY <1>6 DEF Spool
    <3> QED BY <2>1, <3>1, <3>2, <3>3 DEF TypeOK, CountTypes
  <2> QED BY <2>2, <2>4, <2>5, TypeAfter
<1>7. ASSUME Remember(t)
      PROVE  Types' /\ AtWork'
  <2>1. Key[msg[t]] \in Keys
    BY <1>7 DEF Remember, AtWork
  <2>2. ThreadTypes' /\ AtWork'
    BY <1>7, ReturnType DEF Remember
  <2>3. FileTypes' /\ FlushTypes' /\ CountTypes'
    BY <1>7, <2>1 DEF Remember, files, flush, TypeOK, FileTypes, FlushTypes, CountTypes
  <2> QED BY <2>2, <2>3, TypeAfter
<1> QED BY <1>1, <1>2, <1>3, <1>4, <1>5, <1>6, <1>7 DEF RelayStep

LEMMA CloseType ==
    ASSUME TypeOK, NEW t \in Threads, Close(t)
    PROVE  FlushTypes'
<1>1. <<>> \in Seq(Line)
  OBVIOUS
<1> QED BY <1>1 DEF Close, TypeOK, FlushTypes

(* What a flush that reads a line has in its hand. *)
LEMMA LineAtHand ==
    ASSUME TypeOK, NEW t \in Threads, Reading(t)
    PROVE  /\ Head(unread[t]) \in Line /\ Tail(unread[t]) \in Seq(Line)
           /\ In(unread[t]) = Head(unread[t]).of \cup In(Tail(unread[t]))
           /\ Head(unread[t]).of \subseteq Messages
<1>1. unread[t] \in Seq(Line) /\ unread[t] # <<>>
  BY DEF TypeOK, Reading
<1> QED BY <1>1, HeadTaken DEF Line

LEMMA TypeFlush ==
    ASSUME TypeOK, AtWork, NEW t \in Threads, FlushStep(t)
    PROVE  Types' /\ AtWork'
<1>0. "flush" \in Place
  BY DEF Place
<1> DEFINE line == Head(unread[t])
<1>1. ASSUME FlushOpen(t)
      PROVE  Types' /\ AtWork'
  <2>1. ThreadTypes' /\ AtWork'
    BY <1>0, <1>1, GotoType DEF FlushOpen
  <2>2. FileTypes' /\ CountTypes'
    BY <1>1, TypeParts DEF Types, FlushOpen, files, FileTypes, CountTypes
  <2>3. FlushTypes'
    BY <1>1 DEF FlushOpen, TypeOK, FlushTypes
  <2> QED BY <2>1, <2>2, <2>3, TypeAfter
<1>2. ASSUME FlushStores(t) \/ FlushRejects(t)
      PROVE  Types' /\ AtWork'
  <2>1. line \in Line /\ Tail(unread[t]) \in Seq(Line) /\ line.of \subseteq Messages
    BY <1>2, LineAtHand DEF FlushStores, FlushRejects
  <2>2. ThreadTypes' /\ AtWork' /\ CountTypes'
    BY <1>2, TypeParts DEF Types, FlushStores, FlushRejects, ThreadTypes, AtWork, CountTypes
  <2>3. FileTypes'
    <3>1. CASE FlushStores(t)
      BY <2>1, <3>1 DEF FlushStores, TypeOK, files, FileTypes
    <3>2. CASE FlushRejects(t)
      <4>1. AppendRejects(line, FALSE) /\ UNCHANGED <<spool, openTail, ledger, seen>>
        BY <3>2 DEF FlushRejects
      <4>2. rejects' \subseteq Line /\ torn' \subseteq Line
        BY <2>1, <4>1, RejectsAppended
      <4> QED BY <4>1, <4>2 DEF TypeOK, FileTypes
    <3> QED BY <1>2, <3>1, <3>2
  <2>4. FlushTypes'
    <3>1. /\ unread' = [unread EXCEPT ![t] = Tail(unread[t])]
          /\ UNCHANGED <<linked, remaining>>
      BY <1>2 DEF FlushStores, FlushRejects, Taken
    <3> QED BY <2>1, <3>1 DEF TypeOK, FlushTypes
  <2> QED BY <2>2, <2>3, <2>4, TypeAfter
<1>3. ASSUME FlushKeeps(t)
      PROVE  Types' /\ AtWork'
  <2>1. line \in Line /\ Tail(unread[t]) \in Seq(Line)
    BY <1>3, LineAtHand DEF FlushKeeps
  <2>2. ThreadTypes' /\ AtWork' /\ FileTypes'
    BY <1>3, TypeParts DEF Types, FlushKeeps, files, ThreadTypes, AtWork, FileTypes
  <2>3. FlushTypes'
    <3>1. Append(remaining[t], line) \in Seq(Line)
      BY <2>1 DEF TypeOK
    <3> QED BY <1>3, <2>1, <3>1 DEF FlushKeeps, Taken, TypeOK, FlushTypes
  <2>4. CountTypes'
    BY <1>3 DEF FlushKeeps, Outage, TypeOK, CountTypes
  <2> QED BY <2>2, <2>3, <2>4, TypeAfter
<1>4. ASSUME FlushAborts(t) \/ FlushReplaceFails(t)
      PROVE  Types' /\ AtWork'
  <2>0. rejects' \subseteq Line /\ torn' \subseteq Line /\ faults' \in Nat
    <3>1. CASE UNCHANGED <<rejects, torn>> /\ faults' \in {faults, faults + 1}
      BY <3>1 DEF TypeOK
    <3>2. CASE Reading(t) /\ AppendRejectsFails(line)
      <4>1. line \in Line
        BY <3>2, LineAtHand
      <4> QED BY <3>2, <4>1, RejectsAppendFails
    <3> QED BY <1>4, <3>1, <3>2 DEF FlushAborts, FlushReplaceFails, Fault, files
  <2>1. Close(t) /\ UNCHANGED <<spool, openTail, ledger, seen, told, relays, outages>>
    BY <1>4 DEF FlushAborts, FlushReplaceFails, files
  <2>2. ThreadTypes' /\ AtWork' /\ FlushTypes'
    BY <2>1, ReturnType, CloseType DEF Close
  <2>3. FileTypes' /\ CountTypes'
    BY <2>0, <2>1 DEF TypeOK, FileTypes, CountTypes
  <2> QED BY <2>2, <2>3, TypeAfter
<1>5. ASSUME FlushReplaces(t)
      PROVE  Types' /\ AtWork'
  <2>1. ThreadTypes' /\ AtWork'
    BY <1>5, ReturnType DEF FlushReplaces
  <2>2. FileTypes' /\ CountTypes'
    BY <1>5 DEF FlushReplaces, TypeOK, FileTypes, CountTypes
  <2>3. FlushTypes'
    <3>1. <<>> \in Seq(Line)
      OBVIOUS
    <3> QED BY <1>5, <3>1 DEF FlushReplaces, TypeOK, FlushTypes
  <2> QED BY <2>1, <2>2, <2>3, TypeAfter
<1> QED BY <1>1, <1>2, <1>3, <1>4, <1>5 DEF FlushStep

LEMMA TypeOther ==
    ASSUME TypeOK, AtWork, NEW p \in Processes, Crash(p) \/ \E k \in Keys : Forget(p, k)
    PROVE  Types' /\ AtWork'
<1>1. ASSUME NEW k \in Keys, Forget(p, k)
      PROVE  Types' /\ AtWork'
  <2>1. FileTypes'
    BY <1>1 DEF Forget, files, TypeOK, FileTypes
  <2>2. ThreadTypes' /\ AtWork' /\ FlushTypes' /\ CountTypes'
    BY <1>1, TypeParts DEF Types, Forget, flush, ThreadTypes, AtWork, FlushTypes, CountTypes
  <2> QED BY <2>1, <2>2, TypeAfter
<1>2. ASSUME Crash(p)
      PROVE  Types' /\ AtWork'
  <2>1. FileTypes' /\ CountTypes'
    BY <1>2 DEF Crash, Fault, files, TypeOK, FileTypes, CountTypes
  <2>2. ThreadTypes'
    BY <1>2 DEF Crash, TypeOK, ThreadTypes, Place
  <2>3. AtWork'
    BY <1>2 DEF Crash, AtWork
  <2>4. FlushTypes'
    <3>1. <<>> \in Seq(Line)
      OBVIOUS
    <3> QED BY <1>2, <3>1 DEF Crash, TypeOK, FlushTypes
  <2> QED BY <2>1, <2>2, <2>3, <2>4, TypeAfter
<1> QED BY <1>1, <1>2

(* The mutex: only FlushOpen begins a section that lasts, and it waits     *)
(* until nobody of its process is in one.                                  *)
LEMMA SectionsAside ==
    ASSUME Sections,
           \A u \in Threads : pc'[u] = "flush" => pc[u] = "flush",
           \A u \in Threads : pc'[u] # "flush" =>
              ~linked'[u] /\ unread'[u] = <<>> /\ remaining'[u] = <<>>
    PROVE  Sections'
  BY DEF Sections

LEMMA SectionsStep ==
    ASSUME TypeOK, AtWork, [Next]_vars
    PROVE  Sections'
<1>0. Sections
  BY DEF TypeOK
<1>1. ASSUME UNCHANGED flush, \A u \in Threads : pc'[u] = "flush" <=> pc[u] = "flush"
      PROVE  Sections'
  BY <1>0, <1>1 DEF flush, Sections
<1>2. ASSUME NEW t \in Threads,
             \/ \E m \in Messages : Relay(t, m)
             \/ IngestStores(t) \/ IngestRefuses(t) \/ IngestFails(t) \/ Reject(t) \/ Remember(t)
      PROVE  Sections'
  <2>1. UNCHANGED flush
    BY <1>2 DEF Relay, IngestStores, IngestRefuses, IngestFails, Reject, Remember
  <2>2. pc[t] # "flush" /\ \E l \in Place \ {"flush"} : pc' = [pc EXCEPT ![t] = l]
    BY <1>2 DEF Relay, IngestStores, IngestRefuses, IngestFails, Reject, Remember,
                ThenRemember, Goto, Return, Place
  <2> QED BY <1>1, <2>1, <2>2 DEF TypeOK
<1>3. ASSUME NEW t \in Threads, Spool(t)
      PROVE  Sections'
  <2>1. /\ UNCHANGED <<linked, remaining>>
        /\ pc[t] # "flush" /\ \E l \in Place \ {"flush"} : pc' = [pc EXCEPT ![t] = l]
    BY <1>3 DEF Spool, ThenRemember, Goto, Return, Place
  <2>2. \A u \in Threads : ~linked[u] => unread'[u] = unread[u]
    BY <1>3 DEF Spool, AppendSpool, AppendSpoolFails, TypeOK
  <2>3. \A u \in Threads : pc'[u] = "flush" <=> pc[u] = "flush"
    BY <2>1 DEF TypeOK
  <2> QED BY <1>0, <2>1, <2>2, <2>3, SectionsAside DEF Sections
<1>4. ASSUME NEW t \in Threads, FlushOpen(t)
      PROVE  Sections'
  <2>1. /\ \A u \in Threads : ProcessOf[u] = ProcessOf[t] => pc[u] # "flush"
        /\ \A u \in Threads \ {t} : /\ pc'[u] = pc[u] /\ unread'[u] = unread[u]
                                    /\ linked'[u] = linked[u]
        /\ pc'[t] = "flush" /\ UNCHANGED remaining
    BY <1>4 DEF FlushOpen, Unlocked, Goto, TypeOK
  <2> QED BY <1>0, <2>1 DEF Sections
<1>5. ASSUME NEW t \in Threads, FlushStores(t) \/ FlushRejects(t) \/ FlushKeeps(t)
      PROVE  Sections'
  <2>1. /\ pc[t] = "flush" /\ UNCHANGED <<pc, linked>>
        /\ \A u \in Threads \ {t} : unread'[u] = unread[u] /\ remaining'[u] = remaining[u]
    BY <1>5 DEF FlushStores, FlushRejects, FlushKeeps, Reading, Taken, TypeOK
  <2> QED BY <1>0, <2>1, SectionsAside DEF Sections
<1>6. ASSUME NEW t \in Threads, FlushAborts(t) \/ FlushReplaces(t) \/ FlushReplaceFails(t)
      PROVE  Sections'
  <2>1. /\ \A u \in Threads : pc'[u] = IF u = t THEN "idle" ELSE pc[u]
        /\ \A u \in Threads : linked'[u] => u # t /\ linked[u]
        /\ \A u \in Threads : unread'[u] = IF u = t THEN <<>> ELSE unread[u]
        /\ \A u \in Threads : remaining'[u] = IF u = t THEN <<>> ELSE remaining[u]
    BY <1>6 DEF FlushAborts, FlushReplaces, FlushReplaceFails, Close, Return, TypeOK
  <2> QED BY <1>0, <2>1, SectionsAside DEF Sections
<1>7. ASSUME NEW p \in Processes, Crash(p)
      PROVE  Sections'
  <2>1. \A u \in Threads :
           \/ pc'[u] = "idle" /\ linked'[u] = FALSE /\ unread'[u] = <<>> /\ remaining'[u] = <<>>
           \/ /\ pc'[u] = pc[u] /\ unread'[u] = unread[u]
              /\ linked'[u] = linked[u] /\ remaining'[u] = remaining[u]
    BY <1>7 DEF Crash, TypeOK
  <2> QED BY <1>0, <2>1, SectionsAside DEF Sections
<1>8. ASSUME NEW p \in Processes, NEW k \in Keys, Forget(p, k)
      PROVE  Sections'
  BY <1>1, <1>8 DEF Forget
<1>9. CASE UNCHANGED vars
  BY <1>1, <1>9 DEF vars
<1> QED BY <1>2, <1>3, <1>4, <1>5, <1>6, <1>7, <1>8, <1>9 DEF Next, RelayStep, FlushStep

LEMMA TypeStep ==
    ASSUME TypeOK, AtWork, [Next]_vars
    PROVE  TypeOK' /\ AtWork'
<1>1. CASE UNCHANGED vars
  BY <1>1 DEF vars, files, flush, TypeOK, AtWork, Sections
<1>2. CASE Next
  <2>1. Types' /\ AtWork'
    BY <1>2, TypeRelay, TypeFlush, TypeOther DEF Next
  <2>2. Sections'
    BY SectionsStep
  <2> QED BY <2>1, <2>2
          DEF TypeOK, Types, FileTypes, ThreadTypes, FlushTypes, CountTypes, Place
<1> QED BY <1>1, <1>2

(* The files, the router and the threads only ever hold lines, messages    *)
(* and positions there are, whatever is appended, torn or replaced; no two *)
(* threads of a process are in FlushSpool at once, and no thread has lines *)
(* of it in hand outside.                                                  *)
THEOREM TypeCorrect == Spec => []TypeOK
<1>1. Init => TypeOK /\ AtWork
  BY TypeInit
<1>2. TypeOK /\ AtWork /\ [Next]_vars => TypeOK' /\ AtWork'
  BY TypeStep
<1> QED BY <1>1, <1>2, PTL DEF Spec

-----------------------------------------------------------------------------
(* Rejects.  A thread that is about to reject was sent there by a refusal. *)

Refused == \A t \in Threads : pc[t] = "reject" => msg[t] \in Bad

LEMMA RejectsStep ==
    ASSUME TypeOK, AtWork, Refused, RejectedForCause, [Next]_vars
    PROVE  Refused' /\ RejectedForCause'
<1>1. ASSUME NEW t \in Threads, Reject(t)
      PROVE  Refused' /\ RejectedForCause'
  <2>1. msg[t] \in Bad /\ msg[t] \in Messages
    BY <1>1 DEF Reject, Refused, AtWork
  <2>2. \A l \in Rejects' : l \in Rejects \/ l = Record(msg[t]) \/ ~ l.whole
    BY <1>1, <2>1, RecordIsLine, RejectsAppended, RejectsAppendFails DEF Reject
  <2>3. RejectedForCause'
    <3>1. Record(msg[t]).of = {msg[t]}
      BY <2>1, RecordIsLine
    <3>2. SUFFICES ASSUME NEW l \in Rejects', l.whole
                   PROVE  l.of \subseteq Bad
      BY DEF RejectedForCause
    <3> QED BY <2>1, <2>2, <3>1, <3>2 DEF RejectedForCause
  <2>4. Refused'
    BY <1>1 DEF Reject, ThenRemember, Goto, Return, TypeOK, Refused
  <2> QED BY <2>3, <2>4
<1>2. ASSUME NEW t \in Threads, FlushRejects(t) \/ FlushAborts(t)
      PROVE  Refused' /\ RejectedForCause'
  <2>1. PICK line \in Line : line = Head(unread[t])
    BY <1>2, LineAtHand DEF FlushRejects, FlushAborts
  <2>2. \/ UNCHANGED <<rejects, torn>>
        \/ Refusable(line) /\ (AppendRejects(line, FALSE) \/ AppendRejectsFails(line))
    BY <1>2, <2>1 DEF FlushRejects, FlushAborts
  <2>3. ASSUME UNCHANGED <<rejects, torn>>
        PROVE  RejectedForCause'
    BY <2>3 DEF RejectedForCause, Rejects
  <2>4. ASSUME Refusable(line), AppendRejects(line, FALSE) \/ AppendRejectsFails(line)
        PROVE  RejectedForCause'
    <3>1. \A l \in Rejects' : l \in Rejects \/ l = line \/ ~ l.whole
      BY <2>4, RejectsAppended, RejectsAppendFails
    <3>2. SUFFICES ASSUME NEW l \in Rejects', l.whole
                   PROVE  l.of \subseteq Bad
      BY DEF RejectedForCause
    <3> QED BY <2>4, <3>1, <3>2 DEF Refusable, RejectedForCause
  <2>5. UNCHANGED <<pc, msg>> \/ Return(t)
    BY <1>2 DEF FlushRejects, FlushAborts, Close
  <2>6. RejectedForCause'
    BY <2>2, <2>3, <2>4
  <2> QED BY <2>5, <2>6 DEF Return, TypeOK, Refused
<1>3. ASSUME UNCHANGED <<rejects, torn>>,
             \/ UNCHANGED <<pc, msg>>
             \/ \E t \in Threads, l \in Place : Goto(t, l) /\ (l = "reject" => msg[t] \in Bad)
             \/ \E t \in Threads : Return(t)
      PROVE  Refused' /\ RejectedForCause'
  <2>1. RejectedForCause'
    BY <1>3 DEF RejectedForCause, Rejects
  <2>2. Refused'
    BY <1>3 DEF Goto, Return, TypeOK, Refused
  <2> QED BY <2>1, <2>2
<1>4. ASSUME NEW t \in Threads, NEW m \in Messages, Relay(t, m)
      PROVE  Refused' /\ RejectedForCause'
  BY <1>4 DEF Relay, files, TypeOK, Refused, RejectedForCause, Rejects
<1>5. ASSUME NEW t \in Threads,
             IngestStores(t) \/ IngestRefuses(t) \/ IngestFails(t) \/ Spool(t) \/ Remember(t)
      PROVE  Refused' /\ RejectedForCause'
  <2>1. UNCHANGED <<rejects, torn>>
    BY <1>5 DEF IngestStores, IngestRefuses, IngestFails, Spool, Remember, files
  <2>2. /\ IngestRefuses(t) => Goto(t, "reject") /\ msg[t] \in Bad
        /\ IngestFails(t) => Goto(t, "spool")
        /\ IngestStores(t) \/ Spool(t) \/ Remember(t) => Return(t) \/ Goto(t, "remember")
    BY DEF IngestStores, IngestRefuses, IngestFails, Spool, Remember, ThenRemember
  <2>3. {"reject", "spool", "remember"} \subseteq Place
    BY DEF Place
  <2> QED BY <1>3, <1>5, <2>1, <2>2, <2>3
<1>6. ASSUME NEW t \in Threads,
             \/ FlushOpen(t) \/ FlushStores(t) \/ FlushKeeps(t)
             \/ FlushReplaces(t) \/ FlushReplaceFails(t)
      PROVE  Refused' /\ RejectedForCause'
  <2>1. /\ UNCHANGED <<rejects, torn>>
        /\ Goto(t, "flush") \/ Return(t) \/ UNCHANGED <<pc, msg>>
    BY <1>6 DEF FlushOpen, FlushStores, FlushKeeps, FlushReplaces,
                FlushReplaceFails, Close, files
  <2>2. "flush" \in Place
    BY DEF Place
  <2> QED BY <1>3, <2>1, <2>2
<1>7. ASSUME NEW p \in Processes, Crash(p)
      PROVE  Refused' /\ RejectedForCause'
  BY <1>7 DEF Crash, files, Refused, RejectedForCause, Rejects
<1>8. ASSUME NEW p \in Processes, NEW k \in Keys, Forget(p, k)
      PROVE  Refused' /\ RejectedForCause'
  BY <1>8 DEF Forget, files, Refused, RejectedForCause, Rejects
<1>9. CASE UNCHANGED vars
  BY <1>9 DEF vars, files, Refused, RejectedForCause, Rejects
<1> QED BY <1>1, <1>2, <1>4, <1>5, <1>6, <1>7, <1>8, <1>9 DEF Next, RelayStep, FlushStep

(* Only what the router refused, and debris, is in the rejects file: an    *)
(* outage of the router never is a refusal.                                *)
THEOREM OnlyRefusedRejected == Spec => []RejectedForCause
<1>1. Init => TypeOK /\ AtWork /\ Refused /\ RejectedForCause
  BY TypeInit DEF Init, Refused, RejectedForCause, Rejects
<1>2. TypeOK /\ AtWork /\ Refused /\ RejectedForCause /\ [Next]_vars =>
         (TypeOK /\ AtWork /\ Refused /\ RejectedForCause)'
  BY TypeStep, RejectsStep
<1> QED BY <1>1, <1>2, PTL DEF Spec

-----------------------------------------------------------------------------
(* Nothing is lost as long as all threads are of one process: the mutex    *)
(* then keeps everybody else from the spool while a flush has it open.     *)

OneMutex == \A t, u \in Threads : ProcessOf[t] = ProcessOf[u]

(* One flush at a time; what it has taken from the spool but not put back  *)
(* is with the router or among the rejects.                                *)
Flushing ==
    /\ \A t \in Threads : linked[t] => pc[t] = "flush"
    /\ \A t, u \in Threads : pc[t] = "flush" /\ pc[u] = "flush" => t = u
    /\ \A t \in Threads : pc[t] = "flush" =>
          In(spool) \subseteq In(unread[t]) \cup In(remaining[t]) \cup ledger \cup RejectedMessages

(* A file that has an end has a line. *)
Ended == openTail => spool # <<>>

(* What is to be remembered is kept. *)
Noted == \A t \in Threads : pc[t] = "remember" => msg[t] \in Kept

Safe == Flushing /\ Ended /\ Noted /\ NothingLost /\ RememberedIsKept

LEMMA SafeInit == Init => Safe
  BY DEF Init, Safe, Flushing, Ended, Noted, NothingLost, RememberedIsKept

(* What is kept stays kept, and answers and memories follow from that. *)
LEMMA KeptStays ==
    ASSUME TypeOK, Safe, Kept \subseteq Kept',
           \A a \in told' \ told : a[1] \in Kept',
           \A p \in Processes : \A k \in seen'[p] : k \in seen[p] \/ \E m \in Kept : Key[m] = k,
           \A t \in Threads : pc'[t] = "remember" =>
              \/ pc[t] = "remember" /\ msg'[t] = msg[t]
              \/ msg'[t] \in Kept'
    PROVE  Noted' /\ NothingLost' /\ RememberedIsKept'
<1>1. Noted'
  BY DEF Safe, Noted
<1>2. NothingLost'
  BY DEF Safe, NothingLost
<1>3. RememberedIsKept'
  <2> SUFFICES ASSUME NEW p \in Processes, NEW k \in seen'[p]
               PROVE  \E m \in Kept' : Key[m] = k
    BY DEF RememberedIsKept
  <2>1. \E m \in Kept : Key[m] = k
    BY DEF Safe, RememberedIsKept
  <2> QED BY <2>1
<1> QED BY <1>1, <1>2, <1>3

(* Steps that leave the files, the router and the flushes alone. *)
LEMMA SafeAside ==
    ASSUME TypeOK, Safe, UNCHANGED <<files, ledger, flush, told>>,
           \A t \in Threads : pc'[t] = "flush" <=> pc[t] = "flush",
           \A p \in Processes : \A k \in seen'[p] : k \in seen[p] \/ \E m \in Kept : Key[m] = k,
           \A t \in Threads : pc'[t] = "remember" => pc[t] = "remember" /\ msg'[t] = msg[t]
    PROVE  Safe'
<1>1. Kept' = Kept /\ RejectedMessages' = RejectedMessages
  BY DEF Kept, files, RejectedMessages, Rejects
<1>2. Noted' /\ NothingLost' /\ RememberedIsKept'
  BY <1>1, KeptStays
<1>3. Flushing' /\ Ended'
  BY <1>1 DEF Safe, Flushing, Ended, files, flush
<1> QED BY <1>2, <1>3 DEF Safe

LEMMA SafeRelay ==
    ASSUME TypeOK, AtWork, Safe, OneMutex, NEW t \in Threads,
           RelayStep(t) \/ \E m \in Messages : Relay(t, m)
    PROVE  Safe'
<1>1. ASSUME NEW m \in Messages, Relay(t, m)
      PROVE  Safe'
  BY <1>1, SafeAside DEF Relay, TypeOK
<1>2. ASSUME IngestRefuses(t) \/ IngestFails(t)
      PROVE  Safe'
  <2>1. /\ pc[t] = "ingest" /\ (Goto(t, "reject") \/ Goto(t, "spool"))
        /\ UNCHANGED <<files, ledger, seen, flush, told>>
    BY <1>2 DEF IngestRefuses, IngestFails
  <2> QED BY <2>1, SafeAside DEF Goto, TypeOK
<1>3. ASSUME Remember(t)
      PROVE  Safe'
  <2>1. msg[t] \in Kept /\ pc[t] = "remember"
    BY <1>3 DEF Remember, Safe, Noted
  <2>2. \A p \in Processes : \A k \in seen'[p] : k \in seen[p] \/ \E m \in Kept : Key[m] = k
    BY <1>3, <2>1 DEF Remember, TypeOK
  <2> QED BY <1>3, <2>1, <2>2, SafeAside DEF Remember, Return, TypeOK
<1>4. ASSUME IngestStores(t)
      PROVE  Safe'
  <2>1. /\ pc[t] = "ingest" /\ (Return(t) \/ Goto(t, "remember"))
        /\ UNCHANGED <<files, seen, flush>> /\ ledger' = ledger \cup {msg[t]}
        /\ told' = told \cup {<<msg[t], "persisted">>}
    BY <1>4 DEF IngestStores, ThenRemember, Answer
  <2>2. Kept' = Kept \cup {msg[t]} /\ RejectedMessages' = RejectedMessages
    BY <2>1 DEF Kept, files, RejectedMessages, Rejects
  <2>3. \A u \in Threads : pc'[u] = "remember" =>
           \/ pc[u] = "remember" /\ msg'[u] = msg[u]
           \/ msg'[u] \in Kept'
    BY <2>1, <2>2 DEF Return, Goto, TypeOK
  <2>4. Noted' /\ NothingLost' /\ RememberedIsKept'
    BY <2>1, <2>2, <2>3, KeptStays
  <2>5. \A u \in Threads : pc'[u] = "flush" <=> pc[u] = "flush"
    BY <2>1 DEF Return, Goto, TypeOK
  <2>6. Flushing' /\ Ended'
    BY <2>1, <2>2, <2>5 DEF Safe, Flushing, Ended, files, flush
  <2> QED BY <2>4, <2>6 DEF Safe
<1>5. ASSUME Reject(t)
      PROVE  Safe'
  <2>1. msg[t] \in Messages /\ pc[t] = "reject"
    BY <1>5 DEF Reject, AtWork
  <2>2. Return(t)
    BY <1>5 DEF Reject, ThenRemember
  <2>3. /\ UNCHANGED <<spool, openTail, ledger, seen, flush>>
        /\ \/ /\ AppendRejects(Record(msg[t]), FALSE)
              /\ told' = told \cup {<<msg[t], "rejected">>}
           \/ AppendRejectsFails(Record(msg[t])) /\ UNCHANGED told
    BY <1>5 DEF Reject, Answer
  <2>4. /\ RejectedMessages \subseteq RejectedMessages'
        /\ told' # told => msg[t] \in RejectedMessages'
    <3>1. Record(msg[t]) \in Line /\ Record(msg[t]).of = {msg[t]}
      BY <2>1, RecordIsLine
    <3> QED BY <2>3, <3>1, RejectsAppended, RejectsAppendFails
  <2>5. Kept \subseteq Kept' /\ (told' # told => msg[t] \in Kept')
    BY <2>3, <2>4 DEF Kept
  <2>6. \A a \in told' \ told : a[1] \in Kept'
    <3> SUFFICES ASSUME NEW a \in told' \ told
                 PROVE  a[1] \in Kept'
      OBVIOUS
    <3>1. told' # told /\ told' \subseteq told \cup {<<msg[t], "rejected">>}
      BY <2>3
    <3>2. a = <<msg[t], "rejected">>
      BY <3>1
    <3> QED BY <2>5, <3>1, <3>2
  <2>7. \A u \in Threads : /\ pc'[u] = "remember" => pc[u] = "remember" /\ msg'[u] = msg[u]
                           /\ pc'[u] = "flush" <=> pc[u] = "flush"
    BY <2>1, <2>2 DEF Return, TypeOK
  <2>8. Noted' /\ NothingLost' /\ RememberedIsKept'
    BY <2>3, <2>5, <2>6, <2>7, KeptStays
  <2>9. Flushing' /\ Ended'
    BY <2>3, <2>4, <2>7 DEF Safe, Flushing, Ended, flush
  <2> QED BY <2>8, <2>9 DEF Safe
<1>6. ASSUME Spool(t)
      PROVE  Safe'
  <2>1. msg[t] \in Messages /\ pc[t] = "spool"
    BY <1>6 DEF Spool, AtWork
  <2>2. Return(t) \/ Goto(t, "remember")
    BY <1>6 DEF Spool, ThenRemember
  (* Nobody has the file open. *)
  <2>3. \A u \in Threads : pc[u] # "flush" /\ linked[u] = FALSE
    BY <1>6 DEF Spool, Unlocked, OneMutex, Safe, Flushing, TypeOK
  <2>4. /\ In(spool) \subseteq In(spool') /\ Ended'
        /\ \/ told' = told \cup {<<msg[t], "spooled">>} /\ msg[t] \in In(spool')
           \/ told' = told /\ Return(t)
    <3>1. CASE AppendSpool(Record(msg[t]), FALSE) /\ Answer(t, "spooled")
      <4>1. Record(msg[t]) \in Line /\ Record(msg[t]).of = {msg[t]} /\ spool \in Seq(Line)
        BY <2>1, RecordIsLine DEF TypeOK
      <4> QED BY <3>1, <4>1, Extended DEF AppendSpool, Answer, Safe, Ended
    <3>2. CASE AppendSpoolFails(Record(msg[t])) /\ told' = told /\ ThenRemember(t, "spool_failed")
      <4>1. CASE UNCHANGED <<spool, openTail>>
        BY <3>2, <4>1 DEF Safe, Ended, ThenRemember
      <4>2. PICK line \in Line : line = Record(msg[t])
        BY <2>1, RecordIsLine
      <4>3. ASSUME NEW l \in {line} \cup Cut(line), NEW open \in BOOLEAN, AppendSpool(l, open)
            PROVE  In(spool) \subseteq In(spool') /\ Ended'
        <5>1. l \in Line /\ spool \in Seq(Line)
          BY CutIsLine DEF TypeOK
        <5> QED BY <4>3, <5>1, Extended DEF AppendSpool, Safe, Ended
      <4>4. \/ UNCHANGED <<spool, openTail>>
            \/ \E l \in {line} \cup Cut(line), open \in BOOLEAN : AppendSpool(l, open)
        BY <3>2, <4>2 DEF AppendSpoolFails
      <4> QED BY <3>2, <4>1, <4>3, <4>4 DEF ThenRemember
    <3> QED BY <1>6, <3>1, <3>2 DEF Spool
  <2>5. UNCHANGED <<rejects, torn, ledger, seen, linked>>
    BY <1>6 DEF Spool
  <2>6. Kept \subseteq Kept' /\ (msg[t] \in In(spool') => msg[t] \in Kept')
    BY <2>4, <2>5 DEF Kept, RejectedMessages, Rejects
  <2>7. \A a \in told' \ told : a[1] \in Kept'
    BY <2>4, <2>6
  <2>8. \A u \in Threads : pc'[u] = "remember" =>
           \/ pc[u] = "remember" /\ msg'[u] = msg[u]
           \/ msg'[u] \in Kept'
    <3> SUFFICES ASSUME NEW u \in Threads, pc'[u] = "remember"
                 PROVE  \/ pc[u] = "remember" /\ msg'[u] = msg[u]
                        \/ msg'[u] \in Kept'
      OBVIOUS
    <3>1. CASE Return(t)
      BY <3>1 DEF Return, TypeOK
    <3>2. CASE Goto(t, "remember") /\ ~ Return(t)
      BY <3>2, <2>4, <2>6 DEF Goto, TypeOK
    <3> QED BY <2>2, <3>1, <3>2
  <2>9. Noted' /\ NothingLost' /\ RememberedIsKept'
    BY <2>5, <2>6, <2>7, <2>8, KeptStays
  <2>10. \A u \in Threads : pc'[u] # "flush"
    BY <2>2, <2>3 DEF Return, Goto, TypeOK
  <2>11. Flushing'
    BY <2>3, <2>5, <2>10 DEF Flushing
  <2> QED BY <2>4, <2>9, <2>11 DEF Safe
<1> QED BY <1>1, <1>2, <1>3, <1>4, <1>5, <1>6 DEF RelayStep

LEMMA SafeFlush ==
    ASSUME TypeOK, AtWork, Safe, OneMutex, NEW t \in Threads, FlushStep(t)
    PROVE  Safe'
<1> DEFINE line == Head(unread[t])
<1>1. ASSUME FlushOpen(t)
      PROVE  Safe'
  <2>1. \A u \in Threads : pc[u] # "flush"
    BY <1>1 DEF FlushOpen, Unlocked, OneMutex
  <2>2. /\ \A u \in Threads : pc'[u] = IF u = t THEN "flush" ELSE pc[u]
        /\ \A u \in Threads : linked'[u] = IF u = t THEN TRUE ELSE linked[u]
        /\ unread'[t] = spool
        /\ UNCHANGED <<files, ledger, seen, told, msg>>
    BY <1>1 DEF FlushOpen, Goto, TypeOK
  <2>3. Kept' = Kept
    BY <2>2 DEF files, Kept, RejectedMessages, Rejects
  <2>4. Noted' /\ NothingLost' /\ RememberedIsKept'
    BY <2>2, <2>3, KeptStays
  <2>5. Flushing' /\ Ended'
    BY <2>1, <2>2 DEF Safe, Flushing, Ended, files
  <2> QED BY <2>4, <2>5 DEF Safe
(* A line that is read goes to the router, to the rejects or back. *)
<1>2. ASSUME FlushStores(t) \/ FlushRejects(t) \/ FlushKeeps(t)
      PROVE  Safe'
  <2>1. /\ Reading(t) /\ pc[t] = "flush" /\ line \in Line
        /\ In(unread[t]) = line.of \cup In(Tail(unread[t]))
    BY <1>2, LineAtHand DEF FlushStores, FlushRejects, FlushKeeps, Reading
  <2>2. /\ UNCHANGED <<spool, openTail, seen, pc, msg, linked, told>>
        /\ unread'[t] = Tail(unread[t])
        /\ \A u \in Threads \ {t} : unread'[u] = unread[u]
    BY <1>2 DEF FlushStores, FlushRejects, FlushKeeps, Taken, TypeOK, files
  <2>3. /\ ledger \subseteq ledger' /\ RejectedMessages \subseteq RejectedMessages'
        /\ In(remaining[t]) \subseteq In(remaining'[t])
        /\ line.of \subseteq ledger' \cup RejectedMessages' \cup In(remaining'[t])
    <3>1. CASE FlushStores(t)
      BY <3>1 DEF FlushStores, files, RejectedMessages, Rejects
    <3>2. CASE FlushRejects(t)
      <4>1. AppendRejects(line, FALSE) /\ UNCHANGED <<ledger, remaining>>
        BY <3>2 DEF FlushRejects
      <4> HIDE DEF line
      <4> QED BY <2>1, <4>1, RejectsAppended
    <3>3. CASE FlushKeeps(t)
      <4>1. remaining'[t] = Append(remaining[t], line) /\ remaining[t] \in Seq(Line)
        BY <3>3 DEF FlushKeeps, TypeOK
      <4>2. UNCHANGED <<ledger, rejects, torn>>
        BY <3>3 DEF FlushKeeps, files
      <4> HIDE DEF line
      <4>3. RejectedMessages' = RejectedMessages
        BY <4>2 DEF RejectedMessages, Rejects
      <4> QED BY <2>1, <4>1, <4>2, <4>3, Appended
    <3> QED BY <1>2, <3>1, <3>2, <3>3
  <2>4. Kept \subseteq Kept'
    BY <2>2, <2>3 DEF Kept
  <2>5. Noted' /\ NothingLost' /\ RememberedIsKept'
    BY <2>2, <2>4, KeptStays
  <2>6. Flushing'
    <3>1. In(spool) \subseteq In(unread[t]) \cup In(remaining[t]) \cup ledger \cup RejectedMessages
      BY <2>1 DEF Safe, Flushing
    <3>2. In(spool') \subseteq In(unread'[t]) \cup In(remaining'[t]) \cup ledger' \cup RejectedMessages'
      <4> HIDE DEF line
      <4> QED BY <2>1, <2>2, <2>3, <3>1
    <3>3. \A u \in Threads : pc'[u] = "flush" => u = t
      BY <2>1, <2>2 DEF Safe, Flushing
    <3> QED BY <2>2, <3>2, <3>3 DEF Safe, Flushing
  <2>7. Ended'
    BY <2>2 DEF Safe, Ended
  <2> QED BY <2>5, <2>6, <2>7 DEF Safe
<1>3. ASSUME FlushAborts(t) \/ FlushReplaceFails(t)
      PROVE  Safe'
  <2>0. RejectedMessages \subseteq RejectedMessages'
    <3>1. CASE UNCHANGED <<rejects, torn>>
      BY <3>1 DEF RejectedMessages, Rejects
    <3>2. CASE Reading(t) /\ AppendRejectsFails(line)
      <4>1. line \in Line
        BY <3>2, LineAtHand
      <4> QED BY <3>2, <4>1, RejectsAppendFails
    <3> QED BY <1>3, <3>1, <3>2 DEF FlushAborts, FlushReplaceFails, files
  <2>1. /\ pc[t] = "flush" /\ UNCHANGED <<spool, openTail, ledger, seen, told>>
        /\ \A u \in Threads : pc'[u] = IF u = t THEN "idle" ELSE pc[u]
        /\ \A u \in Threads : msg'[u] = IF u = t THEN NoMsg ELSE msg[u]
        /\ \A u \in Threads : linked'[u] = IF u = t THEN FALSE ELSE linked[u]
    BY <1>3 DEF FlushAborts, FlushReplaceFails, Close, Return, Reading, TypeOK, files
  <2>2. Kept \subseteq Kept'
    BY <2>0, <2>1 DEF Kept
  <2>3. Noted' /\ NothingLost' /\ RememberedIsKept'
    BY <2>1, <2>2, KeptStays
  <2>4. \A u \in Threads : pc'[u] # "flush"
    BY <2>1 DEF Safe, Flushing
  <2>5. Flushing' /\ Ended'
    BY <2>1, <2>4 DEF Safe, Flushing, Ended
  <2> QED BY <2>3, <2>5 DEF Safe
<1>4. ASSUME FlushReplaces(t)
      PROVE  Safe'
  <2>1. /\ pc[t] = "flush" /\ unread[t] = <<>> /\ spool' = remaining[t] /\ openTail' = FALSE
        /\ \A u \in Threads : pc'[u] = IF u = t THEN "idle" ELSE pc[u]
        /\ \A u \in Threads : msg'[u] = IF u = t THEN NoMsg ELSE msg[u]
        /\ linked' = [u \in Threads |-> FALSE]
        /\ UNCHANGED <<rejects, torn, ledger, seen, told>>
    BY <1>4 DEF FlushReplaces, Return, TypeOK
  <2>2. In(spool) \subseteq In(spool') \cup ledger \cup RejectedMessages
    BY <2>1, InNone DEF Safe, Flushing
  <2>3. Kept \subseteq Kept'
    BY <2>1, <2>2 DEF Kept, RejectedMessages, Rejects
  <2>4. Noted' /\ NothingLost' /\ RememberedIsKept'
    BY <2>1, <2>3, KeptStays
  <2>5. \A u \in Threads : pc'[u] # "flush"
    BY <2>1 DEF Safe, Flushing
  <2>6. Flushing' /\ Ended'
    BY <2>1, <2>5 DEF Flushing, Ended
  <2> QED BY <2>4, <2>6 DEF Safe
<1> QED BY <1>1, <1>2, <1>3, <1>4 DEF FlushStep

LEMMA SafeOther ==
    ASSUME TypeOK, Safe, OneMutex, NEW p \in Processes,
           Crash(p) \/ \E k \in Keys : Forget(p, k)
    PROVE  Safe'
<1>1. ASSUME NEW k \in Keys, Forget(p, k)
      PROVE  Safe'
  <2>1. \A q \in Processes : \A l \in seen'[q] : l \in seen[q]
    BY <1>1 DEF Forget, TypeOK
  <2> QED BY <1>1, <2>1, SafeAside DEF Forget
<1>2. ASSUME Crash(p)
      PROVE  Safe'
  <2>1. /\ UNCHANGED <<files, ledger, told>>
        /\ \A q \in Processes : \A l \in seen'[q] : l \in seen[q]
    BY <1>2 DEF Crash, TypeOK
  <2>2. Kept' = Kept /\ RejectedMessages' = RejectedMessages
    BY <2>1 DEF files, Kept, RejectedMessages, Rejects
  <2>3. \A u \in Threads :
           \/ pc'[u] = "idle" /\ linked'[u] = FALSE
           \/ /\ pc'[u] = pc[u] /\ msg'[u] = msg[u] /\ unread'[u] = unread[u]
              /\ linked'[u] = linked[u] /\ remaining'[u] = remaining[u]
    BY <1>2 DEF Crash, TypeOK
  <2>4. Noted' /\ NothingLost' /\ RememberedIsKept'
    BY <2>1, <2>2, <2>3, KeptStays
  <2>5. Ended' /\ In(spool') = In(spool) /\ ledger' = ledger
    BY <2>1 DEF Safe, Ended, files
  <2>6. Flushing'
    BY <2>2, <2>3, <2>5 DEF Safe, Flushing
  <2> QED BY <2>4, <2>5, <2>6 DEF Safe
<1> QED BY <1>1, <1>2

LEMMA SafeStep ==
    ASSUME TypeOK, AtWork, Safe, OneMutex, [Next]_vars
    PROVE  Safe'
<1>1. CASE UNCHANGED vars
  BY <1>1, SafeAside DEF vars
<1> QED BY <1>1, SafeRelay, SafeFlush, SafeOther DEF Next

LEMMA SafeHolds ==
    ASSUME OneMutex
    PROVE  Spec => []Safe
<1>1. Init => TypeOK /\ AtWork /\ Safe
  BY TypeInit, SafeInit
<1>2. TypeOK /\ AtWork /\ Safe /\ [Next]_vars => (TypeOK /\ AtWork /\ Safe)'
  BY TypeStep, SafeStep
<1> QED BY <1>1, <1>2, PTL DEF Spec

(* A message whose relay was answered persisted, rejected or spooled is in *)
(* the ledger, the rejects file or the spool from then on, if all threads  *)
(* share one mutex.                                                        *)
THEOREM AnsweredIsKept ==
    ASSUME OneMutex
    PROVE  Spec => []NothingLost
BY SafeHolds, PTL DEF Safe

(* A frame is answered duplicate_onair only if a message decoded from it   *)
(* was kept before, if all threads share one mutex.                        *)
THEOREM DuplicatesAreKept ==
    ASSUME OneMutex
    PROVE  Spec => []RememberedIsKept
BY SafeHolds, PTL DEF Safe
=============================================================================
