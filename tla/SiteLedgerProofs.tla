-------------------------- MODULE SiteLedgerProofs --------------------------
(* Theorems about the site ledger, for every set of frames, agents and     *)
(* posts, and any window, retention and bounds.                            *)
EXTENDS SiteLedger, SequenceFacts, FiniteSetTheorems

-----------------------------------------------------------------------------
(* TypeOK is inductive; its conjuncts go by what a step may write.         *)

Clocks == now \in 1 .. MaxTime /\ sent \in [Frames -> 0 .. now]
              /\ heard \in [Frames -> [Agents -> 0 .. now]]

Kept ==
    /\ messages \subseteq Envelopes
    /\ OnePerKey(messages, LAMBDA m : m.id)
    /\ readings \in Seq([env : Envelopes, at : Nat])
    /\ {readings[i].env : i \in DOMAIN readings} = {m \in messages : m.kind = "state"}
    /\ answered \subseteq Envelopes \X Ids

Entered ==
    /\ \A r \in ledger : r.msg \in Ids /\ r.at \in 1 .. now
    /\ OnePerKey(ledger, LAMBDA r : r.event)

Seen ==
    /\ \A o \in observed : o.first \in Ids /\ o.seen \in 1 .. now
    /\ OnePerKey(observed, LAMBDA o : o.key)

Ledgers == OnePerKey(reports, LAMBDA r : r.key) /\ OnePerKey(chunks, KeyOfChunk)

LEMMA TypeParts == TypeOK <=> Clocks /\ Kept /\ Entered /\ Seen /\ Ledgers
  BY DEF TypeOK, Clocks, Kept, Entered, Seen, Ledgers

LEMMA SeqMonotone ==
    ASSUME NEW S, NEW T, S \subseteq T, NEW s \in Seq(S)
    PROVE  s \in Seq(T)
  OBVIOUS

LEMMA TypeInit == Init => TypeOK
  BY SiteLedgerAssumption DEF Init, TypeOK, OnePerKey, Ids

LEMMA TypeUnchanged ==
    ASSUME TypeOK, UNCHANGED vars
    PROVE  TypeOK'
  BY DEF TypeOK, vars, air, tables, Envelopes, Copies, Copy, Ids, OnePerKey, KeyOfChunk

LEMMA TypeAir ==
    ASSUME TypeOK,
           Tick \/ (\E f \in Frames : Send(f) \/ \E h \in Agents : Hear(f, h))
    PROVE  TypeOK'
<1>1. UNCHANGED <<tables, answered>> /\ (now' = now \/ (Tick /\ now' = now + 1))
  BY DEF Tick, Send, Hear
<1>2. now \in 1 .. MaxTime /\ MaxTime \in Nat
  BY SiteLedgerAssumption DEF TypeOK
<1>3. Clocks'
  <2>1. CASE Tick
    BY <2>1, <1>2 DEF Tick, TypeOK, Clocks, air
  <2>2. ASSUME NEW f \in Frames, Send(f)
        PROVE  Clocks'
    BY <2>2, <1>2 DEF Send, TypeOK, Clocks
  <2>3. ASSUME NEW f \in Frames, NEW h \in Agents, Hear(f, h)
        PROVE  Clocks'
    BY <2>3, <1>2 DEF Hear, TypeOK, Clocks
  <2> QED BY <2>1, <2>2, <2>3
<1>4. Copies \subseteq Copies'
  <2> SUFFICES ASSUME NEW g \in Frames, NEW k \in Agents, heard[g][k] # 0
               PROVE  Copy(g, k) \in Copies'
    BY DEF Copies
  <2>1. heard'[g][k] = heard[g][k]
    <3>1. CASE UNCHANGED heard
      BY <3>1
    <3>2. ASSUME NEW f \in Frames, NEW h \in Agents, Hear(f, h)
          PROVE  heard'[g][k] = heard[g][k]
      BY <3>2 DEF Hear, TypeOK
    <3> QED BY <3>1, <3>2 DEF Tick, Send, air
  <2>2. Copy(g, k)' = Copy(g, k)
    BY <2>1 DEF Copy
  <2>3. <<g, k>> \in {q \in Frames \X Agents : heard'[q[1]][q[2]] # 0}
    BY <2>1
  <2>4. Copy(g, k)' \in Copies'
    BY <2>3 DEF Copies
  <2> QED BY <2>2, <2>4
<1>5. Kept'
  <2>1. Envelopes \subseteq Envelopes' /\ messages' = messages /\ readings' = readings
        /\ answered' = answered
    BY <1>1, <1>4 DEF Envelopes, tables
  <2>2. readings' \in Seq([env : Envelopes', at : Nat])
    <3>1. [env : Envelopes, at : Nat] \subseteq [env : Envelopes', at : Nat]
      BY <2>1
    <3> QED BY <2>1, <3>1, SeqMonotone DEF TypeOK
  <2> QED BY <2>1, <2>2 DEF TypeOK, Kept, Ids, OnePerKey
<1>6. Entered' /\ Seen' /\ Ledgers'
  BY <1>1, <1>2 DEF TypeOK, Entered, Seen, Ledgers, Ids, OnePerKey, KeyOfChunk, tables
<1> QED BY <1>3, <1>5, <1>6, TypeParts, PTL

LEMMA TypePersist ==
    ASSUME TypeOK, NEW e \in Envelopes, Persist(e)
    PROVE  TypeOK'
<1>1. UNCHANGED <<now, air>> /\ Duplicate(e) = {} /\ messages' = messages \cup {e}
  BY DEF Persist, Keep
<1>2. e.id \notin Ids /\ Ids' = Ids \cup {e.id}
      /\ (Named(e) => \A r \in ledger : r.event # e.event)
  BY <1>1 DEF Duplicate, Ids
<1>3. now \in 1 .. now /\ Envelopes' = Envelopes
  BY <1>1, SiteLedgerAssumption DEF TypeOK, air, Envelopes, Copies, Copy
<1>4. Clocks'
  BY <1>1 DEF TypeOK, Clocks, air
<1>5. /\ {readings'[i].env : i \in DOMAIN readings'} = {m \in messages' : m.kind = "state"}
      /\ readings' \in Seq([env : Envelopes, at : Nat])
  <2>1. CASE e.kind = "state"
    <3> DEFINE reading == [env |-> e, at |-> Instant]
    <3>1. readings' = Append(readings, reading)
      BY <2>1 DEF Persist, Keep
    <3>2. Instant \in Nat
      <4>1. MaxMessages \in Nat /\ now \in Nat
        BY SiteLedgerAssumption DEF TypeOK
      <4>2. Len(readings) \in Nat
        BY DEF TypeOK
      <4> QED BY <4>1, <4>2 DEF Instant
    <3>3. reading \in [env : Envelopes, at : Nat] /\ reading.env = e
      BY <3>2
    <3>4. readings \in Seq([env : Envelopes, at : Nat])
      BY DEF TypeOK
    <3> HIDE DEF reading
    <3>5. readings' \in Seq([env : Envelopes, at : Nat])
      BY <3>1, <3>3, <3>4
    <3>6. {readings'[i].env : i \in DOMAIN readings'} = {readings[i].env : i \in DOMAIN readings} \cup {e}
      <4> DEFINE n == Len(readings)
      <4>1. n \in Nat /\ DOMAIN readings = 1 .. n /\ DOMAIN readings' = 1 .. n + 1
        BY <3>1, <3>3, <3>4
      <4>2. /\ \A i \in 1 .. n : readings'[i] = readings[i]
            /\ readings'[n + 1] = reading
        BY <3>1, <3>3, <3>4
      <4>3. 1 .. n + 1 = (1 .. n) \cup {n + 1}
        BY <4>1
      <4> HIDE DEF n
      <4>4. ASSUME NEW x, x \in {readings'[i].env : i \in DOMAIN readings'}
            PROVE  x \in {readings[i].env : i \in DOMAIN readings} \cup {e}
        BY <4>1, <4>2, <4>3, <4>4, <3>3
      <4>5. ASSUME NEW i \in 1 .. n
            PROVE  readings[i].env \in {readings'[j].env : j \in DOMAIN readings'}
        <5>1. i \in DOMAIN readings' /\ readings'[i].env = readings[i].env
          BY <4>1, <4>2, <4>3
        <5> QED BY <5>1, Zenon
      <4>6. e \in {readings'[j].env : j \in DOMAIN readings'}
        <5>1. n + 1 \in DOMAIN readings' /\ readings'[n + 1].env = e
          BY <4>1, <4>2, <3>3
        <5> QED BY <5>1, Zenon
      <4> QED BY <4>1, <4>4, <4>5, <4>6
    <3> QED BY <2>1, <1>1, <3>5, <3>6 DEF TypeOK
  <2>2. CASE e.kind # "state"
    BY <2>2, <1>1 DEF Persist, Keep, TypeOK
  <2> QED BY <2>1, <2>2
<1>6. Kept'
  BY <1>1, <1>2, <1>3, <1>5 DEF Persist, Answer, TypeOK, Kept, OnePerKey, Ids
<1>7. Entered'
  BY <1>1, <1>2, <1>3 DEF Persist, When, TypeOK, Entered, OnePerKey
<1>8. Seen'
  BY <1>1, <1>2, <1>3 DEF Persist, When, TypeOK, Seen, OnePerKey, Observations
<1>9. Ledgers'
  BY DEF Persist, When, TypeOK, Ledgers, OnePerKey, KeyOfChunk, ChunkOf
<1> QED BY <1>4, <1>6, <1>7, <1>8, <1>9, TypeParts, PTL

LEMMA TypeAnswer ==
    ASSUME TypeOK, NEW e \in Envelopes, AnswerDuplicate(e) \/ AnswerHeardAgain(e)
    PROVE  TypeOK'
<1>1. UNCHANGED <<now, air, messages, readings, ledger, reports, chunks>>
  BY DEF AnswerDuplicate, AnswerHeardAgain, tables
<1>2. Envelopes' = Envelopes /\ Ids' = Ids
  BY <1>1 DEF air, Envelopes, Copies, Copy, Ids
<1>3. now \in 1 .. now
  BY SiteLedgerAssumption DEF TypeOK
<1>4. \E id \in Ids : Answer(e, id)
  <2>1. CASE AnswerDuplicate(e)
    BY <2>1 DEF AnswerDuplicate, Duplicate, TypeOK
  <2>2. CASE AnswerHeardAgain(e)
    BY <2>2 DEF AnswerHeardAgain, Observations, TypeOK
  <2> QED BY <2>1, <2>2
<1>5. Clocks' /\ Entered' /\ Ledgers'
  BY <1>1, <1>2 DEF TypeOK, Clocks, Entered, Ledgers, OnePerKey, KeyOfChunk, air
<1>6. Kept'
  BY <1>1, <1>2, <1>4 DEF Answer, TypeOK, Kept, OnePerKey
<1>7. Seen'
  <2>1. CASE AnswerDuplicate(e)
    BY <2>1, <1>1, <1>2 DEF AnswerDuplicate, tables, TypeOK, Seen, OnePerKey
  <2>2. CASE AnswerHeardAgain(e)
    BY <2>2, <1>1, <1>2, <1>3 DEF AnswerHeardAgain, Observations, TypeOK, Seen, OnePerKey
  <2> QED BY <2>1, <2>2
<1> QED BY <1>5, <1>6, <1>7, TypeParts, PTL

LEMMA TypeUpkeep ==
    ASSUME TypeOK, Rebuild \/ (\E t \in Tables : Compact(t))
    PROVE  TypeOK'
<1>1. /\ UNCHANGED <<now, air, messages, readings, ledger, answered>>
      /\ observed' \subseteq observed /\ reports' \subseteq reports /\ chunks' \subseteq chunks
  BY DEF Rebuild, Compact
<1>2. Envelopes' = Envelopes /\ Ids' = Ids
  BY <1>1 DEF air, Envelopes, Copies, Copy, Ids
<1>3. Clocks' /\ Kept' /\ Entered'
  BY <1>1, <1>2 DEF TypeOK, Clocks, Kept, Entered, OnePerKey, air
<1>4. Seen' /\ Ledgers'
  BY <1>1, <1>2 DEF TypeOK, Seen, Ledgers, OnePerKey, KeyOfChunk
<1> QED BY <1>3, <1>4, TypeParts, PTL

LEMMA TypeNext ==
    ASSUME TypeOK, [Next]_vars
    PROVE  TypeOK'
<1>1. CASE Tick \/ (\E f \in Frames : Send(f) \/ \E h \in Agents : Hear(f, h))
  BY <1>1, TypeAir
<1>2. ASSUME NEW e \in Envelopes, Ingest(e)
      PROVE  TypeOK'
  <2>1. CASE Refuse(e)
    BY <2>1, TypeUnchanged DEF Refuse, vars
  <2> QED BY <1>2, <2>1, TypeAnswer, TypePersist DEF Ingest
<1>3. CASE Rebuild \/ (\E t \in Tables : Compact(t))
  BY <1>3, TypeUpkeep
<1>4. CASE UNCHANGED vars
  BY <1>4, TypeUnchanged
<1> QED BY <1>1, <1>2, <1>3, <1>4 DEF Next

(* No primary key is held twice, for messages and event_ledger because of  *)
(* the lookups that come before the inserts; every row names a message.    *)
THEOREM TypeCorrect == Spec => []TypeOK
  BY TypeInit, TypeNext, PTL DEF Spec

-----------------------------------------------------------------------------
(* CountedOnce.  By itself it is not inductive: that the window has closed *)
(* for a copy says something of the entries there are only because each of *)
(* them is followed by the observation of its key, or has left it behind   *)
(* by more than a window.                                                  *)

Times ==
    /\ now \in Nat
    /\ \A r \in ledger : r.at \in Nat /\ r.at <= now
    /\ \A o \in observed : o.seen \in Nat /\ o.seen <= now

Followed ==
    \A f \in Frames : \A r \in EntriesOf(f) :
        \/ now - r.at >= Window
        \/ \E o \in observed : o.key = Key[f] /\ o.seen >= r.at

Counted == Times /\ Followed /\ CountedOnce

LEMMA CountedInit == Init => Counted
  BY DEF Init, Counted, Times, Followed, CountedOnce, EntriesOf

(* What of the ledger and of the observations an envelope writes.          *)
LEMMA PersistWrites ==
    ASSUME Counted, NEW e \in Envelopes, Persist(e)
    PROVE  Counted'
<1> USE SiteLedgerAssumption
<1>1. now' = now
  BY DEF Persist
<1> DEFINE entry == [event |-> e.event, msg |-> e.id, at |-> now]
           seen == [key |-> e.key, first |-> e.id, seen |-> now]
<1>2. /\ ledger \subseteq ledger'
      /\ \A r \in ledger' : r \in ledger \/ r = entry
  BY DEF Persist, When
<1>3. /\ \A o \in observed' : o \in observed \/ o = seen
      /\ \A o \in observed : o \in observed' \/ (Keyed(e) /\ o.key = e.key /\ seen \in observed')
      /\ Keyed(e) => seen \in observed'
  BY DEF Persist, When, Observations
<1>4. Times'
  BY <1>1, <1>2, <1>3 DEF Counted, Times
<1>5. ASSUME NEW f \in Frames, entry \in EntriesOf(f)'
      PROVE  Keyed(e) /\ e.key = Key[f]
  <2>1. e.id \in {f} \X Agents
    BY <1>5 DEF EntriesOf
  <2>2. e \notin Posts
    BY <2>1
  <2>3. PICK g \in Frames, h \in Agents : e = Copy(g, h)
    BY <2>2 DEF Envelopes, Copies
  <2>4. g = f /\ e.key = Key[f] /\ e.kind = "event"
    BY <2>1, <2>3 DEF Copy
  <2> QED BY <2>4 DEF Keyed
<1>6. Followed'
  <2> SUFFICES ASSUME NEW f \in Frames, NEW r \in EntriesOf(f)'
               PROVE  \/ now - r.at >= Window
                      \/ \E o \in observed' : o.key = Key[f] /\ o.seen >= r.at
    BY <1>1 DEF Followed
  <2>1. CASE r \in ledger
    <3>1. r \in EntriesOf(f)
      BY <2>1 DEF EntriesOf
    <3>2. r.at <= now
      BY <2>1 DEF Counted, Times
    <3>3. CASE now - r.at >= Window
      BY <3>3
    <3>4. CASE \E o \in observed : o.key = Key[f] /\ o.seen >= r.at
      BY <3>4, <3>2, <1>3
    <3> QED BY <3>1, <3>3, <3>4 DEF Counted, Followed
  <2>2. CASE r = entry
    <3>1. seen \in observed' /\ seen.key = Key[f] /\ seen.seen = now /\ r.at = now
      BY <2>2, <1>5, <1>3
    <3>2. now \in Nat
      BY DEF Counted, Times
    <3> QED BY <3>1, <3>2
  <2>3. r \in ledger'
    BY DEF EntriesOf
  <2> QED BY <2>1, <2>2, <2>3, <1>2
<1>7. ASSUME NEW f \in Frames, entry \in EntriesOf(f)', NEW r \in EntriesOf(f)
      PROVE  now - r.at >= Window
  <2>1. \A o \in observed : o.key = Key[f] => now - o.seen >= Window
    BY <1>5, <1>7 DEF Persist, WindowClosed, Observations
  <2>2. r.at \in Nat /\ now \in Nat /\ \A o \in observed : o.seen \in Nat
    BY DEF Counted, Times, EntriesOf
  <2> QED BY <2>1, <2>2 DEF Counted, Followed
<1>8. CountedOnce'
  <2> SUFFICES ASSUME NEW f \in Frames, NEW r \in EntriesOf(f)', NEW s \in EntriesOf(f)', r # s
               PROVE  r.at - s.at >= Window \/ s.at - r.at >= Window
    BY DEF CountedOnce
  <2>1. /\ r \in EntriesOf(f) \/ r = entry
        /\ s \in EntriesOf(f) \/ s = entry
    BY <1>2 DEF EntriesOf
  <2>2. CASE r \in EntriesOf(f) /\ s \in EntriesOf(f)
    BY <2>2 DEF Counted, CountedOnce
  <2>3. CASE r = entry /\ s \in EntriesOf(f)
    BY <2>3, <1>7
  <2>4. CASE s = entry /\ r \in EntriesOf(f)
    BY <2>4, <1>7
  <2> QED BY <2>1, <2>2, <2>3, <2>4
<1> QED BY <1>4, <1>6, <1>8 DEF Counted

(* A touched observation is a later one of the same key. *)
LEMMA HeardAgainWrites ==
    ASSUME Counted, NEW e, AnswerHeardAgain(e)
    PROVE  Counted'
<1>1. PICK o \in observed :
         observed' = (observed \ {o}) \cup {[key |-> o.key, first |-> o.first, seen |-> now]}
  BY DEF AnswerHeardAgain, Observations
<1>2. now' = now /\ ledger' = ledger
  BY DEF AnswerHeardAgain
<1>3. Times'
  BY <1>1, <1>2 DEF Counted, Times
<1>4. ASSUME NEW p \in observed
      PROVE  \E q \in observed' : q.key = p.key /\ q.seen >= p.seen
  <2>1. p.seen \in Nat /\ p.seen <= now /\ now \in Nat
    BY DEF Counted, Times
  <2>2. CASE p = o
    <3> DEFINE q == [key |-> o.key, first |-> o.first, seen |-> now]
    <3>1. q \in observed' /\ q.key = p.key /\ q.seen = now
      BY <2>2, <1>1
    <3> HIDE DEF q
    <3> QED BY <2>1, <3>1
  <2>3. CASE p # o
    BY <2>1, <2>3, <1>1
  <2> QED BY <2>2, <2>3
<1>5. ASSUME NEW f \in Frames, NEW r \in EntriesOf(f),
             NEW p \in observed, p.key = Key[f], p.seen >= r.at
      PROVE  \E q \in observed' : q.key = Key[f] /\ q.seen >= r.at
  <2>1. r.at \in Nat /\ p.seen \in Nat /\ \A q \in observed' : q.seen \in Nat
    BY <1>3 DEF Counted, Times, EntriesOf
  <2> QED BY <2>1, <1>4, <1>5
<1>6. Followed' /\ CountedOnce'
  BY <1>2, <1>5 DEF Counted, Followed, CountedOnce, EntriesOf
<1> QED BY <1>3, <1>6 DEF Counted

LEMMA CompactWrites ==
    ASSUME Counted, NEW t \in Tables, Compact(t)
    PROVE  Counted'
<1>1. now' = now /\ ledger' = ledger /\ observed' \subseteq observed
      /\ \A o \in observed : o \in observed' \/ now - o.seen >= Retention["observation"]
  BY DEF Compact
<1>2. Times'
  BY <1>1 DEF Counted, Times
<1>3. ASSUME NEW f \in Frames, NEW r \in EntriesOf(f)
      PROVE  \/ now - r.at >= Window
             \/ \E o \in observed' : o.key = Key[f] /\ o.seen >= r.at
  <2>1. CASE \E o \in observed : o.key = Key[f] /\ o.seen >= r.at
    <3>1. PICK o \in observed : o.key = Key[f] /\ o.seen >= r.at
      BY <2>1
    <3>2. r.at \in Nat /\ now \in Nat /\ o.seen \in Nat
      BY DEF Counted, Times, EntriesOf
    <3>3. Retention["observation"] \in Nat /\ Retention["observation"] > Window /\ Window \in Nat
      BY SiteLedgerAssumption DEF Tables
    <3> QED BY <3>1, <3>2, <3>3, <1>1
  <2> QED BY <2>1 DEF Counted, Followed
<1>4. Followed' /\ CountedOnce'
  BY <1>1, <1>3 DEF Counted, Followed, CountedOnce, EntriesOf
<1> QED BY <1>2, <1>4 DEF Counted

LEMMA TickWrites ==
    ASSUME Counted, Tick
    PROVE  Counted'
<1>1. now' = now + 1 /\ ledger' = ledger /\ observed' = observed
  BY DEF Tick, tables
<1>2. Times'
  BY <1>1 DEF Counted, Times
<1>3. ASSUME NEW f \in Frames, NEW r \in EntriesOf(f), now - r.at >= Window
      PROVE  now' - r.at >= Window
  BY <1>1, <1>3, SiteLedgerAssumption DEF Counted, Times, EntriesOf
<1>4. Followed' /\ CountedOnce'
  BY <1>1, <1>3 DEF Counted, Followed, CountedOnce, EntriesOf
<1> QED BY <1>2, <1>4 DEF Counted

LEMMA CountedUnchanged ==
    ASSUME Counted, UNCHANGED <<now, ledger, observed>>
    PROVE  Counted'
  BY DEF Counted, Times, Followed, CountedOnce, EntriesOf

LEMMA CountedNext ==
    ASSUME Counted, [Next]_vars
    PROVE  Counted'
<1>1. ASSUME NEW f \in Frames, Send(f) \/ \E h \in Agents : Hear(f, h)
      PROVE  Counted'
  BY <1>1, CountedUnchanged DEF Send, Hear, tables
<1>2. CASE Tick
  BY <1>2, TickWrites
<1>3. ASSUME NEW e \in Envelopes, Ingest(e)
      PROVE  Counted'
  <2>1. CASE Refuse(e)
    BY <2>1, CountedUnchanged DEF Refuse, tables
  <2>2. CASE AnswerDuplicate(e)
    BY <2>2, CountedUnchanged DEF AnswerDuplicate, tables
  <2>3. CASE AnswerHeardAgain(e)
    BY <2>3, HeardAgainWrites
  <2>4. CASE Persist(e)
    BY <2>4, PersistWrites
  <2> QED BY <1>3, <2>1, <2>2, <2>3, <2>4 DEF Ingest
<1>4. ASSUME NEW t \in Tables, Compact(t)
      PROVE  Counted'
  BY <1>4, CompactWrites
<1>5. CASE Rebuild
  BY <1>5, CountedUnchanged DEF Rebuild
<1>6. CASE UNCHANGED vars
  BY <1>6, CountedUnchanged DEF vars, tables
<1> QED BY <1>1, <1>2, <1>3, <1>4, <1>5, <1>6 DEF Next

(* The copies of a frame make one entry of the event ledger, or entries a  *)
(* window apart: recordDuplicateRadioObservation joins what the event ids  *)
(* of a five-minute bucket keep apart.                                     *)
THEOREM FramesAreCountedOnce == Spec => []CountedOnce
<1>1. Counted /\ [Next]_vars => Counted'
  BY CountedNext
<1>2. Counted => CountedOnce
  BY DEF Counted
<1> QED BY <1>1, <1>2, CountedInit, PTL DEF Spec

-----------------------------------------------------------------------------
(* FileIsWhole.  FileChunkProgress counts rows and looks at the first and  *)
(* the last index; that no index between them is missing follows from the  *)
(* primary key, and that the total means the same to all from Agrees.      *)

Cut ==
    /\ IsFiniteSet(chunks)
    /\ \A c \in chunks : c.index \in Int /\ c.total \in Int
    /\ \A c, d \in chunks : c.file = d.file /\ c.index = d.index => c = d
    /\ \A c, d \in chunks : c.file = d.file => c.total = d.total

LEMMA PersistCuts ==
    ASSUME Cut, NEW e \in Envelopes, Persist(e)
    PROVE  Cut'
<1> DEFINE row == [file |-> FileOf(e), index |-> e.index, total |-> e.total,
                   msg |-> e.id, at |-> now]
<1>1. CASE e.kind # "file_chunk"
  <2>1. chunks' \subseteq chunks
    BY <1>1 DEF Persist, When
  <2> QED BY <2>1, FS_Subset DEF Cut
<1>2. CASE e.kind = "file_chunk"
  <2>1. /\ chunks' = {c \in chunks : KeyOfChunk(c) # ChunkOf(e)} \cup {row}
        /\ Agrees(e)
    BY <1>2 DEF Persist, When, Applicable
  <2>2. e \in Posts
    BY <1>2 DEF Envelopes, Copies, Copy
  <2>3. row.file = FileOf(e) /\ row.index = e.index /\ row.total = e.total
    OBVIOUS
  <2>4. row.index \in Int /\ row.total \in Int
    BY <1>2, <2>2, <2>3, SiteLedgerAssumption
  <2>5. IsFiniteSet(chunks')
    <3>1. IsFiniteSet({c \in chunks : KeyOfChunk(c) # ChunkOf(e)})
      BY FS_Subset DEF Cut
    <3> QED BY <3>1, <2>1, FS_AddElement
  <2>6. \A c \in chunks' : c # row => c \in chunks /\ ~(c.file = row.file /\ c.index = row.index)
    BY <1>2, <2>1, <2>3 DEF KeyOfChunk, ChunkOf
  <2>7. \A c \in chunks : c.file = row.file => c.total = row.total
    BY <2>1, <2>3 DEF Agrees
  <2> HIDE DEF row
  <2> QED BY <2>4, <2>5, <2>6, <2>7 DEF Cut
<1> QED BY <1>1, <1>2

LEMMA CutNext ==
    ASSUME Cut, [Next]_vars
    PROVE  Cut'
<1>1. CASE UNCHANGED chunks
  BY <1>1 DEF Cut
<1>2. ASSUME NEW t \in Tables, Compact(t)
      PROVE  Cut'
  <2>1. chunks' \subseteq chunks
    BY <1>2 DEF Compact
  <2> QED BY <2>1, FS_Subset DEF Cut
<1>3. ASSUME NEW e \in Envelopes, Ingest(e)
      PROVE  Cut'
  BY <1>1, <1>3, PersistCuts
     DEF Ingest, Refuse, AnswerDuplicate, AnswerHeardAgain, tables
<1>4. ASSUME NEW f \in Frames, Send(f) \/ \E h \in Agents : Hear(f, h)
      PROVE  UNCHANGED chunks
  BY <1>4 DEF Send, Hear, tables
<1>5. Tick \/ Rebuild \/ UNCHANGED vars => UNCHANGED chunks
  BY DEF Tick, Rebuild, vars, tables
<1> QED BY <1>1, <1>2, <1>3, <1>4, <1>5 DEF Next

(* As many indices as rows, all below the total: none is missing. *)
LEMMA CutIsWhole == Cut => FileIsWhole
<1> SUFFICES ASSUME Cut, NEW f, Complete(f)
             PROVE  \E t \in {c.total : c \in ChunksOf(f)} :
                       /\ {c.index : c \in ChunksOf(f)} = 0 .. t - 1
                       /\ \A c \in ChunksOf(f) : c.total = t
  BY Zenon DEF FileIsWhole
<1> DEFINE indices == {c.index : c \in ChunksOf(f)}
<1>1. PICK t \in {c.total : c \in ChunksOf(f)} :
        /\ t > 0 /\ Cardinality(ChunksOf(f)) = t
        /\ \A i \in indices : 0 <= i /\ i < t
  BY Zenon DEF Complete
<1>2. t \in Int /\ \A c \in ChunksOf(f) : c.total = t /\ c.index \in Int
  BY <1>1 DEF Cut, ChunksOf
<1>3. IsFiniteSet(ChunksOf(f))
  BY FS_Subset DEF Cut, ChunksOf
<1>4. indices \subseteq 0 .. t - 1
  BY <1>1, <1>2
<1>5. IsFiniteSet(0 .. t - 1) /\ Cardinality(0 .. t - 1) = t
  BY <1>1, <1>2, FS_Interval
<1>6. Cardinality(indices) = t
  <2> DEFINE g == [c \in ChunksOf(f) |-> c.index]
  <2>1. g \in Surjection(ChunksOf(f), indices)
    BY DEF Surjection
  <2>2. \A c, d \in ChunksOf(f) : c.index = d.index => c = d
    BY DEF Cut, ChunksOf
  <2>3. g \in Injection(ChunksOf(f), indices)
    BY <2>2 DEF Injection, IsInjective
  <2> QED BY <1>1, <1>3, <2>1, <2>3, FS_Surjection
<1>7. indices = 0 .. t - 1
  BY <1>4, <1>5, <1>6, FS_Subset
<1> QED BY <1>1, <1>2, <1>7

(* A file reported complete is one cut and has no hole. *)
THEOREM CompleteFilesAreWhole == Spec => []FileIsWhole
<1>1. Init => Cut
  BY FS_EmptySet DEF Init, Cut
<1>2. Cut /\ [Next]_vars => Cut'
  BY CutNext
<1> QED BY <1>1, <1>2, CutIsWhole, PTL DEF Spec

-----------------------------------------------------------------------------
(* The projection latest_state: sorting loses no candidate, and upserting  *)
(* one after the other leaves the newest.                                  *)

LEMMA PlacedKeeps ==
    ASSUME NEW E, NEW sorted \in Seq(E), NEW e \in E
    PROVE  Placed(sorted, e) \in Seq(E) /\ ToSet(Placed(sorted, e)) = ToSet(sorted) \cup {e}
<1> DEFINE n == Len(sorted)
           Fits(j) == /\ \A i \in j + 1 .. n : Newer(sorted[i], e)
                      /\ j = 0 \/ ~Newer(sorted[j], e)
           k == CHOOSE j \in 0 .. n : Fits(j)
           S == {j \in 1 .. n : ~Newer(sorted[j], e)}
<1>1. n \in Nat
  OBVIOUS
<1>2. \E j \in 0 .. n : Fits(j)
  <2>1. CASE S = {}
    <3>1. 0 \in 0 .. n /\ Fits(0)
      BY <1>1, <2>1
    <3> QED BY <3>1
  <2>2. CASE S # {}
    <3>1. PICK m \in S : \A j \in S : j <= m
      BY <1>1, <2>2, LastOf
    <3>2. m \in 0 .. n /\ Fits(m)
      BY <1>1, <3>1
    <3> QED BY <3>2
  <2> QED BY <2>1, <2>2
<1>3. k \in 0 .. n
  <2> HIDE DEF Fits, n
  <2> QED BY <1>2
<1>4. Placed(sorted, e) = InsertAt(sorted, k + 1, e)
  BY DEF Placed
<1> HIDE DEF k
<1> DEFINE t == Placed(sorted, e)
           at == k + 1
<1>5. at \in 1 .. Len(sorted) + 1
  BY <1>1, <1>3
<1>6. t \in Seq(E) /\ Len(t) = Len(sorted) + 1 /\ Between(sorted, t, e, at)
  BY <1>4, <1>5, Inserted
<1> HIDE DEF t, at
<1>7. ToSet(t) = {t[i] : i \in 1 .. n + 1} /\ ToSet(sorted) = {sorted[i] : i \in 1 .. n}
  BY <1>6 DEF ToSet
<1>8. \A i \in 1 .. n + 1 : t[i] \in ToSet(sorted) \cup {e}
  BY <1>6, <1>7 DEF Between
<1>9. ASSUME NEW i \in 1 .. n
      PROVE  \E j \in 1 .. n + 1 : t[j] = sorted[i]
  <2>1. CASE i < at
    BY <1>1, <1>5, <1>6, <2>1 DEF Between
  <2>2. CASE ~(i < at)
    <3>1. i + 1 \in 1 .. n + 1 /\ i + 1 > at /\ (i + 1) - 1 = i
      BY <1>1, <1>5, <2>2
    <3>2. t[i + 1] = sorted[(i + 1) - 1]
      BY <3>1, <1>1, <1>5, <1>6 DEF Between
    <3> QED BY <3>1, <3>2
  <2> QED BY <2>1, <2>2
<1>10. t[at] = e
  BY <1>5, <1>6 DEF Between
<1>11. ToSet(sorted) \cup {e} \subseteq ToSet(t)
  BY <1>5, <1>7, <1>9, <1>10
<1> QED BY <1>6, <1>7, <1>8, <1>11 DEF t

(* What FoldLeft means for sequences of n elements. *)
LEMMA SortKeeps ==
    ASSUME NEW E, NEW c \in Seq(E)
    PROVE  /\ FoldLeft(Placed, <<>>, c) \in Seq(E)
           /\ ToSet(FoldLeft(Placed, <<>>, c)) = ToSet(c)
<1> DEFINE n == Len(c)
           Sorts(f) == f = [s \in SUBSET DOMAIN c |->
                        IF s = {} THEN <<>> ELSE Placed(f[s \ {Latest(s)}], c[Latest(s)])]
           F == CHOOSE f : Sorts(f)
           op == [p \in Seq(E) \X (1 .. n) |-> Placed(p[1], c[p[2]])]
<1>1. n \in Nat /\ DOMAIN c = 1 .. n /\ (\A i \in 1 .. n : c[i] \in E) /\ <<>> \in Seq(E)
  OBVIOUS
<1>2. FoldLeft(Placed, <<>>, c) = F[DOMAIN c]
  BY DEF FoldLeft, MapThenFoldSet, Max, Latest
<1>p. ASSUME NEW q \in Seq(E), NEW e \in E
      PROVE  Placed(q, e) \in Seq(E) /\ ToSet(Placed(q, e)) = ToSet(q) \cup {e}
  BY PlacedKeeps
<1>3. op \in [Seq(E) \X (1 .. n) -> Seq(E)]
  BY <1>1, <1>p
<1>4. PICK g \in [SUBSET (1 .. n) -> Seq(E)] : Solves(g, n, <<>>, op)
  <2> HIDE DEF op, n
  <2> QED BY <1>1, <1>3, FoldExists
<1>5. Sorts(g)
  <2>1. \A s \in SUBSET (1 .. n) :
           s # {} => op[<<g[s \ {Latest(s)}], Latest(s)>>] = Placed(g[s \ {Latest(s)}], c[Latest(s)])
    <3> SUFFICES ASSUME NEW s \in SUBSET (1 .. n), s # {}
                 PROVE  op[<<g[s \ {Latest(s)}], Latest(s)>>] = Placed(g[s \ {Latest(s)}], c[Latest(s)])
      OBVIOUS
    <3>1. Latest(s) \in 1 .. n
      BY <1>1, LatestOf
    <3>2. g[s \ {Latest(s)}] \in Seq(E)
      BY <1>4
    <3> HIDE DEF n
    <3> QED BY <3>1, <3>2
  <2> HIDE DEF op, n
  <2> QED BY <1>1, <1>4, <2>1 DEF Solves
<1>6. Sorts(F)
  <2> HIDE DEF Sorts
  <2> QED BY <1>5
<1> HIDE DEF F, n, op
<1>7. F[{}] = <<>>
  BY <1>1, <1>6
<1>8. ASSUME NEW k \in Nat, k < n
      PROVE  F[1 .. k + 1] = Placed(F[1 .. k], c[k + 1])
  <2>1. 1 .. k + 1 \in SUBSET DOMAIN c
    BY <1>1, <1>8
  <2>2. Latest(1 .. k + 1) = k + 1 /\ (1 .. k + 1) \ {k + 1} = 1 .. k /\ 1 .. k + 1 # {}
    BY LatestOfPrefix
  <2>3. F[1 .. k + 1] = Placed(F[(1 .. k + 1) \ {Latest(1 .. k + 1)}], c[Latest(1 .. k + 1)])
    BY <1>6, <2>1, <2>2
  <2> QED BY <2>2, <2>3
<1> HIDE DEF Sorts
<1> DEFINE S == {k \in 0 .. n : F[1 .. k] \in Seq(E) /\ ToSet(F[1 .. k]) = {c[i] : i \in 1 .. k}}
<1>9. 0 \in S
  <2>1. 1 .. 0 = {} /\ ToSet(<<>>) = {} /\ {c[i] : i \in 1 .. 0} = {}
    BY DEF ToSet
  <2>2. F[1 .. 0] = <<>> /\ 0 \in 0 .. n
    BY <1>1, <1>7, <2>1
  <2> QED BY <1>1, <2>1, <2>2
<1>10. ASSUME NEW k \in S, k < n
       PROVE  k + 1 \in S
  <2>1. k \in Nat /\ k + 1 \in 0 .. n /\ k + 1 \in 1 .. n
    BY <1>1, <1>10
  <2>2. c[k + 1] \in E /\ F[1 .. k] \in Seq(E) /\ ToSet(F[1 .. k]) = {c[i] : i \in 1 .. k}
    BY <1>1, <2>1
  <2>3. F[1 .. k + 1] \in Seq(E) /\ ToSet(F[1 .. k + 1]) = {c[i] : i \in 1 .. k} \cup {c[k + 1]}
    <3>1. F[1 .. k + 1] = Placed(F[1 .. k], c[k + 1])
      BY <1>8, <1>10, <2>1
    <3>2. /\ Placed(F[1 .. k], c[k + 1]) \in Seq(E)
          /\ ToSet(Placed(F[1 .. k], c[k + 1])) = ToSet(F[1 .. k]) \cup {c[k + 1]}
      BY <2>2, <1>p
    <3> QED BY <2>2, <3>1, <3>2
  <2>4. 1 .. k + 1 = (1 .. k) \cup {k + 1}
    BY <2>1
  <2>5. {c[i] : i \in 1 .. k} \cup {c[k + 1]} = {c[i] : i \in 1 .. k + 1}
    BY <2>4
  <2> QED BY <2>1, <2>3, <2>5
<1>11. n \in S
  <2>1. S \subseteq 0 .. n /\ n \in 0 .. n
    BY <1>1
  <2> HIDE DEF S
  <2>2. S = 0 .. n
    BY <1>1, <1>9, <1>10, <2>1, Counting
  <2> QED BY <2>1, <2>2
<1>12. ToSet(c) = {c[i] : i \in 1 .. n}
  BY <1>1 DEF ToSet
<1> QED BY <1>1, <1>2, <1>11, <1>12

(* Rows of a set of states: what compareStateOrder reads is there.         *)
AreStates(R) == NoRow \notin R /\ \A a \in R : a.at \in Int /\ a.seq \in Int /\ a.rank \in Int

(* No two states are at the same place of the order. *)
Told(R) == Ordered(R) /\ \A a, b \in R : a.rank = b.rank => a = b

(* r is the row that the states R leave: none is later, and none is newer  *)
(* where the order is one.                                                 *)
RowOf(r, R) ==
    \/ R = {} /\ r = NoRow
    \/ /\ r \in R
       /\ \A a \in R : r.at >= a.at
       /\ Told(R) => \A a \in R : r = a \/ Newer(r, a)

LEMMA UpsertedRow ==
    ASSUME NEW R, NEW r, RowOf(r, R), NEW e, AreStates(R \cup {e})
    PROVE  RowOf(Upserted(r, e), R \cup {e})
<1>1. CASE r = NoRow
  <2>1. R = {} /\ Upserted(r, e) = e
    BY <1>1 DEF RowOf, Upserted, AreStates
  <2> QED BY <2>1 DEF RowOf, AreStates
<1>2. CASE r # NoRow
  <2>1. r \in R
    BY <1>2 DEF RowOf
  <2>2. Told(R \cup {e}) => Told(R)
    BY DEF Told, Ordered
  <2>3. CASE Newer(e, r)
    <3>1. Upserted(r, e) = e /\ e.at >= r.at
      BY <2>1, <2>3 DEF Upserted, Newer, AreStates
    <3>2. \A a \in R : e.at >= a.at
      BY <2>1, <3>1 DEF RowOf, AreStates
    <3>3. ASSUME Told(R \cup {e}), NEW a \in R
          PROVE  Newer(e, a)
      <4>1. r = a \/ Newer(r, a)
        BY <1>2, <2>2, <3>3 DEF RowOf
      <4> QED BY <2>1, <2>3, <3>3, <4>1 DEF Told, Ordered
    <3> QED BY <3>1, <3>2, <3>3 DEF RowOf, AreStates
  <2>4. CASE ~Newer(e, r)
    <3>1. Upserted(r, e) = r /\ r.at >= e.at
      BY <1>2, <2>1, <2>4 DEF Upserted, Newer, AreStates
    <3>2. Told(R \cup {e}) => r = e \/ Newer(r, e)
      BY <2>1, <2>4 DEF Told, Newer, AreStates
    <3> QED BY <1>2, <2>1, <2>2, <3>1, <3>2 DEF RowOf
  <2> QED BY <2>3, <2>4
<1> QED BY <1>1, <1>2

(* Upserting the states of a sequence in turn. *)
LEMMA UpsertingLeaves ==
    ASSUME NEW E, NEW t \in Seq(E), NEW s, AreStates({x \in ToSet(t) : x.subject = s})
    PROVE  RowOf(FoldLeft(LAMBDA row, e : IF e.subject = s THEN Upserted(row, e) ELSE row, NoRow, t),
                 {x \in ToSet(t) : x.subject = s})
<1> DEFINE n == Len(t)
           Step(row, e) == IF e.subject = s THEN Upserted(row, e) ELSE row
           Upserts(f) == f = [i \in SUBSET DOMAIN t |->
                        IF i = {} THEN NoRow ELSE Step(f[i \ {Latest(i)}], t[Latest(i)])]
           F == CHOOSE f : Upserts(f)
           A == E \cup {NoRow}
           op == [p \in A \X (1 .. n) |-> Step(p[1], t[p[2]])]
<1>1. n \in Nat /\ DOMAIN t = 1 .. n /\ (\A i \in 1 .. n : t[i] \in E) /\ NoRow \in A
  OBVIOUS
<1>2. FoldLeft(LAMBDA row, e : IF e.subject = s THEN Upserted(row, e) ELSE row, NoRow, t) = F[DOMAIN t]
  BY DEF FoldLeft, MapThenFoldSet, Max, Latest
<1>3. op \in [A \X (1 .. n) -> A]
  <2>1. \A row \in A, i \in 1 .. n : Step(row, t[i]) \in A
    BY <1>1 DEF Upserted
  <2> HIDE DEF Step, A, n
  <2> QED BY <2>1
<1>4. PICK g \in [SUBSET (1 .. n) -> A] : Solves(g, n, NoRow, op)
  <2> HIDE DEF op, n, A
  <2> QED BY <1>1, <1>3, FoldExists
<1>5. Upserts(g)
  <2> HIDE DEF Step
  <2>1. \A i \in SUBSET (1 .. n) :
           i # {} => op[<<g[i \ {Latest(i)}], Latest(i)>>] = Step(g[i \ {Latest(i)}], t[Latest(i)])
    <3> SUFFICES ASSUME NEW i \in SUBSET (1 .. n), i # {}
                 PROVE  op[<<g[i \ {Latest(i)}], Latest(i)>>] = Step(g[i \ {Latest(i)}], t[Latest(i)])
      OBVIOUS
    <3>1. Latest(i) \in 1 .. n
      BY <1>1, LatestOf
    <3>2. g[i \ {Latest(i)}] \in A
      BY <1>4
    <3> HIDE DEF n, A
    <3> QED BY <3>1, <3>2
  <2> HIDE DEF op, n
  <2> QED BY <1>1, <1>4, <2>1 DEF Solves
<1>6. Upserts(F)
  <2> HIDE DEF Upserts
  <2> QED BY <1>5
<1> HIDE DEF F, n, op, A, Step
<1>7. F[{}] = NoRow
  BY <1>1, <1>6
<1>8. ASSUME NEW k \in Nat, k < n
      PROVE  F[1 .. k + 1] = Step(F[1 .. k], t[k + 1])
  <2>1. 1 .. k + 1 \in SUBSET DOMAIN t
    BY <1>1, <1>8
  <2>2. Latest(1 .. k + 1) = k + 1 /\ (1 .. k + 1) \ {k + 1} = 1 .. k /\ 1 .. k + 1 # {}
    BY LatestOfPrefix
  <2>3. F[1 .. k + 1] = Step(F[(1 .. k + 1) \ {Latest(1 .. k + 1)}], t[Latest(1 .. k + 1)])
    BY <1>6, <2>1, <2>2
  <2> QED BY <2>2, <2>3
<1> HIDE DEF Upserts
<1> DEFINE R(k) == {x \in {t[i] : i \in 1 .. k} : x.subject = s}
           S == {k \in 0 .. n : RowOf(F[1 .. k], R(k))}
<1>9. 0 \in S
  <2>1. 1 .. 0 = {} /\ R(0) = {}
    OBVIOUS
  <2>2. F[1 .. 0] = NoRow /\ 0 \in 0 .. n
    BY <1>1, <1>7, <2>1
  <2> HIDE DEF R
  <2> QED BY <2>1, <2>2 DEF RowOf
<1>10. ToSet(t) = {t[i] : i \in 1 .. n}
  BY <1>1 DEF ToSet
<1>11. ASSUME NEW k \in S, k < n
       PROVE  k + 1 \in S
  <2>1. k \in Nat /\ k + 1 \in 0 .. n /\ k + 1 \in 1 .. n /\ RowOf(F[1 .. k], R(k))
    BY <1>1, <1>11
  <2>2. F[1 .. k + 1] = Step(F[1 .. k], t[k + 1])
    BY <1>8, <1>11, <2>1
  <2>3. 1 .. k + 1 = (1 .. k) \cup {k + 1}
    BY <2>1
  <2>4. R(k + 1) = IF t[k + 1].subject = s THEN R(k) \cup {t[k + 1]} ELSE R(k)
    BY <2>3
  <2>5. R(k + 1) \subseteq {x \in ToSet(t) : x.subject = s}
    <3>1. 1 .. k + 1 \subseteq 1 .. n
      BY <1>1, <2>1
    <3>2. {t[i] : i \in 1 .. k + 1} \subseteq ToSet(t)
      BY <1>10, <3>1
    <3> QED BY <3>2
  <2>6. AreStates(R(k + 1))
    BY <2>5 DEF AreStates
  <2> HIDE DEF R
  <2>7. RowOf(F[1 .. k + 1], R(k + 1))
    <3>1. CASE t[k + 1].subject = s
      <4>1. F[1 .. k + 1] = Upserted(F[1 .. k], t[k + 1])
        BY <2>2, <3>1 DEF Step
      <4>2. R(k + 1) = R(k) \cup {t[k + 1]}
        BY <2>4, <3>1
      <4>3. AreStates(R(k) \cup {t[k + 1]})
        BY <2>6, <4>2
      <4>4. RowOf(F[1 .. k], R(k))
        BY <2>1
      <4>5. RowOf(Upserted(F[1 .. k], t[k + 1]), R(k) \cup {t[k + 1]})
        BY <4>3, <4>4, UpsertedRow
      <4> QED BY <4>1, <4>2, <4>5
    <3>2. CASE t[k + 1].subject # s
      BY <2>1, <2>2, <2>4, <3>2 DEF Step
    <3> QED BY <3>1, <3>2
  <2> QED BY <2>1, <2>7
<1>12. n \in S
  <2>1. S \subseteq 0 .. n /\ n \in 0 .. n
    BY <1>1
  <2> HIDE DEF S
  <2>2. S = 0 .. n
    BY <1>1, <1>9, <1>11, <2>1, Counting
  <2> QED BY <2>1, <2>2
<1> QED BY <1>1, <1>2, <1>10, <1>12

(* RebuildLatestState leaves for each subject the newest of its messages,  *)
(* each dated as it is upserted.                                           *)
THEOREM RebuiltIsNewest ==
    ASSUME NEW M, NEW kept \in Seq(M), NEW s,
           AreStates({x \in {Dated(kept[i]) : i \in DOMAIN kept} : x.subject = s})
    PROVE  RowOf(Rebuilt(kept, s), {x \in {Dated(kept[i]) : i \in DOMAIN kept} : x.subject = s})
<1> DEFINE E == {Dated(m) : m \in M}
           candidates == [i \in DOMAIN kept |-> Dated(kept[i])]
           sorted == FoldLeft(Placed, <<>>, candidates)
<1>1. candidates \in Seq(E)
  <2>1. DOMAIN kept = 1 .. Len(kept) /\ Len(kept) \in Nat
    OBVIOUS
  <2>2. \A i \in 1 .. Len(kept) : Dated(kept[i]) \in E
    OBVIOUS
  <2> QED BY <2>1, <2>2
<1>2. ToSet(candidates) = {Dated(kept[i]) : i \in DOMAIN kept}
  BY DEF ToSet
<1> HIDE DEF candidates
<1>3. sorted \in Seq(E) /\ ToSet(sorted) = ToSet(candidates)
  BY <1>1, SortKeeps
<1>4. Rebuilt(kept, s) =
        FoldLeft(LAMBDA row, e : IF e.subject = s THEN Upserted(row, e) ELSE row, NoRow, sorted)
  BY DEF Rebuilt, candidates
<1> HIDE DEF sorted
<1> QED BY <1>2, <1>3, <1>4, UpsertingLeaves

-----------------------------------------------------------------------------
(* LatestIsNewest: the row is the one that the states kept leave, whether  *)
(* they were upserted as they came or all over again.                      *)

NewestKept == \A s \in Subjects : Told(StatesOf(s)) => RowOf(latest[s], StatesOf(s))

LEMMA StatesArePosts ==
    ASSUME TypeOK
    PROVE  \A m \in messages : m.kind = "state" => m \in Posts /\ m.subject \in Subjects
  BY DEF TypeOK, Envelopes, Copies, Copy, Subjects

(* Message ids tell states apart. *)
LEMMA OrderedIsTold ==
    ASSUME TypeOK, NEW s, Ordered(StatesOf(s))
    PROVE  Told(StatesOf(s))
  BY StatesArePosts, SiteLedgerAssumption DEF Told, StatesOf, TypeOK, OnePerKey

LEMMA PostsAreStates ==
    ASSUME NEW S, S \subseteq Posts, \A m \in S : m.kind = "state"
    PROVE  AreStates(S)
  BY SiteLedgerAssumption DEF AreStates

LEMMA DatedKeeps ==
    ASSUME NEW m \in [env : Posts, at : Nat], m.env.kind = "state"
    PROVE  LET d == Dated(m)
           IN  /\ d.subject = m.env.subject /\ d.seq = m.env.seq /\ d.rank = m.env.rank
               /\ d.at \in Nat /\ d.at >= m.env.at
               /\ m.env.at # 0 => d = m.env
<1>1. /\ m.env \in Posts /\ m.at \in Nat /\ {"at", "seq", "rank", "subject"} \subseteq DOMAIN m.env
      /\ m.env.at \in Nat
  BY SiteLedgerAssumption
<1>2. CASE m.env.at = 0
  <2>1. Dated(m) = [x \in DOMAIN m.env |-> IF x = "at" THEN m.at ELSE m.env[x]]
    BY <1>2 DEF Dated
  <2> QED BY <1>1, <1>2, <2>1
<1>3. CASE m.env.at # 0
  BY <1>1, <1>3 DEF Dated
<1> QED BY <1>2, <1>3

(* The messages that RebuildLatestState reads are the states kept. *)
LEMMA Readings ==
    ASSUME TypeOK
    PROVE  /\ readings \in Seq([env : Envelopes, at : Nat])
           /\ \A i \in DOMAIN readings : readings[i] \in [env : Posts, at : Nat]
                                        /\ readings[i].env \in messages
                                        /\ readings[i].env.kind = "state"
           /\ \A m \in messages : m.kind = "state" => \E i \in DOMAIN readings : readings[i].env = m
<1>1. /\ readings \in Seq([env : Envelopes, at : Nat])
      /\ {readings[i].env : i \in DOMAIN readings} = {m \in messages : m.kind = "state"}
  BY DEF TypeOK
<1>2. \A i \in DOMAIN readings : readings[i].env \in {m \in messages : m.kind = "state"}
  BY <1>1
<1>3. \A i \in DOMAIN readings : readings[i] \in [env : Envelopes, at : Nat]
  <2> DEFINE M == [env : Envelopes, at : Nat]
  <2>1. readings \in Seq(M)
    BY <1>1
  <2> HIDE DEF M
  <2>2. \A i \in DOMAIN readings : readings[i] \in M
    BY <2>1
  <2> QED BY <2>2 DEF M
<1>4. \A i \in DOMAIN readings : readings[i].env \in Posts
  BY <1>2, StatesArePosts
<1> QED BY <1>1, <1>2, <1>3, <1>4

LEMMA RebuildNewest ==
    ASSUME TypeOK, Rebuild, NEW s \in Subjects, Told(StatesOf(s))
    PROVE  RowOf(latest'[s], StatesOf(s))
<1> DEFINE D == {Dated(readings[i]) : i \in DOMAIN readings}
           R == {x \in D : x.subject = s}
<1>1. ASSUME NEW i \in DOMAIN readings
      PROVE  /\ Dated(readings[i]).subject = readings[i].env.subject
             /\ readings[i].env.subject = s => Dated(readings[i]) = readings[i].env
  <2>1. Dated(readings[i]).subject = readings[i].env.subject
        /\ (readings[i].env.at # 0 => Dated(readings[i]) = readings[i].env)
    BY Readings, DatedKeeps
  <2>2. readings[i].env.subject = s => readings[i].env \in StatesOf(s)
    BY Readings DEF StatesOf
  <2> QED BY <2>1, <2>2 DEF Told, Ordered
<1>2. R = StatesOf(s)
  <2>1. R \subseteq StatesOf(s)
    BY <1>1, Readings DEF StatesOf
  <2>2. ASSUME NEW m \in StatesOf(s)
        PROVE  m \in R
    <3>1. PICK i \in DOMAIN readings : readings[i].env = m
      BY Readings DEF StatesOf
    <3> QED BY <1>1, <3>1 DEF StatesOf
  <2> QED BY <2>1, <2>2
<1>3. AreStates(R)
  BY <1>2, StatesArePosts, PostsAreStates DEF StatesOf
<1> DEFINE M == [env : Envelopes, at : Nat]
<1>4. RowOf(Rebuilt(readings, s), R)
  <2>1. readings \in Seq(M)
    BY Readings
  <2> HIDE DEF M
  <2> QED BY <1>3, <2>1, RebuiltIsNewest
<1> QED BY <1>2, <1>4 DEF Rebuild

LEMMA PersistNewest ==
    ASSUME TypeOK, NewestKept, NEW e \in Envelopes, Persist(e)
    PROVE  NewestKept'
<1> SUFFICES ASSUME NEW s \in Subjects, Told(StatesOf(s)')
             PROVE  RowOf(latest'[s], StatesOf(s)')
  BY DEF NewestKept, Subjects
<1>1. messages' = messages \cup {e}
  BY DEF Persist, Keep
<1>2. CASE e.kind = "state" /\ e.subject = s
  <2>1. StatesOf(s)' = StatesOf(s) \cup {e} /\ latest'[s] = Upserted(latest[s], e)
    BY <1>1, <1>2 DEF StatesOf, Persist
  <2>2. Told(StatesOf(s))
    BY <2>1 DEF Told, Ordered
  <2>3. e \in Posts
    BY <1>2 DEF Envelopes, Copies, Copy
  <2>4. AreStates(StatesOf(s) \cup {e})
    BY <1>2, <2>3, StatesArePosts, PostsAreStates DEF StatesOf
  <2> QED BY <2>1, <2>2, <2>4, UpsertedRow DEF NewestKept
<1>3. CASE ~(e.kind = "state" /\ e.subject = s)
  <2>1. StatesOf(s)' = StatesOf(s) /\ latest'[s] = latest[s]
    BY <1>1, <1>3 DEF StatesOf, Persist
  <2> QED BY <2>1 DEF NewestKept
<1> QED BY <1>2, <1>3

LEMMA NewestNext ==
    ASSUME TypeOK, NewestKept, [Next]_vars
    PROVE  NewestKept'
<1>1. CASE UNCHANGED <<messages, latest>>
  BY <1>1 DEF NewestKept, StatesOf, Subjects
<1>2. ASSUME NEW f \in Frames, Send(f) \/ \E h \in Agents : Hear(f, h)
      PROVE  UNCHANGED <<messages, latest>>
  BY <1>2 DEF Send, Hear, tables
<1>3. Tick \/ UNCHANGED vars \/ (\E t \in Tables : Compact(t)) => UNCHANGED <<messages, latest>>
  BY DEF Tick, Compact, vars, tables
<1>4. ASSUME NEW e \in Envelopes, Ingest(e)
      PROVE  NewestKept'
  BY <1>1, <1>4, PersistNewest DEF Ingest, Refuse, AnswerDuplicate, AnswerHeardAgain, tables
<1>5. CASE Rebuild
  <2>1. UNCHANGED messages
    BY <1>5 DEF Rebuild
  <2> QED BY <1>5, <2>1, RebuildNewest DEF NewestKept, StatesOf, Subjects
<1> QED BY <1>1, <1>2, <1>3, <1>4, <1>5 DEF Next

(* Whatever order states arrive in, and whenever the table is rebuilt, a   *)
(* subject's row is the newest state kept, where the order is one.         *)
THEOREM LatestStateIsNewest == Spec => []LatestIsNewest
<1>1. Init => NewestKept
  BY DEF Init, NewestKept, StatesOf, RowOf
<1>2. TypeOK /\ NewestKept /\ [Next]_vars => NewestKept'
  BY NewestNext
<1>3. TypeOK /\ NewestKept => LatestIsNewest
  BY OrderedIsTold DEF NewestKept, LatestIsNewest, RowOf
<1> QED BY <1>1, <1>2, <1>3, TypeCorrect, PTL DEF Spec

LEMMA OneRow ==
    ASSUME NEW R, AreStates(R), Told(R), NEW p, NEW q, RowOf(p, R), RowOf(q, R)
    PROVE  p = q
<1>1. CASE R = {}
  BY <1>1 DEF RowOf
<1>2. CASE R # {}
  <2>1. p \in R /\ q \in R
    BY <1>2 DEF RowOf
  <2>2. p = q \/ (Newer(p, q) /\ Newer(q, p))
    BY <1>2, <2>1 DEF RowOf
  <2> QED BY <2>1, <2>2 DEF Newer, AreStates
<1> QED BY <1>1, <1>2

Redone == \A s \in Subjects : Ordered(StatesOf(s)) => latest'[s] = latest[s]

(* RebuildLatestState gives each subject the state it had, where the order *)
(* of its states is one.  (Where it is not, or a state has no time, it may *)
(* not: the run rebuild.)                                                  *)
THEOREM RebuildChangesNothing == Spec => [][Rebuild => Redone]_vars
<1>1. TypeOK /\ NewestKept /\ [Next]_vars => [Rebuild => Redone]_vars
  <2> SUFFICES ASSUME TypeOK, NewestKept, Rebuild, NEW s \in Subjects, Ordered(StatesOf(s))
               PROVE  latest'[s] = latest[s]
    BY DEF Redone
  <2>1. Told(StatesOf(s))
    BY OrderedIsTold
  <2>2. RowOf(latest'[s], StatesOf(s)) /\ RowOf(latest[s], StatesOf(s))
    BY <2>1, RebuildNewest DEF NewestKept
  <2>3. AreStates(StatesOf(s))
    BY StatesArePosts, PostsAreStates DEF StatesOf
  <2> QED BY <2>1, <2>2, <2>3, OneRow
<1>2. Init => NewestKept
  BY DEF Init, NewestKept, StatesOf, RowOf
<1>3. TypeOK /\ NewestKept /\ [Next]_vars => NewestKept'
  BY NewestNext
<1> QED BY <1>1, <1>2, <1>3, TypeCorrect, PTL DEF Spec

-----------------------------------------------------------------------------
(* AnsweredIsApplied.  A message id is drawn anew for every envelope       *)
(* (newMessageID of pkg/sdk/client.go), so envelopes of one id are one.    *)
(* Where they are not, Ingest answers the second and applies nothing of it.*)

IdsAreUnique == \A e, d \in Posts : e.id = d.id => e = d

(* What stands for a missing row is not a state, dated or not. *)
NoRowIsNone == \A e \in Posts, t \in Nat : e.kind = "state" => [e EXCEPT !.at = t] # NoRow

(* The lookups find what was kept, and what was kept can be found. *)
Findable ==
    /\ \A m \in messages : Named(m) => \E r \in ledger : r.event = m.event /\ r.msg = m.id
    /\ \A r \in ledger : \E m \in messages : Named(m) /\ m.event = r.event /\ m.id = r.msg
    /\ \A o \in observed : \E m \in messages : Keyed(m) /\ m.key = o.key /\ m.id = o.first

(* Every row that a kept message wrote is there or was swept. *)
RowsKept ==
    \A m \in messages :
        /\ m.kind = "file_chunk" => ChunkOf(m) \in swept \cup {KeyOfChunk(c) : c \in chunks}
        /\ Reported(m) => ReportOf(m) \in swept \cup {r.key : r \in reports}

(* No row of latest_state is earlier than a state kept. *)
NoneLater ==
    /\ \A s \in Subjects : latest[s] = NoRow \/ latest[s].at \in Nat
    /\ \A m \in messages :
          m.kind = "state" => latest[m.subject] # NoRow /\ latest[m.subject].at >= m.at

(* What was answered is kept, or is one more copy of an event kept. *)
AnswersKept ==
    \A a \in answered :
        \/ a[1] \in messages
        \/ a[1].kind = "event" /\ \E m \in messages : m.kind = "event" /\ SameEvent(a[1], m)

LEMMA FindableNext ==
    ASSUME Findable, [Next]_vars
    PROVE  Findable'
<1>0. CASE UNCHANGED <<messages, ledger, observed>>
  BY <1>0 DEF Findable
<1>1. ASSUME NEW e \in Envelopes, Persist(e)
      PROVE  Findable'
  <2>1. /\ messages' = messages \cup {e}
        /\ ledger' = ledger \cup When(Named(e), [event |-> e.event, msg |-> e.id, at |-> now])
        /\ observed' = (observed \ Observations(e))
              \cup When(Keyed(e), [key |-> e.key, first |-> e.id, seen |-> now])
    BY <1>1 DEF Persist, Keep
  <2>2. \A m \in messages' : Named(m) => \E r \in ledger' : r.event = m.event /\ r.msg = m.id
    <3>1. ASSUME Named(e)
          PROVE  \E r \in ledger' : r.event = e.event /\ r.msg = e.id
      <4>1. [event |-> e.event, msg |-> e.id, at |-> now] \in ledger'
        BY <2>1, <3>1 DEF When
      <4> QED BY <4>1
    <3> QED BY <2>1, <3>1 DEF Findable
  <2>3. \A r \in ledger' : \E m \in messages' : Named(m) /\ m.event = r.event /\ m.id = r.msg
    BY <2>1 DEF Findable, When
  <2>4. \A o \in observed' : \E m \in messages' : Keyed(m) /\ m.key = o.key /\ m.id = o.first
    BY <2>1 DEF Findable, When
  <2> QED BY <2>2, <2>3, <2>4 DEF Findable
<1>2. ASSUME NEW e \in Envelopes, AnswerHeardAgain(e)
      PROVE  Findable'
  <2>1. PICK o \in Observations(e) :
          observed' = (observed \ {o}) \cup {[key |-> o.key, first |-> o.first, seen |-> now]}
    BY <1>2 DEF AnswerHeardAgain
  <2>2. o \in observed /\ UNCHANGED <<messages, ledger>>
    BY <1>2 DEF AnswerHeardAgain, Observations
  <2> QED BY <2>1, <2>2 DEF Findable
<1>3. ASSUME NEW t \in Tables, Compact(t)
      PROVE  Findable'
  <2>1. observed' \subseteq observed /\ UNCHANGED <<messages, ledger>>
    BY <1>3 DEF Compact
  <2> QED BY <2>1 DEF Findable
<1>4. ASSUME NEW f \in Frames, Send(f) \/ \E h \in Agents : Hear(f, h)
      PROVE  UNCHANGED <<messages, ledger, observed>>
  BY <1>4 DEF Send, Hear, tables
<1>5. Tick \/ Rebuild \/ UNCHANGED vars => UNCHANGED <<messages, ledger, observed>>
  BY DEF Tick, Rebuild, vars, tables
<1> QED BY <1>0, <1>1, <1>2, <1>3, <1>4, <1>5 DEF Next, Ingest, Refuse, AnswerDuplicate, tables

LEMMA RowsNext ==
    ASSUME RowsKept, [Next]_vars
    PROVE  RowsKept'
<1> DEFINE Places == swept \cup {KeyOfChunk(c) : c \in chunks}
           Reports == swept \cup {r.key : r \in reports}
<1>0. ASSUME messages' \subseteq messages, Places \subseteq Places', Reports \subseteq Reports'
      PROVE  RowsKept'
  BY <1>0, Zenon DEF RowsKept
<1>1. ASSUME NEW e \in Envelopes, Persist(e)
      PROVE  RowsKept'
  <2> DEFINE row == [file |-> FileOf(e), index |-> e.index, total |-> e.total,
                     msg |-> e.id, at |-> now]
             report == [key |-> ReportOf(e), msg |-> e.id, at |-> now]
  <2>1. /\ messages' = messages \cup {e} /\ swept' = swept
        /\ reports' = {r \in reports : r.key # ReportOf(e)} \cup When(Reported(e), report)
        /\ chunks' = {c \in chunks : KeyOfChunk(c) # ChunkOf(e)} \cup When(e.kind = "file_chunk", row)
    BY <1>1 DEF Persist, Keep
  <2>2. e.kind = "file_chunk" => row \in chunks' /\ KeyOfChunk(row) = ChunkOf(e)
    BY <2>1 DEF When, KeyOfChunk, ChunkOf
  <2>3. Reported(e) => report \in reports' /\ report.key = ReportOf(e)
    BY <2>1 DEF When
  <2> HIDE DEF row, report
  <2>4. ASSUME NEW m \in messages', m.kind = "file_chunk"
        PROVE  ChunkOf(m) \in Places'
    <3>1. CASE ChunkOf(m) = ChunkOf(e)
      <4>1. e.kind = "file_chunk"
        BY <2>4, <3>1 DEF ChunkOf
      <4> QED BY <2>2, <3>1, <4>1
    <3>2. CASE ChunkOf(m) # ChunkOf(e)
      <4>1. ChunkOf(m) \in Places
        BY <2>1, <2>4, <3>2 DEF RowsKept
      <4>2. CASE ChunkOf(m) \in swept
        BY <2>1, <4>2
      <4>3. ASSUME NEW c \in chunks, ChunkOf(m) = KeyOfChunk(c)
            PROVE  ChunkOf(m) \in Places'
        <5>1. c \in chunks'
          BY <2>1, <3>2, <4>3
        <5> QED BY <4>3, <5>1 DEF KeyOfChunk
      <4> QED BY <4>1, <4>2, <4>3
    <3> QED BY <3>1, <3>2
  <2>5. ASSUME NEW m \in messages', Reported(m)
        PROVE  ReportOf(m) \in Reports'
    <3>1. CASE ReportOf(m) = ReportOf(e)
      <4>1. Reported(e)
        BY <2>5, <3>1 DEF ReportOf, Reported
      <4> QED BY <2>3, <3>1, <4>1
    <3>2. CASE ReportOf(m) # ReportOf(e)
      <4>1. ReportOf(m) \in Reports
        BY <2>1, <2>5, <3>2 DEF RowsKept
      <4>2. ASSUME NEW r \in reports, ReportOf(m) = r.key
            PROVE  r \in reports'
        BY <2>1, <3>2, <4>2
      <4> QED BY <2>1, <4>1, <4>2
    <3> QED BY <3>1, <3>2
  <2>6. ASSUME NEW m \in messages'
        PROVE  /\ m.kind = "file_chunk" => ChunkOf(m) \in Places'
               /\ Reported(m) => ReportOf(m) \in Reports'
    BY <2>4, <2>5
  <2> QED BY <2>6, Zenon DEF RowsKept
<1>2. ASSUME NEW t \in Tables, Compact(t)
      PROVE  RowsKept'
  <2> DEFINE gone == {r \in reports : r.key[1] = t /\ now - r.at >= Retention[t]}
             files == {c \in chunks : t = "file_chunk" /\ now - c.at >= Retention[t]}
  <2>1. /\ reports' = reports \ gone /\ chunks' = chunks \ files /\ messages' = messages
        /\ swept' = swept \cup {r.key : r \in gone} \cup {KeyOfChunk(c) : c \in files}
    BY <1>2 DEF Compact
  <2> HIDE DEF gone, files
  <2>2. Places \subseteq Places' /\ Reports \subseteq Reports'
    BY <2>1 DEF KeyOfChunk
  <2> QED BY <1>0, <2>1, <2>2
<1>3. CASE UNCHANGED <<messages, chunks, reports, swept>>
  BY <1>0, <1>3 DEF KeyOfChunk
<1>4. ASSUME NEW f \in Frames, Send(f) \/ \E h \in Agents : Hear(f, h)
      PROVE  UNCHANGED <<messages, chunks, reports, swept>>
  BY <1>4 DEF Send, Hear, tables
<1>5. Tick \/ Rebuild \/ UNCHANGED vars => UNCHANGED <<messages, chunks, reports, swept>>
  BY DEF Tick, Rebuild, vars, tables
<1> QED BY <1>1, <1>2, <1>3, <1>4, <1>5
       DEF Next, Ingest, Refuse, AnswerDuplicate, AnswerHeardAgain, tables

(* Retention takes no summary. *)
SummariesStay == \A k \in swept : k[1] # "fabric_summary"

LEMMA SummariesNext ==
    ASSUME SummariesStay, [Next]_vars
    PROVE  SummariesStay'
<1>1. CASE UNCHANGED swept
  BY <1>1 DEF SummariesStay
<1>2. ASSUME NEW t \in Tables, Compact(t)
      PROVE  SummariesStay'
  <2> SUFFICES ASSUME NEW k \in swept'
               PROVE  k[1] # "fabric_summary"
    BY DEF SummariesStay
  <2>1. \/ k \in swept
        \/ \E r \in reports : k = r.key /\ r.key[1] = t
        \/ \E c \in chunks : k = KeyOfChunk(c)
    BY <1>2 DEF Compact
  <2> QED BY <2>1 DEF SummariesStay, Tables, KeyOfChunk
<1>3. ASSUME NEW f \in Frames, Send(f) \/ \E h \in Agents : Hear(f, h)
      PROVE  UNCHANGED swept
  BY <1>3 DEF Send, Hear
<1>4. ASSUME NEW e \in Envelopes, Ingest(e)
      PROVE  UNCHANGED swept
  BY <1>4 DEF Ingest, Refuse, AnswerDuplicate, AnswerHeardAgain, Persist
<1>5. Tick \/ Rebuild \/ UNCHANGED vars => UNCHANGED swept
  BY DEF Tick, Rebuild, vars
<1> QED BY <1>1, <1>2, <1>3, <1>4, <1>5 DEF Next

LEMMA RebuildCovers ==
    ASSUME NoRowIsNone, TypeOK, Rebuild
    PROVE  NoneLater'
<1> DEFINE D == {Dated(readings[i]) : i \in DOMAIN readings}
           R(s) == {x \in D : x.subject = s}
           M == [env : Envelopes, at : Nat]
<1>1. ASSUME NEW i \in DOMAIN readings
      PROVE  LET d == Dated(readings[i])
             IN  /\ d.at \in Nat /\ d.seq \in Int /\ d.rank \in Int /\ d # NoRow
                 /\ d.subject = readings[i].env.subject /\ d.at >= readings[i].env.at
  <2>1. /\ readings[i] \in [env : Posts, at : Nat] /\ readings[i].env.kind = "state"
        /\ readings[i].env \in Posts /\ readings[i].at \in Nat
    BY Readings
  <2>2. Dated(readings[i]) # NoRow
    BY <2>1, SiteLedgerAssumption DEF NoRowIsNone, Dated
  <2>3. readings[i].env.seq \in Int /\ readings[i].env.rank \in Int
    BY <2>1, SiteLedgerAssumption
  <2> QED BY <2>1, <2>2, <2>3, DatedKeeps
<1>2. ASSUME NEW s
      PROVE  RowOf(Rebuilt(readings, s), R(s))
  <2>1. AreStates(R(s))
    BY <1>1 DEF AreStates
  <2>2. readings \in Seq(M)
    BY Readings
  <2> HIDE DEF M
  <2> QED BY <2>1, <2>2, RebuiltIsNewest
<1>3. messages' = messages /\ Subjects' = Subjects /\ latest' = [s \in Subjects |-> Rebuilt(readings, s)]
  BY DEF Rebuild, Subjects
<1>4. ASSUME NEW s \in Subjects
      PROVE  latest'[s] = NoRow \/ latest'[s].at \in Nat
  <2>1. RowOf(latest'[s], R(s))
    BY <1>2, <1>3
  <2>2. \A x \in R(s) : x.at \in Nat
    BY <1>1
  <2> HIDE DEF R
  <2> QED BY <2>1, <2>2 DEF RowOf
<1>5. ASSUME NEW m \in messages, m.kind = "state"
      PROVE  latest'[m.subject] # NoRow /\ latest'[m.subject].at >= m.at
  <2>1. PICK i \in DOMAIN readings : readings[i].env = m
    BY <1>5, Readings
  <2> DEFINE d == Dated(readings[i])
  <2>2. d \in R(m.subject) /\ d.at >= m.at /\ d.at \in Nat
    BY <1>1, <2>1
  <2>3. m.at \in Nat /\ m.subject \in Subjects
    BY <1>5, StatesArePosts, SiteLedgerAssumption
  <2>4. RowOf(latest'[m.subject], R(m.subject))
    BY <1>2, <1>3, <2>3
  <2>5. \A x \in R(m.subject) : x # NoRow /\ x.at \in Nat
    BY <1>1
  <2> HIDE DEF R, d
  <2>6. latest'[m.subject] \in R(m.subject) /\ latest'[m.subject].at >= d.at
    BY <2>2, <2>4 DEF RowOf
  <2> QED BY <2>2, <2>3, <2>5, <2>6
<1> QED BY <1>3, <1>4, <1>5 DEF NoneLater

LEMMA PersistCovers ==
    ASSUME TypeOK, NoneLater, NEW e \in Envelopes, Persist(e)
    PROVE  NoneLater'
<1>1. messages' = messages \cup {e}
  BY DEF Persist, Keep
<1>2. \A s \in Subjects : latest'[s] = IF e.kind = "state" /\ e.subject = s
                                     THEN Upserted(latest[s], e) ELSE latest[s]
  BY DEF Persist
<1>3. e.kind = "state" => e \in Posts /\ e.subject \in Subjects /\ e.at \in Nat /\ e # NoRow
  BY SiteLedgerAssumption DEF Envelopes, Copies, Copy, Subjects
<1>4. ASSUME NEW s \in Subjects, e.kind = "state", e.subject = s
      PROVE  /\ latest'[s] # NoRow /\ latest'[s].at \in Nat /\ latest'[s].at >= e.at
             /\ latest[s] # NoRow => latest'[s].at >= latest[s].at
  <2>1. CASE latest[s] = NoRow \/ Newer(e, latest[s])
    <3>1. latest'[s] = e
      BY <1>2, <1>4, <2>1 DEF Upserted
    <3>2. latest[s] # NoRow => e.at >= latest[s].at
      BY <1>3, <1>4, <2>1 DEF Newer, NoneLater
    <3> QED BY <1>3, <1>4, <3>1, <3>2
  <2>2. CASE latest[s] # NoRow /\ ~Newer(e, latest[s])
    <3>1. latest'[s] = latest[s]
      BY <1>2, <1>4, <2>2 DEF Upserted
    <3> QED BY <1>3, <1>4, <2>2, <3>1 DEF Newer, NoneLater
  <2> QED BY <2>1, <2>2
<1>5. \A s \in Subjects : latest'[s] = NoRow \/ latest'[s].at \in Nat
  BY <1>2, <1>4 DEF NoneLater
<1>6. ASSUME NEW m \in messages', m.kind = "state"
      PROVE  latest'[m.subject] # NoRow /\ latest'[m.subject].at >= m.at
  <2>1. CASE m = e
    BY <1>3, <1>4, <1>6, <2>1
  <2>2. CASE m \in messages
    <3>1. m \in Posts /\ m.subject \in Subjects /\ m.at \in Nat
      BY <1>6, <2>2, StatesArePosts, SiteLedgerAssumption
    <3>2. latest[m.subject] # NoRow /\ latest[m.subject].at >= m.at /\ latest[m.subject].at \in Nat
      BY <1>6, <2>2, <3>1 DEF NoneLater
    <3>3. CASE e.kind = "state" /\ e.subject = m.subject
      BY <1>4, <3>1, <3>2, <3>3
    <3>4. CASE ~(e.kind = "state" /\ e.subject = m.subject)
      BY <1>2, <3>1, <3>2, <3>4
    <3> QED BY <3>3, <3>4
  <2> QED BY <1>1, <2>1, <2>2
<1>7. Subjects' = Subjects
  BY DEF Subjects
<1> QED BY <1>5, <1>6, <1>7 DEF NoneLater

LEMMA NoneLaterNext ==
    ASSUME NoRowIsNone, TypeOK, NoneLater, [Next]_vars
    PROVE  NoneLater'
<1>1. CASE UNCHANGED <<messages, latest>>
  BY <1>1 DEF NoneLater, Subjects
<1>2. ASSUME NEW f \in Frames, Send(f) \/ \E h \in Agents : Hear(f, h)
      PROVE  UNCHANGED <<messages, latest>>
  BY <1>2 DEF Send, Hear, tables
<1>3. Tick \/ UNCHANGED vars \/ (\E t \in Tables : Compact(t)) => UNCHANGED <<messages, latest>>
  BY DEF Tick, Compact, vars, tables
<1>4. ASSUME NEW e \in Envelopes, Ingest(e)
      PROVE  NoneLater'
  BY <1>1, <1>4, PersistCovers DEF Ingest, Refuse, AnswerDuplicate, AnswerHeardAgain, tables
<1> QED BY <1>1, <1>2, <1>3, <1>4, RebuildCovers DEF Next

(* A message id that is kept is that of the envelope itself. *)
LEMMA OneEnvelopePerId ==
    ASSUME IdsAreUnique, NEW e \in Envelopes, NEW d \in Envelopes, e.id = d.id
    PROVE  e = d
<1>1. ASSUME NEW c \in Copies
      PROVE  \E f \in Frames, h \in Agents : c = Copy(f, h) /\ c.id = <<f, h>>
  BY DEF Copies, Copy
<1>2. \A c \in Copies : c.id \in Frames \X Agents
  BY <1>1
<1>3. \A p \in Posts : p.id \notin Frames \X Agents
  BY SiteLedgerAssumption
<1>4. CASE e \in Posts \/ d \in Posts
  BY <1>2, <1>3, <1>4 DEF Envelopes, IdsAreUnique
<1>5. CASE e \in Copies /\ d \in Copies
  <2>1. PICK f \in Frames, h \in Agents : e = Copy(f, h) /\ e.id = <<f, h>>
    BY <1>1, <1>5
  <2>2. PICK g \in Frames, k \in Agents : d = Copy(g, k) /\ d.id = <<g, k>>
    BY <1>1, <1>5
  <2>3. f = g /\ h = k
    BY <2>1, <2>2
  <2> QED BY <2>1, <2>2, <2>3
<1> QED BY <1>4, <1>5 DEF Envelopes

LEMMA AnswersNext ==
    ASSUME IdsAreUnique, TypeOK, Findable, AnswersKept, [Next]_vars
    PROVE  AnswersKept'
<1>0. ASSUME messages \subseteq messages', NEW a, a \in answered
      PROVE  \/ a[1] \in messages'
             \/ a[1].kind = "event" /\ \E m \in messages' : m.kind = "event" /\ SameEvent(a[1], m)
  BY <1>0 DEF AnswersKept
<1>1. ASSUME NEW e \in Envelopes, AnswerDuplicate(e)
      PROVE  AnswersKept'
  <2>1. PICK id \in Duplicate(e) : answered' = answered \cup {<<e, id>>}
    BY <1>1 DEF AnswerDuplicate, Answer
  <2>2. messages' = messages
    BY <1>1 DEF AnswerDuplicate, tables
  <2>3. CASE \E r \in ledger : Named(e) /\ r.event = e.event
    <3>1. PICK r \in ledger : Named(e) /\ r.event = e.event
      BY <2>3
    <3>2. PICK m \in messages : Named(m) /\ m.event = r.event
      BY DEF Findable
    <3>3. e.kind = "event" /\ m.kind = "event" /\ SameEvent(e, m)
      BY <3>1, <3>2 DEF SameEvent, Named
    <3> QED BY <1>0, <2>1, <2>2, <3>3 DEF AnswersKept
  <2>4. CASE ~\E r \in ledger : Named(e) /\ r.event = e.event
    <3>1. id \in Ids \cap {e.id}
      BY <2>1, <2>4 DEF Duplicate
    <3>2. PICK m \in messages : m.id = e.id
      BY <3>1 DEF Ids
    <3>3. m \in Envelopes
      BY <3>2 DEF TypeOK
    <3>4. m = e
      BY <3>2, <3>3, OneEnvelopePerId
    <3> QED BY <1>0, <2>1, <2>2, <3>2, <3>4 DEF AnswersKept
  <2> QED BY <2>3, <2>4
<1>2. ASSUME NEW e \in Envelopes, AnswerHeardAgain(e)
      PROVE  AnswersKept'
  <2>1. PICK o \in Observations(e) : answered' = answered \cup {<<e, o.first>>}
    BY <1>2 DEF AnswerHeardAgain, Answer
  <2>2. messages' = messages
    BY <1>2 DEF AnswerHeardAgain
  <2>3. PICK m \in messages : Keyed(m) /\ m.key = o.key
    BY <2>1 DEF Findable, Observations
  <2>4. e.kind = "event" /\ m.kind = "event" /\ SameEvent(e, m)
    BY <2>1, <2>3 DEF SameEvent, Keyed, Observations
  <2> QED BY <1>0, <2>1, <2>2, <2>4 DEF AnswersKept
<1>3. ASSUME NEW e \in Envelopes, Persist(e)
      PROVE  AnswersKept'
  <2>1. messages' = messages \cup {e} /\ answered' = answered \cup {<<e, e.id>>}
    BY <1>3 DEF Persist, Keep, Answer
  <2> QED BY <1>0, <2>1 DEF AnswersKept
<1>4. CASE UNCHANGED <<messages, answered>>
  BY <1>0, <1>4 DEF AnswersKept
<1>5. ASSUME NEW f \in Frames, Send(f) \/ \E h \in Agents : Hear(f, h)
      PROVE  UNCHANGED <<messages, answered>>
  BY <1>5 DEF Send, Hear, tables
<1>6. Tick \/ Rebuild \/ UNCHANGED vars \/ (\E t \in Tables : Compact(t))
        => UNCHANGED <<messages, answered>>
  BY DEF Tick, Rebuild, Compact, vars, tables
<1> QED BY <1>1, <1>2, <1>3, <1>4, <1>5, <1>6 DEF Next, Ingest, Refuse, tables

LEMMA KeptIsApplied ==
    ASSUME TypeOK, Findable, RowsKept, SummariesStay, NoneLater, NEW e \in messages
    PROVE  Applied(e)
<1>1. e.id \in Ids
  BY DEF Ids
<1>2. SameEvent(e, e)
  BY DEF SameEvent
<1>3. Named(e) => \E r \in ledger : r.event = e.event /\ r.msg = e.id
  BY DEF Findable
<1>4. e.kind = "state" => latest[e.subject] # NoRow /\ latest[e.subject].at >= e.at
  BY DEF NoneLater
<1>5. /\ e.kind = "file_chunk" => ChunkOf(e) \in swept \cup {KeyOfChunk(c) : c \in chunks}
      /\ Reported(e) => ReportOf(e) \in swept \cup {r.key : r \in reports}
  BY Zenon DEF RowsKept
<1>6. Reported(e) /\ ReportOf(e) \in swept => e.kind = "heartbeat"
  BY DEF SummariesStay, Reported, ReportOf
<1> QED BY <1>1, <1>2, <1>3, <1>4, <1>5, <1>6, Zenon DEF Applied

LEMMA AnswersAreApplied ==
    ASSUME TypeOK, Findable, RowsKept, SummariesStay, NoneLater, AnswersKept
    PROVE  AnsweredIsApplied
<1> SUFFICES ASSUME NEW a \in answered
             PROVE  Applied(a[1]) /\ a[2] \in Ids
  BY DEF AnsweredIsApplied
<1>1. a[2] \in Ids
  BY DEF TypeOK
<1>2. CASE a[1] \in messages
  BY <1>1, <1>2, KeptIsApplied
<1>3. ASSUME NEW m \in messages, a[1].kind = "event", m.kind = "event", SameEvent(a[1], m)
      PROVE  Applied(a[1])
  <2>1. Named(m) => \E r \in ledger : r.event = m.event /\ r.msg = m.id
    BY DEF Findable
  <2>2. a[1].kind \notin {"state", "file_chunk"} /\ ~Reported(a[1])
    BY <1>3 DEF Reported
  <2> QED BY <1>3, <2>1, <2>2 DEF Applied
<1> QED BY <1>1, <1>2, <1>3 DEF AnswersKept

(* What Ingest has answered is applied and stays so: an answer lets the    *)
(* agent drop the envelope from its spool, so nothing else would bring it  *)
(* back.                                                                   *)
THEOREM AnswersAreKept ==
    ASSUME IdsAreUnique, NoRowIsNone
    PROVE  Spec => []AnsweredIsApplied
<1> DEFINE Inv == Findable /\ RowsKept /\ SummariesStay /\ NoneLater /\ AnswersKept
<1>1. Init => Inv
  BY DEF Init, Findable, RowsKept, SummariesStay, NoneLater, AnswersKept
<1>2. TypeOK /\ Inv /\ [Next]_vars => Inv'
  BY FindableNext, RowsNext, SummariesNext, NoneLaterNext, AnswersNext
<1>3. TypeOK /\ Inv => AnsweredIsApplied
  BY AnswersAreApplied
<1> HIDE DEF Inv
<1> QED BY <1>1, <1>2, <1>3, TypeCorrect, PTL DEF Spec
=============================================================================
