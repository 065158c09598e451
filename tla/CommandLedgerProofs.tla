------------------------ MODULE CommandLedgerProofs -------------------------
(* Theorems about commands, for every set of commands, clients and nodes,  *)
(* any numbers of tokens and any size of the nodes' memory.                *)
EXTENDS CommandLedger, SequenceFacts, SequenceTheorems, TLAPS

-----------------------------------------------------------------------------
(* The ledger.                                                             *)

(* A token resolves to a row that holds it, and to none only if none does. *)
LEMMA Resolves ==
    ASSUME rows \in Seq(Commands), NEW n, NEW t
    PROVE  IF Holders(n, t) = {} THEN Newest(n, t) = None ELSE Newest(n, t) \in Holders(n, t)
<1>1. CASE Holders(n, t) = {}
  BY <1>1 DEF Newest
<1>2. CASE Holders(n, t) # {}
  <2> DEFINE S == {j \in DOMAIN rows : rows[j] \in Holders(n, t)}
             IsLast(j) == /\ rows[j] \in Holders(n, t)
                          /\ \A i \in DOMAIN rows : i > j => rows[i] \notin Holders(n, t)
  <2>1. S \subseteq 1 .. Len(rows) /\ S # {} /\ Len(rows) \in Nat
    BY <1>2 DEF Holders, Recorded, ToSet
  <2>2. PICK m \in S : \A k \in S : k <= m
    BY <2>1, LastOf
  <2>3. m \in DOMAIN rows /\ IsLast(m)
    BY <2>1, <2>2
  <2> HIDE DEF IsLast
  <2>4. IsLast(CHOOSE j \in DOMAIN rows : IsLast(j))
    BY <2>3
  <2> USE DEF IsLast
  <2> QED BY <1>2, <2>4 DEF Newest
<1> QED BY <1>1, <1>2

(* A new element leaves the others as they are. *)
LEMMA InsertedNew ==
    ASSUME NEW S, NEW s \in Seq(S), NEW e \in S, NEW j \in 1 .. Len(s) + 1,
           NEW t, t = InsertAt(s, j, e), IsInjective(s), e \notin ToSet(s)
    PROVE  t \in Seq(S) /\ IsInjective(t) /\ ToSet(t) = ToSet(s) \cup {e}
<1>1. /\ t \in Seq(S) /\ Len(t) = Len(s) + 1 /\ Len(s) \in Nat
      /\ j \in 1 .. Len(s) + 1
      /\ DOMAIN s = 1 .. Len(s) /\ DOMAIN t = 1 .. Len(s) + 1
  <2>1. t \in Seq(S) /\ Len(t) = Len(s) + 1
    BY Inserted
  <2> QED BY <2>1
<1>2. Between(s, t, e, j)
  BY Inserted
<1> USE DEF Between
<1>3. \A i \in 1 .. Len(s) : s[i] # e
  BY <1>1 DEF ToSet
<1>4. \A i, k \in 1 .. Len(s) : s[i] = s[k] => i = k
  BY <1>1 DEF IsInjective
<1>5. ASSUME NEW x \in 1 .. Len(s) + 1, NEW y \in 1 .. Len(s) + 1, t[x] = t[y]
      PROVE  x = y
  <2>1. CASE x < j
    BY <2>1, <1>1, <1>2, <1>3, <1>4, <1>5
  <2>2. CASE x = j
    BY <2>2, <1>1, <1>2, <1>3, <1>5
  <2>3. CASE x > j
    <3>1. CASE y < j
      BY <2>3, <3>1, <1>1, <1>2, <1>4, <1>5
    <3>2. CASE y = j
      BY <2>3, <3>2, <1>1, <1>2, <1>3, <1>5
    <3>3. CASE y > j
      <4>1. x - 1 = y - 1
        BY <2>3, <3>3, <1>1, <1>2, <1>4, <1>5
      <4> QED BY <4>1
    <3> QED BY <3>1, <3>2, <3>3, <1>1
  <2> QED BY <2>1, <2>2, <2>3, <1>1
<1>6. IsInjective(t)
  BY <1>1, <1>5 DEF IsInjective
<1>7. ToSet(s) = {s[i] : i \in 1 .. Len(s)} /\ ToSet(t) = {t[i] : i \in 1 .. Len(s) + 1}
  BY <1>1 DEF ToSet
<1>8. \A i \in 1 .. Len(s) + 1 : t[i] \in ToSet(s) \cup {e}
  BY <1>2, <1>7
<1>9. ASSUME NEW i \in 1 .. Len(s)
      PROVE  s[i] \in ToSet(t)
  <2>1. CASE i < j
    <3>1. i \in 1 .. Len(s) + 1 /\ ~ (i = j) /\ ~ (i > j)
      BY <2>1, <1>1
    <3>2. t[i] = s[i]
      BY <3>1, <1>2
    <3> QED BY <3>1, <3>2, <1>7
  <2>2. CASE i >= j
    <3>1. /\ i + 1 \in 1 .. Len(s) + 1 /\ ~ (i + 1 < j) /\ ~ (i + 1 = j)
          /\ (i + 1) - 1 = i
      BY <2>2, <1>1
    <3>2. t[i + 1] = s[i]
      BY <3>1, <1>2
    <3> QED BY <3>1, <3>2, <1>7
  <2> QED BY <2>1, <2>2, <1>1
<1>10. e \in ToSet(t)
  <2>1. t[j] = e
    BY <1>1, <1>2
  <2> QED BY <2>1, <1>1, <1>7
<1>11. ToSet(t) \subseteq ToSet(s) \cup {e} /\ ToSet(s) \subseteq ToSet(t)
  BY <1>7, <1>8, <1>9
<1> QED BY <1>1, <1>6, <1>10, <1>11

USE CommandLedgerAssumption

(* A step leaves the ledger alone or adds one row, of a command that had   *)
(* none; its token is its caller's, or the one its client settled on.      *)
NewRow(c, t) ==
    /\ c \in Commands \ Recorded
    /\ rows' \in Seq(Commands) /\ IsInjective(rows') /\ Recorded' = Recorded \cup {c}
    /\ token' = [token EXCEPT ![c] = t]
    /\ state' = [state EXCEPT ![c] = "issued"]

LEMMA InsertIsNew ==
    ASSUME TypeOK, NEW c \in Commands \ Recorded, NEW t, NEW j \in 1 .. Len(rows) + 1,
           Insert(c, t, j)
    PROVE  NewRow(c, t)
  BY InsertedNew DEF TypeOK, Recorded, Insert, NewRow

LEMMA IssueIsNew ==
    ASSUME TypeOK, NEW k \in Clients, IssueNew(k), client[k].cmd \in Commands
    PROVE  NewRow(client[k].cmd, client[k].token)
<1>1. /\ client[k].after \in Nat /\ Len(rows) \in Nat
      /\ client[k].cmd \in Commands \ Recorded
  BY DEF TypeOK, IssueNew
<1>2. PICK j \in client[k].after + 1 .. Len(rows) + 1 :
           Insert(client[k].cmd, client[k].token, j)
  BY DEF IssueNew
<1>3. j \in 1 .. Len(rows) + 1
  BY <1>1
<1> QED BY <1>1, <1>2, <1>3, InsertIsNew

LEMMA PostIsNew ==
    ASSUME TypeOK, NEW c \in Commands, IngestCommand(c)
    PROVE  NewRow(c, Given[c])
<1>1. c \in Commands \ Recorded /\ Len(rows) + 1 \in 1 .. Len(rows) + 1
  BY DEF TypeOK, IngestCommand
<1> QED BY <1>1, InsertIsNew DEF IngestCommand

-----------------------------------------------------------------------------
(* Type correctness.  TypeOK needs that a client at work has a command,    *)
(* and that a command of a sleeping node is queued with a token.           *)

Provided ==
    /\ queued \subseteq Recorded
    /\ \A k \in Clients : client[k].pc # "idle" =>
          /\ client[k].cmd \in Commands
          /\ client[k].cmd \in Sleepy => client[k].token \in Tokens
    /\ \A c \in queued \cap Sleepy : token[c] \in Tokens

ClientType == [pc : {"idle", "probe", "issue"}, cmd : Commands \cup {None},
               token : 0 .. MaxToken, tries : 0 .. MaxToken - 1, after : Nat,
               seen : SUBSET Commands]

RowTypes ==
    /\ rows \in Seq(Commands) /\ IsInjective(rows)
    /\ token \in [Commands -> 0 .. MaxToken]
    /\ state \in [Commands -> Phase \cup {"none", "issued"}]
    /\ queued \subseteq Commands

ClientTypes ==
    /\ client \in [Clients -> ClientType]
    /\ asks \in 0 .. MaxAsks /\ answered \subseteq Commands
    /\ known \in [Commands -> SUBSET Commands]

FieldTypes ==
    /\ log \in [Nodes -> Seq(Tokens)]
    /\ progress \in [Commands -> Phase \cup {"none"}]
    /\ air \subseteq [node : Nodes, token : Tokens, phase : Phase]
    /\ done \subseteq Commands \X Phase
    /\ forgot \subseteq Nodes
    /\ inbox \subseteq [id : Commands, phase : Phase]

LEMMA TypeParts == TypeOK <=> RowTypes /\ ClientTypes /\ FieldTypes
  BY DEF TypeOK, RowTypes, ClientTypes, FieldTypes, ClientType

LEMMA TypeInit == Init => TypeOK /\ Provided
  BY DEF Init, TypeOK, Provided, Idle, IsInjective

LEMMA RecordedCommands == TypeOK => Recorded \subseteq Commands
  BY DEF TypeOK, Recorded, ToSet

LEMMA OfferType ==
    ASSUME TypeOK, NEW k \in Clients, NEW c \in Commands, NEW t \in 0 .. MaxToken,
           NEW seen \in SUBSET Commands, Offer(k, c, t, seen)
    PROVE  /\ client' \in [Clients -> ClientType]
           /\ client'[k].pc = "issue" /\ client'[k].cmd = c /\ client'[k].token = t
           /\ client'[k].seen = seen
           /\ \A l \in Clients \ {k} : client'[l] = client[l]
<1>1. Len(rows) \in Nat /\ 0 \in 0 .. MaxToken - 1
  BY DEF TypeOK
<1> DEFINE r == [pc |-> "issue", cmd |-> c, token |-> t, tries |-> 0, after |-> Len(rows),
                 seen |-> seen]
<1>2. r \in ClientType
  BY <1>1 DEF ClientType
<1>3. client' = [client EXCEPT ![k] = r] /\ client \in [Clients -> ClientType]
  BY DEF Offer, TypeOK, ClientType
<1> QED BY <1>2, <1>3

LEMMA IdleType == Idle \in ClientType /\ Idle.pc = "idle"
  BY DEF Idle, ClientType

(* What the clients' steps make of client. *)
LEMMA TypeAsk ==
    ASSUME TypeOK, Provided, NEW k \in Clients, NEW c \in Commands, Ask(k, c)
    PROVE  TypeOK' /\ Provided'
<1>1. asks' \in 0 .. MaxAsks
  BY DEF Ask, TypeOK
<1>2. /\ client' \in [Clients -> ClientType] /\ client'[k].cmd = c
      /\ c \in Sleepy => client'[k].token \in Tokens
      /\ \A l \in Clients \ {k} : client'[l] = client[l]
  <2>1. CASE c \in Sleepy /\ Given[c] = 0
    <3> DEFINE r == [pc |-> "probe", cmd |-> c, token |-> Hash[c], tries |-> 0, after |-> 0,
                     seen |-> Recorded]
    <3>1. r \in ClientType /\ r.cmd = c /\ r.token \in Tokens
      <4>1. /\ Recorded \in SUBSET Commands /\ 0 \in 0 .. MaxToken - 1
            /\ Hash[c] \in 0 .. MaxToken /\ Hash[c] \in Tokens
        BY RecordedCommands DEF Tokens
      <4> QED BY <4>1 DEF ClientType
    <3>2. client' = [client EXCEPT ![k] = r] /\ client \in [Clients -> ClientType]
      BY <2>1 DEF Ask, TypeOK, ClientType
    <3> HIDE DEF r
    <3> QED BY <3>1, <3>2
  <2>2. CASE ~(c \in Sleepy /\ Given[c] = 0)
    <3>1. Offer(k, c, Given[c], {}) /\ Given[c] \in 0 .. MaxToken
      BY <2>2 DEF Ask
    <3> QED BY <2>2, <3>1, OfferType DEF Tokens
  <2> QED BY <2>1, <2>2
<1>3. ClientTypes'
  BY <1>1, <1>2 DEF Ask, TypeOK, ClientTypes
<1>4. RowTypes' /\ FieldTypes'
  BY TypeParts DEF Ask, ledger, field, RowTypes, FieldTypes
<1>5. Provided'
  BY <1>2 DEF Provided, Ask, ledger, Recorded
<1> QED BY <1>3, <1>4, <1>5, TypeParts, PTL

LEMMA TypeProbe ==
    ASSUME TypeOK, Provided, NEW k \in Clients, Probe(k)
    PROVE  TypeOK' /\ Provided'
<1> DEFINE me == client[k]
<1>1. /\ me \in ClientType /\ me.pc = "probe" /\ me.cmd \in Commands
      /\ me.cmd \in Sleepy => me.token \in Tokens
      /\ client \in [Clients -> ClientType]
  BY DEF Probe, TypeOK, ClientType, Provided
<1>2. /\ client' \in [Clients -> ClientType]
      /\ client'[k].pc # "idle" => client'[k].cmd = me.cmd
      /\ client'[k].pc # "idle" /\ me.cmd \in Sleepy => client'[k].token \in Tokens
      /\ \A l \in Clients \ {k} : client'[l] = client[l]
  <2>1. CASE Offer(k, me.cmd, me.token, me.seen)
    <3>1. me.token \in 0 .. MaxToken /\ me.seen \in SUBSET Commands
      BY <1>1 DEF ClientType
    <3> HIDE DEF me
    <3> QED BY <2>1, <3>1, <1>1, OfferType
  <2>2. CASE /\ me.tries + 1 < MaxToken
             /\ client' = [client EXCEPT ![k] =
                   [me EXCEPT !.token = NextToken(me.token), !.tries = me.tries + 1]]
    <3>1. /\ NextToken(me.token) \in Tokens /\ NextToken(me.token) \in 0 .. MaxToken
          /\ me.tries + 1 \in 0 .. MaxToken - 1
      <4>1. me.token \in 0 .. MaxToken /\ me.tries \in 0 .. MaxToken - 1
        BY <1>1 DEF ClientType
      <4> HIDE DEF me
      <4> QED BY <4>1, <2>2 DEF NextToken, Tokens
    <3> DEFINE r == [me EXCEPT !.token = NextToken(me.token), !.tries = me.tries + 1]
    <3>2. r \in ClientType /\ r.cmd = me.cmd /\ r.token = NextToken(me.token)
      BY <1>1, <3>1 DEF ClientType
    <3> HIDE DEF r, me
    <3>3. client' = [client EXCEPT ![k] = r]
      BY <2>2 DEF r
    <3> QED BY <1>1, <3>1, <3>2, <3>3
  <2>3. CASE client' = [client EXCEPT ![k] = Idle]
    BY <1>1, <2>3, IdleType
  <2> QED BY <2>1, <2>2, <2>3 DEF Probe
<1>3. ClientTypes'
  BY <1>2 DEF Probe, TypeOK, ClientTypes
<1>4. RowTypes' /\ FieldTypes'
  BY TypeParts DEF Probe, ledger, field, RowTypes, FieldTypes
<1>5. Provided'
  BY <1>1, <1>2 DEF Provided, Probe, ledger, Recorded
<1> QED BY <1>3, <1>4, <1>5, TypeParts, PTL

(* A client that got its answer is idle. *)
LEMMA TypeAnswer ==
    ASSUME TypeOK, Provided, NEW k \in Clients, client[k].pc = "issue", NEW a,
           Answer(k, client[k].cmd, a)
    PROVE  /\ client' \in [Clients -> ClientType] /\ answered' \subseteq Commands
           /\ client'[k].pc = "idle"
           /\ \A l \in Clients \ {k} : client'[l] = client[l]
           /\ answered' \subseteq answered \cup {client[k].cmd}
<1>1. client' = [client EXCEPT ![k] = Idle] /\ client \in [Clients -> ClientType]
  BY DEF Answer, TypeOK, ClientType
<1>2. client[k].cmd \in Commands
  BY DEF Provided
<1> QED BY <1>1, <1>2, IdleType DEF Answer, TypeOK

LEMMA TypeIssueNew ==
    ASSUME TypeOK, Provided, NEW k \in Clients, IssueNew(k)
    PROVE  TypeOK' /\ Provided'
<1> DEFINE c == client[k].cmd
           t == client[k].token
<1>1. /\ c \in Commands /\ t \in 0 .. MaxToken /\ client[k].pc = "issue"
      /\ client[k].seen \subseteq Commands
      /\ c \in Sleepy => t \in Tokens
  BY DEF IssueNew, Provided, TypeOK
<1>2. NewRow(c, t)
  BY <1>1, IssueIsNew
<1>3. /\ client' \in [Clients -> ClientType] /\ answered' \subseteq Commands
      /\ client'[k].pc = "idle"
      /\ \A l \in Clients \ {k} : client'[l] = client[l]
  BY <1>1, TypeAnswer DEF IssueNew
<1>4. queued' = queued \cup {c} /\ known' = [known EXCEPT ![c] = client[k].seen]
  BY DEF IssueNew
<1> HIDE DEF c, t
<1>5. RowTypes'
  BY <1>1, <1>2, <1>4 DEF NewRow, TypeOK, RowTypes
<1>6. ClientTypes'
  BY <1>1, <1>3, <1>4 DEF IssueNew, TypeOK, ClientTypes
<1>7. FieldTypes'
  BY TypeParts DEF IssueNew, field, FieldTypes
<1>8. Provided'
  BY <1>1, <1>2, <1>3, <1>4 DEF Provided, NewRow, TypeOK
<1> QED BY <1>5, <1>6, <1>7, <1>8, TypeParts, PTL

LEMMA TypeIssueOld ==
    ASSUME TypeOK, Provided, NEW k \in Clients, IssueAgain(k) \/ IssueFails(k)
    PROVE  TypeOK' /\ Provided'
<1>1. /\ client' \in [Clients -> ClientType] /\ answered' \subseteq Commands
      /\ client'[k].pc = "idle"
      /\ \A l \in Clients \ {k} : client'[l] = client[l]
  BY TypeAnswer DEF IssueAgain, IssueFails
<1>2. UNCHANGED <<ledger, field, inbox, asks, known>>
  BY DEF IssueAgain, IssueFails
<1>3. ClientTypes'
  BY <1>1, <1>2 DEF TypeOK, ClientTypes
<1>4. RowTypes' /\ FieldTypes'
  BY <1>2, TypeParts DEF ledger, field, RowTypes, FieldTypes
<1>5. Provided'
  BY <1>1, <1>2 DEF Provided, ledger, Recorded
<1> QED BY <1>3, <1>4, <1>5, TypeParts, PTL

LEMMA TypePost ==
    ASSUME TypeOK, Provided, NEW c \in Commands, IngestCommand(c)
    PROVE  TypeOK' /\ Provided'
<1>1. NewRow(c, Given[c]) /\ Given[c] \in 0 .. MaxToken
  BY PostIsNew
<1>2. UNCHANGED <<queued, client, field, inbox, asks, answered, known>>
  BY DEF IngestCommand
<1>3. RowTypes'
  BY <1>1, <1>2 DEF NewRow, TypeOK, RowTypes
<1>4. ClientTypes' /\ FieldTypes'
  BY <1>2, TypeParts DEF field, ClientTypes, FieldTypes
<1>5. Provided'
  BY <1>1, <1>2 DEF Provided, NewRow, TypeOK
<1> QED BY <1>3, <1>4, <1>5, TypeParts, PTL

LEMMA TypeField ==
    ASSUME TypeOK, Provided,
           \/ \E c \in Commands : Obey(c) \/ \E phase \in Phase : Work(c, phase)
           \/ \E n \in Nodes : ResetNode(n)
           \/ \E f \in air : Relay(f)
    PROVE  TypeOK' /\ Provided'
<1>1. UNCHANGED <<ledger, client, asks, answered, known>>
  BY DEF Obey, Work, ResetNode, Relay, field
<1>2. RowTypes' /\ ClientTypes' /\ Provided'
  BY <1>1, TypeParts DEF RowTypes, ClientTypes, Provided, ledger, Recorded
<1>3. FieldTypes'
  <2>1. ASSUME NEW c \in Commands, Obey(c)
        PROVE  FieldTypes'
    <3>1. token[c] \in Tokens /\ Target[c] \in Nodes /\ {"succeeded", "expired"} \subseteq Phase
      BY <2>1 DEF Obey, Provided, Phase
    <3>2. log' \in [Nodes -> Seq(Tokens)]
      BY <2>1, <3>1 DEF Obey, TypeOK
    <3>3. /\ air' \subseteq [node : Nodes, token : Tokens, phase : Phase]
          /\ done' \subseteq Commands \X Phase
      BY <2>1, <3>1 DEF Obey, TypeOK
    <3>4. forgot' \subseteq Nodes
      BY <2>1, <3>1 DEF Obey, TypeOK
    <3>5. /\ progress' \in [Commands -> Phase \cup {"none"}]
          /\ inbox' \subseteq [id : Commands, phase : Phase]
      BY <2>1 DEF Obey, TypeOK
    <3> QED BY <3>2, <3>3, <3>4, <3>5 DEF FieldTypes
  <2>2. ASSUME NEW c \in Commands, NEW phase \in Phase, Work(c, phase)
        PROVE  FieldTypes'
    BY <2>2 DEF Work, FieldTypes, TypeOK
  <2>3. ASSUME NEW n \in Nodes, ResetNode(n)
        PROVE  FieldTypes'
    BY <2>3 DEF ResetNode, FieldTypes, TypeOK
  <2>4. ASSUME NEW f \in air, Relay(f)
        PROVE  FieldTypes'
    <3>1. /\ Newest(f.node, f.token) \in Commands /\ f.phase \in Phase
      BY <2>4, Resolves, RecordedCommands DEF Relay, TypeOK, Holders
    <3> DEFINE m == [id |-> Newest(f.node, f.token), phase |-> f.phase]
    <3>2. m \in [id : Commands, phase : Phase] /\ inbox' = inbox \cup {m}
      BY <2>4, <3>1 DEF Relay
    <3> HIDE DEF m
    <3>3. inbox' \subseteq [id : Commands, phase : Phase]
      BY <3>2 DEF TypeOK
    <3> QED BY <2>4, <3>3 DEF Relay, field, FieldTypes, TypeOK
  <2> QED BY <2>1, <2>2, <2>3, <2>4
<1> QED BY <1>2, <1>3, TypeParts, PTL

LEMMA TypeRecord ==
    ASSUME TypeOK, Provided, NEW c \in Commands, NEW phase \in Phase, Record(c, phase)
    PROVE  TypeOK' /\ Provided'
<1>1. RowTypes'
  BY DEF Record, TypeOK, RowTypes
<1>2. ClientTypes' /\ FieldTypes'
  BY TypeParts DEF Record, field, ClientTypes, FieldTypes
<1>3. Provided'
  BY DEF Record, Provided, Recorded
<1> QED BY <1>1, <1>2, <1>3, TypeParts, PTL

(* A result is recorded for a command that has a row. *)
LEMMA ResultOf ==
    ASSUME TypeOK
    PROVE  /\ \A m \in inbox : IngestResult(m) => m.id \in Recorded /\ Record(m.id, m.phase)
           /\ \A f \in air : IngestByToken(f) =>
                 \E c \in Holders(f.node, f.token) : c \in Recorded /\ Record(c, f.phase)
           /\ \A m \in inbox \cup air : m.phase \in Phase
  BY DEF IngestResult, IngestByToken, Meant, Holders, TypeOK

LEMMA TypeStep ==
    ASSUME TypeOK, Provided, [Next]_vars
    PROVE  TypeOK' /\ Provided'
<1>1. ASSUME NEW m \in inbox, IngestResult(m)
      PROVE  TypeOK' /\ Provided'
  <2>1. m.id \in Commands /\ Record(m.id, m.phase) /\ m.phase \in Phase
    BY <1>1, ResultOf, RecordedCommands
  <2> QED BY <2>1, TypeRecord
<1>2. ASSUME NEW f \in air, IngestByToken(f)
      PROVE  TypeOK' /\ Provided'
  <2>1. PICK c \in Commands : Record(c, f.phase)
    BY <1>2, ResultOf, RecordedCommands
  <2>2. f.phase \in Phase
    BY ResultOf
  <2> QED BY <2>1, <2>2, TypeRecord
<1>3. CASE UNCHANGED vars
  BY <1>3 DEF vars, ledger, field, TypeOK, Provided, Recorded
<1> QED
  BY <1>1, <1>2, <1>3, TypeAsk, TypeProbe, TypeIssueNew, TypeIssueOld, TypePost, TypeField DEF Next

(* What a step reads is of its type, and no place of the ledger, of a      *)
(* client or of a node ever holds anything else.                           *)
THEOREM TypeCorrect == Spec => []TypeOK
<1>1. Init => TypeOK /\ Provided
  BY TypeInit
<1>2. TypeOK /\ Provided /\ [Next]_vars => TypeOK' /\ Provided'
  BY TypeStep
<1> QED BY <1>1, <1>2, PTL DEF Spec

-----------------------------------------------------------------------------
(* What the ledger keeps.                                                  *)

Rows ==
    /\ Recorded \subseteq queued \cup Posted
    /\ answered \subseteq Recorded
    /\ \A c \in Commands \ Recorded : state[c] = "none" /\ known[c] = {}
    /\ \A c \in Recorded : state[c] # "none"

LEMMA RowsInit == Init => Rows
  BY DEF Init, Rows, Recorded, ToSet

LEMMA RowsStep ==
    ASSUME TypeOK, Provided, Rows, [Next]_vars
    PROVE  Rows'
<1>1. ASSUME NEW k \in Clients, IssueNew(k)
      PROVE  Rows'
  <2>1. client[k].cmd \in Commands /\ client[k].pc = "issue"
    BY <1>1 DEF IssueNew, Provided
  <2>2. NewRow(client[k].cmd, client[k].token)
    BY <1>1, <2>1, IssueIsNew
  <2>3. answered' \subseteq answered \cup {client[k].cmd}
    BY <1>1, <2>1, TypeAnswer DEF IssueNew
  <2> QED BY <1>1, <2>1, <2>2, <2>3 DEF IssueNew, NewRow, Rows, TypeOK
<1>2. ASSUME NEW c \in Commands, IngestCommand(c)
      PROVE  Rows'
  <2>1. NewRow(c, Given[c])
    BY <1>2, PostIsNew
  <2> QED BY <1>2, <2>1 DEF IngestCommand, NewRow, Rows, TypeOK
<1>3. ASSUME NEW c \in Recorded, NEW phase \in Phase, Record(c, phase)
      PROVE  Rows'
  <2>1. Recorded' = Recorded
    BY <1>3 DEF Record, Recorded
  <2>2. \A d \in Commands : state'[d] = IF d = c THEN phase ELSE state[d]
    BY <1>3, RecordedCommands DEF Record, TypeOK
  <2>3. phase # "none"
    BY DEF Phase
  <2> QED BY <1>3, <2>1, <2>2, <2>3, RecordedCommands DEF Record, Rows
<1>4. CASE UNCHANGED <<ledger, known>> /\ answered' \subseteq Recorded
  BY <1>4 DEF ledger, Rows, Recorded
<1>5. ASSUME NEW k \in Clients, IssueAgain(k)
      PROVE  Rows'
  <2>1. answered' \subseteq Recorded
    BY <1>5 DEF IssueAgain, Answer, Rows
  <2> QED BY <1>5, <2>1, <1>4 DEF IssueAgain
<1>6. ASSUME NEW k \in Clients, IssueFails(k)
      PROVE  Rows'
  <2>1. answered' \subseteq Recorded
    BY <1>6 DEF IssueFails, Answer, Rows
  <2> QED BY <1>6, <2>1, <1>4 DEF IssueFails
<1>7. ASSUME NEW m \in inbox, IngestResult(m)
      PROVE  Rows'
  BY <1>3, <1>7, ResultOf
<1>8. ASSUME NEW f \in air, IngestByToken(f)
      PROVE  Rows'
  BY <1>3, <1>8, ResultOf
<1>9. ASSUME \/ \E k \in Clients : Probe(k) \/ \E c \in Commands : Ask(k, c)
             \/ \E c \in Commands : Obey(c) \/ \E phase \in Phase : Work(c, phase)
             \/ \E n \in Nodes : ResetNode(n)
             \/ \E f \in air : Relay(f)
             \/ UNCHANGED vars
      PROVE  Rows'
  <2>1. UNCHANGED <<ledger, known, answered>>
    BY <1>9 DEF Probe, Ask, Obey, Work, ResetNode, Relay, vars, field
  <2> QED BY <2>1, <1>4 DEF Rows
<1> QED BY <1>1, <1>2, <1>5, <1>6, <1>7, <1>8, <1>9 DEF Next

(* Whoever was told that a command is persisted or known can rely on the   *)
(* outbox to have it, unless it came in as an envelope.                    *)
THEOREM AnswersAreKept == Spec => []AnsweredIsQueued
<1>1. Init => TypeOK /\ Provided /\ Rows
  BY TypeInit, RowsInit
<1>2. TypeOK /\ Provided /\ Rows /\ [Next]_vars => (TypeOK /\ Provided /\ Rows)'
  BY TypeStep, RowsStep
<1>3. Rows => AnsweredIsQueued
  BY DEF Rows, AnsweredIsQueued
<1> QED BY <1>1, <1>2, <1>3, PTL DEF Spec

(* A recorded outcome stands, whatever arrives after it. *)
LEMMA OutcomeStandsStep ==
    ASSUME TypeOK, Provided, Rows, [Next]_vars, NEW c \in Commands, state[c] \in Terminal
    PROVE  state'[c] = state[c]
<1>1. ASSUME NEW d \in Commands, NEW t, NewRow(d, t)
      PROVE  state'[c] = state[c]
  <2>1. c # d
    BY <1>1 DEF NewRow, Rows, Terminal
  <2> QED BY <1>1, <2>1 DEF NewRow, TypeOK
<1>2. ASSUME NEW d \in Commands, NEW phase \in Phase, Record(d, phase)
      PROVE  state'[c] = state[c]
  <2>1. c # d
    BY <1>2 DEF Record, Accepts, Allowed, Terminal
  <2> QED BY <1>2, <2>1 DEF Record, TypeOK
<1>3. ASSUME NEW k \in Clients, IssueNew(k)
      PROVE  state'[c] = state[c]
  <2>1. client[k].cmd \in Commands
    BY <1>3 DEF IssueNew, Provided
  <2> QED BY <1>1, <1>3, <2>1, IssueIsNew
<1>4. ASSUME NEW m \in inbox, IngestResult(m)
      PROVE  state'[c] = state[c]
  BY <1>2, <1>4, ResultOf, RecordedCommands
<1>5. ASSUME NEW f \in air, IngestByToken(f)
      PROVE  state'[c] = state[c]
  BY <1>2, <1>5, ResultOf, RecordedCommands
<1>6. ASSUME NEW d \in Commands, IngestCommand(d)
      PROVE  state'[c] = state[c]
  BY <1>1, <1>6, PostIsNew
<1>7. ASSUME \/ \E k \in Clients : Probe(k) \/ IssueAgain(k) \/ IssueFails(k)
             \/ \E k \in Clients, d \in Commands : Ask(k, d)
             \/ \E d \in Commands : Obey(d) \/ \E phase \in Phase : Work(d, phase)
             \/ \E n \in Nodes : ResetNode(n)
             \/ \E f \in air : Relay(f)
             \/ UNCHANGED vars
      PROVE  state'[c] = state[c]
  BY <1>7 DEF Probe, IssueAgain, IssueFails, Ask, Obey, Work, ResetNode, Relay, vars, ledger, field
<1> QED BY <1>3, <1>4, <1>5, <1>6, <1>7 DEF Next

(* A recorded outcome stands: results that come late, twice or out of order *)
(* and repeated requests do not change it.                                  *)
THEOREM OutcomesStand == Spec => OutcomeStands
<1>1. Init => TypeOK /\ Provided /\ Rows
  BY TypeInit, RowsInit
<1>2. TypeOK /\ Provided /\ Rows /\ [Next]_vars => (TypeOK /\ Provided /\ Rows)'
  BY TypeStep, RowsStep
<1>3. TypeOK /\ Provided /\ Rows /\ [Next]_vars =>
         [\A c \in Commands : state[c] \in Terminal => state'[c] = state[c]]_vars
  BY OutcomeStandsStep
<1> QED BY <1>1, <1>2, <1>3, PTL DEF Spec, OutcomeStands

-----------------------------------------------------------------------------
(* Fresh tokens.                                                           *)

(* Rows stay, with their tokens. *)
Grows ==
    /\ Recorded \subseteq Recorded' /\ queued \subseteq queued'
    /\ \A c \in Recorded : token'[c] = token[c]

LEMMA NewRowGrows ==
    ASSUME TypeOK, NEW c, NEW t, NewRow(c, t), queued \subseteq queued'
    PROVE  Grows
  BY RecordedCommands DEF NewRow, Grows, TypeOK

LEMMA LedgerGrows ==
    ASSUME TypeOK, Provided, [Next]_vars
    PROVE  Grows
<1>1. ASSUME NEW k \in Clients, IssueNew(k)
      PROVE  Grows
  <2>1. client[k].cmd \in Commands
    BY <1>1 DEF IssueNew, Provided
  <2>2. NewRow(client[k].cmd, client[k].token)
    BY <1>1, <2>1, IssueIsNew
  <2> QED BY <1>1, <2>2, NewRowGrows DEF IssueNew
<1>2. ASSUME NEW d \in Commands, IngestCommand(d)
      PROVE  Grows
  BY <1>2, PostIsNew, NewRowGrows DEF IngestCommand
<1>3. ASSUME NEW c, NEW phase, Record(c, phase)
      PROVE  Grows
  BY <1>3 DEF Record, Grows, Recorded
<1>4. ASSUME \/ \E k \in Clients : Probe(k) \/ IssueAgain(k) \/ IssueFails(k)
             \/ \E k \in Clients, d \in Commands : Ask(k, d)
             \/ \E d \in Commands : Obey(d) \/ \E phase \in Phase : Work(d, phase)
             \/ \E n \in Nodes : ResetNode(n)
             \/ \E f \in air : Relay(f)
             \/ UNCHANGED vars
      PROVE  Grows
  <2>1. UNCHANGED ledger
    BY <1>4 DEF Probe, IssueAgain, IssueFails, Ask, Obey, Work, ResetNode, Relay, vars
  <2> QED BY <2>1 DEF ledger, Grows, Recorded
<1> QED BY <1>1, <1>2, <1>3, <1>4 DEF Next, IngestResult, IngestByToken

(* What a client saw when it asked is still there; once it has settled on  *)
(* a token, none of what it saw has that token.                            *)
Fresh ==
    /\ \A k \in Clients : client[k].seen \subseteq Recorded
    /\ \A k \in Clients : \A d \in client[k].seen :
          LET c == client[k].cmd IN
          (/\ client[k].pc = "issue" /\ c \in Sleepy \ Recorded /\ Given[c] = 0
           /\ Target[d] = Target[c]) => token[d] # client[k].token
    /\ \A c \in Commands : known[c] \subseteq Recorded
    /\ AllocatedIsFresh

LEMMA FreshInit == Init => Fresh
  BY DEF Init, Fresh, Idle, AllocatedIsFresh, Recorded, ToSet

(* The promises about one client. *)
FreshFor(k) ==
    /\ client[k].seen \subseteq Recorded
    /\ \A d \in client[k].seen :
          LET c == client[k].cmd IN
          (/\ client[k].pc = "issue" /\ c \in Sleepy \ Recorded /\ Given[c] = 0
           /\ Target[d] = Target[c]) => token[d] # client[k].token

LEMMA FreshParts ==
    Fresh <=> /\ \A k \in Clients : FreshFor(k)
              /\ \A c \in Commands : known[c] \subseteq Recorded
              /\ AllocatedIsFresh
  BY DEF Fresh, FreshFor

LEMMA FreshAfter ==
    ASSUME \A k \in Clients : FreshFor(k)', \A c \in Commands : known'[c] \subseteq Recorded',
           AllocatedIsFresh'
    PROVE  Fresh'
  BY DEF Fresh, FreshFor

LEMMA FreshStays ==
    ASSUME Grows, NEW k \in Clients, FreshFor(k), client'[k] = client[k]
    PROVE  FreshFor(k)'
  BY DEF Grows, FreshFor

LEMMA FreshWhenIdle ==
    ASSUME NEW k \in Clients, client[k]' = Idle
    PROVE  FreshFor(k)'
  BY DEF FreshFor, Idle

LEMMA FreshClients ==
    ASSUME TypeOK, Provided, Fresh, Grows, NEW k \in Clients,
           Probe(k) \/ (\E c \in Commands : Ask(k, c))
    PROVE  Fresh'
<1>1. UNCHANGED <<ledger, known>>
  BY DEF Probe, Ask
<1>2. AllocatedIsFresh' /\ \A c \in Commands : known'[c] \subseteq Recorded'
  BY <1>1 DEF Fresh, AllocatedIsFresh, ledger, Recorded
<1>3. client \in [Clients -> ClientType]
  BY DEF TypeOK, ClientType
<1>4. \A l \in Clients \ {k} : client'[l] = client[l]
  BY <1>3 DEF Probe, Ask, Offer
<1>5. FreshFor(k)'
  <2>1. ASSUME NEW c \in Commands, Ask(k, c)
        PROVE  FreshFor(k)'
    <3>1. CASE c \in Sleepy /\ Given[c] = 0
      <4>1. client'[k].seen = Recorded /\ client'[k].pc = "probe"
        BY <2>1, <3>1, <1>3 DEF Ask
      <4> QED BY <4>1, <1>1 DEF FreshFor, ledger, Recorded
    <3>2. CASE ~(c \in Sleepy /\ Given[c] = 0)
      <4>1. client'[k].seen = {}
        BY <2>1, <3>2, <1>3 DEF Ask, Offer
      <4> QED BY <4>1 DEF FreshFor
    <3> QED BY <3>1, <3>2
  <2>2. ASSUME Probe(k)
        PROVE  FreshFor(k)'
    <3> DEFINE me == client[k]
    <3>0. me.cmd \in Commands /\ me.seen \subseteq Recorded
      BY <2>2 DEF Probe, Provided, Fresh
    <3>1. CASE Free(me.cmd, me.token) /\ Offer(k, me.cmd, me.token, me.seen)
      <4>1. /\ client'[k].cmd = me.cmd /\ client'[k].token = me.token
            /\ client'[k].seen = me.seen
        BY <3>1, <1>3 DEF Offer
      <4>2. ASSUME me.cmd \notin Recorded
            PROVE  Holders(Target[me.cmd], me.token) = {}
        <5>1. Newest(Target[me.cmd], me.token) \in {None, me.cmd}
          BY <3>1 DEF Free
        <5>2. me.cmd \notin Holders(Target[me.cmd], me.token) /\ rows \in Seq(Commands)
          BY <4>2 DEF Holders, TypeOK
        <5>3. None \notin Holders(Target[me.cmd], me.token)
          BY RecordedCommands DEF Holders
        <5> QED BY <5>1, <5>2, <5>3, Resolves
      <4>3. ASSUME NEW d \in me.seen, me.cmd \notin Recorded, Target[d] = Target[me.cmd]
            PROVE  token[d] # me.token
        <5>1. d \in Recorded /\ d \notin Holders(Target[me.cmd], me.token)
          BY <3>0, <4>2, <4>3
        <5> QED BY <5>1, <4>3 DEF Holders
      <4> QED BY <4>1, <4>3, <3>0, <1>1 DEF FreshFor, ledger, Recorded
    <3>2. CASE client' = [client EXCEPT ![k] =
                   [me EXCEPT !.token = NextToken(me.token), !.tries = me.tries + 1]]
      <4>1. client'[k].seen = me.seen /\ client'[k].pc = "probe"
        <5> DEFINE r == [me EXCEPT !.token = NextToken(me.token), !.tries = me.tries + 1]
        <5>1. r.seen = me.seen /\ r.pc = me.pc
          BY <1>3 DEF ClientType
        <5>2. me.pc = "probe"
          BY <2>2 DEF Probe
        <5> HIDE DEF r
        <5>3. client' = [client EXCEPT ![k] = r]
          BY <3>2 DEF r
        <5> QED BY <5>1, <5>2, <5>3, <1>3
      <4> QED BY <4>1, <3>0, <1>1 DEF FreshFor, ledger, Recorded
    <3>3. CASE client' = [client EXCEPT ![k] = Idle]
      BY <3>3, <1>3, FreshWhenIdle
    <3> QED BY <2>2, <3>1, <3>2, <3>3 DEF Probe
  <2> QED BY <2>1, <2>2
<1>6. \A l \in Clients : FreshFor(l)'
  <2> TAKE l \in Clients
  <2>1. CASE l = k
    BY <2>1, <1>5
  <2>2. CASE l # k
    BY <2>2, <1>4, FreshStays, FreshParts
  <2> QED BY <2>1, <2>2
<1> QED BY <1>2, <1>6, FreshAfter

LEMMA FreshStep ==
    ASSUME TypeOK, Provided, Rows, Fresh, [Next]_vars
    PROVE  Fresh'
<1>0. Grows /\ client \in [Clients -> ClientType]
  BY LedgerGrows DEF TypeOK, ClientType
<1>1. ASSUME NEW k \in Clients, IssueNew(k)
      PROVE  Fresh'
  <2> DEFINE c == client[k].cmd
  <2>1. c \in Commands /\ client[k].pc = "issue"
    BY <1>1 DEF IssueNew, Provided
  <2>2. NewRow(c, client[k].token)
    BY <1>1, <2>1, IssueIsNew
  <2>3. known' = [known EXCEPT ![c] = client[k].seen] /\ client' = [client EXCEPT ![k] = Idle]
    BY <1>1 DEF IssueNew, Answer
  <2>4. \A d \in Commands : known'[d] \subseteq Recorded
    BY <2>1, <2>3 DEF Fresh, TypeOK
  <2>5. \A l \in Clients : FreshFor(l)'
    <3> TAKE l \in Clients
    <3>1. CASE l = k
      BY <3>1, <2>3, <1>0, FreshWhenIdle
    <3>2. CASE l # k
      <4>1. client'[l] = client[l]
        BY <3>2, <2>3, <1>0
      <4> QED BY <4>1, <1>0, FreshStays, FreshParts
    <3> QED BY <3>1, <3>2
  <2>6. AllocatedIsFresh'
    <3> SUFFICES ASSUME NEW e \in Recorded' \cap Sleepy, NEW d \in Commands,
                        Given[e] = 0, d \in known'[e], Target[d] = Target[e]
                 PROVE  token'[d] # token'[e]
      BY DEF AllocatedIsFresh
    <3>1. d \in Recorded /\ token'[d] = token[d] /\ e \in Commands
      BY <2>4, <1>0 DEF Grows
    <3>2. CASE e = c
      <4>1. known'[e] = client[k].seen /\ token'[e] = client[k].token /\ c \notin Recorded
        BY <3>2, <2>1, <2>2, <2>3 DEF NewRow, TypeOK
      <4> QED BY <3>1, <3>2, <4>1, <2>1 DEF Fresh
    <3>3. CASE e # c
      <4>1. known'[e] = known[e] /\ e \in Recorded
        BY <3>1, <3>3, <2>2, <2>3 DEF NewRow, TypeOK
      <4>2. token'[e] = token[e]
        BY <4>1, <1>0 DEF Grows
      <4> QED BY <3>1, <4>1, <4>2 DEF Fresh, AllocatedIsFresh
    <3> QED BY <3>2, <3>3
  <2>7. \A d \in Commands : known'[d] \subseteq Recorded'
    BY <2>4, <1>0 DEF Grows
  <2> QED BY <2>5, <2>6, <2>7, FreshAfter
<1>2. ASSUME NEW c \in Commands, IngestCommand(c)
      PROVE  Fresh'
  <2>1. NewRow(c, Given[c]) /\ UNCHANGED <<client, known>>
    BY <1>2, PostIsNew DEF IngestCommand
  <2>2. \A l \in Clients : FreshFor(l)'
    BY <2>1, <1>0, FreshStays, FreshParts
  <2>3. \A d \in Commands : known'[d] \subseteq Recorded'
    BY <2>1, <1>0 DEF Grows, Fresh
  <2>4. AllocatedIsFresh'
    <3> SUFFICES ASSUME NEW e \in Recorded' \cap Sleepy, NEW d \in Commands,
                        Given[e] = 0, d \in known'[e], Target[d] = Target[e]
                 PROVE  token'[d] # token'[e]
      BY DEF AllocatedIsFresh
    <3>1. known'[e] = known[e] /\ e # c
      BY <2>1 DEF NewRow, Rows
    <3>2. e \in Recorded /\ d \in Recorded
      BY <3>1, <2>1, RecordedCommands DEF NewRow, Fresh
    <3> QED BY <3>1, <3>2, <1>0 DEF Grows, Fresh, AllocatedIsFresh
  <2> QED BY <2>2, <2>3, <2>4, FreshAfter
<1>3. ASSUME NEW k \in Clients, IssueAgain(k) \/ IssueFails(k)
      PROVE  Fresh'
  <2>1. client' = [client EXCEPT ![k] = Idle] /\ UNCHANGED <<ledger, known>>
    BY <1>3 DEF IssueAgain, IssueFails, Answer
  <2>2. \A l \in Clients : FreshFor(l)'
    <3> TAKE l \in Clients
    <3>1. CASE l = k
      BY <3>1, <2>1, <1>0, FreshWhenIdle
    <3>2. CASE l # k
      <4>1. client'[l] = client[l]
        BY <3>2, <2>1, <1>0
      <4> QED BY <4>1, <1>0, FreshStays, FreshParts
    <3> QED BY <3>1, <3>2
  <2>3. AllocatedIsFresh' /\ \A c \in Commands : known'[c] \subseteq Recorded'
    BY <2>1 DEF Fresh, AllocatedIsFresh, ledger, Recorded
  <2> QED BY <2>2, <2>3, FreshAfter
<1>4. ASSUME UNCHANGED <<rows, token, client, known>>
      PROVE  Fresh'
  BY <1>4 DEF Fresh, AllocatedIsFresh, Recorded
<1>5. ASSUME \/ \E d \in Commands : Obey(d) \/ \E phase \in Phase : Work(d, phase)
             \/ \E n \in Nodes : ResetNode(n)
             \/ \E f \in air : Relay(f) \/ IngestByToken(f)
             \/ \E m \in inbox : IngestResult(m)
             \/ UNCHANGED vars
      PROVE  Fresh'
  <2>1. UNCHANGED <<rows, token, client, known>>
    BY <1>5 DEF Obey, Work, ResetNode, Relay, IngestByToken, IngestResult, Record, vars, ledger
  <2> QED BY <2>1, <1>4
<1> QED BY <1>0, <1>1, <1>2, <1>3, <1>5, FreshClients DEF Next

(* A client is never given a token that a command for the same node had    *)
(* when it asked, whatever others issue while it probes.                   *)
THEOREM TokensAreFresh == Spec => []AllocatedIsFresh
<1>1. Init => TypeOK /\ Provided /\ Rows /\ Fresh
  BY TypeInit, RowsInit, FreshInit
<1>2. TypeOK /\ Provided /\ Rows /\ Fresh /\ [Next]_vars =>
         (TypeOK /\ Provided /\ Rows /\ Fresh)'
  BY TypeStep, RowsStep, FreshStep
<1>3. Fresh => AllocatedIsFresh
  BY DEF Fresh
<1> QED BY <1>1, <1>2, <1>3, PTL DEF Spec

-----------------------------------------------------------------------------
(* Results.  A frame tells what a command of its node and token did, and a *)
(* result on its way what its command did, if no other has the token.      *)

Did(c, phase) == <<c, phase>> \in done

Deeds ==
    /\ \A c \in Commands, phase \in Phase : Did(c, phase) => c \in queued
    /\ \A f \in air : \E c \in queued \cap Sleepy :
          Target[c] = f.node /\ token[c] = f.token /\ Did(c, f.phase)
    /\ \A m \in inbox : m.id \in Recorded /\ (Unshared(m.id) => Did(m.id, m.phase))
    /\ ResultIsTrue

LEMMA DeedsInit == Init => Deeds
  BY DEF Init, Deeds, Did, ResultIsTrue, Phase

(* A token that stands for one command did so since the command has a row. *)
LEMMA UnsharedBefore ==
    ASSUME Grows, NEW c \in Recorded, Unshared(c)'
    PROVE  Unshared(c)
<1>1. token'[c] = token[c]
  BY DEF Grows
<1>2. ASSUME NEW d \in Holders(Target[c], token[c])
      PROVE  d \in Holders(Target[c], token[c])'
  BY <1>1 DEF Holders, Grows
<1>3. c \in Holders(Target[c], token[c])
  BY DEF Holders
<1> QED BY <1>1, <1>2, <1>3 DEF Unshared

(* The parts of Deeds that no step can undo. *)
LEMMA DeedsStay ==
    ASSUME TypeOK, Provided, Deeds, Grows, done \subseteq done'
    PROVE  /\ \A c \in Commands, phase \in Phase : Did(c, phase) => c \in queued'
           /\ \A f \in air : \E c \in queued' \cap Sleepy :
                 Target[c] = f.node /\ token'[c] = f.token /\ Did(c, f.phase)'
           /\ \A m \in inbox : m.id \in Recorded' /\ (Unshared(m.id)' => Did(m.id, m.phase)')
           /\ \A c \in Recorded : Unshared(c)' /\ state[c] \in Phase => <<c, state[c]>> \in done'
<1>1. \A c \in Commands, phase \in Phase : Did(c, phase) => c \in queued'
  BY DEF Deeds, Grows
<1>2. ASSUME NEW f \in air
      PROVE  \E c \in queued' \cap Sleepy :
                 Target[c] = f.node /\ token'[c] = f.token /\ Did(c, f.phase)'
  <2>1. PICK c \in queued \cap Sleepy :
                 Target[c] = f.node /\ token[c] = f.token /\ Did(c, f.phase)
    BY DEF Deeds
  <2>2. c \in queued' /\ token'[c] = token[c] /\ Did(c, f.phase)'
    BY <2>1 DEF Grows, Provided, Did
  <2> QED BY <2>1, <2>2
<1>3. ASSUME NEW m \in inbox
      PROVE  m.id \in Recorded' /\ (Unshared(m.id)' => Did(m.id, m.phase)')
  <2>1. m.id \in Recorded /\ (Unshared(m.id) => Did(m.id, m.phase))
    BY DEF Deeds
  <2> QED BY <2>1, UnsharedBefore DEF Grows, Did
<1>4. ASSUME NEW c \in Recorded, Unshared(c)', state[c] \in Phase
      PROVE  <<c, state[c]>> \in done'
  BY <1>4, UnsharedBefore, RecordedCommands DEF Deeds, ResultIsTrue, Did
<1> QED BY <1>1, <1>2, <1>3, <1>4

LEMMA ResultsStay ==
    ASSUME TypeOK, Provided, Rows, Deeds, Grows, done \subseteq done', TypeOK', Rows',
           \A c \in Recorded : state'[c] = state[c],
           \A c \in Recorded' \ Recorded : state'[c] = "issued"
    PROVE  ResultIsTrue'
<1> SUFFICES ASSUME NEW c \in Commands, Unshared(c)', state'[c] \in Phase
             PROVE  <<c, state'[c]>> \in done'
  BY DEF ResultIsTrue
<1>1. c \in Recorded'
  BY DEF Rows, Phase
<1>2. c \in Recorded
  BY <1>1 DEF Phase
<1> QED BY <1>2, DeedsStay

(* A recorded result is one that the command's node sent. *)
LEMMA DeedsRecord ==
    ASSUME TypeOK, Provided, Rows, Deeds, NEW c \in Recorded, NEW phase \in Phase,
           Unshared(c) => Did(c, phase), Record(c, phase)
    PROVE  Deeds'
<1>1. UNCHANGED <<rows, token, queued, air, inbox, done>>
  BY DEF Record, field
<1>2. \A d : (Unshared(d)' <=> Unshared(d)) /\ \A p : (Did(d, p)' <=> Did(d, p))
  BY <1>1 DEF Unshared, Holders, Recorded, Did
<1>3. \A d \in Commands : state'[d] = IF d = c THEN phase ELSE state[d]
  BY RecordedCommands DEF Record, TypeOK
<1>4. ResultIsTrue'
  <2> SUFFICES ASSUME NEW d \in Commands, Unshared(d)', state'[d] \in Phase
               PROVE  <<d, state'[d]>> \in done'
    BY DEF ResultIsTrue
  <2> QED BY <1>2, <1>3 DEF Deeds, ResultIsTrue, Did
<1> QED BY <1>1, <1>2, <1>4 DEF Deeds, Recorded, Did

LEMMA DeedsStep ==
    ASSUME TypeOK, Provided, Rows, Deeds, [Next]_vars
    PROVE  Deeds'
<1>0. Grows /\ TypeOK' /\ Provided' /\ Rows'
  BY LedgerGrows, TypeStep, RowsStep
(* New rows, and what changes no result. *)
<1>1. ASSUME UNCHANGED <<air, inbox, done>>,
             \A c \in Recorded : state'[c] = state[c],
             \A c \in Recorded' \ Recorded : state'[c] = "issued"
      PROVE  Deeds'
  <2>1. ResultIsTrue'
    BY <1>0, <1>1, ResultsStay
  <2> QED BY <2>1, <1>0, <1>1, DeedsStay DEF Deeds, Did
<1>2. ASSUME NEW c \in Commands, NEW t, NewRow(c, t), UNCHANGED <<air, inbox, done>>
      PROVE  Deeds'
  <2>1. \A d \in Recorded : state'[d] = state[d]
    BY <1>2, RecordedCommands DEF NewRow, TypeOK
  <2>2. \A d \in Recorded' \ Recorded : state'[d] = "issued"
    BY <1>2 DEF NewRow, TypeOK
  <2> QED BY <1>1, <1>2, <2>1, <2>2
<1>3. ASSUME NEW k \in Clients, IssueNew(k)
      PROVE  Deeds'
  <2>1. client[k].cmd \in Commands
    BY <1>3 DEF IssueNew, Provided
  <2>2. NewRow(client[k].cmd, client[k].token)
    BY <1>3, <2>1, IssueIsNew
  <2> QED BY <1>2, <1>3, <2>1, <2>2 DEF IssueNew, field
<1>4. ASSUME NEW c \in Commands, IngestCommand(c)
      PROVE  Deeds'
  BY <1>2, <1>4, PostIsNew DEF IngestCommand, field
<1>5. ASSUME UNCHANGED <<ledger, air, inbox, done>>
      PROVE  Deeds'
  <2>1. Recorded' = Recorded
    BY <1>5 DEF ledger, Recorded
  <2> QED BY <1>1, <1>5, <2>1 DEF ledger
<1>6. ASSUME NEW m \in inbox, IngestResult(m)
      PROVE  Deeds'
  <2>1. m.id \in Recorded /\ Record(m.id, m.phase) /\ m.phase \in Phase
    BY <1>6, ResultOf
  <2> QED BY <2>1, DeedsRecord DEF Deeds
<1>7. ASSUME NEW f \in air, IngestByToken(f)
      PROVE  Deeds'
  <2>1. PICK c \in Holders(f.node, f.token) : c \in Recorded /\ Record(c, f.phase)
    BY <1>7, ResultOf
  <2>2. f.phase \in Phase /\ f.token # 0
    BY DEF TypeOK, Tokens
  <2>3. ASSUME Unshared(c)
        PROVE  Did(c, f.phase)
    <3>1. PICK d \in queued \cap Sleepy :
                 Target[d] = f.node /\ token[d] = f.token /\ Did(d, f.phase)
      BY DEF Deeds
    <3>2. d \in Holders(f.node, f.token)
      BY <3>1 DEF Holders, Provided
    <3>3. Target[c] = f.node /\ token[c] = f.token
      BY DEF Holders
    <3>4. d = c
      BY <2>2, <2>3, <3>2, <3>3 DEF Unshared
    <3> QED BY <3>1, <3>4
  <2> QED BY <2>1, <2>2, <2>3, DeedsRecord
<1>8. ASSUME NEW c \in Commands, Obey(c)
      PROVE  Deeds'
  <2>1. PICK phase \in {"succeeded", "expired"} :
             /\ air' = air \cup {[node |-> Target[c], token |-> token[c], phase |-> phase]}
             /\ done' = done \cup {<<c, phase>>}
    BY <1>8 DEF Obey
  <2>2. UNCHANGED <<ledger, inbox>> /\ c \in queued \cap Sleepy /\ phase \in Phase
    BY <1>8 DEF Obey, Phase
  <2>3. Recorded' = Recorded /\ done \subseteq done' /\ Did(c, phase)'
    BY <2>1, <2>2 DEF ledger, Recorded, Did
  <2>4. ResultIsTrue'
    BY <1>0, <2>2, <2>3, ResultsStay DEF ledger
  <2>5. \A d \in Commands, p \in Phase : Did(d, p)' => d \in queued'
    BY <2>1, <2>2 DEF Did, Deeds, ledger
  <2>6. \A f \in air' : \E d \in queued' \cap Sleepy :
             Target[d] = f.node /\ token'[d] = f.token /\ Did(d, f.phase)'
    <3> TAKE f \in air'
    <3>1. CASE f \in air
      BY <3>1, <1>0, <2>3, DeedsStay
    <3>2. CASE f = [node |-> Target[c], token |-> token[c], phase |-> phase]
      BY <3>2, <2>2, <2>3 DEF ledger
    <3> QED BY <3>1, <3>2, <2>1
  <2>7. \A m \in inbox' : m.id \in Recorded' /\ (Unshared(m.id)' => Did(m.id, m.phase)')
    BY <1>0, <2>2, <2>3, DeedsStay
  <2> QED BY <2>4, <2>5, <2>6, <2>7 DEF Deeds
<1>9. ASSUME NEW c \in Commands, NEW phase \in Phase, Work(c, phase)
      PROVE  Deeds'
  <2>1. /\ UNCHANGED <<ledger, air>> /\ c \in queued
        /\ done' = done \cup {<<c, phase>>}
        /\ inbox' = inbox \cup {[id |-> c, phase |-> phase]}
    BY <1>9 DEF Work
  <2>2. Recorded' = Recorded /\ done \subseteq done' /\ Did(c, phase)'
    BY <2>1 DEF ledger, Recorded, Did
  <2>3. ResultIsTrue'
    BY <1>0, <2>1, <2>2, ResultsStay DEF ledger
  <2>4. \A d \in Commands, p \in Phase : Did(d, p)' => d \in queued'
    BY <2>1 DEF Did, Deeds, ledger
  <2>5. \A f \in air' : \E d \in queued' \cap Sleepy :
             Target[d] = f.node /\ token'[d] = f.token /\ Did(d, f.phase)'
    BY <1>0, <2>1, <2>2, DeedsStay
  <2>6. \A m \in inbox' : m.id \in Recorded' /\ (Unshared(m.id)' => Did(m.id, m.phase)')
    <3> TAKE m \in inbox'
    <3>1. CASE m \in inbox
      BY <3>1, <1>0, <2>2, DeedsStay
    <3>2. CASE m = [id |-> c, phase |-> phase]
      BY <3>2, <2>1, <2>2 DEF Provided
    <3> QED BY <3>1, <3>2, <2>1
  <2> QED BY <2>3, <2>4, <2>5, <2>6 DEF Deeds
<1>10. ASSUME NEW f \in air, Relay(f)
      PROVE  Deeds'
  <2>0. PICK c : c = Newest(f.node, f.token)
    OBVIOUS
  <2>1. /\ UNCHANGED <<ledger, air, done>>
        /\ inbox' = inbox \cup {[id |-> c, phase |-> f.phase]}
    BY <1>10, <2>0 DEF Relay, field
  <2>2. c \in Holders(f.node, f.token)
    BY <1>10, <2>0, Resolves DEF Relay, TypeOK
  <2>3. Recorded' = Recorded /\ done \subseteq done' /\ f.token # 0
    BY <2>1 DEF ledger, Recorded, TypeOK, Tokens
  <2>4. ResultIsTrue'
    BY <1>0, <2>1, <2>3, ResultsStay DEF ledger
  <2>5. \A d \in Commands, p \in Phase : Did(d, p)' => d \in queued'
    BY <2>1 DEF Did, Deeds, ledger
  <2>6. \A g \in air' : \E d \in queued' \cap Sleepy :
             Target[d] = g.node /\ token'[d] = g.token /\ Did(d, g.phase)'
    BY <1>0, <2>1, <2>3, DeedsStay
  <2>7. ASSUME Unshared(c)'
        PROVE  Did(c, f.phase)'
    <3>1. PICK d \in queued \cap Sleepy :
                 Target[d] = f.node /\ token[d] = f.token /\ Did(d, f.phase)
      BY DEF Deeds
    <3>2. d \in Holders(f.node, f.token)
      BY <3>1 DEF Holders, Provided
    <3>3. Target[c] = f.node /\ token[c] = f.token /\ c \in Recorded
      BY <2>2 DEF Holders
    <3>4. Unshared(c)
      BY <1>0, <2>7, <3>3, UnsharedBefore
    <3>5. d = c
      BY <2>3, <3>2, <3>3, <3>4 DEF Unshared
    <3> QED BY <3>1, <3>5, <2>1 DEF Did
  <2>8. \A m \in inbox' : m.id \in Recorded' /\ (Unshared(m.id)' => Did(m.id, m.phase)')
    <3> TAKE m \in inbox'
    <3>1. CASE m \in inbox
      BY <3>1, <1>0, <2>3, DeedsStay
    <3>2. CASE m = [id |-> c, phase |-> f.phase]
      BY <3>2, <2>2, <2>3, <2>7 DEF Holders
    <3> QED BY <3>1, <3>2, <2>1
  <2> QED BY <2>4, <2>5, <2>6, <2>8 DEF Deeds
<1>11. ASSUME \/ \E k \in Clients : Probe(k) \/ IssueAgain(k) \/ IssueFails(k)
              \/ \E k \in Clients, d \in Commands : Ask(k, d)
              \/ \E n \in Nodes : ResetNode(n)
              \/ UNCHANGED vars
      PROVE  Deeds'
  <2>1. UNCHANGED <<ledger, air, inbox, done>>
    BY <1>11 DEF Probe, IssueAgain, IssueFails, Ask, ResetNode, vars, field
  <2> QED BY <2>1, <1>5
<1> QED BY <1>3, <1>4, <1>6, <1>7, <1>8, <1>9, <1>10, <1>11 DEF Next

(* What the ledger says of a command happened at its node: a late, repeated *)
(* or reordered result never lands at another command.                      *)
THEOREM ResultsAreTrue == Spec => []ResultIsTrue
<1>1. Init => TypeOK /\ Provided /\ Rows /\ Deeds
  BY TypeInit, RowsInit, DeedsInit
<1>2. TypeOK /\ Provided /\ Rows /\ Deeds /\ [Next]_vars =>
         (TypeOK /\ Provided /\ Rows /\ Deeds)'
  BY TypeStep, RowsStep, DeedsStep
<1>3. Deeds => ResultIsTrue
  BY DEF Deeds
<1> QED BY <1>1, <1>2, <1>3, PTL DEF Spec

-----------------------------------------------------------------------------
(* Ledger and node.  What a node remembers is what its commands did; as    *)
(* long as it has forgotten nothing it does each of them once.             *)

Memory ==
    /\ \A n \in Nodes, t \in Tokens : t \in ToSet(log[n]) =>
          \E c \in queued \cap Sleepy, phase \in Phase :
             Target[c] = n /\ token[c] = t /\ Did(c, phase)
    /\ \A n \in Nodes \ forgot : ToSet(log[n]) \subseteq Node(n)!Recent
    /\ \A c \in Sleepy, phase \in Phase :
          Target[c] \notin forgot /\ Did(c, phase) => token[c] \in ToSet(log[Target[c]])

Once ==
    /\ \A c \in Sleepy, p, q \in Phase :
          Target[c] \notin forgot /\ Did(c, p) /\ Did(c, q) => p = q
    /\ \A c \in Commands \ Sleepy, p \in Terminal : Did(c, p) => progress[c] = p

LEMMA MemoryInit == Init => Memory /\ Once
  BY DEF Init, Memory, Once, Did, ToSet

LEMMA RecentIsLogged ==
    ASSUME TypeOK, NEW n \in Nodes
    PROVE  Node(n)!Recent \subseteq ToSet(log[n]) /\ ToSet(log[n]) \subseteq Tokens
  BY DEF TypeOK, ToSet, Node!Recent

(* Steps that leave the nodes alone. *)
LEMMA MemoryStays ==
    ASSUME TypeOK, Provided, Deeds, Memory, Once, Grows,
           UNCHANGED <<log, progress, done, forgot>>
    PROVE  Memory' /\ Once'
<1>1. Once'
  BY DEF Once, Did
<1>2. \A n \in Nodes : Node(n)!Recent' = Node(n)!Recent /\ ToSet(log'[n]) = ToSet(log[n])
  BY DEF Node!Recent, ToSet
<1>3. \A c \in queued : c \in queued' /\ token'[c] = token[c]
  BY DEF Grows, Provided
<1>4. ASSUME NEW n \in Nodes, NEW t \in Tokens, t \in ToSet(log'[n])
      PROVE  \E c \in queued' \cap Sleepy, phase \in Phase :
                Target[c] = n /\ token'[c] = t /\ Did(c, phase)'
  <2>1. PICK c \in queued \cap Sleepy, phase \in Phase :
                Target[c] = n /\ token[c] = t /\ Did(c, phase)
    BY <1>2, <1>4 DEF Memory
  <2>2. c \in queued' /\ token'[c] = t /\ Did(c, phase)'
    BY <1>3, <2>1 DEF Did
  <2> QED BY <2>1, <2>2
<1>5. ASSUME NEW c \in Sleepy, NEW phase \in Phase, Target[c] \notin forgot', Did(c, phase)'
      PROVE  token'[c] \in ToSet(log'[Target[c]])
  <2>1. c \in queued /\ token[c] \in ToSet(log[Target[c]])
    BY <1>5 DEF Memory, Deeds, Did
  <2>2. token'[c] = token[c]
    BY <1>3, <2>1
  <2> QED BY <1>2, <2>1, <2>2
<1>6. \A n \in Nodes \ forgot' : ToSet(log'[n]) \subseteq Node(n)!Recent'
  BY <1>2 DEF Memory
<1> QED BY <1>1, <1>4, <1>5, <1>6 DEF Memory

LEMMA MemoryStep ==
    ASSUME TypeOK, Provided, Rows, Deeds, Memory, Once, [Next]_vars
    PROVE  Memory' /\ Once'
<1>0. Grows /\ TypeOK'
  BY LedgerGrows, TypeStep
<1>1. ASSUME UNCHANGED <<log, progress, done, forgot>>
      PROVE  Memory' /\ Once'
  BY <1>0, <1>1, MemoryStays
<1>2. ASSUME NEW c \in Commands, NEW phase \in Phase, Work(c, phase)
      PROVE  Memory' /\ Once'
  <2>1. /\ c \notin Sleepy /\ UNCHANGED <<log, forgot, ledger>>
        /\ done' = done \cup {<<c, phase>>} /\ progress' = [progress EXCEPT ![c] = phase]
        /\ progress[c] \notin Terminal
    BY <1>2 DEF Work, Terminal
  <2>2. \A d, p : Did(d, p)' <=> Did(d, p) \/ (d = c /\ p = phase)
    BY <2>1 DEF Did
  <2>3. \A n \in Nodes : Node(n)!Recent' = Node(n)!Recent /\ ToSet(log'[n]) = ToSet(log[n])
    BY <2>1 DEF Node!Recent, ToSet
  <2>4. Memory'
    <3>1. ASSUME NEW n \in Nodes, NEW t \in Tokens, t \in ToSet(log'[n])
          PROVE  \E d \in queued' \cap Sleepy, p \in Phase :
                    Target[d] = n /\ token'[d] = t /\ Did(d, p)'
      BY <2>1, <2>2, <2>3, <3>1 DEF Memory, ledger
    <3>2. ASSUME NEW d \in Sleepy, NEW p \in Phase, Target[d] \notin forgot', Did(d, p)'
          PROVE  token'[d] \in ToSet(log'[Target[d]])
      <4>1. Did(d, p) /\ Target[d] \notin forgot /\ token'[d] = token[d]
        BY <2>1, <2>2, <3>2 DEF ledger
      <4>2. Target[d] \in Nodes /\ token[d] \in ToSet(log[Target[d]])
        BY <4>1 DEF Memory
      <4> QED BY <2>3, <4>1, <4>2
    <3>3. \A n \in Nodes \ forgot' : ToSet(log'[n]) \subseteq Node(n)!Recent'
      BY <2>1, <2>3 DEF Memory
    <3> QED BY <3>1, <3>2, <3>3 DEF Memory
  <2>5. Once'
    <3>1. ASSUME NEW d \in Sleepy, NEW p \in Phase, NEW q \in Phase,
                 Target[d] \notin forgot', Did(d, p)', Did(d, q)'
          PROVE  p = q
      BY <2>1, <2>2, <3>1 DEF Once
    <3>2. ASSUME NEW d \in Commands \ Sleepy, NEW p \in Terminal, Did(d, p)'
          PROVE  progress'[d] = p
      <4>1. CASE d = c /\ p = phase
        BY <4>1, <2>1 DEF TypeOK
      <4>2. CASE Did(d, p)
        BY <4>2, <2>1 DEF Once, TypeOK
      <4> QED BY <4>1, <4>2, <3>2, <2>2
    <3> QED BY <3>1, <3>2 DEF Once
  <2> QED BY <2>4, <2>5
<1>3. ASSUME NEW c \in Commands, Obey(c)
      PROVE  Memory' /\ Once'
  <2>0. PICK n \in Nodes : n = Target[c]
    OBVIOUS
  <2>12. PICK t : t = token[c]
    OBVIOUS
  <2>1. PICK phase \in {"succeeded", "expired"} : done' = done \cup {<<c, phase>>}
    BY <1>3 DEF Obey
  <2>2. /\ UNCHANGED <<ledger, progress>> /\ c \in queued \cap Sleepy
        /\ phase \in Phase /\ t \in Tokens
        /\ log' = [log EXCEPT ![n] = Append(@, t)]
    BY <1>3, <2>0, <2>12 DEF Obey, Phase, Provided
  <2>3. t \notin Node(n)!Recent
    BY <1>3, <2>0, <2>12 DEF Obey, Node!Take, Node!Recent
  <2>4. \A d, p : Did(d, p)' <=> Did(d, p) \/ (d = c /\ p = phase)
    BY <2>1 DEF Did
  <2>5. /\ \A m \in Nodes \ {n} : log'[m] = log[m]
        /\ log'[n] = Append(log[n], t) /\ log[n] \in Seq(Tokens)
    BY <2>2 DEF TypeOK
  <2>6. \A m \in Nodes \ {n} :
           Node(m)!Recent' = Node(m)!Recent /\ ToSet(log'[m]) = ToSet(log[m])
    BY <2>5 DEF Node!Recent, ToSet
  <2>7. ToSet(log'[n]) = ToSet(log[n]) \cup {t}
    <3> DEFINE s == log[n]
    <3>1. s \in Seq(Tokens) /\ t \in Tokens /\ log'[n] = Append(s, t)
      BY <2>2, <2>5
    <3> HIDE DEF s
    <3>2. /\ DOMAIN s = 1 .. Len(s) /\ DOMAIN Append(s, t) = 1 .. Len(s) + 1
          /\ Append(s, t)[Len(s) + 1] = t /\ Len(s) \in Nat
          /\ \A i \in 1 .. Len(s) : Append(s, t)[i] = s[i]
      BY <3>1
    <3>3. ToSet(Append(s, t)) = ToSet(s) \cup {t}
      <4>1. \A i \in 1 .. Len(s) + 1 : Append(s, t)[i] \in ToSet(s) \cup {t}
        <5> TAKE i \in 1 .. Len(s) + 1
        <5>1. CASE i \in 1 .. Len(s)
          BY <5>1, <3>2 DEF ToSet
        <5>2. CASE i = Len(s) + 1
          BY <5>2, <3>2
        <5> QED BY <5>1, <5>2, <3>2
      <4>2. \A i \in 1 .. Len(s) : s[i] \in ToSet(Append(s, t))
        <5> TAKE i \in 1 .. Len(s)
        <5>1. i \in 1 .. Len(s) + 1 /\ Append(s, t)[i] = s[i]
          BY <3>2
        <5> QED BY <5>1, <3>2 DEF ToSet
      <4>3. t \in ToSet(Append(s, t))
        <5>1. Len(s) + 1 \in 1 .. Len(s) + 1
          BY <3>2
        <5> QED BY <5>1, <3>2 DEF ToSet
      <4>4. ToSet(Append(s, t)) \subseteq ToSet(s) \cup {t}
        BY <4>1, <3>2 DEF ToSet
      <4>5. ToSet(s) \subseteq ToSet(Append(s, t))
        BY <4>2, <3>2 DEF ToSet
      <4> QED BY <4>3, <4>4, <4>5
    <3> QED BY <3>1, <3>3 DEF s
  <2>8. /\ forgot \subseteq forgot' /\ forgot' \subseteq forgot \cup {n}
        /\ n \notin forgot' => ToSet(log'[n]) \subseteq Node(n)!Recent'
    BY <1>3, <2>0, <2>12 DEF Obey
  (* A node that has forgotten nothing does not do a command again. *)
  <2>9. ASSUME n \notin forgot, NEW p \in Phase
        PROVE  ~ Did(c, p)
    <3>1. ToSet(log[n]) \subseteq Node(n)!Recent
      BY <2>9 DEF Memory
    <3>2. t \notin ToSet(log[n])
      BY <2>3, <3>1
    <3> QED BY <2>0, <2>12, <2>2, <2>9, <3>2 DEF Memory
  <2>10. Memory'
    <3>1. ASSUME NEW m \in Nodes, NEW u \in Tokens, u \in ToSet(log'[m])
          PROVE  \E d \in queued' \cap Sleepy, p \in Phase :
                    Target[d] = m /\ token'[d] = u /\ Did(d, p)'
      <4>1. CASE u \in ToSet(log[m])
        <5>1. PICK d \in queued \cap Sleepy, p \in Phase :
                    Target[d] = m /\ token[d] = u /\ Did(d, p)
          BY <4>1 DEF Memory
        <5> QED BY <5>1, <2>2, <2>4 DEF ledger
      <4>2. CASE m = n /\ u = t
        BY <4>2, <2>0, <2>12, <2>2, <2>4 DEF ledger
      <4> QED BY <4>1, <4>2, <3>1, <2>6, <2>7
    <3>2. ASSUME NEW d \in Sleepy, NEW p \in Phase, Target[d] \notin forgot', Did(d, p)'
          PROVE  token'[d] \in ToSet(log'[Target[d]])
      <4>1. token'[d] = token[d] /\ Target[d] \in Nodes /\ Target[d] \notin forgot
        BY <2>2, <2>8, <3>2 DEF ledger
      <4>2. CASE d = c
        BY <4>2, <4>1, <2>0, <2>12, <2>7
      <4>3. CASE Did(d, p)
        <5>1. token[d] \in ToSet(log[Target[d]])
          BY <4>1, <4>3 DEF Memory
        <5> QED BY <5>1, <4>1, <2>6, <2>7
      <4> QED BY <4>2, <4>3, <3>2, <2>4
    <3>3. \A m \in Nodes \ forgot' : ToSet(log'[m]) \subseteq Node(m)!Recent'
      <4> TAKE m \in Nodes \ forgot'
      <4>1. CASE m = n
        BY <4>1, <2>8
      <4>2. CASE m # n
        <5>1. m \in Nodes \ forgot
          BY <2>8
        <5> QED BY <5>1, <4>2, <2>6 DEF Memory
      <4> QED BY <4>1, <4>2
    <3> QED BY <3>1, <3>2, <3>3 DEF Memory
  <2>11. Once'
    <3>1. ASSUME NEW d \in Sleepy, NEW p \in Phase, NEW q \in Phase,
                 Target[d] \notin forgot', Did(d, p)', Did(d, q)'
          PROVE  p = q
      <4>1. Target[d] \notin forgot
        BY <2>8, <3>1
      <4>2. CASE d = c
        BY <4>1, <4>2, <2>0, <2>12, <2>4, <2>9, <3>1
      <4>3. CASE d # c
        BY <4>1, <4>3, <2>4, <3>1 DEF Once
      <4> QED BY <4>2, <4>3
    <3>2. ASSUME NEW d \in Commands \ Sleepy, NEW p \in Terminal, Did(d, p)'
          PROVE  progress'[d] = p
      BY <2>2, <2>4, <3>2 DEF Once
    <3> QED BY <3>1, <3>2 DEF Once
  <2> QED BY <2>10, <2>11
<1>4. ASSUME NEW n \in Nodes, ResetNode(n)
      PROVE  Memory' /\ Once'
  <2>1. /\ UNCHANGED <<ledger, progress, done>> /\ forgot' = forgot \cup {n}
        /\ \A m \in Nodes \ {n} : log'[m] = log[m]
        /\ log'[n] = <<>>
    BY <1>4 DEF ResetNode, TypeOK
  <2>2. \A m \in Nodes \ {n} :
           Node(m)!Recent' = Node(m)!Recent /\ ToSet(log'[m]) = ToSet(log[m])
    BY <2>1 DEF Node!Recent, ToSet
  <2>3. ToSet(log'[n]) = {}
    BY <2>1 DEF ToSet
  <2>4. \A d, p : Did(d, p)' <=> Did(d, p)
    BY <2>1 DEF Did
  <2>5. Once'
    BY <2>1, <2>4 DEF Once
  <2>6. ASSUME NEW m \in Nodes, NEW u \in Tokens, u \in ToSet(log'[m])
        PROVE  \E d \in queued' \cap Sleepy, p \in Phase :
                  Target[d] = m /\ token'[d] = u /\ Did(d, p)'
    <3>1. u \in ToSet(log[m])
      BY <2>2, <2>3, <2>6
    <3> QED BY <3>1, <2>1, <2>4 DEF Memory, ledger
  <2>7. ASSUME NEW d \in Sleepy, NEW p \in Phase, Target[d] \notin forgot', Did(d, p)'
        PROVE  token'[d] \in ToSet(log'[Target[d]])
    <3>1. Target[d] \in Nodes \ {n} /\ Target[d] \notin forgot /\ token'[d] = token[d]
      BY <2>1, <2>7 DEF ledger
    <3>2. token[d] \in ToSet(log[Target[d]])
      BY <2>4, <2>7, <3>1 DEF Memory
    <3> QED BY <2>2, <3>1, <3>2
  <2>8. \A m \in Nodes \ forgot' : ToSet(log'[m]) \subseteq Node(m)!Recent'
    BY <2>1, <2>2 DEF Memory
  <2> QED BY <2>5, <2>6, <2>7, <2>8 DEF Memory
<1>5. ASSUME \/ \E k \in Clients : Probe(k) \/ IssueNew(k) \/ IssueAgain(k) \/ IssueFails(k)
                                  \/ \E d \in Commands : Ask(k, d)
             \/ \E d \in Commands : IngestCommand(d)
             \/ \E f \in air : Relay(f) \/ IngestByToken(f)
             \/ \E m \in inbox : IngestResult(m)
             \/ UNCHANGED vars
      PROVE  Memory' /\ Once'
  <2>1. UNCHANGED <<log, progress, done, forgot>>
    BY <1>5 DEF Probe, IssueNew, IssueAgain, IssueFails, Ask, IngestCommand, Relay,
                IngestByToken, IngestResult, Record, vars, field
  <2> QED BY <2>1, <1>1
<1> QED BY <1>2, <1>3, <1>4, <1>5 DEF Next

IInv == TypeOK /\ Provided /\ Rows /\ Deeds /\ Memory /\ Once

LEMMA IInvHolds == Spec => []IInv
<1>1. Init => IInv
  BY TypeInit, RowsInit, DeedsInit, MemoryInit DEF IInv
<1>2. IInv /\ [Next]_vars => IInv'
  BY TypeStep, RowsStep, DeedsStep, MemoryStep DEF IInv
<1> QED BY <1>1, <1>2, PTL DEF Spec

(* Ledger and node agree on the outcome as long as the node remembers: in  *)
(* particular a command recorded as expired was not obeyed.                *)
THEOREM OutcomesAgree == Spec => []OutcomeAgrees
<1>1. IInv => OutcomeAgrees
  <2> SUFFICES ASSUME IInv, NEW c \in Commands, Unshared(c), Target[c] \notin forgot,
                      state[c] \in Terminal
               PROVE  {p \in Terminal : <<c, p>> \in done} = {state[c]}
    BY DEF OutcomeAgrees
  <2>1. Did(c, state[c]) /\ Terminal \subseteq Phase
    BY DEF IInv, Deeds, ResultIsTrue, Did, Terminal, Phase
  <2>2. ASSUME NEW p \in Terminal, Did(c, p)
        PROVE  p = state[c]
    BY <2>1, <2>2 DEF IInv, Once
  <2> QED BY <2>1, <2>2 DEF Did
<1> QED BY <1>1, IInvHolds, PTL

(* A command the node would take for a repetition was taken by it before:  *)
(* no command is silently passed over.                                      *)
THEOREM NothingPassedOver == Spec => []PassedWasTaken
<1>1. IInv => PassedWasTaken
  <2> SUFFICES ASSUME IInv, NEW c \in queued \cap Sleepy, Unshared(c),
                      token[c] \in Node(Target[c])!Recent
               PROVE  \E p \in Phase : <<c, p>> \in done
    BY DEF PassedWasTaken
  <2>1. Target[c] \in Nodes /\ token[c] \in ToSet(log[Target[c]]) /\ token[c] \in Tokens
    BY RecentIsLogged DEF IInv
  <2>2. PICK d \in queued \cap Sleepy, p \in Phase :
             Target[d] = Target[c] /\ token[d] = token[c] /\ Did(d, p)
    BY <2>1 DEF IInv, Memory
  <2>3. d \in Holders(Target[c], token[c]) /\ token[c] # 0
    BY <2>1, <2>2 DEF Holders, IInv, Provided, Tokens
  <2>4. d = c
    BY <2>3 DEF Unshared
  <2> QED BY <2>2, <2>4 DEF Did
<1> QED BY <1>1, IInvHolds, PTL
=============================================================================
