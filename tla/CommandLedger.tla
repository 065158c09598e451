--------------------------- MODULE CommandLedger ----------------------------
(***************************************************************************)
(* The life of a command: a client gives it a token and issues it, the     *)
(* outbox delivers it any number of times or never, the node obeys it and  *)
(* reports by token (a sleeping node) or by command id (a powered one),    *)
(* the Host Agent translates the token back, and the router records the    *)
(* result.  Frames and records are delivered in any order, repeatedly or   *)
(* not at all.                                                             *)
(*                                                                         *)
(* The router is the code of internal/siterouter/router.go, the client     *)
(* that of pkg/sdk/client.go; a router call is one transaction.            *)
(***************************************************************************)
EXTENDS Naturals, Sequences, SequencesExt

CONSTANTS Commands,   \* command ids
          Clients,    \* programs that issue commands
          Nodes,
          Target,     \* Target[c]: the node c is for
          Sleepy,     \* the commands of route class sleepy_tiny_control
          Given,      \* Given[c]: the token in the caller's payload, 0: none
          Hash,       \* commandTokenForID
          Epoch,      \* commandTokenEpochForEnvelope
          Posted,     \* commands that also arrive as ingested envelopes
          MaxToken,   \* 16#FFFF
          RingSize,   \* tokens a sleeping node remembers
          MaxTaken,   \* bound: tokens a node takes between resets
          MaxAsks,    \* bound: requests of clients
          None        \* no command

ASSUME CommandLedgerAssumption ==
    /\ None \notin Commands
    /\ Target \in [Commands -> Nodes]
    /\ Sleepy \subseteq Commands /\ Posted \subseteq Commands
    /\ MaxToken \in Nat \ {0} /\ RingSize \in Nat \ {0} /\ {MaxTaken, MaxAsks} \subseteq Nat
    /\ Given \in [Commands -> 0 .. MaxToken]
    /\ Hash \in [Commands -> 1 .. MaxToken]

VARIABLES
    rows,       \* command_ledger in the order of created_at
    token,      \* command_token of a row; 0 is NULL
    state,      \* state of a row, and the phase of its last command_execution
    queued,     \* commands with a row in outbox_queue
    client,     \* what each client is doing
    log,        \* tokens each sleeping node took since its last reset
    progress,   \* how far a powered node is with a command
    air,        \* result frames sent by sleeping nodes
    inbox,      \* results on the way from a Host Agent to the router
    answered,   \* history: commands whose client was told they are persisted
    asks,       \* requests so far
    known,      \* history: rows there were when it was asked for a fresh token
    done,       \* history: <<command, phase>> a node took or reached
    forgot      \* history: nodes that were reset or no longer know all they took

ledger == <<rows, token, state, queued>>
field == <<log, progress, air, done, forgot>>
vars == <<ledger, client, field, inbox, asks, answered, known>>

Phase == {"accepted", "executing", "succeeded", "failed", "rejected", "expired"}
Terminal == {"succeeded", "failed", "rejected", "expired"}
Tokens == 1 .. MaxToken

Node(n) == INSTANCE TokenMemory WITH log <- log[n]

(* validCommandTransitions *)
Allowed(from, to) ==
    \/ from = "issued" /\ to \in Phase
    \/ from = "accepted" /\ to \in Phase \ {"accepted"}
    \/ from = "executing" /\ to \in {"succeeded", "failed", "expired"}

Recorded == ToSet(rows)
Holders(n, t) == {c \in Recorded : Target[c] = n /\ token[c] = t}

(* ResolveCommandIDByTokenForTarget *)
Newest(n, t) ==
    IF Holders(n, t) = {} THEN None
    ELSE LET k == CHOOSE j \in DOMAIN rows :
                    /\ rows[j] \in Holders(n, t)
                    /\ \A i \in DOMAIN rows : i > j => rows[i] \notin Holders(n, t)
         IN  rows[k]

(* idx_command_ledger_command_token_scope_epoch *)
Conflict(c, t) == t # 0 /\ \E d \in Holders(Target[c], t) : Epoch[d] = Epoch[c]

Idle == [pc |-> "idle", cmd |-> None, token |-> 0, tries |-> 0, after |-> 0, seen |-> {}]

Init ==
    /\ rows = <<>>
    /\ token = [c \in Commands |-> 0]
    /\ state = [c \in Commands |-> "none"]
    /\ queued = {}
    /\ client = [k \in Clients |-> Idle]
    /\ log = [n \in Nodes |-> <<>>]
    /\ progress = [c \in Commands |-> "none"]
    /\ air = {} /\ inbox = {}
    /\ asks = 0
    /\ answered = {}
    /\ known = [c \in Commands |-> {}]
    /\ done = {} /\ forgot = {}

-----------------------------------------------------------------------------
(* The client.                                                             *)

(* The clock is read before the transaction: the row goes behind those of  *)
(* that moment and anywhere among those written since.                     *)
Offer(k, c, t, seen) ==
    client' = [client EXCEPT ![k] =
        [pc |-> "issue", cmd |-> c, token |-> t, tries |-> 0, after |-> Len(rows), seen |-> seen]]

(* IssueCommand of the SDK, also again for a command id used before. *)
Ask(k, c) ==
    /\ client[k].pc = "idle"
    /\ asks < MaxAsks
    /\ asks' = asks + 1
    /\ IF c \in Sleepy /\ Given[c] = 0
       THEN client' = [client EXCEPT ![k] =
                [pc |-> "probe", cmd |-> c, token |-> Hash[c], tries |-> 0, after |-> 0,
                 seen |-> Recorded]]
       ELSE Offer(k, c, Given[c], {})
    /\ UNCHANGED <<ledger, field, inbox, answered, known>>

NextToken(t) == IF t = MaxToken THEN 1 ELSE t + 1

(* Mutant of Free: a token counts as free once its command is over. *)
FreeWhenOver(c, t) ==
    Newest(Target[c], t) \in {None, c} \cup {d \in Commands : state[d] \in Terminal}

Free(c, t) == Newest(Target[c], t) \in {None, c}

(* One turn of allocateCommandToken. *)
Probe(k) ==
    LET me == client[k]
        tries == me.tries + 1
    IN
    /\ me.pc = "probe"
    /\ \/ Free(me.cmd, me.token) /\ Offer(k, me.cmd, me.token, me.seen)
       \/ /\ ~Free(me.cmd, me.token) /\ tries < MaxToken
          /\ client' = [client EXCEPT ![k] =
                [me EXCEPT !.token = NextToken(me.token), !.tries = tries]]
       \/ /\ ~Free(me.cmd, me.token) /\ tries = MaxToken
          /\ client' = [client EXCEPT ![k] = Idle]
    /\ UNCHANGED <<ledger, field, inbox, asks, answered, known>>

Answer(k, c, a) ==
    /\ client' = [client EXCEPT ![k] = Idle]
    /\ answered' = IF a = "error" THEN answered ELSE answered \cup {c}

(* A new row of command_ledger, as the j-th in the order of created_at. *)
Insert(c, t, j) ==
    /\ rows' = InsertAt(rows, j, c)
    /\ token' = [token EXCEPT ![c] = t]
    /\ state' = [state EXCEPT ![c] = "issued"]

(* Mutant of IssueNew: the row is committed before the queue has it. *)
IssueUnqueued(k) ==
    LET me == client[k] IN
    /\ me.pc = "issue" /\ me.cmd \notin Recorded
    /\ ~Conflict(me.cmd, me.token)
    /\ \E j \in me.after + 1 .. Len(rows) + 1 : Insert(me.cmd, me.token, j)
    /\ queued' \in {queued, queued \cup {me.cmd}}
    /\ known' = [known EXCEPT ![me.cmd] = me.seen]
    /\ Answer(k, me.cmd, "persisted")
    /\ UNCHANGED <<field, inbox, asks>>

(* Mutant of IssueNew: the command id is not looked up. *)
IssueTwice(k) ==
    LET me == client[k] IN
    /\ me.pc = "issue"
    /\ ~Conflict(me.cmd, me.token)
    /\ \E j \in me.after + 1 .. Len(rows) + 1 : Insert(me.cmd, me.token, j)
    /\ queued' = queued \cup {me.cmd}
    /\ known' = [known EXCEPT ![me.cmd] = me.seen]
    /\ Answer(k, me.cmd, "persisted")
    /\ UNCHANGED <<field, inbox, asks>>

(* Router.IssueCommand: ledger and queue in one transaction. *)
IssueNew(k) ==
    LET me == client[k] IN
    /\ me.pc = "issue" /\ me.cmd \notin Recorded
    /\ ~Conflict(me.cmd, me.token)
    /\ \E j \in me.after + 1 .. Len(rows) + 1 : Insert(me.cmd, me.token, j)
    /\ queued' = queued \cup {me.cmd}
    /\ known' = [known EXCEPT ![me.cmd] = me.seen]
    /\ Answer(k, me.cmd, "persisted")
    /\ UNCHANGED <<field, inbox, asks>>

(* Mutant of IssueAgain: the row takes over the new token. *)
IssueReplaces(k) ==
    LET me == client[k] IN
    /\ me.pc = "issue" /\ me.cmd \in Recorded
    /\ token' = [token EXCEPT ![me.cmd] = me.token]
    /\ Answer(k, me.cmd, "duplicate")
    /\ UNCHANGED <<rows, state, queued, field, inbox, asks, known>>

(* lookupDuplicate finds the command id. *)
IssueAgain(k) ==
    /\ client[k].pc = "issue" /\ client[k].cmd \in Recorded
    /\ Answer(k, client[k].cmd, "duplicate")
    /\ UNCHANGED <<ledger, field, inbox, asks, known>>

(* No sendable route, or the unique index: nothing is written. *)
IssueFails(k) ==
    /\ client[k].pc = "issue" /\ client[k].cmd \notin Recorded
    /\ Answer(k, client[k].cmd, "error")
    /\ UNCHANGED <<ledger, field, inbox, asks, known>>

(* Ingest of an envelope of kind "command": a row and no queue entry. *)
IngestCommand(c) ==
    /\ c \in Posted \ Recorded
    /\ ~Conflict(c, Given[c])
    /\ Insert(c, Given[c], Len(rows) + 1)
    /\ UNCHANGED <<queued, client, field, inbox, asks, answered, known>>

-----------------------------------------------------------------------------
(* The nodes.                                                              *)

(* Mutant of Obey: the ring is written and not read. *)
ObeyAgain(c) ==
    LET n == Target[c] IN
    /\ c \in queued \cap Sleepy
    /\ Len(log[n]) < MaxTaken
    /\ log' = [log EXCEPT ![n] = Append(@, token[c])]
    /\ \E phase \in {"succeeded", "expired"} :
          /\ air' = air \cup {[node |-> n, token |-> token[c], phase |-> phase]}
          /\ done' = done \cup {<<c, phase>>}
    /\ forgot' = IF ToSet(log'[n]) \subseteq Node(n)!Recent' THEN forgot ELSE forgot \cup {n}
    /\ UNCHANGED <<ledger, client, progress, inbox, asks, answered, known>>

(* A sleeping node takes a command and sends the result once.  A token it  *)
(* remembers it takes for a repetition: nothing changes, nothing is sent.  *)
Obey(c) ==
    LET n == Target[c] IN
    /\ c \in queued \cap Sleepy
    /\ Len(log[n]) < MaxTaken
    /\ log' = [log EXCEPT ![n] = Append(@, token[c])]
    /\ Node(n)!Take(token[c])
    /\ \E phase \in {"succeeded", "expired"} :
          /\ air' = air \cup {[node |-> n, token |-> token[c], phase |-> phase]}
          /\ done' = done \cup {<<c, phase>>}
    /\ forgot' = IF ToSet(log'[n]) \subseteq Node(n)!Recent' THEN forgot ELSE forgot \cup {n}
    /\ UNCHANGED <<ledger, client, progress, inbox, asks, answered, known>>

(* Bound: a node is reset only while it has not forgotten anything. *)
ResetNode(n) ==
    /\ log[n] # <<>> /\ n \notin forgot
    /\ log' = [log EXCEPT ![n] = <<>>]
    /\ forgot' = forgot \cup {n}
    /\ UNCHANGED <<ledger, client, progress, air, done, inbox, asks, answered, known>>

(* External: a powered node works on a command once and reports each phase *)
(* by command id.                                                          *)
Work(c, phase) ==
    /\ c \in queued \ Sleepy
    /\ \/ progress[c] = "none" /\ phase \in {"accepted", "rejected"}
       \/ progress[c] = "accepted" /\ phase = "executing"
       \/ progress[c] = "executing" /\ phase \in {"succeeded", "failed"}
    /\ progress' = [progress EXCEPT ![c] = phase]
    /\ done' = done \cup {<<c, phase>>}
    /\ inbox' = inbox \cup {[id |-> c, phase |-> phase]}
    /\ UNCHANGED <<ledger, client, log, air, forgot, asks, answered, known>>

-----------------------------------------------------------------------------
(* Results on their way up.                                                *)

(* decodeCompactSummaryEnvelope resolves the token when the frame arrives; *)
(* the result of an unknown token is refused by the router for good.       *)
Relay(f) ==
    /\ f \in air
    /\ Newest(f.node, f.token) # None
    /\ inbox' = inbox \cup {[id |-> Newest(f.node, f.token), phase |-> f.phase]}
    /\ UNCHANGED <<ledger, client, field, asks, answered, known>>

(* Mutant of Accepts: any phase but the current one is taken. *)
AcceptsAny(c, phase) == state[c] # phase

Accepts(c, phase) == Allowed(state[c], phase)

(* A result is recorded when the phase is allowed; the current phase is no *)
(* news and any other is refused, both without effect.                     *)
Record(c, phase) ==
    /\ Accepts(c, phase)
    /\ state' = [state EXCEPT ![c] = phase]
    /\ UNCHANGED <<rows, token, queued, client, field, inbox, asks, answered, known>>

(* recordCommandResult with a command id. *)
IngestResult(m) ==
    /\ m \in inbox /\ m.id \in Recorded
    /\ Record(m.id, m.phase)

(* Mutant of Meant: the token is looked up without its scope. *)
MeantAnywhere(f) == {c \in Recorded : token[c] = f.token}

(* The rows for a token; the select has no order. *)
Meant(f) == Holders(f.node, f.token)

(* recordCommandResult when the envelope names the token only. *)
IngestByToken(f) ==
    /\ f \in air
    /\ \E c \in Meant(f) : Record(c, f.phase)

Next ==
    \/ \E k \in Clients :
          \/ \E c \in Commands : Ask(k, c)
          \/ Probe(k)
          \/ IssueNew(k)
          \/ IssueAgain(k)
          \/ IssueFails(k)
    \/ \E c \in Commands :
          \/ IngestCommand(c)
          \/ Obey(c)
          \/ \E phase \in Phase : Work(c, phase)
    \/ \E n \in Nodes : ResetNode(n)
    \/ \E f \in air : Relay(f) \/ IngestByToken(f)
    \/ \E m \in inbox : IngestResult(m)

Spec == Init /\ [][Next]_vars

-----------------------------------------------------------------------------
(* Properties.                                                             *)

TypeOK ==
    /\ rows \in Seq(Commands) /\ IsInjective(rows)
    /\ token \in [Commands -> 0 .. MaxToken]
    /\ state \in [Commands -> Phase \cup {"none", "issued"}]
    /\ queued \subseteq Commands
    /\ client \in [Clients ->
          [pc : {"idle", "probe", "issue"}, cmd : Commands \cup {None}, token : 0 .. MaxToken,
           tries : 0 .. MaxToken - 1, after : Nat, seen : SUBSET Commands]]
    /\ log \in [Nodes -> Seq(Tokens)]
    /\ progress \in [Commands -> Phase \cup {"none"}]
    /\ air \subseteq [node : Nodes, token : Tokens, phase : Phase]
    /\ inbox \subseteq [id : Commands, phase : Phase]
    /\ asks \in 0 .. MaxAsks /\ answered \subseteq Commands
    /\ known \in [Commands -> SUBSET Commands]
    /\ done \subseteq Commands \X Phase
    /\ forgot \subseteq Nodes

(* The token of c stands for c alone at its node. *)
Unshared(c) == token[c] # 0 => Holders(Target[c], token[c]) = {c}

(* A client is never given a token that a command for the same node had    *)
(* when it asked, whatever others issue while it probes.                   *)
AllocatedIsFresh ==
    \A c \in Recorded \cap Sleepy, d \in Commands :
        Given[c] = 0 /\ d \in known[c] /\ Target[d] = Target[c] => token[d] # token[c]

(* What the ledger says of a command happened at its node: a late, repeated *)
(* or reordered result never lands at another command.                      *)
ResultIsTrue ==
    \A c \in Commands : Unshared(c) /\ state[c] \in Phase => <<c, state[c]>> \in done

(* Ledger and node agree on the outcome as long as the node remembers: in  *)
(* particular a command recorded as expired was not obeyed.                *)
OutcomeAgrees ==
    \A c \in Commands : Unshared(c) /\ Target[c] \notin forgot /\ state[c] \in Terminal =>
        {p \in Terminal : <<c, p>> \in done} = {state[c]}

(* A recorded outcome stands: results that come late, twice or out of order *)
(* and repeated requests do not change it.                                  *)
OutcomeStands == [][\A c \in Commands : state[c] \in Terminal => state'[c] = state[c]]_vars

(* A command the node would take for a repetition was taken by it before:  *)
(* no command is silently passed over.                                      *)
PassedWasTaken ==
    \A c \in queued \cap Sleepy : Unshared(c) /\ token[c] \in Node(Target[c])!Recent =>
        \E p \in Phase : <<c, p>> \in done

(* Whoever was told that a command is persisted or known can rely on the   *)
(* outbox to have it, unless it came in as an envelope.                    *)
AnsweredIsQueued ==
    answered \ Posted \subseteq queued
=============================================================================
