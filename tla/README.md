# Verification of edge-fabric

TLA+ models of the edge-fabric mainline (Go under `src/internal`, `src/pkg`,
`src/cmd`; ESP-IDF firmware in C under `src/firmware`), TLC configurations that
check them on small instances, and TLAPS proofs for every value of their
constants. Paths below are relative to `src/`.

## 1. The system

edge-fabric connects battery and mains powered ESP32 nodes over LoRa, Wi-Fi and
USB to one *Site Router*. Nodes send compact frames; a *Gateway Head* (ESP32 on
a USB cable) forwards them to a *Host Agent*, which turns them into envelopes
and hands them to the Site Router, the only durable writer (SQLite). The router
keeps the ledgers and an *outbox* of messages to the field, which dispatch
passes of the router itself or of a Host Agent drain. Sleeping nodes fetch
their commands during a short downlink window after they wake.

| Component | State it keeps | Operations | Correct when |
|---|---|---|---|
| Outbox and dispatch (`siterouter/router.go`, `worker.go`, `route_replan.go`, `hostagent/egress.go`) | `outbox_queue` rows (status, route_status, lease, retry_count), `outbox_attempt` rows; per pass: the leased batch and the row at hand | enqueue, replan, lease, mark, record and update attempt, retry, ack, bury, recover, compact | a row is sent only under its current lease, a bounded number of times, ends settled, and its status tells the truth |
| Ingest and dedupe (`router.go` `Ingest`) | `messages`, `event_ledger`, `radio_packet_observation` | ingest; constraint errors become duplicate acks | one ledger entry per event however often it arrives; nothing new is taken for old |
| Command ledger (`router.go` `IssueCommand`, `recordCommandResult`; `pkg/sdk/client.go`) | `command_ledger`, `command_execution`, token scopes and validity | issue, resolve a token, record a result | phases only advance, a result reaches the command that was executed |
| Latest state (`router.go` `upsertLatestState`, `RebuildLatestState`) | `latest_state` | upsert, rebuild | arrival order does not matter, rebuild gives what upserts gave |
| Route planner (`router.go` `planOutboundRoute` and below, `contracts/policy`) | none (reads registry) | plan | sleepy, relay and payload rules are respected |
| Device registry, heartbeats, file chunks (`router.go`) | `node_manifest`, `node_lease`, `heartbeat_ledger`, `file_chunk_ledger` | upserts | a lease never exceeds its manifest; a file is complete only with all its chunks |
| Host Agent (`hostagent/agent.go`) | spool, reject and heartbeat files, on-air window | relay, flush | what the router did not take is spooled and not lost |
| Sleepy leaf (`node-sdk/main/sleepy_policy.c`) | command token ring, maintenance state, RTC copy, sequence number | one wake cycle | a command is executed once |
| Gateway Head (`gateway-head/main`) | radio and USB queues, heartbeat time | poll | one busy link does not starve the other |
| USB link and parser (`components/usb_link`, `fabric_proto`, `protocol/usbcdc`) | receive buffer, bounded queue | feed, read, resynchronise | a damaged frame costs itself, not its neighbours |
| Radio HAL (`components/radio_hal_sx1262`) | queue of received frames; the chip's mode | transmit, poll | the chip receives again after a transmission |
| On-air codec, JP profiles, CLIs, SDK, vendored driver | | | see section 10 |

Interaction is by calls inside a process (agent and router are linked into the
same command), by the shared SQLite file between commands, by files (spool), by
USB frames and by radio packets. There is no long-running scheduler in the
repository: a dispatch pass runs whenever `site-router` or `host-agent -mode
dispatch-once` is invoked.

What is hard to test: several commands on one database with leases that run out
while a worker is still at work; crashes between the transmission and the
update that records it; retries whose count is advanced in two places; selects
whose result is acted on later; tokens reused while old results are still
travelling; sleeping nodes whose RAM is gone after each cycle.
`PROJECT.json` lists each of these at its line under `hazards`.

## 2. Plan and where it stands

One module per component; a later one may use an earlier one. A module
`XProofs` holds the theorems about `X`, an `MCX` its small instances for TLC.

| Module | Models | Theorems |
|---|---|---|
| `Outbox` | the queue and both dispatch loops | `OutboxProofs` |
| `QueueRow` | what the queue promises for one message; `Outbox` implements it | `OutboxProofs` |
| `SleepyLeaf` | one node's wake cycles, command tokens, RTC memory | `SleepyLeafProofs` |
| `TokenMemory` | what a node promises about tokens; `SleepyLeaf` implements it, `CommandLedger` uses it | `SleepyLeafProofs` |
| `HostSpool` | relay, spool and flush of the Host Agent | `HostSpoolProofs` |
| `CommandLedger` | clients, router, Host Agent and nodes: tokens, results that arrive late, twice or never | `CommandLedgerProofs` |
| `LatestState`, `SiteLedger` | the order of states; `Ingest` with the ledgers it fills, copies of frames from several agents, retention, rebuild | `SiteLedgerProofs` |
| `RoutePlan`, `RoutePlanner` | the planner as a function; the registry and the calls that plan while it changes | `RoutePlannerProofs` |
| `UsbParser`, `GatewayHead` | the USB frame parser; the gateway's two tasks, its queues, the radio chip | `GatewayHeadProofs` |
| `SequenceFacts` | no code: lemmas about positions, sequences and folds that several proof modules cite | itself |

What would come next: the composition of `HostSpool` with `SiteLedger` (today the
one is the other's environment: late and repeated envelopes).

TLC explores the instances below completely. A theorem holds for every value of
the constants. Every invariant and every action property that a run checks is
also a theorem, and so are the two refinements. Left to TLC are the five liveness
properties (`EventuallySettled`, `QuietWindowCloses`, `SpoolDrains`,
`RoutesCatchUp`, `KeepsServing`), since neither fairness nor `ENABLED` is within
the provers' reach, and what the violation runs say.

Some definitions compute by a fold over a sequence: the sort and the upserts of
`LatestState`, the batch of `RoutePlanner`. The library's induction theorems take
an operator as a parameter, which the provers cannot instantiate. `SequenceFacts`
goes another way: a fold is the value of a function that the community modules
choose; `FoldExists` shows, by the least counterexample (`WFMin` on the naturals),
that such a function exists, so the chosen one satisfies its equations, and what
holds of it up to every prefix follows by a largest prefix (`LatestOfPrefix`,
`Counting`), once more without induction as a rule. `LastOf` and `Inserted` (what
an insertion does to the order of a sequence) serve the ledgers too.

## 3. Outbox

**State.** One value per row of `outbox_queue` for the columns that decide its
fate. `lease_until` is abstracted to the set `lapsed` of rows whose lease is
over; `LeaseRunsOut` is the passage of time. `created_at` is abstracted to a
free choice among rows of the same priority. `outbox_attempt` is the sequence of
a row's attempt statuses. The payload, the route plan and the reasons are left
out. Each process has the local variables of `dispatchLease`: the leased rows
it has not reached (`batch`), the row at hand, the attempt, the answer, and in
`pc` the router call it makes next. `granted`, `lessee`, `sends` and `answers`
are history: no action reads them.

**Actions.** A Router method is one SQLite statement or one transaction and
`Open` allows one connection, so a method is one action -- except
`RecoverExpiredLeases`, whose two UPDATEs run outside a transaction and are the
two actions `RecoverDead` and `RecoverRequeue`. The code reads the clock once
for both; the model lets the second see leases that lapsed in between, as a
pass that started then would. `ReplanQueuedRoutes` is a select
(`SelectForReplan`) and a later guarded update. The router worker and the agent
run the same calls in different orders: `FirstCall`, `NotesFirst`,
`AfterSettled` and `GiveUp` say where they differ. `Open` runs the recovery
too; a command that opens the database for something else behaves like a pass
that ends before `LeaseOutbound`. `OutboxRoutePlan` only reads, and a leased row
has a plan, so `route_plan_missing` is not reached.

**Faults.** `Crash` ends a process between any two calls. `DbError` makes a call
fail without effect and follows the caller's error branch; the agent ignores
errors of `UpdateOutboundAttempt`. Both together happen at most `MaxFaults`
times. `Compact` needs that nobody holds the row: retention is counted in days,
a lease in seconds (15 s router, 30 s agent).

| Run | Question | Instance |
|---|---|---|
| `outbox_one_row` | status truth, budget, fence, replan race, attempts; does the outbox implement `QueueRow`; is every sendable row settled | 1 row, router + agent, 2 replanners, MaxRetry 2, 1 fault, fair |
| `outbox_dead_stays_dead` | finding: dead rows come back | 1 row, router + agent |

Why these bounds are enough to be interesting: two processes are needed for a
stale worker, and every hazard listed needs one row, except waiting in a batch.
MaxRetry 2 gives each row a first lease, a recovery or retry, and the exhausted
case. Batches of several rows are left to the theorems, which hold for every
set of rows and every batch size (`SendsAreBounded`, `StaleWritesAreFenced`).

**Fairness.** `EventuallySettled` assumes that passes keep being run, that a
call that can be made is made, and that time passes. The repository leaves the
invocation to the operator (cron, service manager); a site on which nobody runs
passes settles nothing. Enqueue, replan, compact, crash and errors are not fair.

**The abstract promise (`QueueRow`).** For one message: it is granted to one
worker per round, in at most `Rounds` rounds, is transmitted at most once per
round granted, and its phase moves with what the transport answered. `Outbox`
maps each row to it (`Phase`, `Row`): `leased` and `sending` are both *held*,
the lease holder is the process the lease was granted to (`lessee`, not the
column), and the rounds are counted by `granted`. `KeepsPromise` says that every
step of the outbox is, for every row, a step of `QueueRow` or none; among other
things an acknowledged row is final, since no step of `QueueRow` leaves
`acked`. What the
mapping hides is the batch, the attempts, the two-statement recovery and the
order of calls. `QueueRow` admits that a late worker transmits and that a dead
row comes back: that is what the code does (see the finding).

**Finding.** `DeadIsFinal` is violated: recovery buries an exhausted row without
clearing `lease_owner`, and `updateQueueState` has no condition on the status. A
worker that returns late sends the buried row and can leave it `acked`. The
state machine of `docs/09-storage-ledger-queue-and-recovery.md` section 4 has no
way out of `dead`. `SendBudget` still holds: the late send was counted.

**Known limit.** The fence compares worker ids. The defaults give every
`host-agent` the same id, and two agents that share one write over each other's
rows; the assumption `OwnIDs` of `StaleWritesAreFenced` says so, and the runs
give each process an id of its own.

**Proofs (`OutboxProofs`).** `TypeCorrect`, `StatusIsEarned`,
`OnlyReadyRowsLeave` and `SendsAreBounded` hold for every set of rows, processes
and planners. `SendBudget` is not inductive by itself: it needs that a lease
costs a retry before the next (`LeaseBudget`), that a process that has not yet
sent still has its share of the leases (`SendsCovered`, a cardinality over the
processes that may send), and which columns go with which status
(`LeaseColumns`). `StaleWritesAreFenced` needs the assumption `OwnIDs`, that
worker ids differ, and the invariant `LesseeOwns`.

`SendsAreRecorded` counts like `SendsAreBounded`: a process that has recorded its
attempt and not yet sent has one attempt of the row to itself (`AttemptsCover`).
`ImplementsQueueRow` goes action by action (`RowStepKeeps`): each is for the row it
touches one step of `QueueRow`, for every other row none. It needs, beside
`LesseeOwns` and what makes the status true, that `retries` tells the rounds
granted (`RoundsCounted`: one more while the row is in flight), that a row which is
acked, or was buried by the worker that held it, is behind that worker
(`OverIsBehind`), so that no step of `QueueRow` is asked to leave `acked`, and
which calls an agent and a router worker make (`RightCalls`). `EventuallySettled`
is model-checked only.

## 4. SleepyLeaf

**State.** The part of `s_state` that decides anything: the ring of recent
command tokens with its cursor, the maintenance flag and countdown, the sequence
number; `rtc` is the copy in RTC memory, `NoRtc` one that fails its magic,
version or checksum. `pc` is the position of the policy task in `app_main` and
`sleepy_policy_run_cycle`; `left` counts turns of the receive loop until the
deadline. The values of settings, the identity and the radio are left out.

**Actions.** One section under `s_state_lock` is one action, so calls of other
tasks (`SetMaintenanceAwake`, `EmitEvent`) come between any two. A received
command is one action up to the moment its result is sent (`SendResult`): the
check against the ring and the record are two sections, but only the policy task
touches the ring. Frames that do not decode, or are for another node, change
nothing and are a turn of the loop (`WindowTick`). A failed uplink aborts the
program (`ESP_ERROR_CHECK`), which is `Reset`; a failed poll only keeps the
deadline. `SleepUntilTimer` clears the RAM in deep sleep; `Reset` (external, the
ESP-IDF start-up code) reloads the RTC memory too.

| Run | Question | Instance |
|---|---|---|
| `sleepy_deep_sleep` | are ring (`KeepsTokens`), countdown and numbers right over deep sleep | 3 commands twice each, ring 2, 2 maintenance cycles, numbers modulo 3, 1 reset |
| `sleepy_light_sleep` | is no remembered command executed twice in the build without RTC copy; does the node sleep once digests stop | 4 commands twice each, one malformed, fair |

A ring of 2 and three commands is the smallest case in which the cursor wraps
and a token is evicted and then rightly taken again; numbers modulo 3 wrap
within one cycle. `NoEarlyRepeat` speaks of the time since the last reset, and
of builds that have persistence or do not use deep sleep: without the RTC copy a
node in deep sleep forgets its ring by design.

**Fairness.** The policy task's own steps and the passage of time (its loop has
a delay and the scheduler is preemptive). Nothing is assumed of the radio.

**Known limit.** A node sleeps once digests stop (`QuietWindowCloses`), not
sooner: every pending digest answered by a poll sets the deadline to now + 350
ms, whatever its target and however often. The same line can cut an 8 s
maintenance window short.

**Proofs (`SleepyLeafProofs`).** `TypeCorrect`, `MaintenanceEnds`,
`NumbersContinue` and `TokensNotRepeated` hold for every ring size, token set,
counter and build. All rest on `CopyIsCurrent`: while the policy task runs in a
build with persistence, the RTC copy equals what it was made from, because every
function that changes the RAM saves it before it gives up the lock. So what the
node knows when it wakes (`Memory`) is what it knew when it went to sleep, and
deep sleep is a step that changes nothing else. `MaintenanceEnds` adds
`Countdown`: a long window is always paid for by a cycle of the countdown.
`TokensNotRepeated` adds `RingIsLog`: the ring holds, at its cursor and backwards,
the last `RingSize` tokens executed since the last reset. The last two theorems
assume `Remembers` (the RTC copy exists or the build does not use deep sleep);
without it a node forgets its ring in each deep sleep. `NoRtcAssumption` says
that a copy that fails its checks is none of the valid ones. From `RingIsLog`
follows `ImplementsTokenMemory`: every step of the node is one of `TokenMemory`
or changes nothing it sees, so `CommandLedger` may use the promise in place of
the firmware. `QuietWindowCloses` is model-checked only.

## 5. HostSpool

**State.** The spool file as a sequence of lines, each one record or the debris
of several (`whole`), `long` when the scanner's buffer cannot hold it, with
`openTail` for a last line without newline; the rejects file, which nothing reads,
as a set and a torn last line (`torn`); the messages the router stored; for each process the
on-air window (`seen`), for each thread its position and, in a flush, the lines
of the open file it has not read and those it will leave. `linked` says whether
the open file still is the one at the path: after a rename or removal another
process goes on reading the old file. `told` is history: the answers given.

**Actions.** `Relay` is the on-air check, `Ingest...` the router's answer
(stored, refused with a `ValidationError`, any other error), `Reject` and `Spool`
the append under the mutex, `Remember` the on-air window. `FlushSpool` holds the
mutex all the time and calls the router for each line: `FlushOpen`, one
`Flush...` action per line, `FlushReplaces`. A message decoded from a frame gets
a new id, so copies of a frame are two messages with one `Key`. The passage of
the 5 s window is `Forget`.

**Faults.** `Outage`: the router fails. `Fault`: a file operation fails -- a
write of the spool or of the rejects may leave nothing, a part (`Cut`), all but
the newline, or, when it is the `Sync` that fails, the whole line -- or a process
crashes. A crash inside a write is a failed write followed by a crash. What is left
of a line too long for the scanner may itself be too long or not.

| Run | Question | Instance |
|---|---|---|
| `spool_keeps` | is what was answered kept, does the spool drain | 1 process with 2 threads, 3 messages (two of one frame, one of them too long for the scanner; one refused), 2 outages, 2 faults, fair |
| `spool_torn_line` | finding: debris swallows the next record | 1 thread, 2 messages, 1 fault |

Two outages let a message be spooled and its first flush fail; two faults let a
torn write be followed by a crash or by a failed rewrite.

**Fairness.** Flushes are repeated (by the operator: nothing in the repository
calls `FlushSpool` but the `flush-spool` mode) and a relay that was begun goes
on. `SpoolDrains` speaks of behaviours in which no line gets longer than the
scanner's 1 MiB: such a line ends every flush early.

**Finding.** `SpoolIsABuffer` fails after one failed write: the next record is
appended to the debris and both end, as one raw line, in the rejects file.
`NothingLost` counts that as kept: the text is still there for a person to find,
and no flush will offer it again.

**Known limit.** The mutex is one per process. Two agents on the default spool
path lose lines: the one replaces the file by what it read before the other
appended. The run has one process, the theorems assume `OneMutex`.

**Proofs (`HostSpoolProofs`).** `TypeCorrect` and `OnlyRefusedRejected` hold for
any number of processes and threads. `TypeCorrect` includes `Sections`: no two
threads of one process are in `FlushSpool` at once, and a thread outside it has no
lines in hand (an append is one action and needs no such clause). A thread that is about to append to the
rejects got there by a refusal (`Refused`), and a flush rejects only what the
router refused or what is no record. `AnsweredIsKept` and `DuplicatesAreKept`
assume `OneMutex`. Neither property is inductive: between the first line of a
flush and the replacement of the file, what was answered is partly in the file,
partly with the router, and a failed rewrite must find it in the old file still.
`Flushing` says that one flush runs at a time and that what it has read is with
the router, among the rejects or among the lines it leaves; `Ended` that a file
with an open last line has a line; `Noted` that a message is kept before its key
is remembered. `KeptStays` then carries both: what is kept after each step
includes what was kept before it. `SpoolDrains` is model-checked only.

## 6. CommandLedger

**State.** `rows` is `command_ledger` in the order of `created_at`, with the
columns `token` and `state` (which is also the phase of the last
`command_execution`); `queued` the commands with a row in `outbox_queue`. Each
client is between two router calls of the SDK's `IssueCommand`. `log` is what a
sleeping node remembers, an instance of `TokenMemory` for each node. `air` holds
the result frames ever sent and `inbox` the results a Host Agent has taken in:
nothing is removed from either, so a result may be used again or never, in any
order; the spool of section 5 is one way for it to be late. `known`, `done`,
`forgot` and `answered` are history.

**Actions.** `Ask` and `Probe` are the SDK (one call of the router for each token
it tries), `IssueNew`, `IssueAgain`, `IssueFails` one call of
`Router.IssueCommand`. It reads the clock before the transaction, so a row may be
stamped before one that is already there: `IssueNew` chooses the place. A command
may also come in through `Ingest` (`IngestCommand`). The outbox is reduced to
its promise: a queued command is delivered any number of times. `Obey` is a sleeping
node; what it takes for a repetition changes nothing. `Work` is a powered node
(external), which reports by command id. The Host Agent translates a token when
the frame arrives (`Relay`); an envelope with a token only is translated by the
router (`IngestByToken`, a select without order). A result whose phase is not
allowed is refused for good (`Record`).

| Run | Question | Instance |
|---|---|---|
| `commands_between_site_and_node` | do tokens, ledger and nodes agree | 2 clients, 3 requests, 2 commands whose hashes collide (one with an expiry time, so that the unique index lets them share), 1 for a powered node that has the same number as its caller's token, 2 tokens, ring 1, 2 tokens per life of a node |

Two tokens and two commands that hash to the last one make the probing wrap; a
ring of 1 makes the node forget the first when it takes the second. Three requests
let each command be issued once or one again during a race of two clients. The
clients are symmetric. `OldestIfAny` fixes the place of the powered node's
command among the rows: it has a node to itself.

`AllocatedIsFresh` is about the rows there were when the client asked
(`known`): a token can still be given twice when two clients ask at once, which
the unique index refuses unless the epochs differ.

`ResultIsTrue`, `OutcomeAgrees` and `PassedWasTaken` speak of commands whose
token stands for them alone (`Unshared`). Two commands of one node share a token
when two clients race or a caller chooses it; `docs/KNOWN_LIMITATIONS.md` knows
that the newest then gets the result. `OutcomeAgrees` also needs that the node
has not forgotten (no reset, no more tokens taken than the ring holds): a node that
did may report `expired` for what it has obeyed, and nothing in the code prevents it.
`AnsweredIsQueued` excludes commands that came in through `Ingest`.

**Proofs (`CommandLedgerProofs`).** All seven properties of the run hold for any
commands, clients and nodes, any number of tokens and any ring. `Provided` (a
client at work has a command, a queued command of a sleeping node a token) makes
`TypeOK` inductive. `Rows` says which columns a row has when, from which
`AnswersAreKept` and `OutcomesStand` follow. `Fresh` follows one client: no row
it saw when it asked has gone, and once it has settled on a token none of those
has it. `Deeds` is the heart of `ResultsAreTrue`: a frame on the air and a result
in an inbox tell what a command of that node and token did; as a token, once
unshared, was so since its row came (`UnsharedBefore`), a result that is late or
repeated cannot land elsewhere. `Memory` and `Once` add the node: what it
remembers is what its commands did, and as long as it has forgotten nothing it
did each once; `OutcomesAgree` and `NothingPassedOver` follow. `OutcomesAgree` so
says nothing of a node that has forgotten, nor of a shared token. The lemmas
`Inserted` (what inserting a row does to the order) and `LastOf` (a newest row
exists) are in `SequenceFacts`.

## 7. SiteLedger and LatestState

**State.** `messages` is the table of that name, `readings` its rows of kind
`state` in table order with `persisted_at`; `ledger`, `observed`, `latest`,
`reports` (heartbeats and fabric summaries) and `chunks` are the ledgers
`Ingest` fills. `sent` and `heard` say when a node sent a frame and when each
agent decoded a copy of it. `answered` and `swept` are history.

**Actions.** `Ingest` of one envelope is one transaction and one action, split by
its outcome: `Refuse` (validation, or the step of the kind fails and all is
rolled back), `AnswerDuplicate`, `AnswerHeardAgain` (another copy within the
window of the on-air key) and `Persist`. Any envelope may be handed in at any
time and again, which is what agents with a spool and clients that repeat do.
`Compact` deletes from one table (a fabric summary is never deleted), `Rebuild` is `RebuildLatestState` with its
stable sort (an insertion sort for up to 20 rows). A unit of time is the five
minutes in an event id; at an age of exactly `Window` either side of the
comparison may be taken.

`Newer` is the order of states. It is not transitive when states of one moment
mix sessions, so `LatestIsNewest` speaks of subjects whose states are in order.

| Run | Question | Instance |
|---|---|---|
| `site_ledger` | is a frame counted once, is what was answered done, is the state the newest, is a complete file whole | 2 frames of one key, 2 agents; 3 states of one moment (two of one session), 4 chunks of two cuts, 2 heartbeats, a fabric summary, one event under two ids, one invalid envelope; window 2, 4 units, 4 messages |
| `rebuild` | finding: rebuilding does not give what upserts gave | 2 states without a time |

Two frames of one key are what a node that counts from 0 again sends; two agents
and a window of two units let copies fall on both sides of a bucket and of the
window. `OneTopic` keeps frames and posts apart (they share only `messages`),
`Alike` permutes frames of one key and agents.

**Finding.** `RebuildKeeps` is violated for states without `occurred_at`: upserts
compare session, sequence and message id, the rebuild gives each the time it was
persisted, so the last persisted wins, and its row then carries that time.

**Known limit.** The window slides: each copy taken within it prolongs it, so a
key that keeps arriving is suppressed for as long as it does
(`docs/KNOWN_LIMITATIONS.md:31`). A frame sent anew under an old key within the
window is one event to the router.

**Proofs (`SiteLedgerProofs`).** `FramesAreCountedOnce`: that the window has closed
says something of the entries only because each entry is followed by an
observation of its key, or left behind by more than a window (`Followed`), and
because retention keeps observations longer than a window
(`SiteLedgerAssumption`). `CompleteFilesAreWhole`: `FileChunkProgress` counts rows
and looks at the first and the last index; that there is no hole follows from the
primary key and from all rows of a file having one total (`Cut`), by an argument
on cardinalities.

`LatestStateIsNewest` says of every subject whose states are in order that its row
is the newest kept. `RowOf(r, R)` is what a row is worth: it is one of the states
`R`, none of them is later, and where the order is one it is the newest.
`UpsertedRow`: an upsert takes the row of `R` to the row of `R` with the new state.
So a row made by upserts as they came is right, and so is one that
`RebuildLatestState` makes, for the sort neither loses nor adds a candidate
(`SortKeeps`) and the upserts of the sorted candidates are then the same fold
(`RebuiltIsNewest`). Since the row of a set in order is unique (`OneRow`),
`RebuildChangesNothing` follows: where every state says when it was, rebuilding
gives what upserts gave, in whatever order they came. The finding above is exactly
what that hypothesis excludes.

`AnswersAreKept` assumes that message ids are unique (`IdsAreUnique`;
`newMessageID`, `pkg/sdk/client.go:237`, takes them from the clock and random bytes): of two envelopes
under one id the second is answered and dropped. `NoRowIsNone` says that the value
for a missing row is no state. The invariant has five parts: the lookups
find what was kept (`Findable`), every row that a kept message wrote is there or
was swept (`RowsKept`), no summary is swept (`SummariesStay`), no row of `latest_state` is earlier than a state kept
(`NoneLater`, also across a rebuild), and what was answered is kept or is one more
copy of an event that is (`AnswersKept`).

## 8. RoutePlan and RoutePlanner

**State.** The registry (`manifests`, `leases`), the queued rows with plan and
route status, their order by `updated_at`, and for each process the rows of its
batch and what it has read for the row at hand. `RoutePlan` is
`planOutboundRoute` as a function of request, target and relay, with the policy
tables (`route-classes.json`, `radio-budget.json`) and the airtime arithmetic of
the one profile the planner uses.

**Actions.** `IssueCommand` plans within its transaction and is one action.
`EnqueueOutbound` and `ReplanQueuedRoutes` read manifest and lease of target and
relay in single queries: each read is an action, and `Change` (a manifest or
lease reported or given anew, `RegisterDevice`) may come between any two and
before the write. The unique short id refuses a lease. A query that fails
(`ReadFails`) gives a replanned row a blocked plan and refuses an enqueue; a write
that fails (`WriteFails`) ends the call with the rest of its batch, without a mark
on the row.

| Run | Question | Instance |
|---|---|---|
| `routes` | does only a permitted plan make a row ready, is a ready row left alone, do waiting rows catch up | a sleeping leaf and a relay whose radio may go; 2 requests, one to the leaf over the relay (`lora_relay_1`), one to the relay (`redundant_critical`); 1 caller, 2 replanners of 1 row at a time; 2 changes, 1 failing query or write, 2 calls under way; fair |
| `sleepy_relay` | finding: a sleeping leaf as next hop | 1 leaf, 1 request |

`Permitted` is written from what the classes, the profile, the lease and the
manifest allow, not along the planner's paths. `Limit` 1 is the smallest batch
that could starve a row behind a blocked one. `MaxRows` counts the rows there
are when a call begins. The run has two route classes; the other classes and the
compact, maintenance and unclassed paths of the
planner are in the model and in the theorems, which hold for any requests.

**Fairness.** `RoutesCatchUp` assumes that replans are run again and again (by the
CLI or the `ReplanWorker`), each by one or other process, and that a call that
was begun goes on. The registry comes to rest because `MaxChanges` is finite.

**Finding.** `SleepyNeverRelays` is violated: the lease of a `sleepy_leaf` may name
`lora_relay` as its bearer, since `validateLeaseAgainstManifest` compares media,
and `redundant_critical` requires no role.

**Known limits.** A row that is ready is not planned again when its short ids are
given to another device. The constraint error of a short id is no
`ValidationError`, so a Host Agent spools the lease and offers it for ever.

**Proofs (`RoutePlannerProofs`).** `TypeCorrect` is more than types: no short id is
leased twice (`Registry`), the order by `updated_at` lists the rows there are, each
once, and a row's status follows from its plan (`Rows`), and a call has read entries
of the registry for what it has read and asks only for nodes of the request it is
at (`Calls`). Selecting a batch and moving a row to the end are the lemmas
`SelectedQueued` and `TouchedKeeps`. It assumes that the value for a missing row is
not a row (`NoRowIsNone`). `OnlyPermittedPlans` goes along the planner's
paths one by one (`PlanPermitted` and its lemmas), then shows that what a call
has read is what it plans from; `ReadyRowsStay` follows from `RowsKept`, what each
action may do to a row. `RoutesCatchUp` is model-checked only.

## 9. UsbParser and GatewayHead

**State.** Bytes are kept as symbols: two of magic, the length, a payload, one for
the checksum. A symbol carries its place in the stream, the ends of the frame it
was written for, and what a parser out of step would read in it; the checksum is
right when the symbols in the buffer are those of one frame. `wire` is what the
host has written, `chunks` the backend's queue with its flag `overflowed`,
`hand` the chunk being parsed, `buffer` the parser, `rx` and `radio` the queues
of frames, `chip` the mode of the radio and the packet it holds.

**Actions.** Two tasks. The USB task reads and queues a chunk or drops it
(`Receive`) and raises the flag in a section of its own (`Mark`). After a drop or a
short read the rest waits for the next event; `Receive` may then happen at any
time or never. The runtime task
polls: `Check` (the flag), `ResetParser`, `Drain`, or `Fetch` and `Parse` byte by
byte; then `ServeRadio`, `HandleUsb`, `HandleAir`, `Heartbeat`. An error in a step
ends the poll, as in the code. The chip (external) receives, overwrites a packet
not fetched, and ends a transmission by itself; the host (external) writes whole
frames or stops in one.

**Faults.** A write cut short; a full queue at each of the three places; an SPI
transfer that fails before or after what it would clear or command, so that the
chip may transmit though the host was told of a failure. An end of transmission
that is cleared but not acted on leaves the chip *deaf* until the next one.

| Run | Question | Instance |
|---|---|---|
| `gateway` | is nothing spliced, are frames in order and once, is a loss near its cause, does the poll keep serving both sides | 2 frames of 4 or 5 symbols and 1 cut, chunks of 3, queues of 1; 3 packets, 2 failing transfers; fair |

Chunks of 3 meet frames of 4 and 5 and every cut at all offsets. Queues of one
item make every overflow happen. `WrittenFirst` lets the host be ahead of the USB
task; `OneConcern` keeps the radio still in behaviours with a cut or a stray magic
byte, so that such a behaviour is about the link alone. What a behaviour is about
is settled before anything is read, so no step that fairness asks for is held back
by the constraint.

`NoSplice` excepts the time from the overflow to the reset. TLC shows why: the USB
task may drop a chunk and queue the next between the look at the flag and the
fetch, and the parser then holds both sides of the gap until the flag is seen.
Within that time `InOrder` rests on the checksum. `LossIsNear` is what
"parser will resync" amounts to: a frame is lost only if within one frame's
length before it, or in it, something was dropped or cut or read as magic.

**Fairness.** The runtime task runs, and a transmission ends (the chip's own
timeout). The USB task is not assumed to run: it waits for events of the host.
Nothing is assumed of the host but that it pauses in the end: the service loop
runs until no chunk is left, so a host that never pauses keeps the poll there.

**Known limits.** The gateway does not wait for the end of a transmission before
it begins the next, which then replaces it. A packet that arrives after the
interrupts were cleared and before the transmission begins (`Transmit`) is found by
the next poll, which then tells the chip to receive: the transmission is given up
though the host was told `radio_sent`. After a failing transfer the chip may
be deaf until the next transmission. A magic byte in a payload can make a parser
that is out of step lose one more frame.

**Proofs (`GatewayHeadProofs`).** For queues of any depth, frames of any length and
reads of any size. `NothingSpliced` rests on `Pipe`: buffer, hand, chunks and wire
are pieces of the stream in this order, each without a gap in itself (`Sound`) and
joined to the next unless the flag is raised, a drop is being marked or the parser
is about to be reset (`Linked`). `FramesInOrder` rests on `Order`: what was found and
what is still on its way is sorted (`Sorted`), every symbol is one of the frame it
names (`Symbolic`), and what was found are whole frames whose end lies before
everything still to come (`Frames`); a frame that passes the checksum is therefore
whole and later than all found before.

`LossIsExplained` needs to know where the parser is with respect to frames it may
never have seen. `Track` says it. `Layout`: the frames and cuts lie one after the
other, each frame beginning where the stream begins or the last one ended or was
cut (`Boundary`). `Telling`: what each symbol on the way or in the buffer reads as,
by its place in its frame. And there is a place `N` in the stream (`Cursor`) such
that all before it has come to the parser or was dropped, and no more. At `N`,

- the buffer begins like a frame and is not yet as long as it says (`Growing`), and
  ends at `N` unless something was dropped within its length (`Reaching`);
- if nothing was cut or dropped before `N`, the buffer begins at the last boundary
  (`InStep`);
- a whole frame that `N` is inside is in the buffer from its first symbol on, or
  there is a reason near (`InFrame`);
- a whole frame before `N` that was not found has its reasons (`Missed`).

`TrackDropping` shows that a drop anywhere leaves all of this true at the same `N`,
with what was dropped as a reason; `TrackGrows` that a write does;
`CursorNext`, `InStepNext`, `InFrameNext` and `MissedNext` move `N` past the symbol
that is parsed. The core is `WithoutReason`: if nothing near was cut, dropped or
astray, a buffer that is not empty when a frame begins would have to begin at a
true first symbol of an earlier frame, which is then whole and shorter than the
buffer, or was cut near. `Following` then takes the parser to the frame's end,
where it is found or, the queue being full, dropped. `KeepsServing` is
model-checked only.

## 10. Not modelled

- The byte layouts of on-air and USB frames and the Go reader of the host side
  (`protocol/onair`, `compactcodec`, `usbcdc`): pure conversions, covered by golden
  vectors in the repository. In the modules a frame is the fields that decide
  something.
- Metrics and listings: they only read. Schema and migrations: run once at `Open`.
- `pkg/fabric` and the command line tools: they fill in envelopes and manifests and
  make one call each; the processes of `Outbox` and `RoutePlanner` are their
  invocations.
- The registers of the SX1262 and the vendored driver: their state is in hardware;
  what the gateway relies on is in `GatewayHead`.
- The Python implementation: kept by the repository as a non-authoritative
  reference.

`PROJECT.json` names every component and its status, and every hazard at its line.
Where a property covers a hazard only in part the hazard's note says which part is
left. Hazards without a property are those for which the code has no answer that could
be stated: a result that is lost after its token was recorded, a node that counts
from 0 again, a token shared by two commands.
