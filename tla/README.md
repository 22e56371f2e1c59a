# A TLA+ development for DwarfAI-Miners

DwarfAI-Miners is a desktop program that shows the coding-agent sessions of a
person's machine as "dwarves" working in "mines" (project folders). A
background **Host** process (`src/src/host/`) owns the database, observes and
drives the agents, and serves one or more **windows** (`src/src/ui-main/`,
`renderer/`) and a **tray notifier** over a local connection.

This directory specifies, model-checks and proves the parts whose correctness
is in their interleavings:

- a request an agent makes of the person (an *ask*), from its opening to its
  verdict, and whom the program says a dwarf is asking for;
- which facts become system notifications, how long they stand, and how the
  process that draws them is kept alive;
- a message from its sending to its last mark, over drivers that queue, refuse
  and answer late;
- launched sessions across Host stops: the boot pass, the report, stops, exits;
- subtasks one agent delegates to others, with three independent ends;
- the frames of the Host on their way to UI main and on to a window's board;
- Reset metrics, a journaled saga over the database, the settings files and
  every attached window.

Every definition is translated from the code, and `PROJECT.json` maps it to the
lines it stands for.

## Inventory

The Host is single-threaded JavaScript: a handler runs to its end unless it
awaits. Its modules own their tables; a transaction is synchronous and the
events of a step are published to an in-process bus after its commit, so a
subscriber runs inside the step. Concurrency is what happens *between* two
awaits, between two transactions, between two events, and across a Host stop.
UI main and the renderer are two more such threads, joined to the Host by one
ordered connection and to each other by ordered IPC.

| Component | State | Operations | What is hard | What makes it correct | Module |
|---|---|---|---|---|---|
| asking: ask broker | `asks`, `ask_answers`; in memory `inFlight`, `heldExternal`, injections | open, step, submit, settle, resolve elsewhere, departure, sweep, reset, restart | the answer is handed to a provider between two transactions, for up to 30 s | record before acting; one hand-over; one verdict; nothing closed is reopened | `AskBroker` |
| asking: routes | `frontOf`, `keyOf` in memory; crew's asking fact | ask opened / closed, boot replay | memory that follows rows, several asks of one dwarf | the dwarf asks for its front ask | `AskRoutes` |
| attention: policy | `attention_keys`; gated, standing, reports in memory | fact, fact ended, presence, preference, notifier attach, reset | a gate that opens for many reasons; rows deleted under the memory | announced once; nobody waits behind an open gate; what stands is open and sent | `AttentionPolicy` |
| attention: notifier supervisor | machine 12C, its wait, unsettled starts | attach, detach, wait due, start failed | late results of older starts, slow processes | never stuck, never starts while someone is there, held to its budget | `NotifierPresence` |
| conversation: send | `messages` with their delivery; in memory calls, held messages, echoes; each driver's turn queue | send, hand-over, echo, turn end, retry, session end, boot | a hand-over awaited while turns end and echoes arrive | a mark is never taken back; none waits for nothing; handed over once per attempt | `MessageDelivery` |
| launching: recovery | launch records, recovery report; pass, Retry, coverage in memory; the processes | boot pass, Retry, Dismiss, exit check, Stop dwarf, Stop everything | processes that survived a stop, stops that cut in anywhere | no session resumed beside a survivor or after it left; what runs is heard, what is lost is offered | `HostRecovery` |
| delegation | delegation rows, machine 8; credentials, waits, held results in memory | delegate, wait, route, launch, hand off, lose, revoke | three independent ends and two awaits | settled along machine 8; a parent that left holds nothing; no wake-up and no result lost | `Delegation` |
| transport, host client, read model | frame sequence, replay ring, outbound queue; snapshot reader; window's follower | publish, subscribe, resume, read, forward, re-read | reconnects, back-pressure, two snapshots over one stream | each level misses no frame, goes back over none, ends with the Host's board | `WindowFrames`, `WindowBoard` |
| preferences: Reset metrics | the saga's journal; its run, the fan-out, acks; each UI's epoch | ask, step, continue, resume at boot, ack, detach | failed steps, stops, windows that come and go between frame and ack | the journal claims only what was done; asked windows follow; the boot goes on | `ResetSaga` |
| conversation: ingest | transcript rows by source key | ingest, turn ends, trims | the same entries seen twice | idempotence | – |
| crew | dwarf rows, status facts, timers | arrive, depart, asking, activity | several sources of one status | one dwarf per session; departure is final | parts in `AskRoutes`, `HostRecovery` |
| launching: launch | launch records, temporary dwarves | launch, retry | a start that is answered late or never | each launch settles once | as a step of `Delegation` |
| ledger | credits, coal | credit, backfill | repeated observations at a boundary | each unit is credited once | – |
| mines, observation | mines; cursors | declare, measure, poll | poll results out of order | a cursor never goes back | – |
| wiring | boot steps, drain, rollback builds | boot, drain, stop | order of construction and of closing | nothing is served before it exists | as `Boot` and `Crash` of each module |
| window modes | mode machine | open, switch | a switch asked during a switch | one transition at a time | – |
| suppliers, drivers, platform, jev, diagnostics, renderer | protocols, I/O, mapping, drawing | | file formats and other programs' protocols | | nondeterministic results |

`PROJECT.json` lists the components with their sources, status and what is left
out of each, and under `hazards` every place where this code can go wrong in a
way a test would hardly reach, at its line, with the properties that watch it.

## Modules

```
AskEmission ─► AskBroker ─► AskRoutes      AttentionPolicy      NotifierPresence
                │    ▲          │              │     ▲             │      ▲
  AskLifecycle ◄┘    │     MCAskRoutes         │  AttentionPolicy  │  NotifierPresence
  (refined by) AskBrokerProofs                 │    Proofs         │     Proofs
               MCAskBroker              MCAttentionPolicy      MCNotifierPresence

DeliveryRules ─► MessageDelivery     HostRecovery      Delegation ─► DelegationLifecycle
                  │    │     ▲          │      ▲          │    ▲       (refined by)
   DeliveryMarks ◄┘    │     │          │      │          │    │
   (refined by)        │     │          │  HostRecovery   │  DelegationProofs
                       │  MessageDelivery     Proofs   MCDelegation
                       │  Proofs    MCHostRecovery
                MCMessageDelivery

WindowFrames ─► WindowBoard ─► MCWindowBoard        ResetSaga ─► MCResetSaga
                    └─► WindowInvariants                └─► ResetSagaProofs
                             └─► WindowBoardProofs
```

An arrow to the right or down is EXTENDS. A proof module extends the module it
is about, and the `MC` modules give a model its small sets and its symmetry.
Definitions whose comment says "With a fault" are mutated forms of the one next
to them, one plausible bug each; no action uses them, and each property of the
runs has one that breaks it (`mutants` in `PROJECT.json`).

### AskEmission, AskBroker: the ask broker

`AskEmission` is the decision table of `domain/emission.ts`: what a session's
report becomes (a question card, a permission card with or without a channel,
an automatic denial, nothing).

`AskBroker` is the broker with its rows. The variables are the tables (`asks`,
`answers` for `ask_answers`, `records` for the "Answers:" message of an ask,
`crew`), the memory of `AskAnswerPaths` (`flight`, `held`, `injections`), the
boot reconcile of the conversation (`reconciling`), the running build and the
wall clock. A submit is three actions, as in the code:

1. `Submit` is transaction 1 (`critical`): idempotence by `requestId`, the
   front-ask guard, the pending `ask_answers` row, the record written as
   `sending`, the ask `answering`.
2. `ChannelAnswers` or `HandOverTimesOut` ends the hand-over, outside any
   transaction (the 30 s bound).
3. `Settle` is transaction 2; `SettleThrows` is transaction 2 rolled back,
   because a commit failed or because the row it presumes is gone.

Between them any other action may run: `Open`, `SetStep`, `ResolveExternally`
(the provider reports the request resolved, or cancels it), `Depart`, `Sweep`,
`TrimRecord`, `Reset`, `Crash`, `Boot`, `Tick`, `StepBack`. `told` is a history
variable: the verdicts each submit was answered with. Abstracted: the content of
cards and answers, option ids, status lines, and the refusal reasons other than
`ask-closed`.

`AskLifecycle` is what one ask promises: `MACHINE_6`, the transition table of
`askMachine.ts`, for each ask on its own. `ImplementsLifecycle` says that every
step of the broker moves every ask along a row of the table, deletes it as the
sweep or the reset may, or leaves it alone.

`AskRoutes` composes `AskBroker` with `routeAskStatus` of `askingRoutes.ts` and
the asking fact of crew. Publication is synchronous, so each broker step carries
the route of the events it publishes: `Closed` routes the asks it closed one
after the other (each reads the rows as the step left them), `Opened` the one it
opened. A boot replays the open asks a stopped Host left.

### AttentionPolicy, NotifierPresence: notifications

Facts begin and end in the world (`facts`); the routes hand them to the policy
and remember the keys (`handed`, the maps `keyOf` and `keysOf`). A fact may be
handed over again (`AskReported`, `TurnReported`), and `OnFact` then refuses a key
the ledger holds, a withdrawn one too (`Undecided`, the `already-decided` of
`decideLevel3.ts:92`). A turn end is reported again by a transcript that is read
again; `logged` is the log of turn ends, which stops that while it holds the row
and keeps the newest 50 of a dwarf. Ends that are no fact count among the 50, so
`TurnTrimmed` takes any row at any time. The broker announces an ask once; that
the policy may hear of an open one again is what `attentionPolicy.test.ts:115-128`
and `resetAttention.flow.test.ts:176-182` take it to bear. The policy
decides through `Gate` (`level3Gate`): suppressed, gated or emitted. `ledger` is
`attention_keys`; `gated`, `standing` and `reports` are the policy's maps;
`sent` is what the tray process was given and not told to withdraw. `announced`
counts the `AttentionNotified` published for each key, of a turn those since a
reset last deleted its row. `Decide` stands for
`decide`, with its claim, its publication and its frame, for one fact or for all
that are rechecked. `Reset` is the effect of the reset's database transaction on
this component: the deletion of keys, and the preferences put back to their
defaults with no event. Left out: the carry-over table (`attention_announced`
has no writer, so it is empty), `attention.sweep` (nothing schedules it), the
click counter, and names and titles. One notifier connection stands for any
number.

`NotifierPresence` is machine 12C and the processes it starts.
`NotifierSupervisor` drives the pure machine `notifierPresence.ts`; the
launcher's promise of each start is `listening`, the process it started
`running`. A process may attach, exit, be silent past the bound of its start and
attach later, or lose its connection and come back. Durations are abstracted,
and the counted starts carry ages up to `Window` instead of instants, so that
the state space is finite without a bound on time. `Trays` bounds how many
processes are followed at once; a start may take the slot of a late one. A wall
clock that steps back is not modelled here.

### DeliveryRules, DeliveryMarks, MessageDelivery: a message to its last mark

`DeliveryRules` holds the pure tables: the delivery machine of the message row
and what each receipt, error and kind of evidence makes of it. `MessageDelivery`
is `send.ts`, `retry.ts` and the boot reconcile over the rows: a message is
written, handed to a driver by an awaited call that may be answered late or
never, queued behind a turn, held for a turn's end, echoed, reacted to, retried,
and settled with evidence. Each of three driver kinds has the turn queue its
driver keeps (`AcpClient`, `CodexAppServerDriver`, the Claude stream driver),
because when a queued message goes out and what names it afterwards differs
between them. `Crash` drops the calls, the held messages
and the echo memory; `Boot` opens the reconcile window. `DeliveryMarks` is the
abstract specification: the mark of each message goes from sending to delivered
(✓), reacted (✓✓) or failed, a failure is left only by a retry of one that may
be retried, with one attempt more, and a row goes with a reset or the cap of 50,
never while it is sending. `MarksKept` is the refinement. Left out: texts, files, console typing, the bounds of the echo
buffers, Jev routing.

### HostRecovery: launched sessions across Host stops

`record` is each dwarf's launch record, `presence` what crew shows, `item` the
items of the latest report; `job`, `retry`, `stop` and `stopAll` are what is
left of the pass, of a Retry, of a stop, and of Stop everything; `procs` are the
processes the operating system has, `held` the one whose driver session this
Host holds. A handler commits and then tells crew in the same turn but in
another transaction: `tell` is what is still to be said, nothing runs before it
(`Quiet`), and only a Host stop may come between (`untold`). A resume works on
the row as it was read and writes it back with the new process. Left out: the
adopt row of the boot table (no driver of this build is adoptable), launches in
flight at the stop, the 500 ms spacing, message ids, the crash toast and
`stopped_by_person` (which only silences it), the later rounds of Stop
everything for a launch accepted meanwhile, observed dwarves, and a throw inside
`ownResumed` or `settleItem`.

### DelegationLifecycle, Delegation: a subtask with three ends

`DelegationLifecycle` is machine 8 for each delegation on its own.
`Delegation` has the rows, the credentials (issue, start failure, bind, revoke),
the tool calls with their awaited `parentOf` and their wait on a ticket, the
routing and launch of a worker, its arrival, its first turn's end held until it
is handed over, the flush of an answer to a connection that may be gone,
departures with what the routes do on them, the reset, `Crash` and `Boot`. The
admission is one transaction after an await, with the caps. `known`, `reached`
and `unrouted` are history: what a call may have told its parent, which results
were written to an open connection, and which departures the Host stopped
between crew's commit and the routes. Left out: the push of a result as a turn
input (`viaOf` never names it), parents without a credential, credential files,
the prompt relay, the failure line, a throw of a store, and a stop between the
write of an answer and its commit. The three failures of Jev's choice are one.

### WindowFrames, WindowBoard: from the Host's rows to a window

`WindowFrames` is the frame publisher with its replay ring, the outbound queue
of one `ui` connection (fold, overflow, drain, resync), `events.subscribe` with
its three answers and the frames held behind a result, `session.snapshot`, and
`SnapshotReader` at the other end. `WindowBoard` adds what is above it: UI
main's forward of frames and connection states (A-N02, A-N04), the window's own
read over the same connection (A-N01), and `followHost` of the read model with
its phases, buffer and re-reads. `snaps` is history: the last snapshots each of
them applied. Left out: the pages of a snapshot (built in one turn), the wait
for a Host that is not ready, the ring's bytes, the viewer and notifier targets,
deadlines of reads, a refused subscribe, batches, A-N04 states that overtake a
pending batch, and the stop and start of a follower. Before the first attach a
window's read waits in the code and fails in the model.

### ResetSaga: Reset metrics

`journal` is the row of the saga with its epoch and the steps done; `run` the
saga in memory, `unfinished` what a Host may continue, `pending` the fan-out
still to be acknowledged. Each step may fail or find a file locked; a Host stop
may come between any two. Each UI main has its connection, the snapshot reader's
state, the frames on the wire, the acks on their way back and the epoch its
preferences have applied. A wire that overflowed loses frames and ends with a
resync. `treated` and `recipients` are history: which participants were really
treated for this reset, and whom it asked. Left out: a reconnect that resumes
from the ring (the model always reads anew), refused reads, partial writes of a
settings file, a database transaction that fails (it changes nothing), the
person's own changes meanwhile, progress frames, the point between commit and
cleanup, a second `resetMetrics` joining a running saga (it has no state of its
own), and the check of the configurations after a resume.

## Runs

All configurations set `CHECK_DEADLOCK FALSE`: the bounded inputs run out, and
the system itself may rest with nothing to do.

| Run | Checks | Shows |
|---|---|---|
| `core` | `AskingMatchesRows` `AnsweringIsFront` `HandOverRecorded` `AcceptedOnce` `OneVerdict` `AttributionProven` `ImplementsLifecycle` | two asks, two racing submits, all channel results, the bound, external resolutions, a departure, stops, resets and failed commits, in a normal and in a rollback build |
| `live` | `AnsweringEnds` `SendingEnds` | the 30 s bound ends every hand-over, and with it the answering ask and its record |
| `attention_life` | `NoneWaitsBehindOpenGate` `StandingIsOpen` `StandingIsSent` | one Host life with two windows |
| `attention_restart` | `AnnouncedOnce` | facts reported again while the gate, the ledger and the log of turn ends change under them, with stops and resets |
| `notifier` | `HeldToBudget` `StartEnds` | all orders of attaches, exits, late and repeated attaches |
| `message_life` | `TrackMatchesRow` `SendingIsAwaited` `OneHandOverPerAttempt` `ReactedIsEarned` `RetryableIsOutside` `MarksKept` | two messages of one dwarf on each kind of driver, through late answers, session ends, stops, boots, retries and resets |
| `recovery_life` | `ListedIsOffered` `RunningIsHeard` `PassEndsSurvivorFirst` `StopAllResumesNothing` `PassEnds` | a launched session through any number of Host stops, its processes exiting or surviving, with Stop, Stop everything, Retry and Dismiss at any moment |
| `delegation_life` | `GoneParentHoldsNothing` `SleepersHaveNothing` `HeldUntilReached` `ImplementsMachine8` `AttemptsEnd` | one parent, two delegations and two tool calls, with lost answers, departures, resets and stops |
| `board_life` | `NothingMissed` `ViewMissesNothing` `NeverBackwards` `CatchesUp` `ViewCatchesUp` | two changes and two faults in every order: stalled sockets, overflows, lost connections, stops, replays, refused and expired reads |
| `reset_life` | `JournalIsEarned` `AskedUisFollowed` `BootEnds` `SettlesUnlessOverlooked` | two resets, two UI mains and two faults in every order |
| `recovery_deaf`, `board_passed` | one property each, violated | the two disagreements below |

What each property says of the code stands above its definition.

### Bounds

- `core`, `live`: two asks of one dwarf are the front ask, one waiting behind it
  and the hand-over of either; two requestIds are two racing submits and a retry
  of each. With `MaxTime = 1` and a window of zero ticks, age 0
  is the last instant inside the attribution window and age 1 is past it
  (532,199 states). `live` (220,646 states) has one requestId and a clock that
  steps back.
- `attention_*`: two asks and one turn of two dwarves in two mines give a gate
  that opens for one and not the other; `MaxSeq = 2` gives a newer, an older and
  a repeated report; two windows give a union that shrinks and one that empties.
  A fact may be reported any number of times: nothing bounds it (608,650 states
  in one Host life, 1,211,094 with stops and resets and one window).
- `notifier`: `Limit = 3` as the code, a window of three ticks, a client of each
  role and two started processes.
- `message_life`: two messages are one in a turn and one behind it, which is
  where the drivers differ; two attempts are a retry after each kind of failure.
- `recovery_life`: dwarves only meet in Stop everything, so one is enough for
  the rest; three processes are a survivor, one the pass started and one a Retry
  or a later boot did (145,080 states). `StopAllResumesNothing` was also checked
  with two dwarves (202,935).
- `delegation_life`: two delegations reach the per-parent cap of one and the
  global one of two; two calls are a waiting one and one that races it (295,110
  states). Also checked: two parents with one call (1,390,760), and a per-parent
  cap of two (370,338).
- `board_*`: a row whose waiting frames are folded and one whose are not; a ring
  and a queue of one frame, so that two changes pass both; two faults, or a
  window that opens for one (671,669 states). Also checked: a ring of two
  (safety, 7,464,121) and three changes with the reader alone (961,571).
- `reset_life`: two resets for an ack of the earlier one; two UI mains for one
  that acknowledges and one that does not; two faults (476,798 states).

### Fairness

Nothing is assumed of the person, of an agent, of a provider, or of a process.

- `live`: the 30 s bound fires, the continuation of a settled hand-over runs, the
  reconcile window ends, and a stopped Host is booted. It assumes that commits
  succeed, which the code needs too: a failed transaction 2 is not retried in the
  same Host life. `AnsweringEnds` excepts an ask deleted under its answer or
  whose dwarf is gone, and both except a Host that stays down.
- `notifier`: the supervisor's wait and each start's bound fire.
- `recovery_life`: the jobs of the pass and of a Retry run, crew is told, and
  both settle: the Host's own promises and timers, each bounded in the code.
- `delegation_life`: routing and launch end, which the code bounds, and a worker
  that was launched is reported. `AttemptsEnd` excepts a Host that is down.
- `board_life`: the Host handles requests and writes answers, a socket that
  asked to drain drains, UI main takes what arrives and reconnects, the window
  hears, is answered and loads.
- `reset_life`: the steps of the saga run, a boot resumes it, the Host writes its
  answers, and per UI its reads are answered, its frames taken, its acks
  delivered and its socket drained.

## Disagreements between the code and what is said of it

Each is a `violation` run and a `finding` of `PROJECT.json` with the quoted line.

- `recovery_deaf` (`DroppedExitIsOld`): a covered dwarf's exit is dropped as "the
  old process's" (`sessionExited.ts:10-12`, `:74`), but coverage has an add and no
  remove, and the session a Host hears is the one the recovery itself resumed.
  When that one exits, the dwarf stays running in the mine for the Host's life.
- `board_passed` (`ViewFollows`): a frame between a window's snapshot and the one
  UI main's reader takes later is dropped by the reader as part of its snapshot,
  which no window is given (`hostRead.ts:90`, `snapshotReader.ts:153-158`, against
  `readModel.ts:220`). A `resync-required` stops at the reader the same way.
  `board_life` checks everything else with this one case (`Overtaken`) excepted.

### Seen while modelling

Observations without a run of their own; the models contain the behaviour unless
it is said to be left out.

Asking:

- After a stop between the two transactions of a submit, a normal boot leaves the
  ask `answering`: the reconcile the broker's header relies on runs in rollback
  builds only.
- The front ask is read by wall-clock opening time, so a clock that steps back
  puts a newer ask before one whose answer is in flight. `AnsweringIsFront` and
  `AskingMatchesRows` are checked and proved for a clock that does not.
- The records of dwarves the app only observes are reconciled by nobody after a
  stop.
- Reset metrics keeps a `sending` record "so the hand-over settles normally"
  (`ConversationResetStep.ts:6-9`), but `AskingResetStep.ts:25` deletes the ask it
  answers, with its pending row, when the ask was withdrawn in the meantime:
  transaction 2 then throws and the record stays `sending` for that Host life.
- `observedClaudeAsks.ts:89` resolves a hook's session before an await and opens
  the request after it: the dwarf may have departed, and nobody closes that ask.

Attention:

- Reset metrics turns the notification preference on without the event that makes
  the policy look again, and deletes a standing turn's key, whose notification is
  then never withdrawn. `NoneWaitsBehindOpenGate` and `StandingIsOpen` are checked
  in one life without a reset, and their proofs assume `~CanReset`.
- For the same reason a turn whose log row was trimmed may be announced again
  after a reset. `AnnouncedOnce` counts a turn from the last one; an ask it counts
  across all of them.
- A fact announced by an earlier Host life is never withdrawn in the ledger: the
  keys to end are memory of the routes (`cut1Routes.ts:91`), though
  `attention/application/sweep.ts:2-3` takes a key that is not withdrawn for
  one of an open fact.
- A tray that attaches after the 30 s bound of its start is taken for a normal
  launch and clears the start budget (`notifierPresence.ts:87`, against `:9-12`).
  `HeldToBudget` counts from the last attach taken for a launch.
- Starts are not told apart (`notifierSupervisor.ts:125`): the exit or the bound
  of an older start fails the newer one that is under way.
- Machine 12C starts in `attached` whoever is there (`notifierPresence.ts:61`),
  so a Host whose window died before boot step 4 starts no tray.

Delivery:

- One turn end releases all held messages of a dwarf (`send.ts:547`): the second
  is delivered although the session may end before its turn, where `send.ts:29-31`
  says each waits for its own.
- An early turn end marks a message of the next turn: `endsSeen` may hold an
  earlier concluded turn (`send.ts:463-467`). The reconcile takes an equal text of
  another message for evidence (`sendingEvidence` in `delivery.ts`).
- `AcpClient.ts:547` returns a turn as `String(n)` where `:565` and `:611` name it
  by a key. `CodexAppServerDriver.ts:660-663` becomes idle without taking the next
  of `queued`; the refusal of a queued message's own turn is swallowed (`:995`);
  the receipt of a held Codex message has no `providerTurnId`, so it never shows
  ✓✓. The Claude stream driver echoes a person's line when it writes it.

Recovery:

- `resumeAll` reads the live records after `classify` ended some, so the messages
  of a session ended at boot are reconciled by nobody.
- A Retry of a dwarf listed because its survivor could not be ended resumes the
  session beside that process; `PassEndsSurvivorFirst` is of the boot pass only.
- Stop dwarf leaves the resume intent; a Host that stops before the exit is heard
  resumes a departed dwarf's session at the next boot.
- The exit of a held session waits for `bind`. Jobs and Retry write back the row
  as they read it: a Stop everything in between is overwritten, which is why
  `StopAllResumesNothing` takes (`swept`) only dwarves with no job and no Retry left
  when Stop everything runs; a running job still resumes its session then, against
  `stopAll.ts:12-14`.

Delegation:

- A worker that leaves with its result held is settled `worker-lost`
  (`workerLoss.ts:57` asks no held result), though `delegation.ts:109` and
  `workerLoss.ts:1-2` say "without a result". The parent is then told of a loss
  and its held result never flushed; the entry stays in memory.
- A fast worker's first turn end or exit may be delivered at `bind`, before the
  launch is recorded (`launch.ts:700`): its result is lost, or its row runs with
  no worker until the next boot and holds a slot of the cap.
- A Host restart with a handoff `sending` loses the held result.
- A parent that exits between `bind` and `DwarfLaunched`, or a stop between the
  departure and `revokeFor`, leaves a live credential never revoked. `revokeFor`
  wakes no waiter, and the wiring never calls `launchClosed` after it.
- A worker whose delegation settled during its launch runs on with no owner
  (`limits.ts:9-10`).

Frames and windows:

- A refused read leaves `SnapshotReader` waiting with nothing under way:
  `HostClient.ts:634-642` reads again on `HOST_NOT_READY` only. `Refused`, which
  `CatchesUp` and `ViewCatchesUp` except, is a reader that waits with no request of
  it left, so it takes in a reader whose subscribe answer is
  in flight or was lost.

Reset metrics:

- The saga may wait for a window that has already followed. A UI main that
  applies the new epoch from the snapshot it reads at the `db` step acknowledges
  when nothing is pending; if it re-reads (a handler joins, back-pressure, a
  restart) while `ui.resetPreferences` is published, the frame is covered by its
  snapshot or dropped, and `uiPreferencesReset.ts:101` returns without an ack. No
  timeout ends the wait: the saga stands until that UI detaches or the Host stops,
  and every later `resetMetrics` joins it, against `resetSaga.ts:2-3` ("always
  converges") and `uiPreferencesReset.ts:12-14`. One UI, one reset and one fault
  are enough; `SettlesUnlessOverlooked` excepts exactly this case.
- An attached UI that applies the reset at the `db` resync does it with the
  trigger `attach` (start with system not asked), although
  `uiPreferencesReset.ts:9-10` says `asked` is the frame's.
- A UI store that cannot be written is logged, and the UI acknowledges all the same
  (`uiPreferencesReset.ts:14-15`). The model has no such write: `JournalIsEarned` is
  about the ack, and says nothing of what is on that UI's disk.

## What is proved

Eight modules of proofs, checked by TLAPS to the last leaf. Every theorem is for
all values of the constants, under the named assumption of its module
(`ConstantsAssumption`, `AttentionConstants`, `RecoveryAssumption`, ...), which
TLC evaluates in each run. A safety theorem is proved from an inductive
invariant: it holds initially, every action preserves it, it implies the
property. TLC checked each invariant on the small instance before its proof.

`AskBrokerProofs`:

- `HandOverIsRecorded` (`HandOverRecorded`): record before acting. Not inductive
  alone: `RecordInv` adds that ids are given in order (`IdsGiven`), that memory is
  empty while the Host is down (`DownIsEmpty`), that a record belongs to its ask's
  dwarf and is never `sending` while the ask is open (`RecordOfAsk`, needed for a
  reset to keep the record of an ask it keeps), and that the boot reconcile
  watches no record of a hand-over in flight (`ReconciledApart`, or it would
  settle it first).
- `TypeCorrect` follows with it: transaction 2 writes a row it presumes stored,
  so types need the record invariant.
- `OneCardPerDwarf` (`AnsweringIsFront`) assumes `~ClockStepsBack`. Its invariant
  adds `ClockOrder`: ids and opening times have one order.
- `BrokerImplementsLifecycle` (`ImplementsLifecycle`): step simulation from the
  same invariant, one case per action.
- `OneVerdictEach` (`OneVerdict`) and `AcceptedByOne` (`AcceptedOnce`) from
  `VerdictInv`: what a submit was told is the stored outcome for as long as its ask
  is stored (`ToldIsStored`), an accepted answer closed its ask in the app and is
  the only one (`AcceptedCloses`). An ask that was deleted is never born again
  (`AsksStay`), so a later submit cannot contradict what was told.
- `AttributionIsProven` (`AttributionProven`) from `Attributed`: while an injection
  time is kept, it is the time of the one answer in flight or of the refused answer
  that reopened the ask. `LeftAttributed` says once when a step keeps that.

`AttentionPolicyProofs`:

- `AttentionTypeCorrect`, which includes that a gated fact is one the routes
  remember; without it the end of a gated fact would not be heard of.
- `NoKeyIsAnnouncedTwice` (`AnnouncedOnce`), with repeated reports, stops and
  resets, from `LedgerInv`: the ledger holds an announced key as long as its fact
  may be reported again (`LedgerKnows`). A reset keeps it because an open fact is
  one of a dwarf that is present (`OpenIsPresent`), the sweep because an ask that
  ended is not reported again (`AnnouncedWasReported`), and a recheck claims only
  what is not claimed (`WaitingIsUnclaimed`).
- `WhatStandsIsSent` (`StandingIsSent`).
- `NoFactWaitsBehindOpenGate` (`NoneWaitsBehindOpenGate`) and `OnlyOpenFactsStand`
  (`StandingIsOpen`) assume `~CanReset`: with a reset both fail, as told above. The
  second adds `StandingInv`: what stands is the claimed key of an open fact the
  routes remember.

`NotifierPresenceProofs`: `WaitHasItsTimer`, `NothingStartsWhileAttached` and
`StartUnderWayIsAwaited`, together the inductive `PresenceInv`. They hold with
late results and late processes, and do not rest on durations. `StartsHeldToBudget`
(`HeldToBudget`) and `PresenceTyped` are about the starts kept, a sequence that is
filtered and aged: that the starts inside the window are counted right, whatever
ages and however often filtered, is an induction over its length (`FilterIsInWindow`,
`InWindowAppend`, `InWindowAged`).

`MessageDeliveryProofs`. The sender works on one message at a time, so the lemmas
speak of a row and its track (`Linked`) and of the operator that moves them; the
steps of `Next` then follow for every message.

- `TypeCorrect`, `TracksMatchRows` (`TrackMatchesRow`): what the sender remembers
  of a message agrees with its row.
- `SendingNeverAbandoned` (`SendingIsAwaited`): a row shown as sending has a call
  in flight, a turn that will end, or a reconcile that settles it.
- `DeliveryImplementsMarks` (`MarksKept`): the refinement of `DeliveryMarks`.

Between the messages and the turns of the driver's session:

- `HandedOverOnce` (`OneHandOverPerAttempt`) and `RetrySaysItOnce`
  (`RetryableIsOutside`) from `ApartInv`: the driver has each message once, what may
  be sent, retried or called interrupted by a boot is with the driver no more
  (`RowsApart`), and a hand-over under way says where its message is
  (`CallsApart`): still outside, or in the turn asked for or past it.
- `ReactionsAreEarned` (`ReactedIsEarned`) from `NamingInv`: the turn a receipt, a
  hold or a watch names is that message's own (`NamedTurns`), and a turn end, seen
  or still to be heard, is of a message the provider took (`TurnsAreTaken`).
  What each handler reacts to is said once, of a row and its track (`Earns`).

`HostRecoveryProofs`. One invariant, `RecoveryInv`, carries all four. A dwarf
shown running or unrecovered must at every moment have something that will hear
it or offer it: its job in the pass (`WorkHasItsPhase`, `JobsAreLive`), what crew
is about to be told (`EndedLeaves`), a queued Retry (`QueuedAreDown`), a report
item, or the held session. These are `RunningIsTracked` and
`UnrecoveredIsTracked`; `StrangersAreLost` says which processes may run beside a
job, `SweptHasNoIntent` that nothing left can give a swept row its intent back.

- `UnrecoveredIsOffered` (`ListedIsOffered`), `RunningHasItsSession`
  (`RunningIsHeard`), `SurvivorGoesFirst` (`PassEndsSurvivorFirst`, an action
  property), `SweptStaysStopped` (`StopAllResumesNothing`), and `TypeCorrect`.

`DelegationProofs`:

- `ParentHoldsNothing` (`GoneParentHoldsNothing`) from `ParentInv`: a parent that
  is present is bound.
- `SucceededReached` and `HeldToTheEnd` (`HeldUntilReached`): a delegation that
  succeeded was written to an open connection, and a held result is given up only
  once it was. `HandoffInv` says of each answer under way that its hand-off was
  begun (`AnswersBegun`).
- `NoWakeUpLost` (`SleepersHaveNothing`): no call sleeps on a ticket that has an
  answer. `SleepInv` adds that the memory is gone while the Host is down.
- `DelegationIsMachine8` (`ImplementsMachine8`): first what any step may write of
  one row (`Moves`), then each way as a row of machine 8.

`ResetSagaProofs`:

- `JournalEarned` (`JournalIsEarned`) and `MemoryOfTheSaga` from `SagaInv`: the
  step at work follows the journal, each of its parts is still to do, done for
  this reset or failed (`WorkIsTracked`), and memory and journal agree.
- `AskedFollowed` (`AskedUisFollowed`) from `FollowInv`, which adds that a UI
  acknowledges only what it applied.

`WindowBoardProofs`, for every number of rows, size of the ring and high water; its
terms and its inductive invariants are in `WindowInvariants`.
A step is first put in the terms of the line, what is in the socket and then in
the queue of the connection (`Emits`, `Handles`, `Releases`, `Gets`, ...;
`Moves` has them all), so that folds, overflows and partial writes are reasoned
about once (`SentIs`, `LineThin`): a frame that is gone from the line was
replaced by a newer one of its row, or an overflow took it and all after it.

- `WindowTyped`: the types, with the recursive `KeepIn`, `Drained` and `Read`
  unfolded by induction over their sequences (`RunExists`, `KeepInIs`).
- `NothingMissedHolds` (`NothingMissed`) from `ReaderInv`, five parts. The reader
  has one call under way and frames wait behind the result that releases them
  (`Calls`); the frames are in the order of their seqs, from the reader's buffer
  through the line to what is held back (`Order`); none is of another epoch or
  of the future (`Stamped`); their versions grow with their seqs, and a snapshot
  on its way is no older than the reader's board (`Timely`). `Fed` is the heart:
  a live reader, a replay and a snapshot on their way are each fed. Wherever the
  frames may end, at any of their seqs, what the board lacks there is in the ring
  or was evicted; and with no overflow it is among the frames themselves. The
  property alone says only the last; a lost connection makes the reader resume
  from any of those seqs, so the others are needed.
- `NeverBackwardsHolds` (`NeverBackwards`), of the reader's board and the window's,
  with `ViewInv`: the versions of what the window is to hear, holds or reads grow
  with the seqs of an epoch and are newer than its board (`Viewed`, `Loading`),
  and it has one read under way, only while it waits for it (`Waiting`).
- `ViewMissesNothingHolds` (`ViewMissesNothing`) from `CatchInv`, on top of the other
  two. What a window goes on from is its board, the page its read returned, or one
  on its way (`Owes`). Each is `Abreast` of the reader, three parts. What it lacks
  of the reader's board is among the frames the window is to hear or holds
  (`Tracks`), unless the reader took a newer snapshot, which is the exception the
  property names. It has whatever the reader had by the moment its page was read
  (`Based`), so a frame the reader takes next is either in it or newer than it. And
  its seq is one the reader has applied, or the page's own (`Since`). A page of a
  Host that is gone owes nothing, for the window will hear of the new connection
  (`Anew`); that needs the states of the connection to alternate (`Alternating`)
  and the frames handed on to be in the order of their seqs (`Speaking`).

### Only model-checked

- Liveness under fairness and `ENABLED` are outside the proof system.
- The library's induction theorems take an operator, which no installed prover can
  instantiate. Where an induction over a sequence is needed the proofs make it with
  sets, from the well-foundedness of `<` on `Nat` (`NatLessThanWellFounded`,
  `WFMin`): see `SetInduction`. RECURSIVE operators would take the SMT backend away;
  the modules proved about have none.
- So every invariant and action property of the runs is a theorem; the temporal ones
  (`AnsweringEnds`, `SendingEnds`, `StartEnds`, `PassEnds`, `AttemptsEnd`,
  `CatchesUp`, `ViewCatchesUp`, `BootEnds`, `SettlesUnlessOverlooked`) and the two
  violations stay with TLC.

### Not modelled

- *conversation: ingest and turn ends*, *mines*, *observation*: what they do is
  decided by the transcripts and directories of other programs; the concurrency
  is a poll at a time. Their effect on a message, the echo and the turn end, is
  in `MessageDelivery`; the log of turn ends is in `AttentionPolicy`.
- *ledger*: sums over the same observations, with idempotent credits by key.
- *launching: launch and retry*: only as a worker's launch in `Delegation`.
- *preferences: settings and integrations*: one row or one file each, written
  whole; the configuration writers are file formats. `ResetSaga` has their
  failures as failed or locked steps.
- *jev advisor*: a call to a model whose answer is a choice or a failure;
  `Delegation` has it as one of both.
- *suppliers and drivers*: protocols of the providers' programs. What a driver may
  answer, and when, is nondeterministic in `AskBroker`, `MessageDelivery` and
  `HostRecovery`.
- *platform*, *diagnostics*: processes, files, SQLite, logging. A transaction is
  an atomic step, the clock one that may step back.
- *window: modes*, *renderer, preload and contracts*: drawing, wording and wire
  types, which are most of the repository's lines and hold no state that two
  actors share.

## Plan

1. `Launch`: a launch accepted, answered late or never, retried, with the
   temporary dwarf it leaves; composed with `HostRecovery` and `Delegation`.
2. Crew's arrival and departure with the status facts of several sources; then
   the idempotent credit of the ledger and the cursors of the observers.
3. The mode coordinator of the windows.
