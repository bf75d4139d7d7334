# A TLA+ model of the plc-iot gateway

plc-iot is the agent of an industrial gateway (Python, asyncio). It reads
devices over Modbus and OPC UA, decides which samples are worth reporting, puts
them in a durable outbox (SQLite), sends them over MQTT to a platform, applies
the configuration that the platform sends, and keeps its own notion of UTC
synchronised with the platform. This directory models the parts that decide
whether data can get lost, whether a configuration change can leave the gateway
half-changed, whether its time can be trusted, and whether a saved setting takes
effect.

Paths below are relative to `src/src/plcnext_iot/`.

## 1. The system

| Component | State | Operations | What makes it hard |
|---|---|---|---|
| Outbox (`storage/outbox.py`, `outbox_session.py`, `batch_repository.py`, `database.py`) | rows and counters on disk; entries, staged entries, credits and deadlines in the process | open, enqueue, reserve, submission_failed, acknowledge, expire, open_gate | a crash at any point; a commit that fails; expiry interrupted half way; late and repeated acknowledgements; quotas that prune; two classes sharing 8 credits |
| Telemetry pipeline (`reporting/service.py`) | the ingress task, the commit task, the send task of a connection, the close and its cleanup | start, flush, persist, send_loop, acknowledge, close | the send task is cancelled between reserving and submitting; the cleanup outlives the close that started it, and the next run meets it |
| Storage worker (`core/storage_worker.py`) | a single thread with a bounded queue | open, call, close | the caller goes away, the thread does not; jobs are answered in order but read later |
| Receiver (`storage/receiver.py`) | configurations and receipts | install_config, receive | duplicates, other content under a known identity, limits |
| Config store (`config/store.py`, `patch.py`, `models.py`, `locking.py`) | versions, receipts of commands, active/previous pointers, one candidate with a token | prepare, prepare_patch, commit, fail, recovery at open | replays, patches against a base that moved, tokens that outlive their candidate, a crash with a candidate prepared |
| Lifecycle (`core/lifecycle.py`) and runtime (`devices/runtime.py`, `core/boot.py`) | agent state, durable version, command queue; runners running, published and managed; the pending transition | start, submit, apply, rollback, fatal, close; prepare, activate, publish, shutdown | a commit whose outcome is unknown; activation and rollback that fail half way; close racing start and apply |
| Platform time (`core/platform_time.py`, `messaging/timed_control.py`) | the reading with its error, the round of requests, revisions, the stages of a connection | connect, request, response, snapshot, token, require, control_submitted, load_history_boundary | drift and slewing; suspicion and maintenance; tokens taken before and used after a change |
| MQTT service (`messaging/*.py`) | the connection, a queue of command acknowledgements not yet sent | connect, dispatch, publish, reconnect | reconnects at any point |
| Report engine, accounting, audit (`reporting/engine.py`, `accounting.py`, `audit.py`) | what was last reported of every point, queues, frozen batches, memory charged; open decisions, gauges | configure, accept, prepare, committed, abandon; captured, decided, terminal, removed | commits out of capture order; two owners of an event between the commit and its answer; bounded sets of open decisions |
| Collection (`devices/*.py`, `drivers/*.py`, `points/*.py`) | polling tasks, the read budget, shared connections, buffers of samples | read, capture, publish events | a shared budget and endpoint locks; a sample that outlives its configuration |
| Provisioning (`provisioning/*.py`) and supervisor (`src/tools/appliance.py`, `agent.py`) | the record, the CA file beside it, the values in the server, two counters; the run with its parts | save, update, test; boot, begin, watch, reload, exit | a write that fails after its rename, a crash between two files, a revision saved while the agent starts or closes |

The telemetry path is: collection → report engine → pipeline → outbox → send
loop → MQTT → receiver → acknowledgement → outbox. The configuration path is:
MQTT → lifecycle → config store and runtime. Time gates both: a batch is
enqueued and sent only with a token of a valid reading.

`PROJECT.json` lists the hazards of this code line by line, with the properties
that watch them; the one no property covers carries a note.

## 2. The modules

| Module | Models | Proved in |
|---|---|---|
| `Outbox` | the outbox: tables, session, all operations | `OutboxProofs` |
| `ReceiverStore` | the receiver | |
| `AtLeastOnce` | the contract of the telemetry path, abstractly | |
| `Delivery` | `Outbox`, send loop, a path that loses, repeats and reorders, `ReceiverStore` (by INSTANCE) | `DeliveryProofs` |
| `ConfigModel` | what a configuration says: a definition per device | |
| `ConfigStore` | the configuration database and its commands | `ConfigStoreProofs` |
| `DeviceRuntime` | ownership of the device runners | |
| `Lifecycle` | the agent: coordinator and close task over `ConfigStore` and `DeviceRuntime` | `LifecycleProofs` |
| `PlatformTime` | the logical clock in HUB_MQTT mode | `PlatformTimeProofs` |
| `ModbusPolling` | Modbus runners, the read budget and the shared connections | `ModbusPollingProofs` |
| `Reporting` | from a reading to a durable row: point events, sample buffer, report engine, accounting, the tasks of the pipeline over the storage thread, close and reload | `ReportingProofs` |
| `Provisioning` | the commissioning record, the setup server, the supervisor and the frame of one run | `ProvisioningProofs` |
| `MC*` | instances for TLC, and the specifications with fairness | |

Definitions headed `Fault:` are plausible bugs of the definition that follows
them. No specification uses them; each is there to show that a property notices.

### Outbox

`rows` and `meta` are the SQLite tables; `entries`, `staged`, `gated` and
`preferNew` are the `OutboxSession`. The storage thread runs one operation at a
time, so an operation is a step; one that raises part way is the step that has
done what was committed before. `EnqueueRaised` is an insert that failed: the
tables are as before and the session keeps a staged entry; `ExpirePrefix` is an
expiry interrupted after some rows. A deadline is kept as the time left (`due`),
which `Tick` counts down. The age of a batch against the clock is one of ahead
(by 300 s), fresh and aged (7 days), the three cases the code tells apart.
`ref` and `valid` stand for the time provider: its basis, and whether its
reading is valid. `history` variables record which batches were accepted and
what the session reported of them.

The quotas are those of the code: batches, payload bytes and DEAD rows
(`WithinQuotas`, `HasRoom`), and entries and bytes of memory in the session
(`MetadataFits`, `CanStage`). `PayloadSize` is the length of a payload. `Charge`
is what `OutboxSession.charge` makes of an entry: it measures the Python objects
of the row, so it depends on where the row came from (`Origins`: made by
`enqueue`, read back by a reopen of the same process, restored by a later one)
and on how far the batch is; the constant is any function of these. An open
beyond any of its quotas is refused (`OpenRefused`) and changes no row.
Only the send rate and the guards on disk pages are left to nondeterminism: they
make a call fail (`ReserveNothing`, `EnqueueRaised`) and nothing else.

### Delivery and AtLeastOnce

`sender` is the send task: off, in its loop, or holding a reserved batch that it
has not submitted. `Disconnect` cancels it at any of these points. The path is a
set of data and a set of acknowledgements of at most `NetCap` messages, any of
which may be lost, repeated or overtaken. The contract says that an accepted
batch is in the gateway's custody until it is stored or given up in the open;
the refinement maps custody to the rows, stored to the receipts and abandoned to
what the quota of DEAD rows pruned.

### ConfigStore, DeviceRuntime, Lifecycle

A command is a full set or a patch (edits per device against a named base).
Commands are valid JSON of the right shape: `contracts.py` refuses the others
before they reach the store. `Verdict` is the order of the checks. A token is a
number never used twice. `Lifecycle` names the awaits of the coordinator with
`step` and those of `_close` with `closer`, so that the two interleave as the
two asyncio tasks do. A call of the store may raise with or without its effect
(`Raises`). A runner's stop or start that fails, or is cut off by the timeout,
may have happened or not. `Crash` is the end of the process at any point.

### PlatformTime

The fields are one record; each method is a function on it, as the methods call
one another under a lock. Readings are relative to the hub's clock, so that an
exact clock reads 0; moments are kept as ages. `HubJumps` and `MonoGoesBack` are
the faults the code defends against. Slewing happens in `Tick`, because it is
linear in the time passed, however often `_advance` runs. Five fields are
history; `relived` counts the ticks that the monotonic source repeated before
anyone looked, which no extrapolation contains. Not modelled:
SYSTEM_RTC mode (there is no reading to protect), the tolerance for a negative
path, the growing backoff between rounds (one delay), and the reasons reported.

### ModbusPolling

`task` is the await the poll task of a runner is in; what lies between two
awaits is one step, as everything runs on one event loop. A cancellation is a
flag (`cancelled`) until the task takes it at its await, and other tasks run in
between. A runner that leaves the budget does so by `LeaveBudget`, whichever way
its poll ends. asyncio's lock and semaphore serve in order (`queue`, `slots`).
A stop whose caller runs out of patience (`CutOff`) cancels the task a second
time and still waits for it; the task may then end without closing its reader
(`EndedUnclosed`), which the next stop does. An owner starts a runner only after
a stop that completed, as `RuntimeTransition` does. The budget already admits
one reader per endpoint, so the lock of the entry is never contended here; it is
a state of its own (`lock`) all the same. A connection that the device closed is
found when it is used. Exceptions of the library that the driver does not name
are not modelled.

### Reporting

An event is its `sample_seq`. The buffer hands events over in capture order and
both queues of the engine keep that order, so they are sets of numbers. `boot`
is the `ProcessBootContext`, which survives a reload, as do `check` (the
`report_checkpoint`), `session` and `books`; `engine`, `worker` and `tasks`
belong to one run. Everything but the storage thread runs on one event loop: a
step is what lies between two awaits, and `LoopFree` says that the loop of
`prepare`, which is modelled turn by turn, has no await in it. An enqueue is two
steps of the thread, since the loop may clear or reclassify the staged entry
between the staging and the commit. The thread answers into `worker.reply`,
which the commit task reads later: in between the outbox may already have
confirmed or ended the row (`Stored`, `Ended`, `Cleared`, the only facts of
`Outbox` that matter here). Every event, and every frozen batch, weighs 1. That
a poll has reached its report slot is chosen freely. `books.ramLost` is a
history variable: the events a close declared known unsent.

`sup` is the supervisor as the pipeline sees it: it stops the runtime, closes
the pipeline, returns from the close when the cleanup has ended or at the
deadline, and starts the next run. `Refused` is a start that meets a cleanup
which is unsettled or failed.

### Provisioning

`disk` is the record, the content of `broker-ca.pem`, and whether databases
exist. A write ends in one of three ways (`AtomicWrite`): done, done and
reported as failed (the fsync of the directory comes after `os.replace`), or not
done. `Crash` may follow any step. A save has no await between its two files and
the counter, so it is one action; the crash between the files has the same
effect on the disk as a save whose second write failed before it took effect,
followed by `Crash`. A value keeps the fields the code treats apart; `user`
stands for host and port too. `Posted` and `Dumped` are the lengths of a request
and of a record as it is written, `RecordCap` the 32768 bytes that `parse`
accepts: a request is checked against it, a loaded record is, a merged record
that is written is not. A boot that cannot load the directory ends at once
(`BootRefused`). `Wait`, `Begin`, `Unblock`, `RunEnds` and
`Settled` are the loop of `_supervise`; `StartPart`, `ServeStopped`,
`ServeFailed` and `ClosePart` the frame of `run`, where each part may fail to
start, fail while it serves, or raise when it is closed.

## 3. What is model-checked

| Run | Module | Shows |
|---|---|---|
| `outbox` | `MCOutbox` | session and rows agree (`SessionMirrorsRows`), orders are not reused (`OrderIsIdentity`), only one time basis is trusted (`OneBasis`) |
| `outbox_restart` | `MCOutbox` | violated, see section 5 |
| `scheduler` | `MCScheduler` | neither class starves the other (`BothClassesProgress`) |
| `head_of_line` | `MCScheduler` | violated, see section 5 |
| `delivery` | `MCDelivery` | nothing accepted is lost silently (`NoSilentLoss`), a batch reported as unsent was not handed over (`KnownUnsentIsHonest`), a batch has at most one end and a STORED is the receiver's (`OutcomeIsTrue`), the contract (`KeepsContract`); what is on disk is within the quotas the next open enforces, and a store that was only closed reopens without any refusal (`AlwaysReopens`); every accepted batch settles, unless it is on the time basis of another hub or the receiver keeps refusing for want of room (`EverythingSettles`) |
| `lifecycle` | `MCLifecycle` | the store: pointers name committed versions (`PointersAreCommitted`), there is one candidate, under the newest token (`OneCandidate`), receipts are true (`ReceiptsAreTrue`), a patch was applied to the base it names (`AppliedPatchIsItsEdit`), history is immutable (`HistoryIsImmutable`); the agent: steady states are consistent (`SteadyIsConsistent`), a device has one live runner and every live runner is managed (`RunnersAreOwned`), the reported version is honest or unknown (`VersionIsHonest`), a command whose preparation failed after its commit can be sent again (`CandidateCanBeRetried`), every command taken is answered and none is left in the queue of a coordinator that has ended (`CommandsAreAnswered`), every close ends (`CloseEnds`) |
| `time` | `MCPlatformTime` | a token of an earlier reading is not accepted (`TokenIsCurrent`), data waits for the stages of its own connection (`SendIsEarned`), no reading gets below the durable floor (`FloorHolds`), and a valid reading is within its stated error of the hub (`ReadingIsWithinError`) |
| `time_fence` | `MCPlatformTime` | violated, see section 5 |
| `modbus` | `MCModbusPolling` | a socket carries no request that was given up (`CleanSocket`), budget and connection pool get back what polls and runners take (`NothingLeaks`), no poll is stuck in the budget (`PollsEnd`) |
| `reporting` | `MCReporting` | every captured event is decided once and the set of open decisions is exactly the buffer, so it cannot overflow (`DecidedOnce`); a selected event has one owner or one end in the gauges (`OneOwner`) and one place in the engine (`HeldOnce`); it is compared with the newest event of its epoch that is on its way or committed (`ReferenceIsNewest`); the memory charged is the memory held (`ChargedIsHeld`); outbox and engine agree on the gate of a connection that sends (`GateAgrees`); what a close declares lost is in no row (`LossIsReal`); the next run opens the store after the last job of the old one (`OneWriter`); every cleanup ends (`CloseSettles`) |
| `provisioning` | `MCProvisioning` | the record always holds effective values, so that the next process can refuse it only for its length, and identity and clock policy are never rewritten (`SavedRecordIsSound`); unless the last save was answered with an error, page, record, CA file and agent agree (`AcknowledgedIsWhole`); a saved revision reaches the agent, is reported as blocked, or is left to the next process (`SavedIsApplied`) |
| `provisioning_length` | `MCProvisioning` | violated, see section 5 |

Some MC modules ask several questions that would be too much for TLC at once.
They have a variable `scenario`, chosen at the start and constant, which says
which steps a behaviour has and how much of each; the invariants and properties
are checked in all of them. The variable is not part of the specifications, and
the proofs know nothing of it.

### Bounds

* Outbox: two batches, so that one can prune, overtake or outlive the other,
  and one that is too large and always refused;
  room for one DEAD row, so that pruning happens; two hub bases and the system
  clock. Attempts and counters saturate in the code at 2^53-1, here at 1.
  The schedule is checked with three batches, more than its two credits.
  No other byte quota binds there. `MCOutboxRestart` and the scenario "quotas" of
  `MCDelivery` are about them: one of three batches is twice as large as the
  others, so that some pairs fit and all three do not, and an entry is charged
  more once it is read back and once it has ended, so that the memory quota
  refuses an enqueue in some sessions and an open in others.
* Delivery: the scenario "exchange" has one batch with two messages on the path
  (copies, answers and older answers cross). What several batches do to each
  other is in the run of the outbox, and the contract is proved for any number of
  them. The scenario "settling" has two batches, a receiver with room for one
  receipt (so that RESOURCE_LIMIT is answered) and two hub bases (so that a row
  may be foreign), and one message on the path; it leaves out the failed calls,
  which "exchange" has, and expiry, which would end a batch anyway.
* Config store and lifecycle: two devices, versions up to 3, sets and
  patches that compete for a version, that retry under another identity and
  whose base moves. `MaxTokens` bounds the preparations. The scenario "agent"
  runs the agent over the store; in "store" the store is called on its own, in
  any order and with more commands that compete.
* Modbus: two runners share an endpoint and a third has its own, with a budget of
  one read, so that both levels of the admission are contended; one retry and
  one single read after an illegal address.
* Reporting: the limits are at their smallest values that differ in kind: one
  place in the buffer (overflow), two open decisions, two owned events, two
  frozen batches of which one per class, two jobs of the thread, memory for four
  events beside the reserve. What a behaviour may do is bounded by one record of
  `Limits`, chosen at the start: so many events, configurations, revisions of
  the time, connections and ends of a run. Each record combines two or three of
  these with enough events to meet them; all of them at once are out of TLC's
  reach. A behaviour ends there, so the run does not check for deadlock.
* Provisioning: eight bodies (anonymous; complete, with and without a clock
  policy; keeping the password with another CA; keeping the CA with another
  password; both long; removing the CA; another identity), each
  posted as first save, update and test, and two revisions in the life of a
  process, so that one can land while another is being applied. Lengths are in
  units of 8 KiB: one long value fits, two do not. The number of processes is not
  bounded.
* Platform time: a round of two candidates and two attempts in place of 3 and
  10; ages of a few ticks; a hub that jumps by more than is slewed. The
  scenario "drift" has drift and asymmetric paths and leaves out the users of
  the clock, "users" has them and exact readings: the reading does not depend on
  who uses it. A floor is not followed below `FloorMin`, where no reading can be
  any more (`BiasMax <= FloorMin`). `BiasMax` is the largest deviation from the
  hub that is followed; it equals `ErrorMax`, which no valid reading may reach,
  so that a reading worse than it states would be met. It, `MaxRevision`,
  `MaxConnection` and `MaxFaults` bound what would grow for ever; behaviours end
  there, which is why these runs do not check for deadlock.

### Fairness

* `MCScheduler`: the send loop runs (it polls every 25 ms) and time passes; it
  has handed out the credits it can before the next retry is due.
* `MCDelivery`, scenario "settling": the loop and the retry clock run; the SDK,
  the path and the receiver may fail any number of times but not always (strong
  fairness: the gateway retries for ever), and an answer that is sent again and
  again arrives. That a batch expires, or that a full receiver gets room, is not assumed.
* `Lifecycle`: both tasks go on when they can. Each of their awaits is a store
  call on a thread that returns, a runner call that a timeout cuts off, or the
  other task. Crashes and closes are never promised. Here, in
  `Reporting` and in `MCDelivery` fairness is written with its enabling
  conditions (`CoordinatorEnabled`, `RunEnabled` and the like): "if the condition
  holds for good (for strong fairness: again and again), the action happens again
  and again", which TLC evaluates faster than `WF` and `SF`.
* `ModbusPolling`: the event loop runs what is ready, and each connect and
  request has a timeout. That waiting polls reach their deadline is not assumed.
* `Reporting`: the tasks of the loop go on, the deadline of a close passes, and
  a job of the storage thread ends one day, successfully or not.
* `Provisioning`: the supervisor and its watcher run. Their awaits are sleeps,
  parts that start or fail, and closes that end, which the runs of `Lifecycle`
  and `Reporting` show. That anybody saves, tests or fails is not assumed.

## 4. What is proved

The proofs hold for every value of the constants that satisfies the named
assumptions (`OutboxAssumption` and the like: positive limits, a finite set of
batches, one credit more than a class may take, names that are not taken for the
absent one). No safety property below is inductive alone; each bullet names the
invariant that is, and what it had to add.

* `OutboxProofs`
  * `Mirror` (the types, a row that is absent is blank, nothing is tracked while
    the process is down) gives `TypeCorrect` and `SessionAgrees`.
  * `Identity` adds that a trusted row carries the basis of meta; it gives
    `OrdersAreIdentities` and the action property `BasisIsBound`.
  * `Quota` counts what is on disk and what the session has staged, since a
    failed insert keeps its place; pruning is the crux: the row it removes is the
    oldest DEAD one, which exists (`LowestMember`, by well-founded induction on
    the sets of smaller rows) and is one (orders differ). The bytes on disk are
    those of a set of rows that only `Enqueue` extends (`TotalMonotone`). It gives
    `DatabaseReopens`: what any operation or crash leaves on disk is within the
    quotas in batches, payload bytes and DEAD rows of the next open, and a store
    that was closed in a process that lives on reopens without any refusal: its
    entries are all there, so nothing is charged again. That a new process finds
    room in its memory quota is not claimed: section 5 shows that it may not.
* `DeliveryProofs`
  * `SafeInv` says of every batch, wherever it is: one that was never accepted
    left no trace; the facts recorded agree with its row; whoever holds a copy
    got it through the SDK; a batch that was handed over has a durable attempt
    or has ended with the caution this demands; and none is lost. From it follow
    `NothingIsLostSilently`, `KnownUnsentNeverSent`, `AttemptsAreDurable`, and,
    step by step, `DeliveryImplementsContract`.
  * `TruthInv` adds two facts: the end recorded of a batch fits the state and the
    source of its row, so that no second one can be booked while the row lives
    or after it went (`EndsInv`, proved in `OutboxProofs`), and what was recorded
    as stored has a receipt. It gives `OutcomesAreTrue`.
* `ConfigStoreProofs`
  * `StoreInv` (types, committed pointers, one candidate, no token newer than the
    last given out) gives `PointersAlwaysCommitted` and `AlwaysOneCandidate`;
    with the receipts, `ReceiptsNeverLie`; and `HistoryNeverChanges`.
  * `PatchInv` carries the merge from the preparation over the commit (a base
    that is committed keeps its content): `AppliedPatchesAreTheirEdits`.
  * `RetryInv` says that a candidate has a receipt, PREPARED, of a command whose
    base is still the active version; `LifecycleProofs` needs it.
* `LifecycleProofs`
  * `LifeInv` has one conjunct per await of the coordinator and of the close
    task (`PositionInv`): what store, runtime and pending transition hold while
    it waits, given that the other task may have moved on. It gives
    `LifecycleTypeCorrect`, `SteadyStatesAgree`, `RunnersAlwaysOwned`,
    `ReportedVersionIsHonest` and `CandidatesAreRetriable`.
  * `LifecycleImplementsStore`: every step of the agent is a step of
    `ConfigStore` or a stutter, so what is proved of the store, `RetryInv` among
    it, holds inside the agent.
* `ModbusPollingProofs`: `PollingInv` ties the await of a poll task to the phase
  of its runner (`TaskOfPhase`) and says that a socket just opened carries
  nothing (`FreshSocket`). It gives `SocketsStayClean` and `PollingLeaksNothing`.
  The order in which waiters are served plays no part in either proof.
* `ProvisioningProofs`: `ProvInv` adds to the property the order in which the
  parts of a run start and close, and `RevisionTaken`: what a run that is under
  way read is what the server had when it took the revision. It gives
  `AcknowledgedSavesAreWhole`, and with the fact that `Merged` keeps a record
  sound, the action property `SavedRecordsAreSound`: whatever the lengths, the
  next process finds nothing to refuse but the length (`Consistent`).
* `PlatformTimeProofs`: the methods call one another, so the invariant `Sound`
  is carried by a relation, `Follows(c, d)`, that every method keeps between the
  fields it finds and the fields it leaves, and that composes: revisions and
  connections only grow, and a reading is not lost without a new revision. It
  gives `TokensAreCurrent` and `SendingIsEarned`. `ReadingInv` is carried in the
  same way, by `Keeps(c, d)`:
  * `Reading`: not the reading but where its slewing leads, `utc + residual`, is
    within the half path and the drift since it was adopted, unless a jump is
    still to be made good for. A tick moves this sum by the drift alone, whatever
    is slewed; what is left to be slewed is in the stated error, so the reading is
    within that (`ReadingsAreWithinError`).
  * `Round`: no candidate outlives its round, and those of a round without a jump
    are within their own error, so adopting one makes a jump good. That the
    candidate chosen exists needs the least of a set of numbers (`BestIs`).
  * `Above`: the reading is above the floor once the monotonic source has caught
    up by the ticks it is behind (`Lead`). In between it may be below, but whoever
    looks then gives the reading up. A tick takes `TickLength` from the floor
    relative to the hub, and slewing at most twice `SlewMax` from the reading with
    its error, which is why `2 * SlewMax <= TickLength` is assumed. It gives
    `FloorIsKept`. `TimeTypes` comes with it.
* `ReportingProofs`, for any points, configurations and limits (`RInv`)
  * `Places`: an event goes one way, from the capture over the buffer and one
    queue into one batch, for good. What enters the buffer is newer than all that
    was captured before, a batch lies on one side of the gate however often it is
    opened, and batches are numbered without gaps, of which there are no more
    than events (`PrepareCounts`). It gives `OwnedEventsAreHeldOnce`.
  * `Phases`, `EnqueueJobs`, `Groups` and `CloseJobs`: what may be queued on the
    thread in which phase of a close, and that the one enqueue among the jobs is
    the one that is awaited. They give the action property `StoreHasOneWriter`.
  * `Decisions`: the buffer is at most as large as its limit, which is less than
    that of the open decisions, and holds only what is newer than what was seen.
    It gives `EventsAreDecidedOnce`.
  * `Losses`: a frozen batch has a row only while the answer that says so is on
    its way, and an entry is staged while it is inserted. It gives
    `LossesAreReal`.
  * `Gates`: the gates that are queued have growing connection numbers, and what
    the session has as new reaches beyond its own watermark. With the side of the
    gate from `Places` it gives `OutboxAndEngineAgree`.
  * `Rests` and `Gauges`: an answer that says committed has its row, nothing is
    owned after the cleanup, and the counters are the sizes of three sets:
    events that have not ended (`Unsettled`), dead ones, and batches (`Live`). A
    commit moves events between parts of such a set, so the counters stay; that
    the parts do not overlap is `Places` and `Losses`. They give
    `EventsHaveOneOwner`.
  * `Captures` and `Course`: the time of captured events never goes back, a batch
    has one event of a point, and what was admitted under the configuration of
    now is not newer than what its point has seen last. So an event that moves
    the epoch of its point is the first of it (`EpochMoves`).
  * `Charged`: every cache holds an event at the point of the event, hence at
    most once, and `configure`, `accept`, `committed` and `abandon` book exactly
    what they take and drop. It gives `MemoryChargedIsHeld`. The set of points is
    assumed to be finite: the charges are counted over it.
  * `References` is stronger than the property: what is on its way is the newest
    event owned, and what was committed is the newest that is durable and not
    owned any more, each of the point's epoch. An insert makes an event durable
    while it is still owned and so changes neither; the commit moves it over, and
    the comparison in `committed` keeps the newer one when history and new events
    are committed in either order. It gives `ReadingsMeetTheNewest`.

Three of these have no run: that the outbox keeps its types with credits and
attempts in their bounds (`TypeCorrect`), that the clock does (`TimeTypes`), and
that a batch that was handed over has a durable attempt or has ended
(`AttemptsAreDurable`).

Proving `CandidateCanBeRetried` showed that its first form was too strong: it
named the message kept in the row, which is the first that carried the content;
if that was a patch, its base may have moved since. The candidate is reachable
by the command that prepared it last, which is what the property says now.

`FloorHolds` was too strong as well for clocks that drift. When the monotonic
source goes back and catches up before anyone looks, the tick it repeats is not
in the age that the error grows with, so its drift is not covered; after enough
of them a valid reading is below the floor by as much, and TLC finds one with
`Drift = TickLength` and two such ticks. The property now allows for
`relived * Drift`, which is nothing when no tick was repeated. A step back that
is noticed ends in MAINTENANCE.

Only model-checked:

* Liveness (`BothClassesProgress`, `EverythingSettles`, `CommandsAreAnswered`,
  `CloseEnds`, `PollsEnd`, `CloseSettles`, `SavedIsApplied`): out of the prover's
  reach.

Every safety property that a passing run checks is proved.

## 5. Where code and documents disagree

* `head_of_line`: within a class the oldest batch comes first, and a batch that
  is not answered is the oldest again when its retry is due. As many unanswered
  batches as the class has credits keep everything behind them from being
  attempted, until they expire. `doc/verification/2026-10-24-i03-i04.md` says
  that a head waiting for its acknowledgement does not block what is behind it.
* `time_fence`: `_adopt` calls `_advance` and goes on. If the monotonic clock
  went back (by less than what makes the samples of a round disagree) and the
  response that completes a round is first to see it, the clock enters
  MAINTENANCE and is SYNCED again in the same call, contrary to the comment
  "Keep the maintenance fence across subsequent resynchronization".

* `outbox_restart`: `stage` admits batches up to the memory quota by the size of
  the Python objects of their rows. A row that is read back holds floats where
  `enqueue` put the shared 0, and an ended one names its source, so a new process
  charges a batch of few samples some tens of bytes more than the one that
  admitted it. A session filled to its quota cannot be attached by the next
  process ("Outbox metadata quota exceeded while opening"), although the comment
  at `outbox_session.py:46` says "Reserve terminal-reason growth and
  container/array overhead up front". Nothing is deleted; the gateway does not
  start its pipeline.
* `provisioning_length`: `update` writes the merged record without looking at its
  length. A record with a CA of 16384 characters that an update keeps, with a
  password of 4096 four-byte characters, is longer than the 32768 bytes `parse`
  accepts. The update is acknowledged, and neither the next boot nor the next
  update can load it, while `doc/本地初始化与PLCnextApp部署.md` says that a restart
  loads the commissioning record directly.

Met while modelling, without a run of their own:

* A start that is refused because the old cleanup is unsettled (`Refused`) still
  closes the pipeline it made, and `_finish_close` clears the staged entries of
  the session that both share (`service.py:348`). If the thread is between the
  staging and the commit of a batch, the row is written, the move of the entry
  raises `KeyError`, the commit task ends, and the old cleanup declares the
  events of a durable row known unsent, against the comment at
  `service.py:307` ("A thread may still commit. Do not declare these events
  lost or durable"). `LossIsReal`, `OneOwner` and `ReferenceIsNewest` therefore
  say nothing of a process in which a start was refused (`sup.refused`); it ends
  right after.
* `open_gate` makes every frozen batch history, so all eight slots of `prepare`
  can belong to one class; the comment at `engine.py:197` says "Each class can
  use seven slots, reserving one for the other class".
* After a first save whose record was replaced but whose CA (or directory fsync)
  failed, the server still has no value and the record exists: every further
  save is answered `ALREADY_CONFIGURED` until the process restarts. The comment
  at `server.py:205` calls that answer unreachable.
* After an update that failed in the same way, `/api/test` merges the request
  with the values in memory and a save merges it with the record on disk, so
  what is tested need not be what a save would produce (`server.py:178`).
* If `write_ca` fails when the process boots, the supervisor is blocked and waits
  for another revision; saving the same values again is not one
  (`server.py:195`), although they are not in force. `SavedIsApplied` counts
  this as blocked.
* When a revision was saved, `_supervise` starts the next run whatever the code
  of the last one, also after a shutdown that failed with runners still alive
  (`appliance.py:78`, `lifecycle.py:240`).

## 6. What is not modelled

* `contracts.py`, `core/settings.py` and the wire formats: pure functions on
  text, without state. The models start from messages that passed them.
* The config command loop of the MQTT service with its queue of acknowledgements
  not yet sent (`_deferred_acks`), the health publisher, and the two queues of
  the MQTT client.
* OPC UA: one session per device with nothing shared. Its readings enter
  `Reporting` like any other.
* The migration of an old outbox: one transaction before the first open.
* The read-only routes of the setup page, HTTP itself, the audit file, and the
  counters of missed slots.
* In `Lifecycle`, cancellation of a task from outside (the process is ending);
  in `Outbox`, rows written by versions before the time columns existed; in
  `Reporting`, an observer (`on_sample`) that raises, and rows left by an
  earlier process, which `Outbox` has.
* `src/tools/` beyond the supervisor: command-line checks and smoke tests.

## 7. Plan

The config command loop of the MQTT service over `Lifecycle`: every command that
arrives is submitted, a repeated one too, and an acknowledgement that could not
be sent waits in `_deferred_acks` for the next connection.
