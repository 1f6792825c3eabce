# om-miner: a verification project

om-miner is the firmware of a mining machine. A *master* program on a small
Linux board (`sm-miner-master`) talks to a Stratum pool over TCP and to up to a
few *slave* controllers over SPI. A slave (`sm-miner-slave`, an STM32 without an
operating system) drives the power supplies, the hash boards and the chains of
power controllers (PWC) that carry the hashing chips. Work flows down: pool ->
`StratumPool` -> `SlaveGate` -> `MasterGate` -> `MultyBoardMgr` -> `PwrChipChain`
-> PWC. Solutions ("nonces", "shares") flow up the same way.

This directory holds TLA+ modules translated from that code, TLC configurations
that check them on small instances, and TLAPS proofs of what holds for every
value of the constants.

    tlc -workers 2 -config StratumPoolShares.cfg MCStratumPool.tla
    tlapm StratumPoolProofs.tla

`PROJECT.json` lists the components, the runs, for each definition the source
lines it stands for, the hazards of the code with the properties that watch
them, the findings and the theorems.

## 1. Inventory

### Components, their state and how they interact

| Component | State | Operations | Interacts with |
|---|---|---|---|
| `StratumPool` (master, `pool/`) | protocol state, timers, request ids, job and share queues, current extranonce and difficulty, request records | network thread: connect, subscribe, authorise, handle replies and notifications, submit, time out; main thread: `getCurrentJob`, `submitShare`, `reconfigure`, start, stop | pool (TCP), `SlaveGate` (shared queues under mutexes), `ThreadRunner` |
| `RingQueue` (`base/`) | array, head, tail, size | `enqueue` (drops the oldest), `dequeue`, `pop`, `clear`, `copy` | used by `StratumPool` |
| `ThreadRunner` (`sys/`) | thread id, cancel flag, start condition | `start`, `cancel`, `join`, the thread's own end | used by `StratumPool`, `GpioPolling` |
| Application (`app/`, `config/`) | configuration, set of components, exit flag | init, start, main loop, configuration change, stop | all components of the master |
| `SlaveGate` (`slave-gate/`) | transmit and receive buffer, what each slave reported last | one exchange per slave and cycle | `StratumPool`, web gate, statistics, slaves (SPI) |
| `ms-protocol` (`sm-miner-cmn/`) | a cursor in a buffer | push and dispatch of blocks with checksums | both gates |
| `MasterGate` (slave) | mining data, nonce slots, configuration, error array | answer an exchange, `sendNonce`, `sendPwcData` | `MultyBoardMgr`, `PwrChipChain`, PSU code |
| `MultyBoardMgr`, `BoardMgr` | per board: detected, power line states, switch-off timers, limits | reconfigure the grid, switch power, broadcast jobs, main loop | chains, motherboard, `PowerMgr` |
| `PwrChipChain`, `ChainBase`, `PwrChip` | per chip: counters, last statistics; position in the chain | broadcast a job, download nonces and statistics, upload configuration | PWC over SPI |
| `HbtMgr` | test step and results per board | start, step, stop a board test | boards, web gate |
| `PowerMgr`, `PwrModuleMgr`, PSU managers | power state, set voltage, detected module type, rectifiers | detection, state machine, voltage ramp, current limit | CAN, UART, boards |
| Web gate, system monitor gate, environment manager, statistics, logging | request buffers, counters, history buckets | serve requests, poll the fan board, report | the user, files |

### What is hard in this code

* Two threads share `StratumPool`: each queue has a mutex, but the protocol
  state, the timers, the configuration and the flags are plain members.
* The network thread is ended with `pthread_cancel`, wherever it is.
* Request ids and queues restart with every session, the request records, the
  extranonce, the job counter and one timer do not.
* Slaves report late, repeat themselves and survive a restart of the master.
* The SPI link loses and corrupts packets; both sides recognise news by comparing
  with what they saw last.
* The slave's power code is a set of state machines driven by measured values
  and timers, with limits that must hold over long runs.

The hazards are listed one by one, each at its line, in `PROJECT.json`.

### What makes each component correct

* `StratumPool`: submits only what the connected pool can accept; keeps neither
  jobs nor records of another session; gives every job a new id; always ends up
  in service or in a new session.
* `RingQueue`: is a bounded queue that drops its oldest element.
* `ThreadRunner`: at most one thread runs the worker; after a stop none does.
* Reconfiguration: the session after a change uses that change, whole.
* `SlaveGate` and `MasterGate`: a slave ends up with the current job; a nonce is
  handed to the pool once, in spite of lost and repeated exchanges.
* Boards and power: no board stays on beyond its limits or is switched on during
  its delay; the voltage stays within the configured range.

## 2. Plan

| Module | About | State |
|---|---|---|
| `StratumPool`, `MCStratumPool`, `StratumPoolProofs` | the Stratum client and its two threads | checked, proved |
| `JobSource` | what the slave gate may rely on of its pool: jobs that come, go and have ids | implemented by `StratumPool`, used by `MsLink` |
| `BoundedQueue`, `RingQueue`, `RingQueueProofs` | the abstract queue, the index arithmetic, and that one implements the other | checked, proved |
| `ThreadRunner`, `ThreadRunnerProofs` | start, cancel and join against a thread that may end by itself | checked, proved |
| `PoolSelection`, `MCPoolSelection`, `PoolSelectionProofs` | a configuration change against a session, and the choice among pools | checked, proved |
| `MsLink`, `MsLinkProofs` | the exchange of `SlaveGate` and `MasterGate` over SPI: jobs, settings, nonces | checked, proved |
| `PsuContract`, `PsuPower`, `MCPsuPower`, `PsuPowerProofs` | what the boards may rely on of their supply; detection of the supply, its voltage, the settings stored under the interrupt; that one implements the other | checked, proved |
| `BoardPower`, `BoardPowerProofs` | power switches of the boards under temperature, current and fan limits, trips and resets | checked, proved |
| `ChipStats`, `ChipStatsProofs` | the counters of a chip on their way through the chain and the frame to the totals of the master | checked, proved |

What composes what:

* `MsLink` runs beside a pool that does anything `JobSource` allows (`Source ==
  INSTANCE JobSource`: its `NewJob`, `JobsCleared` and `MasterRestarts` are the steps
  of `Source`), and `StratumPool` implements `JobSource`. So what is proved of
  `MsLink` holds with the Stratum client of the code.
* `ThreadRunner` is the detail behind the atomic `StartThread` and `StopThread` of
  `StratumPool` and behind the join in `PoolSelection`.
* `RingQueue` implements the bounded queue whose rule for a full queue `StratumPool`
  uses.
* `BoardPower` runs beside a supply that does anything `PsuContract` allows (`Psu ==
  INSTANCE PsuContract`, an action of it is an action of `BoardPower`), and
  `PsuPower` implements `PsuContract`. So what is proved of `BoardPower` holds with
  the supply of the code, whose interrupt and types would not fit into one state
  space with the boards.
* `ChipStats` and `MsLink` look at the same exchange, one for what is kept in an
  array with too few places, the other for what is kept in rings of nonces.

Every invariant and every action property that a run checks is also a theorem.

Left for later, in this order: a set of reported nonces as the abstract
specification of `MsLink`, the steps of a hash-board test (`HbtMgr`), the set-up of a
chain.

## 3. StratumPool

### State and actions

Variables carry the names of the members they stand for (`protocolState` is
`m_protocolState`, `jobs` is `m_jobs`, and so on). `pc` is the position of the
network thread. The environment has `pending` (requests the pool has not answered),
`conn` (what the pool of this connection knows: the extranonce it gave, whether it
accepted the worker), `handedOut` and `oldJobs` (jobs the slaves may still work on)
and `nextWork`, which numbers the contents of jobs.

| Code | Actions |
|---|---|
| `netHandler`, `processNetSession` | `BeginSession`, `SessionEnds` (an operator, part of every step that throws), `CheckTimeouts` |
| `connectToPool`, `subscribeToPool`, `authorizeWorker` | `ConnectSucceeds`, `ConnectFails`, `SendHandshake` |
| `onInputData`, `onInputMessage` and the response handlers | `OnResponse`, `OnGarbledLine`, `InputThrows`, `InputDone` |
| notifications | `OnMiningSetExtranonce`, `OnSetDifficulty`, `OnNewMiningJob` |
| `m_subscribeResendTimer` | `ResendSubscribe`, `NoResend` |
| `sendAllPendingShares`, `sendShare`, `StratumReqMgr` | `SendShare`, `SendDone` |
| `doStart`, `doStop` | `StartThread`, `StopThread` |
| `getCurrentJob`, `submitShare` | `GetCurrentJob`, `SubmitShare` |
| `PollTimer` | `Elapse` |
| end and start of the process | `ProcessRestart` |

Sections protected by a mutex are one step. Two consecutive sections are one step
where the other thread's steps that fit between them commute. Between two rounds of
the send loop the main thread may act. A send may fail in every place where the code
sends; a failed send, a receive error and a bad line all end the session.
`suggestDifficulty` is never called and the state `SUGGESTDIFF` never set, so
neither is in the model.

Abstractions: a job is its id, the number of its content, its extranonce and
difficulty. A share names the content it was found in, and what the chip claims and
what the hash really reaches are two numbers: `Submittable` makes the tests of
`sendShare` and `ShareValidator`, which recomputes the hash. The age limit of a
record (36 s) is a choice in `CleanupOldRecords`. An unfinished input line is
`"partial"`, and `"stale"` once its connection is gone.

### Environment

* The pool answers subscriptions in the order it received them (it is one TCP
  connection); other replies come in any order or never.
* `"Initialising"` is sent at most `MaxInitialising` times per connection.
* A slave may report, at any time and repeatedly, a solution of any job it was ever
  given, by this process or an earlier one, or of the built-in job.
* `Elapse(t)` makes a running timer an elapsed one. It is enabled only where the
  network thread is about to look at `t`: nobody else can tell the difference, and a
  timer that elapses earlier is seen at the same place.

### Properties

* `TypeOK`, with the facts that are not types: no difficulty of zero is taken from
  the pool (`-start_diff 0` may set an initial one), the bound of the share queue,
  job ids.
* `QueueIsCurrent`: queued jobs carry the extranonce of this connection.
* `ServiceIsReady`: `IN_SERVICE` means an accepted worker, a difficulty and a
  running job timer.
* `SubmitsAreGood`: what is submitted fits a queued job, whatever slaves report.
* `ImplementsJobSource`: what `getCurrentJob` returns, seen through `CurrentJob`,
  changes as `JobSource` says: a job is replaced by one with the next id, or goes;
  ids begin again with the process and never in between, whatever is cleared.
* `RecordsAreSound`: no two request records have the same id, and a record and a
  pending submission with its id are about the same share.
* `SetupResolves`, `ServiceIsFed`: nothing waits for ever.

### Runs and bounds

| Run | Instance | Shows |
|---|---|---|
| `StratumPoolShares` | 1 solution with a good and a bad report, 2 jobs, 2 extranonces, 4 requests a session, 1 process restart, limit of one record and one reject | the safety properties under late, repeated and wrong shares, failed sends, reconnections and restarts |
| `StratumPoolLive` | an initial difficulty of zero, no shares, 1 job, 2 extranonces, 1 `"Initialising"` reply, so up to two subscriptions at once; fairness | `SetupResolves` and `ServiceIsFed` over all orders of replies and notifications |

`MaxWork` bounds the jobs in a behaviour, `MaxRequests` the requests of a session,
`MaxInitialising` and `MaxRestarts` what their names say; they exist in the model
only. Two jobs are enough for a current and a stale one, two extranonces for an old
and a new one, `MaxShares = 1` makes the share queue overflow, `MaxReqRecords = 1`
makes the clean-up of the records drop one. Four requests are a subscription, an
authorization, a share and its repetition. `StratumPoolShares` uses the symmetry of
the extranonces: no definition distinguishes one of them. Deadlock is not checked:
the thread may exit for good (`exitOnError`, too many connection attempts), after
which nothing more has to happen.

Fairness (`FairSpec`): weak fairness of the network thread (the scheduler runs it)
and of `InputDone` (a `recv` returns a bounded number of lines, so the input loop
ends); strong fairness of every timer, since `Elapse` is enabled only at the places
where the timer is looked at: a timer looked at again and again elapses. A timer
restarted for ever would be treated too well by that, but a behaviour that violates
`SetupResolves` or `ServiceIsFed` stays in one session, and in one session each
timer is started a bounded number of times (`MaxWork`, `MaxInitialising`). None for
the pool or the slaves.

A pool that answers every subscription with `"Initialising"` does restart the state
timer with each answer (`StratumPool.cpp:1019`) and keeps the client waiting for as
long as it goes on: `SetupResolves` holds because `MaxInitialising` ends that.

### Divergences from comments

* A comment (`StratumPool.cpp:1140-1143`) promises that the acceptance timer causes
  a reconnection when clearing the queues does not stop a series of rejects. The
  timer is stopped when a session begins (595) and started by an accepted share only
  (1109): in a session whose first shares are all rejected it does not run. In the
  model `timers["nonacceptance"]` then stays stopped and `CheckTimeouts` never acts
  on it.
* Another (`StratumPool.cpp:592-594`) promises that this timer stands still until a
  first positive submit response; a resend timer that survives its session makes the
  next one subscribe twice, and the answer to the older of the two counts as an
  accepted share.

### Proofs

All from `ConstantsAssumption` alone, for every value of the constants.

* `TypeCorrect`, `Spec => []TypeOK`; one lemma per action, with lemmas about the
  helpers (`Enqueue`, the records, `SessionEnds`).
* `QueueAlwaysCurrent`, `ServiceAlwaysReady`, `GoodSubmits`, and `JobIdsIncrease`:
  `NewJobsGetNewIds`, the ids of handed-out jobs increase over all sessions. No run
  checks that one, since `ImplementsJobSource` says more. None of these invariants is
  inductive by itself. `SafeInv` adds `DisconnectedInv` (without a connection nothing is pending and the pool has promised nothing),
  `RequestInv` (every pending request has an id in `1 .. lastRequestId`, no
  subscription is younger than `subscribeRequestId`, and `authorizeRequestId` can
  only be an authorization) and `HandshakeInv` (a connected client is in
  `SUBSCRIPTION` or served; once served no subscription is pending; `BOOTSTRAP` and
  `IN_SERVICE` mean that the worker was accepted). `QueueIsCurrent` needs the order
  of subscription replies: the client moves on with the answer to its last
  subscription, so no older one can still change the extranonce. `JobIdInv` bounds
  the ids of all jobs of the process by `jobIdCounter`.
* `ImplementsSource`, `Spec => ImplementsJobSource`, over `TypeOK` and `JobIdInv`:
  `OnNewMiningJob` maps to `NewJob` (the counter is never below its first value, so
  it goes up by one), `ProcessRestart` to `Restart`,
  and every other step to `JobsCleared` or a stutter, as `IdsUntouched` says: it
  leaves the jobs, or clears them.
* `RecordsAlwaysSound`, over `RequestInv`. Only `SendShare` remembers anything, the
  other actions at most take records away (`RecordsShrink`). Its id is above those of
  all pending requests, a record that an earlier session left under that id goes, and
  a share whose solution is in the table is not sent; a clean-up of a table above its
  limit finds an oldest record to drop (`LeastOf`, `CleanupMakesRoom`).

Only model-checked, as liveness is beyond the prover: `SetupResolves` and
`ServiceIsFed`.

## 4. BoundedQueue and RingQueue

`RingQueue` has the array, the indexes and the size of the class; `Enqueue`,
`Dequeue`, `Pop` and `Clear` are its operations, each one step because the users
hold a mutex. `Contents` is what `operator[]` shows, and `Bounded` is `BoundedQueue`
with that as its queue: `ImplementsQueue` says that every operation changes it as a
user expects, and that what is dropped or delivered is the oldest element.
`IndexesCoherent` says that head, tail and size, which have a wrap rule each, agree.

* Run `RingQueue`: capacity 3, three elements; every position of the head and every
  fill level occurs. The system never stops, deadlock is checked.
* Not in the model: `copy`, whose loop copies the first `size` places of the array
  and not the elements, which are elsewhere once the head has moved. No code copies
  a queue that is in use.
* Proofs (`RingQueueProofs`, from `RingAssumption`): `AlwaysCoherent`, where
  `IndexesCoherent` is inductive, and from it `ImplementsBoundedQueue`, by one lemma
  per operation that computes `Contents'`, on lemmas about serial numbers and
  places.

## 5. ThreadRunner

One thread (`main`) calls `start` and `doStop` = `cancel(true)` and `join()`; any
number of threads run `threadRoutine`. `m_threadId` is read and written without a
lock, so every read of it is a step: between the test in `cancel` or `join` and the
use of the id the thread may end. The value for "no thread" is the id of the thread
that built the object, so using it means using the main thread. `start` waits on a
condition variable; its mutex is held while `main = "starting"`. `MaxThreads` bounds
the threads of a behaviour.

* Run `ThreadRunner`: three threads, so a thread that starts, one that ends and one
  that ended long ago; fairness: threads are scheduled and a cancelled thread
  reaches a cancellation point, nothing makes the worker return by itself.
  `AtMostOneWorker`, `StopMeansStopped`, `RunningIsKnown`, `StopReturns`. Deadlock
  is not checked: the main thread may be cancelled (below).
* Finding, run `ThreadRunnerStart`: a thread that is over before its starter looks
  leaves the starter waiting for ever.
* A divergence that no run singles out: the comment at `ThreadRunner.h:101` says
  that the thread is cancelled. A stop that meets a thread ending by itself, between
  the test in `cancel` and its use of the id (112), calls `pthread_cancel` on the
  thread that built the object, the main thread. `main = "dead"` is that outcome.
* A thread that ends by itself resets its id (194), so nobody joins it and its stack
  is not given back; the model has the sequence, memory it does not have.
* Proofs (`ThreadRunnerProofs`, from `ThreadAssumption`): `AlwaysTyped`,
  `OneWorker`, `StoppedForGood`, `RunningThreadIsKnown`. The invariant `IInv`
  follows the id: it is stored exactly while its thread is between its first and its
  last write (`IdStored`); before that write the starter waits (`CreatedIsAwaited`);
  a joiner waits for the only thread that can still be active (`JoinsTheActive`).
  The main thread's death is part of the model, so the theorems hold in spite of the
  finding. `StopReturns` is model-checked only.

## 6. PoolSelection

The main thread finds a changed configuration (`OnConfigChange`), copies it into
`m_newPoolConfig` in two steps, sets `m_configChanged` and restarts the network
thread (`RestartStops`, `RestartJoined`, `RestartStarts`). The network thread takes
the change in `CheckNewConfig`, `TakeConfig`, `ConfigTaken`: two halves of the copy,
then the flag and the array of pools. Around it is its loop as far as the choice
goes: `DefaultNotChecked`, `DefaultIsDown`, `BackToDefault`
(`checkDefaultPoolInfo`), `ConnectSucceeds`, `ConnectFails`, `SessionGoesOn`,
`SessionFails`, with `ReselectPoolInfo` in the steps that fail. `failures` is a
history variable. A configuration is an address of the default pool and the set of
backups it names.

Assumed: the flag is seen set only after the data (no reordering of the two writes
by the compiler or the processor); with `Hurried = FALSE` the main thread comes back
for the next change only after the last one was picked up, since it looks every
`log_delay` (10 s). Left out: the exit after too many attempts, which is in
`StratumPool`.

| Run | Instance | Shows |
|---|---|---|
| `PoolSelection` | all configurations over two addresses, one retry, two edits, both outlooks, fairness | types, `ChoiceIsFresh`, `ConfigIsInForce`, `NotGivenUpEarly`, `ServiceIsFound` |

Two edits are a change and one that follows it, be it the return to the first or one
that meets the network thread still on its way to the new pool. `Settle` marks the
time from which an `outlook`, picked from `Outlooks`, holds: in one the default
pools are reliable and the backups do what they like, in the other only the second
backup accepts anybody. The search must succeed from every state reached before.
Fairness: both threads run, a cancelled thread ends, the timer of the default pool
elapses if it is looked at again and again (it is restarted only when another pool
is chosen or when the default pool refused, and under neither outlook does that go
on for ever without success). Deadlock is checked.

Two divergences from the comments, that no run singles out. `Config.h:36` calls the
retry count the number of retries before the next pool is taken; a pool that accepts
connections and serves nobody is retried for ever, for the count begins again with
every connection (`StratumPool.cpp:272-279`, `626-631`; `ConnectSucceeds` sets it to
0). And `analyzeConfigChange` compares neither passwords (`ApplicationImpl.cpp:75`
and `:479`), so an edit of nothing but a password is no change to the program; a
configuration of the model has none.

Proofs (`PoolSelectionProofs`, from `SelectionAssumption`): `ChoiceAlwaysFresh`,
`TypeAlwaysCorrect` and `NeverGivenUpEarly` from `ChoiceInv`, whose `CountInv` ties
the retry count to the failures in a row and to the connection; `ConfigAlwaysInForce`, under `~Hurried`,
from `ForceInv`: `ChangeInv` says how much of a change each side has copied at each
place, `InForceInv` what the thread works with, `ConnInv` that a connection made
under the old configuration ends before the main thread is idle. With `Hurried =
TRUE` a second change may meet the network thread between the two halves of its copy
and the thread works with a mixture: the assumption is needed. `ServiceIsFound` is
model-checked only.

## 7. MsLink

`turn` is the slave `runTxRx` comes to. One exchange is one step of both sides:
`Transfer` when the slave's driver is armed, `TransferToBusy` when it is not,
`TransferThrows` when the SPI device reports an error and `rxBuffer` keeps the
answer of the slave before. A slave dispatches what it received, fills its answer
and arms the driver in `CheckDataTransfer`; its answer is therefore one exchange
old. `DownloadNonce` moves a nonce from a chip into the ring of the container
(`SendNonce`, `AddNonce`); the write that clears the chip's slot may be lost. The
jobs come from `JobSource` (`NewJob` and `JobsCleared`, what `getCurrentJob` sees of
`StratumPool`), the settings from `PullOscConfig`. `MasterRestarts` and
`SlaveRestarts` forget what is in memory.

Abstractions: a block of a frame arrives whole or not at all (its CRC is trusted),
and any of the blocks may be lost, be it by a spoilt block, which stops the
dispatch, or by a spoilt magic word, which skips one. A cut or shifted transfer is a
lost one, and a transfer that throws does so before its first chunk. Oscillators are
one number, 0 for the power-down flag. The built-in tests, power supply, chip
statistics and error blocks are left out. `found`, `entries`, `submits`, `heard`,
`overrun`, `since` and `replySince` record what happened, for the properties.

* `NoncesAreAccounted`, two parts. `NoncesAreKept`: a nonce that entered a container
  is submitted, still there, or was overrun or reset unheard. `RepeatsHaveCauses`: a
  nonce is submitted once for every time it entered a container, and once more for
  each failed transfer and restart of the master.
* `OverrunTakesAWhole`: to overrun an unheard nonce takes more nonces than the
  container has slots since the newest one that was heard.
* `NoncesArrive`, `JobArrives`: under fairness, what is sent arrives. A slave knows
  jobs by their ids, which begin again with the master: after a restart an old job
  may stand for the new one of the same id, until the next job.

| Run | Instance | Shows |
|---|---|---|
| `MsLink` | 2 slaves, containers of 2, 3 nonces, a failed transfer, a restart of the master | `NoncesAreAccounted`, also when the answer of one slave is taken for another's; `OverrunTakesAWhole` |
| `MsLinkLive` | 1 slave, a container of 1, a nonce that may enter twice, 2 jobs, one of each fault, an edit, fairness | `NoncesAreAccounted` when a chip's slot is read again and a slave forgets its container; `NoncesArrive`, `JobArrives` |
| `MsLinkSettings` | 2 slaves, an edit, fairness | the finding |

Three nonces are one more than a container has slots, so one can be overrun; the
smallest container with a wrap that is not also its start has two. The bounds
`MaxJobs`, `MaxFound`, `MaxEntries`, `MaxThrows`, `MaxRestarts`, `MaxResets` and
`MaxEdits` exist in the model only. Deadlock is checked: the exchange goes on.

Fairness (`FairSpec`): the loops of master and slaves go on (weak), and of the
exchanges with a slave that is armed again and again some come through whole
(strong): without that no protocol could work.

Finding, run `MsLinkSettings`: the change flag is cleared when the first frame with
it is built, so a setting reaches one slave at most, and none if that frame is
missed.

Proofs (`MsLinkProofs`, from `LinkAssumption`): `AlwaysTyped`, `AllNoncesAccounted`,
`OverrunsTakeAWhole`, for any number of slaves, nonces, slots and faults. The bound
of `RepeatsHaveCauses` says nothing of the submits that are already on their way, so
it is not inductive. `DebtInv` counts them: a nonce that stands in `txBuffer` in a
slot where the master does not know it will be submitted with the next answer, and
one that stands in the container in a slot where `txBuffer` has another may be with
the answer after that; submits and debt together never exceed the causes. A failed
transfer is one cause and must cost no nonce more than one: a nonce is held by one
slave only (`OwnInv`), and what is left in `rxBuffer` is known for one slave and holds
nothing of the others (`RxInv`). `NoncesAreKept` needs `AgeInv`: a slot older than the
last container that was heard has only what was heard, which is what `since` and
`replySince` stand for. `NoncesArrive` and `JobArrives` are model-checked only.

Two more theorems are the safety half of `JobArrives`. `SlavesAlwaysMoveOn`: a slave
changes its job only for a younger one, or is reset; no frame that was missed, read
late or prepared by an earlier process of the master brings an old job back.
`IdsAlwaysNameJobs`: until the master restarts, a slave whose job has the id of the
current one has the current one, so that comparing ids (`master_gate.cpp:338`) is
enough. `OrderInv` is what they need of the way down: the current job is the
youngest, and a job in a frame is younger than the slave's or the same; `NameInv`
ties the ids to the numbers of the jobs until the first restart. TLC agreed on the
instance of `MsLinkLive` before they were proved.

## 8. PsuContract and PsuPower

`PsuContract` is what `isPowerDetected()` and `pHBWorkCond` mean to the boards:
power is promised once, after the supply was found, goes for good, and a slave with
a supply does not fault because of it. `PsuPower` has the two contexts that make
this hard. In the system tick interrupt, every 100 ms, `Tick` is one call of
`pwrModuleMgr::process100ms`: `Disabled`; `CheckFails` and `CheckSucceeds`, the
detection of the type; `CheckOfNothing`, the call through the null pointer behind
the last type, after which `WatchdogReset` restarts the slave; `Poll`, the messages
of the manager in use followed by `PowerMgr::step` with `nextState` and
`calcSetVoltage`. In the main loop `ReceiveConfig` begins to assign a `PsuConfig`
and `StoreWord` stores it field by field, with ticks in between; `SetEnable` is
`activateCan` of slave 0.

Assumed of the settings is that each value fits into its field, and no more: the
command line takes any (`CommandLineParser.cpp:398-420`) and nothing compares the
steps with the limits. Assumed of the machine: the assignment of the structure
stores ascending words, of which five hold fields of the model; a field is stored
whole, the initial voltage with the hold time and the two steps with each other. The
structure is packed, so a hold time or a step down of 256 units or more has its two
bytes in two words; a mixture of such bytes is not in the model. A call of address 0
is a hard fault, which ends in the watchdog; rectifiers of one type do not answer
the requests of another; one that reports no voltage reports no current either
(`Reports`). A measured current matters as below both limits, between them, or above
(`Loads`). Requests, alarms, fan speed and default voltage of the managers are left
out.

Run `PsuPower`: two rectifiers, as many as a slave takes; all types of supply and
none; three settings (the default; one with lower limits and a step down as large as
its voltage; one switched off), so that a torn copy mixes limits and steps that
exclude each other, a step down may lead to exactly 0, and one from the lower
minimum wraps round. One failed detection instead of six, and two ticks for the
hold, since both only count.

* `VoltageInBounds`: full power is asked for within the limits the master sent, also
  with settings stored half way and when a step down wraps. Excepted is 0, which the
  code does not clamp.
* `OvercurrentLowers`: a rectifier over its upper limit lowers the voltage in the
  same poll, or leaves it at the minimum, if the step down is not 0 and not larger
  than the voltage; one between the limits does not let it rise, whatever the step.
* `ImplementsContract`: `Contract!Spec` under the mapping of `state` to `power`.
* `BoardsGetPower`: a supply that answers is found whichever type it is, although
  the search runs off the end of its array in between; one that stays steady gives
  power.

Fairness: the tick comes again and the main loop runs (weak), the watchdog resets,
the frame that makes this slave 0 arrives and the rectifiers answer requests of
their type now and then (strong: resets interrupt both). Deadlock is checked.

Proofs (`PsuPowerProofs`, from `PsuAssumption`): `AlwaysTyped`, `AlwaysInBounds`,
`AlwaysLowered`, and `KeepsContract`, which maps initial states and each step. The
inductive invariant is `VoltageInBounds` with types and two more parts. `CfgInv`:
every field of the settings in force is one of some settings the master sent, torn
or not. `CheckInv`: nothing is polled before the type is found, and the Huawei
manager steps `PowerMgr` only with both rectifiers known, so that a loss of
`registered` cannot hide an overcurrent. `NeverRaisedWithRoom` drops the exception
of `OvercurrentLowers` at the price of an assumption about the settings, `LeaveRoom`:
every step down is smaller than every minimal and initial voltage, and there is a
step up from nothing, as with the defaults (0.5 V from 42.0 and 44.0 V, 0.1 V up).
Then no overcurrent ever raises the voltage but to the minimum; `RoomInv` is the
invariant, and `Reports` is needed only for the first step, from nothing
(`StepFromNothing`). `BoardsGetPower` is model-checked only.

Divergences from the documentation, seen while modelling:

* `README.txt:56` calls `-psu_start_t` the hold time of the initial voltage. With
  Huawei rectifiers there is no hold: `PowerMgr` is first stepped when both are
  known, finds `setVoltage` 0, measured voltages of 0 and a `stableVOutTime` of 0,
  takes them for stable since the start and goes to full power
  (`power_mgr.cpp:66-77`).
* `README.txt:57` and `ms_data_psu.h:31-32` give the voltage steps per second; they
  are made every 100 ms.
* The step down is a decrement by its description, but it may raise the voltage.
  `setVoltage - voltageStepDown` is returned as a `uint16_t` (`power_mgr.cpp:165`)
  before it is compared with anything: with a minimum of 3 V and a step of 4 V, an
  overcurrent at the minimum gives 65436 hundredths, which the clamp
  (`power_mgr.cpp:133-136`) makes the full voltage of. And a step to exactly 0
  leaves the clamp out (`power_mgr.cpp:131`): the supply is asked for nothing while
  the boards have power. Both occur in the run `PsuPower` (at the lower minimum 2
  with the step of 3: 7 in words of 8, clamped to 3).
* Stepping up ends within a step of the target voltage, not at it.
* `-no_psu` (`README.txt:49`) leaves `pHBWorkCond` null, and no board is ever
  started.
* Once off, the supply stays off until the slave restarts.

## 9. BoardPower

`pc` is the place in the main loop of `MultyBoardMgr`: `"init"` (`InitSwitch`, board
by board), `"top"` (`MasterDataReceived` or `NothingReceived`), `"mode"` (`HbtPoll`
or `Update`, which reads the sensors of all boards), `"switch"`, `"clock"`, `"done"`
for each board, `"run"`. `processPwrSw` decides by `MustTurnOff`, `MayTurnOn`,
`Runs`; a decision to set a switch takes half a second, in which `Clock` changes the
flip-flop and `SetDone` the variable of the program. In between, the machine acts:
temperatures change (`TempChanges`), the hardware trips a switch (`Trip`),
rectifiers and fans leave their limits (`PlantChanges`), the master goes away
(`MasterLost`), the supply does what `PsuContract` allows, and the watchdog restarts
the program but not the flip-flops (`Reset`).

Abstractions: a temperature is below the lower limit, between the limits, above the
upper, or an error of the pin; a current is low just when the flip-flop is off; the
period and the count of low currents are one count of passes. A thermometer that
does not answer reads as 0 degrees, that is `"cool"`, as in the code. Statistics of
cooling, the debugging of switches and the supply of a slave other than 0 are left
out. All checks are on: the working conditions may turn off those of temperature,
supply and fans (`HashTempFlag`, `PsuFlag`, `FanFlag`, `board_mgr.cpp:284`, `316`,
`337`), and low currents are not looked at with a `psLowCurrent` of 0 or on boards of
type B that cannot measure them (`board_mgr.cpp:459-463`). With a check off, what
this section says of it does not hold.

Run `BoardPower`: one board (with two boards there are more than ten million states;
the theorems hold for any number), one pass of low current before a switch is set
again.

* `SwitchIsKnown`: no flip-flop is on that the program takes to be off.
* `PassLeavesSafe`: after a pass no board is on that the pass found hot, broken or
  unwanted, however long the switches of the others took.
* `StartsCool`: a board the program had switched off starts from below the lower
  limit; one its hardware tripped, from below the upper.
* `BoardsStop`: without master, with the power-down flag or without power the boards
  end up off for good, and a board that stays hot does not stay on.
* `TrippedReturns`: a board whose switch tripped is switched on again or known to be
  off.

Fairness: the main loop turns and the watchdog resets (weak), and in some pass all
thermometers answer (strong). Deadlock is checked.

Proofs (`BoardPowerProofs`, from `BoardAssumption`): `AlwaysTyped`, `SwitchesKnown`,
`PassesLeaveSafe`, `StartsAreCool`. `PassInv` is the loop invariant of a pass: the
boards before `b` are safe, and a switch being set on belongs to a wanted board;
`InitInv` is that of the initialisation; `ClockInv` and `DoneInv` carry the decision
over the two halves of setting a switch. `BoardsStop` and `TrippedReturns` are
model-checked only.

Divergences from what a user of the options may expect:

* A failing thermometer counts as 0 degrees (`getBoardTemp`): while it fails, a hot
  board stays on.
* A board in test mode is switched by `HbtMgr` without checks, and nothing lets
  temperature switch it off; both properties about starting and stopping exclude it.
* What switches a board off is `HashTempHi` of the working conditions
  (`board_mgr.cpp:303`), not `-ps_temp_hi`.
* A board its hardware tripped because it was warm is switched on again while still
  warm.
* `writeTmpAlert` (`board_mgr.cpp:516`) and the handling of `psuWorkCond`
  (`master_gate.cpp:297`) go through `pHBWorkCond` also while it is null.

## 10. ChipStats

The chips of a chain each have an exchange zone: `conf` (the place the chip was told
it stands at), `block` (its counters) and `ready`. `Report` is their firmware, as
far as the slave relies on it. `Service(c, a, acked)` is `serviceNextLevel` at place
`c` where chip `a` answers, which is another than `c` if a chip missed a command of
the chain and the addresses agree (`Answers`): `LoadConfigTo`, `DownloadStatsFrom`,
`SendPwcData`, `GotoNextChip`. `CheckDataTransfer` fills the answer, `Stamp` renews
`toMasterTxId`; `Transfer` is the exchange with `PwcStat::onPwcBlock` for every
block. In `TransferThrows` the SPI device reports an error, which `runTxRx` catches
and prints (`SlaveGate.cpp:68-75`): `rxBuffer` still holds the answer of the exchange
before, with the slave before or with this one, and its blocks are stored for this
slave (`94-96`, `339-353`). Chips, slave and master restart by themselves.

Abstractions: the upload of a configuration is acknowledged at once; a chip without
one does not report; ids of sent blocks are their ranks; boards are powered. Other
slaves are no more than the arrays their answers may leave in `rxBuffer`
(`OtherArrays`, any blocks with counters of `OtherCounters` for places this chain has
too); a transfer that throws does so before its first chunk, so the slave has not
seen it. The set-up of the chain, nonces (in `MsLink`) and the broadcast of images
are left out. `past`, `life`, `taken`, `strayed`, `mixed` record what happened, for
the properties.

Run `ChipStats`: two chips with one address and an array of one place, so that each
chip competes with the other and may answer for it; a word of 4, so that a
difference wraps; one fault (a restart of chip 0, of the slave, of the master, a
chip given the place of another, or a failed exchange), two reports of something new.

* `BlocksAreOwn`: what the master knows of a chip was written by that chip, unless
  another one was once given its place (`taken`) or its last block was another
  slave's, left by a failed exchange (`strayed`). The next good block of the chip
  ends the second exception, nothing ends the first.
* `CountsAreTrue`: the master never counts more solutions than the chip found, and
  exactly those it reported while nothing restarted, in spite of stale, late and
  repeated blocks and answers that are processed twice; excepted are chips of which
  a block was added to one of another life or another chip (`mixed`).
* `EveryChipIsHeard`: `sendPwcData` gives every chip its turn in an array with too
  few places.

Fairness: both loops go on (weak). For each watched chip, strong: some reports come
just before the chip is serviced, some services of a chip with a report succeed, and
some frames with its block arrive. Each is a repeated chance over unreliable links.
Deadlock is checked.

Proofs (`ChipStatsProofs`, from `StatsAssumption`): `BlocksAlwaysOwn`,
`CountsAlwaysTrue`, `TypeAlwaysCorrect`, for any number of chips, places, faults, any
width and any arrays of other slaves. `DataInv` orders the blocks of a chip along
their way: what the master holds (`Held`) is not younger than what is in a frame, that
not younger than what is in the array, and all of it written by the chip before now.
`RxInv` says that what is in `rxBuffer` was taken already, so that taking it again for
the same slave changes nothing. `CountInv` ties a total to the block it was made with.
`ProcessIInv` is the step common to both kinds of exchange: the blocks of the array
are younger than what the master holds, or foreign and their places marked as such. `TypeOK` has two facts that are not types:
no array has two blocks of a chip (`SendKeepsPlaces`), and
the ranks of the ids of sent blocks are no more than the chips (`StampType`).
`EveryChipIsHeard` is model-checked only.

Seen while modelling:

* The comment at `PwcStat.cpp:103` promises that positive differences are
  accumulated. A restart of a chip is noticed only if its clock went back; if its
  new clock has already passed the old one, differences of `uint32_t` counters that
  went back wrap. `mixed` is that case.
* After a failed exchange the counters of one slave stand in the statistics of
  another, and the difference to them is added to its totals. The next good block
  replaces the counters; the totals keep what was added. `strayed` and `mixed` are
  that case.
* A chip without a configuration that answers in the place of another is given that
  place, and as all sequence numbers are equal it is never corrected. `taken` is
  that case.
* A block is acknowledged to the chip even if the full array has no place for it; a
  later one makes up for it.

## 11. Not modelled

Most of the lines of the repository are third-party code: the STM32 drivers and
CMSIS headers, jsoncpp, bcm2835, stm32flash and the serial library. Of the program's
own code the following is not in a module, for reasons given per component in
`PROJECT.json`.

* Arithmetic and formats: SHA-256 and targets, hex, JSON, the encoding of frames and
  CAN messages, register and pin access. They compute a value in one step; what
  depends on it is an input of the modelled handlers.
* Reports: statistics sums, history buckets, logging, events, the files for the web
  server, the comparison of limits for the system monitor. Nothing reads them back.
* The steps of a hash-board test (`HbtMgr`), except for the switches it sets, and
  the set-up of a chain, oscillators and serial numbers: long sequences of bus
  access for operators and manufacturing.
* The firmware of the PIC and of the fan board and the test tools: separate programs
  of one loop. The firmware of the PWC is in the repository as a binary only.

Data races on plain members (`m_protocolState`, `m_configChanged`, `m_threadId`) are
modelled as atomic reads and writes, except for copies of whole structures: those of
a pool configuration in `PoolSelection`, in two steps each, and that of `PsuConfig`
in `PsuPower`, field by field.

Two hazards of `PROJECT.json` have no property, each with its reason: the rejects of
section 3, where the code does not do what its comment says, and a chip that puts a
new nonce into a slot while the slave clears the old one (`pwr_chip_chain.cpp:725`),
which depends on firmware that is not in the repository.
