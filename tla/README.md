# XMclaw in TLA+

Specifications of the parts of XMclaw whose correctness depends on the order in
which coroutines, pool threads, sockets, timers and crashes meet, the TLC runs
that check them on small instances, and TLAPS proofs of the results that should
hold for every instance.

| Part of the code | Modules | TLC | TLAPS |
| --- | --- | --- | --- |
| event bus (`core/bus`) | `EventBus`, abstract `EventLog`, `MCEventBus` | 3 runs | `EventBusProofs`, `EventBusOnce`, `EventBusOrder` |
| chat session: gateway, turn, hop loop, history | `SessionTurns`, `Transcript`, `MCSessionTurns` | 4 runs | `SessionTurnsProofs` |
| task scheduler (`cognition/task_scheduler.py`) | `TaskScheduler`, `MCTaskScheduler` | 1 run | `TaskSchedulerProofs` |
| kernel pool (`providers/tool/kernel_pool.py`) | `KernelPool`, `MCKernelPool` | 1 run | `KernelPoolProofs` |
| cron store and its tick (`core/scheduler/cron.py`) | `CronJobs`, `MCCronJobs` | 1 run | `CronJobsProofs` |
| approvals and undo behind the file tools (`security/`) | `Approvals`, `UndoCabinet`, composed by `GuardedEdits`, `MCGuardedEdits` | 2 runs | `GuardedEditsProofs` |

Paths below are relative to `src/xmclaw/`.  Source lines of every definition are
in `PROJECT.json` under `map`.

## 1. The system

XMclaw is a personal agent that runs as one daemon process: FastAPI and asyncio
in one thread, SQLite calls in a thread pool, and clients (web, terminal, chat
channels) connected by WebSocket or REST.

**Event bus** - `core/bus/sqlite.py`, `core/bus/memory.py`.  State: one SQLite
connection shared by all, an asyncio lock, a write-behind buffer of LLM chunks
per kind with the set of kinds that have a timer, the list of subscriptions.
Operations: `publish`, `publish_many`, the flush timer, `subscribe`/`cancel`,
`prune_older_than` (retention task), `delete_session`, `close`.  Everybody
publishes; subscribers are the WebSocket echo, the memory and evolution
services, the channels.  Correct when subscribers only see what is stored, once
and in order, and no chunk is forgotten in the buffer.  Hard: the pool thread
outlives a cancelled coroutine; maintenance shares the connection without the
lock; timers race with flushes on behalf of an ordinary publish.

**Session gateway** - `daemon/app.py` (`agent_ws`).  State: per connection a
frame queue, a reader task and a serial loop; per session the owning socket, the
active turn's task and the cancelled flag; a steering watchdog.  It calls
`run_turn`, `request_cancel`, `enqueue_steering` of the agent.

**Agent turn** - `daemon/agent_loop.py` (`run_turn`, `_run_turn_inner`),
**hop loop** - `daemon/hop_loop.py`, **history** -
`daemon/history_compression.py`, `daemon/session_store.py`,
`daemon/history_reconstruction.py`.  State, keyed by session: the history, the
working messages of a turn and their stash, the steering queue, the cancel
event, undo checkpoints, the stored row.  Correct when histories stay
well-formed for the provider, nothing the user typed or was answered is lost,
stops end turns and are reported once.  Hard: kills strike at any await, the
finally block awaits, state is keyed by session and not by turn, the history is
loaded late, the stash is sometimes the list and sometimes a copy.

**Task scheduler** - `cognition/task_scheduler.py`.  State: rows in SQLite, a
loop, a table of running asyncio tasks.  `submit`, `cancel`, `start`, `stop`;
used by agent-to-agent messages, cron, the HTN planner, the swarm and REST.
Correct when tasks run after their dependencies, in at most `max_concurrent`
slots, are retried as often as allowed, stay cancelled, and do not get stuck.

**Kernel pool** - `providers/tool/kernel_pool.py`, wired in
`daemon/app_lifespan.py`, used by `code_python`.  State: the entries by session,
with a lock, a last use, a sticky `dead` and a `bootstrapped` flag each; a global
lock; the kernels' processes and the threads blocked in their clients.  `execute`,
`reset_session`, `reap_idle`, `shutdown_all`.  Correct when no process is
forgotten, a session's variables live in one kernel, the cap holds and every call
returns.  Hard: a start takes up to 30 seconds under the global lock, a thread
cannot be cancelled, a kernel is killed while others wait for it.

**Cron store** - `core/scheduler/cron.py`, its runner in `app_lifespan.py`, edits
from `routers/cron.py` and the agent's tools.  State: the list of jobs in memory, a
dirty flag, `jobs.json`; the tick's copy of the due jobs.  Correct when what a user
asked of a job stands, a one-shot job runs once, and due jobs get run.  Hard: a run
is awaited for minutes while the store is edited; a save fails; a crash falls
between a run and its record.

**Approval service and guard** - `security/approval_service.py`,
`providers/tool/guarded.py`.  State: pending and answered requests in memory.  The
guard leaves a request for a risky call; an identical call later takes one approval
and runs.  Correct when a risky call runs no more often than it was approved.
Hard: expiry and caps are enforced only by the next request or answer.

**Undo cabinet** - `security/undo_cabinet.py`, called by the file tools
(`providers/tool/builtin_fs.py`) and by the rewind of a session
(`daemon/agent_loop.py`).  State: rows in SQLite, copies of files, checkpoints in
memory, the files themselves.  Correct when a rewind brings the files back.  Hard:
stacked edits of several sessions, changes from outside, expiry, and the three
steps of an undo (file, copy, row), each of which may fail or be the last.

`PROJECT.json` has a row for every other component, with the reason why it is not
modelled, and lists the hazards of the code with the properties that cover each,
or why none does.

## 2. What is modelled

### EventBus

An action is the code from one `await` to the next; what runs in a pool thread
is an action of its own (`Insert`, `BeginWrite`, `CommitWrite`, `WriteFails`).

| State | Code |
| --- | --- |
| `pc`, `ev`, `todo`, `kind`, `batch` | where each publisher or timer stands and its locals |
| `lock`, `buffer`, `pending` | `_write_lock`, `_batch_buffer`, `_batch_flush_pending` |
| `up`, `txn`, `stored`, `durable`, `maint` | the connection, its open transaction, what it sees, what a crash leaves, the maintenance transaction |
| `active`, `inbox` | subscriptions and what their handlers were given |
| `said`, `fanned`, `risk`, `gone`, `lost`, `used` | history variables |

`publish` is `Publish`, then for a chunk `AppendChunk`, for anything else
`StartInsert`, `Insert`, `AfterInsert`; the ordering guard (drain the pending
kinds, then fan out) is `Continue`.  `_flush_batch` is `TakeBatch`,
`BeginWrite`, `CommitWrite`, `AfterWrite`, or `NothingToFlush`.  A SQLite
transaction belongs to the connection: an autocommit `Insert` that finds one
open joins it.  A publisher can be cancelled at each await (`Cancel`); a started
statement then goes on as an orphan.

`EventLog` is what the bus promises its users: a growing log, and announcements
of recorded events, once, in one order for all subscribers.  `EventBus`
implements it with `log <- Recorded` (committed rows, rows deleted by a committed
maintenance, and rows that joined a foreign transaction).

### Transcript, SessionTurns

`Transcript` has the messages as tuples (kind, owner, hop), the repair of calls
without results and the recovery of a failed turn.  `SessionTurns` is one session
with its tabs: `Connect`, `Disconnect`, `HangUp`, `SendUser`, `Stop`,
`Announced`, `WatchdogFires`, `TurnStarts`, `TurnOver`, `LoopEnds` are the
gateway; `Begin`, `Load`, `Prepare`, `HopStarts`, `SpliceNext`, `SpliceEnds`,
`LlmCalls`, `ToolReturns`, `Saved`, `LlmAnswers`, `Returns`, `Fails`, `Killed`,
`RecoverySaved`, `Ends` the turn; `Rewind`, `ClearSession`, `Crash`, `StoreFails` and
`StoreServes` come from outside.  `Leave` is what
`run_turn`'s finally block does before its first await, whatever ended the turn.
`Killed` is the delayed `task.cancel()`: it can strike in the turn, in a save
(whose thread goes on: `WriteLands`) or in the finally block itself.

Steering is spliced message by message (`daemon/hop_loop.py:555-568`): each is
appended and announced with an await, and the list the turn walks through stays the
session's queue (`shared`) until its last message is announced.  So what is accepted
meanwhile is spliced too, a second turn can walk through the same list, and
`SpliceEnds` empties whatever the queue is by then.  `todo` is what a turn has yet to
splice; once somebody else has dropped the queue (`Unqueue`) it is a list of its own.

Persistence is best-effort in the code: a save that raises is swallowed
(`daemon/history_compression.py:883-887`) or logged (`agent_loop.py:1592-1596`), and
the turn goes on with the history in memory.  Every save of the model goes through
`Saves`, which leaves the row as it was while the store is `down`; `stale` says that
the last one was refused.  A load that the store refuses falls back on the event log
(`agent_loop.py:2523`), or on nothing when that cannot be read either.

The stash `_inflight_messages` is the working list itself until a mid-hop save
replaces it by a copy; since lists only grow, a copy is modelled by its length.

A rewind or a clearing of the session takes back the turns started by then
(`removed`), not those that come after it, so what is claimed of kept messages and
answers goes on for later turns.  `Mended`, the repair of calls without results, is
the concatenation of each message with its stub (`Stubbed`), without recursion.

Abstractions: a hop makes one tool call; compression does not trigger; no context
engine; the content of messages is their identity.

### TaskScheduler

`status`, `deps`, `retries` are columns; `slots` is `_running_tasks`; `exec` is
where each execution stands.  Because the lock never has to be waited for,
`submit`, `cancel`, one pass of the loop and what follows the end of an execution
are atomic; `Restart` can also strike between the commit of a result and the
notification of the dependents.  `_has_cycle` is stated without recursion: the
walk comes back to a row exactly if some set of rows reached from the new
dependencies has in each row a dependency inside the set.  Between tasks of equal
priority the order is left open (the code takes the newest).  In `Cancel`, an
execution whose executor has just ended, but which has not resumed, escapes the
cancellation: before Python 3.12 `asyncio.wait_for` returns the result in that
case, and `pyproject.toml` allows 3.10.

### KernelPool

A kernel is named after the call that starts it.  An action is the code between
two points where others can run: `Queue` and `GetEntry` at the global lock,
`ResetSession` and `ResetDone`, `Spawn` (eviction included) and `SpawnReady` or
`SpawnFails` around the awaited start, `Acquire` at the entry's lock, `ThreadEnds` when
the boot or the user's code returns, times out softly, or raises, `HardTimeout`,
`Cancel` at any await.  A cancelled start goes on in its thread (`StrayStart`) and so
does a cancelled call (`LateThreadEnds`).  `ReapIdle` and `ReapNext` are the reaper
before and after each of its awaits, `Stop`, `ShutdownAll` and `Unwire` the end of
the daemon; `KillDone` is the thread of `_kill_entry`.

| State | Code |
| --- | --- |
| `pool`, `older`, `dead`, `booted` | `_entries`, the order of `last_used`, the flags of an entry |
| `pc`, `session`, `kof`, `result`, `threads` | the calls, the entry each holds, what it returned, threads in a client |
| `proc`, `killing`, `reaping`, `daemon` | processes, kills under way, entries the reaper has popped, the lifespan |

The five ways in which the code does lose a process are collected in `strays`
and named in the comment of `KernelAccounted`; anything else is a violation.  The
fifth is a start that ends once `shutdown_all` has cleared the entries (`Swept`): a
call that was starting, or waited at the global lock, puts its kernel into a pool
that nobody shuts down again.  An entry marked dead is replaced by the session's next
call (`Spawn`, `SpawnReady`); a process that dies by itself is not started again, for
the pool uses jupyter's manager without a restarter.

### CronJobs

A record is the set of its flags; "due" stands for a `next_run_at` that has come.
`Create`, `Remove`, `Pause`, `Resume`, `Trigger` save in the same step, or fail
to (`Saved`).  `TakeDue` is the tick's copy of the list, `RunStarts` and `RunEnds` or
`RunRaises` the awaited runner with `mark_fired`, which looks the job up anew.  `Stop`
gives the tick five seconds (`Stopped`), `Crash` strikes anywhere, `Start` reads the
file or cannot.  `wish` remembers what the last acknowledged edit asked for, `cut`
the runs whose end was not recorded.

### Approvals, UndoCabinet, GuardedEdits

`Approvals` is the store: requests in the order they are made, their status, the
order of answers, and which are past their age.  `Sweep` is `_gc`, part of
every `CreateRequest`, `Approve` and `Deny`.  `UndoCabinet` is the cabinet with the
files: `Edit` is a file tool (row and copy, then the change), `EditDies`
one in which the process dies before the change.  `Undo`, `UndoRecent` and `Rewind`
end in `UndoRows`, which says what a failing write (`OneFails`), a row that cannot be
marked (`Stops`), a store that fails before the first row (`NoneUndone`) or a death
(`DiesAt`) leave behind.

The copy is on the disk before its row is (`undo_cabinet.py:178`, 182), and a copy that
cannot be unlinked is forgotten all the same, since the row's path is set to NULL
whatever happens (135-138, 290-294).  Copies that no row refers to are in `left`:
`NoRow` is an INSERT that fails behind the copy, or a sweep that has unlinked and is
rolled back; `Kept` an unlink that fails.  `back` remembers the rows whose file was put
back: a death between that and the commit leaves such a row active, without a copy.
A rewind reads the checkpoint, so a checkpoint carries, as history, what
the files were (`files`) and which of them still have a whole way back (`whole`):
not those changed from outside, or whose row was not recorded or was undone out of
order.  `GuardedEdits` composes the two: `InvokeApproved`, `InvokeClean` and
`InvokeRisky` are the guard's ways through `invoke`, and a crash takes the
approvals and the checkpoints but neither rows nor files, also when it strikes in a
call that was let through (`InvokeDies`).

An invocation that passes the guard is one execution.  Inside the guard
(`daemon/factory.py:1840`) sits the `retry_aware` provider (1722), which may run a
failed tool once more with arguments a model has corrected, and which the guard would
not see.  It does nothing without a model, and none is given to it: the search for it
(2304-2311) follows `_inner` from the outermost provider and stops at the composite
(1772) that has been put around it.

Methods of both stores never await, so each is one action.  Calls are identical
when they are the same constant; what they write is their name.

## 3. Plan

Done: `EventBus` with `EventLog`, `SessionTurns` with `Transcript`, `TaskScheduler`,
`KernelPool`, `CronJobs`, and `Approvals` with `UndoCabinet` in `GuardedEdits`.
What would come next, in this order:

1. `SleepWorker`: idle detection, tasks, stop and rollback.
2. An abstract `Conversation` that `SessionTurns` is shown to implement, with
   parallel tool calls and compaction at a hop top.
3. An abstract `TaskGraph` for `TaskScheduler`, and the plan store and the worker
   swarm on top of it.
4. `SkillVersions`: registry, evolution controller and staging, with the watcher as
   second writer.
5. Writers of one path from several threads (`utils/fs_locks.py`), and the channel
   dispatcher as one more client of a turn.

Each module is written to be proved about: constants with a named assumption, one
action per operation, no RECURSIVE operator.  Runs are few: one for safety and
one for liveness per component, and for the gravest disagreements with a statement
of the code's authors.

## 4. The runs

Limits: every fault or rare event is counted in `used` against `Limit`, and at
most `MaxMix` different kinds of them meet in one behaviour.  Two kinds at once
cover the interplay that the hazards are about (a kill during a recovery, a
crash after a failure); the order and the place where they strike are free.

| Run | Instance | Shows |
| --- | --- | --- |
| `bus_safety` | 2 publishers, 2 chunk kinds, 3 events, 1 subscriber, any two of crash, write failure, cancel, maintenance, close | durability of what was seen, buffer scheduling, one place per chunk, accounting, lock ownership, refinement of `EventLog` |
| `bus_live` | 1 publisher, 2 chunks, an ordinary and an imported event, failure or cancel | at-most-once handling, publish order; buffered chunks settle, publishes end |
| `bus_persisted` | 1 publisher, maintenance | violation: a subscriber sees a row that is rolled back |
| `turns_one_tab` | 1 tab, 2 turns of 2 hops, two of: 2 stops, tie, failure, crash, rewind, a store that refuses loads and saves for a while | paired histories, stops reported once, messages kept; answers stored and store equal to memory between turns, except for what a refused save left out |
| `turns_tabs` | 2 tabs, 3 messages, overlap, stop, crash, rewind, deletion, close (one kind), steering spliced one by one | types, messages taken up once, nothing left behind by a turn |
| `turns_stopped` | 1 tab, fairness; stops, tie, failure, deletion, close | a stopped turn ends |
| `turns_restart` | failure and crash | violation: a stored conversation is overwritten after a restart |
| `task_graph` | 3 tasks, any dependencies, 2 slots, 1 retry, 2 cancels, a store error or a restart | dependencies, slots, cancels, retries respected; what may run ends |
| `kernel_pool` | 3 calls in 2 or 3 sessions, 2 kernels, one of: reset, cancel, hang, client error, dying kernel, failed start, reaper and shutdown | no process lost but in the five named ways, one kernel per session, the cap, causes of stray threads; every call ends |
| `cron_jobs` | 2 jobs, created three times and due three times, any two of: removal, pause, resumption, trigger, raise, failed save, stop, crash, unreadable file | edits stand, one-shot jobs run once, file follows memory; due jobs get run |
| `guarded_edits` | 2 writes and a risky deletion of a file by 2 sessions, 3 rows, 2 requests, a checkpoint, an undo, and one of: a file that cannot be copied, a copy that cannot be unlinked, a row that cannot be stored, a failing change or undo, a crash (in a call too), outside change, aged row, aged request | types, risky calls covered by approvals, caps, rewinds restore, no content lost before it is put back |
| `rewind_window` | 1 session, an aged row | violation: a rewind truncates the conversation and leaves the files |

Nine more configurations are kept beside these, outside the runs; each ends
with a violation of the one property it names, at the lines given:

| Configuration | Module | What it refutes |
| --- | --- | --- |
| `TurnsOverlap.cfg` | `MCSessionTurns` | `OneTurnAtATime`: each tab has a serial loop of its own (`daemon/app.py:2897`), so two turns of a session run at once, against "preserving the old one-turn-at-a-time ordering" (`app.py:2352`) |
| `TurnsProgress.cfg` | `MCSessionTurns` | `RecoveryKeepsProgress`: a mid-hop save replaces the stash by a copy (`daemon/history_compression.py:896`), so a failed hop loses what it appended, against "Appends are seen through the shared reference" (`agent_loop.py:3902`) |
| `TurnsFirst.cfg` | `MCSessionTurns` | `MessageGivenOnce`: the first message is logged before the history is rebuilt from the log (`agent_loop.py:2539`) and is in the request twice, against "the first turn starts empty" (`agent_loop.py:2500`) |
| `TaskCycle.cfg` | `MCTaskScheduler` | `Acyclic`: the cycle test does not see the new task's own row (`cognition/task_scheduler.py:468`), against "dependency cycle detected" (`task_scheduler.py:166`) |
| `CronTrigger.cfg` | `MCCronJobs` | `TriggerHeld`: a trigger during the job's own run is overwritten (`core/scheduler/cron.py:317`), against "Force a cron job to run on the next tick." (`routers/cron.py:119`) |
| `KernelClient.cfg` | `MCKernelPool` | `OneClientUser`: a cancelled call leaves its thread in the client (`kernel_pool.py:545`) and the next call of the session uses it too, against "concurrent calls into the SAME session serialise (ipykernel's blocking client isn't reentrant)" (`kernel_pool.py:146`) |
| `TurnsSteering.cfg` | `MCSessionTurns` | `SplicedOnce`: the queue is cleared only after each of its messages has been announced with an await (`hop_loop.py:555-567`), so two overlapping turns splice the same message; the loop counts on the turns of a session to follow each other |
| `KernelShutdown.cfg` | `MCKernelPool` | `ShutdownKillsAll`: a start that ends after the entries were cleared leaves a live kernel, against "kills every kernel" (`kernel_pool.py:154`) |
| `UndoLeftovers.cfg` | `MCGuardedEdits` | `NothingLeft`: a copy without a row, or one that could not be unlinked, stays for good, against "Expired backups get garbage-collected" and "backup file is freed" (`undo_cabinet.py:30`, 35) |

Why the bounds are enough: the races of the bus need two writers and a timer for
the same or another kind, which two publishers with chunks of two kinds give; the
session's state is carried from one turn to the next, so two turns show what one
leaves behind, and two hops are the least in which a save precedes a failure;
one period in which the store refuses covers a load, the saves of one turn or of
both; three messages are a turn, and one more to steer it while one is being spliced.
In `turns_tabs`, once turns have overlapped, at most one of them goes on behind its first
hop (the constraint `OneGoesOn`): steering is spliced at the top of the first hop, the
only one that the run's single hop allows, so both still meet there with any message;
three tasks give chains, forks and joins of dependencies and more ready tasks
than slots; three calls on two kernels evict one that another call may hold, and
the second call may be in the first one's session; two jobs make a tick's copy of
the due list outlive the run of its first job, and three creations let a job be
created again under its id; three rows on one file stack edits of two sessions
with a deletion between them, and two requests with room for one exceed the caps.

`bus_safety`, `turns_one_tab` and `turns_tabs` check invariants and one refinement
without liveness, up to the symmetry of publishers, messages and tabs: no
definition chooses among them or orders them.  The runs with liveness properties
use no symmetry.  Type invariants that are theorems (`EventBus`, `TaskScheduler`,
`KernelPool`, `CronJobs`) are not checked again by the runs.

The passing runs exclude, by name, what the violations show: `Orderly(S)` in
`SessionTurns` says that no turns overlapped and none of the mishaps in `S`
happened (`cut`: a second kill in the finally block; `meddled`: rewind or
deletion during a turn; `blind`: the history was not loaded, yet or at all; `lost`: a
crash while the last save was refused), `risk` in
`EventBus` collects rows that joined a foreign transaction, and `raced` and `torn`
in `TaskScheduler` are the late cancels and half-done completions.
`RiskHasCause` says that `risk` stays empty without maintenance and cancels.

`CHECK_DEADLOCK FALSE` is set for `SessionTurns`: with all turns used up and the
tabs gone the session does stop; for `KernelPool` and `CronJobs`, where the calls end
and the events are used up; and for `GuardedEdits`, where rows and requests are.

### Fairness

- `EventBus`: asyncio and the thread pool run what can run, and `asyncio.Lock`
  serves its waiters in order, so a task that can again and again take the lock
  gets it: strong fairness for the steps of each task.  Publishers need not
  publish, faults need not happen.
- `SessionTurns`: weak fairness for the steps of the turn that the event loop
  takes by itself, for the delayed cancel, for the loop's return from its turn and
  for pool threads.  No fairness for the model, the tools or the user.
- `TaskScheduler`: weak fairness for the loop's pass (every second at the latest),
  for what asyncio resumes, and for timeouts and backoffs, which the clock ends.
  None for executors.
- `KernelPool`: weak fairness for what the event loop, the threads and the operating
  system do by themselves: a start gives up after 30 seconds, a call has a soft
  and a hard deadline, channels that are closed let their thread go.  None for calls,
  resets, cancels and faults.
- `CronJobs`: weak fairness for the tick, for the next job of its list, for the end
  of a run (a turn has time limits of its own) and for the five seconds of a stop.
  None for users, the clock, faults and restarts.
- `GuardedEdits` has safety properties only: nothing in it has to happen.

## 5. The proofs

Every safety invariant that a passing run checks, and every action property of
theirs, is a theorem, and so is the refinement of `EventLog`.  The theorems are for
every value of the constants that satisfies `ConstantsAssumption`: disjointness of
names, types of parameters, for the pool and the jobs that sessions and jobs are
finite, for a session that `None` is no list of messages and no stash.  In
`GuardedEdits` they rest on the assumptions of its parts, of which one says that the
mark for a missing copy is not a content of a file, and `GuardAssumption`.

- `EventBusProofs`: `TypeCorrect` (`TypeOK`) is inductive once `PcData` is added (what
  each state of a coroutine says of the data it carries: a task about to flush names a
  batchable kind).  The invariant of `Durability` says which event a publisher
  carries, who owns the lock and the transaction, and that whatever a task is
  about to fan out is already recorded.  `SeenDurable` (`SeenIsDurable`) and
  `LockDiscipline` (`LockOwned`) follow.  Ownership of the lock is needed because
  a write failure rolls the connection's transaction back, which must not be
  somebody else's.
- `EventBusOnce`: `OncePlaced` says an event is carried, buffered, in one batch or
  fanned out, never two of these; `NeverTwice` (`HandledOnce`) follows, and with
  `SeenDurable` the `Refinement` of `EventLog`.  The module goes on with the other
  parts of the bus's invariant: what makes a row risky, that a kind with something in
  its buffer is scheduled, that a batch is held by who is flushing it, what is
  stored, and where a chunk is accounted for.
- `EventBusOrder`: `OrderInv` says that of two events of one publisher the later is
  nowhere ahead of the earlier: fanned out comes before being written, that before
  being buffered, each is in order inside, and a publisher that has yet to fan out its
  own event still has to drain whatever it said before.  `BusCorrect` is the invariant
  of the whole bus; `NoRiskUncaused` (`RiskHasCause`), `NeverStranded`
  (`BufferedIsScheduled`), `HeldInOnePlace` (`OnePlace`), `NothingVanishes`
  (`ChunkAccounted`) and `SentOrder` (`PublisherOrder`) follow.
- `SessionTurnsProofs`: each theorem adds a layer to the one before.  `TypeCorrect`
  (`TypeOK`) needs what a started turn has (`TurnData`): a loop, a message, hops left
  while it asks for a tool, a stash that is a beginning of its messages.  `Control`
  says that without overlap the turn the gateway refers to is the only one and that
  its flag tells whether its cancellation was requested (`Sole`, `Held`), and that
  only a kill in the finally block leaves a stash behind (`Dropped`):
  `StopsReported` (`StopReported`) and `CleanBetween` (`IdleIsClean`).  `Stored` adds
  that a session in use is loaded and that a finally block saves the history:
  `StoredBetween` (`IdleIsStored`), as long as the last save was not refused: what
  changes the history saves it at once or has its finally block before it, and a refused
  save is a `stale` one until the next.  `AlwaysPaired` (`HistoryPaired`) needs
  where the messages of the lists come from (`Said`), that the kept lists have each
  call directly followed by its result or not answered at all, that a call may be open
  only at the end of the list of a turn waiting for its tool, that the stash and the
  event log can be recovered, and that every checkpoint cuts the history behind a
  message that is no call (`Pairs`).  `FinishedStays` (`FinishedStored`) and
  `MessageStays` (`MessageKept`) need that what is owed to a turn is stored, loaded,
  before the checkpoints of later turns, and in the list that a turn at work would
  save; what is stored may lag behind only while `stale` (`Kept`).  `TakenUpOnce`
  (`TakenOnce`) needs that a message of the user is in one queue, or accepted as
  steering and then in the queue of the session or in the lists of turns that splice
  (`Waiting`, `Queued`, `Distinct`, `Pending`); that what a turn has yet to splice is
  not in its messages already, even when another turn has emptied the queue meanwhile
  (`Apart`); and that without overlap what is spliced is not waiting for another turn
  to splice it (`Singly`).  Where a property excludes a mishap by `Orderly`, its
  invariant excludes the same one and no other.
- `TaskSchedulerProofs`: all safety invariants.  `TypeOK`, `BlockedHasReason`
  and `CancelHolds` are inductive with the types.  `DependenciesFirst`
  (`RunsAfterDeps`) needs that completed rows and executions that ended well are in
  `succeeded`; `SlotsSuffice` (`SlotsCoverRuns`) that executions and slots belong to
  each other, and that the set of tasks is finite; `RetriesExact`
  (`EscalatedAfterRetries`) keeps the books: a task was started once more than it was
  retried while it executes, and as often otherwise.
- `KernelPoolProofs`: `NoKernelLost` (`KernelAccounted`) and `NamespaceUnique`
  (`OneNamespace`) from one invariant: at most one start is under way and its
  process belongs to it (`StartInv`), an entry is a started kernel in the slot of its
  session (`SlotInv`), a dead entry's process is gone or on its way to be killed and
  the slot a start aims at holds nothing else (`DeadInv`).  `CapKept` (`CapHolds`) adds
  that while a start is awaited the other entries stay below the cap;
  `ThreadsAccounted` (`StrayThreadHasCause`) that a thread's call is awaiting it or over.
- `CronJobsProofs`: `EditsKept` (`EditsStand`) needs that a dead process holds
  nothing, that the empty record is the only one not listed, and that a job asked to
  be kept is not a one-shot, whose end would disable it; `OnceKept` (`OnceRunsOnce`)
  is inductive with the first two, `FileKept` (`FileFollows`) with the types.
- `GuardedEditsProofs`: `ApprovalsKept` (`ApprovalsCover`): only an answer by the
  user makes a request approved, so the approvals of a call grow by one where
  `granted` does, shrink by one where `ran` grows, and otherwise only shrink; the
  cardinalities need that requests are finite.  `CopiesLast` (`CopyUntilBack`): each
  way an undo can go, wherever it fails or dies, puts the file back before it unlinks
  the copy, and the copy of a row that is not past its window is unlinked by nothing
  else.  `CapsKept` (`CapsHold`): a
  set in which no element has `n` newer ones has at most `n` elements, since all but
  the oldest of them are newer than the oldest.  `TypeCorrect` (`TypeOK`) needs that
  there is a next place in the order of answers, because no answer has a place above
  the number of requests settled so far (`Placed`); and that the files after an undo
  are files, for which the recursive function over the rows is shown to exist.
  `RewindsRestore` (`RewindRestores`): undoing a set of rows leaves in a file what the
  oldest of them that writes it puts back (`UndoneAt`), so all that has to be kept
  (`WaysLead`) is, for each checkpoint and each file whose way back is whole, that the
  oldest active row since that can be undone holds what the file was then, and that the
  file still is that if there is no such row.

How induction over data is done: the library's induction theorems take an operator, so
the two modules that need induction over lists or rows derive it anew for sets
(`Least`, `Induction`) from the well-foundedness of the naturals, with the set of
numbers for which a statement holds in the place of the operator.  That a fold or a
recursive function exists is then proved like any other statement
(`FlattenExists`, `StepsExist`).

Only model-checked is what is out of the prover's reach, liveness and ENABLED:
`ChunkSettles` and `PublishEnds`, `StoppedEnds`, `ReadySettles`, `CallEnds`, `DueGetsRun`.
No module has a RECURSIVE operator.

## 6. What the models leave out

Besides the abstractions named above: asynchronous bus handlers that await in
tasks of their own; the FTS index and migrations; discard and resend frames;
parallel tool calls; context compression; a second submission of a task id; a
second store error while the first is being handled; the scheduler loop dying of
a store error; the cap of 50 checkpoints per session; the undo of directories, which
the tools do not record; what guards find risky (a constant of the model) and calls
they deny; the second execution that `retry_aware` would be capable of (section 2); the
schedule of a job (when it becomes due next); the output of kernels.

Also left out, with nothing resting on them: the `/undo` command (`pop_last_turn`,
`agent_loop.py:810`), a cut of the history by one exchange that a rewind covers in
kind; the early returns of the instant mode (`_run_instant_single_shot`,
`agent_loop.py:1621`, 4488) and of the swarm mode (4412), which answer without the hop
loop; single entries of `jobs.json` that cannot be read and are skipped
(`core/scheduler/cron.py:209-216`), where the model has a file that can be read or
not; the limits of a rebuild from the event log (120 messages of at most 5000 events),
which also leaves steering aside.

Steering that is accepted after the last splicing of a turn and then
dropped, and rows left running by a restart, are in the models but contradict no
statement of the code, so they are hazards without a property.

### Not modelled

The skill registry with its evolution controller and watcher, the sleep worker, the
plan store, the worker swarm and the channel dispatcher have state machines that can
be modelled in the same way; they come after the parts above, in the order of section
3.  Not worth a model: model providers (external: modelled by what a call can do),
the memory service (vector search and a model's judgement), agents and their manager
(lookup), backup (sequential archiving), event queries, proactive suggestions, the web
client, the command line and the tools that only wrap other programs (browser,
desktop).  They make up most of the repository's lines and keep little state whose
order matters.
