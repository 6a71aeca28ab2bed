# A TLA+ verification of NanoCrab's core

NanoCrab connects chat groups (WhatsApp, Telegram, Slack, a dashboard, ...) to
AI agents. One Node process, the *host* (`src/src/`), stores the messages of all
channels, starts one container per group for an agent
(`src/container/agent-runner/`), feeds it messages through files, reads its
replies from its standard output and sends them back. It also runs scheduled
tasks, keeps approvals, and steers coding jobs.

The host has one thread, but it is full of concurrency: every `await` lets other
callbacks in, timers fire late, containers are separate processes that see only
files, and all of it may be restarted at any time. This project models that
part: which run starts when, what happens to a message or to a due task, what
a coding job is allowed to do and what its record says of it, how a reply gets
out, and what is left of all that after failures and restarts.

Line numbers below refer to files under `src/`.

## 1. Inventory

### Components on the path of a message or a task

| component | state | operations | talks to |
|---|---|---|---|
| Group queue, `src/group-queue.ts` | per group: active, idleWaiting, task flag and id, pending flag and tasks, registered process, retryCount; `activeCount`, `waitingGroups`, `shuttingDown`; armed retry timers | enqueueMessageCheck, enqueueTask, registerProcess, notifyIdle, sendMessage, closeStdin, closeActiveContainers, shutdown, the runs and drains | called by loop, scheduler, callbacks and dashboard; calls processGroupMessages and task closures; writes `ipc/<folder>/input` |
| Container runner, `src/container-runner.ts` | per run: process, parse buffer, `outputChain`, hard timer, `timedOut`, `hadStreamingOutput` | spawn, output parsing, timeout, close handler | queue (`onProcess`), output callbacks of loop and scheduler |
| Agent runner, `container/agent-runner/src/index.ts` | phase, message stream, files in its input directory | boot, poll, turn, exit | host, through files and standard output only |
| Message loop, `src/index.ts` | `lastTimestamp`, `lastAgentTimestamp` (both saved), registered groups | poll, pipe, enqueue, processGroupMessages, command, recovery | database, queue, runner, channels, control plane |
| Task scheduler, `src/task-scheduler.ts` | rows of `scheduled_tasks`; the copy of a row in each queued closure | poll, runTask, skip, computeNextRun, deliver | database, queue, runner |
| Database, `src/db.ts` | SQLite tables | synchronous queries | everything |
| IPC watcher, `src/ipc.ts` | files of each group's outgoing directories | messages, task commands, group commands | channels, database, queue |
| Coding jobs, `src/coding-jobs.ts` | the jobs file: status, transition history, attempts, active attempt, PR; the calls in flight with the copies they hold | start, run, cancel, retry, approve, deny, fallback, publish, CI refresh, revert, close PR | approvals, runners, git, GitHub |
| Coding runners, `src/coding-runners/` | the registry's leases and escalation timers; detached processes | register, terminate, escalate, compare-and-delete; host git; Devin and Cursor agents | coding jobs, operating system |
| Approvals, `src/approvals.ts` | requests with status and target, in a file | create, find pending, review | coding jobs, dashboard |
| WhatsApp channel, `src/channels/whatsapp.ts` | `connected`, `sock`, `outgoingQueue`, `flushing`, reconnect timers | connect, disconnect, sendMessage, flush, connection events | socket library, host, IPC watcher, dashboard |
| Dashboard, `src/admin/` (the routes that act on tasks, approvals and channels) | none of its own for tasks and queue | task edits, run-now, close | database, queue |

### Other components

Control plane (`control-plane/`): pipelines, decisions, dispatch, sync with
GitHub. Provider routing, agent profiles, briefings, webhook delivery, memory,
skills, connectors, credential proxy, egress, mounts, backup, diagnostics and
set-up: mostly decisions over a configuration, or plain input and output.
PROJECT.json lists each of them with the reason why it is or is not modelled.

### What is hard

- *Interleaving.* The loop, runs, output callbacks, timers, the scheduler's poll
  and dashboard calls interleave at every `await`; the agent acts in between.
- *Stale state.* A task runs from the row as the poll read it. A run that failed
  leaves output callbacks behind that act on its group's next run. The loop
  falls back to messages polled earlier.
- *Cursors.* Two timestamps stand for everything handled so far. They advance
  before the work is done, are rolled back when it fails, and are compared with
  timestamps that need not differ.
- *Whole-file writes.* A coding job is read, awaited on and written back whole; a
  call that answers late undoes what was stored meanwhile.
- *Processes.* A coding job's git and agent processes are detached, outlive the
  call that started them, and are stopped by signals that take time.
- *Connections.* A socket closes under a send; nobody knows whether a rejected
  send got through; every connection that opens flushes one shared queue.
- *Promise chains.* One rejected callback silences all later ones.
- *Crashes.* The cursors, task rows, jobs, approvals and message files survive a
  restart, and so do detached processes; the queues, timers, chains, leases and
  the record of executed commands do not.
- *Limits.* Slots, retries, messages per prompt, active runs per task.

### What makes it correct

- Queue: slots counted exactly; one run per group; a free slot goes to a waiter;
  no accepted work without something that will run it; a task at most once;
  first come first served; nothing starts after shutdown.
- Runs: the queue knows of every container, and no more of them live than the
  limit allows; a pending task gets an idle agent's
  place; an ended agent's run ends.
- Messages: every prompt is answered, on its way, or given up at a known step;
  something is scheduled for what is pending; no second reply without a reason.
- Tasks: one agent per occurrence; the stored counter of active runs is right;
  a due task is not forgotten; a paused task does not start.
- Coding jobs: no job past the gate and no push without approval; the record
  tells what goes on; who was overtaken changes nothing; every process can be
  cancelled; a job at work settles; a cancelled job stays cancelled.
- Outgoing messages: none vanishes, none overtakes, none is sent twice by the
  channel's doing; a connection is neither forgotten nor doubled.

PROJECT.json's hazard list gives each of these its line in the code, and names
the properties that watch it.

## 2. Modules

| module | models | state and actions |
|---|---|---|
| `GroupQueue` | `group-queue.ts`, every method that changes state | `groups` is the class's map (process, container name and folder are one flag, `registered`: they are set and cleared together). One action per synchronous call. A run is two actions: its start (in `Release`, `DrainWaiting`, the enqueue methods) and its `finally` block (`FinishMessages`, `FinishTask`), which hands the slot on in the same step, as the code does. |
| `GroupAgents` | `GroupQueue` + `container-runner.ts` + agent runner | EXTENDS `GroupQueue` and restricts its callers: a container is spawned once per run, `notifyIdle` comes from output callbacks, a run ends when its process has, the agent reads its files in the order its code does. |
| `MessageDelivery` | `index.ts` (loop, runs, recovery), the queries of `db.ts`, output chain and agent, for one chat | the two cursors, the loop's iteration, one run, one agent, inbox, chain, late replies; the queue is reduced to "a requested check runs when the group has no run". |
| `TaskScheduler` | `task-scheduler.ts`, task routes of the dashboard, task commands of `ipc.ts` | one row, the queued copy, one run; the queue is reduced to `TaskOnce`. |
| `SlotPool` | what `group-queue.ts` promises of its slots | abstract: free slots, holders, a line; take, get in line, hand over, give back, close. `GroupQueue` implements it (`PoolImplemented`, mapping in `GroupQueue`). |
| `MessageChecks` | what `group-queue.ts` promises of message checks | abstract: per group, whether a check is asked for or goes on, failures in a row, retries that wait. `GroupQueue` implements it (`ChecksImplemented`), and the queue's part of `MessageDelivery` keeps to it (`ChecksFollowed`). |
| `CodingJobs` | `coding-jobs.ts`, the process registry, host git, the ends of Devin and Cursor agents, the approvals of a job | one job. Each asynchronous function is a call in `calls` that remembers at which await it is and which copy of the job it holds; code between two awaits is one action. `leases`, `terminating` and `alive` are the registry, its timers and the processes. |
| `OutgoingMessages` | outgoing side of `channels/whatsapp.ts`, message files of `ipc.ts`, the channel restart of the dashboard | sockets, connection attempts and timers; queue, flush and sends in flight; files and watcher. |
| `MC*` | instances for TLC | symmetry, view, request and constraint definitions |
| `GroupQueueProofs`, `GroupQueueWorkProofs` | | the queue's invariant and its properties, section 5; it implements `SlotPool` and `MessageChecks` |
| `GroupAgentsProofs` | | what the queue knows of the containers, their limit, and the queue's promises carried over |
| `TaskSchedulerProofs` | | the counter and the occurrences of a task |
| `MessageDeliveryProofs` | | types; no message is forgotten, left without an occasion, or answered twice; the rules of `MessageChecks` |
| `CodingJobsProofs`, `CodingRecordProofs` | | types, leases, approvals, overtaken calls; and what the job's record tells |
| `OutgoingMessagesProofs` | | the five safety properties of the channel |

A step of `GroupAgents` is by definition one of `GroupQueue`'s, which allows
every caller at any time, or leaves the queue's variables alone; so what holds
of the queue holds with any agents, and that needs no check. What is checked is
what the definitions do not give: a registered process is the live one of its
group (`RegisteredIsAlive`), although its end reaches the queue through
callbacks of three kinds, and no more agents live than
`MAX_CONCURRENT_CONTAINERS` (`ContainersBounded`). The queue counts runs and
never sees a process, so the limit on processes is right only because no run
ends before its process has. `GroupQueue` in turn implements `SlotPool`, which
fits on one page and is what a reader should expect of the slots: whoever finds
none free gets in line, and a slot given back goes to the head of the line in
the same step. Message checks are where the queue and `MessageDelivery` meet,
and `MessageChecks` is the page both agree on. The queue implements it for each
of its groups. `MessageDelivery`, whose queue is the four variables `due`,
`timers`, `retries` and `run.pc`, keeps to it, with two additions that only a
model of a whole host has: a restart, and a check that finds nothing and is over
in the step that begins it. Conversely, each step of `ChecksNext` for a group is
one or two steps of `MessageDelivery` in a row (ending or asking, and
beginning), where asking is what the loop does with what it polled, and a closed
queue is a stretch before a restart in which nothing begins; that direction is a
reading of the two definitions, not a theorem. `NoStrandedWork` and `WaitersRun`
add that a check that waits is started in the end. The reduction in
`TaskScheduler` is what `TaskOnce` and `WaitersRun` establish.

Definitions marked *Faulty variant* are not part of any specification. Each is a
plausible mistake in the operator that follows it (a dropped guard, a missing
reset), kept to show that a property notices it: substituting the variant makes
the run named in PROJECT.json's `mutants` fail.

### Choices of the models

- *Atomicity.* Between two `await`s that wait for input or output nothing else
  runs, so that stretch is one action. The loop's read of the pending messages
  and its dispatch are one action: the two `await`s in between return at once
  when the message is no command.
- *Files.* The sentinel is a Boolean, the inbox a set. An agent's poll takes the
  sentinel alone or all messages. Each group has its own folder
  (`folder TEXT NOT NULL UNIQUE`, `src/db.ts:119`).
- *Output.* `outputChain` is a queue of outputs. A clean exit waits for it; a
  failure does not, and its callbacks stay behind as `lateOutputs` and `late`. A
  late reply whose send is rejected takes the rest of its chain with it
  (`SendLateReply`).
- *Failing steps.* With `StepsMayFail`, `setTyping` may reject after the cursor
  was saved and outside the `try` (`src/index.ts:782`), so that the retry finds
  nothing (`StartFails`); and the write of a follow-up's file may fail.
  `StartFails` also stands for a clarification of the workspace whose reply
  cannot be sent (712-725); clarifications that succeed are left out.
- *Time.* Timers fire at any time after they are armed; a due time is "past" or
  "future". Message timestamps are numbers that may repeat, as Telegram's do.
- *Chat.* `MessageDelivery` has a chat that is not the main one and needs no
  trigger. The main chat's five-second restart timers only add checks. A message
  is a prompt or a control-plane command, with unique identifiers.
- *Commands.* The reply to a command and the record of its identifier are one
  step (`LoopCommandDone`, `RunCommandDone`).
- *Coding jobs.* Text, prompts, repositories and providers are left out; git,
  GitHub, readiness probes and agents answer with any outcome. The five
  statuses of a run's synchronous start are passed in one action (`Planned`),
  their number kept because publications compare history lengths. The runner is
  part of the job and of each call: the first run has the one that was asked
  for, an approved fallback changes it for later runs (`Fallbacks`), and only the
  readiness of Devin is probed before that.
  Approvals of a coding job have no deadline. Attempt identifiers are never used
  twice, as UUIDs are not.
- *Outgoing messages.* The texts are distinct. A reply of the host and a message
  file of an agent differ in what survives a restart. A socket opens or closes
  at any time; a close carries the reason "logged out" or another. A rejected
  send may have been delivered; a send on a socket that is still connecting is
  awaited. The watcher deletes a message its group may not send
  (`src/ipc.ts:276-283`), and moves it to `errors/` when the send throws because
  the group is disabled or has no channel (284-295): `WatcherDrops`, which loses
  it either way. A first connection that fails at start-up ends the host, which
  is a restart.
- *History variables.* `unserved`, `answered`, `executed`, `abandoned`,
  `unnoticed`, `repeated`, `owed`, `leaked`, `upsets`, `received`, `lost`,
  `uncertain` and `ended` are never read by an action's guard (`upsets` by the
  constraint of two configurations). `abandoned`, `unnoticed` and `repeated`
  record, at the step where the code does it, that a prompt is given up, left
  with nothing scheduled, or exposed to a second hand-over; the properties say
  that these steps are the only ones. `upsets` names what left a coding job's
  record astray: a stale copy written back, a second run, a run that parked in
  `implement`, a restart; and "unchecked" a run that began on a job that had
  failed meanwhile: `runCodingJob` tests the approvals in `await_approval` only
  (`src/coding-jobs.ts:2037`), and `authorizeCodingImplementation` (1549) looks
  at none.

## 3. Runs

Bounds are constants of each `.cfg`; what the code does not bound is called
*bound of the model* where it is declared.

| run | instance | shows |
|---|---|---|
| `slots` | 3 groups, 2 slots, 1 task, 1 retry, 1 timer per group | `TypeOK`, `SlotsExact`, `WaitingSound`, `WorkConserving`, `NoStrandedWork`, `NoLostMessages`, `TaskOnce`, `NoOvertaking`, `ShutdownStartsNothing`, and `PoolImplemented` and `ChecksImplemented`: the queue implements `SlotPool` and `MessageChecks` |
| `runs` | 2 groups, 1 slot, 1 task, failing callbacks and writes | `AgentsTypeOK`, `RegisteredIsAlive`, `ContainersBounded` |
| `progress` | 2 groups, 1 slot, 1 task; follow-ups for one group only (`Quiet`), under `PromptSpec` | `TaskPreempts`, `WaitersRun` |
| `exit` | 1 group, failing callbacks | `ExitCompletesRun` is violated (finding 1) |
| `chat` | 3 messages, 2 per prompt, 1 retry, failing sends, set-ups and writes | `TypeOK`, `Accounted`, `Scheduled`, `RepliedTwice` |
| `restart` | 2 messages, 1 restart, failing set-ups and writes, under `FairSpec` | `Accounted`, `Handled` |
| `command` | 2 messages | `CommandOnce` is violated (finding 2) |
| `task` | limits 0 to 2, 2 restarts, failing set-ups, counts up to 3 (`MaxCount`), under `FairSpec` | `TypeOK`, `CountExact`, `LimitMeansLeak`, `OncePerOccurrence`, `DueHandled` |
| `paused` | no failures | `PausedStaysPaused` is violated (finding 3) |
| `coding` | 1 job, 2 calls in flight, 2 attempts, history up to 6 (`MaxHistory`) before a retry; a Cursor job with a PR and a dry run in a container; fallbacks to Cursor and Devin; a revert asked for once there is an attempt (`RevertsLater`); under `FairSpec` | `TypeOK`, `NothingUnapproved`, `RecordAttended`, `ProcessesLeased`, `OutdatedLeavesNoTrace`, `JobsSettle` |
| `revived` | 1 job, 2 calls, 1 attempt | `CancelledStays` is violated (finding 4) |
| `outgoing` | 2 messages, 2 live sockets, 1 channel restart, 1 restart of the host, under `FairSpec` | `TypeOK`, `ConnectionsExact`, `ConnectedIsOpen`, `Accounted`, `ReceivedOnce`, `InOrder`, `QueueEmpties` |

*Why the bounds are enough.* `slots`: three groups on two slots give a running
group, a waiting one and one that arrives; a wait list of length two needs the
third, so order on the list is tested; one task meets itself (duplicates) and
messages of its group; a retry can succeed, fail once more and be dropped.
`runs` and `progress`: two groups on one slot are the smallest instance with a
hand-over in both directions; in `progress` one group is kept busy by
follow-ups, the other, and the task, must get past it. `chat`: three messages
with two per prompt make the query leave one out; equal timestamps meet every
cursor position. `restart`: a restart hits every state of two messages. `task`:
a limit of two tells a leaked count from a run, and counts beyond the largest
limit all make the code do the same. `coding`: two calls are what an
interleaving needs, two attempts let a cancelled run meet the retry that
replaced it; a history of six leaves room for one retry of a run that got to its
agent, and for more of a job cancelled earlier; a revert of a job that never had
an attempt is not explored (`RevertsLater`). After an upset the record may be
anything, so the run does not go on past one (`MaxUpsets = 0` explores the
upsetting step itself and stops there): it shows that these steps are the only
way for the record to go astray. What holds beyond them (`TypeOK`,
`NothingUnapproved`, `ProcessesLeased`, `OutdatedLeavesNoTrace`) is proved for
all behaviours. `revived` goes one upset further to show one. `outgoing`: two
messages can be in queue and flush, in file and send, or both in the queue,
where order matters; two sockets are what a channel restart leaves.

*Symmetry and view.* Groups are interchangeable: no group is named in a
definition or a property. `slots` uses symmetry with action properties over all
groups, which no permutation changes, and no liveness; the liveness runs use
none. Its view omits `closeFile` and `inbox`: no guard and no property of that
run reads either, so states that differ only there have the same behaviours.

*Deadlock* is not checked: a system with no messages, a chat that has used up its
bound, or a shut-down host may stop.

## 4. Fairness

- `PromptSpec`: a started run spawns its container or returns; a booted agent
  polls (`IPC_POLL_MS`), ends its turn and exits; ready callbacks run. A turn
  that never ends is a property of the model provider, not of this code.
  Nothing is assumed of users, schedules, the dashboard or timers, which is what
  makes `TaskPreempts` say something: neither idle nor hard timeout is needed.
- `WaitersRun` adds `TimersFire`: retry timers fire, and an agent left between
  turns is stopped by the hard timeout. It also assumes that new work pauses.
  Without that a group with a constant supply keeps its slot from run to run
  (`drainGroup` looks at its own group first): a real limitation of the
  scheduler.
- `FairSpec` of `MessageDelivery`: the loop polls every `POLL_INTERVAL`, timers
  fire, due runs start, the idle timer closes a waiting agent. None for arrivals,
  failures, restarts. Retries are bounded by the code, and `Handled` exempts what
  the code gives up.
- `FairSpec` of `TaskScheduler`: the poll, a queued task's turn (`WaitersRun`)
  and the end of a run that does not hang. `SkipHeartbeat` has none: it depends
  on the time of day. A set-up that throws is outside the `try`
  (`src/task-scheduler.ts:711-745`): the task stays due and is retried at every
  poll. With a limit the counts it leaves behind end that; without one it goes on
  for ever, and nothing is promised of such a task. `DueHandled` names this as its
  premise; no bound of the model ends the retries.
- `FairSpec` of `CodingJobs`: the event loop goes on with what is ready; probes,
  git and GitHub answer or fail (git has a timer, the others error out); the
  runners' timeouts and the registry's escalation timer fire. That is one weak
  fairness condition per call, on whatever moves it on from where it waits
  (`Proceeds`), and one per timer. Nothing is
  assumed of the owner or of an agent, so `JobsSettle` rests on the timeouts,
  and exempts containers, which have none.
- `FairSpec` of `OutgoingMessages`: the library settles each send, the watcher
  polls its directory, timers fire. Nothing is assumed of the network:
  `QueueEmpties` supposes that connections keep opening and that sends are no
  longer rejected.

## 5. Proofs

Each theorem holds for every value of the constants. PROJECT.json lists them
under "theorems" with the property each one states.

*The queue* (`GroupQueueProofs`). `Spec` implies `[]SlotsExact`,
`[]WaitingSound`, `[]WorkConserving`, `[]NoStrandedWork` and `[]TypeOK` for any
sets of groups, tasks and texts and any limits. The assumptions are
`QueueAssumption`: finitely many groups, at least one slot, and a value `NoTask`
that is no task.

None of the four facts is inductive alone, and together they are. When a run
ends and its group has no more work, `drainWaiting` looks at the list. That it
starts exactly one group (lemma `DrainStartsOne`) needs all of them:
the first group on the list has work and no run (`WaitingSound`), so it is
started; and since a group was waiting, all slots were taken (`WorkConserving`)
and counted right (`SlotsExact`), so the one just freed is the only one, and the
loop stops. In turn the list stays right because a group with queued work and no
run is on it (`NoStrandedWork`), and an enqueue finds a slot only when nobody
waits. `QueueInv` is their conjunction with the types of the four variables that
decisions read. The proof has one step per action; `Release`, shared by
both ends of a run, is a lemma, and so are an enqueue and a run that takes a free
slot.

*The work* (`GroupQueueWorkProofs`). `TaskOnce`, `NoLostMessages`,
`NoOvertaking` and `ShutdownStartsNothing` follow from `QueueInv` and what
`Release` does to each group (lemma `ReleaseEffect`): the group of the run is
idle or starts its own next work, at most one other group starts, and that
one waited at the head of the list. `TaskOnce` and `NoLostMessages` are then
inductive; the two action properties need no further invariant.

*The agents* (`GroupAgentsProofs`, with `AgentsAssumption`). That `AgentsSpec`
implies `Spec` is a lemma by definition (`AgentsImplementQueue`), there to make
the queue's theorems available. `RegisteredIsAlive` is not inductive: a
spawn needs to know that a run registers its process only while it is active.
`RunsInv` says so for every group and adds that the flag follows the process,
and the only queue steps that disturb it are `RegisterProcess` and the end of a
run, which forgets the process of its own group and of no other
(`FinishForgetsProcess`). With it each live agent belongs to a group with a
run, and with the queue's `SlotsExact` those are no more than the slots:
`AgentsWithinLimit` (`ContainersBounded`).

*The scheduler* (`TaskSchedulerProofs`, with `SchedulerAssumption`).
`runTask` writes `active_run_count` as its copy's count plus one or minus one,
and the copy may be old. `CountExact` holds because of `CopyInv`: while a copy
waits there is no run, so the leaked runs are all that the copy counts, and
while a run lasts no copy waits. `LimitMeansLeak` follows at once, and
`OncePerOccurrence` from `OwedInv`, which says that a task found due, and a
copy taken of it, is owed a run.

*The pool* (`GroupQueueProofs`). Under the mapping (free slots are
`MaxConcurrent - activeCount`, holders the groups with a run, the line
`waitingGroups`) each action of the queue is one of the pool's or a stutter.
`QueueInv` is needed throughout: the counter the code tests is the number of
holders (`SlotsExact`), who is popped takes the slot (`WaitingSound`), and a
slot is free only when nobody waits (`WorkConserving`), so a retry timer or a
new request that finds one overtakes nobody.

*The checks* (`GroupQueueWorkProofs`). `ChecksImplemented` maps a check that is
asked for to `pendingMessages`, and one that goes on to a run that is not a
task's. The end of any run may begin the check of its own group or of the first
waiting one, but of a group that has asked for it (`ReleaseEffect`), and
beginning it takes the request away in the same step, so that a request made
during a run makes a further run and none makes two. `AgentsKeepPromises`
carries both refinements, and the properties above, over to `AgentsSpec`.

*The messages* (`MessageDeliveryProofs`, with `DeliveryAssumption`). Everything
rests on `BaseInv`: the types, the log in the order of its timestamps, all that
is under way stored before, and the shape of a run (only a run for a prompt has
an agent and replies, and the cursor it may go back to lies before the newest
message). From it the operators get their meaning: `Pending` is what is both
after the cursor and among the newest `MaxPerPrompt` of the log
(`PendingIsNewest`); it reaches up to the newest message of all (`PendingTime`);
and no message of a batch has a later time than the batch's newest
(`BatchTime`).

- `Accounted` states it of the messages behind the cursor by way of sets;
  `AccountInv` is the same message by message (`Safe`), and inductive over
  `BaseInv`. Each step that takes a message out of one of its places must
  show it in another, or in `abandoned`; moving the cursor on must show all it
  passes under way, and moving it back only gives.
- `Scheduled` is split, because its two halves lose their occasions at different
  steps: what is pending is watched by the poll, the loop's batch, a command, a
  requested check or a timer (`PendingWatched`); what lies in the inbox by a
  check, a timer or the run (`InboxWatched`). The cursor moving up uncovers
  nothing, the cursor moving back uncovers exactly what the step records.
- `RepliedTwice` needs to know that a message that was handed on once is in one
  place (`HeldOnce`: turn, backlog, chain, late replies, inbox, except that a
  message recovered into a prompt may also lie in the inbox until the boot joins
  the two), that what is under way lies behind the cursor, and that what a
  rollback would expose is unanswered (`RunHandsOnce`). `RepliedInv` states this
  of every message not in `repeated`.

All hold for any number of messages, prompt size, retries, timers and restarts,
failing sends or not; TLC checked the invariants on the instances of `chat` and
`restart` before.

*A coding job* (`CodingJobsProofs`, with `CodingAssumption`). `TypeInv` is
`TypeOK` and the fact that a call at work has an attempt. `ProcessesLeased`
needs in addition that calls at work have attempts of their own (`AttemptsOwn`):
a process is registered in the step that spawns it, its lease goes with it,
and SIGKILL comes before the lease is given up. It exempts what a restart left
behind and a Cursor agent whose run gave it up at its timeout
(`CursorAwaits`); while its run still awaits it, a Cursor agent is leased as well.

`NothingUnapproved` says of the job itself that without an approval it is never
past the gate, and of publications that without theirs nothing is pushed, after
whatever retry, second run or late answer. An agent may be at work unapproved in
one case only, which the code allows and `upsets` records as "unchecked".
`ApprovalInv` also covers what could lead there later: every copy of the job that
a call holds, since it may be written back and run again, and what each call
will do with it (`Sound`); and that a job that was started never looks
untouched again. A step by which the job gets no further (`NoFurther`) disturbs
none of it, so only the few that do need work of their own (`StepApproved`).
`OutdatedLeavesNoTrace` has one step per way for a call to end.

*The record* (`CodingRecordProofs`). `RecordAttended` is far from inductive.
`RecordInv` adds `AttemptsOwn`, that the timer of an ended lease is disarmed,
and `Calm`, which holds until the first upset: one call at most probes and then
the job has no attempt; the active attempt is open and still "preparing" while
git prepares it; and a git process of the active attempt is killed by its own
timeout only, because a cancellation ends the attempt before it signals.

*The channel* (`OutgoingMessagesProofs`, with `OutgoingAssumption`). `TypeInv`
includes `FlushInv`: `flushing` is true exactly while one flush awaits one send.
`InOrder` follows from it. `ConnectionsExact` is inductive by counting (a lemma
per change of the set of live sockets). `FlagInv` adds that until a channel
restart the only live socket is `sock`, which needs `ConnectionsExact`.
`MessageInv` says where a message can be at once (`OnePlace`), that what still
waits was not received unless a send was uncertain (`Settled`), and that the
queue holds nothing twice; `Accounted` and `ReceivedOnce` follow.

Only model-checked: all liveness (`TaskPreempts`, `WaitersRun`, `Handled`,
`DueHandled`, `JobsSettle`, `QueueEmpties`), which is out of the prover's reach.
Every safety property of a passing run is a theorem.

What the properties exempt, beyond the assumptions above. `Scheduled` counts a
run whose chain broke as a step ahead of its prompts, which it never takes:
`ExitCompletesRun` is the property about that (finding 1). `RecordAttended` and
`JobsSettle` speak of a job up to the first upset of its record; what a stale
copy, a second or a parked run, or a restart does to the record after that, no
property restrains, because the code does not.

## 6. Findings

1. **A rejected output callback leaves a run unfinished** (`exit`). The clean-exit
   path waits with `outputChain.then(...)` (`src/container-runner.ts:1352`, and
   1210 after a timeout). A send that throws rejects the chain, `resolve` is never
   called, and the group and its slot stay taken until a restart.
2. **A control-plane command can be executed twice** (`command`). The record of
   its message id is looked up before and written after the awaited mutation
   (`src/control-plane/commands.ts:304`, `709`), while the loop and a queued run
   can both hold the same command. The plan of the control plane asks for the
   record before the mutation.
3. **A task paused or cancelled while it waits still starts** (`paused`). The
   poll's re-check (`src/task-scheduler.ts:936`) happens in the same synchronous
   pass as its query, and the queued closure keeps the row it read.
4. **A cancelled coding job is revived** (`revived`). The approval of a fallback
   runtime (`src/coding-jobs.ts:2858`, `2898`, `2915`) and the start of a run
   (2071, 2084) store the copy of the job they read before a readiness probe. A
   job cancelled or denied during the probe is back in `await_approval` or
   `implement` afterwards, past the transition table (944).

Met on the way, and recorded as hazards: `docs/DEBUG_CHECKLIST.md:12` describes
the cursor as it was before the rollback existed; `notifyIdle` marks an agent
idle although a piped follow-up is already its next turn; a reply can be given
twice when a run fails with replies in its chain (`RepliedTwice` names when).

## 7. Not modelled, and the plan

- *Control plane.* Only the record of executed commands (in `MessageDelivery`). At
  this commit nothing but tests creates decisions: `proposeStageTransition` has no
  caller in production code, so there is no schedule of calls to be faithful to.
- *Approvals* of other targets, their expiry and revert: independent records
  with single-step operations; those of coding jobs are part of `CodingJobs`.
- *Command broker* of the coding runners: one request, one answer, on a socket of
  its own per attempt.
- *Other channels* send without a queue; a failed send is an outcome in
  `MessageDelivery` and `TaskScheduler`.
- *IPC watcher*: media messages and group commands repeat the order
  of the text messages. The move to `errors/` is modelled for sends that throw
  (`WatcherDrops`); that a file can neither be deleted nor moved, and is then sent
  again at the next poll, is left out.
- *Two coding jobs.* Jobs share the jobs file, which each synchronous stretch
  reads and writes whole, and an attempt belongs to one job; a second job adds
  no interaction beyond that.

Next would be two groups' loops in one model, whose only common state is the
queue and `seen`; and the same contract as `MessageChecks` for the
tasks of `TaskScheduler`.

Left out for good: formatting, prompts, mounts, environment, provider SDKs,
channel clients, SQLite itself, and the HTTP and browser parts of the dashboard.
They are input and output, or pure functions with unit tests.
