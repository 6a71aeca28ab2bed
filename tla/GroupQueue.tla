----------------------------- MODULE GroupQueue -----------------------------
(***************************************************************************)
(* The container scheduler of src/src/group-queue.ts: at most one agent    *)
(* container per chat group, at most MaxConcurrent in the process, queued  *)
(* scheduled tasks before queued messages, retries with backoff, and the   *)
(* `_close' sentinel file that asks an idle agent to leave.                *)
(*                                                                         *)
(* Every method of the class runs to completion on Node's event loop, so a *)
(* synchronous call is one action.  A run (runForGroup, runTask) is two:   *)
(* the part before `await' and the `finally' block after it.               *)
(*                                                                         *)
(* The queue and the agent process in a container share two kinds of files *)
(* in ipc/<folder>/input: the sentinel and the piped follow-up messages.   *)
(* Here the agent may read them, and report a finished turn, at any time;  *)
(* GroupAgents gives it its phases.                                        *)
(***************************************************************************)
EXTENDS Naturals, Sequences, FiniteSets

CONSTANTS
    Groups,         \* chat groups (JIDs); each owns one IPC folder
    Tasks,          \* identifiers of scheduled tasks
    Texts,          \* follow-up prompts piped to a running agent
    NoTask,         \* runningTaskId = null
    MaxConcurrent,  \* MAX_CONCURRENT_CONTAINERS
    MaxRetries,     \* MAX_RETRIES
    WritesMayFail,  \* whether writing a follow-up file can fail
    MaxTimers       \* bound of the model: retry timers pending per group

ASSUME QueueAssumption ==
    /\ IsFiniteSet(Groups)
    /\ NoTask \notin Tasks
    /\ MaxConcurrent \in Nat \ {0}
    /\ MaxRetries \in Nat
    /\ WritesMayFail \in BOOLEAN
    /\ MaxTimers \in Nat

VARIABLES
    groups,         \* [Groups -> GroupState], the class's map of group states
    activeCount,    \* runs in progress, as the class counts them
    waitingGroups,  \* groups waiting for a slot, oldest first
    shuttingDown,
    retryTimers,    \* [Groups -> Nat]: armed setTimeout calls of scheduleRetry
    closeFile,      \* [Groups -> BOOLEAN]: ipc/<folder>/input/_close exists
    inbox,          \* [Groups -> SUBSET Texts]: ipc/<folder>/input/*.json
    unserved        \* history: message work accepted, not yet done or dropped

queueVars  == <<groups, activeCount, waitingGroups>>
vars == <<groups, activeCount, waitingGroups, shuttingDown, retryTimers,
          closeFile, inbox, unserved>>

GroupState ==
    [active               : BOOLEAN,
     idleWaiting          : BOOLEAN,
     isTaskContainer      : BOOLEAN,
     runningTaskId        : Tasks \cup {NoTask},
     pendingMessages      : BOOLEAN,
     pendingTasks         : Seq(Tasks),
     registered           : BOOLEAN,    \* process, containerName, groupFolder
     acceptsFollowUpInput : BOOLEAN,
     retryCount           : Nat]

FreshGroup ==
    [active |-> FALSE, idleWaiting |-> FALSE, isTaskContainer |-> FALSE,
     runningTaskId |-> NoTask, pendingMessages |-> FALSE,
     pendingTasks |-> <<>>, registered |-> FALSE,
     acceptsFollowUpInput |-> FALSE, retryCount |-> 0]

Init ==
    /\ groups = [g \in Groups |-> FreshGroup]
    /\ activeCount = 0
    /\ waitingGroups = <<>>
    /\ shuttingDown = FALSE
    /\ retryTimers = [g \in Groups |-> 0]
    /\ closeFile = [g \in Groups |-> FALSE]
    /\ inbox = [g \in Groups |-> {}]
    /\ unserved = [g \in Groups |-> FALSE]

-----------------------------------------------------------------------------
(***************************************************************************)
(* Updates of one group's state.                                           *)
(***************************************************************************)

HasWork(s) == s.pendingTasks # <<>> \/ s.pendingMessages

Queued(s, t) == \E i \in DOMAIN s.pendingTasks : s.pendingTasks[i] = t

\* Faulty variant: the running task is not looked at.
KnownQueued(s, t) == Queued(s, t)

\* The two duplicate checks of enqueueTask.
Known(s, t) == s.runningTaskId = t \/ Queued(s, t)

\* Faulty variant: the message flag stays, and is served once more.
BeginMessagesKeepingFlag(s) ==
    [s EXCEPT !.active = TRUE, !.idleWaiting = FALSE,
              !.isTaskContainer = FALSE]

BeginMessages(s) ==
    [s EXCEPT !.active = TRUE, !.idleWaiting = FALSE,
              !.isTaskContainer = FALSE, !.pendingMessages = FALSE]

BeginTask(s, t) ==
    [s EXCEPT !.active = TRUE, !.idleWaiting = FALSE,
              !.isTaskContainer = TRUE, !.runningTaskId = t]

\* Faulty variant: starting a task also takes the message flag.
BeginNextClearingFlag(s) ==
    IF s.pendingTasks # <<>>
    THEN [BeginTask(s, Head(s.pendingTasks)) EXCEPT
              !.pendingTasks = Tail(s.pendingTasks), !.pendingMessages = FALSE]
    ELSE BeginMessages(s)

\* Tasks first: messages can be read from the database again.
BeginNext(s) ==
    IF s.pendingTasks # <<>>
    THEN [BeginTask(s, Head(s.pendingTasks)) EXCEPT
              !.pendingTasks = Tail(s.pendingTasks)]
    ELSE BeginMessages(s)

\* Faulty variant: the process is not forgotten.
EndRunKeepingProcess(s) ==
    [s EXCEPT !.active = FALSE, !.isTaskContainer = FALSE,
              !.runningTaskId = NoTask]

\* The `finally' blocks.  Only runTask has a task flag and identifier to
\* reset: in a message run they are FALSE and NoTask already.
EndRun(s) ==
    [s EXCEPT !.active = FALSE, !.isTaskContainer = FALSE,
              !.runningTaskId = NoTask, !.registered = FALSE,
              !.acceptsFollowUpInput = FALSE]

-----------------------------------------------------------------------------
(***************************************************************************)
(* Calls into the queue.  Each is the effect of one method on the          *)
(* variables the method can touch; the caller adds what it changes itself. *)
(***************************************************************************)

\* Faulty variants: the group is pushed again, or not at all.
EnlistAgain(g) == waitingGroups' = Append(waitingGroups, g)

EnlistNever(g) == waitingGroups' = SelectSeq(waitingGroups, LAMBDA h : h # g)

Enlist(g) ==
    waitingGroups' = IF \E i \in DOMAIN waitingGroups : waitingGroups[i] = g
                     THEN waitingGroups
                     ELSE Append(waitingGroups, g)

\* Faulty variant: the limit is not checked.
EnqueueMessageCheckAtOnce(g) ==
    \/ /\ groups[g].active
       /\ groups' = [groups EXCEPT ![g].pendingMessages = TRUE]
       /\ UNCHANGED <<activeCount, waitingGroups>>
    \/ /\ ~groups[g].active
       /\ groups' = [groups EXCEPT ![g] = BeginMessages(groups[g])]
       /\ activeCount' = activeCount + 1
       /\ UNCHANGED waitingGroups

EnqueueMessageCheck(g) ==
    \/ /\ groups[g].active
       /\ groups' = [groups EXCEPT ![g].pendingMessages = TRUE]
       /\ UNCHANGED <<activeCount, waitingGroups>>
    \/ /\ ~groups[g].active
       /\ activeCount >= MaxConcurrent
       /\ groups' = [groups EXCEPT ![g].pendingMessages = TRUE]
       /\ Enlist(g)
       /\ UNCHANGED activeCount
    \/ /\ ~groups[g].active
       /\ activeCount < MaxConcurrent
       /\ groups' = [groups EXCEPT ![g] = BeginMessages(groups[g])]
       /\ activeCount' = activeCount + 1
       /\ UNCHANGED waitingGroups

\* closeStdin: only a registered run has an input directory to write to.
CloseStdin(g) ==
    closeFile' = IF groups[g].active /\ groups[g].registered
                 THEN [closeFile EXCEPT ![g] = TRUE]
                 ELSE closeFile

\* Faulty variants of drainWaiting: nothing is started, or the slot is given
\* back a second time.
DrainNothing(gs, count) ==
    /\ groups' = gs
    /\ activeCount' = count
    /\ UNCHANGED waitingGroups

DrainTwice(gs, count) ==
    /\ groups' = gs
    /\ activeCount' = count - 1
    /\ UNCHANGED waitingGroups

(***************************************************************************)
(* drainWaiting: pop waiting groups while a slot is free, starting each    *)
(* one that has work.  n is the number of groups popped: the loop stops    *)
(* when the list is empty or the slots it had are taken.                   *)
(***************************************************************************)
DrainWaiting(gs, count) ==
    \E n \in 0 .. Len(waitingGroups) :
        LET Started(k) == {i \in 1 .. k : HasWork(gs[waitingGroups[i]])}
            started    == {waitingGroups[i] : i \in Started(n)}
        IN  /\ \A k \in 0 .. n - 1 :
                  count + Cardinality(Started(k)) < MaxConcurrent
            /\ \/ n = Len(waitingGroups)
               \/ count + Cardinality(Started(n)) >= MaxConcurrent
            /\ groups' = [h \in Groups |-> IF h \in started
                                           THEN BeginNext(gs[h]) ELSE gs[h]]
            /\ activeCount' = count + Cardinality(Started(n))
            /\ waitingGroups' =
                  SubSeq(waitingGroups, n + 1, Len(waitingGroups))

\* Faulty variant: drainGroup does not look at shuttingDown.
ReleaseAnyway(g, s) ==
    \/ /\ HasWork(s)
       /\ groups' = [groups EXCEPT ![g] = BeginNext(s)]
       /\ UNCHANGED <<activeCount, waitingGroups>>
    \/ /\ ~HasWork(s)
       /\ DrainWaiting([groups EXCEPT ![g] = s], activeCount - 1)

\* The `finally' block of a run whose group state is then s, with drainGroup.
Release(g, s) ==
    LET gs == [groups EXCEPT ![g] = s]
    IN  \/ /\ shuttingDown
           /\ groups' = gs
           /\ activeCount' = activeCount - 1
           /\ UNCHANGED waitingGroups
        \/ /\ ~shuttingDown
           /\ HasWork(s)
           /\ groups' = [groups EXCEPT ![g] = BeginNext(s)]
           /\ UNCHANGED <<activeCount, waitingGroups>>
        \/ /\ ~shuttingDown
           /\ ~HasWork(s)
           /\ DrainWaiting(gs, activeCount - 1)

-----------------------------------------------------------------------------
(***************************************************************************)
(* Actions of the host process.                                            *)
(***************************************************************************)

\* enqueueMessageCheck from the message loop, recovery or the dashboard.
RequestMessageCheck(g) ==
    /\ ~shuttingDown
    /\ EnqueueMessageCheck(g)
    /\ unserved' = [unserved EXCEPT ![g] = TRUE]
    /\ UNCHANGED <<shuttingDown, retryTimers, closeFile, inbox>>

\* enqueueTask.
EnqueueTask(g, t) ==
    /\ ~shuttingDown
    /\ ~Known(groups[g], t)
    /\ \/ /\ groups[g].active
          /\ groups' = [groups EXCEPT ![g].pendingTasks = Append(@, t)]
          /\ IF groups[g].idleWaiting
             THEN CloseStdin(g)
             ELSE UNCHANGED closeFile
          /\ UNCHANGED <<activeCount, waitingGroups>>
       \/ /\ ~groups[g].active
          /\ activeCount >= MaxConcurrent
          /\ groups' = [groups EXCEPT ![g].pendingTasks = Append(@, t)]
          /\ Enlist(g)
          /\ UNCHANGED <<activeCount, closeFile>>
       \/ /\ ~groups[g].active
          /\ activeCount < MaxConcurrent
          /\ groups' = [groups EXCEPT ![g] = BeginTask(groups[g], t)]
          /\ activeCount' = activeCount + 1
          /\ UNCHANGED <<waitingGroups, closeFile>>
    /\ UNCHANGED <<shuttingDown, retryTimers, inbox, unserved>>

\* registerProcess, called once a run has spawned its container.  Only a
\* message run of an interactive provider accepts follow-up input.
RegisterProcess(g, accepts) ==
    /\ groups[g].active
    /\ ~groups[g].registered
    /\ accepts => ~groups[g].isTaskContainer
    /\ groups' = [groups EXCEPT ![g].registered = TRUE,
                                ![g].acceptsFollowUpInput = accepts]
    /\ UNCHANGED <<activeCount, waitingGroups, shuttingDown, retryTimers,
                   closeFile, inbox, unserved>>

\* Faulty variant: pending tasks are not looked at.
NotifyIdleOnly(g) ==
    /\ groups' = [groups EXCEPT ![g].idleWaiting = TRUE]
    /\ UNCHANGED <<activeCount, waitingGroups, shuttingDown, retryTimers,
                   closeFile, inbox, unserved>>

\* notifyIdle: mark the group idle; preempt its agent if tasks are pending.
\* The output callback that calls it may outlive the run it belongs to.
NotifyIdle(g) ==
    /\ groups' = [groups EXCEPT ![g].idleWaiting = TRUE]
    /\ IF groups[g].pendingTasks # <<>>
       THEN CloseStdin(g)
       ELSE UNCHANGED closeFile
    /\ UNCHANGED <<activeCount, waitingGroups, shuttingDown, retryTimers,
                   inbox, unserved>>

CanPipe(g) ==
    /\ groups[g].active
    /\ groups[g].registered
    /\ ~groups[g].isTaskContainer
    /\ groups[g].acceptsFollowUpInput

\* sendMessage.  When the write fails idleWaiting is already reset.
SendMessage(g, text) ==
    /\ CanPipe(g)
    /\ groups' = [groups EXCEPT ![g].idleWaiting = FALSE]
    /\ \/ inbox' = [inbox EXCEPT ![g] = @ \cup {text}]
       \/ WritesMayFail /\ UNCHANGED inbox
    /\ UNCHANGED <<activeCount, waitingGroups, shuttingDown, retryTimers,
                   closeFile, unserved>>

\* closeStdin from an idle timer, a task's close timer, the dashboard or
\* closeActiveContainers.
RequestClose(g) ==
    /\ CloseStdin(g)
    /\ UNCHANGED <<queueVars, shuttingDown, retryTimers, inbox, unserved>>

(***************************************************************************)
(* The end of a message run.  A failed run (false, or an exception) arms a *)
(* retry timer, or after MaxRetries failures in a row drops the messages.  *)
(***************************************************************************)
FinishMessages(g) ==
    /\ groups[g].active
    /\ ~groups[g].isTaskContainer
    /\ LET s       == EndRun(groups[g])
           retries == groups[g].retryCount + 1
           served  == unserved' = [unserved EXCEPT
                                     ![g] = groups[g].pendingMessages]
       IN  \/ \* success
              /\ Release(g, [s EXCEPT !.retryCount = 0])
              /\ served
              /\ UNCHANGED retryTimers
           \/ \* failure, retried after a delay
              /\ retries <= MaxRetries
              /\ retryTimers[g] < MaxTimers
              /\ Release(g, [s EXCEPT !.retryCount = retries])
              /\ retryTimers' = [retryTimers EXCEPT ![g] = @ + 1]
              /\ UNCHANGED unserved
           \/ \* failure, one too many: the messages are dropped
              /\ retries > MaxRetries
              /\ Release(g, [s EXCEPT !.retryCount = 0])
              /\ served
              /\ UNCHANGED retryTimers
    /\ UNCHANGED <<shuttingDown, closeFile, inbox>>

\* The end of a task run; an error is only logged.
FinishTask(g) ==
    /\ groups[g].active
    /\ groups[g].isTaskContainer
    /\ Release(g, EndRun(groups[g]))
    /\ UNCHANGED <<shuttingDown, retryTimers, closeFile, inbox, unserved>>

\* A retry timer fires; it asks for nothing once the queue shuts down.
RetryTimerFires(g) ==
    /\ retryTimers[g] > 0
    /\ retryTimers' = [retryTimers EXCEPT ![g] = @ - 1]
    /\ \/ /\ shuttingDown
          /\ UNCHANGED <<queueVars, unserved>>
       \/ /\ ~shuttingDown
          /\ EnqueueMessageCheck(g)
          /\ unserved' = [unserved EXCEPT ![g] = TRUE]
    /\ UNCHANGED <<shuttingDown, closeFile, inbox>>

Shutdown ==
    /\ ~shuttingDown
    /\ shuttingDown' = TRUE
    /\ UNCHANGED <<queueVars, retryTimers, closeFile, inbox, unserved>>

(***************************************************************************)
(* The agent reads its input directory: a poll takes the sentinel, or the  *)
(* messages when there is no sentinel; start-up takes both.                *)
(***************************************************************************)
ReadInput(g, sentinel, messages) ==
    /\ closeFile' = [closeFile EXCEPT ![g] = @ /\ ~sentinel]
    /\ inbox' = IF messages THEN [inbox EXCEPT ![g] = {}] ELSE inbox
    /\ UNCHANGED <<queueVars, shuttingDown, retryTimers, unserved>>

-----------------------------------------------------------------------------
Next ==
    \/ \E g \in Groups :
          \/ RequestMessageCheck(g)
          \/ \E t \in Tasks : EnqueueTask(g, t)
          \/ \E accepts \in BOOLEAN : RegisterProcess(g, accepts)
          \/ NotifyIdle(g)
          \/ \E text \in Texts : SendMessage(g, text)
          \/ RequestClose(g)
          \/ FinishMessages(g)
          \/ FinishTask(g)
          \/ RetryTimerFires(g)
          \/ \E sentinel, messages \in BOOLEAN :
                ReadInput(g, sentinel, messages)
    \/ Shutdown

Spec == Init /\ [][Next]_vars

-----------------------------------------------------------------------------
(***************************************************************************)
(* Properties.                                                             *)
(***************************************************************************)

TypeOK ==
    /\ groups \in [Groups -> GroupState]
    /\ activeCount \in Nat
    /\ waitingGroups \in Seq(Groups)
    /\ shuttingDown \in BOOLEAN
    /\ retryTimers \in [Groups -> Nat]
    /\ closeFile \in [Groups -> BOOLEAN]
    /\ inbox \in [Groups -> SUBSET Texts]
    /\ unserved \in [Groups -> BOOLEAN]

ActiveGroups == {g \in Groups : groups[g].active}

Waiting(g) == \E i \in DOMAIN waitingGroups : waitingGroups[i] = g

\* The counter is exactly the number of groups with a run, and never above
\* the limit: no path releases a slot twice, forgets to, or runs two
\* containers for one group.
SlotsExact ==
    /\ activeCount = Cardinality(ActiveGroups)
    /\ activeCount <= MaxConcurrent

\* The waiting list names each group once, and only groups that have work
\* and no run: a popped group never starts on top of its own run.
WaitingSound ==
    /\ \A i, j \in DOMAIN waitingGroups :
          waitingGroups[i] = waitingGroups[j] => i = j
    /\ \A i \in DOMAIN waitingGroups :
          /\ ~groups[waitingGroups[i]].active
          /\ HasWork(groups[waitingGroups[i]])

\* A slot is never left free while a group waits for one.
WorkConserving ==
    ~shuttingDown /\ waitingGroups # <<>> => activeCount = MaxConcurrent

\* Work queued for a group that has no run is on the waiting list, the only
\* place from which it can still be started.
NoStrandedWork ==
    \A g \in Groups :
        HasWork(groups[g]) /\ ~groups[g].active /\ ~shuttingDown => Waiting(g)

\* An accepted message check that neither succeeded nor was dropped after
\* MaxRetries has something that will run it: a run, a pending flag or a timer.
NoLostMessages ==
    \A g \in Groups :
        unserved[g] /\ ~shuttingDown =>
            \/ groups[g].pendingMessages
            \/ groups[g].active /\ ~groups[g].isTaskContainer
            \/ retryTimers[g] > 0

TasksOnce(s) ==
    /\ \A i, j \in DOMAIN s.pendingTasks :
          s.pendingTasks[i] = s.pendingTasks[j] => i = j
    /\ \A i \in DOMAIN s.pendingTasks : s.pendingTasks[i] # s.runningTaskId
    /\ s.runningTaskId # NoTask <=> s.active /\ s.isTaskContainer

\* A scheduled task is queued or running at most once in its group, and the
\* task of a run is known exactly while a task run lasts.
TaskOnce == \A g \in Groups : TasksOnce(groups[g])

\* A run that starts while h waits and goes on waiting is of a group that
\* waited ahead of h.
StartsInOrder ==
    \A g, h \in Groups :
        /\ ~groups[g].active /\ groups'[g].active
        /\ Waiting(h) /\ Waiting(h)'
        => \E i, j \in DOMAIN waitingGroups :
              i < j /\ waitingGroups[i] = g /\ waitingGroups[j] = h

\* No newcomer takes a slot past a group that waits: drainWaiting serves the
\* groups in the order in which they found all slots taken.
NoOvertaking == [][StartsInOrder]_vars

\* No group becomes active and nothing that is queued is taken.
StartsNothing ==
    \A g \in Groups :
        /\ groups'[g].active => groups[g].active
        /\ groups'[g].pendingTasks = groups[g].pendingTasks
        /\ groups'[g].pendingMessages = groups[g].pendingMessages

\* Once shutdown began no run starts, not even as the follow-on of another.
ShutdownStartsNothing == [][shuttingDown => StartsNothing]_vars

(***************************************************************************)
(* The groups with a run are the holders of the slots.  A run that a group *)
(* begins right after its last one is, to the pool, the same hold.         *)
(***************************************************************************)
Pool == INSTANCE SlotPool WITH
            free    <- MaxConcurrent - activeCount,
            holders <- ActiveGroups,
            line    <- waitingGroups,
            closed  <- shuttingDown

\* Every end of a run hands the slot to the group that waited longest, and to
\* that one alone; a slot is taken directly only when nobody waits; a group is
\* in line only because it found all slots taken.
PoolImplemented == Pool!PoolSpec

(***************************************************************************)
(* To a group's message checks, a run of a task is no run, and a group     *)
(* that waits for a slot waits no differently from one that runs a task.   *)
(***************************************************************************)
Checks == INSTANCE MessageChecks WITH
              asked    <- [g \in Groups |-> groups[g].pendingMessages],
              checking <- [g \in Groups |-> groups[g].active
                                            /\ ~groups[g].isTaskContainer],
              failures <- [g \in Groups |-> groups[g].retryCount],
              delayed  <- retryTimers,
              closed   <- shuttingDown

\* A message check that was asked for begins exactly once, alone in its group:
\* whatever slots, tasks and other groups get in between, no request is
\* forgotten, none is served twice, and a failed one is made again MaxRetries
\* times in a row and no more.
ChecksImplemented == Checks!ChecksSpec
=============================================================================
