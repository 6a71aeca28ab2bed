---------------------------- MODULE TaskScheduler ----------------------------
(***************************************************************************)
(* One scheduled task: its row in the database, the poll that queues it    *)
(* when it is due, and runTask of src/src/task-scheduler.ts, which works   *)
(* on the copy of the row that the poll took.  Users change the row at any *)
(* time from the dashboard and through IPC.                                *)
(*                                                                         *)
(* Rows are independent, so one task stands for all.  The queue is reduced *)
(* to what GroupQueue promises: the task is queued or running at most once *)
(* (TaskOnce), and a queued task starts at some time.                      *)
(***************************************************************************)
EXTENDS Naturals

CONSTANTS
    NoCopy,           \* no closure waits in the queue
    Limits,           \* values of max_active_runs; 0 is no limit
    MaxRestarts,      \* bound of the model: restarts of the host
    MaxCount,         \* bound of the model: active_run_count is not told
                      \* apart beyond it
    DeliveryMayFail,  \* whether delivering a streamed result can fail
    SetupMayFail      \* whether preparing a run (files, prompt) can throw

(***************************************************************************)
(* next_run, seen from now: "past" is due, "none" is NULL.  `valid' is     *)
(* whether computeNextRun can parse the schedule of a recurring task.      *)
(***************************************************************************)
Row ==
    [exists : BOOLEAN, status : {"active", "paused", "completed"},
     next : {"past", "future", "none"}, kind : {"once", "recurring"},
     valid : BOOLEAN, folderOk : BOOLEAN, limit : Limits, runs : 0 .. MaxCount]

ASSUME SchedulerAssumption ==
    /\ NoCopy \notin Row
    /\ MaxCount \in Nat
    /\ Limits \subseteq 0 .. MaxCount
    /\ MaxRestarts \in Nat
    /\ DeliveryMayFail \in BOOLEAN
    /\ SetupMayFail \in BOOLEAN

VARIABLES
    row,         \* the row of scheduled_tasks
    queued,      \* the copy held by the closure that waits in the queue
    run,         \* runTask, after its synchronous start
    registered,  \* the task's group is a registered group
    restarts,
    owed,        \* history: why the task may start an agent
    leaked       \* history: runs whose count stays in active_run_count

vars == <<row, queued, run, registered, restarts, owed, leaked>>

Idle == [pc |-> "none"]

Init ==
    /\ \E kind \in {"once", "recurring"}, limit \in Limits,
          folderOk \in BOOLEAN :
          row = [exists |-> TRUE, status |-> "active", next |-> "future",
                 kind |-> kind, valid |-> TRUE, folderOk |-> folderOk,
                 limit |-> limit, runs |-> 0]
    /\ queued = NoCopy
    /\ run = Idle
    /\ registered = TRUE
    /\ restarts = 0
    /\ owed = "nothing"
    /\ leaked = 0

\* One more, as far as the model counts.
OneMore(count) == IF count < MaxCount THEN count + 1 ELSE MaxCount

Due(r) == r.exists /\ r.status = "active" /\ r.next = "past"

\* An UPDATE of a deleted row changes nothing.
Write(r) == row' = IF row.exists THEN r ELSE row

-----------------------------------------------------------------------------
(***************************************************************************)
(* Time and users.                                                         *)
(***************************************************************************)
UserUnchanged == UNCHANGED <<queued, run, registered, restarts, leaked>>

TimeComes ==
    /\ row.next = "future"
    /\ row' = [row EXCEPT !.next = "past"]
    /\ owed' = "occurrence"
    /\ UserUnchanged

RunNow ==
    /\ row.exists
    /\ row' = [row EXCEPT !.status = "active", !.next = "past"]
    /\ owed' = "occurrence"
    /\ UserUnchanged

Pause  == row.exists /\ row' = [row EXCEPT !.status = "paused"]
Resume == row.exists /\ row' = [row EXCEPT !.status = "active"]
Cancel == row.exists /\ row' = [row EXCEPT !.exists = FALSE]

\* The dashboard stores schedule, status and limit as they come, and leaves
\* next_run alone.
EditOnDashboard ==
    /\ row.exists
    /\ \E kind \in {"once", "recurring"}, valid \in BOOLEAN,
          status \in {"active", "paused", "completed"}, limit \in Limits :
          row' = [row EXCEPT !.kind = kind, !.valid = valid,
                             !.status = status, !.limit = limit]

\* update_task refuses a cron expression it cannot parse, and computes the
\* next run of a recurring task, unless its interval is no number.
EditThroughIpc ==
    /\ row.exists
    /\ \/ row' = [row EXCEPT !.kind = "recurring", !.valid = TRUE,
                             !.next = "future"]
       \/ \E kind \in {"once", "recurring"} :
             row' = [row EXCEPT !.kind = kind, !.valid = TRUE]

UserEdits ==
    /\ Pause \/ Resume \/ Cancel \/ EditOnDashboard \/ EditThroughIpc
    /\ UNCHANGED owed
    /\ UserUnchanged

\* A group is registered, or its registration removed.
GroupChanges ==
    /\ registered' = ~registered
    /\ UNCHANGED <<row, queued, run, restarts, owed, leaked>>

-----------------------------------------------------------------------------
(***************************************************************************)
(* The scheduler.                                                          *)
(***************************************************************************)

\* Faulty variant: the queue takes a task that is running.
PollWhileRunning ==
    /\ Due(row)
    /\ queued = NoCopy
    /\ queued' = row
    /\ UNCHANGED <<row, run, registered, restarts, owed, leaked>>

\* The poll queues a due task with a copy of its row.  The queue refuses it
\* while it is queued or running: next_run moves only at the end of a run.
Poll ==
    /\ Due(row)
    /\ queued = NoCopy
    /\ run.pc = "none"
    /\ queued' = row
    /\ UNCHANGED <<row, run, registered, restarts, owed, leaked>>

\* Faulty variant: an unknown status.
AdvanceToDone(task, r) ==
    IF task.kind = "once"
    THEN [r EXCEPT !.next = "none", !.status = "done"]
    ELSE [r EXCEPT !.next = "future"]

\* updateTaskAfterRun with computeNextRun of the copy; a task without a next
\* run is completed.
Advance(task, r) ==
    IF task.kind = "once"
    THEN [r EXCEPT !.next = "none", !.status = "completed"]
    ELSE [r EXCEPT !.next = "future"]

CanAdvance(task) == task.kind = "once" \/ task.valid

\* Faulty variant: one run too early.
AtLimitEarly(task) == task.limit > 0 /\ task.runs + 1 >= task.limit

AtLimit(task) == task.limit > 0 /\ task.runs >= task.limit

Dequeue ==
    /\ queued # NoCopy
    /\ run.pc = "none"
    /\ queued' = NoCopy
    /\ UNCHANGED <<registered, restarts>>

\* A malformed folder pauses the task.
RefuseFolder ==
    /\ Dequeue
    /\ ~queued.folderOk
    /\ Write([row EXCEPT !.status = "paused"])
    /\ UNCHANGED <<run, owed, leaked>>

\* Without its group nothing happens, and the task stays due.
RefuseGroup ==
    /\ Dequeue
    /\ queued.folderOk
    /\ ~registered
    /\ UNCHANGED <<row, run, owed, leaked>>

\* skipTaskRun; computeNextRun throws on a schedule it cannot parse.
Skip ==
    /\ IF CanAdvance(queued)
       THEN Write(Advance(queued, row)) /\ owed' = "nothing"
       ELSE UNCHANGED <<row, owed>>
    /\ UNCHANGED <<run, leaked>>

SkipAtLimit ==
    /\ Dequeue
    /\ queued.folderOk /\ registered
    /\ AtLimit(queued)
    /\ Skip

\* Quiet hours and active hours, a matter of the time of day.
SkipHeartbeat ==
    /\ Dequeue
    /\ queued.folderOk /\ registered
    /\ ~AtLimit(queued)
    /\ Skip

\* A run is counted, from the copy, before anything of it is prepared.
CountRun ==
    /\ Dequeue
    /\ queued.folderOk /\ registered
    /\ ~AtLimit(queued)
    /\ Write([row EXCEPT !.runs = OneMore(queued.runs)])

StartRun ==
    /\ CountRun
    /\ run' = [pc |-> "agent", task |-> queued]
    /\ owed' = "nothing"
    /\ UNCHANGED leaked

\* Faulty variant: the count of a failed set-up is not kept.
SetupThrowsUncounted ==
    /\ SetupMayFail
    /\ Dequeue
    /\ queued.folderOk /\ registered
    /\ ~AtLimit(queued)
    /\ UNCHANGED <<row, run, owed, leaked>>

\* Preparing the run throws: its count stays, and so does next_run.
SetupThrows ==
    /\ SetupMayFail
    /\ CountRun
    /\ leaked' = OneMore(leaked)
    /\ UNCHANGED <<run, owed>>

\* The agent is done, well or not: the next run and the count are written
\* from the copy; an exception in computeNextRun skips both.
FinishRun ==
    /\ run.pc = "agent"
    /\ run' = Idle
    /\ IF CanAdvance(run.task)
       THEN /\ Write([Advance(run.task, row) EXCEPT !.runs = run.task.runs])
            /\ owed' = "nothing"
            /\ UNCHANGED leaked
       ELSE /\ owed' = "rerun"
            /\ leaked' = OneMore(leaked)
            /\ UNCHANGED row
    /\ UNCHANGED <<queued, registered, restarts>>

\* A delivery that fails in the output callback breaks the output chain, and
\* runContainerAgent does not return after a clean exit.
RunHangs ==
    /\ DeliveryMayFail
    /\ run.pc = "agent"
    /\ run' = [run EXCEPT !.pc = "hung"]
    /\ UNCHANGED <<row, queued, registered, restarts, owed, leaked>>

\* The host stops and starts again: the row is all that stays.
Restart ==
    /\ restarts < MaxRestarts
    /\ restarts' = restarts + 1
    /\ queued' = NoCopy
    /\ run' = Idle
    /\ IF run.pc # "none"
       THEN owed' = "rerun" /\ leaked' = OneMore(leaked)
       ELSE UNCHANGED <<owed, leaked>>
    /\ UNCHANGED <<row, registered>>

-----------------------------------------------------------------------------
Next ==
    \/ TimeComes
    \/ RunNow
    \/ UserEdits
    \/ GroupChanges
    \/ Poll
    \/ RefuseFolder
    \/ RefuseGroup
    \/ SkipAtLimit
    \/ SkipHeartbeat
    \/ StartRun
    \/ SetupThrows
    \/ FinishRun
    \/ RunHangs
    \/ Restart

Spec == Init /\ [][Next]_vars

(***************************************************************************)
(* Fairness: the poll comes every SCHEDULER_POLL_INTERVAL, a queued task   *)
(* gets its turn, and a run that does not hang ends.                       *)
(***************************************************************************)
FairSpec ==
    /\ Spec
    /\ WF_vars(Poll)
    /\ WF_vars(RefuseFolder \/ RefuseGroup \/ SkipAtLimit \/ StartRun
               \/ SetupThrows)
    /\ WF_vars(FinishRun)

-----------------------------------------------------------------------------
(***************************************************************************)
(* Properties.                                                             *)
(***************************************************************************)

TypeOK ==
    /\ row \in Row
    /\ queued \in Row \cup {NoCopy}
    /\ run = Idle \/ run \in [pc : {"agent", "hung"}, task : Row]
    /\ registered \in BOOLEAN
    /\ restarts \in 0 .. MaxRestarts
    /\ owed \in {"nothing", "occurrence", "rerun"}
    /\ leaked \in 0 .. MaxCount

\* active_run_count is the number of runs in progress, one at most, and of
\* the runs that leaked their count, up to MaxCount: writing it from a copy
\* loses nothing.
CountExact ==
    row.exists =>
        row.runs = IF run.pc = "none" THEN leaked ELSE OneMore(leaked)

\* The active-run limit stops a task only for a leaked count, never for a
\* second run that is really there.
LimitMeansLeak ==
    [][SkipAtLimit => leaked > 0]_vars

\* An occurrence starts one agent, although the task stays due during the
\* whole run; a second one follows only a crash or a schedule that cannot be
\* parsed.
OncePerOccurrence ==
    [][run.pc = "none" /\ run'.pc # "none" => owed # "nothing"]_vars

\* A due task is run, skipped or changed, unless its group is gone, its
\* schedule cannot be parsed, or its set-up throws time and again and no limit
\* of active runs puts an end to it: such a task is retried at every poll, for
\* ever.  With a limit, the counts that the failures leave behind do.
DueHandled ==
    <>[][SetupThrows => queued.limit # 0]_vars
    => (Due(row) ~> \/ ~Due(row)
                    \/ run.pc # "none"
                    \/ ~registered
                    \/ ~CanAdvance(row))

\* The comment in the poll: the status is checked again, in case the task was
\* paused or cancelled meanwhile.
PausedStaysPaused ==
    [][run.pc = "none" /\ run'.pc # "none"
          => row.exists /\ row.status = "active"]_vars
=============================================================================
