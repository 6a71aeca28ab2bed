--------------------------- MODULE MessageDelivery ---------------------------
(***************************************************************************)
(* How the messages of one chat reach an agent and its replies come back:  *)
(* startMessageLoop, processGroupMessages and recoverPendingMessages of    *)
(* src/src/index.ts, with the run of one container below them.  The chat   *)
(* is not the main one and needs no trigger word.                          *)
(*                                                                         *)
(* Two timestamps stand for all the messages handled so far: `seen'        *)
(* (lastTimestamp) is what the loop has noticed, `cursor'                  *)
(* (lastAgentTimestamp) what was handed on.  Both are saved as they        *)
(* change, so a restart finds them as they were.                           *)
(*                                                                         *)
(* The queue is reduced to what GroupQueue promises: a requested message   *)
(* check runs once the group has no run.                                   *)
(***************************************************************************)
EXTENDS Naturals, Sequences, FiniteSets

CONSTANTS
    MaxMessages,   \* bound of the model: messages that arrive
    MaxPerPrompt,  \* MAX_MESSAGES_PER_PROMPT
    MaxRetries,    \* MAX_RETRIES of the queue
    MaxTimers,     \* bound of the model: armed timers
    MaxRestarts,   \* bound of the model: restarts of the host
    SendsMayFail,  \* whether a channel's sendMessage can reject
    StepsMayFail   \* whether setTyping can, and the writing of a file can fail

ASSUME DeliveryAssumption ==
    /\ MaxMessages \in Nat \ {0}
    /\ MaxPerPrompt \in Nat \ {0}
    /\ MaxRetries \in Nat
    /\ MaxTimers \in Nat \ {0}
    /\ MaxRestarts \in Nat
    /\ SendsMayFail \in BOOLEAN
    /\ StepsMayFail \in BOOLEAN

VARIABLES
    log,        \* the chat's rows of the messages table, in arrival order
    seen,       \* lastTimestamp
    cursor,     \* lastAgentTimestamp of the chat
    loop,       \* an iteration of the message loop
    due,        \* a message check waits in the queue
    timers,     \* armed setTimeout calls that will enqueue a message check
    retries,    \* the queue's retryCount
    run,        \* an execution of processGroupMessages
    agent,      \* the agent in its container
    inbox,      \* piped messages in ipc/<folder>/input
    closeFile,  \* the sentinel in the same directory
    replies,    \* outputChain: replies of the run, not sent yet
    broken,     \* outputChain rejected
    late,       \* messages whose reply is in the chain of an ended run
    cached,     \* processedMessageIds of control-plane commands
    restarts,
    answered,   \* history: replies sent for each message
    executed,   \* history: executions of each command
    abandoned,  \* history: prompts given up without a reply
    unnoticed,  \* history: prompts nothing is scheduled for any more
    repeated    \* history: prompts that are, or will be, handed on again

hostVars  == <<seen, cursor, loop, due, timers, retries, run>>
agentVars == <<agent, inbox, closeFile, replies, broken, late>>
history   == <<answered, executed, abandoned, unnoticed, repeated>>
vars == <<log, hostVars, agentVars, cached, restarts, history>>

Ids == 1 .. MaxMessages
Stored == 1 .. Len(log)

NoLoop  == [pc |-> "idle", batch |-> {}]
NoRun   == [pc |-> "none", batch |-> {}, prev |-> 0, sent |-> FALSE,
            output |-> FALSE, accepts |-> FALSE]
NoAgent == [pc |-> "none", turn |-> {}, backlog |-> {}]

Live == {"booting", "turn", "waiting", "closing"}

\* A chat with a history: its cursors stand at time 1.
Init ==
    /\ log = <<>>
    /\ seen = 1
    /\ cursor = 1
    /\ loop = NoLoop
    /\ due = FALSE
    /\ timers = 0
    /\ retries = 0
    /\ run = NoRun
    /\ agent = NoAgent
    /\ inbox = {}
    /\ closeFile = FALSE
    /\ replies = <<>>
    /\ broken = FALSE
    /\ late = {}
    /\ cached = {}
    /\ restarts = 0
    /\ answered = [m \in Ids |-> 0]
    /\ executed = [m \in Ids |-> 0]
    /\ abandoned = {}
    /\ unnoticed = {}
    /\ repeated = {}

-----------------------------------------------------------------------------
After(time) == {m \in Stored : log[m].ts > time}

\* Queries order messages by timestamp: here, the order of arrival.
Latest(batch) == CHOOSE m \in batch : \A k \in batch : k <= m

\* getMessagesSince(cursor): the newest MaxPerPrompt messages.
Pending == {m \in After(cursor) :
              Cardinality({k \in After(cursor) : k > m}) < MaxPerPrompt}

Unanswered(batch) ==
    {m \in batch : answered[m] = 0 /\ ~log[m].command}

Chained == UNION {replies[i] : i \in DOMAIN replies}

\* Messages in the hands of the run's agent and its output chain.
InHand == agent.turn \cup agent.backlog \cup Chained

OnTheWay == inbox \cup InHand \cup late

Abandon(batch) == abandoned' = abandoned \cup Unanswered(batch)

\* A cursor that is set back exposes what it was set over.
SetBackTo(time) == After(time) \ After(cursor)

\* The registered container of an interactive provider takes follow-ups.
CanPipe == run.pc = "agent" /\ agent.pc # "none" /\ run.accepts

-----------------------------------------------------------------------------
(***************************************************************************)
(* A channel stores a message.  Its timestamp is the platform's, to the    *)
(* second on Telegram: it can equal that of the message before it, even    *)
(* when the loop has been there in between.                                *)
(***************************************************************************)
LastTime == IF log = <<>> THEN 1 ELSE log[Len(log)].ts

Arrive(command) ==
    /\ Len(log) < MaxMessages
    /\ \E ts \in {LastTime, LastTime + 1} :
          /\ log' = Append(log, [ts |-> ts, command |-> command])
          /\ abandoned' = IF ts <= cursor /\ ~command
                          THEN abandoned \cup {Len(log) + 1} ELSE abandoned
          /\ unnoticed' = IF ts <= seen
                          THEN unnoticed \cup {Len(log) + 1} ELSE unnoticed
    /\ UNCHANGED <<hostVars, agentVars, cached, restarts, answered, executed,
                   repeated>>

-----------------------------------------------------------------------------
(***************************************************************************)
(* The message loop.                                                       *)
(***************************************************************************)

\* The poll advances `seen', then comes to the chats one by one: the others
\* may keep it waiting.
LoopPoll ==
    /\ loop.pc = "idle"
    /\ After(seen) # {}
    /\ seen' = log[Latest(After(seen))].ts
    /\ loop' = [pc |-> "polled", batch |-> After(seen)]
    /\ UNCHANGED <<log, cursor, due, timers, retries, run, agentVars, cached,
                   restarts, history>>

\* The loop takes all that is pending, or what it polled if a run took that
\* meanwhile.
ToSend == IF Pending # {} THEN Pending ELSE loop.batch

Execute(m) == executed' = IF m \in cached THEN executed
                          ELSE [executed EXCEPT ![m] = @ + 1]

LoopUnchanged ==
    UNCHANGED <<log, seen, timers, retries, run, agent, closeFile, replies,
                broken, late, restarts, answered>>

\* The last message is a control-plane command, executed here and now.
LoopCommand ==
    /\ loop.pc = "polled"
    /\ log[Latest(ToSend)].command
    /\ Execute(Latest(ToSend))
    /\ loop' = [pc |-> "command", batch |-> ToSend]
    /\ UNCHANGED <<cursor, due, inbox, cached, abandoned, unnoticed, repeated>>
    /\ LoopUnchanged

\* sendMessage, and the cursor moves up.
LoopPipe ==
    LET time == log[Latest(ToSend)].ts
    IN  /\ loop.pc = "polled"
        /\ ~log[Latest(ToSend)].command
        /\ CanPipe
        /\ inbox' = inbox \cup ToSend
        /\ cursor' = time
        /\ Abandon(After(cursor) \ Pending)
        /\ repeated' = repeated \cup (ToSend \ Pending) \cup SetBackTo(time)
        /\ unnoticed' = unnoticed \cup SetBackTo(time)
        /\ loop' = NoLoop
        /\ UNCHANGED <<due, cached, executed>>
        /\ LoopUnchanged

\* enqueueMessageCheck: nobody takes follow-ups, or sendMessage could not write
\* the file.
LoopEnqueue ==
    /\ loop.pc = "polled"
    /\ ~log[Latest(ToSend)].command
    /\ ~CanPipe \/ StepsMayFail
    /\ due' = TRUE
    /\ loop' = NoLoop
    /\ UNCHANGED <<cursor, inbox, cached, executed, abandoned, unnoticed,
                   repeated>>
    /\ LoopUnchanged

\* The command's reply is sent and the cursor set behind the whole batch; or
\* the reply fails, and the error ends the iteration.
LoopCommandDone ==
    LET time == log[Latest(loop.batch)].ts
    IN  /\ loop.pc = "command"
        /\ cached' = cached \cup {Latest(loop.batch)}
        /\ \/ /\ cursor' = time
              /\ Abandon((After(cursor) \ After(time)) \ OnTheWay)
              /\ repeated' = repeated \cup SetBackTo(time)
              /\ unnoticed' = unnoticed \cup SetBackTo(time)
           \/ /\ SendsMayFail
              /\ unnoticed' = unnoticed \cup After(cursor)
              /\ UNCHANGED <<cursor, abandoned, repeated>>
        /\ loop' = NoLoop
        /\ UNCHANGED <<due, inbox, executed>>
        /\ LoopUnchanged

-----------------------------------------------------------------------------
(***************************************************************************)
(* processGroupMessages, as a run of the queue.                            *)
(***************************************************************************)

\* Faulty variant: retries without end.
ScheduleRetryForever(pending) ==
    /\ timers < MaxTimers
    /\ retries' = retries + 1
    /\ timers' = timers + 1
    /\ UNCHANGED unnoticed

\* scheduleRetry: messages stay pending when there have been too many.
ScheduleRetry(pending) ==
    \/ /\ retries < MaxRetries
       /\ timers < MaxTimers
       /\ retries' = retries + 1
       /\ timers' = timers + 1
       /\ UNCHANGED unnoticed
    \/ /\ retries = MaxRetries
       /\ retries' = 0
       /\ unnoticed' = unnoticed \cup pending
       /\ UNCHANGED timers

EndRun == run' = NoRun

RunUnchanged ==
    UNCHANGED <<log, seen, loop, inbox, closeFile, replies, broken, late,
                restarts, answered>>

\* Nothing is pending, and the run is over.
RunNothing ==
    /\ due /\ run.pc = "none"
    /\ Pending = {}
    /\ due' = FALSE
    /\ retries' = 0
    /\ unnoticed' = unnoticed \cup inbox
    /\ UNCHANGED <<cursor, timers, run, agent, cached, executed, abandoned,
                   repeated>>
    /\ RunUnchanged

\* A control-plane command is executed on the spot.
RunCommand ==
    /\ due /\ run.pc = "none"
    /\ Pending # {}
    /\ log[Latest(Pending)].command
    /\ due' = FALSE
    /\ Execute(Latest(Pending))
    /\ run' = [run EXCEPT !.pc = "command", !.batch = Pending]
    /\ UNCHANGED <<cursor, timers, retries, agent, cached, abandoned,
                   unnoticed, repeated>>
    /\ RunUnchanged

\* Otherwise the cursor advances before the agent starts, and the old one is
\* kept for an error.
RunPrompt ==
    /\ due /\ run.pc = "none"
    /\ Pending # {}
    /\ ~log[Latest(Pending)].command
    /\ due' = FALSE
    /\ run' = [run EXCEPT !.pc = "agent", !.batch = Pending, !.prev = cursor]
    /\ agent' = [agent EXCEPT !.turn = Pending]
    /\ cursor' = log[Latest(Pending)].ts
    /\ Abandon(After(cursor) \ Pending)
    /\ UNCHANGED <<timers, retries, cached, executed, unnoticed, repeated>>
    /\ RunUnchanged

\* What is awaited between that and the agent's start is outside the try: if it
\* rejects (setTyping does when Discord cannot be asked for the channel), the
\* cursor is not set back, and the retry finds the batch handled.
StartFails ==
    /\ StepsMayFail
    /\ run.pc = "agent"
    /\ agent.pc = "none"
    /\ Abandon(agent.turn \ (After(cursor) \cup inbox \cup late))
    /\ ScheduleRetry(After(cursor) \cup inbox)
    /\ EndRun
    /\ agent' = NoAgent
    /\ UNCHANGED <<cursor, due, cached, executed, repeated>>
    /\ RunUnchanged

RunCommandDone ==
    LET time == log[Latest(run.batch)].ts
    IN  /\ run.pc = "command"
        /\ cached' = cached \cup {Latest(run.batch)}
        /\ \/ /\ cursor' = time
              /\ Abandon((After(cursor) \ After(time)) \ OnTheWay)
              /\ repeated' = repeated \cup SetBackTo(time)
              /\ unnoticed' = unnoticed \cup SetBackTo(time) \cup inbox
              /\ retries' = 0
              /\ UNCHANGED timers
           \/ /\ SendsMayFail
              /\ ScheduleRetry(After(cursor) \cup inbox)
              /\ UNCHANGED <<cursor, abandoned, repeated>>
        /\ EndRun
        /\ UNCHANGED <<due, agent, executed>>
        /\ RunUnchanged

\* The container is spawned and registered; only an interactive provider
\* accepts follow-up input.
SpawnAgent ==
    /\ run.pc = "agent"
    /\ agent.pc = "none"
    /\ \E accepts \in BOOLEAN : run' = [run EXCEPT !.accepts = accepts]
    /\ agent' = [agent EXCEPT !.pc = "booting"]
    /\ broken' = FALSE
    /\ UNCHANGED <<log, seen, cursor, loop, due, timers, retries, inbox,
                   closeFile, replies, late, cached, restarts, history>>

\* Faulty variant: outputSentToUser is not set.
SendReplyUnnoted ==
    /\ replies # <<>>
    /\ answered' = [m \in Ids |-> IF m \in Head(replies)
                                  THEN answered[m] + 1 ELSE answered[m]]
    /\ replies' = Tail(replies)
    /\ UNCHANGED <<log, seen, cursor, loop, due, timers, retries, run, agent,
                   inbox, closeFile, broken, late, cached, restarts, executed,
                   abandoned, unnoticed, repeated>>

\* The output callback sends a reply, and only then notes that it did.  A
\* rejected send breaks the chain: the run's other replies are never sent.
SendReply ==
    /\ replies # <<>>
    /\ \/ /\ answered' = [m \in Ids |-> IF m \in Head(replies)
                                        THEN answered[m] + 1 ELSE answered[m]]
          /\ replies' = Tail(replies)
          /\ run' = [run EXCEPT !.sent = TRUE]
          /\ UNCHANGED <<broken, abandoned>>
       \/ /\ SendsMayFail
          /\ broken' = TRUE
          /\ replies' = <<>>
          /\ Abandon(Chained)
          /\ UNCHANGED <<answered, run>>
    /\ UNCHANGED <<log, seen, cursor, loop, due, timers, retries, agent,
                   inbox, closeFile, late, cached, restarts, executed,
                   unnoticed, repeated>>

\* The replies of runs that have failed meanwhile; a rejected send drops what
\* is left of its chain.  Nobody waits for them: one step stands for all.
SendLateReply ==
    /\ late # {}
    /\ late' = {}
    /\ \E sent \in IF SendsMayFail THEN SUBSET late ELSE {late} :
          /\ answered' = [m \in Ids |-> IF m \in sent
                                        THEN answered[m] + 1 ELSE answered[m]]
          /\ Abandon((late \ sent) \ (After(cursor) \cup InHand \cup inbox))
    /\ UNCHANGED <<log, hostVars, agent, inbox, closeFile, replies, broken,
                   cached, restarts, executed, unnoticed, repeated>>

\* The idle timer, or another caller of closeStdin.
RequestClose ==
    /\ run.pc = "agent"
    /\ agent.pc # "none"
    /\ closeFile' = TRUE
    /\ UNCHANGED <<log, hostVars, agent, inbox, replies, broken, late, cached,
                   restarts, history>>

\* A clean exit, or the hard timeout after some output: the run succeeds
\* once the chain is done, whatever the agent still had in hand.
FinishClean ==
    /\ agent.pc = "exited"
    /\ replies = <<>>
    /\ ~broken
    /\ Abandon(InHand)
    /\ unnoticed' = unnoticed \cup inbox
    /\ retries' = 0
    /\ EndRun
    /\ agent' = NoAgent
    /\ UNCHANGED <<log, seen, cursor, loop, due, timers, inbox, closeFile,
                   replies, broken, late, cached, restarts, answered,
                   executed, repeated>>

\* A failure does not wait for the chain.  After a reply the run counts as
\* a success; before one the cursor is rolled back for a retry, or forward if
\* the loop has set it back further meanwhile.
FinishFailed ==
    /\ agent.pc = "failed"
    /\ late' = late \cup Chained
    /\ replies' = <<>>
    /\ \/ /\ run.sent
          /\ Abandon(InHand \ Chained)
          /\ unnoticed' = unnoticed \cup inbox
          /\ retries' = 0
          /\ UNCHANGED <<cursor, timers, repeated>>
       \/ /\ ~run.sent
          /\ cursor' = run.prev
          /\ Abandon(((InHand \ Chained) \cup (After(cursor) \ OnTheWay))
                        \ After(run.prev))
          /\ repeated' = repeated \cup Chained
          /\ ScheduleRetry(After(run.prev) \cup inbox)
    /\ EndRun
    /\ agent' = NoAgent
    /\ UNCHANGED <<log, seen, loop, due, inbox, closeFile, broken, cached,
                   restarts, answered, executed>>

\* Faulty variant: the retry is forgotten.
TimerFiresIdly ==
    /\ timers > 0
    /\ timers' = timers - 1
    /\ UNCHANGED <<log, seen, cursor, loop, due, retries, run, agentVars, cached,
                   restarts, history>>

TimerFires ==
    /\ timers > 0
    /\ timers' = timers - 1
    /\ due' = TRUE
    /\ UNCHANGED <<log, seen, cursor, loop, retries, run, agentVars, cached,
                   restarts, history>>

\* What a restart does to everything but the queue and the inbox.
ForgetMemory ==
    /\ restarts < MaxRestarts
    /\ restarts' = restarts + 1
    /\ loop' = NoLoop
    /\ timers' = 0
    /\ retries' = 0
    /\ run' = NoRun
    /\ agent' = NoAgent
    /\ replies' = <<>>
    /\ broken' = FALSE
    /\ late' = {}
    /\ cached' = {}
    /\ Abandon(((InHand \cup late) \ After(cursor)) \ inbox)
    /\ unnoticed' = inbox
    /\ UNCHANGED <<log, seen, cursor, closeFile, answered, executed, repeated>>

\* Faulty variants: no recovery of pending messages, or an emptied inbox.
RestartWithoutRecovery ==
    /\ ForgetMemory
    /\ due' = FALSE
    /\ UNCHANGED inbox

RestartClearingInbox ==
    /\ ForgetMemory
    /\ due' = (Pending # {})
    /\ inbox' = {}

(***************************************************************************)
(* The host stops and starts again.  Containers it left are stopped as     *)
(* orphans; the input directory stays.  recoverPendingMessages requests a  *)
(* check if anything is pending.                                           *)
(***************************************************************************)
Restart ==
    /\ ForgetMemory
    /\ due' = (Pending # {})
    /\ UNCHANGED inbox

-----------------------------------------------------------------------------
(***************************************************************************)
(* The agent process (container/agent-runner).                             *)
(***************************************************************************)
AgentUnchanged ==
    UNCHANGED <<log, seen, cursor, loop, due, timers, retries, broken, late,
                cached, restarts, answered, executed, unnoticed, repeated>>

\* Faulty variant: what was piped before is dropped.
AgentBootDroppingInput ==
    /\ agent.pc = "booting"
    /\ closeFile' = FALSE
    /\ inbox' = {}
    /\ agent' = [agent EXCEPT !.pc = "turn"]
    /\ UNCHANGED <<run, replies, abandoned>>
    /\ AgentUnchanged

\* Start-up unlinks a stale sentinel and adds what is in the inbox to the
\* prompt.
AgentBoot ==
    /\ agent.pc = "booting"
    /\ closeFile' = FALSE
    /\ inbox' = {}
    /\ agent' = [agent EXCEPT !.pc = "turn", !.turn = @ \cup inbox]
    /\ UNCHANGED <<run, replies, abandoned>>
    /\ AgentUnchanged

AgentPoll ==
    /\ agent.pc \in {"turn", "waiting"}
    /\ run.accepts
    /\ \/ /\ closeFile
          /\ closeFile' = FALSE
          /\ agent' = [agent EXCEPT !.pc = "closing"]
          /\ UNCHANGED inbox
       \/ /\ ~closeFile
          /\ inbox # {}
          /\ inbox' = {}
          /\ agent' = IF agent.pc = "waiting"
                      THEN [agent EXCEPT !.pc = "turn", !.turn = inbox]
                      ELSE [agent EXCEPT !.backlog = @ \cup inbox]
          /\ UNCHANGED closeFile
    /\ UNCHANGED <<run, replies, abandoned>>
    /\ AgentUnchanged

\* The end of a turn: its reply is on stdout.  What was piped meanwhile is
\* the next turn.
AgentReplies ==
    /\ agent.pc \in {"turn", "closing"}
    /\ agent.turn # {}
    /\ IF broken
       THEN Abandon(agent.turn) /\ UNCHANGED replies
       ELSE replies' = Append(replies, agent.turn) /\ UNCHANGED abandoned
    /\ agent' = [pc |-> IF agent.pc = "closing" \/ ~run.accepts THEN "closing"
                        ELSE IF agent.backlog = {} THEN "waiting" ELSE "turn",
                 turn |-> agent.backlog,
                 backlog |-> {}]
    /\ run' = [run EXCEPT !.output = TRUE]
    /\ UNCHANGED <<inbox, closeFile>>
    /\ AgentUnchanged

\* The process ends: with code 0 when it is done closing; with an error at
\* any time; or stopped by the hard timeout, which counts as a clean end
\* once there has been output.
AgentEnds ==
    /\ agent.pc \in Live
    /\ \/ /\ agent.pc = "closing" /\ agent.turn = {}
          /\ agent' = [agent EXCEPT !.pc = "exited"]
       \/ /\ run.output
          /\ agent' = [agent EXCEPT !.pc = "exited"]
       \/ agent' = [agent EXCEPT !.pc = "failed"]
    /\ UNCHANGED <<run, replies, abandoned, inbox, closeFile>>
    /\ AgentUnchanged

-----------------------------------------------------------------------------
Next ==
    \/ \E command \in BOOLEAN : Arrive(command)
    \/ LoopPoll
    \/ LoopCommand
    \/ LoopPipe
    \/ LoopEnqueue
    \/ LoopCommandDone
    \/ RunNothing
    \/ RunCommand
    \/ RunPrompt
    \/ StartFails
    \/ RunCommandDone
    \/ SpawnAgent
    \/ SendReply
    \/ SendLateReply
    \/ RequestClose
    \/ FinishClean
    \/ FinishFailed
    \/ TimerFires
    \/ Restart
    \/ AgentBoot
    \/ AgentPoll
    \/ AgentReplies
    \/ AgentEnds

Spec == Init /\ [][Next]_vars

(***************************************************************************)
(* Fairness: the loop polls every POLL_INTERVAL, timers fire, a run that is*)
(* due starts, commands and sends return, the agent boots, polls, replies  *)
(* and leaves when asked to; between turns the idle timer asks it to.      *)
(* Nothing is assumed of users, of failures or of restarts.                *)
(***************************************************************************)
FairSpec ==
    /\ Spec
    /\ WF_vars(LoopPoll)
    /\ WF_vars(LoopCommand \/ LoopPipe \/ LoopEnqueue \/ LoopCommandDone)
    /\ WF_vars(RunNothing \/ RunCommand \/ RunPrompt \/ RunCommandDone)
    /\ WF_vars(TimerFires)
    /\ WF_vars(SpawnAgent)
    /\ WF_vars(AgentBoot)
    /\ WF_vars(AgentPoll)
    /\ WF_vars(AgentReplies)
    /\ WF_vars(agent.pc = "waiting" /\ RequestClose)
    /\ WF_vars(agent.pc = "closing" /\ AgentEnds)
    /\ WF_vars(SendReply)
    /\ WF_vars(FinishClean)
    /\ WF_vars(FinishFailed)
    /\ WF_vars(SendLateReply)

-----------------------------------------------------------------------------
(***************************************************************************)
(* Properties.                                                             *)
(***************************************************************************)

TypeOK ==
    /\ log \in Seq([ts : Nat, command : BOOLEAN])
    /\ seen \in Nat /\ cursor \in Nat
    /\ loop \in [pc : {"idle", "polled", "command"}, batch : SUBSET Ids]
    /\ due \in BOOLEAN
    /\ timers \in 0 .. MaxTimers
    /\ retries \in 0 .. MaxRetries
    /\ run \in [pc : {"none", "command", "agent"}, batch : SUBSET Ids,
                prev : Nat, sent : BOOLEAN, output : BOOLEAN,
                accepts : BOOLEAN]
    /\ agent \in [pc : Live \cup {"none", "exited", "failed"},
                  turn : SUBSET Ids, backlog : SUBSET Ids]
    /\ inbox \subseteq Ids
    /\ closeFile \in BOOLEAN
    /\ replies \in Seq(SUBSET Ids)
    /\ broken \in BOOLEAN
    /\ late \subseteq Ids
    /\ cached \subseteq Ids
    /\ restarts \in 0 .. MaxRestarts
    /\ answered \in [Ids -> Nat] /\ executed \in [Ids -> Nat]
    /\ abandoned \subseteq Ids /\ unnoticed \subseteq Ids
    /\ repeated \subseteq Ids

\* A prompt behind the cursor has its reply, or is on its way: in the inbox,
\* with the run, or in an output chain.  The exceptions are the prompts the
\* code gives up, which `abandoned' names at the step where it does.
Accounted ==
    Unanswered(Stored) \subseteq After(cursor) \cup OnTheWay \cup abandoned

\* A prompt that is pending, or lies in the inbox, has a step ahead that will
\* look at it: the loop, a command being executed, a requested check, a retry
\* timer, or a run that has yet to end (one whose chain broke never will: that
\* is the run `exit' of GroupAgents).
Scheduled ==
    \A m \in Unanswered(Pending \cup inbox) \ unnoticed :
        \/ log[m].ts > seen
        \/ loop.pc # "idle" /\ m \in loop.batch
        \/ run.pc = "command" /\ m \in run.batch
        \/ due
        \/ timers > 0
        \/ m \in inbox /\ run.pc # "none"

\* Only a prompt that was handed on again can get a second reply.
RepliedTwice ==
    \A m \in Stored : answered[m] > 1 => m \in repeated

\* Every prompt is answered in the end, unless the code gave it up or left it
\* with nothing scheduled for it.
Handled ==
    \A m \in Ids :
        m \in Unanswered(Stored) ~>
            m \notin Unanswered(Stored) \/ m \in abandoned \cup unnoticed

\* The plan of the control plane: a command's message id is recorded before
\* it acts, so that a retry cannot duplicate the action.
CommandOnce ==
    \A m \in Stored : executed[m] <= 1

(***************************************************************************)
(* This module's part of the queue, as the checks of a single group.       *)
(***************************************************************************)
Chat == {"chat"}

Checks == INSTANCE MessageChecks WITH
              Groups   <- Chat,
              asked    <- [g \in Chat |-> due],
              checking <- [g \in Chat |-> run.pc # "none"],
              failures <- [g \in Chat |-> retries],
              delayed  <- [g \in Chat |-> timers],
              closed   <- FALSE

\* Message checks are asked for, begun, retried and dropped here by the rules
\* that GroupQueue keeps to, until a restart forgets them all.
ChecksFollowed == Checks!HostSpec
=============================================================================
