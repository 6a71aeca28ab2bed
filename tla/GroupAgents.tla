----------------------------- MODULE GroupAgents -----------------------------
(***************************************************************************)
(* GroupQueue together with what its runs are made of: the agent process   *)
(* in each container (container/agent-runner) and runContainerAgent        *)
(* (src/src/container-runner.ts), which parses the agent's output, chains  *)
(* the output callbacks and ends the run.                                  *)
(*                                                                         *)
(* The agent learns what the host wants only from its input directory, and *)
(* the host learns what the agent does only from its output and its exit;  *)
(* either may act before it hears of the other.                            *)
(***************************************************************************)
EXTENDS GroupQueue

CONSTANTS
    CallbacksMayFail,  \* whether an output callback can reject (a failed send)
    MaxOutputs         \* bound of the model: unhandled outputs per group

ASSUME AgentsAssumption ==
    /\ CallbacksMayFail \in BOOLEAN
    /\ MaxOutputs \in Nat \ {0}

VARIABLES
    agent,        \* [Groups -> AgentPhase]
    outputs,      \* [Groups -> Nat]: success outputs in the run's outputChain
    chainBroken,  \* [Groups -> BOOLEAN]: outputChain rejected
    lateOutputs   \* [Groups -> Nat]: outputs of ended runs, still unhandled

agentVars == <<agent, outputs, chainBroken, lateOutputs>>
allVars == <<vars, agentVars>>

(***************************************************************************)
(* "booting": spawned, before it unlinks a stale sentinel; "busy": in a    *)
(* turn; "backlog": in a turn with a piped follow-up behind it; "waiting": *)
(* between turns; "oneshot": a provider that does not poll its input;      *)
(* "closing": the sentinel was read or the last turn is over; "exited":    *)
(* the process ended with code 0, or on the hard timeout after some        *)
(* output; "failed": any other end.                                        *)
(***************************************************************************)
Polling == {"busy", "backlog", "waiting"}
Alive   == Polling \cup {"booting", "oneshot", "closing"}

AgentPhase == Alive \cup {"none", "exited", "failed"}

AgentsInit ==
    /\ Init
    /\ agent = [g \in Groups |-> "none"]
    /\ outputs = [g \in Groups |-> 0]
    /\ chainBroken = [g \in Groups |-> FALSE]
    /\ lateOutputs = [g \in Groups |-> 0]

-----------------------------------------------------------------------------
(***************************************************************************)
(* The host: calls of the queue that leave the agents alone.               *)
(***************************************************************************)
HostCalls(g) ==
    /\ \/ RequestMessageCheck(g)
       \/ \E t \in Tasks : EnqueueTask(g, t)
       \/ \E text \in Texts : SendMessage(g, text)
       \/ RequestClose(g)
       \/ RetryTimerFires(g)
    /\ UNCHANGED agentVars

HostShutdown == Shutdown /\ UNCHANGED agentVars

\* spawn, and onProcess at once.
SpawnContainer(g, accepts) ==
    /\ agent[g] = "none"
    /\ RegisterProcess(g, accepts)
    /\ agent' = [agent EXCEPT ![g] = "booting"]
    /\ outputs' = [outputs EXCEPT ![g] = 0]
    /\ chainBroken' = [chainBroken EXCEPT ![g] = FALSE]
    /\ UNCHANGED lateOutputs

\* Faulty variant: an output is taken off the chain that is not there.
HandleOutputUnchecked(g) ==
    /\ NotifyIdle(g)
    /\ outputs' = [outputs EXCEPT ![g] = @ - 1]
    /\ UNCHANGED <<agent, chainBroken, lateOutputs>>

\* The head of outputChain: the callback of a success output calls
\* notifyIdle, after the reply is sent.  A send that rejects breaks the chain:
\* no later callback of the run is called.
HandleOutput(g) ==
    /\ outputs[g] > 0
    /\ \/ /\ NotifyIdle(g)
          /\ outputs' = [outputs EXCEPT ![g] = @ - 1]
          /\ UNCHANGED chainBroken
       \/ /\ CallbacksMayFail
          /\ outputs' = [outputs EXCEPT ![g] = 0]
          /\ chainBroken' = [chainBroken EXCEPT ![g] = TRUE]
          /\ UNCHANGED vars
    /\ UNCHANGED <<agent, lateOutputs>>

HandleLateOutput(g) ==
    /\ lateOutputs[g] > 0
    /\ lateOutputs' = [lateOutputs EXCEPT ![g] = @ - 1]
    /\ NotifyIdle(g)
    /\ UNCHANGED <<agent, outputs, chainBroken>>

\* Faulty variant: the hard timeout resolves the run, not the end of the
\* process.
FinishRunAtTimeout(g) ==
    /\ FinishMessages(g) \/ FinishTask(g)
    /\ UNCHANGED agentVars

(***************************************************************************)
(* The `close' handler resolves the run.  After a clean exit it waits for  *)
(* outputChain, in vain if a callback rejected; after a failure it does    *)
(* not wait, and the callbacks left over run later.  A run may also end    *)
(* before it spawned a container: there was nothing to do, or it threw.    *)
(***************************************************************************)
FinishRun(g) ==
    /\ FinishMessages(g) \/ FinishTask(g)
    /\ \/ /\ agent[g] = "none"
          /\ UNCHANGED <<agent, outputs, lateOutputs>>
       \/ /\ agent[g] = "exited"
          /\ ~chainBroken[g]
          /\ outputs[g] = 0
          /\ agent' = [agent EXCEPT ![g] = "none"]
          /\ UNCHANGED <<outputs, lateOutputs>>
       \/ /\ agent[g] = "failed"
          /\ lateOutputs[g] + outputs[g] <= MaxOutputs
          /\ agent' = [agent EXCEPT ![g] = "none"]
          /\ outputs' = [outputs EXCEPT ![g] = 0]
          /\ lateOutputs' = [lateOutputs EXCEPT ![g] = @ + outputs[g]]
    /\ UNCHANGED chainBroken

-----------------------------------------------------------------------------
(***************************************************************************)
(* The agent process.                                                      *)
(***************************************************************************)

\* Start-up: unlink a stale sentinel, drain the messages into the prompt.
AgentBoot(g) ==
    /\ agent[g] = "booting"
    /\ ReadInput(g, TRUE, TRUE)
    /\ \/ /\ groups[g].isTaskContainer \/ groups[g].acceptsFollowUpInput
          /\ agent' = [agent EXCEPT ![g] = "busy"]
       \/ /\ ~groups[g].acceptsFollowUpInput
          /\ agent' = [agent EXCEPT ![g] = "oneshot"]
    /\ UNCHANGED <<outputs, chainBroken, lateOutputs>>

\* pollIpcDuringQuery and waitForIpcMessage: the sentinel first, and alone.
AgentPoll(g) ==
    /\ agent[g] \in Polling
    /\ \/ /\ closeFile[g]
          /\ ReadInput(g, TRUE, FALSE)
          /\ agent' = [agent EXCEPT ![g] = "closing"]
       \/ /\ ~closeFile[g]
          /\ inbox[g] # {}
          /\ ReadInput(g, FALSE, TRUE)
          /\ agent' = [agent EXCEPT ![g] = IF @ = "waiting" THEN "busy"
                                                            ELSE "backlog"]
    /\ UNCHANGED <<outputs, chainBroken, lateOutputs>>

\* A turn ends and its result is written to stdout.  A closing agent may
\* still have one to write.
AgentTurnDone(g) ==
    /\ agent[g] \in {"busy", "backlog", "oneshot", "closing"}
    /\ outputs[g] < MaxOutputs
    /\ outputs' = [outputs EXCEPT ![g] = IF chainBroken[g] THEN 0 ELSE @ + 1]
    /\ agent' = [agent EXCEPT ![g] = CASE @ = "busy"    -> "waiting"
                                       [] @ = "backlog" -> "busy"
                                       [] OTHER         -> "closing"]
    /\ UNCHANGED <<vars, chainBroken, lateOutputs>>

\* The agent leaves when it is done closing.
AgentExit(g) ==
    /\ agent[g] = "closing"
    /\ agent' = [agent EXCEPT ![g] = "exited"]
    /\ UNCHANGED <<vars, outputs, chainBroken, lateOutputs>>

\* It crashes, or the hard timeout of runContainerAgent stops it.
AgentKilled(g) ==
    /\ agent[g] \in Alive
    /\ \E end \in {"exited", "failed"} : agent' = [agent EXCEPT ![g] = end]
    /\ UNCHANGED <<vars, outputs, chainBroken, lateOutputs>>

-----------------------------------------------------------------------------
AgentsNext ==
    \/ \E g \in Groups :
          \/ HostCalls(g)
          \/ \E accepts \in BOOLEAN : SpawnContainer(g, accepts)
          \/ HandleOutput(g)
          \/ HandleLateOutput(g)
          \/ FinishRun(g)
          \/ AgentBoot(g)
          \/ AgentPoll(g)
          \/ AgentTurnDone(g)
          \/ AgentExit(g)
          \/ AgentKilled(g)
    \/ HostShutdown

AgentsSpec == AgentsInit /\ [][AgentsNext]_allVars

(***************************************************************************)
(* Fairness.  A started run spawns its container or returns; a booted      *)
(* agent polls its input every IPC_POLL_MS, ends its turn and exits; the   *)
(* event loop runs what outputs and exits have made ready.  Nothing is     *)
(* assumed of users, of schedules, of timers or of the dashboard.          *)
(***************************************************************************)
RunStarts(g) ==
    /\ agent[g] = "none"
    /\ FinishRun(g) \/ \E accepts \in BOOLEAN : SpawnContainer(g, accepts)

TurnEnds(g) == agent[g] # "closing" /\ AgentTurnDone(g)

RunEnds(g) == agent[g] \in {"exited", "failed"} /\ FinishRun(g)

PromptSpec ==
    /\ AgentsSpec
    /\ \A g \in Groups :
          /\ WF_allVars(RunStarts(g))
          /\ WF_allVars(AgentBoot(g))
          /\ WF_allVars(AgentPoll(g))
          /\ WF_allVars(TurnEnds(g))
          /\ WF_allVars(AgentExit(g))
          /\ WF_allVars(HandleOutput(g) \/ HandleLateOutput(g))
          /\ WF_allVars(RunEnds(g))

\* The timers: a retry fires, and an agent that stays between turns is
\* stopped by the hard timeout at the latest.
TimersFire ==
    \A g \in Groups :
        /\ WF_allVars(RetryTimerFires(g) /\ UNCHANGED agentVars)
        /\ WF_allVars(agent[g] = "waiting" /\ AgentKilled(g))

-----------------------------------------------------------------------------
(***************************************************************************)
(* Properties.                                                             *)
(***************************************************************************)

AgentsTypeOK ==
    /\ TypeOK
    /\ agent \in [Groups -> AgentPhase]
    /\ outputs \in [Groups -> 0 .. MaxOutputs]
    /\ chainBroken \in [Groups -> BOOLEAN]
    /\ lateOutputs \in [Groups -> 0 .. MaxOutputs]

\* The queue's picture of the containers is right: a process exists exactly
\* while its group's run is registered, so a group never has two containers
\* and no container outlives its run unseen.
RegisteredIsAlive ==
    \A g \in Groups :
        (agent[g] # "none") <=> (groups[g].active /\ groups[g].registered)

\* There are never more live agents than MAX_CONCURRENT_CONTAINERS.  The queue
\* counts runs, not processes: it is right only because no run ends before its
\* process, not at the hard timeout, nor through a callback that comes late.
ContainersBounded ==
    Cardinality({g \in Groups : agent[g] \in Alive}) <= MaxConcurrent

\* A task queued behind its own group's run is started without waiting for
\* any idle or hard timeout: the agent in front of it is asked to leave.
TaskPreempts ==
    \A g \in Groups : \A t \in Tasks :
        groups[g].active /\ Queued(groups[g], t)
            ~> (groups[g].runningTaskId = t \/ shuttingDown)

NewWork ==
    \E g \in Groups :
        \/ RequestMessageCheck(g)
        \/ \E t \in Tasks : EnqueueTask(g, t)
        \/ \E text \in Texts : SendMessage(g, text)

\* When users and schedules pause, every group that has work gets its run.
WaitersRun ==
    TimersFire /\ <>[][~NewWork]_allVars =>
        \A g \in Groups :
            HasWork(groups[g]) ~> (groups[g].active \/ shuttingDown)

\* runContainerAgent's comment at the clean exit: the output chain settles
\* and the run is completed.
ExitCompletesRun ==
    \A g \in Groups : agent[g] = "exited" ~> agent[g] # "exited"
=============================================================================
