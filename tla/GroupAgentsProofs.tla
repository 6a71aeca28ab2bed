-------------------------- MODULE GroupAgentsProofs --------------------------
(***************************************************************************)
(* Proofs about GroupAgents.  Its steps are made of the queue's, so all    *)
(* that holds of the queue holds with any agents.  What the queue knows of *)
(* them is a flag per group: RunsInv says that the flag is set by a spawn  *)
(* and reset only by the end of the run.                                   *)
(***************************************************************************)
EXTENDS GroupAgents, GroupQueueWorkProofs

USE AgentsAssumption

RunsInv ==
    /\ agent \in [Groups -> AgentPhase]
    /\ \A g \in Groups : /\ agent[g] # "none" <=> groups[g].registered
                         /\ groups[g].registered => groups[g].active

\* No run of a group in G ends, and no process is registered or forgotten.
KeepsRuns(G) ==
    \A h \in G : /\ groups'[h].registered = groups[h].registered
                 /\ groups[h].active => groups'[h].active

-----------------------------------------------------------------------------
(* The queue under the agents. *)

LEMMA StepIsQueueStep == [AgentsNext]_allVars => [Next]_vars
<1> SUFFICES ASSUME AgentsNext PROVE [Next]_vars
  BY DEF allVars
<1>1. ASSUME NEW g \in Groups, HostCalls(g) PROVE Next
  BY <1>1 DEF HostCalls, Next
<1>2. ASSUME NEW g \in Groups, NEW accepts \in BOOLEAN,
             SpawnContainer(g, accepts)
      PROVE  Next
  BY <1>2 DEF SpawnContainer, Next
<1>3. ASSUME NEW g \in Groups, HandleOutput(g) PROVE [Next]_vars
  BY <1>3 DEF HandleOutput, Next
<1>4. ASSUME NEW g \in Groups, HandleLateOutput(g) PROVE Next
  BY <1>4 DEF HandleLateOutput, Next
<1>5. ASSUME NEW g \in Groups, FinishRun(g) PROVE Next
  BY <1>5 DEF FinishRun, Next
<1>6. ASSUME NEW g \in Groups, AgentBoot(g) PROVE Next
  BY <1>6 DEF AgentBoot, Next
<1>7. ASSUME NEW g \in Groups, AgentPoll(g) PROVE Next
  BY <1>7 DEF AgentPoll, Next
<1>8. ASSUME NEW g \in Groups,
             AgentTurnDone(g) \/ AgentExit(g) \/ AgentKilled(g)
      PROVE  UNCHANGED vars
  BY <1>8 DEF AgentTurnDone, AgentExit, AgentKilled
<1>9. CASE HostShutdown
  BY <1>9 DEF HostShutdown, Next
<1> QED BY <1>1, <1>2, <1>3, <1>4, <1>5, <1>6, <1>7, <1>8, <1>9
        DEF AgentsNext

\* What a step of the agents does to the queue's variables is one of the
\* queue's own steps: the module is built that way.  It makes the queue's
\* theorems available here.
LEMMA AgentsImplementQueue == AgentsSpec => Spec
<1>1. AgentsInit => Init
  BY DEF AgentsInit
<1> QED BY <1>1, StepIsQueueStep, PTL DEF AgentsSpec, Spec

\* Hence the agents' whole life, its late output and its failures included,
\* stays behind what the queue promises: slots change hands in order, message
\* checks begin once and are not lost, tasks run once, and a shutdown is final.
THEOREM AgentsKeepPromises ==
    AgentsSpec => /\ PoolImplemented
                  /\ ChecksImplemented
                  /\ []NoLostMessages
                  /\ []TaskOnce
                  /\ ShutdownStartsNothing
BY AgentsImplementQueue, QueueImplementsPool, QueueImplementsChecks,
   MessagesNotLost, TasksExistOnce, ShutdownIsFinal, PTL

-----------------------------------------------------------------------------
(* Which steps of the queue touch its picture of the processes. *)

LEMMA RunBegins ==
    ASSUME NEW s \in GroupState
    PROVE  /\ BeginMessages(s).active
           /\ BeginMessages(s).registered = s.registered
           /\ BeginNext(s).active
           /\ BeginNext(s).registered = s.registered
           /\ \A t : /\ BeginTask(s, t).active
                     /\ BeginTask(s, t).registered = s.registered
<1>1. /\ BeginMessages(s).active
      /\ BeginMessages(s).registered = s.registered
  BY DEF BeginMessages, GroupState
<1>2. ASSUME NEW t
      PROVE  /\ BeginTask(s, t).active
             /\ BeginTask(s, t).registered = s.registered
  BY DEF BeginTask, GroupState
<1>3. /\ BeginNext(s).active
      /\ BeginNext(s).registered = s.registered
  BY <1>1 DEF BeginNext, BeginTask, GroupState
<1> QED BY <1>1, <1>2, <1>3

\* A message check or a task asked for changes no run that lasts.
LEMMA AskingKeepsRuns ==
    ASSUME QueueTypeOK, NEW g \in Groups,
           EnqueueMessageCheck(g) \/ \E t \in Tasks : EnqueueTask(g, t)
    PROVE  KeepsRuns(Groups)
<1>0. groups \in [Groups -> GroupState]
  BY DEF QueueTypeOK
<1>1. CASE EnqueueMessageCheck(g)
  <2>1. CASE groups' = [groups EXCEPT ![g].pendingMessages = TRUE]
    BY <1>0, <2>1 DEF KeepsRuns, GroupState
  <2>2. CASE groups' = [groups EXCEPT ![g] = BeginMessages(groups[g])]
    BY <1>0, <2>2, RunBegins DEF KeepsRuns
  <2> QED BY <1>1, <2>1, <2>2 DEF EnqueueMessageCheck
<1>2. ASSUME NEW t \in Tasks, EnqueueTask(g, t) PROVE KeepsRuns(Groups)
  <2>1. CASE groups' = [groups EXCEPT ![g].pendingTasks = Append(@, t)]
    BY <1>0, <2>1 DEF KeepsRuns, GroupState
  <2>2. CASE groups' = [groups EXCEPT ![g] = BeginTask(groups[g], t)]
    BY <1>0, <2>2, RunBegins DEF KeepsRuns
  <2> QED BY <1>2, <2>1, <2>2 DEF EnqueueTask
<1> QED BY <1>1, <1>2

LEMMA HostKeepsRuns ==
    ASSUME QueueTypeOK, NEW g \in Groups, HostCalls(g)
    PROVE  KeepsRuns(Groups)
<1>0. groups \in [Groups -> GroupState]
  BY DEF QueueTypeOK
<1>1. CASE RequestMessageCheck(g)
  BY <1>1, AskingKeepsRuns DEF RequestMessageCheck
<1>2. CASE \E t \in Tasks : EnqueueTask(g, t)
  BY <1>2, AskingKeepsRuns
<1>3. ASSUME NEW text \in Texts, SendMessage(g, text)
      PROVE  KeepsRuns(Groups)
  BY <1>0, <1>3 DEF SendMessage, KeepsRuns, GroupState
<1>4. CASE RequestClose(g)
  BY <1>4 DEF RequestClose, queueVars, KeepsRuns
<1>5. CASE RetryTimerFires(g)
  BY <1>5, AskingKeepsRuns DEF RetryTimerFires, queueVars, KeepsRuns
<1> QED BY <1>1, <1>2, <1>3, <1>4, <1>5 DEF HostCalls

LEMMA IdleKeepsRuns ==
    ASSUME QueueTypeOK, NEW g \in Groups, NotifyIdle(g)
    PROVE  KeepsRuns(Groups)
BY DEF QueueTypeOK, NotifyIdle, KeepsRuns, GroupState

\* The end of a run forgets the process of its group, and of no other.
LEMMA FinishForgetsProcess ==
    ASSUME QueueInv, NEW g \in Groups, FinishMessages(g) \/ FinishTask(g)
    PROVE  /\ ~groups'[g].registered
           /\ KeepsRuns(Groups \ {g})
<1>0. QueueTypeOK /\ groups \in [Groups -> GroupState]
  BY DEF QueueInv, QueueTypeOK
<1>1. PICK s \in GroupState : /\ ~s.active
                              /\ ~s.registered
                              /\ Release(g, s)
                              /\ groups[g].active
                              /\ shuttingDown' = shuttingDown
  BY <1>0, FinishMessagesReleases, FinishTaskReleases
<1>2. /\ groups'[g] = s \/ groups'[g] = BeginNext(s)
      /\ \A h \in Groups \ {g} : \/ groups'[h] = groups[h]
                                 \/ groups'[h] = BeginNext(groups[h])
  BY <1>1, ReleaseEffect
<1>3. ~groups'[g].registered
  BY <1>1, <1>2, RunBegins
<1>4. KeepsRuns(Groups \ {g})
  BY <1>0, <1>2, RunBegins DEF KeepsRuns
<1> QED BY <1>3, <1>4

-----------------------------------------------------------------------------
LEMMA RunsInvStep == QueueInv /\ RunsInv /\ [AgentsNext]_allVars => RunsInv'
<1> SUFFICES ASSUME QueueInv, RunsInv, [AgentsNext]_allVars PROVE RunsInv'
  OBVIOUS
<1>0. QueueTypeOK /\ groups \in [Groups -> GroupState]
      /\ agent \in [Groups -> AgentPhase]
  BY DEF QueueInv, QueueTypeOK, RunsInv
\* A step that keeps the runs, and neither creates nor reaps a process.
<1>1. ASSUME KeepsRuns(Groups), agent' \in [Groups -> AgentPhase],
             \A h \in Groups : agent'[h] = "none" <=> agent[h] = "none"
      PROVE  RunsInv'
  BY <1>1 DEF RunsInv, KeepsRuns
\* A step of the agent of g, from one phase of its life to another.
<1>2. ASSUME UNCHANGED groups, NEW g \in Groups, agent[g] # "none",
             NEW phase \in AgentPhase \ {"none"},
             agent' = [agent EXCEPT ![g] = phase]
      PROVE  RunsInv'
  <2>1. KeepsRuns(Groups)
    BY <1>2 DEF KeepsRuns
  <2> QED BY <1>0, <1>1, <1>2, <2>1
<1>3. ASSUME NEW g \in Groups, HostCalls(g) PROVE RunsInv'
  BY <1>0, <1>1, <1>3, HostKeepsRuns DEF HostCalls, agentVars
<1>4. ASSUME NEW g \in Groups, NEW accepts \in BOOLEAN,
             SpawnContainer(g, accepts)
      PROVE  RunsInv'
  <2>1. /\ groups[g].active
        /\ groups' = [groups EXCEPT ![g].registered = TRUE,
                                    ![g].acceptsFollowUpInput = accepts]
        /\ agent' = [agent EXCEPT ![g] = "booting"]
    BY <1>4 DEF SpawnContainer, RegisterProcess
  <2>2. /\ groups'[g].registered /\ groups'[g].active
        /\ \A h \in Groups \ {g} : groups'[h] = groups[h]
    BY <1>0, <2>1 DEF GroupState
  <2>3. /\ agent' \in [Groups -> AgentPhase]
        /\ agent'[g] = "booting"
        /\ \A h \in Groups \ {g} : agent'[h] = agent[h]
    BY <1>0, <2>1 DEF AgentPhase, Alive
  <2> QED BY <2>2, <2>3 DEF RunsInv
<1>5. ASSUME NEW g \in Groups, HandleOutput(g) \/ HandleLateOutput(g)
      PROVE  RunsInv'
  <2>1. KeepsRuns(Groups)
    BY <1>0, <1>5, IdleKeepsRuns
       DEF HandleOutput, HandleLateOutput, vars, queueVars, KeepsRuns
  <2>2. agent' = agent
    BY <1>5 DEF HandleOutput, HandleLateOutput
  <2> QED BY <1>0, <1>1, <2>1, <2>2
<1>6. ASSUME NEW g \in Groups, FinishRun(g) PROVE RunsInv'
  <2>1. ~groups'[g].registered /\ KeepsRuns(Groups \ {g})
    BY <1>6, FinishForgetsProcess DEF FinishRun
  <2>2. /\ agent' \in [Groups -> AgentPhase]
        /\ agent'[g] = "none"
        /\ \A h \in Groups \ {g} : agent'[h] = agent[h]
    BY <1>0, <1>6 DEF FinishRun, AgentPhase
  <2> QED BY <2>1, <2>2 DEF RunsInv, KeepsRuns
<1>7. ASSUME NEW g \in Groups, AgentBoot(g) PROVE RunsInv'
  BY <1>2, <1>7
     DEF AgentBoot, ReadInput, queueVars, AgentPhase, Alive, Polling
<1>8. ASSUME NEW g \in Groups, AgentPoll(g) PROVE RunsInv'
  <2>1. UNCHANGED groups /\ agent[g] \in Polling
    BY <1>8 DEF AgentPoll, ReadInput, queueVars
  <2>2. PICK phase \in {"closing", "busy", "backlog"} :
           agent' = [agent EXCEPT ![g] = phase]
    BY <1>8 DEF AgentPoll
  <2> QED BY <1>2, <2>1, <2>2 DEF AgentPhase, Alive, Polling
<1>9. ASSUME NEW g \in Groups, AgentTurnDone(g) PROVE RunsInv'
  <2>1. UNCHANGED groups /\ agent[g] # "none"
    BY <1>9 DEF AgentTurnDone, vars, queueVars
  <2>2. PICK phase \in {"waiting", "busy", "closing"} :
           agent' = [agent EXCEPT ![g] = phase]
    BY <1>9 DEF AgentTurnDone
  <2> QED BY <1>2, <2>1, <2>2 DEF AgentPhase, Alive, Polling
<1>10. ASSUME NEW g \in Groups, AgentExit(g) \/ AgentKilled(g) PROVE RunsInv'
  <2>1. UNCHANGED groups /\ agent[g] # "none"
    BY <1>10 DEF AgentExit, AgentKilled, vars, queueVars, Alive, Polling
  <2>2. PICK phase \in {"exited", "failed"} :
           agent' = [agent EXCEPT ![g] = phase]
    BY <1>10 DEF AgentExit, AgentKilled
  <2> QED BY <1>2, <2>1, <2>2 DEF AgentPhase
<1>11. CASE HostShutdown \/ UNCHANGED allVars
  <2>1. UNCHANGED <<groups, agent>>
    BY <1>11 DEF HostShutdown, Shutdown, allVars, vars, agentVars, queueVars
  <2> QED BY <2>1 DEF RunsInv
<1> QED BY <1>3, <1>4, <1>5, <1>6, <1>7, <1>8, <1>9, <1>10, <1>11
        DEF AgentsNext

LEMMA RunsInvInit == AgentsInit => RunsInv
BY DEF AgentsInit, Init, FreshGroup, RunsInv, AgentPhase

\* A container exists exactly while the queue has a run registered for its
\* group: never two for one group, and none that the queue forgot.
THEOREM QueueKnowsItsContainers == AgentsSpec => []RegisteredIsAlive
<1>1. RunsInv => RegisteredIsAlive
  BY DEF RunsInv, RegisteredIsAlive
<1> QED BY <1>1, RunsInvInit, RunsInvStep, QueueInvariant,
           AgentsImplementQueue, PTL DEF AgentsSpec

\* Hence the limit on runs limits the processes: one that lives belongs to a
\* run that has not ended, and there are never more of those than slots.
THEOREM AgentsWithinLimit == AgentsSpec => []ContainersBounded
<1>1. RunsInv /\ SlotsExact => ContainersBounded
  <2> SUFFICES ASSUME RunsInv, SlotsExact PROVE ContainersBounded
    OBVIOUS
  <2> DEFINE living == {g \in Groups : agent[g] \in Alive}
  <2>1. living \subseteq ActiveGroups
    BY DEF RunsInv, ActiveGroups, Alive, Polling
  <2>2. IsFiniteSet(ActiveGroups)
    BY FS_Subset, QueueAssumption DEF ActiveGroups
  <2>3. /\ Cardinality(ActiveGroups) <= MaxConcurrent
        /\ Cardinality(ActiveGroups) \in Nat
    BY <2>2, FS_CardinalityType DEF SlotsExact
  <2>4. /\ Cardinality(living) \in Nat
        /\ Cardinality(living) <= Cardinality(ActiveGroups)
    BY <2>1, <2>2, FS_Subset, FS_CardinalityType
  <2> QED BY <2>3, <2>4, QueueAssumption DEF ContainersBounded
<1>2. QueueInv => SlotsExact
  BY DEF QueueInv
<1> QED BY <1>1, <1>2, RunsInvInit, RunsInvStep, QueueInvariant,
           AgentsImplementQueue, PTL DEF AgentsSpec
-----------------------------------------------------------------------------
OutputsOK ==
    /\ outputs \in [Groups -> 0 .. MaxOutputs]
    /\ chainBroken \in [Groups -> BOOLEAN]
    /\ lateOutputs \in [Groups -> 0 .. MaxOutputs]

LEMMA OutputsOKStep == OutputsOK /\ [AgentsNext]_allVars => OutputsOK'
<1> SUFFICES ASSUME OutputsOK, [AgentsNext]_allVars PROVE OutputsOK'
  OBVIOUS
<1> USE DEF OutputsOK
\* A step that leaves the outputs alone.
<1>1. ASSUME UNCHANGED <<outputs, chainBroken, lateOutputs>> PROVE OutputsOK'
  BY <1>1
<1>2. ASSUME NEW g \in Groups, NEW accepts \in BOOLEAN,
             SpawnContainer(g, accepts)
      PROVE  OutputsOK'
  BY <1>2 DEF SpawnContainer
<1>3. ASSUME NEW g \in Groups, HandleOutput(g) PROVE OutputsOK'
  <2>1. outputs[g] - 1 \in 0 .. MaxOutputs
    BY <1>3 DEF HandleOutput
  <2>2. \/ outputs' = [outputs EXCEPT ![g] = @ - 1] /\ UNCHANGED chainBroken
        \/ /\ outputs' = [outputs EXCEPT ![g] = 0]
           /\ chainBroken' = [chainBroken EXCEPT ![g] = TRUE]
    BY <1>3 DEF HandleOutput
  <2>3. outputs' \in [Groups -> 0 .. MaxOutputs]
    BY <2>1, <2>2
  <2>4. chainBroken' \in [Groups -> BOOLEAN]
    BY <2>2
  <2>5. UNCHANGED lateOutputs
    BY <1>3 DEF HandleOutput
  <2> QED BY <2>3, <2>4, <2>5
<1>4. ASSUME NEW g \in Groups, HandleLateOutput(g) PROVE OutputsOK'
  <2>1. lateOutputs[g] - 1 \in 0 .. MaxOutputs
    BY <1>4 DEF HandleLateOutput
  <2> QED BY <1>4, <2>1 DEF HandleLateOutput
<1>5. ASSUME NEW g \in Groups, FinishRun(g) PROVE OutputsOK'
  <2>1. CASE lateOutputs[g] + outputs[g] <= MaxOutputs
             /\ outputs' = [outputs EXCEPT ![g] = 0]
             /\ lateOutputs' = [lateOutputs EXCEPT ![g] = @ + outputs[g]]
    <3>1. lateOutputs[g] + outputs[g] \in 0 .. MaxOutputs
      BY <2>1
    <3> QED BY <1>5, <2>1, <3>1 DEF FinishRun
  <2>2. CASE UNCHANGED <<outputs, lateOutputs>>
    BY <1>5, <2>2 DEF FinishRun
  <2> QED BY <1>5, <2>1, <2>2 DEF FinishRun
<1>6. ASSUME NEW g \in Groups, AgentTurnDone(g) PROVE OutputsOK'
  <2>1. 0 \in 0 .. MaxOutputs /\ outputs[g] + 1 \in 0 .. MaxOutputs
    BY <1>6 DEF AgentTurnDone
  <2>2. \/ outputs' = [outputs EXCEPT ![g] = 0]
        \/ outputs' = [outputs EXCEPT ![g] = @ + 1]
    BY <1>6 DEF AgentTurnDone
  <2> QED BY <1>6, <2>1, <2>2 DEF AgentTurnDone
<1> QED BY <1>1, <1>2, <1>3, <1>4, <1>5, <1>6
        DEF AgentsNext, HostCalls, HostShutdown, AgentBoot, AgentPoll,
            AgentExit, AgentKilled, allVars, agentVars

\* Every variable of the queue and its agents has its type, and neither
\* count of outputs goes below zero.
THEOREM AgentsTypeCorrect == AgentsSpec => []AgentsTypeOK
<1>1. AgentsInit => OutputsOK
  BY DEF AgentsInit, OutputsOK
<1>2. TypeOK /\ RunsInv /\ OutputsOK => AgentsTypeOK
  BY DEF RunsInv, OutputsOK, AgentsTypeOK
<1> QED BY <1>1, <1>2, OutputsOKStep, RunsInvInit, RunsInvStep, TypeCorrect,
           QueueInvariant, AgentsImplementQueue, PTL DEF AgentsSpec
=============================================================================
