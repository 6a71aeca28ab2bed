------------------------ MODULE GroupQueueWorkProofs ------------------------
(***************************************************************************)
(* What becomes of the work the queue accepts: tasks exist once, message   *)
(* requests are not lost, groups start in order, and shutdown starts       *)
(* nothing.  All of it rests on QueueInv of GroupQueueProofs, and so does  *)
(* the refinement of MessageChecks, which says the same of messages in one *)
(* page: what is asked for begins once.                                    *)
(***************************************************************************)
EXTENDS GroupQueueProofs

USE QueueAssumption

-----------------------------------------------------------------------------
(* TaskOnce: the updates of one group's state.                             *)

LEMMA BeginMessagesOnce ==
    ASSUME NEW s \in GroupState, ~s.active, TasksOnce(s)
    PROVE  TasksOnce(BeginMessages(s))
BY DEF GroupState, TasksOnce, BeginMessages

LEMMA BeginTaskOnce ==
    ASSUME NEW s \in GroupState, NEW t \in Tasks, TasksOnce(s), ~Queued(s, t)
    PROVE  TasksOnce(BeginTask(s, t))
BY DEF GroupState, TasksOnce, Queued, BeginTask

LEMMA BeginNextOnce ==
    ASSUME NEW s \in GroupState, ~s.active, HasWork(s), TasksOnce(s)
    PROVE  TasksOnce(BeginNext(s))
<1>1. CASE s.pendingTasks = <<>>
  BY <1>1, BeginMessagesOnce DEF BeginNext
<1>2. CASE s.pendingTasks # <<>>
  <2> DEFINE q == s.pendingTasks
             t == Head(q)
             b == BeginNext(s)
  <2>1. q \in Seq(Tasks) /\ Len(q) \in Nat \ {0}
    BY <1>2 DEF GroupState
  <2>2. t \in Tasks /\ t = q[1] /\ t # NoTask
    BY <1>2, <2>1
  <2>3. /\ Tail(q) \in Seq(Tasks)
        /\ Len(Tail(q)) = Len(q) - 1
        /\ \A i \in 1 .. Len(q) - 1 : Tail(q)[i] = q[i + 1]
    BY <1>2, <2>1
  <2>4. /\ b.active /\ b.isTaskContainer /\ b.runningTaskId = t
        /\ b.pendingTasks = Tail(q)
    BY <1>2 DEF BeginNext, BeginTask, GroupState
  <2>5. \A i, j \in 1 .. Len(q) : q[i] = q[j] => i = j
    BY <2>1 DEF TasksOnce
  <2> HIDE DEF b, q
  <2>6. \A i, j \in 1 .. Len(q) - 1 : Tail(q)[i] = Tail(q)[j] => i = j
    <3> SUFFICES ASSUME NEW i \in 1 .. Len(q) - 1, NEW j \in 1 .. Len(q) - 1,
                        Tail(q)[i] = Tail(q)[j]
                 PROVE  i = j
      OBVIOUS
    <3>1. q[i + 1] = q[j + 1]
      BY <2>3
    <3>2. i + 1 \in 1 .. Len(q) /\ j + 1 \in 1 .. Len(q)
      BY <2>1
    <3> QED BY <2>5, <3>1, <3>2
  <2>7. \A i \in 1 .. Len(q) - 1 : Tail(q)[i] # t
    <3> SUFFICES ASSUME NEW i \in 1 .. Len(q) - 1, Tail(q)[i] = t
                 PROVE  FALSE
      OBVIOUS
    <3>1. i + 1 \in 1 .. Len(q) /\ 1 \in 1 .. Len(q) /\ i + 1 # 1
      BY <2>1
    <3> QED BY <2>2, <2>3, <2>5, <3>1
  <2>8. DOMAIN b.pendingTasks = 1 .. Len(q) - 1
    BY <2>1, <2>3, <2>4
  <2>9. TasksOnce(b)
    BY <2>2, <2>4, <2>6, <2>7, <2>8 DEF TasksOnce
  <2> QED BY <2>9 DEF b
<1> QED BY <1>1, <1>2

\* A task that is not known is added without becoming a second one.
LEMMA AppendOnce ==
    ASSUME NEW s \in GroupState, NEW t \in Tasks, TasksOnce(s), ~Known(s, t)
    PROVE  TasksOnce([s EXCEPT !.pendingTasks = Append(@, t)])
<1> DEFINE q == s.pendingTasks
           a == [s EXCEPT !.pendingTasks = Append(@, t)]
<1>1. q \in Seq(Tasks) /\ Len(q) \in Nat
  BY DEF GroupState
<1>2. /\ a.pendingTasks = Append(q, t)
      /\ a.runningTaskId = s.runningTaskId
      /\ a.active = s.active /\ a.isTaskContainer = s.isTaskContainer
  BY DEF GroupState
<1>3. /\ DOMAIN Append(q, t) = 1 .. Len(q) + 1
      /\ Append(q, t)[Len(q) + 1] = t
      /\ \A i \in 1 .. Len(q) : Append(q, t)[i] = q[i]
      /\ DOMAIN q = 1 .. Len(q)
  BY <1>1
<1>4. t # s.runningTaskId /\ \A i \in 1 .. Len(q) : q[i] # t
  BY <1>3 DEF Known, Queued
<1>5. /\ \A i, j \in 1 .. Len(q) : q[i] = q[j] => i = j
      /\ \A i \in 1 .. Len(q) : q[i] # s.runningTaskId
      /\ s.runningTaskId # NoTask <=> s.active /\ s.isTaskContainer
  BY <1>3 DEF TasksOnce
<1> HIDE DEF a, q
<1>6. \A i \in 1 .. Len(q) + 1 : i \in 1 .. Len(q) \/ i = Len(q) + 1
  BY <1>1
<1>7. TasksOnce(a)
  BY <1>2, <1>3, <1>4, <1>5, <1>6 DEF TasksOnce
<1> QED BY <1>7 DEF a

\* A group without a run whose queued tasks are those of s.
LEMMA IdleOnce ==
    ASSUME NEW s \in GroupState, TasksOnce(s),
           NEW e \in GroupState, ~e.active, e.runningTaskId = NoTask,
           e.pendingTasks = s.pendingTasks
    PROVE  TasksOnce(e)
<1>1. \A i \in DOMAIN e.pendingTasks : e.pendingTasks[i] \in Tasks
  BY DEF GroupState
<1> QED BY <1>1 DEF TasksOnce

\* Whatever else changes: the same run and the same queued tasks.
LEMMA SameTasks ==
    ASSUME NEW s, TasksOnce(s), NEW e, e.active = s.active,
           e.isTaskContainer = s.isTaskContainer,
           e.runningTaskId = s.runningTaskId, e.pendingTasks = s.pendingTasks
    PROVE  TasksOnce(e)
BY DEF TasksOnce

LEMMA EnqueueMessageCheckOnce ==
    ASSUME QueueTypeOK, TaskOnce, NEW g \in Groups, EnqueueMessageCheck(g)
    PROVE  TaskOnce'
<1>0. groups \in [Groups -> GroupState] /\ groups[g] \in GroupState
  BY DEF QueueTypeOK
<1>1. CASE groups' = [groups EXCEPT ![g].pendingMessages = TRUE]
  <2> DEFINE p == [groups[g] EXCEPT !.pendingMessages = TRUE]
  <2>1. /\ p.active = groups[g].active
        /\ p.isTaskContainer = groups[g].isTaskContainer
        /\ p.runningTaskId = groups[g].runningTaskId
        /\ p.pendingTasks = groups[g].pendingTasks
    BY <1>0 DEF GroupState
  <2>2. groups' = [groups EXCEPT ![g] = p]
    BY <1>1
  <2> HIDE DEF p
  <2>3. TasksOnce(p)
    BY <2>1, SameTasks DEF TaskOnce
  <2> QED BY <1>0, <2>2, <2>3 DEF TaskOnce
<1>2. CASE /\ ~groups[g].active
           /\ groups' = [groups EXCEPT ![g] = BeginMessages(groups[g])]
  <2>1. TasksOnce(BeginMessages(groups[g]))
    BY <1>0, <1>2, BeginMessagesOnce DEF TaskOnce
  <2> QED BY <1>0, <1>2, <2>1 DEF TaskOnce
<1> QED BY <1>1, <1>2 DEF EnqueueMessageCheck

LEMMA ReleaseOnce ==
    ASSUME QueueInv, TaskOnce, NEW g \in Groups, groups[g].active,
           NEW s \in GroupState, ~s.active, s.runningTaskId = NoTask,
           s.pendingTasks = groups[g].pendingTasks,
           Release(g, s), shuttingDown' = shuttingDown
    PROVE  TaskOnce'
<1>0. groups \in [Groups -> GroupState]
  BY DEF QueueInv, QueueTypeOK
<1>1. TasksOnce(s)
  BY <1>0, IdleOnce DEF TaskOnce
<1>2. TasksOnce(groups'[g])
  BY <1>1, ReleaseEffect, BeginNextOnce
<1>3. ASSUME NEW h \in Groups \ {g} PROVE TasksOnce(groups'[h])
  <2>1. \/ groups'[h] = groups[h]
        \/ /\ groups'[h] = BeginNext(groups[h])
           /\ HasWork(groups[h]) /\ ~groups[h].active
    BY ReleaseEffect
  <2> QED BY <1>0, <2>1, BeginNextOnce DEF TaskOnce
<1> QED BY <1>2, <1>3 DEF TaskOnce

LEMMA EnqueueTaskOnce ==
    ASSUME QueueTypeOK, TaskOnce, NEW g \in Groups, NEW t \in Tasks,
           EnqueueTask(g, t)
    PROVE  TaskOnce'
<1>0. groups \in [Groups -> GroupState] /\ groups[g] \in GroupState
  BY DEF QueueTypeOK
<1>1. ~Known(groups[g], t) /\ ~Queued(groups[g], t)
  BY DEF EnqueueTask, Known
<1>2. CASE groups' = [groups EXCEPT ![g].pendingTasks = Append(@, t)]
  <2> DEFINE p == [groups[g] EXCEPT !.pendingTasks = Append(@, t)]
  <2>1. TasksOnce(p)
    BY <1>0, <1>1, AppendOnce DEF TaskOnce
  <2>2. groups' = [groups EXCEPT ![g] = p]
    BY <1>2
  <2> HIDE DEF p
  <2> QED BY <1>0, <2>1, <2>2 DEF TaskOnce
<1>3. CASE groups' = [groups EXCEPT ![g] = BeginTask(groups[g], t)]
  <2>1. TasksOnce(BeginTask(groups[g], t))
    BY <1>0, <1>1, BeginTaskOnce DEF TaskOnce
  <2> QED BY <1>0, <1>3, <2>1 DEF TaskOnce
<1> QED BY <1>2, <1>3 DEF EnqueueTask

LEMMA TaskOnceStep == QueueInv /\ TaskOnce /\ [Next]_vars => TaskOnce'
<1> SUFFICES ASSUME QueueInv, TaskOnce, [Next]_vars PROVE TaskOnce'
  OBVIOUS
<1>0. QueueTypeOK /\ groups \in [Groups -> GroupState]
  BY DEF QueueInv, QueueTypeOK
<1>1. ASSUME NEW g \in Groups, RequestMessageCheck(g) PROVE TaskOnce'
  BY <1>0, <1>1, EnqueueMessageCheckOnce DEF RequestMessageCheck
<1>2. ASSUME NEW g \in Groups, NEW t \in Tasks, EnqueueTask(g, t)
      PROVE  TaskOnce'
  BY <1>0, <1>2, EnqueueTaskOnce
<1>3. ASSUME NEW g \in Groups, NEW s \in GroupState,
             groups' = [groups EXCEPT ![g] = s],
             s.active = groups[g].active,
             s.isTaskContainer = groups[g].isTaskContainer,
             s.runningTaskId = groups[g].runningTaskId,
             s.pendingTasks = groups[g].pendingTasks
      PROVE  TaskOnce'
  <2>1. TasksOnce(s)
    BY <1>3, SameTasks DEF TaskOnce
  <2> QED BY <1>0, <1>3, <2>1 DEF TaskOnce
<1>4. ASSUME NEW g \in Groups, NEW accepts \in BOOLEAN,
             RegisterProcess(g, accepts)
      PROVE  TaskOnce'
  <2> DEFINE s == [groups[g] EXCEPT !.registered = TRUE,
                                    !.acceptsFollowUpInput = accepts]
  <2>1. /\ s \in GroupState
        /\ s.active = groups[g].active
        /\ s.isTaskContainer = groups[g].isTaskContainer
        /\ s.runningTaskId = groups[g].runningTaskId
        /\ s.pendingTasks = groups[g].pendingTasks
    BY <1>0 DEF GroupState
  <2>2. groups' = [groups EXCEPT ![g] = s]
    BY <1>4 DEF RegisterProcess
  <2> HIDE DEF s
  <2> QED BY <1>3, <2>1, <2>2
<1>5. ASSUME NEW g \in Groups, NEW idle \in BOOLEAN,
             groups' = [groups EXCEPT ![g].idleWaiting = idle]
      PROVE  TaskOnce'
  <2> DEFINE s == [groups[g] EXCEPT !.idleWaiting = idle]
  <2>1. /\ s \in GroupState
        /\ s.active = groups[g].active
        /\ s.isTaskContainer = groups[g].isTaskContainer
        /\ s.runningTaskId = groups[g].runningTaskId
        /\ s.pendingTasks = groups[g].pendingTasks
    BY <1>0 DEF GroupState
  <2>2. groups' = [groups EXCEPT ![g] = s]
    BY <1>5
  <2> HIDE DEF s
  <2> QED BY <1>3, <2>1, <2>2
<1>6. ASSUME NEW g \in Groups, NotifyIdle(g) PROVE TaskOnce'
  BY <1>5, <1>6 DEF NotifyIdle
<1>7. ASSUME NEW g \in Groups, NEW text \in Texts, SendMessage(g, text)
      PROVE  TaskOnce'
  BY <1>5, <1>7 DEF SendMessage
<1>8. ASSUME NEW g \in Groups, FinishMessages(g) PROVE TaskOnce'
  BY <1>0, <1>8, FinishMessagesReleases, ReleaseOnce
<1>9. ASSUME NEW g \in Groups, FinishTask(g) PROVE TaskOnce'
  BY <1>0, <1>9, FinishTaskReleases, ReleaseOnce
<1>10. ASSUME UNCHANGED groups PROVE TaskOnce'
  BY <1>10 DEF TaskOnce
<1>11. ASSUME NEW g \in Groups, RetryTimerFires(g) PROVE TaskOnce'
  BY <1>0, <1>10, <1>11, EnqueueMessageCheckOnce DEF RetryTimerFires, queueVars
<1>12. ASSUME NEW g \in Groups,
              RequestClose(g) \/ \E sentinel, messages \in BOOLEAN :
                                    ReadInput(g, sentinel, messages)
       PROVE  TaskOnce'
  BY <1>10, <1>12 DEF RequestClose, ReadInput, queueVars
<1>13. CASE Shutdown \/ UNCHANGED vars
  BY <1>10, <1>13 DEF Shutdown, queueVars, vars
<1> QED BY <1>1, <1>2, <1>4, <1>6, <1>7, <1>8, <1>9, <1>11, <1>12, <1>13
        DEF Next

\* A scheduled task never runs next to itself, nor waits behind itself: the
\* two checks of enqueueTask and the resets of runTask suffice, for any number
\* of tasks.
THEOREM TasksExistOnce == Spec => []TaskOnce
<1>1. Init => TaskOnce
  <2> SUFFICES ASSUME Init, NEW g \in Groups PROVE TasksOnce(groups[g])
    BY DEF TaskOnce
  <2>1. groups[g] = FreshGroup
    BY DEF Init
  <2> QED BY <2>1 DEF TasksOnce, FreshGroup
<1> QED BY <1>1, TaskOnceStep, QueueInvariant, PTL DEF Spec

-----------------------------------------------------------------------------
(* NoLostMessages: what will run an accepted message check of g.            *)

Held(g) ==
    \/ groups[g].pendingMessages
    \/ groups[g].active /\ ~groups[g].isTaskContainer
    \/ retryTimers[g] > 0

LEMMA BeginNextHolds ==
    ASSUME NEW s \in GroupState, s.pendingMessages
    PROVE  \/ BeginNext(s).pendingMessages
           \/ BeginNext(s).active /\ ~BeginNext(s).isTaskContainer
<1>1. CASE s.pendingTasks = <<>>
  BY <1>1 DEF BeginNext, BeginMessages, GroupState
<1>2. CASE s.pendingTasks # <<>>
  BY <1>2 DEF BeginNext, BeginTask, GroupState
<1> QED BY <1>1, <1>2

LEMMA EnqueueMessageCheckHolds ==
    ASSUME QueueTypeOK, NEW g \in Groups, EnqueueMessageCheck(g)
    PROVE  /\ \/ groups'[g].pendingMessages
              \/ groups'[g].active /\ ~groups'[g].isTaskContainer
           /\ \A h \in Groups \ {g} : groups'[h] = groups[h]
<1>0. groups \in [Groups -> GroupState] /\ groups[g] \in GroupState
  BY DEF QueueTypeOK
<1>1. CASE groups' = [groups EXCEPT ![g].pendingMessages = TRUE]
  BY <1>0, <1>1 DEF GroupState
<1>2. CASE groups' = [groups EXCEPT ![g] = BeginMessages(groups[g])]
  BY <1>0, <1>2 DEF BeginMessages, GroupState
<1> QED BY <1>1, <1>2 DEF EnqueueMessageCheck

\* A group that is not itself the one whose run ends keeps what it had.
LEMMA ReleaseHoldsOthers ==
    ASSUME QueueInv, NEW g \in Groups, groups[g].active,
           NEW s \in GroupState, ~s.active, Release(g, s),
           shuttingDown' = shuttingDown,
           NEW h \in Groups \ {g}, retryTimers'[h] = retryTimers[h], Held(h)
    PROVE  Held(h)'
<1>0. groups[h] \in GroupState
  BY DEF QueueInv, QueueTypeOK
<1>1. CASE groups'[h] = groups[h]
  BY <1>1 DEF Held
<1>2. CASE groups'[h] = BeginNext(groups[h]) /\ ~groups[h].active
  BY <1>0, <1>2, BeginNextHolds DEF Held
<1> QED BY <1>1, <1>2, ReleaseEffect

\* The group whose run ends keeps its message flag, or runs for it.
LEMMA ReleaseHoldsFlag ==
    ASSUME QueueInv, NEW g \in Groups, groups[g].active,
           NEW s \in GroupState, ~s.active, Release(g, s),
           shuttingDown' = shuttingDown, s.pendingMessages
    PROVE  Held(g)'
<1>1. CASE groups'[g] = s
  BY <1>1 DEF Held
<1>2. CASE groups'[g] = BeginNext(s)
  BY <1>2, BeginNextHolds DEF Held
<1> QED BY <1>1, <1>2, ReleaseEffect

LEMMA NoLostMessagesStep ==
    TypeOK /\ QueueInv /\ NoLostMessages /\ [Next]_vars => NoLostMessages'
<1> SUFFICES ASSUME TypeOK, QueueInv, NoLostMessages, [Next]_vars,
                    NEW h \in Groups, unserved'[h], ~shuttingDown'
             PROVE  Held(h)'
  BY DEF NoLostMessages, Held
<1>0. /\ groups \in [Groups -> GroupState] /\ groups[h] \in GroupState
      /\ unserved \in [Groups -> BOOLEAN]
      /\ retryTimers \in [Groups -> Nat]
      /\ QueueTypeOK
  BY DEF TypeOK, QueueTypeOK
<1>1. unserved[h] /\ ~shuttingDown => Held(h)
  BY DEF NoLostMessages, Held
<1>3. ASSUME NEW g \in Groups, EnqueueMessageCheck(g), ~shuttingDown,
             unserved' = [unserved EXCEPT ![g] = TRUE],
             g # h => retryTimers'[h] = retryTimers[h]
      PROVE  Held(h)'
  <2>1. CASE g = h
    BY <1>0, <1>3, <2>1, EnqueueMessageCheckHolds DEF Held
  <2>2. CASE g # h
    BY <1>0, <1>1, <1>3, <2>2, EnqueueMessageCheckHolds DEF Held
  <2> QED BY <2>1, <2>2
<1>4. ASSUME NEW g \in Groups, RequestMessageCheck(g) PROVE Held(h)'
  BY <1>3, <1>4 DEF RequestMessageCheck
<1>5. ASSUME NEW g \in Groups, NEW t \in Tasks, EnqueueTask(g, t)
      PROVE  Held(h)'
  <2>1. /\ groups'[h].pendingMessages = groups[h].pendingMessages
        /\ groups[h].active => /\ groups'[h].active
                               /\ groups'[h].isTaskContainer
                                    = groups[h].isTaskContainer
    <3>1. CASE groups' = [groups EXCEPT ![g].pendingTasks = Append(@, t)]
      BY <1>0, <3>1 DEF GroupState
    <3>2. CASE /\ ~groups[g].active
               /\ groups' = [groups EXCEPT ![g] = BeginTask(groups[g], t)]
      BY <1>0, <3>2 DEF BeginTask, GroupState
    <3> QED BY <1>5, <3>1, <3>2 DEF EnqueueTask
  <2>2. UNCHANGED <<retryTimers, unserved>> /\ ~shuttingDown
    BY <1>5 DEF EnqueueTask
  <2> QED BY <1>1, <2>1, <2>2 DEF Held
<1>6. ASSUME NEW g \in Groups,
             \/ \E accepts \in BOOLEAN : RegisterProcess(g, accepts)
             \/ NotifyIdle(g)
             \/ \E text \in Texts : SendMessage(g, text)
      PROVE  Held(h)'
  <2>1. /\ groups'[h].pendingMessages = groups[h].pendingMessages
        /\ groups'[h].active = groups[h].active
        /\ groups'[h].isTaskContainer = groups[h].isTaskContainer
    <3>1. CASE \E accepts \in BOOLEAN : RegisterProcess(g, accepts)
      BY <1>0, <3>1 DEF RegisterProcess, GroupState
    <3>2. CASE NotifyIdle(g)
      BY <1>0, <3>2 DEF NotifyIdle, GroupState
    <3>3. CASE \E text \in Texts : SendMessage(g, text)
      BY <1>0, <3>3 DEF SendMessage, GroupState
    <3> QED BY <1>6, <3>1, <3>2, <3>3
  <2>2. UNCHANGED <<retryTimers, unserved, shuttingDown>>
    BY <1>6 DEF RegisterProcess, NotifyIdle, SendMessage
  <2> QED BY <1>1, <2>1, <2>2 DEF Held
<1>7. ASSUME NEW g \in Groups, FinishMessages(g) PROVE Held(h)'
  <2>1. PICK s \in GroupState :
               /\ ~s.active /\ groups[g].active
               /\ Release(g, s)
               /\ s.pendingMessages = groups[g].pendingMessages
               /\ shuttingDown' = shuttingDown
    BY <1>0, <1>7, FinishMessagesReleases
  <2>2. \/ /\ unserved' = [unserved EXCEPT ![g] = groups[g].pendingMessages]
           /\ UNCHANGED retryTimers
        \/ /\ retryTimers' = [retryTimers EXCEPT ![g] = @ + 1]
           /\ UNCHANGED unserved
    BY <1>7 DEF FinishMessages
  <2>3. CASE g # h
    <3>1. retryTimers'[h] = retryTimers[h] /\ unserved'[h] = unserved[h]
      BY <1>0, <2>2, <2>3
    <3> QED BY <1>1, <2>1, <2>3, <3>1, ReleaseHoldsOthers
  <2>4. CASE g = h /\ retryTimers' = [retryTimers EXCEPT ![g] = @ + 1]
    BY <1>0, <2>4 DEF Held
  <2>5. CASE g = h /\ unserved' = [unserved EXCEPT
                                      ![g] = groups[g].pendingMessages]
    BY <1>0, <2>1, <2>5, ReleaseHoldsFlag
  <2> QED BY <2>2, <2>3, <2>4, <2>5
<1>8. ASSUME NEW g \in Groups, FinishTask(g) PROVE Held(h)'
  <2> DEFINE s == EndRun(groups[g])
  <2>1. /\ s \in GroupState
        /\ ~s.active /\ groups[g].active
        /\ Release(g, s)
        /\ s.pendingMessages = groups[g].pendingMessages
        /\ shuttingDown' = shuttingDown
    BY <1>0, <1>8, FinishTaskReleases
  <2>2. UNCHANGED <<retryTimers, unserved>> /\ groups[g].isTaskContainer
    BY <1>8 DEF FinishTask
  <2>3. Held(h)
    BY <1>1, <2>1, <2>2
  <2> HIDE DEF s
  <2>4. CASE g # h
    BY <2>1, <2>2, <2>3, <2>4, ReleaseHoldsOthers
  <2>5. CASE g = h /\ retryTimers[h] > 0
    BY <2>2, <2>5 DEF Held
  <2>6. CASE g = h /\ groups[g].pendingMessages
    BY <2>1, <2>6, ReleaseHoldsFlag
  <2> QED BY <2>2, <2>3, <2>4, <2>5, <2>6 DEF Held
<1>9. ASSUME NEW g \in Groups, RetryTimerFires(g) PROVE Held(h)'
  <2>1. ~shuttingDown /\ EnqueueMessageCheck(g)
        /\ unserved' = [unserved EXCEPT ![g] = TRUE]
    BY <1>9 DEF RetryTimerFires
  <2>2. g # h => retryTimers'[h] = retryTimers[h]
    BY <1>0, <1>9 DEF RetryTimerFires
  <2> QED BY <1>3, <2>1, <2>2
<1>10. CASE UNCHANGED <<groups, retryTimers, unserved>> /\ ~shuttingDown
  BY <1>1, <1>10 DEF Held
<1>11. ASSUME NEW g \in Groups,
              RequestClose(g) \/ \E sentinel, messages \in BOOLEAN :
                                    ReadInput(g, sentinel, messages)
       PROVE  Held(h)'
  BY <1>10, <1>11 DEF RequestClose, ReadInput, queueVars
<1>12. CASE Shutdown \/ UNCHANGED vars
  BY <1>10, <1>12 DEF Shutdown, queueVars, vars
<1> QED BY <1>4, <1>5, <1>6, <1>7, <1>8, <1>9, <1>11, <1>12 DEF Next

\* Through failures, retries, tasks in between and full slots, an accepted
\* message check is run or dropped after MaxRetries, never forgotten.
THEOREM MessagesNotLost == Spec => []NoLostMessages
<1>1. Init => NoLostMessages
  BY DEF Init, NoLostMessages
<1> QED BY <1>1, NoLostMessagesStep, TypeCorrect, QueueInvariant, PTL DEF Spec

-----------------------------------------------------------------------------
(* NoOvertaking.                                                            *)

\* Nobody waits when a run finds a free slot.
LEMMA FreeSlotNoWaiters ==
    ASSUME QueueInv, ~shuttingDown, activeCount < MaxConcurrent
    PROVE  \A h : ~Waiting(h)
<1>1. waitingGroups = <<>>
  BY DEF QueueInv, QueueTypeOK, WorkConserving
<1> QED BY <1>1 DEF Waiting

\* A release starts no group but the first of the list, and moves up the rest.
LEMMA ReleaseInOrder ==
    ASSUME QueueInv, NEW g \in Groups, groups[g].active,
           NEW s \in GroupState, ~s.active, Release(g, s),
           shuttingDown' = shuttingDown
    PROVE  StartsInOrder
<1> SUFFICES ASSUME NEW x \in Groups, NEW h \in Groups,
                    ~groups[x].active, groups'[x].active,
                    Waiting(h), Waiting(h)'
             PROVE  \E i, j \in DOMAIN waitingGroups :
                       i < j /\ waitingGroups[i] = x /\ waitingGroups[j] = h
  BY DEF StartsInOrder
<1>0. /\ groups \in [Groups -> GroupState]
      /\ waitingGroups \in Seq(Groups)
      /\ x # g
  BY DEF QueueInv, QueueTypeOK
<1>1. CASE groups' = [groups EXCEPT ![g] = s]
           \/ groups' = [groups EXCEPT ![g] = BeginNext(s)]
  BY <1>0, <1>1
<1>2. CASE ~shuttingDown /\ ~HasWork(s)
           /\ DrainWaiting([groups EXCEPT ![g] = s], activeCount - 1)
  <2>1. CASE waitingGroups = <<>>
    BY <2>1 DEF Waiting
  <2>2. CASE waitingGroups # <<>>
    <3> DEFINE w == waitingGroups[1]
               n == Len(waitingGroups)
    <3>1. /\ groups' = [[groups EXCEPT ![g] = s] EXCEPT ![w] = BeginNext(groups[w])]
          /\ waitingGroups' = Tail(waitingGroups)
      BY <1>2, <2>2, DrainStartsOne
    <3>2. x = w
      BY <1>0, <3>1
    <3>3. /\ n \in Nat \ {0}
          /\ DOMAIN waitingGroups = 1 .. n
          /\ DOMAIN waitingGroups' = 1 .. n - 1
          /\ \A i \in 1 .. n - 1 : waitingGroups'[i] = waitingGroups[i + 1]
      BY <1>0, <2>2, <3>1
    <3>4. PICK i \in 1 .. n - 1 : waitingGroups'[i] = h
      BY <3>3 DEF Waiting
    <3>5. /\ 1 \in 1 .. n /\ i + 1 \in 1 .. n /\ 1 < i + 1
          /\ waitingGroups[i + 1] = h
      BY <3>3, <3>4
    <3> QED BY <3>2, <3>3, <3>5
  <2> QED BY <2>1, <2>2
<1> QED BY <1>1, <1>2 DEF Release

LEMMA StartsInOrderStep == QueueInv /\ [Next]_vars => StartsInOrder \/ UNCHANGED vars
<1> SUFFICES ASSUME QueueInv, Next PROVE StartsInOrder
  OBVIOUS
<1>0. QueueTypeOK /\ groups \in [Groups -> GroupState]
  BY DEF QueueInv, QueueTypeOK
<1>1. ASSUME \A g \in Groups : groups'[g].active => groups[g].active
      PROVE  StartsInOrder
  BY <1>1 DEF StartsInOrder
<1>2. ASSUME ~shuttingDown, activeCount < MaxConcurrent PROVE StartsInOrder
  BY <1>2, FreeSlotNoWaiters DEF StartsInOrder
<1>3. ASSUME NEW g \in Groups, EnqueueMessageCheck(g), ~shuttingDown
      PROVE  StartsInOrder
  <2>1. CASE groups' = [groups EXCEPT ![g].pendingMessages = TRUE]
    BY <1>0, <1>1, <2>1 DEF GroupState
  <2> QED BY <1>2, <1>3, <2>1 DEF EnqueueMessageCheck
<1>4. ASSUME NEW g \in Groups, NEW t \in Tasks, EnqueueTask(g, t)
      PROVE  StartsInOrder
  <2>1. CASE groups' = [groups EXCEPT ![g].pendingTasks = Append(@, t)]
    BY <1>0, <1>1, <2>1 DEF GroupState
  <2> QED BY <1>2, <1>4, <2>1 DEF EnqueueTask
<1>5. ASSUME NEW g \in Groups, NEW accepts \in BOOLEAN,
             RegisterProcess(g, accepts)
      PROVE  StartsInOrder
  BY <1>0, <1>1, <1>5 DEF RegisterProcess, GroupState
<1>6. ASSUME NEW g \in Groups, NotifyIdle(g) PROVE StartsInOrder
  BY <1>0, <1>1, <1>6 DEF NotifyIdle, GroupState
<1>7. ASSUME NEW g \in Groups, NEW text \in Texts, SendMessage(g, text)
      PROVE  StartsInOrder
  BY <1>0, <1>1, <1>7 DEF SendMessage, GroupState
<1>8. ASSUME NEW g \in Groups, FinishMessages(g) PROVE StartsInOrder
  BY <1>0, <1>8, FinishMessagesReleases, ReleaseInOrder
<1>9. ASSUME NEW g \in Groups, FinishTask(g) PROVE StartsInOrder
  BY <1>0, <1>9, FinishTaskReleases, ReleaseInOrder
<1>10. ASSUME UNCHANGED groups PROVE StartsInOrder
  BY <1>1, <1>10
<1>11. ASSUME NEW g \in Groups, RequestMessageCheck(g) \/ RetryTimerFires(g)
       PROVE  StartsInOrder
  BY <1>3, <1>10, <1>11 DEF RequestMessageCheck, RetryTimerFires, queueVars
<1>12. ASSUME NEW g \in Groups,
              RequestClose(g) \/ \E sentinel, messages \in BOOLEAN :
                                    ReadInput(g, sentinel, messages)
       PROVE  StartsInOrder
  BY <1>10, <1>12 DEF RequestClose, ReadInput, queueVars
<1>13. CASE Shutdown
  BY <1>10, <1>13 DEF Shutdown, queueVars
<1> QED BY <1>4, <1>5, <1>6, <1>7, <1>8, <1>9, <1>11, <1>12, <1>13 DEF Next

\* Waiting groups are served in the order in which they began to wait, and
\* no request, retry or follow-on run of another group gets in between.
THEOREM FirstComeFirstServed == Spec => NoOvertaking
<1>1. QueueInv /\ [Next]_vars => [StartsInOrder]_vars
  BY StartsInOrderStep
<1> QED BY <1>1, QueueInvariant, PTL DEF Spec, NoOvertaking

-----------------------------------------------------------------------------
(* ShutdownStartsNothing.                                                   *)

LEMMA StartsNothingStep ==
    QueueInv /\ [Next]_vars =>
        (shuttingDown => StartsNothing) \/ UNCHANGED vars
<1> SUFFICES ASSUME QueueInv, Next, shuttingDown, NEW h \in Groups
             PROVE  /\ groups'[h].active => groups[h].active
                    /\ groups'[h].pendingTasks = groups[h].pendingTasks
                    /\ groups'[h].pendingMessages = groups[h].pendingMessages
  BY DEF StartsNothing
<1>0. QueueTypeOK /\ groups \in [Groups -> GroupState]
  BY DEF QueueInv, QueueTypeOK
<1> DEFINE Goal == /\ groups'[h].active => groups[h].active
                   /\ groups'[h].pendingTasks = groups[h].pendingTasks
                   /\ groups'[h].pendingMessages = groups[h].pendingMessages
<1>1. ASSUME NEW g \in Groups, NEW s \in GroupState, ~s.active,
             s.pendingMessages = groups[g].pendingMessages,
             s.pendingTasks = groups[g].pendingTasks,
             Release(g, s)
      PROVE  Goal
  <2>1. groups' = [groups EXCEPT ![g] = s]
    BY <1>1 DEF Release
  <2> QED BY <1>0, <1>1, <2>1
<1>2. ASSUME NEW g \in Groups, FinishMessages(g) PROVE Goal
  BY <1>0, <1>1, <1>2, FinishMessagesReleases
<1>3. ASSUME NEW g \in Groups, FinishTask(g) PROVE Goal
  BY <1>0, <1>1, <1>3, FinishTaskReleases
<1>4. ASSUME NEW g \in Groups, NEW accepts \in BOOLEAN,
             RegisterProcess(g, accepts)
      PROVE  Goal
  BY <1>0, <1>4 DEF RegisterProcess, GroupState
<1>5. ASSUME NEW g \in Groups, NotifyIdle(g) PROVE Goal
  BY <1>0, <1>5 DEF NotifyIdle, GroupState
<1>6. ASSUME NEW g \in Groups, NEW text \in Texts, SendMessage(g, text)
      PROVE  Goal
  BY <1>0, <1>6 DEF SendMessage, GroupState
<1>7. ASSUME NEW g \in Groups, RetryTimerFires(g) PROVE Goal
  BY <1>7 DEF RetryTimerFires, queueVars
<1>8. ASSUME NEW g \in Groups,
             RequestClose(g) \/ \E sentinel, messages \in BOOLEAN :
                                   ReadInput(g, sentinel, messages)
      PROVE  Goal
  BY <1>8 DEF RequestClose, ReadInput, queueVars
<1>9. ASSUME NEW g \in Groups,
             RequestMessageCheck(g) \/ \E t \in Tasks : EnqueueTask(g, t)
      PROVE  Goal
  BY <1>9 DEF RequestMessageCheck, EnqueueTask
<1>10. CASE Shutdown
  BY <1>10 DEF Shutdown, queueVars
<1> QED BY <1>2, <1>3, <1>4, <1>5, <1>6, <1>7, <1>8, <1>9, <1>10 DEF Next

\* After shutdown began every run that ends is the last one of its group, and
\* no timer starts another.
THEOREM ShutdownIsFinal == Spec => ShutdownStartsNothing
<1>1. QueueInv /\ [Next]_vars => [shuttingDown => StartsNothing]_vars
  BY StartsNothingStep
<1> QED BY <1>1, QueueInvariant, PTL DEF Spec, ShutdownStartsNothing

-----------------------------------------------------------------------------
(* The queue implements MessageChecks.                                      *)

Checking(s) == s.active /\ ~s.isTaskContainer

CheckStep == Checks!ChecksNext \/ UNCHANGED Checks!checkVars

\* A step that leaves what concerns the checks of h as it was.
LEMMA SameChecks ==
    ASSUME NEW h \in Groups,
           groups'[h].pendingMessages = groups[h].pendingMessages,
           Checking(groups'[h]) <=> Checking(groups[h]),
           groups'[h].retryCount = groups[h].retryCount,
           retryTimers'[h] = retryTimers[h]
    PROVE  Checks!Wait(h)
BY DEF Checks!Wait, Checks!Settled, Checks!SameFailures, Checking

\* A group begins its next work: a task, or what was asked for.
LEMMA BeginNextChecks ==
    ASSUME NEW s \in GroupState, HasWork(s)
    PROVE  /\ \/ /\ BeginNext(s).pendingMessages = s.pendingMessages
                 /\ ~Checking(BeginNext(s))
              \/ /\ s.pendingMessages
                 /\ BeginNext(s).pendingMessages = FALSE
                 /\ Checking(BeginNext(s))
           /\ BeginNext(s).retryCount = s.retryCount
<1>1. CASE s.pendingTasks = <<>>
  BY <1>1 DEF BeginNext, BeginMessages, Checking, HasWork, GroupState
<1>2. CASE s.pendingTasks # <<>>
  BY <1>2 DEF BeginNext, BeginTask, Checking, GroupState
<1> QED BY <1>1, <1>2

LEMMA WaiterBegins ==
    ASSUME NEW h \in Groups, groups[h] \in GroupState, HasWork(groups[h]),
           ~groups[h].active, ~shuttingDown,
           groups'[h] = BeginNext(groups[h]),
           retryTimers'[h] = retryTimers[h]
    PROVE  Checks!Wait(h)
<1>1. ~Checking(groups[h]) /\ groups'[h].retryCount = groups[h].retryCount
  BY BeginNextChecks DEF Checking
<1>2. CASE /\ groups'[h].pendingMessages = groups[h].pendingMessages
           /\ ~Checking(groups'[h])
  BY <1>1, <1>2, SameChecks
<1>3. CASE /\ groups[h].pendingMessages
           /\ groups'[h].pendingMessages = FALSE
           /\ Checking(groups'[h])
  <2>1. Checks!Settled(h, groups[h].pendingMessages, FALSE)
    BY <1>3 DEF Checks!Settled, Checking
  <2> QED BY <1>1, <2>1
          DEF Checks!Wait, Checks!Settled, Checks!SameFailures, Checking
<1> QED BY <1>2, <1>3, BeginNextChecks

\* What a step does to one group, with all others waiting, is a step.
LEMMA OneGroupSteps ==
    ASSUME NEW g \in Groups,
           Checks!Ask(g) \/ Checks!AskAgain(g) \/ Checks!End(g) \/ Checks!Wait(g),
           \A h \in Groups \ {g} : Checks!Wait(h),
           shuttingDown' = shuttingDown
    PROVE  CheckStep
BY DEF CheckStep, Checks!ChecksNext, Checks!GroupStep

LEMMA EnqueueMessageCheckSettles ==
    ASSUME QueueTypeOK, ~shuttingDown, NEW g \in Groups, EnqueueMessageCheck(g)
    PROVE  /\ Checks!Settled(g, TRUE, Checking(groups[g]))
           /\ groups'[g].retryCount = groups[g].retryCount
           /\ \A h \in Groups \ {g} : groups'[h] = groups[h]
<1>0. groups \in [Groups -> GroupState] /\ groups[g] \in GroupState
  BY DEF QueueTypeOK
<1>1. CASE groups' = [groups EXCEPT ![g].pendingMessages = TRUE]
  <2>1. /\ groups'[g].pendingMessages = TRUE
        /\ Checking(groups'[g]) <=> Checking(groups[g])
        /\ groups'[g].retryCount = groups[g].retryCount
    BY <1>0, <1>1 DEF Checking, GroupState
  <2> QED BY <1>0, <1>1, <2>1 DEF Checks!Settled, Checking
<1>2. CASE /\ ~groups[g].active
           /\ groups' = [groups EXCEPT ![g] = BeginMessages(groups[g])]
  <2>1. /\ groups'[g].pendingMessages = FALSE
        /\ Checking(groups'[g]) /\ ~Checking(groups[g])
        /\ groups'[g].retryCount = groups[g].retryCount
    BY <1>0, <1>2 DEF Checking, BeginMessages, GroupState
  <2> QED BY <1>0, <1>2, <2>1 DEF Checks!Settled, Checking
<1> QED BY <1>1, <1>2 DEF EnqueueMessageCheck

LEMMA ReleaseSettles ==
    ASSUME QueueInv, NEW g \in Groups, groups[g].active,
           NEW s \in GroupState, ~s.active, Release(g, s),
           s.pendingMessages = groups[g].pendingMessages,
           shuttingDown' = shuttingDown,
           \A h \in Groups \ {g} : retryTimers'[h] = retryTimers[h]
    PROVE  /\ Checks!Settled(g, groups[g].pendingMessages, FALSE)
           /\ groups'[g].retryCount = s.retryCount
           /\ \A h \in Groups \ {g} : Checks!Wait(h)
<1>0. groups \in [Groups -> GroupState]
  BY DEF QueueInv, QueueTypeOK
<1> DEFINE Own == /\ Checks!Settled(g, groups[g].pendingMessages, FALSE)
                  /\ groups'[g].retryCount = s.retryCount
<1>1. ASSUME groups'[g] = s PROVE Own
  BY <1>1 DEF Checks!Settled
<1>2. ASSUME groups'[g] = BeginNext(s), HasWork(s), ~shuttingDown PROVE Own
  BY <1>2, BeginNextChecks DEF Checks!Settled, Checking
<1>3. ASSUME NEW h \in Groups \ {g} PROVE Checks!Wait(h)
  <2>1. CASE groups'[h] = groups[h]
    BY <2>1, SameChecks
  <2> QED BY <1>0, <2>1, WaiterBegins, ReleaseEffect
<1>4. Own
  BY <1>1, <1>2, ReleaseEffect
<1> QED BY <1>3, <1>4

LEMMA FinishMessagesChecks ==
    ASSUME TypeOK, QueueInv, NEW g \in Groups, FinishMessages(g)
    PROVE  CheckStep
<1>0. /\ groups[g] \in GroupState /\ groups[g].retryCount \in Nat
      /\ groups[g].retryCount + 1 \in Nat
      /\ retryTimers \in [Groups -> Nat] /\ Checking(groups[g])
      /\ groups[g].active /\ shuttingDown' = shuttingDown
  BY DEF TypeOK, GroupState, Checking, FinishMessages
<1>1. PICK n \in Nat :
         /\ Release(g, [EndRun(groups[g]) EXCEPT !.retryCount = n])
         /\ \/ n = 0 /\ UNCHANGED retryTimers
            \/ /\ n = groups[g].retryCount + 1 /\ n <= MaxRetries
               /\ retryTimers' = [retryTimers EXCEPT ![g] = @ + 1]
  BY <1>0 DEF FinishMessages
<1> DEFINE s == [EndRun(groups[g]) EXCEPT !.retryCount = n]
<1>2. /\ s \in GroupState /\ ~s.active /\ s.retryCount = n
      /\ s.pendingMessages = groups[g].pendingMessages
  BY <1>0, EndRunState DEF EndRun, GroupState
<1>3. \A h \in Groups \ {g} : retryTimers'[h] = retryTimers[h]
  BY <1>0, <1>1
<1> HIDE DEF s
<1>4. Release(g, s)
  BY <1>1 DEF s
<1>5. /\ Checks!Settled(g, groups[g].pendingMessages, FALSE)
      /\ groups'[g].retryCount = n
      /\ \A h \in Groups \ {g} : Checks!Wait(h)
  BY <1>0, <1>2, <1>3, <1>4, ReleaseSettles
<1>6. \/ n = 0 /\ retryTimers'[g] = retryTimers[g]
      \/ /\ n = groups[g].retryCount + 1 /\ groups[g].retryCount < MaxRetries
         /\ retryTimers'[g] = retryTimers[g] + 1
  BY <1>0, <1>1, QueueAssumption
<1>7. Checks!End(g)
  BY <1>0, <1>5, <1>6 DEF Checks!End, Checking
<1> QED BY <1>0, <1>5, <1>7, OneGroupSteps

LEMMA FinishTaskChecks ==
    ASSUME QueueInv, NEW g \in Groups, FinishTask(g)
    PROVE  CheckStep
<1> DEFINE s == EndRun(groups[g])
<1>0. QueueTypeOK /\ groups[g] \in GroupState
  BY DEF QueueInv, QueueTypeOK
<1>1. /\ s \in GroupState /\ ~s.active /\ groups[g].active
      /\ Release(g, s)
      /\ s.pendingMessages = groups[g].pendingMessages
      /\ shuttingDown' = shuttingDown
  BY <1>0, FinishTaskReleases
<1>2. s.retryCount = groups[g].retryCount
  BY <1>0 DEF EndRun, GroupState
<1>3. UNCHANGED retryTimers /\ ~Checking(groups[g])
  BY DEF FinishTask, Checking
<1> HIDE DEF s
<1>4. /\ Checks!Settled(g, groups[g].pendingMessages, FALSE)
      /\ groups'[g].retryCount = groups[g].retryCount
      /\ \A h \in Groups \ {g} : Checks!Wait(h)
  BY <1>1, <1>2, <1>3, ReleaseSettles
<1>5. Checks!Wait(g)
  BY <1>3, <1>4
     DEF Checks!Wait, Checks!Settled, Checks!SameFailures, Checking
<1> QED BY <1>1, <1>4, <1>5, OneGroupSteps

LEMMA CheckStepTaken == TypeOK /\ QueueInv /\ [Next]_vars => CheckStep
<1> SUFFICES ASSUME TypeOK, QueueInv, [Next]_vars PROVE CheckStep
  OBVIOUS
<1>0. /\ QueueTypeOK /\ groups \in [Groups -> GroupState]
      /\ retryTimers \in [Groups -> Nat]
  BY DEF QueueInv, QueueTypeOK, TypeOK
\* A step that may change one group, in what is no matter of checks.
<1>1. ASSUME NEW g \in Groups, UNCHANGED <<retryTimers, shuttingDown>>,
             NEW s, groups' = [groups EXCEPT ![g] = s],
             s.pendingMessages = groups[g].pendingMessages,
             Checking(s) <=> Checking(groups[g]),
             s.retryCount = groups[g].retryCount
      PROVE  CheckStep
  <2>1. ASSUME NEW h \in Groups PROVE Checks!Wait(h)
    <3>1. \/ h = g /\ groups'[h] = s
          \/ groups'[h] = groups[h]
      BY <1>0, <1>1
    <3> QED BY <1>1, <3>1, SameChecks
  <2> QED BY <1>1, <2>1, OneGroupSteps
<1>2. ASSUME NEW g \in Groups, RequestMessageCheck(g) PROVE CheckStep
  <2>1. /\ EnqueueMessageCheck(g) /\ ~shuttingDown
        /\ UNCHANGED <<retryTimers, shuttingDown>>
    BY <1>2 DEF RequestMessageCheck
  <2>2. Checks!Ask(g)
    BY <1>0, <2>1, EnqueueMessageCheckSettles
       DEF Checks!Ask, Checks!SameFailures, Checks!Settled, Checking
  <2>3. \A h \in Groups \ {g} : Checks!Wait(h)
    BY <1>0, <2>1, EnqueueMessageCheckSettles, SameChecks
  <2> QED BY <2>1, <2>2, <2>3, OneGroupSteps
<1>3. ASSUME NEW g \in Groups, NEW t \in Tasks, EnqueueTask(g, t)
      PROVE  CheckStep
  <2>0. UNCHANGED <<retryTimers, shuttingDown>> /\ groups[g] \in GroupState
    BY <1>0, <1>3 DEF EnqueueTask
  <2>1. CASE groups' = [groups EXCEPT ![g].pendingTasks = Append(@, t)]
    <3> DEFINE s == [groups[g] EXCEPT !.pendingTasks = Append(@, t)]
    <3>1. /\ groups' = [groups EXCEPT ![g] = s]
          /\ s.pendingMessages = groups[g].pendingMessages
          /\ Checking(s) <=> Checking(groups[g])
          /\ s.retryCount = groups[g].retryCount
      BY <2>0, <2>1 DEF GroupState, Checking
    <3> HIDE DEF s
    <3> QED BY <1>1, <2>0, <3>1
  <2>2. CASE /\ ~groups[g].active
             /\ groups' = [groups EXCEPT ![g] = BeginTask(groups[g], t)]
    <3>1. /\ BeginTask(groups[g], t).pendingMessages
               = groups[g].pendingMessages
          /\ ~Checking(BeginTask(groups[g], t)) /\ ~Checking(groups[g])
          /\ BeginTask(groups[g], t).retryCount = groups[g].retryCount
      BY <2>0, <2>2 DEF BeginTask, GroupState, Checking
    <3> QED BY <1>1, <2>0, <2>2, <3>1
  <2> QED BY <1>3, <2>1, <2>2 DEF EnqueueTask
<1>4. ASSUME NEW g \in Groups, NEW accepts \in BOOLEAN,
             RegisterProcess(g, accepts)
      PROVE  CheckStep
  <2> DEFINE s == [groups[g] EXCEPT !.registered = TRUE,
                                    !.acceptsFollowUpInput = accepts]
  <2>1. /\ groups' = [groups EXCEPT ![g] = s]
        /\ s.pendingMessages = groups[g].pendingMessages
        /\ Checking(s) <=> Checking(groups[g])
        /\ s.retryCount = groups[g].retryCount
        /\ UNCHANGED <<retryTimers, shuttingDown>>
    BY <1>0, <1>4 DEF RegisterProcess, GroupState, Checking
  <2> HIDE DEF s
  <2> QED BY <1>1, <2>1
<1>5. ASSUME NEW g \in Groups, NEW idle \in BOOLEAN,
             groups' = [groups EXCEPT ![g].idleWaiting = idle],
             UNCHANGED <<retryTimers, shuttingDown>>
      PROVE  CheckStep
  <2> DEFINE s == [groups[g] EXCEPT !.idleWaiting = idle]
  <2>1. /\ groups' = [groups EXCEPT ![g] = s]
        /\ s.pendingMessages = groups[g].pendingMessages
        /\ Checking(s) <=> Checking(groups[g])
        /\ s.retryCount = groups[g].retryCount
    BY <1>0, <1>5 DEF GroupState, Checking
  <2> HIDE DEF s
  <2> QED BY <1>1, <1>5, <2>1
<1>6. ASSUME NEW g \in Groups,
             NotifyIdle(g) \/ \E text \in Texts : SendMessage(g, text)
      PROVE  CheckStep
  BY <1>5, <1>6 DEF NotifyIdle, SendMessage
<1>7. ASSUME NEW g \in Groups, FinishMessages(g) PROVE CheckStep
  BY <1>7, FinishMessagesChecks
<1>8. ASSUME NEW g \in Groups, FinishTask(g) PROVE CheckStep
  BY <1>8, FinishTaskChecks
<1>9. ASSUME NEW g \in Groups, RetryTimerFires(g) PROVE CheckStep
  <2>1. /\ retryTimers[g] > 0 /\ retryTimers'[g] = retryTimers[g] - 1
        /\ \A h \in Groups \ {g} : retryTimers'[h] = retryTimers[h]
        /\ shuttingDown' = shuttingDown
    BY <1>0, <1>9 DEF RetryTimerFires
  <2>2. CASE shuttingDown /\ UNCHANGED groups
    <3>1. Checks!AskAgain(g)
      BY <2>1, <2>2 DEF Checks!AskAgain
    <3>2. \A h \in Groups \ {g} : Checks!Wait(h)
      BY <2>1, <2>2, SameChecks
    <3> QED BY <2>1, <3>1, <3>2, OneGroupSteps
  <2>3. CASE ~shuttingDown /\ EnqueueMessageCheck(g)
    <3>1. Checks!AskAgain(g)
      BY <1>0, <2>1, <2>3, EnqueueMessageCheckSettles
         DEF Checks!AskAgain, Checks!Settled, Checking
    <3>2. \A h \in Groups \ {g} : Checks!Wait(h)
      BY <1>0, <2>1, <2>3, EnqueueMessageCheckSettles, SameChecks
    <3> QED BY <2>1, <3>1, <3>2, OneGroupSteps
  <2> QED BY <1>9, <2>2, <2>3 DEF RetryTimerFires, queueVars
<1>10. CASE UNCHANGED <<groups, retryTimers, shuttingDown>>
  BY <1>10 DEF CheckStep, Checks!checkVars
<1>11. ASSUME NEW g \in Groups,
              RequestClose(g) \/ \E sentinel, messages \in BOOLEAN :
                                    ReadInput(g, sentinel, messages)
       PROVE  CheckStep
  BY <1>10, <1>11 DEF RequestClose, ReadInput, queueVars
<1>12. CASE Shutdown
  BY <1>12 DEF Shutdown, queueVars, CheckStep, Checks!ChecksNext, Checks!Close
<1>13. CASE UNCHANGED vars
  BY <1>10, <1>13 DEF vars, queueVars
<1> QED BY <1>2, <1>3, <1>4, <1>6, <1>7, <1>8, <1>9, <1>11, <1>12, <1>13
        DEF Next

\* Among slots, tasks and other groups, each group has its message checks as
\* MessageChecks lets it: a request begins one check, now or when its turn
\* comes, and a failure repeats it MaxRetries times.
THEOREM QueueImplementsChecks == Spec => ChecksImplemented
<1>1. Init => Checks!ChecksInit
  <2> SUFFICES ASSUME Init PROVE Checks!ChecksInit
    OBVIOUS
  <2>1. \A g \in Groups : groups[g] = FreshGroup
    BY DEF Init
  <2> QED BY <2>1 DEF Init, FreshGroup, Checks!ChecksInit
<1>2. TypeOK /\ QueueInv /\ [Next]_vars => [Checks!ChecksNext]_(Checks!checkVars)
  BY CheckStepTaken DEF CheckStep, Checks!checkVars
<1> QED BY <1>1, <1>2, TypeCorrect, QueueInvariant, PTL
        DEF Spec, ChecksImplemented, Checks!ChecksSpec
=============================================================================
