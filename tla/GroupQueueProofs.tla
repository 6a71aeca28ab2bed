-------------------------- MODULE GroupQueueProofs --------------------------
(***************************************************************************)
(* Proofs about GroupQueue.  QueueInv is the inductive invariant: the      *)
(* variables the scheduling decisions read, with the four facts that only  *)
(* hold together.  A freed slot is handed on without a search because the  *)
(* first waiting group always has work (WaitingSound), and the slot it     *)
(* gets is the only one free (WorkConserving).                             *)
(***************************************************************************)
EXTENDS GroupQueue, FiniteSetTheorems, TLAPS

USE QueueAssumption

QueueTypeOK ==
    /\ groups \in [Groups -> GroupState]
    /\ activeCount \in Nat
    /\ waitingGroups \in Seq(Groups)
    /\ shuttingDown \in BOOLEAN

QueueInv ==
    /\ QueueTypeOK
    /\ SlotsExact
    /\ WaitingSound
    /\ WorkConserving
    /\ NoStrandedWork

-----------------------------------------------------------------------------
(* What the updates of one group's state do to it. *)

LEMMA BeginMessagesState ==
    ASSUME NEW s \in GroupState
    PROVE  /\ BeginMessages(s) \in GroupState
           /\ BeginMessages(s).active
           /\ BeginMessages(s).pendingTasks = s.pendingTasks
           /\ ~BeginMessages(s).pendingMessages
BY DEF GroupState, BeginMessages

LEMMA BeginTaskState ==
    ASSUME NEW s \in GroupState, NEW t \in Tasks
    PROVE  /\ BeginTask(s, t) \in GroupState
           /\ BeginTask(s, t).active
           /\ BeginTask(s, t).pendingTasks = s.pendingTasks
           /\ BeginTask(s, t).pendingMessages = s.pendingMessages
BY DEF GroupState, BeginTask

LEMMA BeginNextState ==
    ASSUME NEW s \in GroupState, HasWork(s)
    PROVE  /\ BeginNext(s) \in GroupState
           /\ BeginNext(s).active
<1>1. CASE s.pendingTasks # <<>>
  <2>1. s.pendingTasks \in Seq(Tasks)
    BY DEF GroupState
  <2>2. Head(s.pendingTasks) \in Tasks /\ Tail(s.pendingTasks) \in Seq(Tasks)
    BY <1>1, <2>1
  <2> DEFINE b == BeginTask(s, Head(s.pendingTasks))
  <2>3. b \in GroupState /\ b.active
    BY <2>2, BeginTaskState
  <2>4. BeginNext(s) = [b EXCEPT !.pendingTasks = Tail(s.pendingTasks)]
    BY <1>1 DEF BeginNext
  <2> HIDE DEF b
  <2> QED BY <2>2, <2>3, <2>4 DEF GroupState
<1>2. CASE s.pendingTasks = <<>>
  BY <1>2, BeginMessagesState DEF BeginNext
<1> QED BY <1>1, <1>2

LEMMA EndRunState ==
    ASSUME NEW s \in GroupState, NEW n \in Nat
    PROVE  /\ EndRun(s) \in GroupState
           /\ ~EndRun(s).active
           /\ [EndRun(s) EXCEPT !.retryCount = n] \in GroupState
           /\ ~[EndRun(s) EXCEPT !.retryCount = n].active
BY DEF GroupState, EndRun

-----------------------------------------------------------------------------
(* How the set of active groups and its size change with one group. *)

LEMMA ActiveFinite == QueueTypeOK => IsFiniteSet(ActiveGroups)
BY FS_Subset DEF ActiveGroups

LEMMA ActiveAdded ==
    ASSUME QueueTypeOK, NEW g \in Groups, ~groups[g].active,
           NEW s \in GroupState, s.active,
           groups' = [groups EXCEPT ![g] = s]
    PROVE  Cardinality(ActiveGroups') = Cardinality(ActiveGroups) + 1
<1>1. ActiveGroups' = ActiveGroups \cup {g}
  BY DEF ActiveGroups, QueueTypeOK
<1>2. g \notin ActiveGroups
  BY DEF ActiveGroups
<1> QED BY <1>1, <1>2, ActiveFinite, FS_AddElement

LEMMA ActiveRemoved ==
    ASSUME QueueTypeOK, NEW g \in Groups, groups[g].active,
           NEW s \in GroupState, ~s.active,
           groups' = [groups EXCEPT ![g] = s]
    PROVE  Cardinality(ActiveGroups') = Cardinality(ActiveGroups) - 1
<1>1. ActiveGroups' = ActiveGroups \ {g}
  BY DEF ActiveGroups, QueueTypeOK
<1>2. g \in ActiveGroups
  BY DEF ActiveGroups
<1> QED BY <1>1, <1>2, ActiveFinite, FS_RemoveElement

LEMMA ActiveKept ==
    ASSUME QueueTypeOK, NEW g \in Groups,
           NEW s \in GroupState, s.active = groups[g].active,
           groups' = [groups EXCEPT ![g] = s]
    PROVE  ActiveGroups' = ActiveGroups
BY DEF ActiveGroups, QueueTypeOK

-----------------------------------------------------------------------------
(* The waiting list. *)

\* Enlisting g adds g and nothing else, and never twice.
LEMMA EnlistAdds ==
    ASSUME QueueTypeOK, NEW g \in Groups, Enlist(g)
    PROVE  /\ waitingGroups' \in Seq(Groups)
           /\ waitingGroups' # <<>>
           /\ \A h : Waiting(h)' <=> Waiting(h) \/ h = g
           /\ (\A i, j \in DOMAIN waitingGroups :
                  waitingGroups[i] = waitingGroups[j] => i = j)
              => \A i, j \in DOMAIN waitingGroups' :
                    waitingGroups'[i] = waitingGroups'[j] => i = j
<1>1. waitingGroups \in Seq(Groups)
  BY DEF QueueTypeOK
<1>2. CASE Waiting(g)
  BY <1>1, <1>2 DEF Enlist, Waiting
<1>3. CASE ~Waiting(g)
  <2>1. waitingGroups' = Append(waitingGroups, g)
    BY <1>3 DEF Enlist, Waiting
  <2> DEFINE n == Len(waitingGroups)
  <2>2. /\ waitingGroups' \in Seq(Groups)
        /\ n \in Nat
        /\ DOMAIN waitingGroups = 1 .. n
        /\ DOMAIN waitingGroups' = 1 .. n + 1
        /\ \A i \in 1 .. n : waitingGroups'[i] = waitingGroups[i]
        /\ waitingGroups'[n + 1] = g
    BY <1>1, <2>1
  <2>3. \A i \in 1 .. n : waitingGroups[i] # g
    BY <1>3, <2>2 DEF Waiting
  <2> HIDE DEF n
  <2>4. waitingGroups' # <<>>
    BY <1>1, <2>1
  <2>5. \A h : Waiting(h)' <=> Waiting(h) \/ h = g
    <3> SUFFICES ASSUME NEW h PROVE Waiting(h)' <=> Waiting(h) \/ h = g
      OBVIOUS
    <3>1. ASSUME Waiting(h)' PROVE Waiting(h) \/ h = g
      <4>1. PICK i \in 1 .. n + 1 : waitingGroups'[i] = h
        BY <3>1, <2>2 DEF Waiting
      <4>2. i \in 1 .. n \/ i = n + 1
        BY <2>2
      <4> QED BY <4>1, <4>2, <2>2 DEF Waiting
    <3>2. ASSUME Waiting(h) PROVE Waiting(h)'
      <4>1. PICK i \in 1 .. n : waitingGroups[i] = h
        BY <3>2, <2>2 DEF Waiting
      <4>2. i \in 1 .. n + 1
        BY <2>2
      <4> QED BY <4>1, <4>2, <2>2 DEF Waiting
    <3>3. ASSUME h = g PROVE Waiting(h)'
      <4>1. n + 1 \in 1 .. n + 1
        BY <2>2
      <4> QED BY <4>1, <3>3, <2>2 DEF Waiting
    <3> QED BY <3>1, <3>2, <3>3
  <2>6. ASSUME \A i, j \in DOMAIN waitingGroups :
                  waitingGroups[i] = waitingGroups[j] => i = j,
               NEW i \in 1 .. n + 1, NEW j \in 1 .. n + 1,
               waitingGroups'[i] = waitingGroups'[j]
        PROVE  i = j
    BY <2>2, <2>3, <2>6
  <2> QED BY <2>2, <2>4, <2>5, <2>6
<1> QED BY <1>2, <1>3

\* A released slot goes to the first waiting group, and to no other.
LEMMA DrainStartsOne ==
    ASSUME QueueInv, ~shuttingDown, NEW g \in Groups, groups[g].active,
           NEW s \in GroupState, ~s.active,
           DrainWaiting([groups EXCEPT ![g] = s], activeCount - 1)
    PROVE  \/ /\ waitingGroups = <<>>
              /\ groups' = [groups EXCEPT ![g] = s]
              /\ activeCount' = activeCount - 1
              /\ waitingGroups' = waitingGroups
           \/ /\ waitingGroups # <<>>
              /\ groups' = [[groups EXCEPT ![g] = s] EXCEPT
                               ![waitingGroups[1]] =
                                   BeginNext(groups[waitingGroups[1]])]
              /\ activeCount' = activeCount
              /\ waitingGroups' = Tail(waitingGroups)
<1> DEFINE gs == [groups EXCEPT ![g] = s]
           W  == waitingGroups
           Started(k) == {i \in 1 .. k : HasWork(gs[W[i]])}
           started(k) == {W[i] : i \in Started(k)}
<1>0. /\ groups \in [Groups -> GroupState]
      /\ activeCount \in Nat
      /\ W \in Seq(Groups)
      /\ gs \in [Groups -> GroupState]
  BY DEF QueueInv, QueueTypeOK
<1>1. PICK n \in 0 .. Len(W) :
         /\ \A k \in 0 .. n - 1 :
               activeCount - 1 + Cardinality(Started(k)) < MaxConcurrent
         /\ \/ n = Len(W)
            \/ activeCount - 1 + Cardinality(Started(n)) >= MaxConcurrent
         /\ groups' = [h \in Groups |-> IF h \in started(n)
                                        THEN BeginNext(gs[h]) ELSE gs[h]]
         /\ activeCount' = activeCount - 1 + Cardinality(Started(n))
         /\ W' = SubSeq(W, n + 1, Len(W))
  BY DEF DrainWaiting
<1>2. Started(0) = {} /\ Cardinality(Started(0)) = 0
  BY FS_EmptySet
<1>3. CASE W = <<>>
  <2>1. n = 0
    BY <1>3
  <2>2. groups' = gs
    BY <1>0, <1>1, <1>2, <2>1
  <2>3. activeCount' = activeCount - 1
    BY <1>0, <1>1, <1>2, <2>1
  <2>4. W' = W
    BY <1>0, <1>1, <1>3, <2>1
  <2> QED BY <1>3, <2>2, <2>3, <2>4
<1>4. CASE W # <<>>
  <2>1. activeCount = MaxConcurrent
    BY <1>4 DEF QueueInv, WorkConserving
  <2>2. 1 \in DOMAIN W /\ W[1] \in Groups /\ Len(W) \in Nat /\ Len(W) >= 1
    BY <1>0, <1>4
  <2>3. ~groups[W[1]].active /\ HasWork(groups[W[1]])
    BY <2>2 DEF QueueInv, WaitingSound
  <2>4. W[1] # g /\ gs[W[1]] = groups[W[1]]
    BY <1>0, <2>2, <2>3
  <2>5. Started(1) = {1} /\ Cardinality(Started(1)) = 1
    <3>1. HasWork(gs[W[1]])
      BY <2>3, <2>4
    <3>2. 1 .. 1 = {1}
      OBVIOUS
    <3>3. Started(1) = {1}
      BY <3>1, <3>2, Zenon
    <3> QED BY <3>3, FS_Singleton
  <2> HIDE DEF gs, Started
  <2>6. n # 0
    BY <1>0, <1>1, <1>2, <2>1, <2>2
  <2>7. ~(n > 1)
    <3> SUFFICES ASSUME n > 1 PROVE FALSE
      OBVIOUS
    <3>1. 1 \in 0 .. n - 1
      OBVIOUS
    <3> QED BY <1>0, <1>1, <3>1, <2>1, <2>5
  <2>8. n = 1
    BY <2>6, <2>7
  <2>9. activeCount' = activeCount
    BY <1>0, <1>1, <2>5, <2>8
  <2>10. W' = Tail(W)
    BY <1>0, <1>1, <2>2, <2>8
  <2>11. started(1) = {W[1]}
    BY <2>5
  <2>12. groups' = [h \in Groups |-> IF h = W[1] THEN BeginNext(gs[h]) ELSE gs[h]]
    BY <1>1, <2>8, <2>11
  <2>13. groups' = [gs EXCEPT ![W[1]] = BeginNext(groups[W[1]])]
    BY <1>0, <2>2, <2>4, <2>12
  <2> QED BY <1>4, <2>9, <2>10, <2>13 DEF gs
<1> QED BY <1>3, <1>4

-----------------------------------------------------------------------------
(* The operations preserve QueueInv. *)

\* The parts of QueueInv for a step that changes only group g, to s, and
\* neither starts nor ends a run.
LEMMA SameRuns ==
    ASSUME QueueInv, NEW g \in Groups, NEW s \in GroupState,
           s.active = groups[g].active,
           HasWork(groups[g]) => HasWork(s),
           groups' = [groups EXCEPT ![g] = s],
           activeCount' = activeCount, shuttingDown' = shuttingDown,
           \/ /\ waitingGroups' = waitingGroups
              /\ s.active \/ (HasWork(s) => HasWork(groups[g]))
           \/ /\ ~s.active /\ HasWork(s)
              /\ activeCount >= MaxConcurrent
              /\ Enlist(g)
    PROVE  QueueInv'
<1> USE DEF QueueInv
<1>0. groups \in [Groups -> GroupState] /\ waitingGroups \in Seq(Groups)
  BY DEF QueueTypeOK
<1>1. ActiveGroups' = ActiveGroups
  BY ActiveKept
<1>2. SlotsExact'
  BY <1>1 DEF SlotsExact
<1>3. \A h \in Groups : /\ groups'[h].active = groups[h].active
                        /\ HasWork(groups[h]) => HasWork(groups'[h])
                        /\ h # g => groups'[h] = groups[h]
  BY <1>0
<1>4. CASE /\ waitingGroups' = waitingGroups
           /\ s.active \/ (HasWork(s) => HasWork(groups[g]))
  <2>1. QueueTypeOK'
    BY <1>4 DEF QueueTypeOK
  <2>2. WaitingSound'
    BY <1>0, <1>3, <1>4 DEF WaitingSound
  <2>3. WorkConserving'
    BY <1>4 DEF WorkConserving
  <2>4. NoStrandedWork'
    BY <1>0, <1>3, <1>4 DEF NoStrandedWork, Waiting
  <2> QED BY <1>2, <2>1, <2>2, <2>3, <2>4
<1>5. CASE /\ ~s.active /\ HasWork(s)
           /\ activeCount >= MaxConcurrent
           /\ Enlist(g)
  <2>0. /\ waitingGroups' \in Seq(Groups)
        /\ \A h : Waiting(h)' <=> Waiting(h) \/ h = g
        /\ \A i, j \in DOMAIN waitingGroups' :
              waitingGroups'[i] = waitingGroups'[j] => i = j
    BY <1>5, EnlistAdds DEF WaitingSound
  <2>1. QueueTypeOK'
    BY <2>0 DEF QueueTypeOK
  <2>2. WaitingSound'
    <3>1. ASSUME NEW i \in DOMAIN waitingGroups'
          PROVE  ~groups'[waitingGroups'[i]].active
                 /\ HasWork(groups'[waitingGroups'[i]])
      <4>1. Waiting(waitingGroups'[i]) \/ waitingGroups'[i] = g
        BY <2>0 DEF Waiting
      <4>2. CASE waitingGroups'[i] = g
        BY <1>0, <1>5, <4>2
      <4>3. CASE Waiting(waitingGroups'[i])
        BY <1>0, <1>3, <4>3 DEF Waiting, WaitingSound
      <4> QED BY <4>1, <4>2, <4>3
    <3> QED BY <2>0, <3>1 DEF WaitingSound
  <2>3. WorkConserving'
    BY <1>5 DEF WorkConserving, SlotsExact, QueueTypeOK
  <2>4. NoStrandedWork'
    BY <1>0, <1>3, <2>0 DEF NoStrandedWork
  <2> QED BY <1>2, <2>1, <2>2, <2>3, <2>4
<1> QED BY <1>4, <1>5

\* A run of g starts in a free slot.
LEMMA RunStartsInFreeSlot ==
    ASSUME QueueInv, ~shuttingDown, NEW g \in Groups, ~groups[g].active,
           activeCount < MaxConcurrent,
           NEW s \in GroupState, s.active,
           groups' = [groups EXCEPT ![g] = s],
           activeCount' = activeCount + 1,
           waitingGroups' = waitingGroups, shuttingDown' = shuttingDown
    PROVE  QueueInv'
<1> USE DEF QueueInv
<1>0. groups \in [Groups -> GroupState] /\ activeCount \in Nat
  BY DEF QueueTypeOK
<1>1. waitingGroups = <<>>
  BY DEF WorkConserving
<1>2. QueueTypeOK'
  BY DEF QueueTypeOK
<1>3. SlotsExact'
  <2>1. Cardinality(ActiveGroups') = Cardinality(ActiveGroups) + 1
    BY ActiveAdded
  <2> QED BY <1>0, <2>1 DEF SlotsExact
<1>4. WaitingSound' /\ WorkConserving'
  BY <1>1 DEF WaitingSound, WorkConserving
<1>5. NoStrandedWork'
  BY <1>0, <1>1 DEF NoStrandedWork, Waiting
<1> QED BY <1>2, <1>3, <1>4, <1>5

LEMMA EnqueueMessageCheckKeeps ==
    ASSUME QueueInv, ~shuttingDown, NEW g \in Groups, EnqueueMessageCheck(g),
           shuttingDown' = shuttingDown
    PROVE  QueueInv'
<1>0. groups \in [Groups -> GroupState] /\ activeCount \in Nat
  BY DEF QueueInv, QueueTypeOK
<1> DEFINE p == [groups[g] EXCEPT !.pendingMessages = TRUE]
<1>1. /\ p \in GroupState /\ HasWork(p)
      /\ p.active = groups[g].active
  BY <1>0 DEF GroupState, HasWork
<1>2. CASE groups' = [groups EXCEPT ![g].pendingMessages = TRUE]
           /\ activeCount' = activeCount
  <2>1. groups' = [groups EXCEPT ![g] = p]
    BY <1>2
  <2>2. \/ waitingGroups' = waitingGroups /\ p.active
        \/ ~p.active /\ activeCount >= MaxConcurrent /\ Enlist(g)
    BY <1>0, <1>1, <1>2 DEF EnqueueMessageCheck
  <2> HIDE DEF p
  <2> QED BY <1>1, <1>2, <2>1, <2>2, SameRuns
<1>3. CASE /\ ~groups[g].active
           /\ activeCount < MaxConcurrent
           /\ groups' = [groups EXCEPT ![g] = BeginMessages(groups[g])]
           /\ activeCount' = activeCount + 1
           /\ waitingGroups' = waitingGroups
  BY <1>0, <1>3, BeginMessagesState, RunStartsInFreeSlot
<1> QED BY <1>2, <1>3 DEF EnqueueMessageCheck

\* The end of a run: the slot goes to the group's own next work, else to the
\* first waiting group, else it is freed.
LEMMA ReleaseKeeps ==
    ASSUME QueueInv, NEW g \in Groups, groups[g].active,
           NEW s \in GroupState, ~s.active,
           Release(g, s), shuttingDown' = shuttingDown
    PROVE  QueueInv'
<1> USE DEF QueueInv
<1>0. /\ groups \in [Groups -> GroupState]
      /\ activeCount \in Nat
      /\ waitingGroups \in Seq(Groups)
  BY DEF QueueTypeOK
<1>1. ~Waiting(g)
  BY DEF WaitingSound, Waiting
<1>2. CASE /\ groups' = [groups EXCEPT ![g] = s]
           /\ activeCount' = activeCount - 1
           /\ waitingGroups' = waitingGroups
           /\ shuttingDown \/ ~HasWork(s)
           /\ shuttingDown \/ waitingGroups = <<>>
  <2>1. Cardinality(ActiveGroups') = Cardinality(ActiveGroups) - 1
    BY <1>2, ActiveRemoved
  <2>2. activeCount >= 1
    <3>1. g \in ActiveGroups
      BY DEF ActiveGroups
    <3>2. Cardinality(ActiveGroups) # 0
      BY <3>1, ActiveFinite, FS_EmptySet
    <3> QED BY <1>0, <3>2 DEF SlotsExact
  <2>3. QueueTypeOK'
    BY <1>0, <1>2, <2>2 DEF QueueTypeOK
  <2>4. SlotsExact'
    BY <1>0, <1>2, <2>1 DEF SlotsExact
  <2>5. WaitingSound'
    BY <1>0, <1>1, <1>2 DEF WaitingSound, Waiting
  <2>6. WorkConserving'
    BY <1>2 DEF WorkConserving
  <2>7. NoStrandedWork'
    BY <1>0, <1>2 DEF NoStrandedWork, Waiting
  <2> QED BY <2>3, <2>4, <2>5, <2>6, <2>7
<1>3. CASE /\ HasWork(s)
           /\ groups' = [groups EXCEPT ![g] = BeginNext(s)]
           /\ UNCHANGED <<activeCount, waitingGroups>>
  <2>1. BeginNext(s) \in GroupState /\ BeginNext(s).active
    BY <1>3, BeginNextState
  <2>2. ActiveGroups' = ActiveGroups
    BY <1>3, <2>1, ActiveKept
  <2>3. QueueTypeOK'
    BY <1>0, <1>3, <2>1 DEF QueueTypeOK
  <2>4. SlotsExact'
    BY <1>3, <2>2 DEF SlotsExact
  <2>5. WaitingSound'
    BY <1>0, <1>1, <1>3 DEF WaitingSound, Waiting
  <2>6. WorkConserving'
    BY <1>3 DEF WorkConserving
  <2>7. NoStrandedWork'
    BY <1>0, <1>3, <2>1 DEF NoStrandedWork, Waiting
  <2> QED BY <2>3, <2>4, <2>5, <2>6, <2>7
<1>4. CASE ~shuttingDown /\ ~HasWork(s) /\ waitingGroups # <<>>
           /\ DrainWaiting([groups EXCEPT ![g] = s], activeCount - 1)
  <2> DEFINE w == waitingGroups[1]
             b == BeginNext(groups[w])
  <2>1. /\ groups' = [[groups EXCEPT ![g] = s] EXCEPT ![w] = b]
        /\ activeCount' = activeCount
        /\ waitingGroups' = Tail(waitingGroups)
    BY <1>4, DrainStartsOne
  <2>2. 1 \in DOMAIN waitingGroups /\ w \in Groups
    BY <1>0, <1>4
  <2>3. ~groups[w].active /\ HasWork(groups[w]) /\ w # g
    BY <2>2 DEF WaitingSound
  <2>4. b \in GroupState /\ b.active
    BY <1>0, <2>2, <2>3, BeginNextState
  <2> DEFINE n == Len(waitingGroups)
  <2>5. /\ n \in Nat
        /\ DOMAIN waitingGroups = 1 .. n
        /\ DOMAIN waitingGroups' = 1 .. n - 1
        /\ \A i \in 1 .. n - 1 : waitingGroups'[i] = waitingGroups[i + 1]
        /\ waitingGroups' \in Seq(Groups)
    BY <1>0, <1>4, <2>1
  <2> HIDE DEF b
  <2>6. /\ groups' \in [Groups -> GroupState]
        /\ groups'[g] = s
        /\ groups'[w] = b
        /\ \A h \in Groups \ {g, w} : groups'[h] = groups[h]
    BY <1>0, <2>1, <2>2, <2>3, <2>4
  <2>7. QueueTypeOK'
    BY <1>0, <2>1, <2>5, <2>6 DEF QueueTypeOK
  <2>8. SlotsExact'
    <3>1. ActiveGroups' = (ActiveGroups \ {g}) \cup {w}
      BY <2>2, <2>3, <2>4, <2>6 DEF ActiveGroups
    <3>2. g \in ActiveGroups /\ w \notin ActiveGroups
      BY <2>3 DEF ActiveGroups
    <3>3. /\ IsFiniteSet(ActiveGroups \ {g})
          /\ Cardinality(ActiveGroups \ {g}) = Cardinality(ActiveGroups) - 1
      BY <3>2, ActiveFinite, FS_RemoveElement
    <3>4. Cardinality(ActiveGroups') = Cardinality(ActiveGroups \ {g}) + 1
      BY <3>1, <3>2, <3>3, FS_AddElement
    <3> QED BY <1>0, <2>1, <3>3, <3>4 DEF SlotsExact
  <2> HIDE DEF n
  <2>9. \A i \in 1 .. n - 1 : /\ i + 1 \in 1 .. n
                              /\ waitingGroups[i + 1] \in Groups \ {g, w}
    <3> SUFFICES ASSUME NEW i \in 1 .. n - 1
                 PROVE  /\ i + 1 \in 1 .. n
                        /\ waitingGroups[i + 1] \in Groups \ {g, w}
      OBVIOUS
    <3>1. i + 1 \in 1 .. n /\ i + 1 # 1
      BY <2>5
    <3>2. waitingGroups[i + 1] \in Groups
      BY <1>0, <2>5, <3>1
    <3>3. waitingGroups[i + 1] # g
      BY <1>1, <2>5, <3>1 DEF Waiting
    <3>4. waitingGroups[i + 1] # w
      BY <2>2, <2>5, <3>1 DEF WaitingSound
    <3> QED BY <3>1, <3>2, <3>3, <3>4
  <2> HIDE DEF w
  <2>10. WaitingSound'
    <3>1. ASSUME NEW i \in 1 .. n - 1, NEW j \in 1 .. n - 1,
                 waitingGroups'[i] = waitingGroups'[j]
          PROVE  i = j
      <4>1. i + 1 = j + 1
        BY <2>5, <2>9, <3>1 DEF WaitingSound
      <4> QED BY <2>5, <4>1
    <3>2. ASSUME NEW i \in 1 .. n - 1
          PROVE  /\ ~groups'[waitingGroups'[i]].active
                 /\ HasWork(groups'[waitingGroups'[i]])
      BY <2>5, <2>6, <2>9 DEF WaitingSound
    <3> QED BY <2>5, <3>1, <3>2 DEF WaitingSound
  <2>11. WorkConserving'
    BY <1>4, <2>1 DEF WorkConserving
  <2>12. NoStrandedWork'
    <3> SUFFICES ASSUME NEW h \in Groups, HasWork(groups'[h]),
                        ~groups'[h].active
                 PROVE  Waiting(h)'
      BY DEF NoStrandedWork
    <3>1. h # g /\ h # w
      BY <1>4, <2>4, <2>6
    <3>2. Waiting(h)
      BY <1>4, <2>6, <3>1 DEF NoStrandedWork
    <3>3. PICK i \in 1 .. n : waitingGroups[i] = h
      BY <2>5, <3>2 DEF Waiting
    <3>4. i # 1
      BY <3>1, <3>3 DEF w
    <3>5. i - 1 \in 1 .. n - 1 /\ waitingGroups'[i - 1] = h
      BY <2>5, <3>3, <3>4
    <3> QED BY <2>5, <3>5 DEF Waiting
  <2> QED BY <2>7, <2>8, <2>10, <2>11, <2>12
<1>5. CASE /\ ~shuttingDown /\ ~HasWork(s) /\ waitingGroups = <<>>
           /\ DrainWaiting([groups EXCEPT ![g] = s], activeCount - 1)
  BY <1>2, <1>5, DrainStartsOne
<1> QED BY <1>2, <1>3, <1>4, <1>5 DEF Release

LEMMA EnqueueTaskKeeps ==
    ASSUME QueueInv, NEW g \in Groups, NEW t \in Tasks, EnqueueTask(g, t)
    PROVE  QueueInv'
<1>0. groups \in [Groups -> GroupState] /\ activeCount \in Nat
  BY DEF QueueInv, QueueTypeOK
<1>1. ~shuttingDown /\ shuttingDown' = shuttingDown
  BY DEF EnqueueTask
<1> DEFINE p == [groups[g] EXCEPT !.pendingTasks = Append(@, t)]
<1>2. /\ p \in GroupState
      /\ p.active = groups[g].active
      /\ p.pendingTasks # <<>>
  <2>1. groups[g].pendingTasks \in Seq(Tasks)
    BY <1>0 DEF GroupState
  <2>2. /\ Append(groups[g].pendingTasks, t) \in Seq(Tasks)
        /\ Append(groups[g].pendingTasks, t) # <<>>
    BY <2>1
  <2> QED BY <1>0, <2>2 DEF GroupState
<1>3. HasWork(p)
  BY <1>2 DEF HasWork
<1>4. CASE groups' = [groups EXCEPT ![g].pendingTasks = Append(@, t)]
           /\ activeCount' = activeCount
  <2>1. groups' = [groups EXCEPT ![g] = p]
    BY <1>4
  <2> HIDE DEF p
  <2>2. \/ waitingGroups' = waitingGroups /\ p.active
        \/ ~p.active /\ activeCount >= MaxConcurrent /\ Enlist(g)
    BY <1>0, <1>2, <1>4 DEF EnqueueTask
  <2> QED BY <1>1, <1>2, <1>3, <1>4, <2>1, <2>2, SameRuns
<1>5. CASE /\ ~groups[g].active
           /\ activeCount < MaxConcurrent
           /\ groups' = [groups EXCEPT ![g] = BeginTask(groups[g], t)]
           /\ activeCount' = activeCount + 1
           /\ waitingGroups' = waitingGroups
  BY <1>0, <1>1, <1>5, BeginTaskState, RunStartsInFreeSlot
<1> QED BY <1>4, <1>5 DEF EnqueueTask

\* A step that changes nothing of the queue, except that it may begin to
\* shut down.
LEMMA UntouchedKeeps ==
    ASSUME QueueInv, UNCHANGED queueVars, shuttingDown' \in BOOLEAN,
           shuttingDown => shuttingDown'
    PROVE  QueueInv'
BY DEF QueueInv, queueVars, QueueTypeOK, SlotsExact, ActiveGroups,
       WaitingSound, WorkConserving, NoStrandedWork, Waiting

LEMMA FinishMessagesReleases ==
    ASSUME QueueTypeOK, NEW g \in Groups, FinishMessages(g)
    PROVE  \E s \in GroupState : /\ ~s.active
                                 /\ Release(g, s)
                                 /\ s.pendingMessages = groups[g].pendingMessages
                                 /\ s.pendingTasks = groups[g].pendingTasks
                                 /\ s.runningTaskId = NoTask
                                 /\ ~s.registered
                                 /\ groups[g].active
                                 /\ shuttingDown' = shuttingDown
<1>0. groups[g] \in GroupState /\ groups[g].retryCount + 1 \in Nat
  BY DEF QueueTypeOK, GroupState
<1>1. PICK n \in Nat : Release(g, [EndRun(groups[g]) EXCEPT !.retryCount = n])
  BY <1>0 DEF FinishMessages
<1> DEFINE s == [EndRun(groups[g]) EXCEPT !.retryCount = n]
<1>2. s \in GroupState /\ ~s.active
  BY <1>0, EndRunState
<1>3. /\ s.pendingMessages = groups[g].pendingMessages
      /\ s.pendingTasks = groups[g].pendingTasks
      /\ s.runningTaskId = NoTask
      /\ ~s.registered
  BY <1>0 DEF EndRun, GroupState
<1>4. groups[g].active /\ shuttingDown' = shuttingDown
  BY DEF FinishMessages
<1> HIDE DEF s
<1>5. Release(g, s)
  BY <1>1 DEF s
<1> QED BY <1>2, <1>3, <1>4, <1>5

LEMMA FinishTaskReleases ==
    ASSUME QueueTypeOK, NEW g \in Groups, FinishTask(g)
    PROVE  /\ EndRun(groups[g]) \in GroupState
           /\ ~EndRun(groups[g]).active
           /\ Release(g, EndRun(groups[g]))
           /\ EndRun(groups[g]).pendingMessages = groups[g].pendingMessages
           /\ EndRun(groups[g]).pendingTasks = groups[g].pendingTasks
           /\ EndRun(groups[g]).runningTaskId = NoTask
           /\ ~EndRun(groups[g]).registered
           /\ groups[g].active
           /\ shuttingDown' = shuttingDown
<1>1. groups[g] \in GroupState
  BY DEF QueueTypeOK
<1> QED BY <1>1, EndRunState DEF FinishTask, EndRun, GroupState

LEMMA QueueInvStep == QueueInv /\ [Next]_vars => QueueInv'
<1> SUFFICES ASSUME QueueInv, [Next]_vars PROVE QueueInv'
  OBVIOUS
<1>0. QueueTypeOK /\ groups \in [Groups -> GroupState]
      /\ shuttingDown \in BOOLEAN
  BY DEF QueueInv, QueueTypeOK
<1>1. ASSUME NEW g \in Groups, RequestMessageCheck(g) PROVE QueueInv'
  BY <1>1, EnqueueMessageCheckKeeps DEF RequestMessageCheck
<1>2. ASSUME NEW g \in Groups, NEW t \in Tasks, EnqueueTask(g, t)
      PROVE  QueueInv'
  BY <1>2, EnqueueTaskKeeps
<1>3. ASSUME NEW g \in Groups, NEW accepts \in BOOLEAN,
             RegisterProcess(g, accepts)
      PROVE  QueueInv'
  <2> DEFINE s == [groups[g] EXCEPT !.registered = TRUE,
                                    !.acceptsFollowUpInput = accepts]
  <2>1. /\ s \in GroupState
        /\ s.active /\ groups[g].active
        /\ HasWork(s) <=> HasWork(groups[g])
    BY <1>0, <1>3 DEF GroupState, HasWork, RegisterProcess
  <2>2. groups' = [groups EXCEPT ![g] = s]
    BY <1>3 DEF RegisterProcess
  <2> HIDE DEF s
  <2> QED BY <1>3, <2>1, <2>2, SameRuns DEF RegisterProcess
<1>4. ASSUME NEW g \in Groups, NEW idle \in BOOLEAN,
             groups' = [groups EXCEPT ![g].idleWaiting = idle],
             UNCHANGED <<activeCount, waitingGroups, shuttingDown>>
      PROVE  QueueInv'
  <2> DEFINE s == [groups[g] EXCEPT !.idleWaiting = idle]
  <2>1. /\ s \in GroupState
        /\ s.active = groups[g].active
        /\ HasWork(s) <=> HasWork(groups[g])
    BY <1>0 DEF GroupState, HasWork
  <2>2. groups' = [groups EXCEPT ![g] = s]
    BY <1>4
  <2> HIDE DEF s
  <2> QED BY <1>4, <2>1, <2>2, SameRuns
<1>5. ASSUME NEW g \in Groups, NotifyIdle(g) PROVE QueueInv'
  BY <1>4, <1>5 DEF NotifyIdle
<1>6. ASSUME NEW g \in Groups, NEW text \in Texts, SendMessage(g, text)
      PROVE  QueueInv'
  BY <1>4, <1>6 DEF SendMessage
<1>7. ASSUME NEW g \in Groups, RequestClose(g) PROVE QueueInv'
  BY <1>0, <1>7, UntouchedKeeps DEF RequestClose
<1>8. ASSUME NEW g \in Groups, FinishMessages(g) PROVE QueueInv'
  BY <1>0, <1>8, FinishMessagesReleases, ReleaseKeeps
<1>9. ASSUME NEW g \in Groups, FinishTask(g) PROVE QueueInv'
  BY <1>0, <1>9, FinishTaskReleases, ReleaseKeeps
<1>10. ASSUME NEW g \in Groups, RetryTimerFires(g) PROVE QueueInv'
  BY <1>0, <1>10, UntouchedKeeps, EnqueueMessageCheckKeeps
     DEF RetryTimerFires
<1>11. ASSUME NEW g \in Groups, NEW sentinel \in BOOLEAN,
              NEW messages \in BOOLEAN, ReadInput(g, sentinel, messages)
       PROVE  QueueInv'
  BY <1>0, <1>11, UntouchedKeeps DEF ReadInput
<1>12. CASE Shutdown
  BY <1>12, UntouchedKeeps DEF Shutdown
<1>13. CASE UNCHANGED vars
  BY <1>0, <1>13, UntouchedKeeps DEF vars, queueVars
<1> QED BY <1>1, <1>2, <1>3, <1>5, <1>6, <1>7, <1>8, <1>9, <1>10, <1>11,
           <1>12, <1>13 DEF Next

LEMMA QueueInvInit == Init => QueueInv
<1> SUFFICES ASSUME Init PROVE QueueInv
  OBVIOUS
<1>1. FreshGroup \in GroupState
  BY DEF FreshGroup, GroupState
<1>2. \A g \in Groups : groups[g] = FreshGroup
  BY DEF Init
<1>3. ActiveGroups = {}
  BY <1>2 DEF ActiveGroups, FreshGroup
<1>4. QueueTypeOK
  <2>1. groups \in [Groups -> GroupState]
    BY <1>1 DEF Init
  <2>2. activeCount \in Nat /\ waitingGroups \in Seq(Groups)
    BY DEF Init
  <2> QED BY <2>1, <2>2 DEF Init, QueueTypeOK
<1>5. SlotsExact
  BY <1>3, FS_EmptySet DEF Init, SlotsExact
<1>6. WaitingSound /\ WorkConserving
  BY DEF Init, WaitingSound, WorkConserving
<1>7. NoStrandedWork
  BY <1>2 DEF NoStrandedWork, HasWork, FreshGroup
<1> QED BY <1>4, <1>5, <1>6, <1>7 DEF QueueInv

\* The invariant holds in every reachable state, for any number of groups,
\* tasks and slots.
THEOREM QueueInvariant == Spec => []QueueInv
BY QueueInvInit, QueueInvStep, PTL DEF Spec

\* The slot accounting of group-queue.ts is exact and the limit is kept.
THEOREM SlotAccounting == Spec => []SlotsExact
<1>1. QueueInv => SlotsExact
  BY DEF QueueInv
<1> QED BY <1>1, QueueInvariant, PTL

\* Every waiting group has work and no run, and waits once.
THEOREM WaitingListSound == Spec => []WaitingSound
<1>1. QueueInv => WaitingSound
  BY DEF QueueInv
<1> QED BY <1>1, QueueInvariant, PTL

\* No slot is free while a group waits for one.
THEOREM SlotsNotWasted == Spec => []WorkConserving
<1>1. QueueInv => WorkConserving
  BY DEF QueueInv
<1> QED BY <1>1, QueueInvariant, PTL

\* drainGroup and drainWaiting never leave work behind that nothing starts.
THEOREM WorkNotStranded == Spec => []NoStrandedWork
<1>1. QueueInv => NoStrandedWork
  BY DEF QueueInv
<1> QED BY <1>1, QueueInvariant, PTL

-----------------------------------------------------------------------------
(* Type correctness: QueueInv bounds the counter from below, so it comes     *)
(* second.                                                                   *)

LEMMA TypeOKStep == QueueInv' /\ TypeOK /\ [Next]_vars => TypeOK'
<1> SUFFICES ASSUME QueueInv', TypeOK, [Next]_vars PROVE TypeOK'
  OBVIOUS
<1> USE DEF TypeOK
<1>0. /\ groups' \in [Groups -> GroupState]
      /\ activeCount' \in Nat
      /\ waitingGroups' \in Seq(Groups)
      /\ shuttingDown' \in BOOLEAN
  BY DEF QueueInv, QueueTypeOK
<1> DEFINE FilesOK == /\ retryTimers' \in [Groups -> Nat]
                      /\ closeFile' \in [Groups -> BOOLEAN]
                      /\ inbox' \in [Groups -> SUBSET Texts]
                      /\ unserved' \in [Groups -> BOOLEAN]
<1> SUFFICES FilesOK
  BY <1>0
<1>1. ASSUME NEW g \in Groups, RequestMessageCheck(g) PROVE FilesOK
  BY <1>1 DEF RequestMessageCheck
<1>2. ASSUME NEW g \in Groups, NEW t \in Tasks, EnqueueTask(g, t)
      PROVE  FilesOK
  BY <1>2 DEF EnqueueTask, CloseStdin
<1>3. ASSUME NEW g \in Groups, NEW accepts \in BOOLEAN,
             RegisterProcess(g, accepts)
      PROVE  FilesOK
  BY <1>3 DEF RegisterProcess
<1>4. ASSUME NEW g \in Groups, NotifyIdle(g) PROVE FilesOK
  BY <1>4 DEF NotifyIdle, CloseStdin
<1>5. ASSUME NEW g \in Groups, NEW text \in Texts, SendMessage(g, text)
      PROVE  FilesOK
  BY <1>5 DEF SendMessage
<1>6. ASSUME NEW g \in Groups, RequestClose(g) PROVE FilesOK
  BY <1>6 DEF RequestClose, CloseStdin
<1>7. ASSUME NEW g \in Groups, FinishMessages(g) PROVE FilesOK
  <2>1. groups[g].pendingMessages \in BOOLEAN
    BY DEF GroupState
  <2>2. \/ unserved' = [unserved EXCEPT ![g] = groups[g].pendingMessages]
        \/ UNCHANGED unserved
    BY <1>7 DEF FinishMessages
  <2>3. \/ retryTimers' = [retryTimers EXCEPT ![g] = @ + 1]
        \/ UNCHANGED retryTimers
    BY <1>7 DEF FinishMessages
  <2>4. unserved' \in [Groups -> BOOLEAN]
    BY <2>1, <2>2
  <2>5. retryTimers' \in [Groups -> Nat]
    BY <2>3
  <2>6. UNCHANGED <<closeFile, inbox>>
    BY <1>7 DEF FinishMessages
  <2> QED BY <2>4, <2>5, <2>6
<1>8. ASSUME NEW g \in Groups, FinishTask(g) PROVE FilesOK
  BY <1>8 DEF FinishTask
<1>9. ASSUME NEW g \in Groups, RetryTimerFires(g) PROVE FilesOK
  <2>1. retryTimers[g] - 1 \in Nat
    BY <1>9 DEF RetryTimerFires
  <2>2. /\ retryTimers' = [retryTimers EXCEPT ![g] = @ - 1]
        /\ UNCHANGED <<closeFile, inbox>>
        /\ unserved' = [unserved EXCEPT ![g] = TRUE] \/ UNCHANGED unserved
    BY <1>9 DEF RetryTimerFires
  <2> QED BY <2>1, <2>2
<1>10. ASSUME NEW g \in Groups, NEW sentinel \in BOOLEAN,
              NEW messages \in BOOLEAN, ReadInput(g, sentinel, messages)
       PROVE  FilesOK
  <2>1. (closeFile[g] /\ ~sentinel) \in BOOLEAN
    OBVIOUS
  <2>2. closeFile' \in [Groups -> BOOLEAN]
    BY <1>10, <2>1 DEF ReadInput
  <2>3. inbox' \in [Groups -> SUBSET Texts]
    BY <1>10 DEF ReadInput
  <2> QED BY <1>10, <2>2, <2>3 DEF ReadInput
<1>11. CASE Shutdown
  BY <1>11 DEF Shutdown
<1>12. CASE UNCHANGED vars
  BY <1>12 DEF vars
<1> QED BY <1>1, <1>2, <1>3, <1>4, <1>5, <1>6, <1>7, <1>8, <1>9, <1>10,
           <1>11, <1>12 DEF Next

\* Every variable has its type in every reachable state; in particular the
\* count of running containers never goes below zero.
THEOREM TypeCorrect == Spec => []TypeOK
<1>1. Init => TypeOK
  <2> SUFFICES ASSUME Init PROVE TypeOK
    OBVIOUS
  <2>1. QueueTypeOK
    BY QueueInvInit DEF QueueInv
  <2> QED BY <2>1 DEF Init, TypeOK, QueueTypeOK
<1> QED BY <1>1, TypeOKStep, QueueInvariant, PTL DEF Spec

-----------------------------------------------------------------------------
(* What the end of a run of g does to every group.                          *)

LEMMA ReleaseEffect ==
    ASSUME QueueInv, NEW g \in Groups, groups[g].active,
           NEW s \in GroupState, ~s.active, Release(g, s),
           shuttingDown' = shuttingDown
    PROVE  /\ \/ groups'[g] = s /\ (shuttingDown \/ ~HasWork(s))
              \/ groups'[g] = BeginNext(s) /\ HasWork(s) /\ ~shuttingDown
           /\ \A h \in Groups \ {g} :
                 \/ groups'[h] = groups[h]
                 \/ /\ groups'[h] = BeginNext(groups[h])
                    /\ HasWork(groups[h])
                    /\ ~groups[h].active
                    /\ ~shuttingDown
<1>0. /\ groups \in [Groups -> GroupState]
      /\ waitingGroups \in Seq(Groups)
  BY DEF QueueInv, QueueTypeOK
<1>1. CASE groups' = [groups EXCEPT ![g] = s]
           /\ (shuttingDown \/ ~HasWork(s))
  BY <1>0, <1>1
<1>2. CASE /\ ~shuttingDown /\ HasWork(s)
           /\ groups' = [groups EXCEPT ![g] = BeginNext(s)]
  BY <1>0, <1>2
<1>3. CASE ~shuttingDown /\ ~HasWork(s)
           /\ DrainWaiting([groups EXCEPT ![g] = s], activeCount - 1)
  <2> DEFINE w == waitingGroups[1]
  <2>1. CASE waitingGroups = <<>>
    BY <1>1, <1>3, <2>1, DrainStartsOne
  <2>2. CASE waitingGroups # <<>>
    <3>1. groups' = [[groups EXCEPT ![g] = s] EXCEPT ![w] = BeginNext(groups[w])]
      BY <1>3, <2>2, DrainStartsOne
    <3>2. 1 \in DOMAIN waitingGroups /\ w \in Groups
      BY <1>0, <2>2
    <3>3. ~groups[w].active /\ HasWork(groups[w]) /\ w # g
      BY <3>2 DEF QueueInv, WaitingSound
    <3> HIDE DEF w
    <3> QED BY <1>0, <1>3, <3>1, <3>2, <3>3
  <2> QED BY <2>1, <2>2
<1> QED BY <1>1, <1>2, <1>3 DEF Release

-----------------------------------------------------------------------------
(***************************************************************************)
(* The group queue implements SlotPool.  The refinement mapping is in      *)
(* GroupQueue; QueueInv is what makes every step of the queue one of the   *)
(* pool's: the counter it tests is the number of holders (SlotsExact), the *)
(* list it pops names groups that take the slot (WaitingSound), and a slot *)
(* is free only when nobody waits (WorkConserving).                        *)
(***************************************************************************)
PoolStep ==
    \/ Pool!PoolNext
    \/ UNCHANGED <<activeCount, ActiveGroups, waitingGroups, shuttingDown>>

\* A step that lets every group keep its run, and leaves the line as it is.
LEMMA SameHolders ==
    ASSUME QueueTypeOK, NEW g \in Groups, NEW s \in GroupState,
           s.active = groups[g].active,
           groups' = [groups EXCEPT ![g] = s],
           UNCHANGED <<activeCount, waitingGroups, shuttingDown>>
    PROVE  PoolStep
BY ActiveKept DEF PoolStep

LEMMA TakesFreeSlot ==
    ASSUME QueueInv, ~shuttingDown, NEW g \in Groups, ~groups[g].active,
           activeCount < MaxConcurrent,
           NEW s \in GroupState, s.active,
           groups' = [groups EXCEPT ![g] = s],
           activeCount' = activeCount + 1,
           UNCHANGED <<waitingGroups, shuttingDown>>
    PROVE  PoolStep
<1>1. waitingGroups = <<>> /\ activeCount \in Int /\ MaxConcurrent \in Nat
  BY QueueAssumption DEF QueueInv, QueueTypeOK, WorkConserving
<1>2. ActiveGroups' = ActiveGroups \cup {g} /\ g \notin ActiveGroups
  BY DEF ActiveGroups, QueueInv, QueueTypeOK
<1>3. Pool!Take(g)
  BY <1>1, <1>2 DEF Pool!Take
<1> QED BY <1>3 DEF PoolStep, Pool!PoolNext

\* A group that finds all slots taken gets in line, or is in line already.
LEMMA GetsInLine ==
    ASSUME QueueInv, ~shuttingDown, NEW g \in Groups, ~groups[g].active,
           activeCount >= MaxConcurrent,
           NEW s \in GroupState, ~s.active,
           groups' = [groups EXCEPT ![g] = s],
           Enlist(g), UNCHANGED <<activeCount, shuttingDown>>
    PROVE  PoolStep
<1>0. QueueTypeOK /\ s.active = groups[g].active
  BY DEF QueueInv, QueueTypeOK, GroupState
<1>1. ActiveGroups' = ActiveGroups
  BY <1>0, ActiveKept
<1>2. CASE Waiting(g)
  BY <1>1, <1>2 DEF Enlist, Waiting, PoolStep
<1>3. CASE ~Waiting(g)
  <2>1. waitingGroups' = Append(waitingGroups, g)
    BY <1>3 DEF Enlist, Waiting
  <2>2. g \notin ActiveGroups /\ MaxConcurrent - activeCount = 0
    BY QueueAssumption DEF ActiveGroups, QueueInv, QueueTypeOK, SlotsExact
  <2>3. Pool!GetInLine(g)
    BY <1>1, <1>3, <2>1, <2>2 DEF Pool!GetInLine, Pool!InLine, Waiting
  <2> QED BY <2>3 DEF PoolStep, Pool!PoolNext
<1> QED BY <1>2, <1>3

LEMMA EnqueueMessageCheckPools ==
    ASSUME QueueInv, ~shuttingDown, NEW g \in Groups, EnqueueMessageCheck(g),
           UNCHANGED shuttingDown
    PROVE  PoolStep
<1>0. QueueTypeOK /\ groups[g] \in GroupState
  BY DEF QueueInv, QueueTypeOK
<1> DEFINE p == [groups[g] EXCEPT !.pendingMessages = TRUE]
<1>1. p \in GroupState /\ p.active = groups[g].active
  BY <1>0 DEF GroupState
<1>2. CASE /\ groups' = [groups EXCEPT ![g].pendingMessages = TRUE]
           /\ \/ UNCHANGED <<activeCount, waitingGroups>>
              \/ /\ ~groups[g].active
                 /\ activeCount >= MaxConcurrent
                 /\ Enlist(g)
                 /\ activeCount' = activeCount
  <2>1. groups' = [groups EXCEPT ![g] = p]
    BY <1>2
  <2> HIDE DEF p
  <2>2. CASE UNCHANGED <<activeCount, waitingGroups>>
    BY <1>0, <1>1, <2>1, <2>2, SameHolders
  <2>3. CASE ~groups[g].active /\ activeCount >= MaxConcurrent
             /\ Enlist(g) /\ activeCount' = activeCount
    BY <1>1, <2>1, <2>3, GetsInLine
  <2> QED BY <1>2, <2>2, <2>3
<1>3. CASE /\ ~groups[g].active
           /\ activeCount < MaxConcurrent
           /\ groups' = [groups EXCEPT ![g] = BeginMessages(groups[g])]
           /\ activeCount' = activeCount + 1
           /\ waitingGroups' = waitingGroups
  BY <1>0, <1>3, BeginMessagesState, TakesFreeSlot
<1> QED BY <1>2, <1>3 DEF EnqueueMessageCheck

LEMMA EnqueueTaskPools ==
    ASSUME QueueInv, NEW g \in Groups, NEW t \in Tasks, EnqueueTask(g, t)
    PROVE  PoolStep
<1>0. /\ QueueTypeOK /\ groups[g] \in GroupState
      /\ ~shuttingDown /\ UNCHANGED shuttingDown
  BY DEF QueueInv, QueueTypeOK, EnqueueTask
<1> DEFINE p == [groups[g] EXCEPT !.pendingTasks = Append(@, t)]
<1>1. p \in GroupState /\ p.active = groups[g].active
  <2>1. Append(groups[g].pendingTasks, t) \in Seq(Tasks)
    BY <1>0 DEF GroupState
  <2> QED BY <1>0, <2>1 DEF GroupState
<1>2. CASE groups' = [groups EXCEPT ![g].pendingTasks = Append(@, t)]
           /\ UNCHANGED <<activeCount, waitingGroups>>
  <2>1. groups' = [groups EXCEPT ![g] = p]
    BY <1>2
  <2> HIDE DEF p
  <2> QED BY <1>0, <1>1, <1>2, <2>1, SameHolders
<1>3. CASE /\ groups' = [groups EXCEPT ![g].pendingTasks = Append(@, t)]
           /\ ~groups[g].active
           /\ activeCount >= MaxConcurrent
           /\ activeCount' = activeCount
           /\ Enlist(g)
  <2>1. groups' = [groups EXCEPT ![g] = p]
    BY <1>3
  <2> HIDE DEF p
  <2> QED BY <1>0, <1>1, <1>3, <2>1, GetsInLine
<1>4. CASE /\ ~groups[g].active
           /\ activeCount < MaxConcurrent
           /\ groups' = [groups EXCEPT ![g] = BeginTask(groups[g], t)]
           /\ activeCount' = activeCount + 1
           /\ waitingGroups' = waitingGroups
  BY <1>0, <1>4, BeginTaskState, TakesFreeSlot
<1> QED BY <1>2, <1>3, <1>4 DEF EnqueueTask

\* The end of a run gives the slot back, keeps it for the group's own next
\* run, or hands it to the head of the line.
LEMMA ReleasePools ==
    ASSUME QueueInv, NEW g \in Groups, groups[g].active,
           NEW s \in GroupState, ~s.active, Release(g, s),
           UNCHANGED shuttingDown
    PROVE  PoolStep
<1>0. /\ QueueTypeOK
      /\ groups \in [Groups -> GroupState]
      /\ waitingGroups \in Seq(Groups)
  BY DEF QueueInv, QueueTypeOK
<1>1. CASE /\ groups' = [groups EXCEPT ![g] = s]
           /\ activeCount' = activeCount - 1
           /\ waitingGroups' = waitingGroups
           /\ shuttingDown \/ waitingGroups = <<>>
  <2>1. ActiveGroups' = ActiveGroups \ {g} /\ g \in ActiveGroups
    BY <1>0, <1>1 DEF ActiveGroups
  <2>2. activeCount \in Int /\ MaxConcurrent \in Nat
    BY <1>0, QueueAssumption DEF QueueTypeOK
  <2>3. Pool!GiveBack(g)
    BY <1>1, <2>1, <2>2 DEF Pool!GiveBack
  <2> QED BY <2>3 DEF PoolStep, Pool!PoolNext
<1>2. CASE /\ HasWork(s)
           /\ groups' = [groups EXCEPT ![g] = BeginNext(s)]
           /\ UNCHANGED <<activeCount, waitingGroups>>
  BY <1>0, <1>2, BeginNextState, SameHolders
<1>3. CASE ~shuttingDown /\ waitingGroups # <<>>
           /\ DrainWaiting([groups EXCEPT ![g] = s], activeCount - 1)
  <2> DEFINE w == waitingGroups[1]
             b == BeginNext(groups[w])
  <2>1. /\ groups' = [[groups EXCEPT ![g] = s] EXCEPT ![w] = b]
        /\ waitingGroups' = Tail(waitingGroups)
        /\ activeCount' = activeCount
    BY <1>3, DrainStartsOne
  <2>2. /\ 1 \in DOMAIN waitingGroups
        /\ w \in Groups
        /\ w = Head(waitingGroups)
    BY <1>0, <1>3
  <2>3. ~groups[w].active /\ HasWork(groups[w]) /\ w # g
    BY <2>2 DEF QueueInv, WaitingSound
  <2>4. b.active
    BY <1>0, <2>2, <2>3, BeginNextState
  <2> HIDE DEF b, w
  <2>5. ActiveGroups' = (ActiveGroups \ {g}) \cup {w} /\ g \in ActiveGroups
    BY <1>0, <2>1, <2>2, <2>3, <2>4 DEF ActiveGroups
  <2>6. Pool!HandOver(g)
    BY <1>3, <2>1, <2>2, <2>5 DEF Pool!HandOver
  <2> QED BY <2>6 DEF PoolStep, Pool!PoolNext
<1>4. CASE ~shuttingDown /\ waitingGroups = <<>>
           /\ DrainWaiting([groups EXCEPT ![g] = s], activeCount - 1)
  BY <1>1, <1>4, DrainStartsOne
<1> QED BY <1>1, <1>2, <1>3, <1>4 DEF Release

LEMMA PoolStepTaken == QueueInv /\ [Next]_vars => PoolStep
<1> SUFFICES ASSUME QueueInv, [Next]_vars PROVE PoolStep
  OBVIOUS
<1>0. QueueTypeOK /\ groups \in [Groups -> GroupState]
  BY DEF QueueInv, QueueTypeOK
<1>1. ASSUME UNCHANGED <<queueVars, shuttingDown>> PROVE PoolStep
  BY <1>1 DEF PoolStep, ActiveGroups, queueVars
<1>2. ASSUME NEW g \in Groups, RequestMessageCheck(g) \/ RetryTimerFires(g)
      PROVE  PoolStep
  BY <1>1, <1>2, EnqueueMessageCheckPools
     DEF RequestMessageCheck, RetryTimerFires, queueVars
<1>3. ASSUME NEW g \in Groups, NEW t \in Tasks, EnqueueTask(g, t)
      PROVE  PoolStep
  BY <1>3, EnqueueTaskPools
<1>4. ASSUME NEW g \in Groups, NEW accepts \in BOOLEAN,
             RegisterProcess(g, accepts)
      PROVE  PoolStep
  <2> DEFINE s == [groups[g] EXCEPT !.registered = TRUE,
                                    !.acceptsFollowUpInput = accepts]
  <2>1. s \in GroupState /\ s.active = groups[g].active
    BY <1>0 DEF GroupState
  <2>2. groups' = [groups EXCEPT ![g] = s]
    BY <1>4 DEF RegisterProcess
  <2> HIDE DEF s
  <2> QED BY <1>0, <1>4, <2>1, <2>2, SameHolders DEF RegisterProcess
<1>5. ASSUME NEW g \in Groups, NEW idle \in BOOLEAN,
             groups' = [groups EXCEPT ![g].idleWaiting = idle],
             UNCHANGED <<activeCount, waitingGroups, shuttingDown>>
      PROVE  PoolStep
  <2> DEFINE s == [groups[g] EXCEPT !.idleWaiting = idle]
  <2>1. s \in GroupState /\ s.active = groups[g].active
    BY <1>0 DEF GroupState
  <2>2. groups' = [groups EXCEPT ![g] = s]
    BY <1>5
  <2> HIDE DEF s
  <2> QED BY <1>0, <1>5, <2>1, <2>2, SameHolders
<1>6. ASSUME NEW g \in Groups,
             NotifyIdle(g) \/ \E text \in Texts : SendMessage(g, text)
      PROVE  PoolStep
  BY <1>5, <1>6 DEF NotifyIdle, SendMessage
<1>7. ASSUME NEW g \in Groups,
             RequestClose(g) \/ \E sentinel, messages \in BOOLEAN :
                                   ReadInput(g, sentinel, messages)
      PROVE  PoolStep
  BY <1>1, <1>7 DEF RequestClose, ReadInput, queueVars
<1>8. ASSUME NEW g \in Groups, FinishMessages(g) PROVE PoolStep
  BY <1>0, <1>8, FinishMessagesReleases, ReleasePools
<1>9. ASSUME NEW g \in Groups, FinishTask(g) PROVE PoolStep
  BY <1>0, <1>9, FinishTaskReleases, ReleasePools
<1>10. CASE Shutdown
  <2>1. ActiveGroups' = ActiveGroups
    BY <1>10 DEF Shutdown, queueVars, ActiveGroups
  <2>2. Pool!Close
    BY <1>10, <2>1 DEF Shutdown, queueVars, Pool!Close
  <2> QED BY <2>2 DEF PoolStep, Pool!PoolNext
<1>11. CASE UNCHANGED vars
  BY <1>1, <1>11 DEF vars, queueVars
<1> QED BY <1>2, <1>3, <1>4, <1>6, <1>7, <1>8, <1>9, <1>10, <1>11 DEF Next

\* The queue implements the pool of slots: initial states map to initial
\* states, and every step to a step of the pool or to none.
THEOREM QueueImplementsPool == Spec => PoolImplemented
<1>1. Init => Pool!PoolInit
  <2> SUFFICES ASSUME Init PROVE Pool!PoolInit
    OBVIOUS
  <2>1. \A g \in Groups : groups[g].active = FALSE
    BY DEF Init, FreshGroup
  <2>2. activeCount = 0 /\ MaxConcurrent \in Nat
    BY QueueAssumption DEF Init
  <2>3. MaxConcurrent - activeCount = MaxConcurrent
    BY <2>2
  <2> QED BY <2>1, <2>3 DEF Init, Pool!PoolInit, ActiveGroups
<1>2. QueueInv /\ [Next]_vars => [Pool!PoolNext]_(Pool!poolVars)
  BY PoolStepTaken DEF PoolStep, Pool!poolVars
<1> QED BY <1>1, <1>2, QueueInvariant, PTL DEF Spec, PoolImplemented, Pool!PoolSpec
=============================================================================
