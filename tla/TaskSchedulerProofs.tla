------------------------- MODULE TaskSchedulerProofs -------------------------
(***************************************************************************)
(* Proofs about TaskScheduler.  The stored counter can be written from a   *)
(* stale copy because the copy's count is still the right one: while a copy*)
(* waits or runs, the row is counted by nobody else (CopyInv).             *)
(***************************************************************************)
EXTENDS TaskScheduler, TLAPS

USE SchedulerAssumption

\* A copy that waits or runs counts the leaked runs, as the row did when the
\* poll took it; and no copy waits during a run.
CopyInv ==
    /\ queued # NoCopy => run.pc = "none" /\ queued.runs = leaked
    /\ run.pc # "none" => run.task.runs = leaked

CountInv == TypeOK /\ CopyInv /\ CountExact

\* A task that may be started is owed a run.
OwedInv ==
    /\ queued # NoCopy => owed # "nothing"
    /\ row.exists /\ row.next = "past" /\ run.pc = "none" => owed # "nothing"

-----------------------------------------------------------------------------
LEMMA AdvanceRow ==
    ASSUME NEW task \in Row, NEW r \in Row
    PROVE  /\ Advance(task, r) \in Row
           /\ Advance(task, r).exists = r.exists
           /\ Advance(task, r).runs = r.runs
           /\ Advance(task, r).next # "past"
<1>1. CASE task.kind = "once"
  BY <1>1 DEF Advance, Row
<1>2. CASE task.kind # "once"
  BY <1>2 DEF Advance, Row
<1> QED BY <1>1, <1>2

\* A user's edit keeps the stored count, and makes nothing due.
LEMMA EditedRow ==
    ASSUME row \in Row, UserEdits
    PROVE  /\ row' \in Row
           /\ row'.runs = row.runs
           /\ row'.exists => row.exists
           /\ row'.next = "past" => row.next = "past"
<1>1. CASE Pause
  BY <1>1 DEF Pause, Row
<1>2. CASE Resume
  BY <1>2 DEF Resume, Row
<1>3. CASE Cancel
  BY <1>3 DEF Cancel, Row
<1>4. ASSUME NEW kind \in {"once", "recurring"}, NEW valid \in BOOLEAN,
             row' = [row EXCEPT !.kind = kind, !.valid = valid]
      PROVE  /\ row' \in Row
             /\ row'.runs = row.runs
             /\ row'.exists = row.exists
             /\ row'.next = row.next
  BY <1>4 DEF Row
<1>5. CASE EditOnDashboard
  <2>1. PICK kind \in {"once", "recurring"}, valid \in BOOLEAN,
             status \in {"active", "paused", "completed"}, limit \in Limits :
          row' = [row EXCEPT !.kind = kind, !.valid = valid,
                             !.status = status, !.limit = limit]
    BY <1>5 DEF EditOnDashboard
  <2> QED BY <2>1 DEF Row
<1>6. CASE EditThroughIpc
  <2>1. CASE row' = [row EXCEPT !.kind = "recurring", !.valid = TRUE,
                                !.next = "future"]
    BY <2>1 DEF Row
  <2> QED BY <1>4, <1>6, <2>1 DEF EditThroughIpc
<1> QED BY <1>1, <1>2, <1>3, <1>5, <1>6 DEF UserEdits

LEMMA CountedRow ==
    ASSUME TypeOK, CountRun
    PROVE  /\ queued \in Row
           /\ row' \in Row
           /\ row'.exists => row'.runs = OneMore(queued.runs)
           /\ row'.exists => row.exists
           /\ row'.next = "past" => row.next = "past"
<1>1. row \in Row /\ queued \in Row
  BY DEF TypeOK, CountRun, Dequeue
<1>2. OneMore(queued.runs) \in 0 .. MaxCount
  BY <1>1 DEF OneMore, Row
<1> DEFINE r == [row EXCEPT !.runs = OneMore(queued.runs)]
<1>3. /\ r \in Row
      /\ r.runs = OneMore(queued.runs)
      /\ r.next = row.next
  BY <1>1, <1>2 DEF Row
<1> QED BY <1>1, <1>3 DEF CountRun, Write

LEMMA RefusedRow ==
    ASSUME row \in Row, RefuseFolder
    PROVE  /\ row' \in Row
           /\ row'.runs = row.runs
           /\ row'.exists => row.exists
           /\ row'.next = "past" => row.next = "past"
BY DEF RefuseFolder, Write, Row

LEMMA TypeOKStep == TypeOK /\ [Next]_vars => TypeOK'
<1> SUFFICES ASSUME TypeOK, [Next]_vars PROVE TypeOK'
  OBVIOUS
<1> USE DEF TypeOK
<1>0. NoCopy \notin Row /\ row \in Row
  OBVIOUS
<1>1. CASE TimeComes
  BY <1>1 DEF TimeComes, UserUnchanged, Row
<1>2. CASE RunNow
  <2>1. row' \in Row
    BY <1>0, <1>2 DEF RunNow, Row
  <2> QED BY <1>2, <2>1 DEF RunNow, UserUnchanged
<1>3. CASE UserEdits
  <2>1. row' \in Row
    BY <1>0, <1>3, EditedRow
  <2> QED BY <1>3, <2>1 DEF UserEdits, UserUnchanged
<1>4. CASE GroupChanges
  BY <1>4 DEF GroupChanges
<1>5. CASE Poll
  BY <1>5 DEF Poll
<1>6. CASE RefuseFolder
  <2>1. row' \in Row
    BY <1>0, <1>6, RefusedRow
  <2> QED BY <1>6, <2>1 DEF RefuseFolder, Dequeue
<1>7. CASE RefuseGroup
  BY <1>7 DEF RefuseGroup, Dequeue
<1>8. CASE SkipAtLimit \/ SkipHeartbeat
  <2>1. Dequeue /\ Skip /\ queued \in Row
    BY <1>8 DEF SkipAtLimit, SkipHeartbeat, Dequeue
  <2>2. row' \in Row /\ owed' \in {"nothing", "occurrence", "rerun"}
    BY <2>1, AdvanceRow DEF Skip, Write
  <2> QED BY <2>1, <2>2 DEF Dequeue, Skip
<1>9. CASE StartRun
  <2>1. queued \in Row /\ row' \in Row
    BY <1>9, CountedRow DEF StartRun
  <2>2. run' \in [pc : {"agent", "hung"}, task : Row]
    BY <1>9, <2>1 DEF StartRun
  <2> QED BY <1>9, <2>1, <2>2 DEF StartRun, CountRun, Dequeue
<1>14. CASE SetupThrows
  <2>1. row' \in Row
    BY <1>14, CountedRow DEF SetupThrows
  <2> QED BY <1>14, <2>1 DEF SetupThrows, CountRun, Dequeue, OneMore
<1>10. CASE FinishRun
  <2>1. run.task \in Row /\ run.task.runs \in Nat
    BY <1>10 DEF FinishRun, Idle, Row
  <2>2. Advance(run.task, row) \in Row
    BY <2>1, AdvanceRow
  <2>3. [Advance(run.task, row) EXCEPT !.runs = run.task.runs] \in Row
    BY <2>1, <2>2 DEF Row
  <2>4. row' \in Row
    BY <1>10, <2>3 DEF FinishRun, Write
  <2> QED BY <1>10, <2>4 DEF FinishRun, OneMore
<1>11. CASE RunHangs
  <2>1. run' \in [pc : {"agent", "hung"}, task : Row]
    BY <1>11 DEF RunHangs, Idle
  <2> QED BY <1>11, <2>1 DEF RunHangs
<1>12. CASE Restart
  BY <1>12 DEF Restart, OneMore
<1>13. CASE UNCHANGED vars
  BY <1>13 DEF vars
<1> QED BY <1>1, <1>2, <1>3, <1>4, <1>5, <1>6, <1>7, <1>8, <1>9, <1>10,
           <1>11, <1>12, <1>13, <1>14 DEF Next

LEMMA InitTypeOK == Init => TypeOK
<1> SUFFICES ASSUME Init PROVE TypeOK
  OBVIOUS
<1>1. row \in Row
  BY DEF Init, Row
<1> QED BY <1>1 DEF Init, TypeOK

\* The row, the copies and the bookkeeping of the scheduler keep their types.
THEOREM TypeCorrect == Spec => []TypeOK
BY InitTypeOK, TypeOKStep, PTL DEF Spec

-----------------------------------------------------------------------------
LEMMA CountInvStep == CountInv /\ [Next]_vars => CountInv'
<1> SUFFICES ASSUME TypeOK, CopyInv, CountExact, [Next]_vars
             PROVE  CopyInv' /\ CountExact'
  BY TypeOKStep DEF CountInv
<1>0. /\ row \in Row /\ NoCopy \notin Row
      /\ queued # NoCopy => queued \in Row
      /\ leaked \in Nat
  BY DEF TypeOK
<1>1. ASSUME row'.exists => row.exists, row'.runs = row.runs,
             UNCHANGED <<run, leaked>>, queued' \in {queued, NoCopy}
      PROVE  CopyInv' /\ CountExact'
  BY <1>1 DEF CopyInv, CountExact
<1>2. CASE TimeComes \/ RunNow
  BY <1>0, <1>1, <1>2 DEF TimeComes, RunNow, UserUnchanged, Row
<1>3. CASE UserEdits
  <2>1. (row'.exists => row.exists) /\ row'.runs = row.runs
    BY <1>0, <1>3, EditedRow
  <2> QED BY <1>1, <1>3, <2>1 DEF UserEdits, UserUnchanged
<1>4. CASE GroupChanges
  BY <1>1, <1>4 DEF GroupChanges
<1>5. CASE Poll
  <2>1. row.runs = leaked
    BY <1>0, <1>5 DEF Poll, Due, CountExact
  <2> QED BY <1>5, <2>1 DEF Poll, CopyInv, CountExact
<1>6. CASE RefuseFolder
  <2>1. (row'.exists => row.exists) /\ row'.runs = row.runs
    BY <1>0, <1>6, RefusedRow
  <2> QED BY <1>1, <1>6, <2>1 DEF RefuseFolder, Dequeue
<1>7. CASE RefuseGroup
  BY <1>1, <1>7 DEF RefuseGroup, Dequeue
<1>8. CASE SkipAtLimit \/ SkipHeartbeat
  <2>1. Dequeue /\ Skip /\ queued \in Row
    BY <1>0, <1>8 DEF SkipAtLimit, SkipHeartbeat, Dequeue
  <2>2. (row'.exists => row.exists) /\ row'.runs = row.runs
    BY <1>0, <2>1, AdvanceRow DEF Skip, Write
  <2> QED BY <1>1, <2>1, <2>2 DEF Skip, Dequeue
<1>9. CASE StartRun
  <2>1. /\ queued.runs = leaked /\ queued' = NoCopy /\ leaked' = leaked
        /\ run' = [pc |-> "agent", task |-> queued]
    BY <1>9 DEF StartRun, CountRun, Dequeue, CopyInv
  <2>2. row'.exists => row'.runs = OneMore(leaked)
    BY <1>9, <2>1, CountedRow DEF StartRun
  <2> QED BY <2>1, <2>2 DEF CopyInv, CountExact
<1>14. CASE SetupThrows
  <2>1. /\ queued.runs = leaked /\ queued' = NoCopy /\ run.pc = "none"
        /\ leaked' = OneMore(leaked) /\ run' = run
    BY <1>14 DEF SetupThrows, CountRun, Dequeue, CopyInv
  <2>2. row'.exists => row'.runs = OneMore(leaked)
    BY <1>14, <2>1, CountedRow DEF SetupThrows
  <2> QED BY <2>1, <2>2 DEF CopyInv, CountExact
<1>10. CASE FinishRun
  <2>1. /\ run.task \in Row /\ run.task.runs = leaked /\ queued = NoCopy
        /\ run.pc # "none"
    BY <1>10 DEF FinishRun, CopyInv, TypeOK, Idle
  <2>2. run'.pc = "none" /\ queued' = queued
    BY <1>10 DEF FinishRun, Idle
  <2>3. CASE CanAdvance(run.task)
    <3> DEFINE r == [Advance(run.task, row) EXCEPT !.runs = run.task.runs]
    <3>1. r.runs = leaked
      BY <1>0, <2>1, AdvanceRow DEF Row
    <3>2. row'.exists => row'.runs = leaked
      BY <1>10, <2>3, <3>1 DEF FinishRun, Write
    <3>3. leaked' = leaked
      BY <1>10, <2>3 DEF FinishRun
    <3> QED BY <1>0, <2>1, <2>2, <3>2, <3>3 DEF CopyInv, CountExact
  <2>4. CASE ~CanAdvance(run.task)
    BY <1>0, <1>10, <2>1, <2>2, <2>4
       DEF FinishRun, CopyInv, CountExact
  <2> QED BY <2>3, <2>4
<1>11. CASE RunHangs
  BY <1>11 DEF RunHangs, TypeOK, Idle, CopyInv, CountExact
<1>12. CASE Restart
  BY <1>0, <1>12 DEF Restart, Idle, CopyInv, CountExact
<1>13. CASE UNCHANGED vars
  BY <1>13 DEF vars, CopyInv, CountExact
<1> QED BY <1>2, <1>3, <1>4, <1>5, <1>6, <1>7, <1>8, <1>9, <1>10, <1>11,
           <1>12, <1>13, <1>14 DEF Next

THEOREM CountInvariant == Spec => []CountInv
<1>1. Init => CountInv
  <2> SUFFICES ASSUME Init PROVE CopyInv /\ CountExact
    BY InitTypeOK DEF CountInv
  <2> QED BY DEF Init, Idle, CopyInv, CountExact, Row
<1> QED BY <1>1, CountInvStep, PTL DEF Spec

\* active_run_count is exact although it is written from copies: it is off by
\* the leaked runs and by nothing else, for every limit and schedule.
THEOREM CounterExact == Spec => []CountExact
<1>1. CountInv => CountExact
  BY DEF CountInv
<1> QED BY <1>1, CountInvariant, PTL

\* A task is skipped for its active-run limit only when a count has leaked.
THEOREM LimitReachedByLeaks == Spec => LimitMeansLeak
<1>1. CountInv /\ [Next]_vars => [SkipAtLimit => leaked > 0]_vars
  <2> SUFFICES ASSUME CountInv, SkipAtLimit PROVE leaked > 0
    OBVIOUS
  <2>1. queued \in Row /\ queued.runs = leaked
    BY DEF CountInv, CopyInv, TypeOK, SkipAtLimit, Dequeue
  <2>2. queued.limit > 0 /\ queued.runs >= queued.limit
    BY DEF SkipAtLimit, AtLimit
  <2>3. queued.limit \in 0 .. MaxCount /\ queued.runs \in 0 .. MaxCount
    BY <2>1 DEF Row
  <2> QED BY <2>1, <2>2, <2>3
<1> QED BY <1>1, CountInvariant, PTL DEF Spec, LimitMeansLeak

-----------------------------------------------------------------------------
LEMMA OwedInvStep == CountInv /\ OwedInv /\ [Next]_vars => OwedInv'
<1> SUFFICES ASSUME TypeOK, CopyInv, OwedInv, [Next]_vars PROVE OwedInv'
  BY DEF CountInv
<1>0. row \in Row /\ (queued # NoCopy => queued \in Row)
  BY DEF TypeOK
<1>1. ASSUME /\ row'.exists => row.exists
             /\ row'.next = "past" => row.next = "past",
             UNCHANGED <<run, owed>>, queued' \in {queued, NoCopy}
      PROVE  OwedInv'
  BY <1>1 DEF OwedInv
<1>2. CASE TimeComes \/ RunNow
  BY <1>2 DEF TimeComes, RunNow, OwedInv
<1>3. CASE UserEdits
  <2>1. /\ row'.exists => row.exists
        /\ row'.next = "past" => row.next = "past"
    BY <1>0, <1>3, EditedRow
  <2> QED BY <1>1, <1>3, <2>1 DEF UserEdits, UserUnchanged
<1>4. CASE GroupChanges
  BY <1>1, <1>4 DEF GroupChanges
<1>5. CASE Poll
  BY <1>5 DEF Poll, Due, OwedInv
<1>6. CASE RefuseFolder
  <2>1. /\ row'.exists => row.exists
        /\ row'.next = "past" => row.next = "past"
    BY <1>0, <1>6, RefusedRow
  <2> QED BY <1>1, <1>6, <2>1 DEF RefuseFolder, Dequeue
<1>7. CASE RefuseGroup
  BY <1>1, <1>7 DEF RefuseGroup, Dequeue
<1>8. CASE SkipAtLimit \/ SkipHeartbeat
  <2>1. Dequeue /\ Skip /\ queued \in Row
    BY <1>0, <1>8 DEF SkipAtLimit, SkipHeartbeat, Dequeue
  <2>2. queued' = NoCopy /\ run' = run
    BY <2>1 DEF Dequeue, Skip
  <2>3. CASE CanAdvance(queued)
    <3>1. ~row'.exists \/ row'.next # "past"
      BY <1>0, <2>1, <2>3, AdvanceRow DEF Skip, Write
    <3> QED BY <2>2, <3>1 DEF OwedInv
  <2>4. CASE ~CanAdvance(queued)
    BY <1>1, <2>1, <2>2, <2>4 DEF Skip
  <2> QED BY <2>3, <2>4
<1>9. CASE StartRun
  BY <1>9 DEF StartRun, CountRun, Dequeue, OwedInv
<1>14. CASE SetupThrows
  BY <1>1, <1>14, CountedRow DEF SetupThrows, CountRun, Dequeue
<1>10. CASE FinishRun
  <2>1. run.task \in Row /\ queued = NoCopy /\ queued' = queued
    BY <1>10 DEF FinishRun, CopyInv, TypeOK, Idle
  <2>2. CASE CanAdvance(run.task)
    <3> DEFINE r == [Advance(run.task, row) EXCEPT !.runs = run.task.runs]
    <3>1. r.next # "past"
      BY <1>0, <2>1, AdvanceRow DEF Row
    <3>2. ~row'.exists \/ row'.next # "past"
      BY <1>10, <2>2, <3>1 DEF FinishRun, Write
    <3> QED BY <2>1, <3>2 DEF OwedInv
  <2>3. CASE ~CanAdvance(run.task)
    BY <1>10, <2>1, <2>3 DEF FinishRun, OwedInv
  <2> QED BY <2>2, <2>3
<1>11. CASE RunHangs
  <2>1. run'.pc = "hung" /\ UNCHANGED <<queued, owed>>
    BY <1>11 DEF RunHangs, TypeOK, Idle
  <2> QED BY <2>1 DEF OwedInv
<1>12. CASE Restart
  BY <1>12 DEF Restart, OwedInv
<1>13. CASE UNCHANGED vars
  BY <1>13 DEF vars, OwedInv
<1> QED BY <1>2, <1>3, <1>4, <1>5, <1>6, <1>7, <1>8, <1>9, <1>10, <1>11,
           <1>12, <1>13, <1>14 DEF Next

\* Every start of an agent is paid for by an occurrence, a run-now, a crash
\* or a schedule that cannot be parsed: the poll, which sees the task due
\* during its whole run, adds none.
THEOREM OneAgentPerOccurrence == Spec => OncePerOccurrence
<1>1. Init => OwedInv
  BY DEF Init, OwedInv, Row
<1>2. Spec => []OwedInv
  BY <1>1, OwedInvStep, CountInvariant, PTL DEF Spec
<1>3. CountInv /\ OwedInv /\ [Next]_vars
         => [run.pc = "none" /\ run'.pc # "none" => owed # "nothing"]_vars
  <2> SUFFICES ASSUME OwedInv, Next, run.pc = "none", run'.pc # "none"
               PROVE  owed # "nothing"
    OBVIOUS
  <2>1. CASE StartRun
    BY <2>1 DEF StartRun, CountRun, Dequeue, OwedInv
  <2>2. CASE UNCHANGED run \/ run' = Idle
    BY <2>2 DEF Idle
  <2>3. CASE FinishRun \/ RunHangs
    BY <2>3 DEF FinishRun, RunHangs
  <2> QED BY <2>1, <2>2, <2>3
          DEF Next, TimeComes, RunNow, UserEdits, UserUnchanged, GroupChanges,
              Poll, RefuseFolder, RefuseGroup, SkipAtLimit, SkipHeartbeat,
              Skip, SetupThrows, Restart
<1> QED BY <1>2, <1>3, CountInvariant, PTL DEF Spec, OncePerOccurrence
=============================================================================
