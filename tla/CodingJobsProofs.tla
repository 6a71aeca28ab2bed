-------------------------- MODULE CodingJobsProofs --------------------------
(***************************************************************************)
(* Proofs about CodingJobs, for any number of calls and attempts.          *)
(***************************************************************************)
EXTENDS CodingJobs, TLAPS

USE CodingAssumption

-----------------------------------------------------------------------------
(* What the operations on a job record and on the calls give. *)

LEMMA NoJobIsJob == NoJob \in Job
BY DEF NoJob, Job, Statuses, Runners

LEMMA ToIsJob ==
    ASSUME NEW j \in Job, NEW s \in Statuses
    PROVE  /\ To(j, s) \in Job
           /\ To(j, s).status = s
           /\ To(j, s).active = j.active
           /\ To(j, s).attempts = j.attempts
           /\ To(j, s).pr = j.pr
<1> DEFINE n == j.history + 1
<1>1. n \in Nat
  BY DEF Job
<1>2. To(j, s) = [j EXCEPT !.status = s, !.history = n]
  BY DEF To
<1> HIDE DEF n
<1> QED BY <1>1, <1>2 DEF Job

LEMMA FailedIsJob ==
    ASSUME NEW j \in Job
    PROVE  Failed(j) \in Job
<1>1. "failed" \in Statuses
  BY DEF Statuses
<1> QED BY <1>1, ToIsJob DEF Failed

LEMMA PlannedIsJob ==
    ASSUME NEW j \in Job
    PROVE  Planned(j) \in Job
<1> DEFINE steps == CASE j.status = "queued"      -> 3
                      [] j.status = "investigate" -> 2
                      [] j.status = "plan"        -> 1
                      [] OTHER                    -> 0
       n == j.history + steps
<1>1. n \in Nat
  BY DEF Job
<1>2. Planned(j) = IF steps = 0 THEN j
                   ELSE [j EXCEPT !.status = "await_approval", !.history = n]
  BY DEF Planned
<1> HIDE DEF n
<1>3. [j EXCEPT !.status = "await_approval", !.history = n] \in Job
  BY <1>1 DEF Job, Statuses
<1> QED BY <1>2, <1>3

LEMMA SimulatedIsJob ==
    ASSUME NEW j \in Job
    PROVE  Simulated(j) \in Job
<1> DEFINE n == j.history + 3
<1>1. [j EXCEPT !.status = "completed", !.history = n] \in Job
  <2>1. n \in Nat
    BY DEF Job
  <2> HIDE DEF n
  <2> QED BY <2>1 DEF Job, Statuses
<1> QED BY <1>1, FailedIsJob DEF Simulated

LEMMA TerminalizedIsJob ==
    ASSUME NEW j \in Job, NEW a, NEW state \in Terminal
    PROVE  Terminalized(j, a, state) \in Job
BY DEF Terminalized, Job

LEMMA UnsuccessfulIsJob ==
    ASSUME NEW j \in Job, NEW a, NEW state \in Terminal
    PROVE  Unsuccessful(j, a, state) \in Job
BY TerminalizedIsJob, FailedIsJob DEF Unsuccessful

LEMMA FinishedIsJob ==
    ASSUME NEW j \in Job
    PROVE  Finished(j) \subseteq Job
<1>1. {"test", "completed", "await_pr_approval"} \subseteq Statuses
  BY DEF Statuses
<1> QED BY <1>1, ToIsJob DEF Finished

LEMMA FreeIsCall == Free \in Call
BY NoJobIsJob DEF Free, Call, Runners

LEMMA WaitingIsCall ==
    ASSUME NEW at \in WithCopy \cup {"run"}, NEW j \in Job
    PROVE  Waiting(at, j) \in Call
BY FreeIsCall DEF Waiting, Call

LEMMA AttemptingIsCall ==
    ASSUME NEW at \in WithAttempt, NEW a \in Attempts \cup {NoAttempt},
           NEW r \in Runners
    PROVE  Attempting(at, a, r) \in Call
BY FreeIsCall DEF Attempting, Call

CallsOK == calls \in [Calls -> Call]

LEMMA VoidedIsCalls ==
    ASSUME CallsOK
    PROVE  Voided \in [Calls -> Call]
<1> SUFFICES ASSUME NEW c \in Calls
             PROVE  [calls[c] EXCEPT !.at = "voided"] \in Call
  BY DEF Voided, CallsOK
<1> QED BY DEF CallsOK, Call, WithCopy

LEMMA GoesIsCalls ==
    ASSUME CallsOK, NEW c \in Calls, NEW call \in Call, Goes(c, call)
    PROVE  calls' \in [Calls -> Call]
BY DEF Goes, CallsOK

LEMMA PendingIsCount ==
    ASSUME pending \in [Kinds -> Nat], NEW k \in Kinds
    PROVE  /\ Reviewed(k) \in [Kinds -> Nat]
           /\ Requested(k) \in [Kinds -> Nat]
<1>1. pending[k] \in Nat
  OBVIOUS
<1>2. (IF pending[k] > 0 THEN pending[k] - 1 ELSE 0) \in Nat
  BY <1>1
<1>3. (IF pending[k] > 0 THEN pending[k] ELSE 1) \in Nat
  BY <1>1
<1> QED BY <1>2, <1>3 DEF Reviewed, Requested

-----------------------------------------------------------------------------
(* Type correctness.  A call at work on an attempt has one: without that a   *)
(* process might be registered under no attempt at all.                      *)

AttemptsKnown ==
    \A c \in Calls : calls[c].at \in WithAttempt => calls[c].attempt \in Attempts

TypeInv == TypeOK /\ AttemptsKnown

ProcTypeOK ==
    /\ alive \subseteq Attempts \X Processes
    /\ leases \in [Attempts -> {"none"} \cup Processes]
    /\ terminating \subseteq Attempts

LEMMA RegistryTypes ==
    ASSUME ProcTypeOK, NEW a \in Attempts, NEW p \in Processes,
           Spawned(a, p) \/ Closed(a, p) \/ Terminated(a)
    PROVE  ProcTypeOK'
<1>1. CASE Spawned(a, p)
  BY <1>1 DEF ProcTypeOK, Spawned
<1>2. CASE Closed(a, p)
  BY <1>2 DEF ProcTypeOK, Closed
<1>3. CASE Terminated(a)
  BY <1>3 DEF ProcTypeOK, Terminated
<1> QED BY <1>1, <1>2, <1>3

\* A step that changes the call c alone, to a call with an attempt if any.
LEMMA CallKnown ==
    ASSUME CallsOK, AttemptsKnown, NEW c \in Calls, NEW call \in Call,
           Goes(c, call),
           call.at \in WithAttempt => call.attempt \in Attempts
    PROVE  CallsOK' /\ AttemptsKnown'
BY DEF Goes, CallsOK, AttemptsKnown

LEMMA ReturnsKnown ==
    ASSUME CallsOK, AttemptsKnown, NEW c \in Calls, Returns(c)
    PROVE  CallsOK' /\ AttemptsKnown'
<1>1. Free.at \notin WithAttempt
  BY DEF Free, WithAttempt, InGit
<1> QED BY <1>1, FreeIsCall, CallKnown DEF Returns

LEMMA WaitingKnown ==
    ASSUME CallsOK, AttemptsKnown, NEW c \in Calls,
           NEW at \in WithCopy \cup {"run"}, NEW j \in Job,
           Goes(c, Waiting(at, j))
    PROVE  CallsOK' /\ AttemptsKnown'
<1>1. Waiting(at, j).at \notin WithAttempt
  BY DEF Waiting, Free, WithAttempt, WithCopy, InGit
<1> QED BY <1>1, WaitingIsCall, CallKnown

LEMMA AttemptingKnown ==
    ASSUME CallsOK, AttemptsKnown, NEW c \in Calls,
           NEW at \in WithAttempt, NEW a \in Attempts, NEW r \in Runners,
           Goes(c, Attempting(at, a, r))
    PROVE  CallsOK' /\ AttemptsKnown'
<1>1. Attempting(at, a, r).attempt \in Attempts
  BY DEF Attempting, Free
<1> QED BY <1>1, AttemptingIsCall, CallKnown

LEMMA OnwardKnown ==
    ASSUME CallsOK, AttemptsKnown, NEW c \in Calls, NEW at \in WithAttempt,
           calls[c].attempt \in Attempts, Goes(c, Onward(c, at))
    PROVE  CallsOK' /\ AttemptsKnown'
<1>1. calls[c].runner \in Runners
  BY DEF CallsOK, Call
<1> QED BY <1>1, AttemptingKnown DEF Onward

LEMMA BegunKnown ==
    ASSUME CallsOK, AttemptsKnown, NEW c \in Calls, NEW a \in Attempts,
           Goes(c, Begun(c, a))
    PROVE  CallsOK' /\ AttemptsKnown'
<1>1. calls[c].copy.runner \in Runners /\ "preparing" \in WithAttempt
  BY DEF CallsOK, Call, Job, WithAttempt
<1> QED BY <1>1, AttemptingKnown DEF Begun

LEMMA VoidedKnown ==
    ASSUME CallsOK, AttemptsKnown, calls' = Voided
    PROVE  CallsOK' /\ AttemptsKnown'
<1>1. CallsOK'
  BY VoidedIsCalls DEF CallsOK
<1>2. "voided" \notin WithAttempt
  BY DEF WithAttempt, InGit
<1>3. \A c \in Calls :
         calls'[c] = IF calls[c].at = "fallback"
                     THEN [calls[c] EXCEPT !.at = "voided"] ELSE calls[c]
  BY DEF Voided
<1>4. ASSUME NEW c \in Calls, calls'[c].at \in WithAttempt
      PROVE  calls'[c].attempt \in Attempts
  <2>1. calls[c] \in Call
    BY DEF CallsOK
  <2>2. calls'[c] = calls[c]
    BY <1>2, <1>3, <1>4, <2>1 DEF Call
  <2> QED BY <1>4, <2>2 DEF AttemptsKnown
<1> QED BY <1>1, <1>4 DEF AttemptsKnown


RecordTypeOK ==
    /\ job \in Job
    /\ request \in Requests
    /\ pending \in [Kinds -> Nat]
    /\ approved \subseteq Kinds
    /\ used \subseteq Attempts
    /\ upsets \subseteq Upsets

LEMMA TypeParts ==
    TypeInv <=> RecordTypeOK /\ CallsOK /\ ProcTypeOK /\ AttemptsKnown
BY DEF TypeInv, TypeOK, RecordTypeOK, CallsOK, ProcTypeOK

LEMMA OverwritesTypes ==
    ASSUME RecordTypeOK, NEW c, NEW what \in
               {"probe", "fallback", "publish", "refresh", "close"},
           Overwrites(c, what)
    PROVE  upsets' \subseteq Upsets
BY DEF RecordTypeOK, Overwrites, Upsets

LEMMA RunBeginsTypes ==
    ASSUME TypeInv, NEW c \in Calls, RunBegins(c)
    PROVE  TypeInv'
<1>0. RecordTypeOK /\ CallsOK /\ ProcTypeOK /\ AttemptsKnown
  BY TypeParts
<1>1. /\ UNCHANGED <<request, approved, used>>
      /\ ProcTypeOK'
      /\ upsets' \subseteq Upsets
  BY <1>0 DEF RunBegins, RecordTypeOK, procVars, ProcTypeOK, Upsets
<1>2. job \in Job /\ Planned(job) \in Job
  BY <1>0, PlannedIsJob DEF RecordTypeOK
<1>3. /\ Requested("implement") \in [Kinds -> Nat]
      /\ Requested("fallback") \in [Kinds -> Nat]
  BY <1>0, PendingIsCount DEF RecordTypeOK, Kinds
<1>4. ASSUME job' \in Job, pending' \in [Kinds -> Nat], CallsOK', AttemptsKnown'
      PROVE  TypeInv'
  BY <1>0, <1>1, <1>4, TypeParts DEF RecordTypeOK, ProcTypeOK, CallsOK,
     AttemptsKnown, TypeInv, TypeOK
<1>5. CASE Returns(c) /\ pending' = pending /\ job' = job
  BY <1>0, <1>4, <1>5, ReturnsKnown DEF RecordTypeOK
<1>6. CASE /\ Returns(c) /\ pending' = pending
           /\ \/ job' = Failed(job)
              \/ job' \in {Simulated(Planned(job)), Failed(Planned(job))}
  <2>1. job' \in Job
    BY <1>2, <1>6, FailedIsJob, SimulatedIsJob
  <2> QED BY <1>0, <1>4, <1>6, <2>1, ReturnsKnown DEF RecordTypeOK
<1>7. CASE RunParks(c, Planned(job))
  BY <1>0, <1>2, <1>3, <1>4, <1>7, ReturnsKnown DEF RecordTypeOK, RunParks
<1>8. CASE RunAsksApproval(c, Planned(job))
  BY <1>0, <1>2, <1>3, <1>4, <1>8, ReturnsKnown DEF RecordTypeOK, RunAsksApproval
<1>9. CASE RunGoesAhead(c, Planned(job))
  <2> DEFINE k == IF Planned(job).status = "await_approval"
                  THEN To(Planned(job), "implement") ELSE Planned(job)
  <2>1. "implement" \in Statuses /\ "probing" \in WithCopy
    BY DEF Statuses, WithCopy
  <2>2. k \in Job
    BY <1>2, <2>1, ToIsJob
  <2>3. /\ pending' = pending
        /\ \/ job' = Failed(k) /\ Returns(c)
           \/ job' = k /\ Goes(c, Waiting("probing", k))
    BY <1>9 DEF RunGoesAhead
  <2> HIDE DEF k
  <2>4. CASE job' = Failed(k) /\ Returns(c)
    BY <1>0, <1>4, <2>2, <2>3, <2>4, FailedIsJob, ReturnsKnown DEF RecordTypeOK
  <2>5. CASE job' = k /\ Goes(c, Waiting("probing", k))
    BY <1>0, <1>4, <2>1, <2>2, <2>3, <2>5, WaitingKnown DEF RecordTypeOK
  <2> QED BY <2>3, <2>4, <2>5
<1> QED BY <1>5, <1>6, <1>7, <1>8, <1>9 DEF RunBegins


LEMMA TypesMeet ==
    ASSUME RecordTypeOK', CallsOK', ProcTypeOK', AttemptsKnown'
    PROVE  TypeInv'
BY DEF TypeInv, TypeOK, RecordTypeOK, CallsOK, ProcTypeOK

LEMMA StepTypes ==
    ASSUME RecordTypeOK, job' \in Job, pending' \in [Kinds -> Nat],
           request' = request, approved' \subseteq Kinds,
           used' \subseteq Attempts,
           upsets' \subseteq Upsets
    PROVE  RecordTypeOK'
BY DEF RecordTypeOK

\* The steps of a run after its beginning.
LEMMA RunTypes ==
    ASSUME TypeInv, NEW c \in Calls, Run(c)
    PROVE  TypeInv'
<1>0. /\ RecordTypeOK /\ CallsOK /\ ProcTypeOK /\ AttemptsKnown
      /\ job \in Job /\ pending \in [Kinds -> Nat] /\ approved \subseteq Kinds
      /\ used \subseteq Attempts
      /\ upsets \subseteq Upsets
  BY TypeParts DEF RecordTypeOK
<1> DEFINE a == calls[c].attempt
       p == calls[c].runner
<1>p. p \in Processes
  BY <1>0 DEF CallsOK, Call, Processes
<1>g. "git" \in Processes
  BY DEF Processes
<1>a. calls[c].at \in WithAttempt => a \in Attempts
  BY <1>0 DEF AttemptsKnown
<1>b. {"failed", "timed_out", "cancelled", "succeeded"} \subseteq Terminal
  BY DEF Terminal
<1>c. /\ {"preparing", "inGit", "gitTimedOut", "prepared", "launching",
          "working", "ended"} = WithAttempt
      /\ InGit = {"inGit", "gitTimedOut"}
  BY DEF WithAttempt, InGit
<1>1. CASE RunBegins(c)
  BY <1>1, RunBeginsTypes
<1>2. CASE ProbeAnswered(c)
  <2>0. ProcTypeOK' /\ UNCHANGED <<request, pending, approved>>
    BY <1>0, <1>2 DEF ProbeAnswered, procVars, ProcTypeOK
  <2>1. CASE job' = Failed(job) /\ Returns(c) /\ UNCHANGED <<used, upsets>>
    BY <1>0, <2>0, <2>1, FailedIsJob, ReturnsKnown, StepTypes, TypesMeet
  <2>2. CASE \E b \in Attempts \ used :
                /\ job' = [calls[c].copy EXCEPT !.attempts[b] = "preparing",
                                                !.active = b]
                /\ used' = used \cup {b}
                /\ Goes(c, Begun(c, b))
                /\ Overwrites(c, "probe")
    <3> PICK b \in Attempts \ used :
                /\ job' = [calls[c].copy EXCEPT !.attempts[b] = "preparing",
                                                !.active = b]
                /\ used' = used \cup {b}
                /\ Goes(c, Begun(c, b))
                /\ Overwrites(c, "probe")
      BY <2>2
    <3>1. calls[c].copy \in Job
      BY <1>0 DEF CallsOK, Call
    <3>2. job' \in Job
      BY <3>1 DEF Job, Open
    <3>3. CallsOK' /\ AttemptsKnown'
      BY <1>0, BegunKnown
    <3> QED BY <1>0, <2>0, <3>2, <3>3, OverwritesTypes, StepTypes, TypesMeet
  <2> QED BY <1>2, <2>1, <2>2 DEF ProbeAnswered
<1>3. CASE GitStarts(c)
  <2>1. /\ a \in Attempts /\ Spawned(a, "git")
        /\ Goes(c, Onward(c, "inGit"))
        /\ UNCHANGED <<job, request, pending, approved, used, upsets>>
    BY <1>a, <1>c, <1>3 DEF GitStarts
  <2> QED BY <1>0, <1>c, <2>1, <1>p, <1>g, RegistryTypes, OnwardKnown, StepTypes, TypesMeet
<1>4. CASE GitTimesOut(c)
  <2>1. /\ a \in Attempts /\ Terminated(a)
        /\ Goes(c, Onward(c, "gitTimedOut"))
        /\ UNCHANGED <<job, request, pending, approved, used, upsets>>
    BY <1>a, <1>c, <1>4 DEF GitTimesOut
  <2> QED BY <1>0, <1>c, <2>1, <1>p, <1>g, RegistryTypes, OnwardKnown, StepTypes, TypesMeet
<1>5. CASE GitEnds(c)
  <2>1. /\ a \in Attempts /\ Closed(a, "git")
        /\ UNCHANGED <<request, pending, approved, used, upsets>>
        /\ \/ Goes(c, Onward(c, "prepared")) /\ job' = job
           \/ /\ Returns(c)
              /\ \/ job' = Unsuccessful(job, a, "failed")
                 \/ job' = Unsuccessful(job, a, "timed_out")
                 \/ job' = Terminalized(job, a, "cancelled")
                 \/ job' = job
    BY <1>a, <1>c, <1>5 DEF GitEnds
  <2>2. ProcTypeOK'
    BY <1>0, <2>1, <1>p, <1>g, RegistryTypes
  <2>3. job' \in Job
    BY <1>0, <1>b, <2>1, UnsuccessfulIsJob, TerminalizedIsJob
  <2>4. CallsOK' /\ AttemptsKnown'
    BY <1>0, <1>c, <2>1, OnwardKnown, ReturnsKnown
  <2> QED BY <1>0, <2>1, <2>2, <2>3, <2>4, StepTypes, TypesMeet
<1>6. CASE PrepareDone(c)
  <2>1. /\ a \in Attempts
        /\ UNCHANGED <<request, pending, approved, used, upsets>>
        /\ ProcTypeOK'
        /\ \/ /\ job' = [job EXCEPT !.attempts[a] = "running"]
              /\ Goes(c, Onward(c, "launching"))
           \/ job' = job /\ Returns(c)
    BY <1>0, <1>a, <1>c, <1>6 DEF PrepareDone, procVars, ProcTypeOK
  <2>2. job' \in Job
    BY <1>0, <2>1 DEF Job, Open
  <2>3. CallsOK' /\ AttemptsKnown'
    BY <1>0, <1>c, <2>1, OnwardKnown, ReturnsKnown
  <2> QED BY <1>0, <2>1, <2>2, <2>3, StepTypes, TypesMeet
<1>7. CASE RunFails(c)
  <2>1. /\ UNCHANGED <<request, pending, approved, used, upsets>>
        /\ ProcTypeOK'
        /\ job' = Unsuccessful(job, a, "failed") /\ Returns(c)
    BY <1>0, <1>7 DEF RunFails, procVars, ProcTypeOK
  <2> QED BY <1>0, <1>b, <2>1, UnsuccessfulIsJob, ReturnsKnown, StepTypes, TypesMeet
<1>8. CASE AgentSpawns(c)
  <2>1. /\ a \in Attempts /\ Spawned(a, p)
        /\ Goes(c, Onward(c, "working"))
        /\ UNCHANGED <<job, request, pending, approved, used, upsets>>
    BY <1>a, <1>c, <1>8 DEF AgentSpawns
  <2> QED BY <1>0, <1>c, <2>1, <1>p, <1>g, RegistryTypes, OnwardKnown, StepTypes, TypesMeet
<1>9. CASE AgentCloses(c)
  <2>1. /\ a \in Attempts /\ Closed(a, p)
        /\ Goes(c, Onward(c, "ended"))
        /\ UNCHANGED <<job, request, pending, approved, used, upsets>>
    BY <1>a, <1>c, <1>9 DEF AgentCloses
  <2> QED BY <1>0, <1>c, <2>1, <1>p, <1>g, RegistryTypes, OnwardKnown, StepTypes, TypesMeet
<1>10. CASE AgentTimesOut(c)
  <2>1. /\ a \in Attempts
        /\ \/ Terminated(a)
           \/ /\ leases' = [leases EXCEPT ![a] = "none"]
              /\ UNCHANGED <<alive, terminating>>
        /\ job' = Unsuccessful(job, a, "timed_out") /\ Returns(c)
        /\ UNCHANGED <<request, pending, approved, used, upsets>>
    BY <1>a, <1>c, <1>10 DEF AgentTimesOut
  <2>2. ProcTypeOK'
    BY <1>0, <2>1, <1>p, <1>g, RegistryTypes DEF ProcTypeOK
  <2> QED BY <1>0, <1>b, <2>1, <2>2, UnsuccessfulIsJob, ReturnsKnown, StepTypes,
             TypesMeet
<1>11. CASE RunEnds(c)
  <2> DEFINE j == Terminalized(job, a, "succeeded")
  <2>1. j \in Job
    BY <1>0, <1>b, TerminalizedIsJob
  <2>2. /\ UNCHANGED <<request, approved, used, upsets>>
        /\ ProcTypeOK'
        /\ Returns(c)
        /\ pending' = pending \/ pending' = Requested("openPr")
        /\ \/ job' = Unsuccessful(job, a, "failed")
           \/ job' = job
           \/ job' = j
           \/ job' = Failed(j)
           \/ job' \in Finished(j)
    BY <1>0, <1>11 DEF RunEnds, procVars, ProcTypeOK
  <2> HIDE DEF j
  <2>3. job' \in Job
    BY <1>0, <1>b, <2>1, <2>2, UnsuccessfulIsJob, FailedIsJob, FinishedIsJob
  <2>4. pending' \in [Kinds -> Nat]
    BY <1>0, <2>2, PendingIsCount DEF Kinds
  <2> QED BY <1>0, <2>2, <2>3, <2>4, ReturnsKnown, StepTypes, TypesMeet
<1> QED BY <1>1, <1>2, <1>3, <1>4, <1>5, <1>6, <1>7, <1>8, <1>9, <1>10, <1>11
    DEF Run


LEMMA PublicationTypes ==
    ASSUME TypeInv, NEW c \in Calls, Publication(c)
    PROVE  TypeInv'
<1>0. /\ RecordTypeOK /\ CallsOK /\ ProcTypeOK /\ AttemptsKnown
      /\ job \in Job /\ pending \in [Kinds -> Nat] /\ approved \subseteq Kinds
      /\ used \subseteq Attempts
      /\ upsets \subseteq Upsets
      /\ calls[c].copy \in Job
  BY TypeParts DEF RecordTypeOK, CallsOK, Call
<1>1. /\ ProcTypeOK'
      /\ UNCHANGED <<request, pending, approved, used>>
  BY <1>0 DEF Publication, PublicationFails, PushDone, PostDone, procVars,
     ProcTypeOK
<1>2. CASE PublicationFails(c)
  <2>1. job' \in Job /\ Returns(c) /\ upsets' = upsets
    BY <1>0, <1>2, FailedIsJob DEF PublicationFails
  <2> QED BY <1>0, <1>1, <2>1, ReturnsKnown, StepTypes, TypesMeet
<1>3. CASE PushDone(c)
  <2>1. /\ job' = job /\ upsets' = upsets
        /\ Goes(c, Waiting("posting", calls[c].copy))
    BY <1>3 DEF PushDone
  <2>2. "posting" \in WithCopy
    BY DEF WithCopy
  <2> QED BY <1>0, <1>1, <2>1, <2>2, WaitingKnown, StepTypes, TypesMeet
<1>4. CASE PostDone(c)
  <2> DEFINE j == To(calls[c].copy, "ci_running")
  <2>1. j \in Job
    <3>1. "ci_running" \in Statuses
      BY DEF Statuses
    <3> QED BY <1>0, <3>1, ToIsJob
  <2>2. job' = [j EXCEPT !.pr = "open"] /\ Returns(c) /\ Overwrites(c, "publish")
    BY <1>4 DEF PostDone
  <2> HIDE DEF j
  <2>3. job' \in Job
    BY <2>1, <2>2 DEF Job
  <2> QED BY <1>0, <1>1, <2>2, <2>3, OverwritesTypes, ReturnsKnown, StepTypes,
             TypesMeet
<1> QED BY <1>2, <1>3, <1>4 DEF Publication

LEMMA FallbackTypes ==
    ASSUME RecordTypeOK, CallsOK, AttemptsKnown, NEW c \in Calls,
           NEW j \in Job, NEW r \in Runners, FallbackTaken(c, j, r)
    PROVE  /\ job' \in Job /\ pending' \in [Kinds -> Nat]
           /\ CallsOK' /\ AttemptsKnown'
<1>1. job' \in Job
  BY DEF FallbackTaken, Job
<1>2. pending' \in [Kinds -> Nat]
  BY PendingIsCount DEF RecordTypeOK, FallbackTaken, Kinds
<1>3. Waiting("run", NoJob) \in Call /\ Waiting("run", NoJob).at = "run"
  BY WaitingIsCall, NoJobIsJob DEF Waiting, Free
<1>4. CallsOK'
  BY <1>3, VoidedIsCalls DEF CallsOK, FallbackTaken
<1>5. ASSUME NEW d \in Calls, calls'[d].at \in WithAttempt
      PROVE  calls'[d].attempt \in Attempts
  <2>1. d # c
    BY <1>3, <1>5, VoidedIsCalls DEF WithAttempt, InGit, FallbackTaken
  <2>2. calls'[d] = IF calls[d].at = "fallback"
                    THEN [calls[d] EXCEPT !.at = "voided"] ELSE calls[d]
    BY <2>1, VoidedIsCalls DEF Voided, FallbackTaken
  <2>3. calls[d] \in Call
    BY DEF CallsOK
  <2>4. calls'[d] = calls[d]
    BY <1>5, <2>2, <2>3 DEF WithAttempt, InGit, Call
  <2> QED BY <1>5, <2>4 DEF AttemptsKnown
<1> QED BY <1>1, <1>2, <1>4, <1>5 DEF AttemptsKnown

LEMMA AnswerTypes ==
    ASSUME TypeInv, NEW c \in Calls, Answer(c)
    PROVE  TypeInv'
<1>0. /\ RecordTypeOK /\ CallsOK /\ ProcTypeOK /\ AttemptsKnown
      /\ job \in Job /\ pending \in [Kinds -> Nat] /\ approved \subseteq Kinds
      /\ used \subseteq Attempts
      /\ upsets \subseteq Upsets
      /\ calls[c].copy \in Job
  BY TypeParts DEF RecordTypeOK, CallsOK, Call
<1>1. /\ ProcTypeOK'
      /\ UNCHANGED <<request, approved, used>>
  BY <1>0 DEF Answer, FallbackAnswered, CiAnswered, RevertDone, ClosePrDone,
     procVars, ProcTypeOK
<1>2. CASE FallbackAnswered(c)
  <2>1. CASE Returns(c) /\ UNCHANGED <<job, pending, upsets>>
    BY <1>0, <1>1, <2>1, ReturnsKnown, StepTypes, TypesMeet
  <2>2. CASE FallbackTaken(c, calls[c].copy, "devin") /\ Overwrites(c, "fallback")
    BY <1>0, <1>1, <2>2, FallbackTypes, OverwritesTypes, StepTypes, TypesMeet
       DEF Runners
  <2> QED BY <1>2, <2>1, <2>2 DEF FallbackAnswered
<1>3. CASE CiAnswered(c)
  <2>1. Returns(c) /\ pending' = pending
    BY <1>3 DEF CiAnswered
  <2>2. To(calls[c].copy, "completed") \in Job
    <3>1. "completed" \in Statuses
      BY DEF Statuses
    <3> QED BY <1>0, <3>1, ToIsJob
  <2>3. /\ job' \in Job
        /\ upsets' = upsets \/ Overwrites(c, "refresh")
    BY <1>0, <1>3, <2>2 DEF CiAnswered
  <2> QED BY <1>0, <1>1, <2>1, <2>3, OverwritesTypes, ReturnsKnown, StepTypes,
             TypesMeet
<1>4. CASE RevertDone(c)
  <2>1. /\ Returns(c) /\ pending' = pending
        /\ job' = [calls[c].copy EXCEPT !.status = "cancelled"]
        /\ upsets' = upsets \/ upsets' = upsets \cup {"revert"}
    BY <1>4 DEF RevertDone
  <2>2. job' \in Job
    BY <1>0, <2>1 DEF Job, Statuses
  <2>3. upsets' \subseteq Upsets
    BY <1>0, <2>1 DEF Upsets
  <2> QED BY <1>0, <1>1, <2>1, <2>2, <2>3, ReturnsKnown, StepTypes, TypesMeet
<1>5. CASE ClosePrDone(c)
  <2>1. Returns(c) /\ pending' = pending
    BY <1>5 DEF ClosePrDone
  <2>2. [calls[c].copy EXCEPT !.pr = "closed"] \in Job
    BY <1>0 DEF Job
  <2>3. /\ job' \in Job
        /\ upsets' = upsets \/ Overwrites(c, "close")
    BY <1>0, <1>5, <2>2 DEF ClosePrDone
  <2> QED BY <1>0, <1>1, <2>1, <2>3, OverwritesTypes, ReturnsKnown, StepTypes,
             TypesMeet
<1> QED BY <1>2, <1>3, <1>4, <1>5 DEF Answer

LEMMA OwnerTypes ==
    ASSUME TypeInv, NEW c \in Calls, Owner(c)
    PROVE  TypeInv'
<1>0. /\ RecordTypeOK /\ CallsOK /\ ProcTypeOK /\ AttemptsKnown
      /\ job \in Job /\ pending \in [Kinds -> Nat] /\ approved \subseteq Kinds
      /\ used \subseteq Attempts
      /\ upsets \subseteq Upsets
      /\ NoJob \in Job
  BY TypeParts, NoJobIsJob DEF RecordTypeOK
<1>1. /\ ProcTypeOK'
      /\ UNCHANGED <<request, used, upsets>>
  BY <1>0 DEF Owner, StartJob, RetryJob, ApproveJob, RequestFallback, OpenPr,
     RefreshCi, RevertJob, ClosePr, procVars, ProcTypeOK
<1>2. {"queued", "implement", "open_pr"} \subseteq Statuses
  BY DEF Statuses
<1>3. {"implement", "openPr", "fallback", "revert"} = Kinds
  BY DEF Kinds
<1>4. {"fallback", "pushing", "lookingUp", "deleting", "closing"} \subseteq WithCopy
  BY DEF WithCopy
<1>5. ASSUME NEW at \in WithCopy \cup {"run"}, NEW j \in Job,
             Goes(c, Waiting(at, j)),
             job' \in Job, pending' \in [Kinds -> Nat], approved' \subseteq Kinds
      PROVE  TypeInv'
  BY <1>0, <1>1, <1>5, WaitingKnown, StepTypes, TypesMeet
<1>6. ASSUME calls' = calls,
             job' = job, pending' \in [Kinds -> Nat], approved' = approved
      PROVE  TypeInv'
  BY <1>0, <1>1, <1>6, StepTypes, TypesMeet DEF CallsOK, AttemptsKnown
<1>7. CASE StartJob(c)
  <2>1. [NoJob EXCEPT !.status = "queued", !.runner = request.runner] \in Job
    BY <1>0, <1>2 DEF Job, RecordTypeOK
  <2> QED BY <1>0, <1>5, <1>7, <2>1 DEF StartJob
<1>8. CASE RetryJob(c)
  BY <1>0, <1>2, <1>5, <1>8, ToIsJob DEF RetryJob
<1>9. CASE ApproveJob(c)
  BY <1>0, <1>2, <1>3, <1>5, <1>9, ToIsJob, PendingIsCount DEF ApproveJob
<1>10. CASE RequestFallback(c)
  <2>1. CASE Goes(c, Waiting("fallback", job)) /\ UNCHANGED <<job, pending>>
    BY <1>0, <1>4, <1>5, <1>10, <2>1 DEF RequestFallback
  <2>2. CASE \E r \in Fallbacks \ {"devin"} : FallbackTaken(c, job, r)
    <3>1. approved' = approved
      BY <1>10 DEF RequestFallback
    <3>2. PICK r \in Runners : FallbackTaken(c, job, r)
      BY <2>2
    <3> QED BY <1>0, <1>1, <3>1, <3>2, FallbackTypes, StepTypes, TypesMeet
  <2> QED BY <1>10, <2>1, <2>2 DEF RequestFallback
<1>11. CASE OpenPr(c)
  <2>1. To(job, "open_pr") \in Job
    BY <1>0, <1>2, ToIsJob
  <2>2. approved' = approved
    BY <1>11 DEF OpenPr
  <2>3. CASE UNCHANGED <<job, calls>> /\ pending' = Requested("openPr")
    BY <1>0, <1>3, <1>6, <2>2, <2>3, PendingIsCount
  <2>4. CASE /\ job' = To(job, "open_pr") /\ pending' = pending
             /\ Goes(c, Waiting("pushing", To(job, "open_pr")))
    BY <1>0, <1>4, <1>5, <2>1, <2>2, <2>4
  <2> QED BY <1>11, <2>3, <2>4 DEF OpenPr
<1>12. CASE RefreshCi(c)
  BY <1>0, <1>4, <1>5, <1>12 DEF RefreshCi
<1>13. CASE RevertJob(c)
  <2>1. CASE pending' = [pending EXCEPT !["revert"] = @ + 1] /\ calls' = calls
    <3>1. pending["revert"] + 1 \in Nat
      BY <1>0, <1>3
    <3> QED BY <1>0, <1>3, <1>6, <1>13, <2>1, <3>1 DEF RevertJob
  <2>2. CASE Goes(c, Waiting("deleting", job)) /\ pending' = pending
    BY <1>0, <1>4, <1>5, <1>13, <2>2 DEF RevertJob
  <2> QED BY <1>13, <2>1, <2>2 DEF RevertJob
<1>14. CASE ClosePr(c)
  BY <1>0, <1>4, <1>5, <1>14 DEF ClosePr
<1> QED BY <1>7, <1>8, <1>9, <1>10, <1>11, <1>12, <1>13, <1>14 DEF Owner

LEMMA TypeInvStep == TypeInv /\ [Next]_vars => TypeInv'
<1> SUFFICES ASSUME TypeInv, [Next]_vars PROVE TypeInv'
  OBVIOUS
<1>0. /\ RecordTypeOK /\ CallsOK /\ ProcTypeOK /\ AttemptsKnown
      /\ job \in Job /\ pending \in [Kinds -> Nat] /\ approved \subseteq Kinds
      /\ used \subseteq Attempts
      /\ upsets \subseteq Upsets
  BY TypeParts DEF RecordTypeOK
<1>1. ASSUME NEW c \in Calls, Run(c) \/ Publication(c) \/ Answer(c) \/ Owner(c)
      PROVE  TypeInv'
  BY <1>1, RunTypes, PublicationTypes, AnswerTypes, OwnerTypes
<1>2. ASSUME UNCHANGED calls \/ calls' = Voided
      PROVE  CallsOK' /\ AttemptsKnown'
  BY <1>0, <1>2, VoidedKnown DEF CallsOK, AttemptsKnown
<1>3. CASE CancelJob
  <2> DEFINE j == IF Owns(job, job.active)
                  THEN Terminalized(job, job.active, "cancelled") ELSE job
  <2>1. "cancelled" \in Terminal /\ "cancelled" \in Statuses
    BY DEF Terminal, Statuses
  <2>2. j \in Job
    BY <1>0, <2>1, TerminalizedIsJob
  <2>3. /\ job' = (IF "cancelled" \in Transitions[j.status]
                   THEN To(j, "cancelled") ELSE j)
        /\ pending' = [k \in Kinds |-> IF pending[k] > 0 THEN pending[k] - 1
                                                         ELSE 0]
        /\ UNCHANGED calls \/ calls' = Voided
        /\ terminating' = {b \in Attempts : leases[b] # "none"}
        /\ UNCHANGED <<request, approved, alive, leases, used, upsets>>
    BY <1>3 DEF CancelJob
  <2> HIDE DEF j
  <2>4. job' \in Job
    BY <2>1, <2>2, <2>3, ToIsJob
  <2>5. pending' \in [Kinds -> Nat]
    <3>1. ASSUME NEW k \in Kinds
          PROVE  (IF pending[k] > 0 THEN pending[k] - 1 ELSE 0) \in Nat
      BY <1>0
    <3> QED BY <2>3, <3>1
  <2>6. ProcTypeOK'
    BY <1>0, <2>3 DEF ProcTypeOK
  <2> QED BY <1>0, <1>2, <2>3, <2>4, <2>5, <2>6, StepTypes, TypesMeet
<1>4. CASE DenyJob
  <2>1. To(job, "cancelled") \in Job
    BY <1>0, ToIsJob DEF Statuses
  <2>2. /\ job' = To(job, "cancelled") /\ pending' = Reviewed("implement")
        /\ UNCHANGED <<request, approved, calls, used, upsets>> /\ ProcTypeOK'
    BY <1>0, <1>4 DEF DenyJob, procVars, ProcTypeOK
  <2>3. pending' \in [Kinds -> Nat]
    BY <1>0, <2>2, PendingIsCount DEF Kinds
  <2> QED BY <1>0, <1>2, <2>1, <2>2, <2>3, StepTypes, TypesMeet
<1>5. CASE ApprovePr
  <2>1. /\ approved' = approved \cup {"openPr"} /\ pending' = Reviewed("openPr")
        /\ UNCHANGED <<job, request, calls, used, upsets>> /\ ProcTypeOK'
    BY <1>0, <1>5 DEF ApprovePr, procVars, ProcTypeOK
  <2>2. pending' \in [Kinds -> Nat] /\ approved' \subseteq Kinds
    BY <1>0, <2>1, PendingIsCount DEF Kinds
  <2> QED BY <1>0, <1>2, <2>1, <2>2, StepTypes, TypesMeet
<1>6. ASSUME NEW k \in Kinds, Review(k) PROVE TypeInv'
  <2>1. /\ pending' = Reviewed(k)
        /\ approved' = approved \/ approved' = approved \cup {k}
        /\ UNCHANGED calls \/ calls' = Voided
        /\ UNCHANGED <<job, request, used, upsets>> /\ ProcTypeOK'
    BY <1>0, <1>6 DEF Review, procVars, ProcTypeOK
  <2>2. pending' \in [Kinds -> Nat] /\ approved' \subseteq Kinds
    BY <1>0, <2>1, PendingIsCount
  <2> QED BY <1>0, <1>2, <2>1, <2>2, StepTypes, TypesMeet
<1>7. ASSUME NEW a \in Attempts,
             Escalate(a) \/ \E p \in Processes : OrphanEnds(a, p)
      PROVE  TypeInv'
  <2>1. UNCHANGED <<job, request, pending, approved, calls, used, upsets>>
    BY <1>7 DEF Escalate, OrphanEnds, jobVars
  <2>2. ProcTypeOK'
    BY <1>0, <1>7 DEF Escalate, OrphanEnds, ProcTypeOK
  <2> QED BY <1>0, <1>2, <2>1, <2>2, StepTypes, TypesMeet
<1>8. CASE Restart
  <2>1. /\ calls' = [c \in Calls |-> Free]
        /\ UNCHANGED <<job, request, pending, approved, used>>
        /\ upsets' = upsets \cup {"restart"}
    BY <1>8 DEF Restart
  <2>2. ProcTypeOK'
    BY <1>0, <1>8 DEF Restart, ProcTypeOK
  <2>3. Free.at \notin WithAttempt
    BY DEF Free, WithAttempt, InGit
  <2>4. CallsOK' /\ AttemptsKnown'
    BY <2>1, <2>3, FreeIsCall DEF CallsOK, AttemptsKnown
  <2>5. upsets' \subseteq Upsets
    BY <1>0, <2>1 DEF Upsets
  <2> QED BY <1>0, <2>1, <2>2, <2>4, <2>5, StepTypes, TypesMeet
<1>9. CASE UNCHANGED vars
  <2>1. UNCHANGED <<job, request, pending, approved, calls, used, upsets,
                    alive, leases, terminating>>
    BY <1>9 DEF vars, jobVars, procVars
  <2>2. ProcTypeOK'
    BY <1>0, <2>1 DEF ProcTypeOK
  <2> QED BY <1>0, <1>2, <2>1, <2>2, StepTypes, TypesMeet
<1> QED BY <1>1, <1>3, <1>4, <1>5, <1>6, <1>7, <1>8, <1>9 DEF Next

LEMMA TypeInvInit == Init => TypeInv
<1> SUFFICES ASSUME Init PROVE TypeInv
  OBVIOUS
<1>1. Free.at \notin WithAttempt
  BY DEF Free, WithAttempt, InGit
<1>2. CallsOK /\ AttemptsKnown
  BY <1>1, FreeIsCall DEF Init, CallsOK, AttemptsKnown
<1>3. RecordTypeOK
  BY NoJobIsJob DEF Init, RecordTypeOK
<1>4. ProcTypeOK
  BY DEF Init, ProcTypeOK
<1> QED BY <1>2, <1>3, <1>4, TypeParts

LEMMA TypeInvariant == Spec => []TypeInv
BY TypeInvInit, TypeInvStep, PTL DEF Spec

\* The job record, the calls in flight and the process registry keep their
\* types; every process is one of an attempt.
THEOREM TypeCorrect == Spec => []TypeOK
<1>1. TypeInv => TypeOK
  BY DEF TypeInv
<1> QED BY <1>1, TypeInvariant, PTL

-----------------------------------------------------------------------------
(* What a step leaves of the calls it is not about, and what only grows.     *)

\* A step of call c leaves the others where they are, except for waiting
\* approvals of a fallback that are voided.
OthersStay(c) ==
    \A d \in Calls \ {c} :
        \/ calls'[d] = calls[d]
        \/ /\ calls[d].at = "fallback"
           /\ calls'[d] = [calls[d] EXCEPT !.at = "voided"]

LEMMA Monotone ==
    ASSUME TypeInv, Next
    PROVE  /\ request' = request
           /\ approved \subseteq approved'
           /\ upsets \subseteq upsets'
<1>1. ASSUME NEW c \in Calls, Run(c)
      PROVE  request' = request /\ approved' = approved /\ upsets \subseteq upsets'
  BY <1>1 DEF Run, RunBegins, ProbeAnswered, Overwrites, GitStarts, GitTimesOut,
     GitEnds, PrepareDone, RunFails, AgentSpawns, AgentCloses, AgentTimesOut, RunEnds
<1>2. ASSUME NEW c \in Calls, Publication(c) \/ Answer(c)
      PROVE  request' = request /\ approved' = approved /\ upsets \subseteq upsets'
  BY <1>2 DEF Publication, PublicationFails, PushDone, PostDone, Answer,
     FallbackAnswered, CiAnswered, RevertDone, ClosePrDone, Overwrites
<1>3. ASSUME NEW c \in Calls, Owner(c)
      PROVE  request' = request /\ approved \subseteq approved' /\ upsets' = upsets
  BY <1>3 DEF Owner, StartJob, RetryJob, ApproveJob, RequestFallback, OpenPr,
     RefreshCi, RevertJob, ClosePr
<1>4. CASE CancelJob \/ DenyJob \/ ApprovePr \/ Restart
  BY <1>4 DEF CancelJob, DenyJob, ApprovePr, Restart
<1>5. ASSUME NEW k \in Kinds, Review(k)
      PROVE  request' = request /\ approved \subseteq approved' /\ upsets' = upsets
  BY <1>5 DEF Review
<1>6. ASSUME NEW a \in Attempts,
             Escalate(a) \/ \E p \in Processes : OrphanEnds(a, p)
      PROVE  request' = request /\ approved' = approved /\ upsets' = upsets
  BY <1>6 DEF Escalate, OrphanEnds, jobVars
<1> QED BY <1>1, <1>2, <1>3, <1>4, <1>5, <1>6 DEF Next

LEMMA FreshCalls ==
    /\ Free.at = "free" /\ Free.copy.status = "none"
    /\ \A at, j : Waiting(at, j).at = at /\ Waiting(at, j).copy = j
    /\ \A at, a, r : /\ Attempting(at, a, r).at = at
                     /\ Attempting(at, a, r).attempt = a
                     /\ Attempting(at, a, r).copy = NoJob
    /\ NoJob.status = "none" /\ NoJob.pr = "no"
BY DEF Free, NoJob, Waiting, Attempting

\* Calls at work have attempts of their own, and a new one is fresh.
AttemptsOwn ==
    /\ \A c \in Calls : calls[c].at \in WithAttempt => calls[c].attempt \in used
    /\ \A c, d \in Calls :
          c # d /\ calls[c].at \in WithAttempt /\ calls[d].at \in WithAttempt
          => calls[c].attempt # calls[d].attempt

\* A step that puts no call on an attempt it was not at before.
LEMMA AttemptsStay ==
    ASSUME AttemptsOwn, used \subseteq used',
           \A d \in Calls : calls'[d].at \in WithAttempt =>
               calls[d].at \in WithAttempt /\ calls'[d].attempt = calls[d].attempt
    PROVE  AttemptsOwn'
BY DEF AttemptsOwn

LEMMA AttemptsStep ==
    TypeInv /\ AttemptsOwn /\ [Next]_vars => AttemptsOwn'
<1> SUFFICES ASSUME TypeInv, AttemptsOwn, [Next]_vars
             PROVE  AttemptsOwn'
  OBVIOUS
<1>0. CallsOK
  BY TypeParts
<1>a. "free" \notin WithAttempt /\ "run" \notin WithAttempt /\ "voided" \notin WithAttempt
  BY DEF WithAttempt, InGit
<1>b. WithCopy \cap WithAttempt = {} /\ "probing" \in WithCopy
  BY DEF WithAttempt, InGit, WithCopy
<1>1. ASSUME NEW c \in Calls, NEW call, Goes(c, call), used' = used,
             \/ call.at \notin WithAttempt
             \/ calls[c].at \in WithAttempt /\ call.attempt = calls[c].attempt
      PROVE  AttemptsOwn'
  <2>1. \A d \in Calls : calls'[d] = IF d = c THEN call ELSE calls[d]
    BY <1>0, <1>1 DEF Goes, CallsOK
  <2> QED BY <1>1, <2>1, AttemptsStay
<1>2. ASSUME NEW c \in Calls, Returns(c), used' = used
      PROVE  AttemptsOwn'
  BY <1>1, <1>2, <1>a, FreshCalls DEF Returns
<1>3. ASSUME NEW c \in Calls, NEW at \in WithCopy \cup {"run"}, NEW j,
             Goes(c, Waiting(at, j)), used' = used
      PROVE  AttemptsOwn'
  BY <1>1, <1>3, <1>a, <1>b, FreshCalls
<1>4. ASSUME NEW c \in Calls, NEW at, calls[c].at \in WithAttempt,
             Goes(c, Onward(c, at)), used' = used
      PROVE  AttemptsOwn'
  <2>1. Onward(c, at).attempt = calls[c].attempt
    BY FreshCalls DEF Onward
  <2> QED BY <1>1, <1>4, <2>1
<1>5. ASSUME NEW c \in Calls, Run(c)
      PROVE  AttemptsOwn'
  <2>1. CASE RunBegins(c)
    <3>1. used' = used
      BY <2>1 DEF RunBegins
    <3>2. Returns(c) \/ \E j : Goes(c, Waiting("probing", j))
      BY <2>1 DEF RunBegins, RunParks, RunAsksApproval, RunGoesAhead
    <3> QED BY <1>2, <1>3, <1>b, <3>1, <3>2
  <2>2. CASE ProbeAnswered(c)
    <3>1. CASE Returns(c) /\ UNCHANGED used
      BY <1>2, <3>1
    <3>2. CASE \E a \in Attempts \ used : /\ used' = used \cup {a}
                                          /\ Goes(c, Begun(c, a))
      <4>1. PICK a \in Attempts \ used : /\ used' = used \cup {a}
                                         /\ Goes(c, Begun(c, a))
        BY <3>2
      <4>2. \A d \in Calls : calls'[d] = IF d = c THEN Begun(c, a)
                                                  ELSE calls[d]
        BY <1>0, <4>1 DEF Goes, CallsOK
      <4>3. Begun(c, a).attempt = a
        BY FreshCalls DEF Begun
      <4> QED BY <4>1, <4>2, <4>3 DEF AttemptsOwn
    <3> QED BY <2>2, <3>1, <3>2 DEF ProbeAnswered
  <2>3. CASE \/ GitStarts(c) \/ GitTimesOut(c) \/ GitEnds(c) \/ PrepareDone(c)
             \/ RunFails(c) \/ AgentSpawns(c) \/ AgentCloses(c)
             \/ AgentTimesOut(c) \/ RunEnds(c)
    <3>1. used' = used /\ calls[c].at \in WithAttempt
      BY <2>3 DEF GitStarts, GitTimesOut, GitEnds, PrepareDone, RunFails, AgentSpawns,
         AgentCloses, AgentTimesOut, RunEnds, WithAttempt, InGit
    <3>2. Returns(c) \/ \E at : Goes(c, Onward(c, at))
      BY <2>3 DEF GitStarts, GitTimesOut, GitEnds, PrepareDone, RunFails, AgentSpawns,
         AgentCloses, AgentTimesOut, RunEnds
    <3> QED BY <1>2, <1>4, <3>1, <3>2
  <2> QED BY <1>5, <2>1, <2>2, <2>3 DEF Run
<1>6. ASSUME NEW c \in Calls, Publication(c)
      PROVE  AttemptsOwn'
  <2>1. /\ used' = used
        /\ Returns(c) \/ \E j : Goes(c, Waiting("posting", j))
    BY <1>6 DEF Publication, PublicationFails, PushDone, PostDone
  <2> QED BY <1>2, <1>3, <2>1 DEF WithCopy
<1>7. ASSUME calls' = Voided, used' = used
      PROVE  AttemptsOwn'
  <2>1. \A d \in Calls : Voided[d].at \in WithAttempt => Voided[d] = calls[d]
    BY <1>0, <1>a DEF Voided, CallsOK, Call
  <2> QED BY <1>7, <2>1, AttemptsStay
<1>7v. ASSUME NEW c \in Calls, used' = used,
              calls' = [Voided EXCEPT ![c] = Waiting("run", NoJob)]
       PROVE  AttemptsOwn'
  <2>1. \A d \in Calls :
           calls'[d] = IF d = c THEN Waiting("run", NoJob) ELSE Voided[d]
    BY <1>7v DEF Voided
  <2>2. \A d \in Calls : Voided[d].at \in WithAttempt => Voided[d] = calls[d]
    BY <1>0, <1>a DEF Voided, CallsOK, Call
  <2> QED BY <1>7v, <1>a, <2>1, <2>2, AttemptsStay, FreshCalls
<1>8. ASSUME NEW c \in Calls, Answer(c)
      PROVE  AttemptsOwn'
  <2>1. used' = used
    BY <1>8 DEF Answer, FallbackAnswered, CiAnswered, RevertDone, ClosePrDone
  <2>2. CASE Returns(c)
    BY <1>2, <2>1, <2>2
  <2>3. CASE calls' = [Voided EXCEPT ![c] = Waiting("run", NoJob)]
    BY <1>7v, <2>1, <2>3
  <2> QED BY <1>8, <2>2, <2>3 DEF Answer, FallbackAnswered, FallbackTaken,
             CiAnswered, RevertDone, ClosePrDone
<1>9. ASSUME NEW c \in Calls, Owner(c)
      PROVE  AttemptsOwn'
  <2>1. /\ used' = used
        /\ \/ UNCHANGED calls
           \/ \E j : \E at \in WithCopy \cup {"run"} : Goes(c, Waiting(at, j))
           \/ calls' = [Voided EXCEPT ![c] = Waiting("run", NoJob)]
    BY <1>9 DEF Owner, StartJob, RetryJob, ApproveJob, RequestFallback,
       FallbackTaken, OpenPr, RefreshCi, RevertJob, ClosePr, WithCopy
  <2>2. CASE \/ UNCHANGED calls
             \/ calls' = [Voided EXCEPT ![c] = Waiting("run", NoJob)]
    BY <1>7v, <2>1, <2>2, AttemptsStay
  <2>3. ASSUME NEW j, NEW at \in WithCopy \cup {"run"}, Goes(c, Waiting(at, j))
        PROVE  AttemptsOwn'
    BY <1>3, <2>1, <2>3
  <2> QED BY <2>1, <2>2, <2>3
<1>10. CASE CancelJob \/ DenyJob \/ ApprovePr \/ \E k \in Kinds : Review(k)
  <2>1. used' = used /\ (UNCHANGED calls \/ calls' = Voided)
    BY <1>10 DEF CancelJob, DenyJob, ApprovePr, Review
  <2> QED BY <1>7, <2>1, AttemptsStay
<1>11. CASE \/ \E a \in Attempts : Escalate(a)
            \/ \E a \in Attempts, p \in Processes : OrphanEnds(a, p)
            \/ UNCHANGED vars
  <2>1. UNCHANGED <<used, calls>>
    BY <1>11 DEF Escalate, OrphanEnds, vars, jobVars
  <2> QED BY <2>1, AttemptsStay
<1>12. CASE Restart
  BY <1>a, <1>12, FreshCalls, AttemptsStay DEF Restart
<1> QED BY <1>5, <1>6, <1>8, <1>9, <1>10, <1>11, <1>12 DEF Next

-----------------------------------------------------------------------------
(* The registry.                                                             *)

\* A process without its lease has been through a restart, or is an agent the
\* Cursor runner gave up.
Excused(a, p) ==
    "restart" \in upsets \/ (p = "cursor" /\ ~CursorAwaits(a))

\* No call comes to wait for a Cursor agent that is not leased.
NobodyNewAwaits ==
    \A a \in Attempts :
        CursorAwaits(a)' => CursorAwaits(a) \/ leases'[a] = "cursor"

LEMMA ExcusedStays ==
    ASSUME ProcessesLeased, upsets \subseteq upsets', NobodyNewAwaits,
           \A a \in Attempts, p \in Processes :
               <<a, p>> \in alive' /\ leases'[a] # p =>
                  /\ <<a, p>> \in alive
                  /\ leases[a] # p \/ (p = "cursor" /\ ~CursorAwaits(a)')
    PROVE  ProcessesLeased'
<1> SUFFICES ASSUME NEW a \in Attempts, NEW p \in Processes,
                    <<a, p>> \in alive', leases'[a] # p
             PROVE  "restart" \in upsets' \/ (p = "cursor" /\ ~CursorAwaits(a)')
  BY DEF ProcessesLeased
<1>1. leases[a] # p => Excused(a, p)
  BY DEF ProcessesLeased, Excused
<1> QED BY <1>1 DEF Excused, NobodyNewAwaits

\* The registry changes for one process of the attempt b.
LEMMA RegistryKeepsLeases ==
    ASSUME ProcTypeOK, ProcessesLeased, upsets \subseteq upsets', NobodyNewAwaits,
           NEW b \in Attempts, NEW q \in Processes,
           Spawned(b, q) \/ Closed(b, q) \/ Terminated(b)
    PROVE  ProcessesLeased'
<1> SUFFICES ASSUME NEW a \in Attempts, NEW p \in Processes,
                    <<a, p>> \in alive', leases'[a] # p
             PROVE  <<a, p>> \in alive /\ leases[a] # p
  BY ExcusedStays
<1>1. CASE Spawned(b, q)
  <2>1. p # "none"
    BY DEF Processes, Runners
  <2>2. /\ leases' = [leases EXCEPT ![b] = q] /\ leases[b] = "none"
        /\ alive' = alive \cup {<<b, q>>}
        /\ leases \in [Attempts -> {"none"} \cup Processes]
    BY <1>1 DEF Spawned, ProcTypeOK
  <2>3. CASE a = b
    BY <2>1, <2>2, <2>3
  <2>4. CASE a # b
    BY <2>2, <2>4
  <2> QED BY <2>3, <2>4
<1>2. CASE Closed(b, q)
  BY <1>2 DEF Closed, ProcTypeOK
<1>3. CASE Terminated(b)
  BY <1>3 DEF Terminated
<1> QED BY <1>1, <1>2, <1>3

\* A step that starts no process and takes no lease away.
LEMMA QuietRegistry ==
    ASSUME ProcessesLeased, upsets \subseteq upsets', NobodyNewAwaits,
           alive' \subseteq alive, leases' = leases
    PROVE  ProcessesLeased'
BY ExcusedStays

LEMMA AwaitsStep ==
    ASSUME CallsOK, NEW c \in Calls, NEW call, Goes(c, call), call.at # "working"
    PROVE  /\ NobodyNewAwaits
           /\ \A a \in Attempts :
                 /\ CursorAwaits(a)'
                 /\ AttemptsOwn /\ calls[c].at = "working"
                 => calls[c].attempt # a
<1>1. \A d \in Calls : calls'[d] = IF d = c THEN call ELSE calls[d]
  BY DEF Goes, CallsOK
<1>2. "working" \in WithAttempt
  BY DEF WithAttempt
<1> QED BY <1>1, <1>2 DEF NobodyNewAwaits, CursorAwaits, AttemptsOwn

LEMMA NobodyAwaits ==
    ASSUME CallsOK,
           \/ UNCHANGED calls \/ calls' = Voided
           \/ \E c \in Calls : calls' = [Voided EXCEPT ![c] = Waiting("run", NoJob)]
           \/ calls' = [c \in Calls |-> Free]
    PROVE  NobodyNewAwaits
<1>1. \A d \in Calls : /\ Voided[d].at \in {calls[d].at, "voided"}
                       /\ Voided[d].attempt = calls[d].attempt
                       /\ Voided[d].runner = calls[d].runner
  BY DEF Voided, CallsOK, Call
<1>2. CASE UNCHANGED calls \/ calls' = Voided \/ calls' = [c \in Calls |-> Free]
  BY <1>1, <1>2, FreshCalls DEF NobodyNewAwaits, CursorAwaits
<1>3. ASSUME NEW c \in Calls, calls' = [Voided EXCEPT ![c] = Waiting("run", NoJob)]
      PROVE  NobodyNewAwaits
  <2>1. \A d \in Calls :
           calls'[d] = IF d = c THEN Waiting("run", NoJob) ELSE Voided[d]
    BY <1>3 DEF Voided
  <2> QED BY <1>1, <2>1, FreshCalls DEF NobodyNewAwaits, CursorAwaits
<1> QED BY <1>2, <1>3

LEMMA RunLeased ==
    ASSUME TypeInv, AttemptsOwn, ProcessesLeased, NEW c \in Calls, Run(c)
    PROVE  ProcessesLeased'
<1> DEFINE b == calls[c].attempt
           q == calls[c].runner
<1>0. ProcTypeOK /\ AttemptsKnown /\ CallsOK /\ upsets \subseteq upsets'
  <2>1. Next
    BY DEF Next
  <2> QED BY <2>1, TypeParts, Monotone
<1>1. calls[c].at \in WithAttempt => b \in Attempts
  BY <1>0 DEF AttemptsKnown
<1>2. q \in Processes /\ "git" \in Processes
  BY <1>0 DEF CallsOK, Call, Processes
<1>3. CASE \/ RunBegins(c) \/ ProbeAnswered(c) \/ PrepareDone(c)
           \/ RunFails(c) \/ RunEnds(c)
  <2>1. UNCHANGED procVars
    BY <1>3 DEF RunBegins, ProbeAnswered, PrepareDone, RunFails, RunEnds
  <2>2. \/ Returns(c)
        \/ \E j : Goes(c, Waiting("probing", j))
        \/ \E a : Goes(c, Begun(c, a))
        \/ Goes(c, Onward(c, "launching"))
    BY <1>3 DEF RunBegins, RunParks, RunAsksApproval, RunGoesAhead,
       ProbeAnswered, PrepareDone, RunFails, RunEnds
  <2>3. NobodyNewAwaits
    BY <1>0, <2>2, AwaitsStep, FreshCalls DEF Returns, Begun, Onward
  <2> QED BY <1>0, <2>1, <2>3, QuietRegistry DEF procVars
<1>4. CASE GitStarts(c) \/ GitTimesOut(c) \/ GitEnds(c) \/ AgentCloses(c)
  <2>1. /\ b \in Attempts
        /\ \E p \in Processes : Spawned(b, p) \/ Closed(b, p) \/ Terminated(b)
    BY <1>1, <1>2, <1>4 DEF GitStarts, GitTimesOut, GitEnds, AgentCloses,
       WithAttempt, InGit
  <2>2. Returns(c) \/ \E at \in WithAttempt \ {"working"} : Goes(c, Onward(c, at))
    BY <1>4 DEF GitStarts, GitTimesOut, GitEnds, AgentCloses, WithAttempt, InGit
  <2>3. NobodyNewAwaits
    BY <1>0, <2>2, AwaitsStep, FreshCalls DEF Returns, Onward
  <2> QED BY <1>0, <2>1, <2>3, RegistryKeepsLeases
<1>5. CASE AgentSpawns(c)
  <2>1. b \in Attempts /\ Spawned(b, q) /\ Goes(c, Onward(c, "working"))
    BY <1>1, <1>5 DEF AgentSpawns, WithAttempt
  <2>2. \A d \in Calls : calls'[d] = IF d = c THEN Onward(c, "working") ELSE calls[d]
    BY <1>0, <2>1 DEF Goes, CallsOK
  <2>3. Onward(c, "working").attempt = b /\ Onward(c, "working").runner = q
    BY DEF Onward, Attempting, Free
  <2>4. leases'[b] = q
    BY <1>0, <2>1 DEF Spawned, ProcTypeOK
  <2>5. NobodyNewAwaits
    BY <2>2, <2>3, <2>4 DEF NobodyNewAwaits, CursorAwaits
  <2> QED BY <1>0, <1>2, <2>1, <2>5, RegistryKeepsLeases
<1>6. CASE AgentTimesOut(c)
  <2>1. /\ b \in Attempts /\ calls[c].at = "working" /\ Returns(c)
        /\ \/ Terminated(b)
           \/ /\ leases[b] = "cursor"
              /\ leases' = [leases EXCEPT ![b] = "none"]
              /\ alive' = alive
    BY <1>1, <1>6 DEF AgentTimesOut, WithAttempt
  <2>2. NobodyNewAwaits /\ \A a \in Attempts : a = b => ~CursorAwaits(a)'
    <3>1. Goes(c, Free) /\ Free.at # "working"
      BY <2>1, FreshCalls DEF Returns
    <3> QED BY <1>0, <2>1, <3>1, AwaitsStep
  <2>3. CASE Terminated(b)
    BY <1>0, <1>2, <2>1, <2>2, <2>3, RegistryKeepsLeases
  <2>4. CASE /\ leases[b] = "cursor"
             /\ leases' = [leases EXCEPT ![b] = "none"]
             /\ alive' = alive
    <3>1. \A a \in Attempts, p \in Processes :
             <<a, p>> \in alive' /\ leases'[a] # p =>
                /\ <<a, p>> \in alive
                /\ leases[a] # p \/ (p = "cursor" /\ ~CursorAwaits(a)')
      BY <1>0, <2>2, <2>4 DEF ProcTypeOK
    <3> QED BY <1>0, <2>2, <3>1, ExcusedStays
  <2> QED BY <2>1, <2>3, <2>4
<1> QED BY <1>3, <1>4, <1>5, <1>6 DEF Run

LEMMA LeasedStep ==
    TypeInv /\ AttemptsOwn /\ ProcessesLeased /\ [Next]_vars => ProcessesLeased'
<1> SUFFICES ASSUME TypeInv, AttemptsOwn, ProcessesLeased, [Next]_vars
             PROVE  ProcessesLeased'
  OBVIOUS
<1>1. CASE UNCHANGED vars
  BY <1>1 DEF vars, procVars, jobVars, ProcessesLeased, CursorAwaits
<1>2. CASE Next
  <2>0. ProcTypeOK /\ CallsOK /\ upsets \subseteq upsets'
    BY <1>2, TypeParts, Monotone
  <2>1. ASSUME NEW c \in Calls, Run(c)
        PROVE  ProcessesLeased'
    BY <2>1, RunLeased
  <2>2. ASSUME NEW c \in Calls, Publication(c) \/ Answer(c) \/ Owner(c)
        PROVE  ProcessesLeased'
    <3>1. UNCHANGED procVars
      BY <2>2 DEF Publication, PublicationFails, PushDone, PostDone, Answer,
         FallbackAnswered, CiAnswered, RevertDone, ClosePrDone, Owner, StartJob,
         RetryJob, ApproveJob, RequestFallback, OpenPr, RefreshCi, RevertJob, ClosePr
    <3>2. \/ Returns(c) \/ UNCHANGED calls
          \/ \E at \in WithCopy \cup {"run"} : \E j : Goes(c, Waiting(at, j))
          \/ calls' = [Voided EXCEPT ![c] = Waiting("run", NoJob)]
      BY <2>2 DEF Publication, PublicationFails, PushDone, PostDone, Answer,
         FallbackAnswered, FallbackTaken, CiAnswered, RevertDone, ClosePrDone,
         Owner, StartJob, RetryJob, ApproveJob, RequestFallback, OpenPr,
         RefreshCi, RevertJob, ClosePr, WithCopy
    <3>3. "working" \notin WithCopy \cup {"run"}
      BY DEF WithCopy
    <3>4. NobodyNewAwaits
      BY <2>0, <3>2, <3>3, AwaitsStep, NobodyAwaits, FreshCalls DEF Returns
    <3> QED BY <2>0, <3>1, <3>4, QuietRegistry DEF procVars
  <2>3. CASE CancelJob \/ DenyJob \/ ApprovePr \/ \E k \in Kinds : Review(k)
    <3>1. /\ UNCHANGED <<alive, leases>>
          /\ UNCHANGED calls \/ calls' = Voided
      BY <2>3 DEF CancelJob, DenyJob, ApprovePr, Review, procVars
    <3> QED BY <2>0, <3>1, NobodyAwaits, QuietRegistry
  <2>4. ASSUME NEW a \in Attempts, Escalate(a)
        PROVE  ProcessesLeased'
    <3>1. NobodyNewAwaits
      BY <2>0, <2>4, NobodyAwaits DEF Escalate, jobVars
    <3> QED BY <2>0, <2>4, <3>1, ExcusedStays DEF Escalate, ProcTypeOK
  <2>5. ASSUME NEW a \in Attempts, NEW p \in Processes, OrphanEnds(a, p)
        PROVE  ProcessesLeased'
    <3>1. NobodyNewAwaits
      BY <2>0, <2>5, NobodyAwaits DEF OrphanEnds, jobVars
    <3> QED BY <2>0, <2>5, <3>1, QuietRegistry DEF OrphanEnds
  <2>6. CASE Restart
    BY <2>6 DEF Restart, ProcessesLeased
  <2> QED BY <1>2, <2>1, <2>2, <2>3, <2>4, <2>5, <2>6 DEF Next
<1> QED BY <1>1, <1>2

\* The registry has a lease for every process it started, except what a
\* restart left behind and agents the Cursor runner gave up at their timeout:
\* a cancellation reaches all others, also after a fallback to another runner.
THEOREM ProcessesStayLeased == Spec => []ProcessesLeased
<1>1. Init => ProcessesLeased
  BY DEF Init, ProcessesLeased
<1>2. Init => AttemptsOwn
  <2>1. "free" \notin WithAttempt
    BY DEF WithAttempt, InGit
  <2> QED BY <2>1, FreshCalls DEF Init, AttemptsOwn
<1> QED BY <1>1, <1>2, LeasedStep, AttemptsStep, TypeInvariant, PTL DEF Spec

-----------------------------------------------------------------------------
(* Runs and publications that were overtaken.                                *)

\* The steps of call c itself.
LEMMA OwnEndLeavesNoTrace ==
    ASSUME TypeInv, NEW c \in Calls, Run(c) \/ Publication(c) \/ Answer(c) \/ Owner(c),
           OutdatedEnds(c)
    PROVE  job' = job
<1>1. /\ calls[c].at \in WithAttempt \cup {"pushing", "posting"}
      /\ calls[c].at \in WithAttempt => ~Owns(job, calls[c].attempt)
      /\ calls[c].at \in {"pushing", "posting"} => ~Publishing(c)
      /\ calls'[c].at = "free"
  BY DEF OutdatedEnds, WithAttempt, InGit
<1>2. CASE Run(c)
  <2>1. calls[c].at \in WithAttempt
    BY <1>1, <1>2 DEF Run, RunBegins, ProbeAnswered, GitStarts, GitTimesOut, GitEnds,
       PrepareDone, RunFails, AgentSpawns, AgentCloses, AgentTimesOut, RunEnds,
       WithAttempt, InGit
  <2>2. \A state : Unsuccessful(job, calls[c].attempt, state) = job
    BY <1>1, <2>1 DEF Unsuccessful
  <2>3. CASE RunBegins(c) \/ ProbeAnswered(c)
    BY <2>1, <2>3 DEF RunBegins, ProbeAnswered, WithAttempt, InGit
  <2>4. CASE GitStarts(c) \/ GitTimesOut(c) \/ AgentSpawns(c) \/ AgentCloses(c)
    BY <2>4 DEF GitStarts, GitTimesOut, AgentSpawns, AgentCloses
  <2>5. CASE GitEnds(c)
    BY <1>1, <2>1, <2>2, <2>5 DEF GitEnds
  <2>6. CASE PrepareDone(c)
    BY <1>1, <2>1, <2>6 DEF PrepareDone
  <2>7. CASE RunFails(c) \/ AgentTimesOut(c)
    BY <2>2, <2>7 DEF RunFails, AgentTimesOut
  <2>8. CASE RunEnds(c)
    BY <1>1, <2>1, <2>2, <2>8 DEF RunEnds
  <2> QED BY <1>2, <2>3, <2>4, <2>5, <2>6, <2>7, <2>8 DEF Run
<1>3. CASE Publication(c)
  <2>1. ~Publishing(c)
    BY <1>1, <1>3 DEF Publication, PublicationFails, PushDone, PostDone,
       WithAttempt, InGit
  <2> QED BY <1>3, <2>1 DEF Publication, PublicationFails, PushDone, PostDone
<1>4. ~Answer(c)
  BY <1>1 DEF Answer, FallbackAnswered, CiAnswered, RevertDone, ClosePrDone,
     WithAttempt, InGit
<1>5. CASE Owner(c)
  BY <1>1, <1>5 DEF Owner, StartJob, RetryJob, ApproveJob, RequestFallback, OpenPr,
     RefreshCi, RevertJob, ClosePr, WithAttempt, InGit
<1> QED BY <1>2, <1>3, <1>4, <1>5

\* The steps of another call.
LEMMA OthersDoNotEnd ==
    ASSUME TypeInv, NEW c \in Calls, NEW d \in Calls \ {c},
           Run(d) \/ Publication(d) \/ Answer(d) \/ Owner(d)
    PROVE  \/ calls'[c] = calls[c]
           \/ calls[c].at = "fallback" /\ calls'[c] = [calls[c] EXCEPT !.at = "voided"]
<1>1. CallsOK
  BY TypeParts
<1>2. ASSUME NEW call, calls' = [calls EXCEPT ![d] = call]
      PROVE  calls'[c] = calls[c]
  BY <1>1, <1>2 DEF CallsOK
<1>3. CASE Run(d)
  BY <1>2, <1>3 DEF Run, RunBegins, RunParks, RunAsksApproval, RunGoesAhead,
     ProbeAnswered, GitStarts, GitTimesOut, GitEnds, PrepareDone, RunFails,
     AgentSpawns, AgentCloses, AgentTimesOut, RunEnds, Goes, Returns
<1>4. CASE Publication(d)
  BY <1>2, <1>4 DEF Publication, PublicationFails, PushDone, PostDone, Goes, Returns
<1>5. CASE CiAnswered(d) \/ RevertDone(d) \/ ClosePrDone(d)
  BY <1>2, <1>5 DEF CiAnswered, RevertDone, ClosePrDone, Returns, Goes
<1>6. CASE FallbackAnswered(d)
  <2>1. CASE Returns(d)
    BY <1>2, <2>1 DEF Returns, Goes
  <2>2. CASE calls' = [Voided EXCEPT ![d] = Waiting("run", NoJob)]
    BY <2>2 DEF Voided
  <2> QED BY <1>6, <2>1, <2>2 DEF FallbackAnswered, FallbackTaken
<1>7. CASE Owner(d)
  <2>1. CASE calls' = [Voided EXCEPT ![d] = Waiting("run", NoJob)]
    BY <2>1 DEF Voided
  <2> QED BY <1>2, <1>7, <2>1 DEF Owner, StartJob, RetryJob, ApproveJob,
          RequestFallback, FallbackTaken, OpenPr, RefreshCi, RevertJob, ClosePr, Goes
<1> QED BY <1>3, <1>4, <1>5, <1>6, <1>7 DEF Answer

LEMMA OutdatedStep ==
    TypeInv /\ [Next]_vars =>
        [\A c \in Calls : OutdatedEnds(c) => job' = job]_vars
<1> SUFFICES ASSUME TypeInv, Next, NEW c \in Calls, OutdatedEnds(c)
             PROVE  job' = job
  OBVIOUS
<1>0. CallsOK
  BY TypeParts
<1>1. /\ calls[c].at \in WithAttempt \cup {"pushing", "posting"}
      /\ calls'[c].at = "free"
  BY DEF OutdatedEnds
<1>2. /\ calls[c].at # "free"
      /\ calls[c].at # "fallback"
  BY <1>1 DEF WithAttempt, InGit
<1>3. CASE calls' = Voided \/ UNCHANGED calls
  <2>1. Voided[c] = calls[c]
    BY <1>2 DEF Voided
  <2> QED BY <1>1, <1>2, <1>3, <2>1
<1>4. ASSUME NEW d \in Calls, Run(d) \/ Publication(d) \/ Answer(d) \/ Owner(d)
      PROVE  job' = job
  <2>1. CASE d = c
    BY <1>4, <2>1, OwnEndLeavesNoTrace
  <2>2. CASE d # c
    BY <1>1, <1>2, <1>4, <2>2, OthersDoNotEnd
  <2> QED BY <2>1, <2>2
<1>5. CASE CancelJob \/ DenyJob \/ ApprovePr \/ \E k \in Kinds : Review(k)
  BY <1>3, <1>5 DEF CancelJob, DenyJob, ApprovePr, Review
<1>6. CASE \/ \E a \in Attempts : Escalate(a)
           \/ \E a \in Attempts, p \in Processes : OrphanEnds(a, p)
  BY <1>6 DEF Escalate, OrphanEnds, jobVars
<1>7. CASE Restart
  BY <1>7 DEF Restart
<1> QED BY <1>4, <1>5, <1>6, <1>7 DEF Next

\* A run whose attempt was cancelled or replaced while it waited, and a
\* publication that was overtaken, do not touch the record when they end.
THEOREM OutdatedIsHarmless == Spec => OutdatedLeavesNoTrace
BY OutdatedStep, TypeInvariant, PTL DEF Spec, OutdatedLeavesNoTrace

-----------------------------------------------------------------------------
(* Approvals.                                                                *)

AgentAlive == \E a \in Attempts, r \in Runners : <<a, r>> \in alive

Allowed == "implement" \in approved \/ "unchecked" \in upsets

\* A copy may be stored again, so it is held to the same as the record; so is
\* the closing of a pull request, which the record then has had.  A call is
\* about a job that was started.
Sound(c) ==
    /\ calls[c].at = "closing" \/ PastApproval(calls[c].copy)
          => "implement" \in approved
    /\ calls[c].at \in WithAttempt \cup {"probing"} => Allowed
    /\ calls[c].at \in {"pushing", "posting"} => "openPr" \in approved
    /\ calls[c].at # "free" => job.status # "none"
    /\ calls[c].at \in WithCopy => calls[c].copy.status # "none"

ApprovalInv ==
    /\ PastApproval(job) => "implement" \in approved
    /\ job.status = "none" => job.pr = "no"
    /\ AgentAlive => Allowed
    /\ \A c \in Calls : Sound(c)

\* A call may be where `call' is after the step.
Fits(call) ==
    /\ call.at = "closing" \/ PastApproval(call.copy) => "implement" \in approved'
    /\ call.at \in WithAttempt \cup {"probing"} => Allowed'
    /\ call.at \in {"pushing", "posting"} => "openPr" \in approved'
    /\ call.at # "free" => job'.status # "none"
    /\ call.at \in WithCopy => call.copy.status # "none"

\* The job k got no further than the job j.
NoFurther(j, k) ==
    /\ PastApproval(k) => PastApproval(j)
    /\ k.status = "none" => j.status = "none" /\ k.pr = j.pr

\* What no step takes back.
Grows ==
    /\ request' = request
    /\ approved \subseteq approved'
    /\ upsets \subseteq upsets'

LEMMA OldCallsFit ==
    ASSUME CallsOK, ApprovalInv, Grows, NEW d \in Calls,
           job'.status = "none" => job.status = "none"
    PROVE  Fits(calls[d]) /\ Fits(Voided[d])
<1>1. Fits(calls[d])
  BY DEF ApprovalInv, Sound, Fits, Allowed, Grows
<1>2. Voided[d] = IF calls[d].at = "fallback"
                  THEN [calls[d] EXCEPT !.at = "voided"] ELSE calls[d]
  BY DEF Voided
<1>3. CASE calls[d].at = "fallback"
  <2>1. Voided[d].at = "voided" /\ Voided[d].copy = calls[d].copy
    BY <1>2, <1>3 DEF CallsOK, Call
  <2>2. "voided" \notin WithAttempt \cup {"probing"} /\ "fallback" \in WithCopy
    BY DEF WithAttempt, InGit, WithCopy
  <2> QED BY <1>1, <1>3, <2>1, <2>2 DEF Fits
<1> QED BY <1>1, <1>2, <1>3

LEMMA FreshFits ==
    /\ Fits(Free)
    /\ job'.status # "none" => Fits(Waiting("run", NoJob))
<1>1. "free" \notin WithAttempt \cup WithCopy /\ "run" \notin WithAttempt \cup WithCopy
  BY DEF WithAttempt, InGit, WithCopy
<1>2. ~PastApproval(NoJob) /\ Free.copy = NoJob
  BY DEF PastApproval, NoJob, Free
<1> QED BY <1>1, <1>2, FreshCalls DEF Fits

\* A step keeps the invariant if the job gets no further, or with approval
\* only, and the calls that are new fit.
LEMMA StepApproved ==
    ASSUME CallsOK, ApprovalInv, Grows,
           job'.status = "none" => job.status = "none" /\ job'.pr = job.pr,
           PastApproval(job') => "implement" \in approved',
           AgentAlive' => AgentAlive \/ Allowed',
           \/ UNCHANGED calls
           \/ calls' = Voided
           \/ calls' = [c \in Calls |-> Free]
           \/ \E c \in Calls : /\ calls' = [Voided EXCEPT ![c] = Waiting("run", NoJob)]
                               /\ job'.status # "none"
           \/ \E c \in Calls : \E call : Goes(c, call) /\ Fits(call)
    PROVE  ApprovalInv'
<1>1. \A d \in Calls : Fits(calls[d]) /\ Fits(Voided[d])
  BY OldCallsFit
<1>2. \A d \in Calls : Fits(calls'[d])
  <2>1. CASE UNCHANGED calls \/ calls' = Voided
    BY <1>1, <2>1
  <2>2. CASE calls' = [c \in Calls |-> Free]
    BY <2>2, FreshFits
  <2>3. ASSUME NEW c \in Calls, job'.status # "none",
               calls' = [Voided EXCEPT ![c] = Waiting("run", NoJob)]
        PROVE  \A d \in Calls : Fits(calls'[d])
    <3>1. \A d \in Calls :
             calls'[d] = IF d = c THEN Waiting("run", NoJob) ELSE Voided[d]
      BY <2>3 DEF Voided
    <3> QED BY <1>1, <2>3, <3>1, FreshFits
  <2>4. ASSUME NEW c \in Calls, NEW call, Goes(c, call), Fits(call)
        PROVE  \A d \in Calls : Fits(calls'[d])
    <3>1. \A d \in Calls : calls'[d] = IF d = c THEN call ELSE calls[d]
      BY <2>4 DEF Goes, CallsOK
    <3> QED BY <1>1, <2>4, <3>1
  <2> QED BY <2>1, <2>2, <2>3, <2>4
<1>3. \A d \in Calls : Sound(d)'
  BY <1>2 DEF Fits, Sound, PastApproval, Grows
<1>4. PastApproval(job)' => "implement" \in approved'
  BY DEF PastApproval, Grows
<1>5. AgentAlive' => Allowed'
  BY DEF ApprovalInv, Allowed, Grows
<1>6. job'.status = "none" => job'.pr = "no"
  BY DEF ApprovalInv
<1> QED BY <1>3, <1>4, <1>5, <1>6 DEF ApprovalInv

\* The steps after which a call is free, or scheduled to run, and the job no
\* further than it was, or than a copy was.
LEMMA QuietApproved ==
    ASSUME CallsOK, ApprovalInv, Grows, NEW c \in Calls, AgentAlive' => AgentAlive,
           \/ NoFurther(job, job')
           \/ calls[c].at \in WithCopy /\ NoFurther(calls[c].copy, job')
           \/ job'.status # "none" /\ "implement" \in approved',
           \/ Returns(c) \/ UNCHANGED calls \/ calls' = Voided
           \/ /\ job'.status # "none"
              /\ \/ Goes(c, Waiting("run", NoJob))
                 \/ calls' = [Voided EXCEPT ![c] = Waiting("run", NoJob)]
    PROVE  ApprovalInv'
<1>1. /\ job'.status = "none" => job.status = "none" /\ job'.pr = job.pr
      /\ PastApproval(job') => "implement" \in approved'
  BY DEF NoFurther, ApprovalInv, Sound, Grows
<1>2. \/ UNCHANGED calls
      \/ calls' = Voided
      \/ calls' = [Voided EXCEPT ![c] = Waiting("run", NoJob)] /\ job'.status # "none"
      \/ \E call : Goes(c, call) /\ Fits(call)
  BY FreshFits DEF Returns
<1> QED BY <1>1, <1>2, StepApproved

\* No operation but To brings a job past the approval.
LEMMA NoneFurther ==
    ASSUME NEW j \in Job, NEW a, NEW state \in Terminal
    PROVE  /\ NoFurther(j, Failed(j))
           /\ NoFurther(j, Terminalized(j, a, state))
           /\ NoFurther(j, Unsuccessful(j, a, state))
           /\ NoFurther(j, Planned(j))
           /\ request.dryRun => NoFurther(j, Simulated(j))
           /\ NoFurther(j, To(j, "cancelled"))
           /\ NoFurther(j, To(j, "queued"))
<1>1. \A k \in Job : \A s \in {"failed", "cancelled", "queued"} :
         NoFurther(k, To(k, s))
  <2> SUFFICES ASSUME NEW k \in Job, NEW s \in {"failed", "cancelled", "queued"}
               PROVE  NoFurther(k, To(k, s))
    OBVIOUS
  <2>1. s \in Statuses
    BY DEF Statuses
  <2> QED BY <2>1, ToIsJob DEF NoFurther, PastApproval
<1>2. \A k \in Job : NoFurther(k, Failed(k))
  BY <1>1 DEF Failed, NoFurther
<1>3. NoFurther(j, Terminalized(j, a, state))
  BY DEF NoFurther, Terminalized, PastApproval, Job
<1>4. Terminalized(j, a, state) \in Job
  BY TerminalizedIsJob
<1>5. NoFurther(j, Unsuccessful(j, a, state))
  BY <1>2, <1>3, <1>4 DEF Unsuccessful, NoFurther
<1>6. \/ Planned(j) = j
      \/ Planned(j).status = "await_approval" /\ Planned(j).pr = j.pr
  BY DEF Planned, Job
<1>7. NoFurther(j, Planned(j))
  BY <1>6 DEF NoFurther, PastApproval
<1>8. \/ Simulated(j).status = "completed" /\ Simulated(j).pr = j.pr
      \/ Simulated(j) = Failed(j)
  BY DEF Simulated, Job
<1>9. request.dryRun => NoFurther(j, Simulated(j))
  BY <1>2, <1>8 DEF NoFurther, PastApproval
<1> QED BY <1>1, <1>2, <1>3, <1>5, <1>7, <1>9

LEMMA RunBeginsApproved ==
    ASSUME TypeInv, ApprovalInv, NEW c \in Calls, RunBegins(c)
    PROVE  ApprovalInv'
<1> DEFINE j == Planned(job)
<1>0. CallsOK /\ job \in Job /\ Grows
  <2>1. Next
    BY DEF Next, Run
  <2> QED BY <2>1, TypeParts, Monotone DEF RecordTypeOK, Grows
<1>1. approved' = approved /\ alive' = alive /\ (AgentAlive' => AgentAlive)
  BY DEF RunBegins, procVars, AgentAlive
<1>2. j \in Job /\ NoFurther(job, j) /\ NoFurther(job, job)
  <2>1. "failed" \in Terminal
    BY DEF Terminal
  <2> QED BY <1>0, <2>1, PlannedIsJob, NoneFurther DEF NoFurther
<1>3. job.status # "none"
  BY <1>0 DEF RunBegins, ApprovalInv, Sound
<1>4. CASE Returns(c) /\ NoFurther(job, job')
  BY <1>0, <1>1, <1>4, QuietApproved
<1>5. CASE /\ Returns(c)
           /\ \/ job' \in {job, Failed(job), j, Failed(j)}
              \/ request.dryRun /\ job' = Simulated(j)
  <2>1. "failed" \in Terminal
    BY DEF Terminal
  <2>2. /\ NoFurther(job, Failed(job)) /\ NoFurther(j, Failed(j))
        /\ request.dryRun => NoFurther(j, Simulated(j))
    BY <1>0, <1>2, <2>1, NoneFurther
  <2>3. NoFurther(job, job')
    BY <1>2, <1>5, <2>2 DEF NoFurther
  <2> QED BY <1>4, <1>5, <2>3
<1>6. CASE /\ RunGoesAhead(c, j) /\ ~request.dryRun /\ job.status # "cancelled"
           /\ job.status = "failed" /\ calls'[c].at = "probing"
                 => "unchecked" \in upsets'
  <2> DEFINE k == IF j.status = "await_approval" THEN To(j, "implement") ELSE j
  <2>1. /\ j.status = "await_approval" => "implement" \in approved
        /\ \/ job' = Failed(k) /\ Returns(c)
           \/ job' = k /\ Goes(c, Waiting("probing", k))
    BY <1>6 DEF RunGoesAhead
  <2>2. k \in Job /\ k.status # "none" /\ (PastApproval(k) => "implement" \in approved)
    <3>1. CASE j.status = "await_approval"
      <4>1. "implement" \in Statuses
        BY DEF Statuses
      <4> QED BY <1>2, <2>1, <3>1, <4>1, ToIsJob
    <3>2. CASE j.status # "await_approval"
      BY <1>2, <1>3, <3>2 DEF NoFurther, ApprovalInv
    <3> QED BY <3>1, <3>2
  <2>3. k.status = "failed" \/ "implement" \in approved
    <3>1. CASE j.status = "await_approval"
      BY <2>1, <3>1
    <3>2. CASE j.status # "await_approval"
      <4>1. k = job /\ job.status \notin {"queued", "investigate", "plan"}
        BY <1>0, <3>2 DEF Planned, Job
      <4>2. job.status \in {"failed"} \/ PastApproval(job)
        BY <1>0, <1>3, <1>6, <3>2, <4>1 DEF PastApproval, Job, Statuses
      <4> QED BY <4>1, <4>2 DEF ApprovalInv
    <3> QED BY <3>1, <3>2
  <2> HIDE DEF k
  <2>4. CASE job' = Failed(k) /\ Returns(c)
    <3>1. "failed" \in Terminal
      BY DEF Terminal
    <3>2. NoFurther(k, job')
      BY <2>2, <2>4, <3>1, NoneFurther
    <3>3. /\ PastApproval(job') => "implement" \in approved'
          /\ job'.status # "none"
      BY <1>1, <2>2, <3>2 DEF NoFurther
    <3> QED BY <1>0, <1>1, <2>4, <3>3, FreshFits, StepApproved DEF Returns
  <2>5. CASE job' = k /\ Goes(c, Waiting("probing", k))
    <3>1. calls'[c].at = "probing"
      BY <1>0, <2>5, FreshCalls DEF Goes, CallsOK
    <3>2. k.status = "failed" => Allowed'
      <4>1. k.status = "failed" => job.status = "failed" \/ "implement" \in approved
        <5>1. CASE j.status = "await_approval"
          BY <2>1, <5>1
        <5>2. CASE j.status # "await_approval"
          <6>1. k = job
            BY <1>0, <5>2 DEF Planned, Job, k
          <6> QED BY <6>1
        <5> QED BY <5>1, <5>2
      <4> QED BY <1>1, <1>6, <3>1, <4>1 DEF Allowed
    <3>3. Allowed'
      BY <1>1, <2>3, <3>2 DEF Allowed
    <3>4. Fits(Waiting("probing", k))
      BY <1>1, <2>2, <2>5, <3>3, FreshCalls DEF Fits
    <3> QED BY <1>0, <1>1, <2>2, <2>5, <3>4, StepApproved
  <2> QED BY <2>1, <2>4, <2>5
<1> QED BY <1>2, <1>5, <1>6 DEF RunBegins, RunParks, RunAsksApproval

LEMMA RunApproved ==
    ASSUME TypeInv, ApprovalInv, NEW c \in Calls, Run(c)
    PROVE  ApprovalInv'
<1> DEFINE a == calls[c].attempt
<1>0. CallsOK /\ job \in Job /\ calls[c].copy \in Job /\ Grows
  <2>1. Next
    BY DEF Next
  <2> QED BY <2>1, TypeParts, Monotone DEF RecordTypeOK, CallsOK, Call, Grows
<1>a. {"failed", "timed_out", "cancelled", "succeeded"} \subseteq Terminal
  BY DEF Terminal
<1>1. CASE RunBegins(c)
  BY <1>1, RunBeginsApproved
<1>2. CASE calls[c].at \in WithAttempt \cup {"probing"} /\ ~RunBegins(c)
  \* The call was at work before, so any work is allowed.
  <2>1. Allowed' /\ job.status # "none"
    <3>1. Sound(c)
      BY DEF ApprovalInv
    <3>2. calls[c].at # "free"
      BY <1>2 DEF WithAttempt, InGit
    <3> QED BY <1>0, <1>2, <3>1, <3>2 DEF Sound, Allowed, Grows
  <2>2. /\ PastApproval(job') => "implement" \in approved'
        /\ job'.status # "none"
    <3>1. CASE NoFurther(job, job')
      BY <1>0, <2>1, <3>1 DEF NoFurther, ApprovalInv, Grows
    <3>2. CASE calls[c].at = "probing" /\ NoFurther(calls[c].copy, job')
      <4>1. Sound(c) /\ "probing" \in WithCopy
        BY DEF ApprovalInv, WithCopy
      <4> QED BY <1>0, <3>2, <4>1 DEF NoFurther, Sound, Grows
    <3>3. CASE job.status = "implement" /\ job' \in Finished(Terminalized(job, a, "succeeded"))
      <4>1. Terminalized(job, a, "succeeded") \in Job
        BY <1>0, <1>a, TerminalizedIsJob
      <4>2. \A j \in Job : \A k \in Finished(j) : k.status # "none"
        <5>1. {"test", "completed", "await_pr_approval"} \subseteq Statuses
          BY DEF Statuses
        <5> QED BY <5>1, ToIsJob DEF Finished
      <4>3. "implement" \in approved
        BY <3>3 DEF ApprovalInv, PastApproval
      <4> QED BY <1>0, <3>3, <4>1, <4>2, <4>3 DEF Grows
    <3>4. /\ \A j \in Job : \A s \in {"failed", "timed_out", "cancelled", "succeeded"} :
                /\ NoFurther(j, Terminalized(j, a, s))
                /\ NoFurther(j, Unsuccessful(j, a, s))
          /\ \A j \in Job : NoFurther(j, Failed(j)) /\ NoFurther(j, j)
      BY <1>a, NoneFurther DEF NoFurther
    <3>5. ASSUME NEW b \in Attempts
          PROVE  /\ NoFurther(calls[c].copy,
                       [calls[c].copy EXCEPT !.attempts[b] = "preparing", !.active = b])
                 /\ NoFurther(job, [job EXCEPT !.attempts[b] = "running"])
      BY <1>0 DEF NoFurther, PastApproval, Job
    <3>6. CASE ProbeAnswered(c)
      BY <1>0, <3>1, <3>2, <3>4, <3>5, <3>6 DEF ProbeAnswered
    <3>7. CASE RunEnds(c)
      <4> DEFINE j == Terminalized(job, a, "succeeded")
      <4>1. j \in Job /\ NoFurther(job, j)
        BY <1>0, <1>a, <3>4, TerminalizedIsJob
      <4>2. \/ job' \in {Unsuccessful(job, a, "failed"), job, j, Failed(j)}
            \/ job.status = "implement" /\ job' \in Finished(j)
        BY <3>7 DEF RunEnds
      <4> HIDE DEF j
      <4>3. CASE job' \in {Unsuccessful(job, a, "failed"), job, j, Failed(j)}
        <5>1. NoFurther(job, job')
          BY <1>0, <3>4, <4>1, <4>3 DEF NoFurther
        <5> QED BY <3>1, <5>1
      <4> QED BY <3>3, <4>2, <4>3 DEF j
    <3>8. CASE PrepareDone(c)
      <4>1. a \in Attempts
        BY <3>8, TypeParts DEF PrepareDone, AttemptsKnown, WithAttempt
      <4> QED BY <1>0, <3>1, <3>4, <3>5, <3>8, <4>1 DEF PrepareDone
    <3>9. CASE \/ GitStarts(c) \/ GitTimesOut(c) \/ GitEnds(c) \/ RunFails(c)
               \/ AgentSpawns(c) \/ AgentCloses(c) \/ AgentTimesOut(c)
      <4>1. \/ job' = job
            \/ \E s \in {"failed", "timed_out", "cancelled"} :
                  job' \in {Unsuccessful(job, a, s), Terminalized(job, a, s)}
        BY <3>9 DEF GitStarts, GitTimesOut, GitEnds, RunFails, AgentSpawns,
           AgentCloses, AgentTimesOut
      <4> QED BY <1>0, <3>1, <3>4, <4>1
    <3> QED BY <1>2, <3>6, <3>7, <3>8, <3>9 DEF Run
  <2>3. \/ Returns(c)
        \/ \E at \in WithAttempt : \E b, r : Goes(c, Attempting(at, b, r))
    <3>1. {"preparing", "inGit", "gitTimedOut", "prepared", "launching",
           "working", "ended"} = WithAttempt
      BY DEF WithAttempt, InGit
    <3> QED BY <1>2, <3>1 DEF Run, Begun, Onward, ProbeAnswered, GitStarts,
            GitTimesOut, GitEnds, PrepareDone, RunFails, AgentSpawns,
            AgentCloses, AgentTimesOut, RunEnds
  <2>4. ASSUME NEW at \in WithAttempt, NEW b, NEW r
        PROVE  Fits(Attempting(at, b, r))
    <3>1. at \notin WithCopy \cup {"closing", "pushing", "posting"}
      BY DEF WithAttempt, InGit, WithCopy
    <3>2. ~PastApproval(NoJob)
      BY DEF PastApproval, NoJob
    <3> QED BY <2>1, <2>2, <3>1, <3>2, FreshCalls DEF Fits
  <2>5. \E call : Goes(c, call) /\ Fits(call)
    BY <2>3, <2>4, FreshFits DEF Returns
  <2> QED BY <1>0, <2>1, <2>2, <2>5, StepApproved
<1>3. RunBegins(c) \/ calls[c].at \in WithAttempt \cup {"probing"}
  BY DEF Run, ProbeAnswered, GitStarts, GitTimesOut, GitEnds, PrepareDone,
     RunFails, AgentSpawns, AgentCloses, AgentTimesOut, RunEnds, WithAttempt, InGit
<1> QED BY <1>1, <1>2, <1>3

LEMMA PublicationApproved ==
    ASSUME TypeInv, ApprovalInv, NEW c \in Calls, Publication(c)
    PROVE  ApprovalInv'
<1>0. /\ CallsOK /\ job \in Job /\ calls[c].copy \in Job /\ Grows
      /\ "ci_running" \in Statuses
  <2>1. Next
    BY DEF Next
  <2> QED BY <2>1, TypeParts, Monotone DEF RecordTypeOK, CallsOK, Call, Grows, Statuses
<1>1. AgentAlive' => AgentAlive
  BY DEF Publication, PublicationFails, PushDone, PostDone, procVars, AgentAlive
<1>2. CASE PublicationFails(c)
  <2>1. "failed" \in Terminal
    BY DEF Terminal
  <2>2. NoFurther(job, job')
    BY <1>0, <1>2, <2>1, NoneFurther DEF PublicationFails, NoFurther
  <2> QED BY <1>0, <1>1, <1>2, <2>2, QuietApproved DEF PublicationFails
<1>3. CASE PushDone(c)
  <2>1. "posting" \notin WithAttempt \cup {"probing"} /\ "pushing" \in WithCopy
    BY DEF WithAttempt, InGit, WithCopy
  <2>2. /\ job' = job /\ Goes(c, Waiting("posting", calls[c].copy))
        /\ calls[c].at = "pushing"
    BY <1>3 DEF PushDone
  <2>3. Sound(c)
    BY DEF ApprovalInv
  <2>4. Fits(Waiting("posting", calls[c].copy))
    BY <1>0, <2>1, <2>2, <2>3, FreshCalls DEF Fits, Sound, Grows
  <2>5. PastApproval(job') => "implement" \in approved'
    BY <1>0, <2>2 DEF ApprovalInv, Grows
  <2> QED BY <1>0, <1>1, <2>2, <2>4, <2>5, StepApproved
<1>4. CASE PostDone(c)
  <2>1. job'.status = "ci_running"
    <3>1. job' = [To(calls[c].copy, "ci_running") EXCEPT !.pr = "open"]
      BY <1>4 DEF PostDone
    <3>2. /\ To(calls[c].copy, "ci_running") \in Job
          /\ To(calls[c].copy, "ci_running").status = "ci_running"
      BY <1>0, ToIsJob
    <3> QED BY <3>1, <3>2 DEF Job
  <2>2. "implement" \in approved'
    BY <1>0, <1>4 DEF PostDone, Publishing, ApprovalInv, PastApproval, Grows
  <2> QED BY <1>0, <1>1, <1>4, <2>1, <2>2, QuietApproved DEF PostDone
<1> QED BY <1>2, <1>3, <1>4 DEF Publication

LEMMA AnswerApproved ==
    ASSUME TypeInv, ApprovalInv, NEW c \in Calls, Answer(c)
    PROVE  ApprovalInv'
<1>0. /\ CallsOK /\ job \in Job /\ calls[c].copy \in Job /\ Grows
      /\ {"completed", "cancelled"} \subseteq Statuses
  <2>1. Next
    BY DEF Next
  <2> QED BY <2>1, TypeParts, Monotone DEF RecordTypeOK, CallsOK, Call, Grows, Statuses
<1>1. AgentAlive' => AgentAlive
  BY DEF Answer, FallbackAnswered, CiAnswered, RevertDone, ClosePrDone, procVars,
     AgentAlive
<1>2. calls[c].at \in WithCopy /\ Sound(c)
  BY DEF Answer, FallbackAnswered, CiAnswered, RevertDone, ClosePrDone, WithCopy,
     ApprovalInv
<1>3. NoFurther(job, job) /\ NoFurther(calls[c].copy, calls[c].copy)
  BY DEF NoFurther
<1>4. CASE FallbackAnswered(c)
  <2>1. \A r : NoFurther(calls[c].copy, [calls[c].copy EXCEPT !.runner = r])
    BY <1>0 DEF NoFurther, PastApproval, Job
  <2>2. CASE FallbackTaken(c, calls[c].copy, "devin")
    <3>1. NoFurther(calls[c].copy, job') /\ job'.status # "none"
      BY <1>2, <2>1, <2>2 DEF FallbackTaken, NoFurther, Sound
    <3> QED BY <1>0, <1>1, <1>2, <2>2, <3>1, QuietApproved DEF FallbackTaken
  <2>3. CASE Returns(c) /\ job' = job
    BY <1>0, <1>1, <1>3, <2>3, QuietApproved
  <2> QED BY <1>4, <2>2, <2>3 DEF FallbackAnswered
<1>5. CASE CiAnswered(c)
  <2>1. CASE job' \in {job, calls[c].copy}
    BY <1>0, <1>1, <1>2, <1>3, <1>5, <2>1, QuietApproved DEF CiAnswered
  <2>2. CASE /\ calls[c].copy.status = "ci_running"
             /\ job' = To(calls[c].copy, "completed")
    <3>1. NoFurther(calls[c].copy, job')
      BY <1>0, <2>2, ToIsJob DEF NoFurther, PastApproval
    <3> QED BY <1>0, <1>1, <1>2, <1>5, <3>1, QuietApproved DEF CiAnswered
  <2> QED BY <1>5, <2>1, <2>2 DEF CiAnswered
<1>6. CASE RevertDone(c)
  <2>1. NoFurther(calls[c].copy, [calls[c].copy EXCEPT !.status = "cancelled"])
    BY <1>0 DEF NoFurther, PastApproval, Job
  <2> QED BY <1>0, <1>1, <1>2, <1>6, <2>1, QuietApproved DEF RevertDone
<1>7. CASE ClosePrDone(c)
  <2>1. CASE job' = job
    BY <1>0, <1>1, <1>3, <1>7, <2>1, QuietApproved DEF ClosePrDone
  <2>2. CASE job' = [calls[c].copy EXCEPT !.pr = "closed"]
    <3>1. job'.status = calls[c].copy.status
      BY <1>0, <2>2 DEF Job
    <3>2. job'.status # "none" /\ "implement" \in approved'
      BY <1>0, <1>2, <1>7, <3>1 DEF ClosePrDone, Sound, Grows
    <3> QED BY <1>0, <1>1, <1>7, <3>2, QuietApproved DEF ClosePrDone
  <2> QED BY <1>7, <2>1, <2>2 DEF ClosePrDone
<1> QED BY <1>4, <1>5, <1>6, <1>7 DEF Answer

LEMMA OwnerApproved ==
    ASSUME TypeInv, ApprovalInv, NEW c \in Calls, Owner(c)
    PROVE  ApprovalInv'
<1>0. /\ CallsOK /\ job \in Job /\ Grows
      /\ {"queued", "implement", "open_pr"} \subseteq Statuses
      /\ NoJob \in Job
  <2>1. Next
    BY DEF Next
  <2> QED BY <2>1, TypeParts, Monotone, NoJobIsJob DEF RecordTypeOK, Grows, Statuses
<1>1. AgentAlive' => AgentAlive
  BY DEF Owner, StartJob, RetryJob, ApproveJob, RequestFallback, OpenPr, RefreshCi,
     RevertJob, ClosePr, procVars, AgentAlive
<1>2. NoFurther(job, job)
  BY DEF NoFurther
\* A call that waits with a copy of the job as it is.
<1>3. ASSUME NEW at \in {"fallback", "lookingUp", "deleting", "closing"},
             Goes(c, Waiting(at, job)), job' = job, job.status # "none",
             at = "closing" => job.pr # "no"
      PROVE  ApprovalInv'
  <2>1. at \notin WithAttempt \cup {"probing", "pushing", "posting"}
    BY DEF WithAttempt, InGit
  <2>2. at = "closing" \/ PastApproval(job) => "implement" \in approved'
    BY <1>0, <1>3 DEF ApprovalInv, PastApproval, Grows
  <2>3. Fits(Waiting(at, job))
    BY <1>3, <2>1, <2>2, FreshCalls DEF Fits
  <2> QED BY <1>0, <1>1, <1>3, <2>2, <2>3, StepApproved
<1>4. CASE StartJob(c)
  <2>1. job'.status = "queued" /\ job'.pr = "no"
    BY <1>0, <1>4, FreshCalls DEF StartJob, Job
  <2>2. NoFurther(job, job')
    BY <2>1 DEF NoFurther, PastApproval
  <2> QED BY <1>0, <1>1, <1>4, <2>1, <2>2, QuietApproved DEF StartJob
<1>5. CASE RetryJob(c)
  <2>1. "failed" \in Terminal
    BY DEF Terminal
  <2>2. NoFurther(job, job') /\ job'.status = "queued"
    BY <1>0, <1>5, <2>1, NoneFurther, ToIsJob DEF RetryJob
  <2> QED BY <1>0, <1>1, <1>5, <2>2, QuietApproved DEF RetryJob
<1>6. CASE ApproveJob(c)
  <2>1. job'.status # "none" /\ "implement" \in approved'
    BY <1>0, <1>6, ToIsJob DEF ApproveJob
  <2> QED BY <1>0, <1>1, <1>6, <2>1, QuietApproved DEF ApproveJob
<1>7. CASE RequestFallback(c)
  <2>1. CASE Goes(c, Waiting("fallback", job)) /\ job' = job
    BY <1>3, <1>7, <2>1 DEF RequestFallback
  <2>2. ASSUME NEW r, FallbackTaken(c, job, r)
        PROVE  ApprovalInv'
    <3>1. NoFurther(job, [job EXCEPT !.runner = r])
      BY <1>0 DEF NoFurther, PastApproval, Job
    <3>2. NoFurther(job, job') /\ job'.status # "none"
      BY <1>7, <2>2, <3>1 DEF FallbackTaken, RequestFallback, NoFurther
    <3> QED BY <1>0, <1>1, <2>2, <3>2, QuietApproved DEF FallbackTaken
  <2> QED BY <1>7, <2>1, <2>2 DEF RequestFallback
<1>8. CASE OpenPr(c)
  <2>1. CASE UNCHANGED <<job, calls>>
    BY <1>0, <1>1, <1>2, <2>1, QuietApproved
  <2>2. CASE /\ "openPr" \in approved
             /\ job' = To(job, "open_pr")
             /\ Goes(c, Waiting("pushing", To(job, "open_pr")))
    <3>1. To(job, "open_pr").status = "open_pr"
      BY <1>0, ToIsJob
    <3>2. "implement" \in approved' /\ "openPr" \in approved'
      BY <1>0, <1>8, <2>2 DEF OpenPr, ApprovalInv, PastApproval, Grows
    <3>3. "pushing" \notin WithAttempt \cup {"probing"}
      BY DEF WithAttempt, InGit
    <3>4. Fits(Waiting("pushing", To(job, "open_pr")))
      BY <2>2, <3>1, <3>2, <3>3, FreshCalls DEF Fits
    <3> QED BY <1>0, <1>1, <2>2, <3>1, <3>2, <3>4, StepApproved
  <2> QED BY <1>8, <2>1, <2>2 DEF OpenPr
<1>9. CASE RevertJob(c)
  <2>1. CASE UNCHANGED calls
    BY <1>0, <1>1, <1>2, <1>9, <2>1, QuietApproved DEF RevertJob
  <2>2. CASE Goes(c, Waiting("deleting", job))
    BY <1>3, <1>9, <2>2 DEF RevertJob
  <2> QED BY <1>9, <2>1, <2>2 DEF RevertJob
<1>10. CASE RefreshCi(c)
  BY <1>3, <1>10 DEF RefreshCi
<1>11. CASE ClosePr(c)
  <2>1. job.status # "none" /\ job.pr # "no"
    BY <1>11 DEF ClosePr, ApprovalInv
  <2> QED BY <1>3, <1>11, <2>1 DEF ClosePr
<1> QED BY <1>4, <1>5, <1>6, <1>7, <1>8, <1>9, <1>10, <1>11 DEF Owner

LEMMA ApprovalStep ==
    TypeInv /\ ApprovalInv /\ [Next]_vars => ApprovalInv'
<1> SUFFICES ASSUME TypeInv, ApprovalInv, [Next]_vars
             PROVE  ApprovalInv'
  OBVIOUS
<1>0. CallsOK /\ job \in Job /\ "cancelled" \in Terminal /\ NoFurther(job, job)
  BY TypeParts DEF RecordTypeOK, Terminal, NoFurther
<1>1. CASE UNCHANGED vars
  BY <1>1 DEF vars, jobVars, procVars, ApprovalInv, Sound, Allowed, AgentAlive,
     PastApproval
<1>2. CASE Next
  <2>1. Grows
    BY <1>2, Monotone DEF Grows
  <2>2. ASSUME NEW c \in Calls, Run(c) \/ Publication(c) \/ Answer(c) \/ Owner(c)
        PROVE  ApprovalInv'
    BY <2>2, RunApproved, PublicationApproved, AnswerApproved, OwnerApproved
  <2>3. ASSUME NoFurther(job, job'), alive' \subseteq alive,
               \/ UNCHANGED calls
               \/ calls' = Voided
               \/ calls' = [c \in Calls |-> Free]
        PROVE  ApprovalInv'
    <3>1. AgentAlive' => AgentAlive
      BY <2>3 DEF AgentAlive
    <3>2. /\ job'.status = "none" => job.status = "none" /\ job'.pr = job.pr
          /\ PastApproval(job') => "implement" \in approved'
      BY <2>1, <2>3 DEF NoFurther, ApprovalInv, Grows
    <3> QED BY <1>0, <2>1, <2>3, <3>1, <3>2, StepApproved
  <2>4. CASE CancelJob \/ DenyJob
    <3>1. alive' = alive /\ (calls' = Voided \/ UNCHANGED calls)
      BY <2>4 DEF CancelJob, DenyJob, procVars
    <3>2. NoFurther(job, job')
      <4> DEFINE j == IF Owns(job, job.active)
                      THEN Terminalized(job, job.active, "cancelled") ELSE job
      <4>1. j \in Job /\ NoFurther(job, j)
        BY <1>0, NoneFurther, TerminalizedIsJob
      <4>2. \/ job' = To(job, "cancelled")
            \/ job' = j
            \/ job' = To(j, "cancelled")
        BY <2>4 DEF CancelJob, DenyJob
      <4> HIDE DEF j
      <4>3. NoFurther(job, To(job, "cancelled")) /\ NoFurther(j, To(j, "cancelled"))
        BY <1>0, <4>1, NoneFurther
      <4> QED BY <4>1, <4>2, <4>3 DEF NoFurther
    <3> QED BY <2>3, <3>1, <3>2
  <2>5. CASE \/ ApprovePr \/ Restart
             \/ \E k \in Kinds : Review(k)
             \/ \E a \in Attempts : Escalate(a)
             \/ \E a \in Attempts, p \in Processes : OrphanEnds(a, p)
    <3>1. /\ job' = job /\ alive' \subseteq alive
          /\ UNCHANGED calls \/ calls' = Voided \/ calls' = [c \in Calls |-> Free]
      BY <2>5 DEF ApprovePr, Restart, Review, Escalate, OrphanEnds, procVars, jobVars
    <3> QED BY <1>0, <2>3, <3>1
  <2> QED BY <1>2, <2>2, <2>4, <2>5 DEF Next
<1> QED BY <1>1, <1>2

\* Without the owner's approval the job gets no further than to the gate and
\* nothing of it is pushed, whatever is retried, scheduled twice or written
\* back from a stale copy; an agent works unapproved only if a run began on a
\* job that had failed.
THEOREM ApprovalNeeded == Spec => []NothingUnapproved
<1>1. Init => ApprovalInv
  <2>1. ~PastApproval(NoJob) /\ "free" \notin WithAttempt \cup WithCopy
    BY DEF PastApproval, NoJob, WithAttempt, InGit, WithCopy
  <2>2. Free.copy = NoJob
    BY DEF Free
  <2> QED BY <2>1, <2>2, FreshCalls DEF Init, ApprovalInv, Sound, AgentAlive
<1>2. ApprovalInv => NothingUnapproved
  BY DEF ApprovalInv, Sound, NothingUnapproved, AgentAlive, Allowed, Working
<1> QED BY <1>1, <1>2, ApprovalStep, TypeInvariant, PTL DEF Spec

=============================================================================
