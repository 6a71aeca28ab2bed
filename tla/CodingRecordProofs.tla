------------------------- MODULE CodingRecordProofs -------------------------
(***************************************************************************)
(* Proof that the record of a coding job tells what goes on, as long as no *)
(* stale copy, second run or restart upset it.                             *)
(***************************************************************************)
EXTENDS CodingJobsProofs

USE CodingAssumption

\* A lease whose timer is armed has not ended.
TerminatingLeased == \A a \in terminating : leases[a] # "none"

Early == {"preparing", "prepared"} \cup InGit

ActiveOpen == job.active # NoAttempt => job.attempts[job.active] \in Open

\* One call at most probes the runner, for a job that has no attempt yet.
ProbesAlone ==
    \A c \in Calls : calls[c].at = "probing" =>
        /\ calls[c].copy.status = "implement"
        /\ \A d \in Calls \ {c} : calls[d].at # "probing"

ProbesIdle ==
    \A c \in Calls : calls[c].at = "probing" => job.active = NoAttempt

PreparingStill ==
    \A c \in Calls :
        calls[c].at \in Early /\ Owns(job, calls[c].attempt)
        => job.attempts[calls[c].attempt] = "preparing"

\* A git process of the job's own attempt is killed by nobody but its timeout:
\* a cancellation ends the attempt first.
GitHeld ==
    \A c \in Calls :
        calls[c].at = "inGit" /\ Owns(job, calls[c].attempt)
        => /\ leases[calls[c].attempt] = "git"
           /\ calls[c].attempt \notin terminating

Calm ==
    /\ Attended(job)
    /\ ActiveOpen
    /\ ProbesAlone
    /\ ProbesIdle
    /\ PreparingStill
    /\ GitHeld

RecordInv ==
    /\ TerminatingLeased
    /\ AttemptsOwn
    /\ upsets = {} => Calm

-----------------------------------------------------------------------------
(* Operations on a job that is at rest.                                      *)

Settled == {"none", "completed", "failed", "cancelled"}

AtRest(j) == j.active = NoAttempt /\ OpenAttempts(j) = {}

LEMMA FailedSettles ==
    ASSUME NEW j \in Job
    PROVE  /\ Failed(j).status \in Settled
           /\ AtRest(j) => AtRest(Failed(j))
<1>1. "failed" \in Statuses
  BY DEF Statuses
<1>2. "failed" \notin Transitions[j.status] => j.status \in Settled
  BY DEF Job, Statuses, Transitions, Settled
<1>3. "failed" \in Settled
  BY DEF Settled
<1> QED BY <1>1, <1>2, <1>3, ToIsJob DEF Failed, AtRest, OpenAttempts

LEMMA TerminalizedRests ==
    ASSUME NEW j \in Job, NEW a \in Attempts, NEW state \in Terminal,
           OpenAttempts(j) \subseteq {j.active}, Owns(j, a)
    PROVE  /\ AtRest(Terminalized(j, a, state))
           /\ Terminalized(j, a, state).status = j.status
<1> DEFINE k == Terminalized(j, a, state)
<1>1. /\ k.active = NoAttempt /\ k.status = j.status
      /\ k.attempts = [j.attempts EXCEPT ![a] = state]
  BY DEF Terminalized, Job
<1>2. Open \cap Terminal = {}
  BY DEF Open, Terminal
<1>3. ASSUME NEW b \in Attempts, k.attempts[b] \in Open
      PROVE  FALSE
  <2>1. b # a
    BY <1>1, <1>2, <1>3 DEF Job
  <2>2. b \in OpenAttempts(j)
    BY <1>1, <1>3, <2>1 DEF OpenAttempts, Job
  <2> QED BY <2>1, <2>2 DEF Owns
<1> QED BY <1>1, <1>3 DEF AtRest, OpenAttempts

LEMMA UnsuccessfulRests ==
    ASSUME NEW j \in Job, NEW a \in Attempts, NEW state \in Terminal,
           OpenAttempts(j) \subseteq {j.active}
    PROVE  /\ ~Owns(j, a) => Unsuccessful(j, a, state) = j
           /\ Owns(j, a) => /\ AtRest(Unsuccessful(j, a, state))
                            /\ Unsuccessful(j, a, state).status \in Settled
BY TerminalizedRests, TerminalizedIsJob, FailedSettles DEF Unsuccessful

LEMMA PlannedRests ==
    ASSUME NEW j \in Job, AtRest(j)
    PROVE  AtRest(Planned(j)) /\ AtRest(Simulated(Planned(j)))
<1> DEFINE k == Planned(j)
<1>1. k \in Job
  BY PlannedIsJob
<1>2. k.active = j.active /\ k.attempts = j.attempts
  BY DEF Planned, Job
<1>3. AtRest(k)
  BY <1>2 DEF AtRest, OpenAttempts
<1> HIDE DEF k
<1>4. \/ Simulated(k) = Failed(k)
      \/ Simulated(k).active = k.active /\ Simulated(k).attempts = k.attempts
  BY <1>1 DEF Simulated, Job
<1>5. AtRest(Simulated(k))
  BY <1>1, <1>3, <1>4, FailedSettles DEF AtRest, OpenAttempts
<1> QED BY <1>3, <1>5 DEF k

LEMMA FinishedRests ==
    ASSUME NEW j \in Job, AtRest(j), NEW k \in Finished(j)
    PROVE  AtRest(k) /\ k.status \in {"completed", "await_pr_approval"}
<1>1. {"test", "completed", "await_pr_approval"} \subseteq Statuses
  BY DEF Statuses
<1>2. To(j, "test") \in Job /\ AtRest(To(j, "test"))
  BY <1>1, ToIsJob DEF AtRest, OpenAttempts
<1> QED BY <1>1, <1>2, ToIsJob DEF Finished, AtRest, OpenAttempts

-----------------------------------------------------------------------------
(* How calmness survives a step of one call.                                 *)

\* The registry changes at most for attempt a.
OnlyFor(a) ==
    \A b \in Attempts \ {a} : /\ leases'[b] = leases[b]
                              /\ b \in terminating' => b \in terminating

RegistryOf(c) ==
    \/ calls[c].at \in WithAttempt /\ OnlyFor(calls[c].attempt)
    \/ UNCHANGED <<leases, terminating>>

SameRecord ==
    /\ job'.status = job.status
    /\ job'.active = job.active
    /\ job'.attempts = job.attempts
    /\ job'.history = job.history

\* The step of call c leaves the record as it is.
LEMMA CallIsCalm ==
    ASSUME TypeInv, AttemptsOwn, Calm, NEW c \in Calls, NEW call, Goes(c, call),
           SameRecord, RegistryOf(c), call.at # "probing",
           calls[c].at \in WithAttempt /\ Owns(job, calls[c].attempt) =>
              call.at \in WithAttempt /\ call.attempt = calls[c].attempt,
           calls[c].at \in {"run", "probing"} =>
              \/ job.status \notin {"queued", "implement"}
              \/ job.active # NoAttempt,
           (/\ calls[c].at \in {"pushing", "posting"}
            /\ job.status = "open_pr"
            /\ calls[c].copy.history = job.history) =>
              call.at \in {"pushing", "posting"} /\ call.copy = calls[c].copy,
           call.at \in Early =>
              calls[c].at \in Early /\ call.attempt = calls[c].attempt,
           call.at = "inGit" => /\ leases'[call.attempt] = "git"
                                /\ call.attempt \notin terminating'
    PROVE  Calm'
<1>0. CallsOK /\ AttemptsKnown
  BY TypeParts
<1>1. \A d \in Calls : calls'[d] = IF d = c THEN call ELSE calls[d]
  BY <1>0 DEF Goes, CallsOK
<1>2. Early \subseteq WithAttempt
  BY DEF Early, WithAttempt
<1>3. Attended(job)'
  <2>1. OpenAttempts(job)' \subseteq {job'.active}
    BY DEF SameRecord, Calm, Attended, OpenAttempts
  <2>2. job'.active # NoAttempt =>
           /\ job'.status = "implement"
           /\ \E d \in Calls : /\ calls'[d].at \in WithAttempt
                               /\ calls'[d].attempt = job'.active
    BY <1>1 DEF SameRecord, Calm, Attended, ActiveOpen, Owns
  <2>3. job'.status \in {"queued", "implement"} =>
           \/ job'.active # NoAttempt
           \/ \E d \in Calls : calls'[d].at \in {"run", "probing"}
    BY <1>1 DEF SameRecord, Calm, Attended
  <2>4. job'.status = "open_pr" =>
           \E d \in Calls : /\ calls'[d].at \in {"pushing", "posting"}
                            /\ calls'[d].copy.history = job'.history
    <3> SUFFICES ASSUME job.status = "open_pr"
                 PROVE  \E d \in Calls : /\ calls'[d].at \in {"pushing", "posting"}
                                         /\ calls'[d].copy.history = job.history
      BY DEF SameRecord
    <3>1. PICK d \in Calls : /\ calls[d].at \in {"pushing", "posting"}
                             /\ calls[d].copy.history = job.history
      BY DEF Calm, Attended
    <3> QED BY <1>1, <3>1
  <2> QED BY <2>1, <2>2, <2>3, <2>4 DEF Attended, SameRecord, Calm
<1>4. ActiveOpen'
  BY DEF ActiveOpen, SameRecord, Calm
<1>5. ProbesAlone' /\ ProbesIdle'
  BY <1>1 DEF ProbesAlone, ProbesIdle, SameRecord, Calm
<1>6. PreparingStill'
  BY <1>1 DEF PreparingStill, SameRecord, Calm, Owns
<1>7. GitHeld'
  <2> SUFFICES ASSUME NEW d \in Calls, calls'[d].at = "inGit",
                      Owns(job', calls'[d].attempt)
               PROVE  /\ leases'[calls'[d].attempt] = "git"
                      /\ calls'[d].attempt \notin terminating'
    BY DEF GitHeld
  <2>1. CASE d = c
    BY <1>1, <2>1
  <2>2. CASE d # c
    <3>1. calls'[d] = calls[d] /\ calls[d].at \in WithAttempt
      BY <1>1, <2>2 DEF WithAttempt, InGit
    <3>2. calls[d].attempt \in Attempts
      BY <1>0, <3>1 DEF AttemptsKnown
    <3>3. Owns(job, calls[d].attempt)
      BY <3>1 DEF Owns, SameRecord
    <3>4. /\ leases[calls[d].attempt] = "git"
          /\ calls[d].attempt \notin terminating
      BY <3>1, <3>3 DEF Calm, GitHeld
    <3>5. calls[c].at \in WithAttempt => calls[d].attempt # calls[c].attempt
      BY <2>2, <3>1 DEF AttemptsOwn
    <3> QED BY <3>1, <3>2, <3>4, <3>5 DEF RegistryOf, OnlyFor
  <2> QED BY <2>1, <2>2
<1> QED BY <1>3, <1>4, <1>5, <1>6, <1>7 DEF Calm

\* A job at rest needs at most somebody to go on with it.
LEMMA RestIsCalm ==
    ASSUME AtRest(job)', ProbesAlone',
           job'.status \notin {"investigate", "plan", "test"},
           job'.status \in {"queued", "implement"} =>
              \E d \in Calls : calls'[d].at \in {"run", "probing"},
           job'.status = "open_pr" =>
              \E d \in Calls : /\ calls'[d].at \in {"pushing", "posting"}
                               /\ calls'[d].copy.history = job'.history
    PROVE  Calm'
<1>1. Attended(job)'
  BY DEF Attended, AtRest
<1>2. ActiveOpen' /\ ProbesIdle'
  BY DEF ActiveOpen, ProbesIdle, AtRest
<1>3. \A a : ~Owns(job, a)'
  BY DEF Owns, AtRest
<1>4. PreparingStill' /\ GitHeld'
  BY <1>3 DEF PreparingStill, GitHeld
<1> QED BY <1>1, <1>2, <1>4 DEF Calm

\* No call starts a probe.
NoNewProbe ==
    \A d \in Calls : calls'[d].at = "probing" => calls'[d] = calls[d]

LEMMA ProbesStayAlone ==
    ASSUME ProbesAlone, NoNewProbe
    PROVE  ProbesAlone'
BY DEF ProbesAlone, NoNewProbe

Resting ==
    Settled \cup {"await_approval", "await_pr_approval", "ci_running"}

LEMMA CallRests ==
    ASSUME CallsOK, ProbesAlone, NEW c \in Calls, NEW call, Goes(c, call),
           call.at # "probing", AtRest(job)',
           \/ job'.status \in Resting
           \/ job'.status \in {"queued", "implement"} /\ call.at = "run"
           \/ /\ job'.status = "open_pr"
              /\ call.at = "pushing" /\ call.copy.history = job'.history
    PROVE  Calm'
<1>1. \A d \in Calls : calls'[d] = IF d = c THEN call ELSE calls[d]
  BY DEF Goes, CallsOK
<1>2. ProbesAlone'
  BY <1>1, ProbesStayAlone DEF NoNewProbe
<1>3. Resting \cap {"investigate", "plan", "test", "queued", "implement",
                    "open_pr"} = {}
  BY DEF Resting, Settled
<1> QED BY <1>1, <1>2, <1>3, RestIsCalm

-----------------------------------------------------------------------------
(* The registry.                                                             *)

LEMMA LeasesStep ==
    TypeInv /\ TerminatingLeased /\ [Next]_vars => TerminatingLeased'
<1> SUFFICES ASSUME TypeInv, TerminatingLeased, [Next]_vars
             PROVE  TerminatingLeased'
  OBVIOUS
<1>0. ProcTypeOK /\ AttemptsKnown
  BY TypeParts
<1>1. ASSUME UNCHANGED <<leases, terminating>>
      PROVE  TerminatingLeased'
  BY <1>1 DEF TerminatingLeased
<1>2. ASSUME NEW c \in Calls, Run(c)
      PROVE  TerminatingLeased'
  <2> DEFINE a == calls[c].attempt
  <2>1. CASE \/ RunBegins(c) \/ ProbeAnswered(c) \/ PrepareDone(c)
             \/ RunFails(c) \/ RunEnds(c)
    BY <1>1, <2>1 DEF RunBegins, ProbeAnswered, PrepareDone, RunFails, RunEnds, procVars
  <2>2. CASE \/ GitStarts(c) \/ GitTimesOut(c) \/ GitEnds(c)
             \/ AgentSpawns(c) \/ AgentCloses(c) \/ AgentTimesOut(c)
    <3>1. /\ a \in Attempts
          /\ \/ \E p \in Processes : Spawned(a, p) \/ Closed(a, p)
             \/ Terminated(a)
             \/ /\ a \notin terminating
                /\ leases' = [leases EXCEPT ![a] = "none"]
                /\ UNCHANGED terminating
      <4>1. a \in Attempts
        BY <1>0, <2>2 DEF GitStarts, GitTimesOut, GitEnds, AgentSpawns, AgentCloses,
           AgentTimesOut, AttemptsKnown, WithAttempt, InGit
      <4>2. "git" \in Processes /\ calls[c].runner \in Processes
        BY TypeParts DEF CallsOK, Call, Processes
      <4> QED BY <2>2, <4>1, <4>2 DEF GitStarts, GitTimesOut, GitEnds, AgentSpawns,
              AgentCloses, AgentTimesOut
    <3>2. CASE \E p \in Processes : Spawned(a, p) \/ Closed(a, p)
      BY <1>0, <3>1, <3>2 DEF Spawned, Closed, TerminatingLeased, ProcTypeOK
    <3>3. CASE Terminated(a)
      BY <3>3 DEF Terminated, TerminatingLeased
    <3>4. CASE /\ a \notin terminating
               /\ leases' = [leases EXCEPT ![a] = "none"]
               /\ UNCHANGED terminating
      BY <1>0, <3>4 DEF TerminatingLeased, ProcTypeOK
    <3> QED BY <3>1, <3>2, <3>3, <3>4
  <2> QED BY <1>2, <2>1, <2>2 DEF Run
<1>3. ASSUME NEW c \in Calls, Publication(c) \/ Answer(c) \/ Owner(c)
      PROVE  TerminatingLeased'
  BY <1>1, <1>3 DEF Publication, PublicationFails, PushDone, PostDone, Answer,
     FallbackAnswered, CiAnswered, RevertDone, ClosePrDone, Owner, StartJob,
     RetryJob, ApproveJob, RequestFallback, OpenPr, RefreshCi, RevertJob, ClosePr,
     procVars
<1>4. CASE CancelJob
  BY <1>4 DEF CancelJob, TerminatingLeased
<1>5. CASE \/ DenyJob \/ ApprovePr \/ \E k \in Kinds : Review(k)
           \/ \E a \in Attempts, p \in Processes : OrphanEnds(a, p)
           \/ UNCHANGED vars
  BY <1>1, <1>5 DEF DenyJob, ApprovePr, Review, OrphanEnds, procVars, vars
<1>6. ASSUME NEW a \in Attempts, Escalate(a)
      PROVE  TerminatingLeased'
  BY <1>0, <1>6 DEF Escalate, TerminatingLeased, ProcTypeOK
<1>7. CASE Restart
  BY <1>7 DEF Restart, TerminatingLeased
<1> QED BY <1>2, <1>3, <1>4, <1>5, <1>6, <1>7 DEF Next

-----------------------------------------------------------------------------
(* Every step keeps a calm record calm, or upsets it.                        *)

\* What calmness and the types give before a step.
LEMMA CalmFacts ==
    ASSUME TypeInv, RecordInv, Calm
    PROVE  /\ CallsOK /\ job \in Job /\ AttemptsOwn
           /\ OpenAttempts(job) \subseteq {job.active}
           /\ job.status # "implement" => AtRest(job)
           /\ job.active = NoAttempt => AtRest(job)
           /\ \A a \in Attempts : Owns(job, a) <=> job.active = a
           /\ \A c \in Calls : calls[c].copy \in Job
<1>1. CallsOK /\ job \in Job
  BY TypeParts DEF RecordTypeOK
<1>2. OpenAttempts(job) \subseteq {job.active}
  BY DEF Calm, Attended
<1>3. job.active = NoAttempt => AtRest(job)
  BY <1>2 DEF AtRest, OpenAttempts
<1>4. \A a \in Attempts : Owns(job, a) <=> job.active = a
  BY DEF Owns, Calm, ActiveOpen
<1>5. \A c \in Calls : calls[c].copy \in Job
  BY <1>1 DEF CallsOK, Call
<1>6. job.status # "implement" => job.active = NoAttempt
  BY DEF Calm, Attended
<1>7. job.status # "implement" => AtRest(job)
  BY <1>3, <1>6
<1>8. AttemptsOwn
  BY DEF RecordInv
<1> QED BY <1>1, <1>2, <1>3, <1>4, <1>5, <1>7, <1>8

LEMMA FreeIsNothing ==
    /\ Free.at \notin WithAttempt /\ Free.at \notin Early
    /\ Free.at = "free"
BY DEF Free, WithAttempt, Early, InGit

LEMMA ReturnIsCalm ==
    ASSUME TypeInv, AttemptsOwn, Calm, NEW c \in Calls, Returns(c),
           SameRecord, RegistryOf(c),
           calls[c].at \in WithAttempt => ~Owns(job, calls[c].attempt),
           calls[c].at \in {"run", "probing"} =>
              \/ job.status \notin {"queued", "implement"}
              \/ job.active # NoAttempt,
           calls[c].at \in {"pushing", "posting"} =>
              \/ job.status # "open_pr"
              \/ calls[c].copy.history # job.history
    PROVE  Calm'
<1>1. Goes(c, Free)
  BY DEF Returns
<1>2. Free.at \notin {"probing", "inGit"}
  BY FreeIsNothing
<1> QED BY <1>1, <1>2, FreeIsNothing, CallIsCalm

LEMMA RunBeginsCalm ==
    ASSUME TypeInv, RecordInv, Calm, NEW c \in Calls, RunBegins(c), upsets' = {}
    PROVE  Calm'
<1> DEFINE j == Planned(job)
<1>0. /\ CallsOK /\ job \in Job /\ AttemptsOwn
      /\ job.active = NoAttempt => AtRest(job)
  BY CalmFacts
<1>a. UNCHANGED <<leases, terminating>> /\ calls[c].at = "run"
  BY DEF RunBegins, procVars
<1>b. ProbesAlone /\ NoAttempt \notin Attempts
  BY DEF Calm
<1>1. CASE job.status = "cancelled" /\ Returns(c) /\ UNCHANGED job
  <2>1. SameRecord /\ RegistryOf(c) /\ "run" \notin WithAttempt
    BY <1>1, <1>a DEF SameRecord, RegistryOf, WithAttempt, InGit
  <2> QED BY <1>0, <1>1, <1>a, <2>1, ReturnIsCalm
<1>2. CASE job.status # "cancelled"
  <2>1. OnItsOwn(job)
    BY <1>2 DEF RunBegins
  <2>2. job'.status = "implement" => calls'[c].at # "free"
    BY <1>2 DEF RunBegins
  <2>3. /\ job.status \in {"queued", "await_approval", "implement"}
        /\ AtRest(job)
        /\ \A d \in Calls : calls[d].at # "probing"
    BY <1>0, <2>1 DEF OnItsOwn
  <2>4. /\ j \in Job /\ AtRest(j) /\ AtRest(Simulated(j))
        /\ j.status \in {"await_approval", "implement"}
    <3>1. j \in Job /\ AtRest(j) /\ AtRest(Simulated(j))
      BY <1>0, <2>3, PlannedRests, PlannedIsJob
    <3>2. j.status \in {"await_approval", "implement"}
      BY <1>0, <2>3 DEF Planned, Job
    <3> QED BY <3>1, <3>2
  <2> HIDE DEF j
  <2>5. ASSUME Returns(c), AtRest(job'), job'.status \in Resting
        PROVE  Calm'
    BY <1>0, <1>b, <2>5, FreeIsNothing, CallRests DEF Returns, AtRest, OpenAttempts
  <2>6. CASE Returns(c) /\ job' \in {Failed(job), Simulated(j), Failed(j)}
    <3>1. AtRest(job')
      BY <1>0, <2>3, <2>4, <2>6, FailedSettles
    <3>2. Simulated(j).status \in Settled
      <4>1. \/ Simulated(j) = Failed(j)
            \/ Simulated(j).status = "completed"
        BY <2>4 DEF Simulated, Job
      <4> QED BY <2>4, <4>1, FailedSettles DEF Settled
    <3>3. job'.status \in Resting
      BY <1>0, <2>4, <2>6, <3>2, FailedSettles DEF Resting
    <3> QED BY <2>5, <2>6, <3>1, <3>3
  <2>7. CASE RunParks(c, j) \/ RunAsksApproval(c, j)
    <3>1. job' = j /\ Returns(c)
      BY <2>7 DEF RunParks, RunAsksApproval
    <3>2. calls'[c].at = "free"
      BY <1>0, <3>1, FreeIsNothing DEF Returns, Goes, CallsOK
    <3>3. job'.status = "await_approval"
      BY <2>2, <2>4, <3>1, <3>2
    <3> QED BY <2>4, <2>5, <3>1, <3>3 DEF Resting
  <2>8. CASE RunGoesAhead(c, j)
    <3> DEFINE k == IF j.status = "await_approval" THEN To(j, "implement") ELSE j
    <3>1. \/ job' = Failed(k) /\ Returns(c)
          \/ job' = k /\ Goes(c, Waiting("probing", k))
      BY <2>8 DEF RunGoesAhead
    <3>2. k \in Job /\ AtRest(k) /\ k.status = "implement"
      <4>1. "implement" \in Statuses
        BY DEF Statuses
      <4> QED BY <2>4, <4>1, ToIsJob DEF AtRest, OpenAttempts
    <3> HIDE DEF k
    <3>3. CASE job' = Failed(k) /\ Returns(c)
      BY <2>5, <3>2, <3>3, FailedSettles DEF Resting
    <3>4. CASE job' = k /\ Goes(c, Waiting("probing", k))
      <4>1. \A d \in Calls : calls'[d] = IF d = c THEN Waiting("probing", k)
                                                  ELSE calls[d]
        BY <1>0, <3>4 DEF Goes, CallsOK
      <4>2. ProbesAlone'
        BY <2>3, <3>2, <4>1, FreshCalls DEF ProbesAlone
      <4>3. \E d \in Calls : calls'[d].at \in {"run", "probing"}
        BY <4>1, FreshCalls
      <4>4. AtRest(job)'
        BY <3>2, <3>4 DEF AtRest, OpenAttempts
      <4> QED BY <3>2, <3>4, <4>2, <4>3, <4>4, RestIsCalm
    <3> QED BY <3>1, <3>3, <3>4
  <2> QED BY <1>2, <2>6, <2>7, <2>8 DEF RunBegins, j
<1> QED BY <1>1, <1>2 DEF RunBegins

LEMMA ProbeAnsweredCalm ==
    ASSUME TypeInv, RecordInv, Calm, NEW c \in Calls, ProbeAnswered(c), upsets' = {}
    PROVE  Calm'
<1>0. /\ CallsOK /\ job \in Job /\ AttemptsOwn
      /\ job.active = NoAttempt => AtRest(job)
      /\ calls[c].copy \in Job
  BY CalmFacts
<1>1. /\ calls[c].at = "probing"
      /\ UNCHANGED <<leases, terminating>>
  BY DEF ProbeAnswered, procVars
<1>2. /\ AtRest(job) /\ ProbesAlone
      /\ calls[c].copy.status = "implement"
      /\ \A d \in Calls \ {c} : calls[d].at # "probing"
  BY <1>0, <1>1 DEF Calm, ProbesIdle, ProbesAlone
<1>3. CASE job' = Failed(job) /\ Returns(c)
  BY <1>0, <1>2, <1>3, FailedSettles, FreeIsNothing, CallRests
     DEF Returns, Resting, AtRest, OpenAttempts
<1>4. CASE \E a \in Attempts \ used :
             /\ job' = [calls[c].copy EXCEPT !.attempts[a] = "preparing",
                                             !.active = a]
             /\ Goes(c, Begun(c, a))
             /\ Overwrites(c, "probe")
  <2>1. PICK a \in Attempts \ used :
             /\ job' = [calls[c].copy EXCEPT !.attempts[a] = "preparing",
                                             !.active = a]
             /\ Goes(c, Begun(c, a))
             /\ Overwrites(c, "probe")
    BY <1>4
  <2>2. job = calls[c].copy
    BY <2>1 DEF Overwrites
  <2>3. /\ job'.status = "implement" /\ job'.active = a
        /\ job'.attempts = [job.attempts EXCEPT ![a] = "preparing"]
    BY <1>0, <1>2, <2>1, <2>2 DEF Job
  <2>4. \A d \in Calls : calls'[d] = IF d = c THEN Begun(c, a)
                                              ELSE calls[d]
    BY <1>0, <2>1 DEF Goes, CallsOK
  <2>5. /\ Begun(c, a).at = "preparing"
        /\ Begun(c, a).attempt = a
        /\ "preparing" \in WithAttempt
    BY FreshCalls DEF Begun, WithAttempt
  <2>6. a # NoAttempt
    BY CodingAssumption
  <2>7. job'.attempts[a] = "preparing"
    BY <1>0, <2>3 DEF Job
  <2>8. Attended(job)'
    <3>1. OpenAttempts(job)' \subseteq {a}
      <4> SUFFICES ASSUME NEW b \in Attempts, b # a, job'.attempts[b] \in Open
                   PROVE  FALSE
        BY DEF OpenAttempts
      <4>1. job'.attempts[b] = job.attempts[b]
        BY <1>0, <2>3 DEF Job
      <4> QED BY <1>2, <4>1 DEF AtRest, OpenAttempts
    <3>2. \E d \in Calls : calls'[d].at \in WithAttempt /\ calls'[d].attempt = a
      BY <2>4, <2>5
    <3> QED BY <2>3, <2>6, <3>1, <3>2 DEF Attended
  <2>9. ActiveOpen'
    BY <2>3, <2>7 DEF ActiveOpen, Open
  <2>10. ProbesAlone' /\ ProbesIdle'
    BY <1>2, <2>4, <2>5 DEF ProbesAlone, ProbesIdle
  <2>11. ASSUME NEW d \in Calls, Owns(job', calls'[d].attempt)
         PROVE  calls'[d].attempt = a
    BY <2>3, <2>11 DEF Owns
  <2>12. ASSUME NEW d \in Calls, calls'[d].at \in Early, Owns(job', calls'[d].attempt)
         PROVE  d = c
    <3>1. calls'[d].at \in WithAttempt
      BY <2>12 DEF Early, WithAttempt
    <3>2. d # c => calls[d].attempt \in used
      BY <2>4, <3>1, <1>0 DEF AttemptsOwn
    <3> QED BY <2>1, <2>4, <2>11, <2>12, <3>2
  <2>13. PreparingStill'
    BY <2>7, <2>11 DEF PreparingStill
  <2>14. GitHeld'
    BY <2>4, <2>5, <2>12 DEF GitHeld, Early, InGit
  <2> QED BY <2>8, <2>9, <2>10, <2>13, <2>14 DEF Calm
<1> QED BY <1>3, <1>4 DEF ProbeAnswered

\* The end of an attempt that did not succeed.
LEMMA UnsuccessfulCalm ==
    ASSUME TypeInv, RecordInv, Calm, NEW c \in Calls, NEW state \in Terminal,
           calls[c].at \in WithAttempt, RegistryOf(c), Returns(c),
           job' = Unsuccessful(job, calls[c].attempt, state)
    PROVE  Calm'
<1>0. /\ CallsOK /\ job \in Job /\ AttemptsOwn
      /\ OpenAttempts(job) \subseteq {job.active}
  BY CalmFacts
<1>1. calls[c].attempt \in Attempts
  BY TypeParts DEF AttemptsKnown
<1>2. calls[c].at \notin {"run", "probing", "pushing", "posting"}
  BY DEF WithAttempt, InGit
<1>3. CASE ~Owns(job, calls[c].attempt)
  <2>1. SameRecord
    BY <1>0, <1>1, <1>3, UnsuccessfulRests DEF SameRecord
  <2> QED BY <1>0, <1>2, <1>3, <2>1, ReturnIsCalm
<1>4. CASE Owns(job, calls[c].attempt)
  <2>1. AtRest(job') /\ job'.status \in Resting
    BY <1>0, <1>1, <1>4, UnsuccessfulRests DEF Resting
  <2> QED BY <1>0, <2>1, FreeIsNothing, CallRests
             DEF Returns, Calm, AtRest, OpenAttempts
<1> QED BY <1>3, <1>4

\* A call that stays at work on its attempt.
LEMMA WorkIsCalm ==
    ASSUME TypeInv, RecordInv, Calm, NEW c \in Calls, NEW at \in WithAttempt,
           calls[c].at \in WithAttempt, RegistryOf(c), SameRecord,
           Goes(c, Onward(c, at)),
           at \in Early => calls[c].at \in Early,
           at = "inGit" => /\ leases'[calls[c].attempt] = "git"
                           /\ calls[c].attempt \notin terminating'
    PROVE  Calm'
<1>1. /\ calls[c].at \notin {"run", "probing", "pushing", "posting"}
      /\ at # "probing"
  BY DEF WithAttempt, InGit
<1>2. /\ Onward(c, at).at = at
      /\ Onward(c, at).attempt = calls[c].attempt
  BY FreshCalls DEF Onward
<1>3. AttemptsOwn
  BY DEF RecordInv
<1> QED BY <1>1, <1>2, <1>3, CallIsCalm

LEMMA WorkCalm ==
    ASSUME TypeInv, RecordInv, Calm, NEW c \in Calls, upsets' = {},
           \/ GitStarts(c) \/ GitTimesOut(c) \/ GitEnds(c) \/ PrepareDone(c)
           \/ RunFails(c) \/ AgentSpawns(c) \/ AgentCloses(c)
           \/ AgentTimesOut(c) \/ RunEnds(c)
    PROVE  Calm'
<1> DEFINE a == calls[c].attempt
<1>0. /\ CallsOK /\ job \in Job /\ AttemptsOwn /\ AttemptsKnown /\ ProcTypeOK
      /\ OpenAttempts(job) \subseteq {job.active}
      /\ TerminatingLeased
  BY CalmFacts, TypeParts DEF RecordInv
<1>1. calls[c].at \in WithAttempt
  BY DEF GitStarts, GitTimesOut, GitEnds, PrepareDone, RunFails, AgentSpawns,
     AgentCloses, AgentTimesOut, RunEnds, WithAttempt, InGit
<1>2. a \in Attempts
  BY <1>0, <1>1 DEF AttemptsKnown
<1>3. RegistryOf(c)
  <2>1. ASSUME NEW p \in Processes,
               Spawned(a, p) \/ Closed(a, p) \/ Terminated(a)
        PROVE  OnlyFor(a)
    BY <1>0, <1>2, <2>1 DEF Spawned, Closed, Terminated, OnlyFor, ProcTypeOK
  <2>2. CASE \/ GitStarts(c) \/ GitTimesOut(c) \/ GitEnds(c)
             \/ AgentSpawns(c) \/ AgentCloses(c)
    <3>1. "git" \in Processes /\ calls[c].runner \in Processes
      BY <1>0 DEF CallsOK, Call, Processes
    <3>2. \E p \in Processes : Spawned(a, p) \/ Closed(a, p) \/ Terminated(a)
      BY <2>2, <3>1 DEF GitStarts, GitTimesOut, GitEnds, AgentSpawns, AgentCloses
    <3> QED BY <1>1, <2>1, <3>2 DEF RegistryOf
  <2>3. CASE PrepareDone(c) \/ RunFails(c) \/ RunEnds(c)
    BY <2>3 DEF PrepareDone, RunFails, RunEnds, procVars, RegistryOf
  <2>4. CASE AgentTimesOut(c)
    <3>1. CASE Terminated(a)
      <4>1. "git" \in Processes
        BY DEF Processes
      <4> QED BY <1>1, <2>1, <3>1, <4>1 DEF RegistryOf
    <3>2. CASE leases' = [leases EXCEPT ![a] = "none"] /\ UNCHANGED terminating
      BY <1>0, <1>1, <3>2 DEF RegistryOf, OnlyFor, ProcTypeOK
    <3> QED BY <2>4, <3>1, <3>2 DEF AgentTimesOut
  <2> QED BY <2>2, <2>3, <2>4
<1>4. /\ {"preparing", "inGit", "gitTimedOut", "prepared"} = Early
      /\ {"preparing", "inGit", "gitTimedOut", "prepared", "launching",
          "working", "ended"} = WithAttempt
      /\ {"failed", "timed_out", "cancelled", "succeeded"} = Terminal
  BY DEF Early, InGit, WithAttempt, Terminal
<1>5. job' = job => SameRecord
  BY DEF SameRecord
<1>6. CASE GitStarts(c)
  <2>1. /\ job' = job /\ Goes(c, Onward(c, "inGit"))
        /\ leases[a] = "none" /\ leases' = [leases EXCEPT ![a] = "git"]
        /\ terminating' = terminating
        /\ calls[c].at = "preparing"
    BY <1>6 DEF GitStarts, Spawned
  <2>2. leases'[a] = "git" /\ a \notin terminating'
    BY <1>0, <1>2, <2>1 DEF TerminatingLeased, ProcTypeOK
  <2> QED BY <1>1, <1>3, <1>4, <1>5, <2>1, <2>2, WorkIsCalm
<1>7. CASE GitTimesOut(c)
  BY <1>1, <1>3, <1>4, <1>5, <1>7, WorkIsCalm DEF GitTimesOut
<1>8. CASE GitEnds(c)
  <2>0. calls[c].at \in Early
    BY <1>8 DEF GitEnds, Early
  <2>1. CASE Goes(c, Onward(c, "prepared")) /\ job' = job
    BY <1>1, <1>3, <1>4, <1>5, <2>0, <2>1, WorkIsCalm
  <2>2. CASE /\ \E state \in Terminal : job' = Unsuccessful(job, a, state)
             /\ Returns(c)
    BY <1>1, <1>3, <2>2, UnsuccessfulCalm
  <2>3. CASE /\ calls[c].at = "inGit"
             /\ a \in terminating \/ leases[a] = "none"
             /\ job' = IF Owns(job, a) THEN Terminalized(job, a, "cancelled")
                                       ELSE job
             /\ Returns(c)
    <3>1. ~Owns(job, a)
      BY <2>3 DEF Calm, GitHeld
    <3>2. job' = Unsuccessful(job, a, "cancelled")
      BY <2>3, <3>1 DEF Unsuccessful
    <3> QED BY <1>1, <1>3, <1>4, <2>3, <3>2, UnsuccessfulCalm
  <2> QED BY <1>4, <1>8, <2>1, <2>2, <2>3 DEF GitEnds
<1>9. CASE PrepareDone(c)
  <2>1. calls[c].at = "prepared"
    BY <1>9 DEF PrepareDone
  <2>2. CASE Owns(job, a) /\ job.attempts[a] = "preparing"
    <3>1. /\ job' = [job EXCEPT !.attempts[a] = "running"]
          /\ Goes(c, Onward(c, "launching"))
          /\ UNCHANGED <<leases, terminating>>
      BY <1>9, <2>2 DEF PrepareDone, procVars
    <3>2. /\ job'.status = job.status /\ job'.active = job.active /\ job.active = a
          /\ job'.attempts = [job.attempts EXCEPT ![a] = "running"]
          /\ a # NoAttempt
      BY <1>0, <2>2, <3>1 DEF Job, Owns
    <3>3. \A d \in Calls : calls'[d] = IF d = c THEN Onward(c, "launching")
                                                ELSE calls[d]
      BY <1>0, <3>1 DEF Goes, CallsOK
    <3>4. /\ Onward(c, "launching").at = "launching"
          /\ Onward(c, "launching").attempt = a
      BY FreshCalls DEF Onward
    <3>5. Attended(job)'
      <4>1. OpenAttempts(job)' \subseteq {a}
        <5> SUFFICES ASSUME NEW b \in Attempts, b # a, job'.attempts[b] \in Open
                     PROVE  FALSE
          BY DEF OpenAttempts
        <5>1. job'.attempts[b] = job.attempts[b]
          BY <1>0, <3>2 DEF Job
        <5> QED BY <1>0, <3>2, <5>1 DEF OpenAttempts
      <4>2. job'.status = "implement"
        BY <3>2 DEF Calm, Attended
      <4>3. \E d \in Calls : calls'[d].at \in WithAttempt /\ calls'[d].attempt = a
        BY <1>4, <3>3, <3>4
      <4> QED BY <3>2, <4>1, <4>2, <4>3 DEF Attended
    <3>6. ActiveOpen'
      <4>1. job'.attempts[a] = "running"
        BY <1>0, <1>2, <3>2 DEF Job
      <4> QED BY <3>2, <4>1 DEF ActiveOpen, Open
    <3>7. ProbesAlone' /\ ProbesIdle'
      BY <3>2, <3>3, <3>4 DEF Calm, ProbesAlone, ProbesIdle
    <3>8. ASSUME NEW d \in Calls, calls'[d].at \in Early
          PROVE  ~Owns(job', calls'[d].attempt)
      <4>1. d # c /\ calls'[d] = calls[d]
        BY <1>4, <3>3, <3>4, <3>8
      <4>2. calls[d].attempt # a
        BY <1>0, <1>1, <1>4, <3>8, <4>1 DEF AttemptsOwn
      <4> QED BY <3>2, <4>1, <4>2 DEF Owns
    <3>9. PreparingStill' /\ GitHeld'
      BY <1>4, <3>8 DEF PreparingStill, GitHeld
    <3> QED BY <3>5, <3>6, <3>7, <3>9 DEF Calm
  <2>3. CASE ~(Owns(job, a) /\ job.attempts[a] = "preparing")
    <3>1. ~Owns(job, a)
      BY <1>4, <2>1, <2>3 DEF Calm, PreparingStill
    <3>2. job' = Unsuccessful(job, a, "failed") /\ Returns(c)
      BY <1>9, <2>3, <3>1 DEF PrepareDone, Unsuccessful
    <3> QED BY <1>1, <1>3, <1>4, <3>2, UnsuccessfulCalm
  <2> QED BY <2>2, <2>3
<1>10. CASE RunFails(c) \/ AgentTimesOut(c)
  BY <1>1, <1>3, <1>4, <1>10, UnsuccessfulCalm DEF RunFails, AgentTimesOut
<1>11. CASE AgentSpawns(c) \/ AgentCloses(c)
  BY <1>1, <1>3, <1>4, <1>5, <1>11, WorkIsCalm DEF AgentSpawns, AgentCloses
<1>12. CASE RunEnds(c)
  <2> DEFINE j == Terminalized(job, a, "succeeded")
  <2>0. Returns(c)
    BY <1>12 DEF RunEnds
  <2>1. CASE job' = Unsuccessful(job, a, "failed")
    BY <1>1, <1>3, <1>4, <2>0, <2>1, UnsuccessfulCalm
  <2>2. CASE ~Owns(job, a) /\ job' = job
    <3>1. job' = Unsuccessful(job, a, "failed")
      BY <2>2 DEF Unsuccessful
    <3> QED BY <2>1, <3>1
  <2>3. ~(Owns(job, a) /\ job.status # "implement")
    BY <1>2, CodingAssumption DEF Calm, Attended, Owns
  <2>4. CASE Owns(job, a) /\ job' \in Finished(j)
    <3>1. j \in Job /\ AtRest(j)
      BY <1>0, <1>2, <1>4, <2>4, TerminalizedRests, TerminalizedIsJob
    <3> HIDE DEF j
    <3>2. AtRest(job') /\ job'.status \in Resting
      BY <2>4, <3>1, FinishedRests DEF Resting, Settled
    <3> QED BY <1>0, <2>0, <3>2, FreeIsNothing, CallRests
               DEF Returns, Calm, AtRest, OpenAttempts
  <2> QED BY <1>12, <2>1, <2>2, <2>3, <2>4 DEF RunEnds
<1> QED BY <1>6, <1>7, <1>8, <1>9, <1>10, <1>11, <1>12

LEMMA PublicationCalm ==
    ASSUME TypeInv, RecordInv, Calm, NEW c \in Calls, Publication(c), upsets' = {}
    PROVE  Calm'
<1>0. /\ CallsOK /\ job \in Job /\ AttemptsOwn /\ ProbesAlone
      /\ job.status # "implement" => AtRest(job)
      /\ calls[c].copy \in Job
  BY CalmFacts DEF Calm
<1>1. /\ calls[c].at \in {"pushing", "posting"}
      /\ calls[c].at \notin WithAttempt \cup {"run", "probing"}
      /\ RegistryOf(c)
  BY DEF Publication, PublicationFails, PushDone, PostDone, procVars, RegistryOf,
     WithAttempt, InGit
<1>2. CASE PublicationFails(c)
  <2>1. CASE Publishing(c)
    <3>1. AtRest(job)
      BY <1>0, <2>1 DEF Publishing
    <3>2. AtRest(job') /\ job'.status \in Resting /\ Returns(c)
      BY <1>0, <1>2, <2>1, <3>1, FailedSettles DEF PublicationFails, Resting
    <3> QED BY <1>0, <3>2, FreeIsNothing, CallRests DEF Returns, AtRest, OpenAttempts
  <2>2. CASE ~Publishing(c)
    <3>1. job.status = "open_pr" => job.active = NoAttempt
      BY <1>0 DEF AtRest
    <3>2. job.status # "open_pr" \/ calls[c].copy.history # job.history
      BY <2>2, <3>1 DEF Publishing
    <3>3. SameRecord /\ Returns(c)
      BY <1>2, <2>2 DEF PublicationFails, SameRecord
    <3> QED BY <1>0, <1>1, <3>2, <3>3, ReturnIsCalm
  <2> QED BY <2>1, <2>2
<1>3. CASE PushDone(c)
  <2>1. SameRecord /\ Goes(c, Waiting("posting", calls[c].copy))
    BY <1>3 DEF PushDone, SameRecord
  <2>2. "posting" \notin Early
    BY DEF Early, InGit
  <2>3. /\ Waiting("posting", calls[c].copy).at = "posting"
        /\ Waiting("posting", calls[c].copy).copy = calls[c].copy
    BY FreshCalls
  <2> QED BY <1>0, <1>1, <2>1, <2>2, <2>3, CallIsCalm
<1>4. CASE PostDone(c)
  <2>1. job = calls[c].copy /\ AtRest(job) /\ Returns(c)
    BY <1>0, <1>4 DEF PostDone, Publishing, Overwrites
  <2>2. "ci_running" \in Statuses
    BY DEF Statuses
  <2>3. job' = [To(job, "ci_running") EXCEPT !.pr = "open"]
    BY <1>4, <2>1 DEF PostDone
  <2>4. AtRest(job') /\ job'.status \in Resting
    <3>1. /\ To(job, "ci_running") \in Job
          /\ To(job, "ci_running").status = "ci_running"
          /\ To(job, "ci_running").active = job.active
          /\ To(job, "ci_running").attempts = job.attempts
      BY <1>0, <2>2, ToIsJob
    <3>2. /\ job'.status = "ci_running" /\ job'.active = job.active
          /\ job'.attempts = job.attempts
      BY <2>3, <3>1 DEF Job
    <3> QED BY <2>1, <3>2 DEF AtRest, OpenAttempts, Resting
  <2> QED BY <1>0, <2>1, <2>4, FreeIsNothing, CallRests DEF Returns, AtRest, OpenAttempts
<1> QED BY <1>2, <1>3, <1>4 DEF Publication

\* Voiding calls that wait for a fallback disturbs nothing.
LEMMA VoidedCalls ==
    ASSUME CallsOK
    PROVE  \A d \in Calls :
              \/ Voided[d] = calls[d]
              \/ calls[d].at = "fallback" /\ Voided[d].at = "voided"
BY DEF Voided, CallsOK, Call

LEMMA VoidedIsCalm ==
    ASSUME TypeInv, RecordInv, Calm, SameRecord,
           UNCHANGED <<leases, terminating>>,
           \A d \in Calls : \/ calls'[d] = calls[d]
                            \/ /\ calls[d].at \in {"fallback", "voided", "free"}
                               /\ calls'[d].at \in {"voided", "run", "free"}
    PROVE  Calm'
<1>1. /\ {"fallback", "voided", "run", "free"} \cap WithAttempt = {}
      /\ Early \subseteq WithAttempt
  BY DEF WithAttempt, InGit, Early
<1>2. Attended(job)'
  <2>1. OpenAttempts(job)' \subseteq {job'.active}
    BY DEF SameRecord, Calm, Attended, OpenAttempts
  <2>2. job'.active # NoAttempt =>
           /\ job'.status = "implement"
           /\ \E d \in Calls : /\ calls'[d].at \in WithAttempt
                               /\ calls'[d].attempt = job'.active
    BY <1>1 DEF SameRecord, Calm, Attended
  <2>3. job'.status \in {"queued", "implement"} =>
           \/ job'.active # NoAttempt
           \/ \E d \in Calls : calls'[d].at \in {"run", "probing"}
    BY DEF SameRecord, Calm, Attended
  <2>4. job'.status = "open_pr" =>
           \E d \in Calls : /\ calls'[d].at \in {"pushing", "posting"}
                            /\ calls'[d].copy.history = job'.history
    BY DEF SameRecord, Calm, Attended
  <2> QED BY <2>1, <2>2, <2>3, <2>4 DEF Attended, SameRecord, Calm
<1>3. ActiveOpen'
  BY DEF ActiveOpen, SameRecord, Calm
<1>4. ProbesAlone' /\ ProbesIdle'
  BY DEF ProbesAlone, ProbesIdle, SameRecord, Calm
<1>5. PreparingStill' /\ GitHeld'
  BY <1>1 DEF PreparingStill, GitHeld, Early, InGit, SameRecord, Calm, Owns
<1> QED BY <1>2, <1>3, <1>4, <1>5 DEF Calm

\* Nor does it when the fallback is taken and a run is scheduled.
LEMMA FallbackCalm ==
    ASSUME TypeInv, RecordInv, Calm, NEW c \in Calls, NEW r,
           FallbackTaken(c, job, r), UNCHANGED <<leases, terminating>>,
           calls[c].at \in {"fallback", "voided", "free"}
    PROVE  Calm'
<1>0. CallsOK /\ job \in Job
  BY CalmFacts
<1>1. SameRecord
  BY <1>0 DEF FallbackTaken, SameRecord, Job
<1>2. \A d \in Calls :
         calls'[d] = IF d = c THEN Waiting("run", NoJob) ELSE Voided[d]
  BY DEF FallbackTaken, Voided
<1>3. Waiting("run", NoJob).at = "run"
  BY FreshCalls
<1>4. \A d \in Calls : \/ calls'[d] = calls[d]
                       \/ /\ calls[d].at \in {"fallback", "voided", "free"}
                          /\ calls'[d].at \in {"voided", "run", "free"}
  BY <1>0, <1>2, <1>3, VoidedCalls
<1> QED BY <1>1, <1>4, VoidedIsCalm

LEMMA AnswerCalm ==
    ASSUME TypeInv, RecordInv, Calm, NEW c \in Calls, Answer(c), upsets' = {}
    PROVE  Calm'
<1>0. /\ CallsOK /\ job \in Job /\ AttemptsOwn /\ ProbesAlone
      /\ job.status # "implement" => AtRest(job)
      /\ job.active = NoAttempt => AtRest(job)
      /\ calls[c].copy \in Job
  BY CalmFacts DEF Calm
<1>1. /\ calls[c].at \in {"fallback", "voided", "lookingUp", "deleting", "closing"}
      /\ calls[c].at \notin WithAttempt \cup {"run", "probing", "pushing", "posting"}
      /\ RegistryOf(c) /\ UNCHANGED <<leases, terminating>>
  BY DEF Answer, FallbackAnswered, CiAnswered, RevertDone, ClosePrDone, procVars,
     RegistryOf, WithAttempt, InGit
<1>2. ASSUME Returns(c), SameRecord
      PROVE  Calm'
  BY <1>0, <1>1, <1>2, ReturnIsCalm
<1>3. ASSUME Returns(c), AtRest(job'), job'.status \in Resting
      PROVE  Calm'
  BY <1>0, <1>3, FreeIsNothing, CallRests DEF Returns, AtRest, OpenAttempts
<1>4. CASE FallbackAnswered(c)
  <2>1. CASE Returns(c) /\ UNCHANGED job
    BY <1>2, <2>1 DEF SameRecord
  <2>2. CASE FallbackTaken(c, calls[c].copy, "devin") /\ Overwrites(c, "fallback")
    <3>1. calls[c].copy = job
      BY <2>2 DEF Overwrites
    <3> QED BY <1>1, <1>4, <2>2, <3>1, FallbackCalm DEF FallbackAnswered
  <2> QED BY <1>4, <2>1, <2>2 DEF FallbackAnswered
<1>5. CASE CiAnswered(c)
  <2>1. Returns(c)
    BY <1>5 DEF CiAnswered
  <2>2. CASE job' = job
    BY <1>2, <2>1, <2>2 DEF SameRecord
  <2>3. CASE /\ Overwrites(c, "refresh")
             /\ \/ job' = calls[c].copy
                \/ /\ calls[c].copy.status = "ci_running"
                   /\ job' = To(calls[c].copy, "completed")
    <3>1. job = calls[c].copy
      BY <2>3 DEF Overwrites
    <3>2. CASE job.status = "ci_running" /\ job' = To(job, "completed")
      <4>1. "completed" \in Statuses
        BY DEF Statuses
      <4>2. AtRest(job') /\ job'.status \in Resting
        BY <1>0, <3>2, <4>1, ToIsJob DEF AtRest, OpenAttempts, Resting, Settled
      <4> QED BY <1>3, <2>1, <4>2
    <3> QED BY <2>2, <2>3, <3>1, <3>2
  <2> QED BY <1>5, <2>2, <2>3 DEF CiAnswered
<1>6. CASE RevertDone(c)
  <2>1. /\ job = calls[c].copy /\ AtRest(job) /\ Returns(c)
        /\ job' = [calls[c].copy EXCEPT !.status = "cancelled"]
    BY <1>0, <1>6 DEF RevertDone
  <2>2. AtRest(job') /\ job'.status \in Resting
    BY <1>0, <2>1 DEF Job, AtRest, OpenAttempts, Resting, Settled
  <2> QED BY <1>3, <2>1, <2>2
<1>7. CASE ClosePrDone(c)
  <2>1. Returns(c)
    BY <1>7 DEF ClosePrDone
  <2>2. CASE job' = job
    BY <1>2, <2>1, <2>2 DEF SameRecord
  <2>3. CASE /\ job' = [calls[c].copy EXCEPT !.pr = "closed"]
             /\ Overwrites(c, "close")
    <3>1. SameRecord
      BY <1>0, <2>3 DEF Overwrites, SameRecord, Job
    <3> QED BY <1>2, <2>1, <3>1
  <2> QED BY <1>7, <2>2, <2>3 DEF ClosePrDone
<1> QED BY <1>4, <1>5, <1>6, <1>7 DEF Answer

LEMMA OwnerCalm ==
    ASSUME TypeInv, RecordInv, Calm, NEW c \in Calls, Owner(c)
    PROVE  Calm'
<1>0. /\ CallsOK /\ job \in Job /\ AttemptsOwn /\ ProbesAlone
      /\ job.status # "implement" => AtRest(job)
      /\ NoJob \in Job
      /\ {"queued", "implement", "open_pr"} \subseteq Statuses
  BY CalmFacts, NoJobIsJob DEF Calm, Statuses
<1>1. UNCHANGED <<leases, terminating>> /\ RegistryOf(c)
  BY DEF Owner, StartJob, RetryJob, ApproveJob, RequestFallback, OpenPr, RefreshCi,
     RevertJob, ClosePr, procVars, RegistryOf
<1>2. calls[c].at = "free" \/ UNCHANGED calls
  BY DEF Owner, StartJob, RetryJob, ApproveJob, RequestFallback, OpenPr, RefreshCi,
     RevertJob, ClosePr
<1>3. CASE UNCHANGED <<job, calls>>
  BY <1>1, <1>3, VoidedIsCalm DEF SameRecord
<1>4. ASSUME NEW at \in {"fallback", "lookingUp", "deleting", "closing"},
             Goes(c, Waiting(at, job)), job' = job, calls[c].at = "free"
      PROVE  Calm'
  <2>1. Waiting(at, job).at = at
    BY FreshCalls
  <2>2. at \notin Early /\ "free" \notin WithAttempt
    BY DEF Early, InGit, WithAttempt
  <2>3. SameRecord
    BY <1>4 DEF SameRecord
  <2> QED BY <1>0, <1>1, <1>4, <2>1, <2>2, <2>3, CallIsCalm
<1>5. ASSUME Goes(c, Waiting("run", NoJob)), AtRest(job'),
             job'.status \in {"queued", "implement"}
      PROVE  Calm'
  <2>1. Waiting("run", NoJob).at = "run"
    BY FreshCalls
  <2> QED BY <1>0, <1>5, <2>1, CallRests DEF AtRest, OpenAttempts
<1>6. CASE StartJob(c)
  <2>1. AtRest(job') /\ job'.status = "queued"
    BY <1>0, <1>6 DEF StartJob, NoJob, AtRest, OpenAttempts, Open
  <2> QED BY <1>5, <1>6, <2>1 DEF StartJob
<1>7. CASE RetryJob(c) \/ ApproveJob(c)
  <2>1. /\ AtRest(job) /\ Goes(c, Waiting("run", NoJob))
        /\ job' = To(job, "queued") \/ job' = To(job, "implement")
    BY <1>0, <1>7 DEF RetryJob, ApproveJob
  <2>2. AtRest(job') /\ job'.status \in {"queued", "implement"}
    <3>1. \A s \in {"queued", "implement"} :
             /\ To(job, s).status = s /\ To(job, s).active = job.active
             /\ To(job, s).attempts = job.attempts
      BY <1>0, ToIsJob
    <3> QED BY <2>1, <3>1 DEF AtRest, OpenAttempts
  <2> QED BY <1>5, <2>1, <2>2
<1>8. CASE RequestFallback(c) \/ RefreshCi(c) \/ ClosePr(c)
  <2>1. ASSUME NEW r, FallbackTaken(c, job, r), calls[c].at = "free"
        PROVE  Calm'
    BY <1>1, <2>1, FallbackCalm
  <2> QED BY <1>4, <1>8, <2>1 DEF RequestFallback, RefreshCi, ClosePr
<1>9. CASE OpenPr(c)
  <2>1. CASE /\ job.status = "await_pr_approval"
             /\ job' = To(job, "open_pr")
             /\ Goes(c, Waiting("pushing", To(job, "open_pr")))
    <3>1. AtRest(job') /\ job'.status = "open_pr"
      BY <1>0, <2>1, ToIsJob DEF AtRest, OpenAttempts
    <3>2. /\ Waiting("pushing", job').at = "pushing"
          /\ Waiting("pushing", job').copy = job'
      BY FreshCalls
    <3> QED BY <1>0, <2>1, <3>1, <3>2, CallRests DEF AtRest, OpenAttempts
  <2> QED BY <1>3, <1>9, <2>1 DEF OpenPr
<1>10. CASE RevertJob(c)
  BY <1>3, <1>4, <1>10 DEF RevertJob
<1> QED BY <1>6, <1>7, <1>8, <1>9, <1>10 DEF Owner

LEMMA CancelCalm ==
    ASSUME TypeInv, RecordInv, Calm, CancelJob
    PROVE  Calm'
<1> DEFINE j == IF Owns(job, job.active)
                THEN Terminalized(job, job.active, "cancelled") ELSE job
<1>0. /\ CallsOK /\ job \in Job
      /\ OpenAttempts(job) \subseteq {job.active}
      /\ job.active = NoAttempt => AtRest(job)
      /\ \A a \in Attempts : Owns(job, a) <=> job.active = a
  BY CalmFacts
<1>1. {"cancelled"} \subseteq Statuses \cap Terminal \cap Settled
  BY DEF Statuses, Terminal, Settled
<1>2. j \in Job /\ AtRest(j)
  <2>1. CASE job.active = NoAttempt
    BY <1>0, <2>1 DEF Owns
  <2>2. CASE job.active # NoAttempt
    <3>1. job.active \in Attempts
      BY <1>0, <2>2 DEF Job
    <3> QED BY <1>0, <1>1, <3>1, TerminalizedRests, TerminalizedIsJob
  <2> QED BY <2>1, <2>2
<1>3. /\ job' = (IF "cancelled" \in Transitions[j.status]
                 THEN To(j, "cancelled") ELSE j)
      /\ calls' = Voided \/ UNCHANGED calls
  BY DEF CancelJob
<1> HIDE DEF j
<1>4. AtRest(job') /\ job'.status \in Settled
  <2>1. "cancelled" \notin Transitions[j.status] => j.status \in Settled
    BY <1>2 DEF Job, Statuses, Transitions, Settled
  <2> QED BY <1>1, <1>2, <1>3, <2>1, ToIsJob DEF AtRest, OpenAttempts
<1>5. NoNewProbe
  BY <1>0, <1>3, VoidedCalls DEF NoNewProbe
<1>6. ProbesAlone'
  BY <1>5, ProbesStayAlone DEF Calm
<1>7. Settled \cap {"investigate", "plan", "test", "queued", "implement",
                    "open_pr"} = {}
  BY DEF Settled
<1> QED BY <1>4, <1>6, <1>7, RestIsCalm DEF AtRest, OpenAttempts

LEMMA RecordStep == TypeInv /\ RecordInv /\ [Next]_vars => RecordInv'
<1> SUFFICES ASSUME TypeInv, RecordInv, [Next]_vars, upsets' = {}
             PROVE  Calm'
  BY LeasesStep, AttemptsStep DEF RecordInv
<1>1. CASE UNCHANGED vars
  <2>1. Calm /\ UNCHANGED <<leases, terminating, calls, job>>
    BY <1>1 DEF RecordInv, vars, jobVars, procVars
  <2> QED BY <2>1, VoidedIsCalm DEF SameRecord
<1>2. CASE Next
  <2>1. Calm
    BY <1>2, Monotone DEF RecordInv
  <2>2. ASSUME NEW c \in Calls, Run(c) \/ Publication(c) \/ Answer(c) \/ Owner(c)
        PROVE  Calm'
    BY <2>1, <2>2, RunBeginsCalm, ProbeAnsweredCalm, WorkCalm, PublicationCalm,
       AnswerCalm, OwnerCalm DEF Run
  <2>3. CASE CancelJob
    BY <2>1, <2>3, CancelCalm
  <2>4. CASE DenyJob
    <3>1. /\ job.status = "await_approval" /\ job' = To(job, "cancelled")
          /\ calls' = calls
      BY <2>4 DEF DenyJob
    <3>2. "cancelled" \in Statuses
      BY DEF Statuses
    <3>3. AtRest(job') /\ job'.status = "cancelled"
      BY <2>1, <3>1, <3>2, CalmFacts, ToIsJob DEF AtRest, OpenAttempts
    <3>4. ProbesAlone'
      BY <2>1, <3>1, ProbesStayAlone DEF Calm, NoNewProbe
    <3> QED BY <3>3, <3>4, RestIsCalm DEF AtRest, OpenAttempts
  <2>5. CASE ApprovePr \/ \E k \in Kinds : Review(k)
    <3>1. /\ job' = job /\ (calls' = Voided \/ calls' = calls)
          /\ UNCHANGED <<leases, terminating>>
      BY <2>5 DEF ApprovePr, Review, procVars
    <3>2. CallsOK
      BY TypeParts
    <3> QED BY <2>1, <3>1, <3>2, VoidedCalls, VoidedIsCalm DEF SameRecord
  <2>6. ASSUME NEW a \in Attempts, Escalate(a)
        PROVE  Calm'
    <3>1. /\ a \in terminating /\ UNCHANGED <<job, calls>>
          /\ leases' = [leases EXCEPT ![a] = "none"]
          /\ terminating' = terminating \ {a}
      BY <2>6 DEF Escalate, jobVars
    <3>2. GitHeld'
      <4> SUFFICES ASSUME NEW c \in Calls, calls[c].at = "inGit",
                          Owns(job, calls[c].attempt)
                   PROVE  /\ leases'[calls[c].attempt] = "git"
                          /\ calls[c].attempt \notin terminating'
        BY <3>1 DEF GitHeld
      <4>1. calls[c].attempt \in Attempts
        BY TypeParts DEF AttemptsKnown, WithAttempt, InGit
      <4>2. leases[calls[c].attempt] = "git" /\ calls[c].attempt # a
        BY <2>1, <3>1 DEF Calm, GitHeld
      <4> QED BY <3>1, <4>1, <4>2, <2>1, TypeParts DEF ProcTypeOK, Calm, GitHeld
    <3> QED BY <2>1, <3>1, <3>2 DEF Calm, Attended, ActiveOpen, ProbesAlone,
               ProbesIdle, PreparingStill
  <2>7. CASE \E a \in Attempts, p \in Processes : OrphanEnds(a, p)
    <3>1. UNCHANGED <<job, calls, leases, terminating>>
      BY <2>7 DEF OrphanEnds, jobVars
    <3> QED BY <2>1, <3>1, VoidedIsCalm DEF SameRecord
  <2>8. ~Restart
    BY DEF Restart
  <2> QED BY <1>2, <2>2, <2>3, <2>4, <2>5, <2>6, <2>7, <2>8 DEF Next
<1> QED BY <1>1, <1>2

LEMMA RecordInit == Init => RecordInv
<1> SUFFICES ASSUME Init PROVE RecordInv
  OBVIOUS
<1>1. /\ calls = [c \in Calls |-> Free] /\ terminating = {}
      /\ job = NoJob /\ upsets = {}
  BY DEF Init
<1>2. /\ NoJob.active = NoAttempt /\ NoJob.status = "none"
      /\ OpenAttempts(NoJob) = {}
  BY DEF NoJob, OpenAttempts, Open
<1>3. Calm
  BY <1>1, <1>2, FreeIsNothing DEF Calm, Attended, ActiveOpen, ProbesAlone, ProbesIdle,
     PreparingStill, GitHeld, Owns
<1> QED BY <1>1, <1>3, FreeIsNothing DEF RecordInv, TerminatingLeased, AttemptsOwn

\* Until a stale copy, a second run, a parked run or a restart upsets it, the
\* record tells what goes on: an open attempt is the active one and has its
\* run, and a job that is queued, at work or being published has a call that
\* goes on with it.
THEOREM RecordTellsWhatGoesOn == Spec => []RecordAttended
<1>1. RecordInv => RecordAttended
  BY DEF RecordInv, Calm, RecordAttended
<1> QED BY <1>1, RecordInit, RecordStep, TypeInvariant, PTL DEF Spec

=============================================================================
