----------------------------- MODULE CodingJobs -----------------------------
(***************************************************************************)
(* One GitHub coding job of src/src/coding-jobs.ts: the record in the jobs *)
(* file, the runs, publications and look-ups that work on it, the requests *)
(* of its owner, its approvals (approvals.ts), and the processes its runs  *)
(* start and cancel through coding-runners/process-registry.ts.            *)
(*                                                                         *)
(* Code between two awaits is one action.  The jobs file is read whole and *)
(* written whole, so a call that writes the copy it read before its await  *)
(* undoes whatever was stored in between; `upsets' remembers that.         *)
(***************************************************************************)
EXTENDS Naturals, FiniteSets

CONSTANTS
    Calls,        \* asynchronous calls that can be in flight at once
    Attempts,     \* identifiers of execution attempts
    NoAttempt,    \* activeAttemptId = null
    Requests,     \* what startCodingJob may be asked for
    Fallbacks,    \* runners the owner may choose as a fallback
    MaxHistory,   \* bound of the model: a retry starts from a shorter history
    MaxRevertAsks \* bound of the model: revert approvals pending at once

\* Where the agent of a job runs (runnerCli): all but Devin and Cursor run in
\* a container.
Runners == {"container", "devin", "cursor"}

ASSUME CodingAssumption ==
    /\ NoAttempt \notin Attempts
    /\ Requests \subseteq
          [createPr : BOOLEAN, dryRun : BOOLEAN, runner : Runners]
    /\ Fallbacks \subseteq Runners
    /\ MaxHistory \in Nat
    /\ MaxRevertAsks \in Nat \ {0}

VARIABLES
    job,          \* the stored CodingJob
    request,      \* what startCodingJob was asked for
    pending,      \* [Kinds -> Nat]: approvals of this job waiting for review
    approved,     \* kinds with an approved approval (they have no deadline)
    calls,        \* [Calls -> Call]: the calls in flight
    alive,        \* processes that run: pairs <<attempt, "git" or runner>>
    leases,       \* [Attempts -> which process the registry has, or "none"]
    terminating,  \* attempts whose lease got SIGTERM: its timer is armed
    used,         \* attempt identifiers drawn so far
    upsets        \* history: what happened that leaves the record astray

jobVars  == <<job, request, pending, approved, calls>>
procVars == <<alive, leases, terminating>>
vars == <<jobVars, procVars, used, upsets>>

Kinds == {"implement", "openPr", "fallback", "revert"}

Processes == {"git"} \cup Runners

Statuses ==
    {"none", "queued", "investigate", "plan", "await_approval", "implement",
     "test", "await_pr_approval", "open_pr", "ci_running", "completed",
     "failed", "cancelled"}

\* CODING_JOB_TRANSITIONS
Transitions ==
    [s \in Statuses |->
        CASE s = "none"              -> {}
          [] s = "queued"            -> {"investigate", "cancelled", "failed"}
          [] s = "investigate"       -> {"plan", "cancelled", "failed"}
          [] s = "plan"              -> {"await_approval", "cancelled", "failed"}
          [] s = "await_approval"    -> {"implement", "cancelled", "failed"}
          [] s = "implement"         -> {"test", "cancelled", "failed"}
          [] s = "test"              -> {"await_pr_approval", "completed",
                                         "cancelled", "failed"}
          [] s = "await_pr_approval" -> {"open_pr", "cancelled", "failed"}
          [] s = "open_pr"           -> {"ci_running", "cancelled", "failed"}
          [] s = "ci_running"        -> {"completed", "cancelled", "failed"}
          [] s = "completed"         -> {}
          [] s = "failed"            -> {"queued"}
          [] s = "cancelled"         -> {"queued"}]

\* What may leave the record astray, or get a run past the approval.
Upsets == {"probe", "twice", "unchecked", "parked", "fallback", "publish",
           "refresh", "revert", "close", "restart"}

Open     == {"preparing", "running"}
Terminal == {"succeeded", "failed", "timed_out", "cancelled"}

(***************************************************************************)
(* history is the length of transitionHistory; pr tells whether a pull     *)
(* request was never opened (no commitSha), is recorded, or was closed.    *)
(***************************************************************************)
Job ==
    [status   : Statuses,
     history  : Nat,
     active   : Attempts \cup {NoAttempt},
     attempts : [Attempts -> Open \cup Terminal \cup {"none"}],
     pr       : {"no", "open", "closed"},
     runner   : Runners]

NoJob ==
    [status |-> "none", history |-> 0, active |-> NoAttempt,
     attempts |-> [a \in Attempts |-> "none"], pr |-> "no",
     runner |-> "container"]

(***************************************************************************)
(* Where a call waits.  "run": runCodingJob is scheduled; "probing": for   *)
(* the readiness of the runner; "preparing", "inGit", "gitTimedOut",       *)
(* "prepared": in prepareWorkspace, around a git command of it;            *)
(* "launching": in the runner, before its process; "working": for the      *)
(* agent's process; "ended": for the evidence after it; "pushing" and      *)
(* "posting": in openCodingJobPr; "lookingUp", "deleting", "closing": for  *)
(* GitHub, in the CI refresh, the revert and the closing of a PR;          *)
(* "fallback": for the readiness of a fallback runtime, and "voided" when  *)
(* the approval it is about was settled meanwhile.  A run keeps the runner *)
(* it has begun with.                                                      *)
(***************************************************************************)
WithCopy    == {"probing", "pushing", "posting", "lookingUp", "deleting",
                "closing", "fallback", "voided"}
InGit       == {"inGit", "gitTimedOut"}
WithAttempt == {"preparing", "prepared", "launching", "working", "ended"}
                  \cup InGit

Call ==
    [at      : WithCopy \cup WithAttempt \cup {"free", "run"},
     copy    : Job,
     attempt : Attempts \cup {NoAttempt},
     runner  : Runners]

Free == [at |-> "free", copy |-> NoJob, attempt |-> NoAttempt,
         runner |-> "container"]

Waiting(at, copy)     == [Free EXCEPT !.at = at, !.copy = copy]
Attempting(at, a, r)  == [Free EXCEPT !.at = at, !.attempt = a, !.runner = r]

Init ==
    /\ job = NoJob
    /\ request \in Requests
    /\ pending = [k \in Kinds |-> 0]
    /\ approved = {}
    /\ calls = [c \in Calls |-> Free]
    /\ alive = {}
    /\ leases = [a \in Attempts |-> "none"]
    /\ terminating = {}
    /\ used = {}
    /\ upsets = {}

-----------------------------------------------------------------------------
(***************************************************************************)
(* The job record.                                                         *)
(***************************************************************************)

To(j, s) == [j EXCEPT !.status = s, !.history = @ + 1]

\* The catch of a run's caller: a transition that is not in the table throws
\* once more and changes nothing.
Failed(j) == IF "failed" \in Transitions[j.status] THEN To(j, "failed") ELSE j

\* The synchronous start of a run: queued, investigate, plan, await_approval.
Planned(j) ==
    LET steps == CASE j.status = "queued"      -> 3
                   [] j.status = "investigate" -> 2
                   [] j.status = "plan"        -> 1
                   [] OTHER                    -> 0
    IN  IF steps = 0 THEN j
        ELSE [j EXCEPT !.status = "await_approval", !.history = @ + steps]

Owns(j, a) == j.active = a /\ a # NoAttempt /\ j.attempts[a] \in Open

\* Faulty variant: activeAttemptId is kept.
TerminalizedActive(j, a, state) == [j EXCEPT !.attempts[a] = state]

\* terminalizeAttempt; it returns null, and stores nothing, unless Owns.
Terminalized(j, a, state) ==
    [j EXCEPT !.attempts[a] = state, !.active = NoAttempt]

\* Faulty variant: the attempt is not compared with the active one.
UnsuccessfulAnyway(j, a, state) == Failed(Terminalized(j, a, state))

\* The end of an attempt that did not succeed.
Unsuccessful(j, a, state) ==
    IF Owns(j, a) THEN Failed(Terminalized(j, a, state)) ELSE j

OpenAttempts(j) == {a \in Attempts : j.attempts[a] \in Open}

\* Faulty variant: an approval that is not there is reviewed.
ReviewedAlways(k) == [pending EXCEPT ![k] = @ - 1]

\* findPendingApprovalForTarget takes one; createApproval adds one.
Reviewed(k)   == [pending EXCEPT ![k] = IF @ > 0 THEN @ - 1 ELSE 0]
Requested(k) == [pending EXCEPT ![k] = IF @ > 0 THEN @ ELSE 1]

\* A call that waits to approve the fallback finds its approval settled.
Voided ==
    [c \in Calls |-> IF calls[c].at = "fallback"
                     THEN [calls[c] EXCEPT !.at = "voided"] ELSE calls[c]]

\* Call c writes the job from the copy it took before its await.
Overwrites(c, what) ==
    upsets' = IF job = calls[c].copy THEN upsets ELSE upsets \cup {what}

Goes(c, call) == calls' = [calls EXCEPT ![c] = call]

Returns(c) == Goes(c, Free)

\* A run starts an attempt with the runner of its copy, and goes on with it.
Begun(c, a) == Attempting("preparing", a, calls[c].copy.runner)

Onward(c, at) == Attempting(at, calls[c].attempt, calls[c].runner)

-----------------------------------------------------------------------------
(***************************************************************************)
(* process-registry.ts.  A lease belongs to one process: an event of       *)
(* another process of the attempt does not match its token.                *)
(***************************************************************************)

\* register, right after the spawn.
Spawned(a, p) ==
    /\ leases[a] = "none"
    /\ alive' = alive \cup {<<a, p>>}
    /\ leases' = [leases EXCEPT ![a] = p]
    /\ UNCHANGED terminating

\* The close event of a process: compareAndDelete clears the timer, too.
Closed(a, p) ==
    /\ alive' = alive \ {<<a, p>>}
    /\ IF leases[a] = p
       THEN /\ leases' = [leases EXCEPT ![a] = "none"]
            /\ terminating' = terminating \ {a}
       ELSE UNCHANGED <<leases, terminating>>

\* Faulty variant: the lease ends with SIGTERM.
TerminatedForgetting(a) ==
    /\ leases' = [leases EXCEPT ![a] = "none"]
    /\ UNCHANGED <<alive, terminating>>

\* terminate: SIGTERM once, and the escalation timer.
Terminated(a) ==
    /\ terminating' = IF leases[a] = "none" THEN terminating
                                            ELSE terminating \cup {a}
    /\ UNCHANGED <<alive, leases>>

\* Faulty variant: the timer gives the lease up without SIGKILL.
EscalateGently(a) ==
    /\ a \in terminating
    /\ leases' = [leases EXCEPT ![a] = "none"]
    /\ terminating' = terminating \ {a}
    /\ UNCHANGED <<jobVars, alive, used, upsets>>

\* The timer of terminate fires: SIGKILL.
Escalate(a) ==
    /\ a \in terminating
    /\ alive' = alive \ {<<a, leases[a]>>}
    /\ leases' = [leases EXCEPT ![a] = "none"]
    /\ terminating' = terminating \ {a}
    /\ UNCHANGED <<jobVars, used, upsets>>

\* A process that no run waits for ends, by itself or by SIGTERM.
OrphanEnds(a, p) ==
    /\ <<a, p>> \in alive
    /\ \A c \in Calls : calls[c].attempt # a
    /\ alive' = alive \ {<<a, p>>}
    /\ UNCHANGED <<jobVars, leases, terminating, used, upsets>>

-----------------------------------------------------------------------------
(***************************************************************************)
(* runCodingJob.                                                           *)
(***************************************************************************)

StartJob(c) ==
    /\ job.status = "none"
    /\ calls[c].at = "free"
    /\ job' = [NoJob EXCEPT !.status = "queued", !.runner = request.runner]
    /\ Goes(c, Waiting("run", NoJob))
    /\ UNCHANGED <<request, pending, approved, procVars, used, upsets>>

\* A dry run: the transitions without the work.
Simulated(j) ==
    IF j.status = "await_approval"
    THEN [j EXCEPT !.status = "completed", !.history = @ + 3]
    ELSE Failed(j)

\* The run cannot go on before somebody decides about the provider: no
\* healthy provider, or one other than the runtime that was asked for.
RunParks(c, j) ==
    /\ job' = j
    /\ Returns(c)
    /\ pending' \in {pending, Requested("fallback")}

RunAsksApproval(c, j) ==
    /\ j.status = "await_approval"
    /\ "implement" \notin approved
    /\ job' = j
    /\ Returns(c)
    /\ pending' = Requested("implement")

\* Faulty variant: the run does not look for an approval.
RunGoesAheadBlindly(c, j) ==
    LET k == IF j.status = "await_approval" THEN To(j, "implement") ELSE j
    IN  /\ job' = k
        /\ Goes(c, Waiting("probing", k))
        /\ UNCHANGED pending

\* Denied by policy or without authorization for the runner, or on to the
\* readiness probe.
RunGoesAhead(c, j) ==
    LET k == IF j.status = "await_approval" THEN To(j, "implement") ELSE j
    IN  /\ j.status = "await_approval" => "implement" \in approved
        /\ \/ job' = Failed(k) /\ Returns(c)
           \/ job' = k /\ Goes(c, Waiting("probing", k))
        /\ UNCHANGED pending

\* Nothing keeps a run from going ahead while another one of the job does, or
\* after it.
OnItsOwn(j) ==
    /\ j.status \in {"queued", "await_approval", "implement"}
    /\ j.active = NoAttempt
    /\ \A c \in Calls : calls[c].at # "probing"

RunBegins(c) ==
    /\ calls[c].at = "run"
    /\ \/ /\ job.status = "cancelled"
          /\ Returns(c)
          /\ UNCHANGED <<job, pending, upsets>>
       \/ /\ job.status # "cancelled"
          /\ \/ \* the repository was disabled, or the dry run ended
                /\ \/ job' = Failed(job)
                   \/ request.dryRun /\ job' \in {Simulated(Planned(job)),
                                                  Failed(Planned(job))}
                /\ Returns(c)
                /\ UNCHANGED pending
             \/ /\ ~request.dryRun
                /\ \/ RunParks(c, Planned(job))
                   \/ RunAsksApproval(c, Planned(job))
                   \/ RunGoesAhead(c, Planned(job))
          /\ upsets' = upsets
                \cup {u \in {"twice"} : ~OnItsOwn(job)}
                \cup {u \in {"unchecked"} : /\ job.status = "failed"
                                            /\ calls'[c].at = "probing"}
                \cup {u \in {"parked"} : /\ job'.status = "implement"
                                        /\ calls'[c].at = "free"}
    /\ UNCHANGED <<request, approved, procVars, used>>

\* The answer of probeReadiness.  The job is not read again: the attempt is
\* added to the copy of before the probe.
ProbeAnswered(c) ==
    /\ calls[c].at = "probing"
    /\ \/ /\ job' = Failed(job)
          /\ Returns(c)
          /\ UNCHANGED <<used, upsets>>
       \/ \E a \in Attempts \ used :
             /\ job' = [calls[c].copy EXCEPT !.attempts[a] = "preparing",
                                             !.active = a]
             /\ used' = used \cup {a}
             /\ Goes(c, Begun(c, a))
             /\ Overwrites(c, "probe")
    /\ UNCHANGED <<request, pending, approved, procVars>>

\* prepareWorkspace runs git under the attempt's key.
GitStarts(c) ==
    /\ calls[c].at = "preparing"
    /\ Spawned(calls[c].attempt, "git")
    /\ Goes(c, Onward(c, "inGit"))
    /\ UNCHANGED <<job, request, pending, approved, used, upsets>>

GitTimesOut(c) ==
    /\ calls[c].at = "inGit"
    /\ Terminated(calls[c].attempt)
    /\ Goes(c, Onward(c, "gitTimedOut"))
    /\ UNCHANGED <<job, request, pending, approved, used, upsets>>

GitEnds(c) ==
    LET a == calls[c].attempt
    IN  /\ calls[c].at \in InGit
        /\ Closed(a, "git")
        /\ \/ /\ Goes(c, Onward(c, "prepared"))
              /\ UNCHANGED job
           \/ /\ job' = Unsuccessful(job, a, IF calls[c].at = "inGit"
                                             THEN "failed" ELSE "timed_out")
              /\ Returns(c)
           \/ \* killed by a cancellation: HostGitCancelledError
              /\ calls[c].at = "inGit"
              /\ a \in terminating \/ leases[a] = "none"
              /\ job' = IF Owns(job, a) THEN Terminalized(job, a, "cancelled")
                                        ELSE job
              /\ Returns(c)
        /\ UNCHANGED <<request, pending, approved, used, upsets>>

\* The attempt runs, if it is still the job's (runningAttempt).
PrepareDone(c) ==
    LET a == calls[c].attempt
    IN  /\ calls[c].at = "prepared"
        /\ IF Owns(job, a) /\ job.attempts[a] = "preparing"
           THEN /\ job' = [job EXCEPT !.attempts[a] = "running"]
                /\ Goes(c, Onward(c, "launching"))
           ELSE UNCHANGED job /\ Returns(c)
        /\ UNCHANGED <<request, pending, approved, procVars, used, upsets>>

\* An error before, between or after the git commands, or in the runner
\* before it has a process.
RunFails(c) ==
    /\ calls[c].at \in {"preparing", "prepared", "launching"}
    /\ job' = Unsuccessful(job, calls[c].attempt, "failed")
    /\ Returns(c)
    /\ UNCHANGED <<request, pending, approved, procVars, used, upsets>>

\* The runner starts the agent; whether the attempt was cancelled while it
\* looked at its files it does not ask.
AgentSpawns(c) ==
    /\ calls[c].at = "launching"
    /\ Spawned(calls[c].attempt, calls[c].runner)
    /\ Goes(c, Onward(c, "working"))
    /\ UNCHANGED <<job, request, pending, approved, used, upsets>>

AgentCloses(c) ==
    /\ calls[c].at = "working"
    /\ Closed(calls[c].attempt, calls[c].runner)
    /\ Goes(c, Onward(c, "ended"))
    /\ UNCHANGED <<job, request, pending, approved, used, upsets>>

(***************************************************************************)
(* The runner's timeout; runCodingContainer has none.  The Devin runner    *)
(* keeps the lease through the grace period.  The Cursor runner releases   *)
(* it with the result, and its timer with it; it does neither for an agent *)
(* that is being terminated already.                                       *)
(***************************************************************************)
AgentTimesOut(c) ==
    LET a == calls[c].attempt
    IN  /\ calls[c].at = "working"
        /\ \/ /\ calls[c].runner = "devin"
              /\ Terminated(a)
           \/ /\ calls[c].runner = "cursor"
              /\ leases[a] = "cursor"
              /\ a \notin terminating
              /\ leases' = [leases EXCEPT ![a] = "none"]
              /\ UNCHANGED <<alive, terminating>>
        /\ job' = Unsuccessful(job, a, "timed_out")
        /\ Returns(c)
        /\ UNCHANGED <<request, pending, approved, used, upsets>>

\* After a success: no changes, changes that stay local, or a pull request
\* that waits for approval.
Finished(j) ==
    {To(To(j, "test"), "completed")}
        \cup (IF request.createPr
              THEN {To(To(j, "test"), "await_pr_approval")} ELSE {})

RunEnds(c) ==
    LET a == calls[c].attempt
        j == Terminalized(job, a, "succeeded")
    IN  /\ calls[c].at = "ended"
        /\ Returns(c)
        /\ \/ /\ job' = Unsuccessful(job, a, "failed")
              /\ UNCHANGED pending
           \/ /\ ~Owns(job, a)
              /\ UNCHANGED <<job, pending>>
           \/ /\ Owns(job, a)
              /\ job.status # "implement"
              /\ job' = IF job.status = "cancelled" THEN j ELSE Failed(j)
              /\ UNCHANGED pending
           \/ /\ Owns(job, a)
              /\ job.status = "implement"
              /\ job' \in Finished(j)
              /\ pending' = IF /\ job'.status = "await_pr_approval"
                               /\ "openPr" \notin approved
                            THEN Requested("openPr") ELSE pending
        /\ UNCHANGED <<request, approved, procVars, used, upsets>>

-----------------------------------------------------------------------------
(***************************************************************************)
(* Requests of the owner.                                                  *)
(***************************************************************************)

\* cancelCodingJob.  When the job is at an end already the last step throws,
\* after the rest was done.
CancelJob ==
    LET a == job.active
        j == IF Owns(job, a) THEN Terminalized(job, a, "cancelled") ELSE job
    IN  /\ job.status # "none"
        /\ terminating' = {b \in Attempts : leases[b] # "none"}
        /\ pending' = [k \in Kinds |-> IF pending[k] > 0 THEN pending[k] - 1
                                                         ELSE 0]
        /\ calls' = IF pending["fallback"] > 0 THEN Voided ELSE calls
        /\ job' = IF "cancelled" \in Transitions[j.status]
                  THEN To(j, "cancelled") ELSE j
        /\ UNCHANGED <<request, approved, alive, leases, used, upsets>>

RetryJob(c) ==
    /\ calls[c].at = "free"
    /\ job.status \in {"failed", "cancelled"}
    /\ job.active = NoAttempt
    /\ OpenAttempts(job) = {}
    /\ job.history < MaxHistory
    /\ job' = To(job, "queued")
    /\ Goes(c, Waiting("run", NoJob))
    /\ UNCHANGED <<request, pending, approved, procVars, used, upsets>>

\* approveCodingJob; where nothing is pending it records an approval itself.
ApproveJob(c) ==
    /\ calls[c].at = "free"
    /\ job.status = "await_approval"
    /\ pending' = Reviewed("implement")
    /\ approved' = approved \cup {"implement"}
    /\ job' = To(job, "implement")
    /\ Goes(c, Waiting("run", NoJob))
    /\ UNCHANGED <<request, procVars, used, upsets>>

DenyJob ==
    /\ job.status = "await_approval"
    /\ pending' = Reviewed("implement")
    /\ job' = To(job, "cancelled")
    /\ UNCHANGED <<request, approved, calls, procVars, used, upsets>>

ApprovePr ==
    /\ job.status = "await_pr_approval"
    /\ pending' = Reviewed("openPr")
    /\ approved' = approved \cup {"openPr"}
    /\ UNCHANGED <<job, request, calls, procVars, used, upsets>>

\* The approvals page reviews any approval of the job, and leaves the job
\* alone; approving a fallback is RequestFallback.
Review(k) ==
    /\ pending[k] > 0
    /\ pending' = Reviewed(k)
    /\ \/ /\ k # "fallback"
          /\ approved' = approved \cup {k}
          /\ UNCHANGED calls
       \/ /\ calls' = IF k = "fallback" THEN Voided ELSE calls
          /\ UNCHANGED approved
    /\ UNCHANGED <<job, request, procVars, used, upsets>>

\* The approval is reviewed, the job gets the runner that was chosen, and a
\* run is scheduled.
FallbackTaken(c, j, r) ==
    /\ pending' = Reviewed("fallback")
    /\ job' = [j EXCEPT !.runner = r]
    /\ calls' = [Voided EXCEPT ![c] = Waiting("run", NoJob)]

\* approveCodingJobRuntimeFallback; only Devin's readiness is probed first.
RequestFallback(c) ==
    /\ calls[c].at = "free"
    /\ job.status = "await_approval"
    /\ pending["fallback"] > 0
    /\ \/ /\ "devin" \in Fallbacks
          /\ Goes(c, Waiting("fallback", job))
          /\ UNCHANGED <<job, pending>>
       \/ \E r \in Fallbacks \ {"devin"} : FallbackTaken(c, job, r)
    /\ UNCHANGED <<request, approved, procVars, used, upsets>>

FallbackAnswered(c) ==
    /\ calls[c].at \in {"fallback", "voided"}
    /\ \/ /\ Returns(c)
          /\ UNCHANGED <<job, pending, upsets>>
       \/ /\ calls[c].at = "fallback"
          /\ FallbackTaken(c, calls[c].copy, "devin")
          /\ Overwrites(c, "fallback")
    /\ UNCHANGED <<request, approved, procVars, used>>

-----------------------------------------------------------------------------
(***************************************************************************)
(* Publication (openCodingJobPr) and what follows it.                      *)
(***************************************************************************)

\* ownsPublication: the transition history has not grown since.
Publishing(c) ==
    /\ job.status = "open_pr"
    /\ job.active = NoAttempt
    /\ job.history = calls[c].copy.history

OpenPr(c) ==
    /\ calls[c].at = "free"
    /\ job.status = "await_pr_approval"
    /\ \/ /\ "openPr" \notin approved
          /\ pending' = Requested("openPr")
          /\ UNCHANGED <<job, calls>>
       \/ /\ "openPr" \in approved
          /\ job' = To(job, "open_pr")
          /\ Goes(c, Waiting("pushing", To(job, "open_pr")))
          /\ UNCHANGED pending
    /\ UNCHANGED <<request, approved, procVars, used, upsets>>

PublicationFails(c) ==
    /\ calls[c].at \in {"pushing", "posting"}
    /\ job' = IF Publishing(c) THEN Failed(job) ELSE job
    /\ Returns(c)
    /\ UNCHANGED <<request, pending, approved, procVars, used, upsets>>

\* The branch is pushed.
PushDone(c) ==
    /\ calls[c].at = "pushing"
    /\ Publishing(c)
    /\ Goes(c, Waiting("posting", calls[c].copy))
    /\ UNCHANGED <<job, request, pending, approved, procVars, used, upsets>>

\* The pull request is open.
PostDone(c) ==
    /\ calls[c].at = "posting"
    /\ Publishing(c)
    /\ job' = [To(calls[c].copy, "ci_running") EXCEPT !.pr = "open"]
    /\ Returns(c)
    /\ Overwrites(c, "publish")
    /\ UNCHANGED <<request, pending, approved, procVars, used>>

RefreshCi(c) ==
    /\ calls[c].at = "free"
    /\ job.status \in {"ci_running", "completed"}
    /\ job.pr # "no"
    /\ Goes(c, Waiting("lookingUp", job))
    /\ UNCHANGED <<job, request, pending, approved, procVars, used, upsets>>

CiAnswered(c) ==
    /\ calls[c].at = "lookingUp"
    /\ Returns(c)
    /\ \/ UNCHANGED <<job, upsets>>
       \/ /\ job' \in {calls[c].copy}
                \cup (IF calls[c].copy.status = "ci_running"
                      THEN {To(calls[c].copy, "completed")} ELSE {})
          /\ Overwrites(c, "refresh")
    /\ UNCHANGED <<request, pending, approved, procVars, used>>

\* revertCodingJob asks for an approval each time it finds none approved.
RevertJob(c) ==
    /\ job.status # "none"
    /\ calls[c].at = "free"
    /\ \/ /\ "revert" \notin approved
          /\ pending["revert"] < MaxRevertAsks
          /\ pending' = [pending EXCEPT !["revert"] = @ + 1]
          /\ UNCHANGED calls
       \/ /\ "revert" \in approved
          /\ Goes(c, Waiting("deleting", job))
          /\ UNCHANGED pending
    /\ UNCHANGED <<job, request, approved, procVars, used, upsets>>

\* The status is set without the transition table.
RevertDone(c) ==
    /\ calls[c].at = "deleting"
    /\ job' = [calls[c].copy EXCEPT !.status = "cancelled"]
    /\ Returns(c)
    /\ upsets' = IF job = calls[c].copy /\ job.active = NoAttempt
                 THEN upsets ELSE upsets \cup {"revert"}
    /\ UNCHANGED <<request, pending, approved, procVars, used>>

ClosePr(c) ==
    /\ calls[c].at = "free"
    /\ job.pr = "open"
    /\ Goes(c, Waiting("closing", job))
    /\ UNCHANGED <<job, request, pending, approved, procVars, used, upsets>>

ClosePrDone(c) ==
    /\ calls[c].at = "closing"
    /\ Returns(c)
    /\ \/ UNCHANGED <<job, upsets>>
       \/ /\ job' = [calls[c].copy EXCEPT !.pr = "closed"]
          /\ Overwrites(c, "close")
    /\ UNCHANGED <<request, pending, approved, procVars, used>>

\* The host restarts: its calls, leases and timers are gone; detached
\* processes go on, and nothing looks for them or for the job.
Restart ==
    /\ \E c \in Calls : calls[c].at # "free"
    /\ calls' = [c \in Calls |-> Free]
    /\ leases' = [a \in Attempts |-> "none"]
    /\ terminating' = {}
    /\ upsets' = upsets \cup {"restart"}
    /\ UNCHANGED <<job, request, pending, approved, alive, used>>

-----------------------------------------------------------------------------
Run(c) ==
    \/ RunBegins(c)
    \/ ProbeAnswered(c)
    \/ GitStarts(c)
    \/ GitTimesOut(c)
    \/ GitEnds(c)
    \/ PrepareDone(c)
    \/ RunFails(c)
    \/ AgentSpawns(c)
    \/ AgentCloses(c)
    \/ AgentTimesOut(c)
    \/ RunEnds(c)

Publication(c) == PublicationFails(c) \/ PushDone(c) \/ PostDone(c)

Answer(c) ==
    FallbackAnswered(c) \/ CiAnswered(c) \/ RevertDone(c) \/ ClosePrDone(c)

Owner(c) ==
    \/ StartJob(c)
    \/ RetryJob(c)
    \/ ApproveJob(c)
    \/ RequestFallback(c)
    \/ OpenPr(c)
    \/ RefreshCi(c)
    \/ RevertJob(c)
    \/ ClosePr(c)

Next ==
    \/ \E c \in Calls : Run(c) \/ Publication(c) \/ Answer(c) \/ Owner(c)
    \/ CancelJob
    \/ DenyJob
    \/ ApprovePr
    \/ \E k \in Kinds : Review(k)
    \/ \E a \in Attempts : Escalate(a)
    \/ \E a \in Attempts, p \in Processes : OrphanEnds(a, p)
    \/ Restart

Spec == Init /\ [][Next]_vars

(***************************************************************************)
(* Fairness: the event loop goes on with what is ready; readiness probes,  *)
(* git and GitHub answer or fail; the timeouts of git, of the Devin and    *)
(* the Cursor runner and of the registry fire.  Nothing is assumed of the  *)
(* owner, nor that a process ends by itself.                               *)
(***************************************************************************)
GitGone(c) == <<calls[c].attempt, "git">> \notin alive /\ GitEnds(c)

AgentGone(c) ==
    <<calls[c].attempt, calls[c].runner>> \notin alive /\ AgentCloses(c)

\* Each of these moves the call on from where it waits.
Proceeds(c) ==
    \/ RunBegins(c)
    \/ ProbeAnswered(c)
    \/ GitStarts(c)
    \/ GitTimesOut(c)
    \/ GitGone(c)
    \/ PrepareDone(c)
    \/ AgentSpawns(c)
    \/ AgentTimesOut(c)
    \/ AgentGone(c)
    \/ RunEnds(c)
    \/ Publication(c)

FairSpec ==
    /\ Spec
    /\ \A c \in Calls : WF_vars(Proceeds(c))
    /\ \A a \in Attempts : WF_vars(Escalate(a))

-----------------------------------------------------------------------------
(***************************************************************************)
(* Properties.                                                             *)
(***************************************************************************)

TypeOK ==
    /\ job \in Job
    /\ request \in Requests
    /\ pending \in [Kinds -> Nat]
    /\ approved \subseteq Kinds
    /\ calls \in [Calls -> Call]
    /\ alive \subseteq Attempts \X Processes
    /\ leases \in [Attempts -> {"none"} \cup Processes]
    /\ terminating \subseteq Attempts
    /\ used \subseteq Attempts
    /\ upsets \subseteq Upsets

Working(c) == calls[c].at \in WithAttempt \cup {"probing"}

\* What a job comes to only with an approved implementation.
PastApproval(j) ==
    \/ j.status \in {"implement", "test", "await_pr_approval", "open_pr",
                     "ci_running"}
    \/ j.status = "completed" /\ ~request.dryRun
    \/ j.pr # "no"

\* Without the owner's approval a job gets no further than to the gate,
\* whatever is retried, scheduled twice or written back from a stale copy, and
\* nothing of it is pushed.  An agent may work all the same, but for one
\* reason only: the gate is looked at in `await_approval' alone, so a run that
\* begins on a job which another scheduled run has just failed gets past it
\* ("unchecked").  Even then the job itself gets no further.
NothingUnapproved ==
    /\ PastApproval(job) => "implement" \in approved
    /\ (\E c \in Calls : calls[c].at \in {"pushing", "posting"})
          => "openPr" \in approved
    /\ \/ \E c \in Calls : Working(c)
       \/ \E a \in Attempts, r \in Runners : <<a, r>> \in alive
       => "implement" \in approved \/ "unchecked" \in upsets

\* A run whose attempt was cancelled or replaced, and a publication that was
\* overtaken, end without a trace in the record.
OutdatedEnds(c) ==
    /\ calls'[c].at = "free"
    /\ \/ calls[c].at \in WithAttempt /\ ~Owns(job, calls[c].attempt)
       \/ calls[c].at \in {"pushing", "posting"} /\ ~Publishing(c)

OutdatedLeavesNoTrace ==
    [][\A c \in Calls : OutdatedEnds(c) => job' = job]_vars

\* As long as nothing upset it, the record tells what goes on: an open attempt
\* has its run, a job at work has a call that works on it.
Attended(j) ==
    /\ OpenAttempts(j) \subseteq {j.active}
    /\ j.active # NoAttempt =>
          /\ j.status = "implement"
          /\ \E c \in Calls : /\ calls[c].at \in WithAttempt
                              /\ calls[c].attempt = j.active
    /\ j.status \in {"queued", "implement"} =>
          \/ j.active # NoAttempt
          \/ \E c \in Calls : calls[c].at \in {"run", "probing"}
    /\ j.status = "open_pr" =>
          \E c \in Calls : /\ calls[c].at \in {"pushing", "posting"}
                           /\ calls[c].copy.history = j.history
    /\ j.status \notin {"investigate", "plan", "test"}

RecordAttended == upsets = {} => Attended(job)

CursorAwaits(a) ==
    \E c \in Calls : /\ calls[c].at = "working"
                    /\ calls[c].attempt = a
                    /\ calls[c].runner = "cursor"

\* A process the registry has lost sight of can no longer be cancelled.  That
\* happens to what a restart leaves behind, and to a Cursor agent whose run
\* gave it up at its timeout, never while the run waits for it.
ProcessesLeased ==
    \A a \in Attempts : \A p \in Processes :
        <<a, p>> \in alive =>
            \/ leases[a] = p
            \/ "restart" \in upsets
            \/ p = "cursor" /\ ~CursorAwaits(a)

\* The transition table: a cancelled job is at rest until it is queued again.
CancelledStays ==
    [][job.status = "cancelled" => job'.status \in {"cancelled", "queued"}]_vars

\* A job that is at work or being published comes to an end of that, whatever
\* its agent does; only a container has no timeout.
JobsSettle ==
    \A s \in {"implement", "open_pr"} :
        job.status = s /\ job.runner # "container"
            ~> (job.status # s \/ upsets # {})
=============================================================================
