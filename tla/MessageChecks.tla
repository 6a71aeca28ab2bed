---------------------------- MODULE MessageChecks ----------------------------
(***************************************************************************)
(* What the group queue (src/src/group-queue.ts) promises of the message   *)
(* checks of each group, the runs of processGroupMessages: a check that is *)
(* asked for begins once, now or later, and never next to another of its   *)
(* group; what is asked while one goes on makes it a further one; a failed *)
(* one is made again after a delay, MaxRetries times in a row; and nothing *)
(* begins once the queue is closed.                                        *)
(*                                                                         *)
(* Nothing is said about slots, tasks, processes or files: SlotPool says   *)
(* who has to wait.                                                        *)
(***************************************************************************)
EXTENDS Naturals

CONSTANTS
    Groups,
    MaxRetries

VARIABLES
    asked,     \* [Groups -> BOOLEAN]: a check is to begin
    checking,  \* [Groups -> BOOLEAN]: a check goes on
    failures,  \* [Groups -> Nat]: failed checks in a row
    delayed,   \* [Groups -> Nat]: failed checks that wait to be made again
    closed

checkVars == <<asked, checking, failures, delayed, closed>>

ChecksInit ==
    /\ asked = [g \in Groups |-> FALSE]
    /\ checking = [g \in Groups |-> FALSE]
    /\ failures = [g \in Groups |-> 0]
    /\ delayed = [g \in Groups |-> 0]
    /\ closed = FALSE

-----------------------------------------------------------------------------
\* How a step leaves g that wants a check, or does not, and makes one, or
\* does not: a check that is wanted begins in the same step, or has to wait.
Settled(g, wanted, busy) ==
    \/ /\ asked'[g] = wanted
       /\ checking'[g] = busy
    \/ /\ wanted /\ ~busy /\ ~closed
       /\ asked'[g] = FALSE
       /\ checking'[g] = TRUE

SameFailures(g) ==
    /\ failures'[g] = failures[g]
    /\ delayed'[g] = delayed[g]

\* g waits: its check may begin, as a slot is free now.
Wait(g) ==
    /\ Settled(g, asked[g], checking[g])
    /\ SameFailures(g)

Ask(g) ==
    /\ ~closed
    /\ Settled(g, TRUE, checking[g])
    /\ SameFailures(g)

\* A delay is over.
AskAgain(g) ==
    /\ delayed[g] > 0
    /\ delayed'[g] = delayed[g] - 1
    /\ failures'[g] = failures[g]
    /\ IF closed
       THEN asked'[g] = asked[g] /\ checking'[g] = checking[g]
       ELSE Settled(g, TRUE, checking[g])

\* A check succeeds, or fails for the last time; or is to be made again.
End(g) ==
    /\ checking[g]
    /\ Settled(g, asked[g], FALSE)
    /\ \/ /\ failures'[g] = 0
          /\ delayed'[g] = delayed[g]
       \/ /\ failures[g] < MaxRetries
          /\ failures'[g] = failures[g] + 1
          /\ delayed'[g] = delayed[g] + 1

\* Something happens to one group at a time; others may begin what they wait
\* for.
GroupStep(g) ==
    /\ Ask(g) \/ AskAgain(g) \/ End(g) \/ Wait(g)
    /\ \A h \in Groups \ {g} : Wait(h)
    /\ closed' = closed

Close ==
    /\ closed' = TRUE
    /\ UNCHANGED <<asked, checking, failures, delayed>>

ChecksNext == (\E g \in Groups : GroupStep(g)) \/ Close

ChecksSpec == ChecksInit /\ [][ChecksNext]_checkVars

-----------------------------------------------------------------------------
(***************************************************************************)
(* The same for a host that may be restarted, and whose checks need no     *)
(* time when they find nothing: the rules MessageDelivery goes by.         *)
(***************************************************************************)

\* A check begins, finds nothing and is over.
CheckNothing(g) ==
    /\ ~closed
    /\ asked[g] /\ ~checking[g]
    /\ asked' = [asked EXCEPT ![g] = FALSE]
    /\ failures' = [failures EXCEPT ![g] = 0]
    /\ UNCHANGED <<checking, delayed, closed>>

\* The new process asks for checks anew.
StartAgain ==
    /\ asked' \in [Groups -> BOOLEAN]
    /\ checking' = [g \in Groups |-> FALSE]
    /\ failures' = [g \in Groups |-> 0]
    /\ delayed' = [g \in Groups |-> 0]
    /\ closed' = FALSE

HostNext ==
    \/ ChecksNext
    \/ \E g \in Groups : CheckNothing(g)
    \/ StartAgain

HostSpec == ChecksInit /\ [][HostNext]_checkVars
=============================================================================
