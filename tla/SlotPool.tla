------------------------------ MODULE SlotPool ------------------------------
(***************************************************************************)
(* What the group queue (src/src/group-queue.ts) promises of its slots: at *)
(* most MaxConcurrent groups hold one; who finds none free gets in line;   *)
(* a slot that is given back goes to the head of the line at once; and     *)
(* once the pool is closed nobody gets one any more.                       *)
(*                                                                         *)
(* Nothing is said about tasks, messages, processes, retries or files.     *)
(***************************************************************************)
EXTENDS Naturals, Sequences

CONSTANTS
    Groups,
    MaxConcurrent

VARIABLES
    free,     \* number of slots nobody holds
    holders,  \* groups that hold a slot
    line,     \* groups that wait for one, the first in front
    closed

poolVars == <<free, holders, line, closed>>

InLine(g) == \E i \in DOMAIN line : line[i] = g

PoolInit ==
    /\ free = MaxConcurrent
    /\ holders = {}
    /\ line = <<>>
    /\ closed = FALSE

\* A free slot is there for anybody, since nobody waits for it.
Take(g) ==
    /\ ~closed
    /\ g \notin holders
    /\ line = <<>>
    /\ free > 0
    /\ free' = free - 1
    /\ holders' = holders \cup {g}
    /\ UNCHANGED <<line, closed>>

GetInLine(g) ==
    /\ ~closed
    /\ g \notin holders
    /\ ~InLine(g)
    /\ free = 0
    /\ line' = Append(line, g)
    /\ UNCHANGED <<free, holders, closed>>

\* The slot of g goes to the head of the line.
HandOver(g) ==
    /\ ~closed
    /\ g \in holders
    /\ line # <<>>
    /\ holders' = (holders \ {g}) \cup {Head(line)}
    /\ line' = Tail(line)
    /\ UNCHANGED <<free, closed>>

GiveBack(g) ==
    /\ g \in holders
    /\ closed \/ line = <<>>
    /\ free' = free + 1
    /\ holders' = holders \ {g}
    /\ UNCHANGED <<line, closed>>

Close ==
    /\ ~closed
    /\ closed' = TRUE
    /\ UNCHANGED <<free, holders, line>>

PoolNext ==
    \/ \E g \in Groups : Take(g) \/ GetInLine(g) \/ HandOver(g) \/ GiveBack(g)
    \/ Close

PoolSpec == PoolInit /\ [][PoolNext]_poolVars
=============================================================================
