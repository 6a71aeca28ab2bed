---------------------------- MODULE MCGroupQueue ----------------------------
(* Instances of GroupQueue for TLC. *)
EXTENDS GroupQueue, TLC

GroupSymmetry == Permutations(Groups)

\* The queue writes the files of the input directories and never reads them,
\* and idleWaiting only decides whether it writes one: neither need tell two
\* states apart.
HostView == <<[g \in Groups |-> [groups[g] EXCEPT !.idleWaiting = FALSE]],
              activeCount, waitingGroups, shuttingDown, retryTimers, unserved>>
=============================================================================
