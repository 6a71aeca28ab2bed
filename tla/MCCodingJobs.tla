---------------------------- MODULE MCCodingJobs ----------------------------
(* Instances of CodingJobs for TLC. *)
EXTENDS CodingJobs

CONSTANT MaxUpsets  \* bound of the model: no further steps after more upsets

\* A job for Cursor with a pull request, and a dry run.
SomeRequests ==
    {[createPr |-> TRUE, dryRun |-> FALSE, runner |-> "cursor"],
     [createPr |-> FALSE, dryRun |-> TRUE, runner |-> "container"]}

\* Bound of the model: a revert is asked for once there is an attempt.
RevertsLater ==
    pending'["revert"] > pending["revert"] => used # {}

FewUpsets == Cardinality(upsets) <= MaxUpsets
=============================================================================
