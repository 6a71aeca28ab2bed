---------------------------- MODULE MCGroupAgents ----------------------------
(* Instances of GroupAgents for TLC. *)
EXTENDS GroupAgents, TLC

GroupSymmetry == Permutations(Groups)

CONSTANT Quiet  \* bound of the model: groups that get no follow-up messages

QuietStaysQuiet == \A g \in Quiet : inbox'[g] = {}
=============================================================================
