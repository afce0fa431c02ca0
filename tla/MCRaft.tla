------------------------------- MODULE MCRaft -------------------------------
(* Raft for TLC: offices are interchangeable, and so are commands. *)
EXTENDS Raft, TLC

Symmetry == Permutations(Nodes) \cup Permutations(Commands)
=============================================================================
