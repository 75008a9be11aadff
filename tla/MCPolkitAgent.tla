---------------------------- MODULE MCPolkitAgent ----------------------------
(* The module TLC runs for PolkitAgent: requests anybody may sign in for are *)
(* alike.                                                                    *)
EXTENDS PolkitAgent, TLC

Symmetry == Permutations(Requests \ NoIdentity)

=============================================================================
