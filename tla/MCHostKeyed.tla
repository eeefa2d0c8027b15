---------------------------- MODULE MCHostKeyed ----------------------------
(* HostKeyed with a few key identities and specs. *)
EXTENDS HostKeyed, TLC

\* Key identities are interchangeable.
Symmetry == Permutations(Ids)
=============================================================================
