---------------------------- MODULE MCController ----------------------------
(* Controller with a publication or two and workers. *)
EXTENDS Controller, TLC

\* Workers are interchangeable; only safety runs may use this.
Symmetry == Permutations(Consumers)
=============================================================================
