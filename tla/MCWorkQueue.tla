----------------------------- MODULE MCWorkQueue -----------------------------
(* WorkQueue with a few keys and consumers. *)
EXTENDS WorkQueue, TLC

\* Keys and consumers are interchangeable; only safety runs may use this.
Symmetry == Permutations(Keys) \cup Permutations(Consumers)
=============================================================================
