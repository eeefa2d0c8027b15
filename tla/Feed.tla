--------------------------------- MODULE Feed ---------------------------------
(***************************************************************************)
(* What the watch on publications owes the controller: every publication   *)
(* it lists and every change it has not lost its place over is passed on,  *)
(* one key at a time, and a place that is lost is followed by a list.      *)
(* Watcher implements this from its side, Controller from the queue's.     *)
(***************************************************************************)
CONSTANT Keys

VARIABLES exists, \* the publications there are
          listed, \* whether the watch has a place to go on from
          toSync, \* publications of the last list not passed on yet
          unseen, \* publications with changes the watch has still to deliver
          wanted  \* keys passed on and not taken since

vars == <<exists, listed, toSync, unseen, wanted>>

Init == /\ exists \in SUBSET Keys
        /\ listed = FALSE /\ toSync = {} /\ unseen = {}
        /\ wanted \in SUBSET Keys

\* What was passed on before a change does not count for it.
Change(k) == /\ exists' \in {exists \cup {k}, exists \ {k}}
             /\ unseen' = IF listed THEN unseen \cup {k} ELSE unseen
             /\ wanted' \in {wanted, wanted \ {k}}
             /\ UNCHANGED <<listed, toSync>>

List == /\ ~listed /\ toSync = {}
        /\ listed' = TRUE /\ toSync' = exists /\ unseen' = {}
        /\ UNCHANGED <<exists, wanted>>

Sync(k) == /\ k \in toSync
           /\ toSync' = toSync \ {k}
           /\ wanted' = wanted \cup {k}
           /\ UNCHANGED <<exists, listed, unseen>>

Deliver(k) == /\ toSync = {} /\ k \in unseen
              /\ unseen' = unseen \ {k}
              /\ wanted' = wanted \cup {k}
              /\ UNCHANGED <<exists, listed, toSync>>

\* A key may be passed on more often than it must be.
Repeat(k) == /\ wanted' = wanted \cup {k}
             /\ UNCHANGED <<exists, listed, toSync, unseen>>

Lose == /\ toSync = {}
        /\ listed' = FALSE /\ unseen' = {}
        /\ UNCHANGED <<exists, toSync, wanted>>

\* The controller takes a key, begins anew with nothing, or wants no more.
Take(k) == /\ wanted' = wanted \ {k}
           /\ UNCHANGED <<exists, listed, toSync, unseen>>

Restart == /\ listed' = FALSE /\ toSync' = {} /\ unseen' = {} /\ wanted' = {}
           /\ UNCHANGED exists

Close == /\ wanted' = Keys
         /\ UNCHANGED <<exists, listed, toSync, unseen>>

Next == \/ \E k \in Keys : Change(k) \/ Sync(k) \/ Deliver(k) \/ Repeat(k) \/ Take(k)
        \/ List \/ Lose \/ Restart \/ Close

Spec == Init /\ [][Next]_vars
=============================================================================
