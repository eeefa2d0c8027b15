------------------------------ MODULE KeyedWork ------------------------------
(***************************************************************************)
(* What the work queue promises its users, without a queue, a heap or a    *)
(* condition variable (the three properties of workqueue.py:6-20 and get's *)
(* promise about shutdown): requests for a key collapse into one, a key    *)
(* runs at most once at a time and again if it was requested meanwhile, a  *)
(* scheduled key becomes a request, and nothing starts once closed.        *)
(***************************************************************************)
CONSTANTS Keys, Consumers, NoKey

VARIABLES wanted,    \* keys to be run
          scheduled, \* keys to be wanted later
          running,   \* the key each consumer runs
          closed

vars == <<wanted, scheduled, running, closed>>

Init == /\ wanted = {}
        /\ scheduled = {}
        /\ running = [c \in Consumers |-> NoKey]
        /\ closed = FALSE

\* An immediate request may or may not cancel the scheduled one.
Request(k) == /\ ~closed
              /\ wanted' = wanted \cup {k}
              /\ scheduled' \in {scheduled, scheduled \ {k}}
              /\ UNCHANGED <<running, closed>>

Schedule(k) == /\ ~closed
               /\ scheduled' = scheduled \cup {k}
               /\ UNCHANGED <<wanted, running, closed>>

Fire(F) == /\ ~closed
           /\ scheduled' = scheduled \ F
           /\ wanted' = wanted \cup F
           /\ UNCHANGED <<running, closed>>

Start(c, k, F) == /\ ~closed
                  /\ running[c] = NoKey
                  /\ k \in wanted \cup F
                  /\ \A b \in Consumers : running[b] # k
                  /\ scheduled' = scheduled \ F
                  /\ wanted' = (wanted \cup F) \ {k}
                  /\ running' = [running EXCEPT ![c] = k]
                  /\ UNCHANGED closed

Finish(c) == /\ running[c] # NoKey
             /\ running' = [running EXCEPT ![c] = NoKey]
             /\ UNCHANGED <<wanted, scheduled, closed>>

Close == /\ closed' = TRUE
         /\ UNCHANGED <<wanted, scheduled, running>>

Next == \/ \E k \in Keys : Request(k) \/ Schedule(k)
        \/ \E F \in SUBSET scheduled : Fire(F)
        \/ \E c \in Consumers, k \in Keys, F \in SUBSET scheduled : Start(c, k, F)
        \/ \E c \in Consumers : Finish(c)
        \/ Close

Spec == Init /\ [][Next]_vars
=============================================================================
