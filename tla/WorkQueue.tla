------------------------------ MODULE WorkQueue ------------------------------
(***************************************************************************)
(* The work queue of src/src/cert_publisher/workqueue.py: keys are added,  *)
(* now or after a delay, and handed to consumers one holder at a time.     *)
(*                                                                         *)
(* Every method runs under the queue's condition variable, so a method (or *)
(* the stretch between two waits of get) is one action.  time.monotonic()  *)
(* is modelled by what is left of each delay: a deadline of 0 is due, and  *)
(* Tick is the passing of one unit of time.                                *)
(***************************************************************************)
EXTENDS Naturals, Sequences, FiniteSets, Functions

CONSTANTS Keys,      \* "namespace/name" of the publications
          Consumers, \* the threads that call get and done
          MaxDelay,  \* the longest delay passed to add_after
          NoKey      \* what get returns when it returns None

ASSUME QueueAssumption == /\ IsFiniteSet(Keys)
                          /\ MaxDelay \in Nat \ {0}
                          /\ NoKey \notin Keys

VARIABLES queue,      \* keys a consumer may take, oldest first
          dirty,      \* keys that ought to be processed
          processing, \* keys handed out and not yet done
          waiting,    \* the heap, as a set of <<time left, key>>
          deadlines,  \* the authoritative time left of each delayed key
          shutdown,
          at,         \* where each consumer is: out of get, in it, asleep in it, or
                      \* holding a key
          held        \* the key get returned to each consumer

queueVars == <<queue, dirty, processing, waiting, deadlines, shutdown, at, held>>

QueueInit == /\ queue = <<>>
             /\ dirty = {}
             /\ processing = {}
             /\ waiting = {}
             /\ deadlines = [k \in {} |-> 0]
             /\ shutdown = FALSE
             /\ at = [c \in Consumers |-> "out"]
             /\ held = [c \in Consumers |-> NoKey]

-----------------------------------------------------------------------------
Without(S) == Restrict(deadlines, DOMAIN deadlines \ S)

\* Condition.notify: one sleeping consumer, if there is one, will look again.
Notify == \/ \E c \in Consumers : at[c] = "asleep" /\ at' = [at EXCEPT ![c] = "in"]
          \/ (\A c \in Consumers : at[c] # "asleep") /\ UNCHANGED at

\* (Operators named Faulty... are bugs this code could have; they are part of no
\* specification and show that the properties would find them.)
\* A key is queued although a consumer holds it.
FaultyAddFresh(k) ==
  /\ ~shutdown /\ k \notin dirty
  /\ deadlines' = Without({k})
  /\ dirty' = dirty \cup {k}
  /\ queue' = Append(queue, k)

\* _add_locked on a key that is not wanted yet: it is queued, unless the holder's
\* done will do so.
AddFresh(k) ==
  /\ ~shutdown /\ k \notin dirty
  /\ deadlines' = Without({k})
  /\ dirty' = dirty \cup {k}
  /\ queue' = IF k \in processing THEN queue ELSE Append(queue, k)

Add(k) ==
  /\ \/ AddFresh(k)
     \/ (shutdown \/ k \in dirty) /\ UNCHANGED <<queue, dirty, deadlines>>
  /\ Notify
  /\ UNCHANGED <<processing, waiting, shutdown, held>>

\* The last deadline wins.
FaultyDelay(k, d) ==
  /\ ~shutdown
  /\ deadlines' = [j \in DOMAIN deadlines \cup {k} |-> IF j = k THEN d ELSE deadlines[j]]
  /\ waiting' = waiting \cup {<<d, k>>}
  /\ Notify
  /\ UNCHANGED <<queue, dirty, processing, shutdown, held>>

\* A key has one entry in the heap, which is not moved.
FaultyDelayKeepsEntry(k, d) ==
  /\ ~shutdown
  /\ k \in DOMAIN deadlines => d < deadlines[k]
  /\ deadlines' = [j \in DOMAIN deadlines \cup {k} |-> IF j = k THEN d ELSE deadlines[j]]
  /\ waiting' = IF \E w \in waiting : w[2] = k THEN waiting ELSE waiting \cup {<<d, k>>}
  /\ Notify
  /\ UNCHANGED <<queue, dirty, processing, shutdown, held>>

\* add_after with d > 0: a nearer deadline replaces a later one and leaves the
\* later one's heap entry behind.
Delay(k, d) ==
  /\ ~shutdown
  /\ k \in DOMAIN deadlines => d < deadlines[k]
  /\ deadlines' = [j \in DOMAIN deadlines \cup {k} |-> IF j = k THEN d ELSE deadlines[j]]
  /\ waiting' = waiting \cup {<<d, k>>}
  /\ Notify
  /\ UNCHANGED <<queue, dirty, processing, shutdown, held>>

AddAfter(k, d) ==
  \/ d = 0 /\ Add(k)
  \/ d > 0 /\ Delay(k, d)
  \/ /\ d > 0
     /\ shutdown \/ (k \in DOMAIN deadlines /\ deadlines[k] <= d)
     /\ UNCHANGED queueVars

-----------------------------------------------------------------------------
\* The delayed keys whose live heap entry is due.
Due == {k \in DOMAIN deadlines : deadlines[k] = 0 /\ <<0, k>> \in waiting}

\* The due keys _add_locked puts on the queue, in any order: entries due at
\* different times within one unit are not told apart.
Promoted == LET P == Due \ (dirty \cup processing)
            IN  {s \in [1 .. Cardinality(P) -> P] : IsInjective(s) /\ Range(s) = P}

\* _promote_due_locked, which every round of get starts with.
Promote == /\ waiting' = {w \in waiting : w[1] > 0}
           /\ deadlines' = Without(Due)

Enter(c) == /\ at[c] = "out"
            /\ at' = [at EXCEPT ![c] = "in"]
            /\ UNCHANGED <<queue, dirty, processing, waiting, deadlines, shutdown, held>>

\* Keys left when the queue is shut down are still handed out.
FaultyTake(c) ==
  /\ at[c] = "in"
  /\ Promote
  /\ \E s \in Promoted :
       LET ready == queue \o s
       IN  /\ ready # <<>>
           /\ queue' = Tail(ready)
           /\ dirty' = (dirty \cup Due) \ {Head(ready)}
           /\ processing' = processing \cup {Head(ready)}
           /\ held' = [held EXCEPT ![c] = Head(ready)]
  /\ at' = [at EXCEPT ![c] = "holding"]
  /\ UNCHANGED shutdown

\* get finds a key.
Take(c) ==
  /\ at[c] = "in" /\ ~shutdown
  /\ Promote
  /\ \E s \in Promoted :
       LET ready == queue \o s
       IN  /\ ready # <<>>
           /\ queue' = Tail(ready)
           /\ dirty' = (dirty \cup Due) \ {Head(ready)}
           /\ processing' = processing \cup {Head(ready)}
           /\ held' = [held EXCEPT ![c] = Head(ready)]
  /\ at' = [at EXCEPT ![c] = "holding"]
  /\ UNCHANGED shutdown

\* What get returns is in processing before get knows whether it is a key.
FaultyFindNone(c) ==
  /\ at[c] = "in" /\ ~shutdown
  /\ queue = <<>> /\ Due \subseteq dirty \cup processing
  /\ Promote
  /\ dirty' = dirty \cup Due
  /\ processing' = processing \cup {NoKey}
  /\ \E p \in {"asleep", "out"} : at' = [at EXCEPT ![c] = p]
  /\ UNCHANGED <<queue, shutdown, held>>

\* get finds none: it waits, or its timeout is over and it returns None.
FindNone(c) ==
  /\ at[c] = "in" /\ ~shutdown
  /\ queue = <<>> /\ Due \subseteq dirty \cup processing
  /\ Promote
  /\ dirty' = dirty \cup Due
  /\ \E p \in {"asleep", "out"} : at' = [at EXCEPT ![c] = p]
  /\ UNCHANGED <<queue, processing, shutdown, held>>

\* get returns None because the queue is shut down.
TurnAway(c) == /\ at[c] = "in" /\ shutdown
               /\ at' = [at EXCEPT ![c] = "out"]
               /\ UNCHANGED <<queue, dirty, processing, waiting, deadlines, shutdown, held>>

\* The wait in get ends by itself, at the latest with get's timeout.
Wake(c) == /\ at[c] = "asleep"
           /\ at' = [at EXCEPT ![c] = "in"]
           /\ UNCHANGED <<queue, dirty, processing, waiting, deadlines, shutdown, held>>

\* A key added while it was held is not queued again.
FaultyDone(c) ==
  /\ at[c] = "holding"
  /\ processing' = processing \ {held[c]}
  /\ held' = [held EXCEPT ![c] = NoKey]
  /\ at' = [at EXCEPT ![c] = "out"]
  /\ UNCHANGED <<queue, dirty, waiting, deadlines, shutdown>>

\* done: its caller is out of the queue, and a notified consumer looks again.
Done(c) ==
  LET k == held[c]
      left == [at EXCEPT ![c] = "out"]
  IN  /\ at[c] = "holding"
      /\ processing' = processing \ {k}
      /\ held' = [held EXCEPT ![c] = NoKey]
      /\ \/ /\ k \notin dirty
            /\ at' = left
            /\ UNCHANGED queue
         \/ /\ k \in dirty
            /\ queue' = Append(queue, k)
            /\ \/ \E b \in Consumers : at[b] = "asleep" /\ at' = [left EXCEPT ![b] = "in"]
               \/ (\A b \in Consumers : at[b] # "asleep") /\ at' = left
      /\ UNCHANGED <<dirty, waiting, deadlines, shutdown>>

Shutdown == /\ ~shutdown
            /\ shutdown' = TRUE
            /\ at' = [c \in Consumers |-> IF at[c] = "asleep" THEN "in" ELSE at[c]]
            /\ UNCHANGED <<queue, dirty, processing, waiting, deadlines, held>>

-----------------------------------------------------------------------------
(* The clock. *)

\* A deadline that has passed is due, however long ago it passed.
Less(t) == IF t = 0 THEN 0 ELSE t - 1

Tick == /\ waiting' = {<<Less(w[1]), w[2]>> : w \in waiting}
        /\ deadlines' = [k \in DOMAIN deadlines |-> Less(deadlines[k])]
        /\ UNCHANGED <<queue, dirty, processing, shutdown, at, held>>

Consume(c) == Enter(c) \/ Take(c) \/ FindNone(c) \/ TurnAway(c) \/ Wake(c) \/ Done(c)

Produce == \E k \in Keys, d \in 0 .. MaxDelay : AddAfter(k, d)

QueueNext == \/ Produce
             \/ \E c \in Consumers : Consume(c)
             \/ Shutdown
             \/ Tick

QueueSpec == QueueInit /\ [][QueueNext]_queueVars

-----------------------------------------------------------------------------
TypeOK == /\ queue \in Seq(Keys)
          /\ dirty \subseteq Keys
          /\ processing \subseteq Keys
          /\ waiting \subseteq (0 .. MaxDelay) \X Keys
          /\ DOMAIN deadlines \subseteq Keys
          /\ deadlines \in [DOMAIN deadlines -> 0 .. MaxDelay]
          /\ shutdown \in BOOLEAN
          /\ at \in [Consumers -> {"out", "in", "asleep", "holding"}]
          /\ held \in [Consumers -> Keys \cup {NoKey}]

\* Two consumers never hold the same key: "two workers never reconcile the same
\* publication at once" (workqueue.py:11).
Serialised == \A b, c \in Consumers : held[b] = held[c] /\ held[b] # NoKey => b = c

\* The queue holds each wanted key exactly once, and none a consumer holds:
\* what makes add's early returns and done's requeue agree.
QueueExact == /\ Range(queue) = dirty \ processing
              /\ IsInjective(queue)

\* Every delayed key has its entry in the heap, so popping the heap in order
\* cannot miss it, whatever entries rescheduling has left behind.
NoDeadlineStranded == \A k \in DOMAIN deadlines : <<deadlines[k], k>> \in waiting

\* What is in flight is what consumers hold.
ProcessingHeld == /\ processing = {held[c] : c \in Consumers} \ {NoKey}
                  /\ \A c \in Consumers : at[c] = "holding" <=> held[c] # NoKey

\* The inductive invariant: each part is needed by another's step.
QueueInv == TypeOK /\ ProcessingHeld /\ Serialised /\ QueueExact /\ NoDeadlineStranded

\* A request is never lost: a key that is wanted, now or later, stays so until a
\* consumer takes it, also when it is added again while held.
NothingLost ==
  [][\A k \in dirty \cup DOMAIN deadlines :
       \/ k \in dirty' \cup DOMAIN deadlines'
       \/ k \notin processing /\ k \in processing']_queueVars

\* The earliest deadline of a key wins: until it fires nothing pushes it back.
EarliestWins ==
  [][\A k \in DOMAIN deadlines \cap DOMAIN deadlines' : deadlines'[k] <= deadlines[k]]_queueVars

\* The queue does what KeyedWork promises.
Promise == INSTANCE KeyedWork WITH wanted <- dirty, scheduled <- DOMAIN deadlines,
                                   running <- held, closed <- shutdown
KeepsPromise == Promise!Spec

\* A key that is wanted is handed out, and a delayed one becomes wanted when it is
\* due, unless the queue is shut down first: no key waits behind the others forever.
EventuallyTaken ==
  \A k \in Keys : /\ k \in dirty ~> shutdown \/ k \notin dirty
                  /\ k \in DOMAIN deadlines ~> shutdown \/ k \notin DOMAIN deadlines
=============================================================================
