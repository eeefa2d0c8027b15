--------------------------- MODULE ControllerProofs ---------------------------
(***************************************************************************)
(* Theorems about Controller, for any publications, workers, delays and    *)
(* pods: that no publication is forgotten and no edit left unnoticed,      *)
(* whatever fails or races, and that the queue's own guarantees hold when  *)
(* the workers drive it.                                                   *)
(***************************************************************************)
EXTENDS Controller, WorkQueueProofs

\* k is wanted now, or within d.
Queued(k, d) == k \in dirty \/ (k \in DOMAIN deadlines /\ deadlines[k] <= d)

Busy == {"read", "run", "requeue", "retry"}

\* k will be looked at again.
Awaited(k) == \/ Queued(k, MaxDelay)
              \/ k \in toSync \cup unseen
              \/ InHand(k, Busy)

\* A worker reconciles k as it was last edited.
UpToDate(k) == \E w \in Consumers : held[w] = k /\ step[w] = "run" /\ read[w] = edits[k]

\* The newest edit of k will be read soon, or was.
Noticed(k) == \/ Queued(k, MaxBackoff) \/ Queued(k, StartupSpread)
              \/ k \in toSync \cup unseen
              \/ InHand(k, {"read", "retry"})
              \/ UpToDate(k)

Followed == listed /\ ~shutdown =>
              \A k \in exists : Awaited(k) /\ (attempted[k] # edits[k] => Noticed(k))

\* The types of what the queue does not keep.
Types == /\ exists \subseteq Keys /\ toSync \subseteq Keys /\ unseen \subseteq Keys
         /\ listed \in BOOLEAN
         /\ edits \in [Keys -> Nat] /\ attempted \in [Keys -> Nat]
         /\ step \in [Consumers -> {"idle", "done"} \cup Busy]
         /\ read \in [Consumers -> Nat]
         /\ main \in {"running", "signalled", "joining", "exited"}
         /\ pods \in Nat

\* A worker is busy just as long as it holds a key.
Hands == \A w \in Consumers : step[w] # "idle" <=> at[w] = "holding"

\* A reconcile works on no older copy than the last one did.
InOrder == /\ \A k \in Keys : attempted[k] <= edits[k]
           /\ \A w \in Consumers : step[w] = "run" => /\ attempted[held[w]] <= read[w]
                                                      /\ read[w] <= edits[held[w]]

\* The inductive invariant.
ControllerInv == QueueInv /\ Types /\ Hands /\ InOrder /\ Followed

-----------------------------------------------------------------------------
(* What the queue's operations mean to the workers and the publications. *)

\* No worker gets a key or lets go of one, and no key is put off.
Calm == /\ UNCHANGED <<held, shutdown>>
        /\ \A w \in Consumers : at'[w] = "holding" <=> at[w] = "holding"
        /\ \A k \in Keys, d \in Nat : Queued(k, d) => Queued(k, d)'

LEMMA NotifyCalm ==
  ASSUME QueueInv, Notify
  PROVE  \A w \in Consumers : at'[w] = "holding" <=> at[w] = "holding"
BY DEF Notify, QueueInv, TypeOK

LEMMA DeadlineType ==
  ASSUME QueueInv
  PROVE  \A k \in DOMAIN deadlines : k \in Keys /\ deadlines[k] \in Nat /\ deadlines[k] <= MaxDelay
BY QueueAssumption DEF QueueInv, TypeOK

\* Delays that are dropped only for keys that are wanted put off nothing.
LEMMA WithoutCalm ==
  ASSUME QueueInv, NEW S, deadlines' = Without(S), S \cap DOMAIN deadlines \subseteq dirty',
         dirty \subseteq dirty'
  PROVE  \A k \in Keys, d \in Nat : Queued(k, d) => Queued(k, d)'
BY DEF Without, Restrict, Queued

LEMMA AddCalm ==
  ASSUME QueueInv, NEW k \in Keys, Add(k)
  PROVE  Calm /\ (~shutdown => k \in dirty')
<1>1. \A w \in Consumers : at'[w] = "holding" <=> at[w] = "holding"
  BY NotifyCalm DEF Add
<1>2. CASE AddFresh(k)
  <2>1. \A j \in Keys, d \in Nat : Queued(j, d) => Queued(j, d)'
    BY <1>2, WithoutCalm DEF AddFresh
  <2> QED
    BY <1>1, <1>2, <2>1 DEF Add, AddFresh, Calm
<1>3. CASE (shutdown \/ k \in dirty) /\ UNCHANGED <<queue, dirty, deadlines>>
  BY <1>1, <1>3 DEF Add, Calm, Queued
<1> QED
  BY <1>2, <1>3 DEF Add

LEMMA AddAfterCalm ==
  ASSUME QueueInv, NEW k \in Keys, NEW d \in 0 .. MaxDelay, AddAfter(k, d)
  PROVE  Calm /\ (~shutdown => Queued(k, d)')
<1> USE QueueAssumption
<1>1. CASE Add(k)
  BY <1>1, AddCalm DEF Queued
<1>2. CASE Delay(k, d)
  <2>1. \A w \in Consumers : at'[w] = "holding" <=> at[w] = "holding"
    BY <1>2, NotifyCalm DEF Delay
  <2>2. ASSUME NEW j \in Keys, NEW c \in Nat, Queued(j, c)
        PROVE  Queued(j, c)'
    <3>1. CASE j = k
      BY <1>2, <2>2, <3>1, DeadlineType DEF Delay, Queued
    <3>2. CASE j # k
      BY <1>2, <2>2, <3>2 DEF Delay, Queued
    <3> QED
      BY <3>1, <3>2
  <2> QED
    BY <1>2, <2>1, <2>2 DEF Delay, Calm, Queued
<1>3. CASE /\ shutdown \/ (k \in DOMAIN deadlines /\ deadlines[k] <= d)
           /\ UNCHANGED queueVars
  BY <1>3 DEF queueVars, Calm, Queued
<1> QED
  BY <1>1, <1>2, <1>3 DEF AddAfter

\* Moves of a worker that gets nothing, and time.
LEMMA IdleCalm ==
  ASSUME QueueInv,
         Tick \/ \E w \in Consumers : Enter(w) \/ FindNone(w) \/ TurnAway(w) \/ Wake(w)
  PROVE  Calm
<1>1. ASSUME NEW w \in Consumers, FindNone(w)
      PROVE  Calm
  <2>1. \A j \in Keys, d \in Nat : Queued(j, d) => Queued(j, d)'
    BY <1>1, WithoutCalm DEF FindNone, Promote
  <2>2. \A b \in Consumers : at'[b] = "holding" <=> at[b] = "holding"
    BY <1>1 DEF FindNone, QueueInv, TypeOK
  <2> QED
    BY <1>1, <2>1, <2>2 DEF FindNone, Calm
<1>2. ASSUME NEW w \in Consumers, Enter(w) \/ TurnAway(w) \/ Wake(w)
      PROVE  Calm
  BY <1>2 DEF Enter, TurnAway, Wake, Calm, Queued, QueueInv, TypeOK
<1>3. CASE Tick
  <2>1. ASSUME NEW j \in Keys, NEW d \in Nat, Queued(j, d)
        PROVE  Queued(j, d)'
    <3>1. CASE j \in dirty
      BY <1>3, <3>1 DEF Tick, Queued
    <3>2. CASE j \in DOMAIN deadlines /\ deadlines[j] <= d
      <4>1. j \in DOMAIN deadlines' /\ deadlines'[j] = Less(deadlines[j])
        BY <1>3, <3>2 DEF Tick
      <4> QED
        BY <3>2, <4>1, DeadlineType DEF Less, Queued
    <3> QED
      BY <2>1, <3>1, <3>2 DEF Queued
  <2> QED
    BY <1>3, <2>1 DEF Tick, Calm
<1> QED
  BY <1>1, <1>2, <1>3

\* get hands one key to w, and puts off no other.
LEMMA TakeGives ==
  ASSUME QueueInv, NEW w \in Consumers, Take(w)
  PROVE  \E h \in Keys : /\ at[w] = "in" /\ at' = [at EXCEPT ![w] = "holding"]
                         /\ held' = [held EXCEPT ![w] = h] /\ shutdown' = shutdown
                         /\ \A k \in Keys \ {h}, d \in Nat : Queued(k, d) => Queued(k, d)'
<1>1. QueueInv'
  BY TakeInv
<1>2. PICK h : /\ held' = [held EXCEPT ![w] = h] /\ dirty' = (dirty \cup Due) \ {h}
  BY DEF Take
<1>3. /\ at[w] = "in" /\ at' = [at EXCEPT ![w] = "holding"] /\ shutdown' = shutdown
      /\ deadlines' = Without(Due)
  BY DEF Take, Promote
<1>4. h \in Keys
  <2>1. held'[w] = h /\ at'[w] = "holding" /\ held'[w] \in Keys \cup {NoKey}
    BY <1>1, <1>2, <1>3 DEF QueueInv, TypeOK
  <2> QED
    BY <1>1, <2>1 DEF QueueInv, ProcessingHeld
<1>5. \A k \in Keys \ {h}, d \in Nat : Queued(k, d) => Queued(k, d)'
  BY <1>2, <1>3 DEF Without, Restrict, Queued
<1> QED
  BY <1>2, <1>3, <1>4, <1>5

\* done takes w's key from it alone.
LEMMA DoneFrees ==
  ASSUME QueueInv, NEW w \in Consumers, Done(w)
  PROVE  /\ held' = [held EXCEPT ![w] = NoKey] /\ shutdown' = shutdown
         /\ at'[w] # "holding"
         /\ \A b \in Consumers \ {w} : at'[b] = "holding" <=> at[b] = "holding"
         /\ \A k \in Keys, d \in Nat : Queued(k, d) => Queued(k, d)'
<1>1. /\ at'[w] # "holding"
      /\ \A b \in Consumers \ {w} : at'[b] = "holding" <=> at[b] = "holding"
  BY DEF Done, QueueInv, TypeOK
<1> QED
  BY <1>1 DEF Done, Queued

\* A worker that is busy holds a key, and nobody else does.
LEMMA OwnHands ==
  ASSUME ControllerInv, NEW w \in Consumers, step[w] # "idle"
  PROVE  /\ held[w] \in Keys
         /\ \A b \in Consumers \ {w} : held[b] # held[w]
BY QueueAssumption
   DEF ControllerInv, Hands, QueueInv, TypeOK, ProcessingHeld, Serialised

-----------------------------------------------------------------------------
(* Steps that leave publications and reconciles alone. *)

\* What was to be looked at for the watch's sake still is, or is queued at once.
Kept == \A k \in exists : listed' /\ ~shutdown' =>
          /\ listed
          /\ k \in toSync \cup unseen => k \in toSync' \cup unseen' \/ Queued(k, StartupSpread)'

\* Within a shorter delay is within a longer one.
LEMMA QueuedLonger ==
  ASSUME QueueInv, NEW k, NEW c \in Nat, NEW d \in Nat, c <= d, Queued(k, c)
  PROVE  Queued(k, d)
BY DeadlineType DEF Queued

LEMMA Delays == /\ MaxDelay \in Nat /\ MaxBackoff \in Nat /\ StartupSpread \in Nat
                /\ MaxBackoff <= MaxDelay /\ StartupSpread <= MaxDelay
BY QueueAssumption, ControllerAssumption DEF QueueAssumption, ControllerAssumption

LEMMA CalmInv ==
  ASSUME ControllerInv, QueueInv', Types', Calm, UNCHANGED <<apiVars, workVars>>, Kept
  PROVE  ControllerInv'
<1> USE DEF ControllerInv
<1>1. /\ exists' = exists /\ edits' = edits /\ step' = step /\ read' = read
      /\ attempted' = attempted /\ held' = held /\ shutdown' = shutdown
  BY DEF apiVars, workVars, Calm
<1>2. Hands' /\ InOrder'
  BY <1>1 DEF Calm, Hands, InOrder
<1>3. Followed'
  <2> SUFFICES ASSUME listed', ~shutdown', NEW k \in exists
               PROVE  Awaited(k)' /\ (attempted[k] # edits[k] => Noticed(k)')
    BY <1>1 DEF Followed
  <2>1. k \in Keys /\ listed /\ ~shutdown
    BY <1>1 DEF Types, Kept
  <2>2. \A d \in Nat : Queued(k, d) => Queued(k, d)'
    BY <2>1 DEF Calm
  <2>3. k \in toSync \cup unseen => k \in toSync' \cup unseen' \/ Queued(k, StartupSpread)'
    BY DEF Kept
  <2>4. Queued(k, StartupSpread)' => Queued(k, MaxDelay)'
    <3>1. \A j \in DOMAIN deadlines' : deadlines'[j] \in Nat
      BY DeadlineType, QueueAssumption DEF QueueInv, TypeOK
    <3> QED
      BY <3>1, Delays DEF Queued
  <2>5. /\ InHand(k, Busy) => InHand(k, Busy)'
        /\ InHand(k, {"read", "retry"}) => InHand(k, {"read", "retry"})'
        /\ UpToDate(k) => UpToDate(k)'
    BY <1>1 DEF InHand, UpToDate
  <2>6. Awaited(k) /\ (attempted[k] # edits[k] => Noticed(k))
    BY <2>1 DEF Followed
  <2> QED
    BY <2>2, <2>3, <2>4, <2>5, <2>6, Delays DEF Awaited, Noticed
<1> QED
  BY <1>2, <1>3

\* The watch delivers, is nudged, or loses its place; a worker finds nothing; main is
\* told to stop, or is killed; time passes.
LEMMA CalmSteps ==
  ASSUME ControllerInv,
         \/ \E k \in Keys : Sync(k) \/ Deliver(k) \/ Nudge(k)
         \/ \E w \in Consumers : Poll(w) \/ Await(w)
         \/ Expire \/ Signal \/ Exit \/ Pass
  PROVE  ControllerInv'
<1> USE DEF ControllerInv
<1>1. ASSUME NEW k \in Keys, Sync(k)
      PROVE  ControllerInv'
  <2>1. PICK d \in 0 .. StartupSpread : AddAfter(k, d)
    BY <1>1 DEF Sync
  <2>2. d \in 0 .. MaxDelay
    BY Delays
  <2>3. Calm /\ (~shutdown => Queued(k, d)') /\ QueueInv'
    BY <2>1, <2>2, AddAfterCalm, AddAfterInv
  <2>4. ~shutdown => Queued(k, StartupSpread)'
    <3>1. \A j \in DOMAIN deadlines' : deadlines'[j] \in Nat
      BY <2>3 DEF QueueInv, TypeOK
    <3> QED
      BY <2>3, <3>1, Delays DEF Queued
  <2>5. Types' /\ Kept /\ UNCHANGED <<apiVars, workVars>>
    BY <1>1, <2>3, <2>4 DEF Sync, Types, Kept, Calm, apiVars, workVars, mainVars
  <2> QED
    BY <2>3, <2>5, CalmInv
<1>2. ASSUME NEW k \in Keys, Deliver(k) \/ Nudge(k)
      PROVE  ControllerInv'
  <2>1. Add(k)
    BY <1>2 DEF Deliver, Nudge
  <2>2. Calm /\ (~shutdown => k \in dirty') /\ QueueInv'
    BY <2>1, AddCalm, AddInv
  <2>3. Types' /\ Kept /\ UNCHANGED <<apiVars, workVars>>
    BY <1>2, <2>2
       DEF Deliver, Nudge, Types, Kept, Calm, Queued, apiVars, watchVars, workVars, mainVars
  <2> QED
    BY <2>2, <2>3, CalmInv
<1>3. ASSUME Pass \/ \E w \in Consumers : Poll(w) \/ Await(w)
      PROVE  ControllerInv'
  <2>1. Calm /\ QueueInv'
    BY <1>3, IdleCalm, TickInv, FindNoneInv, MoveInv DEF Pass, Poll, Await
  <2>2. UNCHANGED <<apiVars, watchVars, workVars, mainVars>>
    BY <1>3 DEF Pass, Poll, Await
  <2>3. Types' /\ Kept
    BY <2>1, <2>2 DEF Types, Kept, Calm, apiVars, watchVars, workVars, mainVars
  <2> QED
    BY <2>1, <2>2, <2>3, CalmInv
<1>4. ASSUME Expire \/ Signal \/ Exit
      PROVE  ControllerInv'
  <2>1. UNCHANGED queueVars /\ UNCHANGED <<apiVars, workVars>>
    BY <1>4 DEF Expire, Signal, Exit
  <2>2. Calm /\ QueueInv'
    BY <2>1, StutterInv DEF queueVars, Calm, Queued
  <2>3. Types' /\ Kept
    <3>1. CASE Expire
      BY <2>1, <3>1 DEF Expire, Types, Kept, apiVars, workVars, mainVars
    <3>2. CASE Signal \/ Exit
      <4>1. Types' /\ UNCHANGED watchVars
        BY <2>1, <3>2 DEF Signal, Exit, Types, apiVars, watchVars, workVars
      <4> QED
        BY <2>1, <4>1 DEF Kept, watchVars, queueVars
    <3> QED
      BY <1>4, <3>1, <3>2
  <2> QED
    BY <2>1, <2>2, <2>3, CalmInv
<1> QED
  BY <1>1, <1>2, <1>3, <1>4

-----------------------------------------------------------------------------
(* Steps of publications' owners, of the watch's list and of main. *)

\* An edit is news to the watch, if there is one.
LEMMA ChangeInv ==
  ASSUME ControllerInv, NEW k \in Keys, Write(k) \/ Delete(k)
  PROVE  ControllerInv'
<1> USE DEF ControllerInv
<1>1. /\ edits' = [edits EXCEPT ![k] = @ + 1]
      /\ unseen' = IF listed THEN unseen \cup {k} ELSE unseen
      /\ UNCHANGED <<queueVars, listed, toSync, step, read, attempted, main, pods>>
      /\ exists' \in {exists \cup {k}, exists \ {k}}
  BY DEF Write, Delete, Change, workVars, mainVars
<1>2. QueueInv' /\ shutdown' = shutdown /\ held' = held /\ at' = at
  BY <1>1, StutterInv DEF queueVars
<1>3. Types'
  BY <1>1 DEF Types
<1>4. Hands' /\ InOrder'
  <2>1. Hands'
    BY <1>1, <1>2 DEF Hands
  <2>2. \A j \in Keys : edits[j] \in Nat /\ edits'[j] \in Nat /\ edits[j] <= edits'[j]
    BY <1>1 DEF Types
  <2>3. \A j \in Keys : attempted'[j] <= edits'[j]
    BY <1>1, <2>2 DEF Types, InOrder
  <2>4. ASSUME NEW w \in Consumers, step[w] = "run"
        PROVE  attempted[held[w]] <= read[w] /\ read[w] <= edits'[held[w]]
    <3>1. held[w] \in Keys
      BY <2>4, OwnHands
    <3> QED
      BY <2>2, <2>4, <3>1 DEF Types, InOrder
  <2> QED
    BY <1>1, <1>2, <2>1, <2>3, <2>4 DEF InOrder
<1>5. Followed'
  <2> SUFFICES ASSUME listed, ~shutdown, NEW j \in exists'
               PROVE  Awaited(j)' /\ (attempted[j] # edits'[j] => Noticed(j)')
    BY <1>1, <1>2 DEF Followed
  <2>1. CASE j = k
    BY <1>1, <2>1 DEF Awaited, Noticed
  <2>2. CASE j # k
    <3>1. j \in exists /\ edits'[j] = edits[j] /\ unseen' = unseen \cup {k}
      BY <1>1, <2>2 DEF Types
    <3>2. Awaited(j) /\ (attempted[j] # edits[j] => Noticed(j))
      BY <3>1 DEF Followed
    <3>3. Awaited(j) => Awaited(j)'
      BY <1>1, <1>2, <3>1 DEF Awaited, Queued, InHand, queueVars
    <3>4. Noticed(j) => Noticed(j)'
      BY <1>1, <1>2, <3>1 DEF Noticed, Queued, InHand, UpToDate, queueVars
    <3> QED
      BY <3>1, <3>2, <3>3, <3>4
  <2> QED
    BY <2>1, <2>2
<1> QED
  BY <1>2, <1>3, <1>4, <1>5

\* The watch begins with every publication there is, and no queue that is shut down or
\* new is answerable for any.
LEMMA FreshInv ==
  ASSUME ControllerInv, List \/ CloseQueue \/ NewPod
  PROVE  ControllerInv'
<1> USE DEF ControllerInv
<1>1. CASE List
  <2>1. /\ UNCHANGED <<queueVars, exists, edits, step, read, attempted, main, pods>>
        /\ listed' = TRUE /\ toSync' = exists /\ unseen' = {}
    BY <1>1 DEF List, apiVars, workVars, mainVars
  <2>2. QueueInv' /\ held' = held /\ at' = at
    BY <2>1, StutterInv DEF queueVars
  <2>3. Types' /\ Hands' /\ InOrder'
    BY <2>1, <2>2 DEF Types, Hands, InOrder
  <2>4. Followed'
    BY <2>1 DEF Followed, Awaited, Noticed
  <2> QED
    BY <2>2, <2>3, <2>4
<1>2. CASE CloseQueue
  <2>1. Shutdown /\ UNCHANGED <<exists, edits, listed, toSync, unseen, step, read, attempted, pods>>
        /\ main' = "joining"
    BY <1>2 DEF CloseQueue, apiVars, watchVars, workVars
  <2>2. QueueInv'
    BY <2>1, MoveInv
  <2>3. shutdown' /\ held' = held /\ \A w \in Consumers : at'[w] = "holding" <=> at[w] = "holding"
    BY <2>1 DEF Shutdown, QueueInv, TypeOK
  <2>4. Types' /\ Hands' /\ InOrder' /\ Followed'
    BY <2>1, <2>3 DEF Types, Hands, InOrder, Followed
  <2> QED
    BY <2>2, <2>4
<1>3. CASE NewPod
  <2>1. QueueInv'
    <3>1. QueueInit'
      BY <1>3 DEF NewPod, QueueInit
    <3>2. queue' \in Seq(Keys) /\ Range(queue') = {} /\ IsInjective(queue')
      BY <3>1, EmptySeq DEF QueueInit, Range, IsInjective
    <3>3. TypeOK'
      BY <3>1, <3>2 DEF QueueInit, TypeOK
    <3> QED
      BY <3>1, <3>2, <3>3 DEF QueueInit, QueueInv, ProcessingHeld, Serialised, QueueExact,
                              NoDeadlineStranded
  <2>2. Types'
    <3>1. UNCHANGED <<exists, edits, attempted>> /\ main' = "running" /\ pods' \in Nat
      BY <1>3 DEF NewPod, Types, apiVars
    <3>2. listed' \in BOOLEAN /\ toSync' \subseteq Keys /\ unseen' \subseteq Keys
      BY <1>3 DEF NewPod
    <3>3. /\ step' \in [Consumers -> {"idle", "done"} \cup Busy]
          /\ read' \in [Consumers -> Nat]
      BY <1>3 DEF NewPod
    <3> QED
      BY <3>1, <3>2, <3>3 DEF Types
  <2>3. Hands' /\ InOrder' /\ Followed'
    BY <1>3 DEF NewPod, Hands, InOrder, Followed, apiVars
  <2> QED
    BY <2>1, <2>2, <2>3
<1> QED
  BY <1>1, <1>2, <1>3

-----------------------------------------------------------------------------
(* The workers. *)

\* w is given a key.
LEMMA AcceptInv ==
  ASSUME ControllerInv, NEW w \in Consumers, Accept(w)
  PROVE  ControllerInv'
<1> USE DEF ControllerInv
<1>1. PICK h \in Keys : /\ at[w] = "in" /\ at' = [at EXCEPT ![w] = "holding"]
                        /\ held' = [held EXCEPT ![w] = h] /\ shutdown' = shutdown
                        /\ \A k \in Keys \ {h}, d \in Nat : Queued(k, d) => Queued(k, d)'
  BY TakeGives DEF Accept
<1>2. /\ step' = [step EXCEPT ![w] = "read"]
      /\ UNCHANGED <<exists, edits, listed, toSync, unseen, read, attempted, main, pods>>
  BY DEF Accept, GoTo, apiVars, watchVars, mainVars
<1>3. QueueInv' /\ Types'
  BY <1>2, TakeInv DEF Accept, Types, Busy
<1>4. step[w] = "idle"
  BY <1>1 DEF Hands
<1>5. /\ step'[w] = "read" /\ held'[w] = h /\ at'[w] = "holding"
      /\ \A b \in Consumers \ {w} : step'[b] = step[b] /\ held'[b] = held[b] /\ at'[b] = at[b]
  BY <1>1, <1>2 DEF Types, QueueInv, TypeOK
<1>6. Hands' /\ InOrder'
  BY <1>2, <1>5 DEF Hands, InOrder
<1>7. Followed'
  <2> SUFFICES ASSUME listed, ~shutdown, NEW k \in exists
               PROVE  Awaited(k)' /\ (attempted[k] # edits[k] => Noticed(k)')
    BY <1>1, <1>2 DEF Followed
  <2>1. CASE k = h
    BY <1>5, <2>1 DEF Awaited, Noticed, InHand, Busy
  <2>2. CASE k # h
    <3>1. \A d \in Nat : Queued(k, d) => Queued(k, d)'
      BY <1>1, <2>2 DEF Types
    <3>2. /\ InHand(k, Busy) => InHand(k, Busy)'
          /\ InHand(k, {"read", "retry"}) => InHand(k, {"read", "retry"})'
          /\ UpToDate(k) => UpToDate(k)'
      BY <1>2, <1>4, <1>5 DEF InHand, UpToDate, Busy
    <3>3. Awaited(k) /\ (attempted[k] # edits[k] => Noticed(k))
      BY DEF Followed
    <3> QED
      BY <1>2, <3>1, <3>2, <3>3, Delays DEF Awaited, Noticed
  <2> QED
    BY <2>1, <2>2
<1> QED
  BY <1>3, <1>6, <1>7

\* What w does with its key but for the queue: it reads the publication, or finds it gone.
LEMMA FetchInv ==
  ASSUME ControllerInv, NEW w \in Consumers, Fetch(w) \/ FetchGone(w) \/ FetchFails(w)
  PROVE  ControllerInv'
<1> USE DEF ControllerInv
<1>1. /\ step[w] = "read" /\ UNCHANGED <<queueVars, apiVars, watchVars, attempted, mainVars>>
      /\ step' \in {[step EXCEPT ![w] = s] : s \in {"run", "retry", "done"}}
      /\ \A b \in Consumers \ {w} : step'[b] = step[b]
  BY DEF Fetch, FetchGone, FetchFails, GoTo, Types
<1>2. held[w] \in Keys /\ \A b \in Consumers \ {w} : held[b] # held[w]
  BY <1>1, OwnHands
<1>3. \/ step'[w] = "run" /\ read' = [read EXCEPT ![w] = edits[held[w]]]
      \/ step'[w] = "retry" /\ read' = read
      \/ step'[w] = "done" /\ read' = read /\ held[w] \notin exists
  BY DEF Fetch, FetchGone, FetchFails, GoTo, Types
<1>4. read' \in [Consumers -> Nat] /\ \A b \in Consumers \ {w} : read'[b] = read[b]
  BY <1>2, <1>3 DEF Types
<1>5. QueueInv' /\ UNCHANGED <<held, at, shutdown, dirty, deadlines>>
  BY <1>1, StutterInv DEF queueVars
<1>6. UNCHANGED <<exists, edits, listed, toSync, unseen, attempted, main, pods>>
  BY <1>1 DEF apiVars, watchVars, mainVars
<1>7. Types'
  BY <1>1, <1>4, <1>6 DEF Types, Busy
<1>8. Hands'
  BY <1>1, <1>3, <1>5 DEF Hands
<1>9. InOrder'
  <2>1. ASSUME NEW b \in Consumers, step'[b] = "run"
        PROVE  attempted[held[b]] <= read'[b] /\ read'[b] <= edits[held[b]]
    <3>1. CASE b = w
      <4>1. read'[w] = edits[held[w]] /\ edits[held[w]] \in Nat
        BY <1>2, <1>3, <2>1, <3>1 DEF Types
      <4> QED
        BY <1>2, <3>1, <4>1 DEF InOrder
    <3>2. CASE b # w
      BY <1>1, <1>4, <2>1, <3>2 DEF InOrder
    <3> QED
      BY <3>1, <3>2
  <2> QED
    BY <1>5, <1>6, <2>1 DEF InOrder
<1>10. Followed'
  <2> SUFFICES ASSUME listed, ~shutdown, NEW k \in exists
               PROVE  Awaited(k)' /\ (attempted[k] # edits[k] => Noticed(k)')
    BY <1>5, <1>6 DEF Followed
  <2>1. Awaited(k) /\ (attempted[k] # edits[k] => Noticed(k))
    BY DEF Followed
  <2>2. \A d \in Nat : Queued(k, d) => Queued(k, d)'
    BY <1>5 DEF Queued
  <2>3. CASE k = held[w]
    <3>1. \/ step'[w] = "run" /\ read'[w] = edits'[k]
          \/ step'[w] = "retry"
      BY <1>3, <1>6, <2>3 DEF Types
    <3>2. InHand(k, Busy)' /\ (UpToDate(k)' \/ InHand(k, {"read", "retry"})')
      BY <1>5, <2>3, <3>1 DEF InHand, UpToDate, Busy
    <3> QED
      BY <3>2 DEF Awaited, Noticed
  <2>4. CASE k # held[w]
    <3>1. /\ InHand(k, Busy) => InHand(k, Busy)'
          /\ InHand(k, {"read", "retry"}) => InHand(k, {"read", "retry"})'
          /\ UpToDate(k) => UpToDate(k)'
      BY <1>1, <1>4, <1>5, <1>6, <2>4 DEF InHand, UpToDate
    <3> QED
      BY <1>6, <2>1, <2>2, <3>1, Delays DEF Awaited, Noticed
  <2> QED
    BY <2>3, <2>4
<1> QED
  BY <1>5, <1>7, <1>8, <1>9, <1>10

\* A reconcile that began with an older copy leaves the newer edit to be noticed: nobody
\* else can have been the one to have it.
LEMMA ReconcileInv ==
  ASSUME ControllerInv, NEW w \in Consumers, Reconcile(w)
  PROVE  ControllerInv'
<1> USE DEF ControllerInv
<1> DEFINE h == held[w]
<1>1. /\ step[w] = "run" /\ UNCHANGED <<queueVars, apiVars, watchVars, read, mainVars>>
      /\ step' \in [Consumers -> {"idle", "done"} \cup Busy]
      /\ step'[w] \in {"requeue", "retry"}
      /\ \A b \in Consumers \ {w} : step'[b] = step[b]
      /\ attempted' = [attempted EXCEPT ![h] = read[w]]
  BY DEF Reconcile, GoTo, Types, Busy
<1>2. h \in Keys /\ \A b \in Consumers \ {w} : held[b] # h
  BY <1>1, OwnHands
<1>3. /\ attempted' \in [Keys -> Nat] /\ attempted'[h] = read[w]
      /\ \A k \in Keys \ {h} : attempted'[k] = attempted[k]
  BY <1>1, <1>2 DEF Types
<1>4. attempted[h] <= read[w] /\ read[w] <= edits[h]
  BY <1>1 DEF InOrder
<1>5. QueueInv' /\ UNCHANGED <<held, at, shutdown, dirty, deadlines>>
  BY <1>1, StutterInv DEF queueVars
<1>6. UNCHANGED <<exists, edits, listed, toSync, unseen, read, main, pods>>
  BY <1>1 DEF apiVars, watchVars, mainVars
<1>7. Types'
  BY <1>1, <1>3, <1>6 DEF Types
<1>8. Hands'
  BY <1>1, <1>5 DEF Hands
<1>9. InOrder'
  <2>1. \A k \in Keys : attempted'[k] <= edits'[k]
    BY <1>3, <1>4, <1>6 DEF InOrder
  <2>2. ASSUME NEW b \in Consumers, step'[b] = "run"
        PROVE  attempted'[held[b]] <= read[b] /\ read[b] <= edits[held[b]]
    <3>1. b # w /\ step[b] = "run"
      BY <1>1, <2>2
    <3>2. held[b] \in Keys \ {h}
      BY <1>2, <3>1, OwnHands
    <3> QED
      BY <1>3, <3>1, <3>2 DEF InOrder
  <2> QED
    BY <1>5, <1>6, <2>1, <2>2 DEF InOrder
<1>10. Followed'
  <2> SUFFICES ASSUME listed, ~shutdown, NEW k \in exists
               PROVE  Awaited(k)' /\ (attempted'[k] # edits[k] => Noticed(k)')
    BY <1>5, <1>6 DEF Followed
  <2>1. Awaited(k) /\ (attempted[k] # edits[k] => Noticed(k))
    BY DEF Followed
  <2>2. \A d \in Nat : Queued(k, d) => Queued(k, d)'
    BY <1>5 DEF Queued
  <2>3. CASE k = h
    <3>1. Awaited(k)'
      BY <1>1, <1>5, <2>3 DEF Awaited, InHand, Busy
    <3>2. ASSUME attempted'[k] # edits[k]
          PROVE  Noticed(k)'
      <4>1. read[w] # edits[k] /\ attempted[k] # edits[k]
        <5>1. read[w] # edits[k]
          BY <1>3, <2>3, <3>2
        <5>2. read[w] \in Nat /\ edits[h] \in Nat /\ attempted[h] \in Nat
          BY <1>2 DEF Types
        <5> QED
          BY <1>4, <2>3, <5>1, <5>2
      <4>2. ~InHand(k, {"read", "retry"}) /\ ~UpToDate(k)
        BY <1>1, <1>2, <2>3, <4>1 DEF InHand, UpToDate
      <4> QED
        BY <1>6, <2>1, <2>2, <4>1, <4>2, Delays DEF Noticed
    <3> QED
      BY <3>1, <3>2
  <2>4. CASE k # h
    <3>1. attempted'[k] = attempted[k]
      BY <1>3, <2>4 DEF Types
    <3>2. /\ InHand(k, Busy) => InHand(k, Busy)'
          /\ InHand(k, {"read", "retry"}) => InHand(k, {"read", "retry"})'
          /\ UpToDate(k) => UpToDate(k)'
      BY <1>1, <1>5, <1>6, <2>4 DEF InHand, UpToDate
    <3> QED
      BY <1>6, <2>1, <2>2, <3>1, <3>2, Delays DEF Awaited, Noticed
  <2> QED
    BY <2>3, <2>4
<1> QED
  BY <1>5, <1>7, <1>8, <1>9, <1>10

\* Whatever came of the reconcile, its key is queued for later: in time for an edit if
\* nothing came of it.
LEMMA RequeueInv ==
  ASSUME ControllerInv, NEW w \in Consumers, Requeue(w) \/ Retry(w)
  PROVE  ControllerInv'
<1> USE DEF ControllerInv
<1>1. /\ step[w] \in {"requeue", "retry"} /\ step' = [step EXCEPT ![w] = "done"]
      /\ UNCHANGED <<exists, edits, listed, toSync, unseen, read, attempted, main, pods>>
  BY DEF Requeue, Retry, GoTo, apiVars, watchVars, mainVars
<1>2. PICK h \in Keys : held[w] = h /\ \A b \in Consumers \ {w} : held[b] # h
  BY <1>1, OwnHands
<1>3. PICK d \in 0 .. MaxDelay : AddAfter(h, d) /\ (step[w] = "retry" => d <= MaxBackoff)
  <2>1. CASE Requeue(w)
    BY <1>2, <2>1, ControllerAssumption, QueueAssumption DEF Requeue, ControllerAssumption
  <2>2. CASE Retry(w)
    BY <1>2, <2>2, Delays DEF Retry
  <2> QED
    BY <2>1, <2>2
<1>4. Calm /\ (~shutdown => Queued(h, d)') /\ QueueInv'
  BY <1>3, AddAfterCalm, AddAfterInv
<1>5. /\ step'[w] = "done" /\ \A b \in Consumers \ {w} : step'[b] = step[b]
      /\ Types'
  BY <1>1 DEF Types
<1>6. held' = held /\ shutdown' = shutdown
  BY <1>4 DEF Calm
<1>7. Hands' /\ InOrder'
  BY <1>1, <1>4, <1>5, <1>6 DEF Calm, Hands, InOrder
<1>8. Followed'
  <2> SUFFICES ASSUME listed, ~shutdown, NEW k \in exists
               PROVE  Awaited(k)' /\ (attempted[k] # edits[k] => Noticed(k)')
    BY <1>1, <1>6 DEF Followed
  <2>1. Awaited(k) /\ (attempted[k] # edits[k] => Noticed(k))
    BY DEF Followed
  <2>2. k \in Keys /\ \A c \in Nat : Queued(k, c) => Queued(k, c)'
    BY <1>4 DEF Calm, Types
  <2>3. CASE k = h
    <3>1. \A j \in DOMAIN deadlines' : deadlines'[j] \in Nat
      BY <1>4 DEF QueueInv, TypeOK
    <3>2. Queued(k, MaxDelay)' /\ (step[w] = "retry" => Queued(k, MaxBackoff)')
      BY <1>3, <1>4, <2>3, <3>1, Delays DEF Queued
    <3>3. step[w] = "requeue" => ~InHand(k, {"read", "retry"}) /\ ~UpToDate(k)
      BY <1>2, <2>3 DEF InHand, UpToDate
    <3> QED
      BY <1>1, <2>1, <2>2, <3>2, <3>3, Delays DEF Awaited, Noticed
  <2>4. CASE k # h
    <3>1. /\ InHand(k, Busy) => InHand(k, Busy)'
          /\ InHand(k, {"read", "retry"}) => InHand(k, {"read", "retry"})'
          /\ UpToDate(k) => UpToDate(k)'
      BY <1>1, <1>2, <1>5, <1>6, <2>4 DEF InHand, UpToDate
    <3> QED
      BY <1>1, <2>1, <2>2, <3>1, Delays DEF Awaited, Noticed
  <2> QED
    BY <2>3, <2>4
<1> QED
  BY <1>4, <1>5, <1>7, <1>8

\* w is through with its key, which is queued by now if it has to be.
LEMMA ReleaseInv ==
  ASSUME ControllerInv, NEW w \in Consumers, Release(w)
  PROVE  ControllerInv'
<1> USE DEF ControllerInv
<1>1. /\ step[w] = "done" /\ step' = [step EXCEPT ![w] = "idle"]
      /\ UNCHANGED <<exists, edits, listed, toSync, unseen, read, attempted, main, pods>>
  BY DEF Release, GoTo, apiVars, watchVars, mainVars
<1>2. /\ QueueInv' /\ shutdown' = shutdown
      /\ at'[w] # "holding"
      /\ \A b \in Consumers \ {w} : held'[b] = held[b] /\ (at'[b] = "holding" <=> at[b] = "holding")
      /\ \A k \in Keys, d \in Nat : Queued(k, d) => Queued(k, d)'
  BY DoneInv, DoneFrees DEF Release, QueueInv, TypeOK
<1>3. /\ step'[w] = "idle" /\ \A b \in Consumers \ {w} : step'[b] = step[b]
      /\ Types'
  BY <1>1 DEF Types
<1>4. Hands' /\ InOrder'
  BY <1>1, <1>2, <1>3 DEF Hands, InOrder
<1>5. Followed'
  <2> SUFFICES ASSUME listed, ~shutdown, NEW k \in exists
               PROVE  Awaited(k)' /\ (attempted[k] # edits[k] => Noticed(k)')
    BY <1>1, <1>2 DEF Followed
  <2>1. Awaited(k) /\ (attempted[k] # edits[k] => Noticed(k))
    BY DEF Followed
  <2>2. \A d \in Nat : Queued(k, d) => Queued(k, d)'
    BY <1>2 DEF Types
  <2>3. /\ InHand(k, Busy) => InHand(k, Busy)'
        /\ InHand(k, {"read", "retry"}) => InHand(k, {"read", "retry"})'
        /\ UpToDate(k) => UpToDate(k)'
    BY <1>1, <1>2, <1>3 DEF InHand, UpToDate, Busy
  <2> QED
    BY <1>1, <2>1, <2>2, <2>3, Delays DEF Awaited, Noticed
<1> QED
  BY <1>2, <1>3, <1>4, <1>5

-----------------------------------------------------------------------------
LEMMA ControllerInitInv == Init => ControllerInv
<1> SUFFICES ASSUME Init PROVE ControllerInv
  OBVIOUS
<1>1. QueueInv
  BY InitInv DEF Init
<1>2. Types
  BY DEF Init, Types
<1>3. Hands /\ InOrder /\ Followed
  BY DEF Init, QueueInit, Hands, InOrder, Followed
<1> QED
  BY <1>1, <1>2, <1>3 DEF ControllerInv

LEMMA ControllerStepInv == ControllerInv /\ [Next]_vars => ControllerInv'
<1> SUFFICES ASSUME ControllerInv, [Next]_vars PROVE ControllerInv'
  OBVIOUS
<1>1. ASSUME NEW w \in Consumers, Work(w)
      PROVE  ControllerInv'
  BY <1>1, CalmSteps, AcceptInv, FetchInv, ReconcileInv, RequeueInv, ReleaseInv DEF Work
<1>2. ASSUME NEW k \in Keys, Write(k) \/ Delete(k) \/ Sync(k) \/ Deliver(k) \/ Nudge(k)
      PROVE  ControllerInv'
  BY <1>2, CalmSteps, ChangeInv
<1>3. CASE List \/ Expire \/ Signal \/ CloseQueue \/ Exit \/ NewPod \/ Pass
  BY <1>3, CalmSteps, FreshInv
<1>4. CASE UNCHANGED vars
  <2>1. QueueInv' /\ Calm
    BY <1>4, StutterInv DEF ControllerInv, vars, queueVars, Calm, Queued
  <2>2. Types' /\ Kept /\ UNCHANGED <<apiVars, workVars>>
    BY <1>4, <2>1 DEF ControllerInv, vars, apiVars, watchVars, workVars, mainVars, Types, Kept, Calm
  <2> QED
    BY <2>1, <2>2, CalmInv
<1> QED
  BY <1>1, <1>2, <1>3, <1>4 DEF Next

\* In every run of the controller (controller.py:509-617), over any number of pods: the
\* queue is sound, a busy worker is one that holds a key, reconciles of a publication
\* read ever newer copies, and each publication the watch knows of is followed up.
THEOREM ControllerInvariant == Spec => []ControllerInv
BY ControllerInitInv, ControllerStepInv, PTL DEF Spec

\* The state of queue, watch, workers and main has its types (controller.py, workqueue.py).
THEOREM ControllerTypes == Spec => []ControllerTypeOK
<1>1. ControllerInv => ControllerTypeOK
  <2> SUFFICES ASSUME ControllerInv PROVE ControllerTypeOK
    OBVIOUS
  <2>1. \A w \in Consumers : step[w] # "idle" => held[w] \in Keys
    BY OwnHands
  <2> QED
    BY <2>1 DEF ControllerInv, QueueInv, Types, Busy, ControllerTypeOK
<1> QED
  BY <1>1, ControllerInvariant, PTL

\* Every outcome of a reconcile but "gone" requeues its key (controller.py:588-613), and no
\* race with the watch, the queue or another worker loses it: each publication is waited
\* for somewhere until the queue is shut down.
THEOREM NothingForgotten == Spec => []NotForgotten
<1>1. ControllerInv => NotForgotten
  BY DEF ControllerInv, Followed, Awaited, Queued, Busy, NotForgotten
<1> QED
  BY <1>1, ControllerInvariant, PTL

\* An edit is never left for the resync interval, also when it is made while its
\* publication is being reconciled (workqueue.py:13-17, controller.py:588-613).
THEOREM EditsNoticed == Spec => []EditNoticed
<1>1. ControllerInv => EditNoticed
  <2> SUFFICES ASSUME ControllerInv, listed, ~shutdown, NEW k \in exists, attempted[k] # edits[k]
               PROVE  \/ k \in dirty \cup toSync \cup unseen
                      \/ /\ k \in DOMAIN deadlines
                         /\ deadlines[k] <= MaxBackoff \/ deadlines[k] <= StartupSpread
                      \/ InHand(k, {"read", "retry"})
                      \/ UpToDate(k)
    BY DEF EditNoticed, UpToDate
  <2>1. Noticed(k)
    BY DEF ControllerInv, Followed
  <2> QED
    BY <2>1 DEF Noticed, Queued
<1> QED
  BY <1>1, ControllerInvariant, PTL

\* Two workers never reconcile the same publication at once (workqueue.py:11-13), however
\* the watch, the retries and the resync queue it.
THEOREM ReconcilesSerialised == Spec => []Serialised
<1>1. ControllerInv => Serialised
  BY DEF ControllerInv, QueueInv
<1> QED
  BY <1>1, ControllerInvariant, PTL

-----------------------------------------------------------------------------
(* What the controller makes of its watch and of its queue. *)

\* While main runs the queue is open.
Open == main = "running" => ~shutdown

LEMMA OpenInv ==
  ASSUME Open, [Next]_vars
  PROVE  Open'
BY DEF Open, Next, Write, Delete, Change, List, Sync, Deliver, Expire, Nudge, Work, Poll, Await,
       Accept, Fetch, FetchGone, FetchFails, Reconcile, Requeue, Retry, Release, Signal, CloseQueue,
       Exit, NewPod, Pass, AddAfter, Add, Delay, Enter, FindNone, TurnAway, Wake, Take, Done, Tick,
       mainVars, queueVars, vars

\* A key added, now or later, is wanted, and no other is less or more so.
LEMMA AddWants ==
  ASSUME QueueInv, NEW k \in Keys, NEW d \in 0 .. MaxDelay, AddAfter(k, d)
  PROVE  Wanted' = Wanted \cup {k}
<1>1. CASE Add(k)
  <2>1. CASE AddFresh(k)
    <3>1. DOMAIN deadlines' = DOMAIN deadlines \ {k}
      BY <1>1, <2>1, WithoutInv DEF Add, AddFresh
    <3> QED
      BY <1>1, <2>1, <3>1 DEF Add, AddFresh, Wanted
  <2>2. CASE (shutdown \/ k \in dirty) /\ UNCHANGED <<queue, dirty, deadlines>>
    BY <1>1, <2>2 DEF Add, Wanted
  <2> QED
    BY <1>1, <2>1, <2>2 DEF Add
<1>2. CASE Delay(k, d)
  BY <1>2 DEF Delay, Wanted
<1>3. CASE /\ shutdown \/ (k \in DOMAIN deadlines /\ deadlines[k] <= d)
           /\ UNCHANGED queueVars
  BY <1>3 DEF queueVars, Wanted
<1> QED
  BY <1>1, <1>2, <1>3 DEF AddAfter

\* Only a key that is taken may be wanted no more.
LEMMA TakeWants ==
  ASSUME QueueInv, NEW w \in Consumers, Take(w)
  PROVE  \E k \in Keys : Wanted' \in {Wanted, Wanted \ {k}}
<1>1. PICK h : dirty' = (dirty \cup Due) \ {h} /\ held' = [held EXCEPT ![w] = h]
  BY DEF Take
<1>2. DOMAIN deadlines' = DOMAIN deadlines \ Due /\ shutdown' = shutdown /\ ~shutdown
  BY PromoteInv DEF Take
<1>3. h \in Keys
  <2>1. PICK k \in Keys : held' = [held EXCEPT ![w] = k]
    BY TakeGives
  <2> QED
    BY <1>1, <2>1 DEF QueueInv, TypeOK
<1>4. Due \subseteq DOMAIN deadlines
  BY DEF Due
<1>5. CASE h \in DOMAIN deadlines'
  <2>1. Wanted' = Wanted
    BY <1>1, <1>2, <1>4, <1>5 DEF Wanted
  <2> QED
    BY <1>3, <2>1
<1>6. CASE h \notin DOMAIN deadlines'
  <2>1. Wanted' = Wanted \ {h}
    BY <1>1, <1>2, <1>4, <1>6 DEF Wanted
  <2> QED
    BY <1>3, <2>1
<1> QED
  BY <1>3, <1>5, <1>6

LEMMA IdleWants ==
  ASSUME QueueInv,
         \/ Tick \/ UNCHANGED queueVars
         \/ \E w \in Consumers : Enter(w) \/ FindNone(w) \/ TurnAway(w) \/ Wake(w) \/ Done(w)
  PROVE  Wanted' = Wanted
<1>1. ASSUME NEW w \in Consumers, FindNone(w)
      PROVE  Wanted' = Wanted
  <2>1. DOMAIN deadlines' = DOMAIN deadlines \ Due /\ Due \subseteq DOMAIN deadlines
    BY <1>1, PromoteInv DEF FindNone, Due
  <2> QED
    BY <1>1, <2>1 DEF FindNone, Wanted
<1>2. CASE Tick
  BY <1>2 DEF Tick, Wanted
<1>3. ASSUME NEW w \in Consumers, Enter(w) \/ TurnAway(w) \/ Wake(w) \/ Done(w)
      PROVE  Wanted' = Wanted
  <2>1. UNCHANGED <<dirty, deadlines, shutdown>>
    BY <1>3 DEF Enter, TurnAway, Wake, Done
  <2> QED
    BY <2>1 DEF Wanted
<1>4. CASE UNCHANGED queueVars
  BY <1>4 DEF queueVars, Wanted
<1> QED
  BY <1>1, <1>2, <1>3, <1>4

\* What the controller has of a watch (Controller's List, Sync, Deliver, Expire and Nudge)
\* stays within Feed, as what _Watcher does (controller.py:192-371) does by WatchKeepsFeed: a
\* key the watch passes on is in the queue, or delayed, until a worker takes it.
THEOREM ControllerKeepsFeed == Spec => KeepsFeed
<1>1. Init => Watched!Init /\ Open
  BY DEF Init, QueueInit, Wanted, Open, Watched!Init
<1>2. ControllerInv /\ Open /\ [Next]_vars => [Watched!Next]_Watched!vars
  <2> SUFFICES ASSUME ControllerInv, Open, [Next]_vars
               PROVE  Watched!Next \/ UNCHANGED Watched!vars
    OBVIOUS
  <2> USE DEF ControllerInv
  <2>1. ASSUME NEW k \in Keys, Write(k) \/ Delete(k)
        PROVE  Watched!Change(k)
    BY <2>1, IdleWants DEF Write, Delete, Change, Watched!Change
  <2>2. ASSUME NEW k \in Keys, Sync(k)
        PROVE  Watched!Sync(k)
    <3>1. Wanted' = Wanted \cup {k}
      BY <2>2, AddWants, Delays DEF Sync
    <3> QED
      BY <2>2, <3>1 DEF Sync, apiVars, Watched!Sync
  <2>3. ASSUME NEW k \in Keys, Deliver(k) \/ Nudge(k)
        PROVE  Watched!Deliver(k) \/ Watched!Repeat(k)
    <3>1. AddAfter(k, 0) /\ 0 \in 0 .. MaxDelay
      BY <2>3, Delays DEF Deliver, Nudge, AddAfter
    <3>2. Wanted' = Wanted \cup {k}
      BY <3>1, AddWants
    <3> QED
      BY <2>3, <3>2 DEF Deliver, Nudge, apiVars, watchVars, Watched!Deliver, Watched!Repeat
  <2>4. CASE List \/ Expire
    <3>1. Wanted' = Wanted
      BY <2>4, IdleWants DEF List, Expire
    <3> QED
      BY <2>4, <3>1 DEF List, Expire, apiVars, Watched!List, Watched!Lose, Watched!Next
  <2>5. CASE CloseQueue
    <3>1. Wanted' = Keys
      BY <2>5 DEF CloseQueue, Shutdown, Wanted
    <3> QED
      BY <2>5, <3>1 DEF CloseQueue, apiVars, watchVars, Watched!Close, Watched!Next
  <2>6. CASE NewPod
    <3>1. Wanted' = {}
      BY <2>6 DEF NewPod, Wanted
    <3> QED
      BY <2>6, <3>1 DEF NewPod, apiVars, Watched!Restart, Watched!Next
  <2>7. CASE Signal \/ Exit \/ Pass \/ UNCHANGED vars
    <3>1. UNCHANGED <<apiVars, watchVars>> /\ Wanted' = Wanted
      BY <2>7, IdleWants DEF Signal, Exit, Pass, vars
    <3> QED
      BY <3>1 DEF apiVars, watchVars, Watched!vars
  <2>8. ASSUME NEW w \in Consumers, Work(w)
        PROVE  Watched!Next \/ UNCHANGED Watched!vars
    <3>1. UNCHANGED <<apiVars, watchVars>>
      BY <2>8 DEF Work, Poll, Await, Accept, Fetch, FetchGone, FetchFails, Reconcile, Requeue,
                  Retry, Release
    <3>2. CASE Accept(w)
      <4>1. \E k \in Keys : Wanted' \in {Wanted, Wanted \ {k}}
        BY <3>2, TakeWants DEF Accept
      <4> QED
        BY <3>1, <4>1 DEF apiVars, watchVars, Watched!Take, Watched!Next, Watched!vars
    <3>3. CASE Requeue(w) \/ Retry(w)
      <4>1. PICK k \in Keys : k = held[w]
        BY <3>3, OwnHands DEF Requeue, Retry
      <4>2. PICK d \in 0 .. MaxDelay : AddAfter(k, d)
        <5>1. CASE Requeue(w)
          BY <4>1, <5>1, Delays, ControllerAssumption DEF Requeue
        <5>2. CASE Retry(w)
          BY <4>1, <5>2, Delays, ControllerAssumption DEF Retry
        <5> QED
          BY <3>3, <5>1, <5>2
      <4>3. Wanted' = Wanted \cup {k}
        BY <4>2, AddWants
      <4> QED
        BY <3>1, <4>3 DEF apiVars, watchVars, Watched!Repeat, Watched!Next
    <3>4. CASE ~(Accept(w) \/ Requeue(w) \/ Retry(w))
      <4>1. Wanted' = Wanted
        BY <2>8, <3>4, IdleWants
           DEF Work, Poll, Await, Fetch, FetchGone, FetchFails, Reconcile, Release
      <4> QED
        BY <3>1, <4>1 DEF apiVars, watchVars, Watched!vars
    <3> QED
      BY <3>2, <3>3, <3>4
  <2> QED
    BY <2>1, <2>2, <2>3, <2>4, <2>5, <2>6, <2>7, <2>8 DEF Next, Watched!Next
<1>3. Open /\ [Next]_vars => Open'
  BY OpenInv
<1> QED
  BY <1>1, <1>2, <1>3, ControllerInvariant, PTL DEF Spec, KeepsFeed, Watched!Spec

\* Within the life of a pod the workers, the watch and main use the queue through its
\* methods only, so all that KeyedWork promises of it (workqueue.py:6-20) holds of it here.
THEOREM QueueAsPromised == Spec => [][NewPod \/ Promise!Next]_(Promise!vars)
<1>1. ControllerInv /\ [Next]_vars => [NewPod \/ Promise!Next]_Promise!vars
  <2> SUFFICES ASSUME ControllerInv, [Next]_vars, ~NewPod
               PROVE  Promise!Next \/ UNCHANGED Promise!vars
    OBVIOUS
  <2>1. QueueNext \/ UNCHANGED queueVars
    <3>1. ASSUME NEW w \in Consumers, Work(w)
          PROVE  QueueNext \/ UNCHANGED queueVars
      <4>1. CASE Requeue(w) \/ Retry(w)
        <5>1. held[w] \in Keys
          BY <4>1, OwnHands DEF Requeue, Retry
        <5>2. \E d \in 0 .. MaxDelay : AddAfter(held[w], d)
          BY <4>1, Delays, ControllerAssumption DEF Requeue, Retry, ControllerAssumption
        <5> QED
          BY <5>1, <5>2 DEF QueueNext, Produce
      <4>2. CASE Poll(w) \/ Await(w) \/ Accept(w) \/ Release(w)
        BY <4>2 DEF Poll, Await, Accept, Release, QueueNext, Consume
      <4>3. CASE Fetch(w) \/ FetchGone(w) \/ FetchFails(w) \/ Reconcile(w)
        BY <4>3 DEF Fetch, FetchGone, FetchFails, Reconcile
      <4> QED
        BY <3>1, <4>1, <4>2, <4>3 DEF Work
    <3>2. ASSUME NEW k \in Keys, Sync(k) \/ Deliver(k) \/ Nudge(k)
          PROVE  QueueNext
      <4>1. \E d \in 0 .. MaxDelay : AddAfter(k, d)
        BY <3>2, Delays DEF Sync, Deliver, Nudge, AddAfter
      <4> QED
        BY <4>1 DEF QueueNext, Produce
    <3>3. ASSUME NEW k \in Keys, Write(k) \/ Delete(k)
          PROVE  UNCHANGED queueVars
      BY <3>3 DEF Write, Delete, Change
    <3>4. CASE List \/ Expire \/ Signal \/ Exit \/ UNCHANGED vars
      BY <3>4 DEF List, Expire, Signal, Exit, vars
    <3>5. CASE CloseQueue \/ Pass
      BY <3>5 DEF CloseQueue, Pass, QueueNext
    <3> QED
      BY <3>1, <3>2, <3>3, <3>4, <3>5 DEF Next
  <2> QED
    BY <2>1, StepPromise DEF ControllerInv
<1> QED
  BY <1>1, ControllerInvariant, PTL DEF Spec

=============================================================================
