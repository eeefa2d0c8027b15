--------------------------- MODULE WorkQueueProofs ---------------------------
(***************************************************************************)
(* The safety properties of WorkQueue for every set of keys and consumers  *)
(* and every bound on delays, and that it keeps KeyedWork's promise.       *)
(***************************************************************************)
EXTENDS WorkQueue, TLAPS, SequenceTheorems, FiniteSetTheorems

(***************************************************************************)
(* Sequences without repetition.                                           *)
(***************************************************************************)

\* Appending a new key adds it, once.
LEMMA AppendExact ==
  ASSUME NEW S, NEW s \in Seq(S), NEW e \in S
  PROVE  /\ Append(s, e) \in Seq(S)
         /\ Range(Append(s, e)) = Range(s) \cup {e}
         /\ IsInjective(s) /\ e \notin Range(s) => IsInjective(Append(s, e))
<1>1. /\ Append(s, e) \in Seq(S)
      /\ Len(Append(s, e)) = Len(s) + 1
      /\ \A i \in 1 .. Len(s) : Append(s, e)[i] = s[i]
      /\ Append(s, e)[Len(s) + 1] = e
      /\ DOMAIN s = 1 .. Len(s)
      /\ DOMAIN Append(s, e) = 1 .. Len(s) + 1
      /\ Len(s) \in Nat
  BY AppendProperties
<1>2. Range(Append(s, e)) = Range(s) \cup {e}
  BY <1>1 DEF Range
<1>3. ASSUME IsInjective(s), e \notin Range(s)
      PROVE  IsInjective(Append(s, e))
  BY <1>1, <1>3 DEF IsInjective, Range
<1> QED
  BY <1>1, <1>2, <1>3

\* Taking the head of a sequence without repetition removes it.
LEMMA TailExact ==
  ASSUME NEW S, NEW s \in Seq(S), s # <<>>, IsInjective(s)
  PROVE  /\ Tail(s) \in Seq(S)
         /\ Head(s) \in Range(s)
         /\ Range(Tail(s)) = Range(s) \ {Head(s)}
         /\ IsInjective(Tail(s))
<1>1. /\ Tail(s) \in Seq(S)
      /\ Len(Tail(s)) = Len(s) - 1
      /\ \A i \in 1 .. Len(Tail(s)) : Tail(s)[i] = s[i + 1]
      /\ Head(s) = s[1]
      /\ DOMAIN s = 1 .. Len(s)
      /\ DOMAIN Tail(s) = 1 .. Len(s) - 1
      /\ Len(s) \in Nat \ {0}
  BY HeadTailProperties, EmptySeq
<1>2. \A i, j \in 1 .. Len(s) : s[i] = s[j] => i = j
  BY <1>1 DEF IsInjective
<1>3. Range(Tail(s)) \subseteq Range(s) \ {Head(s)}
  BY <1>1, <1>2 DEF Range
<1>4. ASSUME NEW i \in 1 .. Len(s), s[i] # Head(s)
      PROVE  s[i] \in Range(Tail(s))
  <2>1. i - 1 \in 1 .. Len(Tail(s)) /\ Tail(s)[i - 1] = s[i]
    BY <1>1, <1>4
  <2> QED
    BY <1>1, <2>1 DEF Range
<1>5. IsInjective(Tail(s))
  BY <1>1, <1>2 DEF IsInjective
<1> QED
  BY <1>1, <1>3, <1>4, <1>5 DEF Range

\* A function on an initial segment of the positive numbers is a sequence.
LEMMA FunctionIsSeq ==
  ASSUME NEW S, NEW n \in Nat, NEW s \in [1 .. n -> S]
  PROVE  s \in Seq(S)
OBVIOUS

\* Joining two sequences without repetition or common element.
LEMMA ConcatExact ==
  ASSUME NEW S, NEW s \in Seq(S), NEW t \in Seq(S)
  PROVE  /\ s \o t \in Seq(S)
         /\ Range(s \o t) = Range(s) \cup Range(t)
         /\ IsInjective(s) /\ IsInjective(t) /\ Range(s) \cap Range(t) = {}
              => IsInjective(s \o t)
<1>1. /\ s \o t \in Seq(S)
      /\ Len(s \o t) = Len(s) + Len(t)
      /\ \A i \in 1 .. Len(s) + Len(t) :
           (s \o t)[i] = IF i <= Len(s) THEN s[i] ELSE t[i - Len(s)]
      /\ DOMAIN s = 1 .. Len(s)
      /\ DOMAIN t = 1 .. Len(t)
      /\ DOMAIN (s \o t) = 1 .. Len(s) + Len(t)
      /\ Len(s) \in Nat /\ Len(t) \in Nat
  BY ConcatProperties
<1>2. ASSUME NEW i \in 1 .. Len(t)
      PROVE  i + Len(s) \in 1 .. Len(s) + Len(t) /\ (s \o t)[i + Len(s)] = t[i]
  BY <1>1, <1>2
<1>3. ASSUME NEW i \in 1 .. Len(s)
      PROVE  i \in 1 .. Len(s) + Len(t) /\ (s \o t)[i] = s[i]
  BY <1>1, <1>3
<1>4. Range(s \o t) \subseteq Range(s) \cup Range(t)
  <2> SUFFICES ASSUME NEW i \in 1 .. Len(s) + Len(t)
               PROVE  (s \o t)[i] \in Range(s) \cup Range(t)
    BY <1>1 DEF Range
  <2>1. CASE i <= Len(s)
    BY <1>1, <2>1 DEF Range
  <2>2. CASE ~(i <= Len(s))
    <3>1. i - Len(s) \in 1 .. Len(t)
      BY <1>1, <2>2
    <3> QED
      BY <1>1, <2>2, <3>1 DEF Range
  <2> QED
    BY <2>1, <2>2
<1>5. Range(s) \cup Range(t) \subseteq Range(s \o t)
  <2>1. Range(s) \subseteq Range(s \o t)
    BY <1>1, <1>3 DEF Range
  <2>2. \A i \in 1 .. Len(t) : t[i] \in Range(s \o t)
    BY <1>1, <1>2 DEF Range
  <2>3. Range(t) \subseteq Range(s \o t)
    BY <1>1, <2>2 DEF Range
  <2> QED
    BY <2>1, <2>3
<1>6. ASSUME IsInjective(s), IsInjective(t), Range(s) \cap Range(t) = {},
             NEW i \in 1 .. Len(s) + Len(t), NEW j \in 1 .. Len(s) + Len(t),
             (s \o t)[i] = (s \o t)[j]
      PROVE  i = j
  <2>1. CASE i <= Len(s) /\ j <= Len(s)
    <3>1. i \in DOMAIN s /\ j \in DOMAIN s /\ s[i] = s[j]
      BY <1>1, <1>6, <2>1
    <3> QED
      BY <1>6, <3>1 DEF IsInjective
  <2>2. CASE ~(i <= Len(s)) /\ ~(j <= Len(s))
    <3>1. i - Len(s) \in DOMAIN t /\ j - Len(s) \in DOMAIN t /\ t[i - Len(s)] = t[j - Len(s)]
      BY <1>1, <1>6, <2>2
    <3>2. i - Len(s) = j - Len(s)
      BY <1>6, <3>1 DEF IsInjective
    <3> QED
      BY <1>1, <3>2
  <2>3. ASSUME NEW m \in 1 .. Len(s) + Len(t), NEW n \in 1 .. Len(s) + Len(t),
               m <= Len(s), ~(n <= Len(s)), (s \o t)[m] = (s \o t)[n]
        PROVE  FALSE
    <3>1. m \in DOMAIN s /\ n - Len(s) \in DOMAIN t /\ s[m] = t[n - Len(s)]
      BY <1>1, <2>3
    <3> QED
      BY <1>6, <3>1 DEF Range
  <2> QED
    BY <1>6, <2>1, <2>2, <2>3
<1> QED
  BY <1>1, <1>4, <1>5, <1>6 DEF IsInjective

(***************************************************************************)
(* The inductive invariant.                                                *)
(***************************************************************************)

\* The queue starts with nothing wanted, delayed or held.
LEMMA InitInv == QueueInit => QueueInv
<1> SUFFICES ASSUME QueueInit PROVE QueueInv
  OBVIOUS
<1>1. queue \in Seq(Keys) /\ Range(queue) = {} /\ IsInjective(queue)
  BY EmptySeq DEF QueueInit, Range, IsInjective
<1>2. TypeOK
  BY <1>1 DEF QueueInit, TypeOK
<1> QED
  BY <1>1, <1>2 DEF QueueInit, QueueInv, ProcessingHeld, Serialised, QueueExact,
                    NoDeadlineStranded

\* What a step that leaves the holders alone may do to where consumers are.
LEMMA NotifyInv ==
  ASSUME QueueInv, UNCHANGED <<processing, held>>, Notify \/ UNCHANGED at
  PROVE  /\ at' \in [Consumers -> {"out", "in", "asleep", "holding"}]
         /\ ProcessingHeld' /\ Serialised'
BY DEF QueueInv, TypeOK, ProcessingHeld, Serialised, Notify

LEMMA WithoutInv ==
  ASSUME QueueInv, NEW S, deadlines' = Without(S), waiting' = waiting
  PROVE  /\ DOMAIN deadlines' = DOMAIN deadlines \ S
         /\ deadlines' \in [DOMAIN deadlines' -> 0 .. MaxDelay]
         /\ NoDeadlineStranded'
BY DEF QueueInv, TypeOK, NoDeadlineStranded, Without, Restrict

LEMMA AddInv ==
  ASSUME QueueInv, NEW k \in Keys, Add(k)
  PROVE  QueueInv'
<1>1. ProcessingHeld' /\ Serialised' /\ at' \in [Consumers -> {"out", "in", "asleep", "holding"}]
  BY NotifyInv DEF Add
<1>2. CASE AddFresh(k)
  <2>1. /\ DOMAIN deadlines' = DOMAIN deadlines \ {k}
        /\ deadlines' \in [DOMAIN deadlines' -> 0 .. MaxDelay]
        /\ NoDeadlineStranded'
    BY <1>2, WithoutInv DEF Add, AddFresh
  <2>2. queue' \in Seq(Keys) /\ QueueExact'
    <3>1. CASE k \in processing
      BY <1>2, <3>1 DEF Add, AddFresh, QueueInv, TypeOK, QueueExact
    <3>2. CASE k \notin processing
      <4>1. k \notin Range(queue)
        BY <1>2 DEF AddFresh, QueueInv, QueueExact
      <4> QED
        BY <1>2, <3>2, <4>1, AppendExact DEF Add, AddFresh, QueueInv, TypeOK, QueueExact
    <3> QED
      BY <3>1, <3>2
  <2> QED
    BY <1>1, <1>2, <2>1, <2>2 DEF Add, AddFresh, QueueInv, TypeOK
<1>3. CASE UNCHANGED <<queue, dirty, deadlines>>
  BY <1>1, <1>3 DEF Add, QueueInv, TypeOK, QueueExact, NoDeadlineStranded
<1> QED
  BY <1>2, <1>3 DEF Add

LEMMA AddAfterInv ==
  ASSUME QueueInv, NEW k \in Keys, NEW d \in 0 .. MaxDelay, AddAfter(k, d)
  PROVE  QueueInv'
<1>1. CASE Delay(k, d)
  <2>1. /\ ProcessingHeld' /\ Serialised'
        /\ at' \in [Consumers -> {"out", "in", "asleep", "holding"}]
    BY <1>1, NotifyInv DEF Delay
  <2>2. NoDeadlineStranded'
    BY <1>1 DEF Delay, QueueInv, NoDeadlineStranded
  <2>3. TypeOK'
    BY <1>1, <2>1 DEF Delay, QueueInv, TypeOK
  <2>4. QueueExact'
    BY <1>1 DEF Delay, QueueInv, QueueExact
  <2> QED
    BY <2>1, <2>2, <2>3, <2>4 DEF QueueInv
<1>2. CASE UNCHANGED queueVars
  BY <1>2 DEF queueVars, QueueInv, TypeOK, ProcessingHeld, Serialised, QueueExact,
              NoDeadlineStranded
<1> QED
  BY <1>1, <1>2, AddInv DEF AddAfter

\* A promotion is a sequence without repetition of the due keys that are new.
LEMMA PromotedExact ==
  ASSUME QueueInv, NEW s \in Promoted
  PROVE  /\ s \in Seq(Keys)
         /\ Range(s) = Due \ (dirty \cup processing)
         /\ IsInjective(s)
<1> DEFINE P == Due \ (dirty \cup processing)
<1>1. P \subseteq Keys
  BY DEF Due, QueueInv, TypeOK
<1>2. Cardinality(P) \in Nat
  BY <1>1, QueueAssumption, FS_Subset, FS_CardinalityType
<1>3. s \in [1 .. Cardinality(P) -> P] /\ IsInjective(s) /\ Range(s) = P
  BY DEF Promoted
<1>4. s \in Seq(Keys)
  <2> HIDE DEF P
  <2>1. s \in Seq(P)
    BY <1>2, <1>3, FunctionIsSeq
  <2> QED
    BY <1>1, <2>1, SeqMonotonic
<1> QED
  BY <1>3, <1>4

\* Promotion keeps the entries of the keys it leaves delayed.
LEMMA PromoteInv ==
  ASSUME QueueInv, Promote
  PROVE  /\ DOMAIN deadlines' = DOMAIN deadlines \ Due
         /\ deadlines' \in [DOMAIN deadlines' -> 0 .. MaxDelay]
         /\ waiting' \subseteq (0 .. MaxDelay) \X Keys
         /\ NoDeadlineStranded'
<1>1. /\ DOMAIN deadlines' = DOMAIN deadlines \ Due
      /\ \A k \in DOMAIN deadlines' : deadlines'[k] = deadlines[k]
      /\ deadlines' \in [DOMAIN deadlines' -> 0 .. MaxDelay]
      /\ waiting' \subseteq (0 .. MaxDelay) \X Keys
  BY DEF Promote, Without, Restrict, QueueInv, TypeOK
<1>2. ASSUME NEW k \in DOMAIN deadlines'
      PROVE  <<deadlines'[k], k>> \in waiting'
  <2>1. <<deadlines[k], k>> \in waiting /\ deadlines[k] \in 0 .. MaxDelay
    BY <1>1, <1>2 DEF QueueInv, TypeOK, NoDeadlineStranded
  <2>2. deadlines[k] # 0
    BY <1>1, <1>2, <2>1 DEF Due
  <2> QED
    BY <1>1, <1>2, <2>1, <2>2, QueueAssumption DEF Promote
<1> QED
  BY <1>1, <1>2 DEF NoDeadlineStranded

LEMMA TakeInv ==
  ASSUME QueueInv, NEW c \in Consumers, Take(c)
  PROVE  QueueInv'
<1>1. PICK s \in Promoted :
        /\ queue \o s # <<>>
        /\ queue' = Tail(queue \o s)
        /\ dirty' = (dirty \cup Due) \ {Head(queue \o s)}
        /\ processing' = processing \cup {Head(queue \o s)}
        /\ held' = [held EXCEPT ![c] = Head(queue \o s)]
  BY DEF Take
<1> DEFINE ready == queue \o s
           k == Head(ready)
<1>2. s \in Seq(Keys) /\ Range(s) = Due \ (dirty \cup processing) /\ IsInjective(s)
  BY PromotedExact
<1>3. /\ ready \in Seq(Keys)
      /\ Range(ready) = (dirty \cup Due) \ processing
      /\ IsInjective(ready)
  <2>1. queue \in Seq(Keys) /\ Range(queue) = dirty \ processing /\ IsInjective(queue)
    BY DEF QueueInv, TypeOK, QueueExact
  <2>2. Range(queue) \cap Range(s) = {}
    BY <1>2, <2>1
  <2>3. ready \in Seq(Keys) /\ Range(ready) = Range(queue) \cup Range(s) /\ IsInjective(ready)
    BY <1>2, <2>1, <2>2, ConcatExact
  <2> QED
    BY <1>2, <2>1, <2>3
<1>4. /\ Tail(ready) \in Seq(Keys)
      /\ k \in Range(ready)
      /\ Range(Tail(ready)) = Range(ready) \ {k}
      /\ IsInjective(Tail(ready))
  BY <1>1, <1>3, TailExact
<1>5. k \in Keys \ processing
  BY <1>3, <1>4 DEF Due, QueueInv, TypeOK
<1>6. QueueExact'
  BY <1>1, <1>3, <1>4 DEF QueueExact
<1>7. at[c] = "in" /\ at' = [at EXCEPT ![c] = "holding"] /\ shutdown' = shutdown
  BY DEF Take
<1>8. held[c] = NoKey /\ held \in [Consumers -> Keys \cup {NoKey}]
  BY <1>7 DEF QueueInv, TypeOK, ProcessingHeld
<1>9. ProcessingHeld'
  <2>1. \A b \in Consumers \ {c} : held'[b] = held[b] /\ at'[b] = at[b]
    BY <1>1, <1>7, <1>8 DEF QueueInv, TypeOK
  <2>2. held'[c] = k /\ at'[c] = "holding"
    BY <1>1, <1>7, <1>8 DEF QueueInv, TypeOK
  <2>3. processing' = {held'[b] : b \in Consumers} \ {NoKey}
    BY <1>1, <1>5, <1>8, <2>1, <2>2, QueueAssumption DEF QueueInv, ProcessingHeld
  <2> QED
    BY <1>5, <2>1, <2>2, <2>3, QueueAssumption DEF QueueInv, ProcessingHeld
<1>10. Serialised'
  <2>1. \A b \in Consumers : held[b] # k
    BY <1>5, QueueAssumption DEF QueueInv, ProcessingHeld
  <2> QED
    BY <1>1, <1>8, <2>1 DEF QueueInv, Serialised
<1>11. Promote
  BY DEF Take
<1>12. TypeOK' /\ NoDeadlineStranded'
  BY <1>1, <1>4, <1>5, <1>7, <1>8, <1>11, PromoteInv DEF QueueInv, TypeOK, Due
<1> QED
  BY <1>6, <1>9, <1>10, <1>12 DEF QueueInv

LEMMA FindNoneInv ==
  ASSUME QueueInv, NEW c \in Consumers, FindNone(c)
  PROVE  QueueInv'
<1>1. /\ Promote
      /\ at[c] = "in"
      /\ UNCHANGED <<queue, processing, shutdown, held>>
      /\ dirty' = dirty \cup Due
      /\ Due \subseteq dirty \cup processing
  BY DEF FindNone
<1>2. PICK p \in {"asleep", "out"} : at' = [at EXCEPT ![c] = p]
  BY DEF FindNone
<1>3. QueueExact'
  BY <1>1 DEF QueueInv, QueueExact
<1>4. TypeOK' /\ NoDeadlineStranded'
  BY <1>1, <1>2, PromoteInv DEF QueueInv, TypeOK, Due
<1>5. ProcessingHeld' /\ Serialised'
  BY <1>1, <1>2 DEF QueueInv, TypeOK, ProcessingHeld, Serialised
<1> QED
  BY <1>3, <1>4, <1>5 DEF QueueInv

LEMMA DoneInv ==
  ASSUME QueueInv, NEW c \in Consumers, Done(c)
  PROVE  QueueInv'
<1> DEFINE k == held[c]
<1>1. /\ at[c] = "holding"
      /\ processing' = processing \ {k}
      /\ held' = [held EXCEPT ![c] = NoKey]
      /\ UNCHANGED <<dirty, waiting, deadlines, shutdown>>
  BY DEF Done
<1>2. /\ at' \in [Consumers -> {"out", "in", "asleep", "holding"}]
      /\ at'[c] = "out"
      /\ \A b \in Consumers \ {c} : at'[b] = "holding" <=> at[b] = "holding"
  BY <1>1 DEF Done, QueueInv, TypeOK
<1>3. k \in Keys /\ k \in processing
  BY <1>1 DEF QueueInv, TypeOK, ProcessingHeld
<1>4. queue' \in Seq(Keys) /\ QueueExact'
  <2>1. CASE k \notin dirty /\ UNCHANGED queue
    BY <1>1, <2>1 DEF QueueInv, TypeOK, QueueExact
  <2>2. CASE k \in dirty /\ queue' = Append(queue, k)
    <3>1. k \notin Range(queue)
      BY <1>3 DEF QueueInv, QueueExact
    <3> QED
      BY <1>1, <1>3, <2>2, <3>1, AppendExact DEF QueueInv, TypeOK, QueueExact
  <2> QED
    BY <2>1, <2>2 DEF Done
<1>5. \A b \in Consumers \ {c} : held'[b] = held[b] /\ held[b] # k
  BY <1>1, <1>3, QueueAssumption DEF QueueInv, TypeOK, Serialised
<1>6. held'[c] = NoKey /\ held' \in [Consumers -> Keys \cup {NoKey}]
  BY <1>1 DEF QueueInv, TypeOK
<1>7. ProcessingHeld'
  <2>1. processing' = {held'[b] : b \in Consumers} \ {NoKey}
    BY <1>1, <1>5, <1>6 DEF QueueInv, ProcessingHeld
  <2> QED
    BY <1>2, <1>5, <1>6, <2>1 DEF QueueInv, ProcessingHeld
<1>8. Serialised'
  BY <1>5, <1>6 DEF QueueInv, Serialised
<1>9. TypeOK' /\ NoDeadlineStranded'
  BY <1>1, <1>2, <1>4, <1>6 DEF QueueInv, TypeOK, NoDeadlineStranded
<1> QED
  BY <1>4, <1>7, <1>8, <1>9 DEF QueueInv

LEMMA TickInv ==
  ASSUME QueueInv, Tick
  PROVE  QueueInv'
<1>1. \A t \in 0 .. MaxDelay : Less(t) \in 0 .. MaxDelay
  BY QueueAssumption DEF Less
<1>2. waiting' \subseteq (0 .. MaxDelay) \X Keys
  BY <1>1 DEF Tick, QueueInv, TypeOK
<1>3. /\ DOMAIN deadlines' = DOMAIN deadlines
      /\ deadlines' \in [DOMAIN deadlines' -> 0 .. MaxDelay]
  BY <1>1 DEF Tick, QueueInv, TypeOK
<1>4. ASSUME NEW k \in DOMAIN deadlines'
      PROVE  <<deadlines'[k], k>> \in waiting'
  <2>1. <<deadlines[k], k>> \in waiting
    BY <1>3, <1>4 DEF QueueInv, NoDeadlineStranded
  <2>2. deadlines'[k] = Less(deadlines[k])
    BY <1>3, <1>4 DEF Tick
  <2> QED
    BY <2>1, <2>2 DEF Tick
<1> QED
  BY <1>2, <1>3, <1>4 DEF Tick, QueueInv, TypeOK, ProcessingHeld, Serialised, QueueExact,
                          NoDeadlineStranded

\* The moves of consumers that change nothing but where they are.
LEMMA MoveInv ==
  ASSUME QueueInv,
         Shutdown \/ \E c \in Consumers : Enter(c) \/ TurnAway(c) \/ Wake(c)
  PROVE  QueueInv'
<1>1. /\ UNCHANGED <<queue, dirty, processing, waiting, deadlines, held>>
      /\ shutdown' \in BOOLEAN
      /\ at' \in [Consumers -> {"out", "in", "asleep", "holding"}]
      /\ \A b \in Consumers : at'[b] = "holding" <=> at[b] = "holding"
  BY DEF Enter, TurnAway, Wake, Shutdown, QueueInv, TypeOK
<1> QED
  BY <1>1 DEF QueueInv, TypeOK, ProcessingHeld, Serialised, QueueExact, NoDeadlineStranded

LEMMA StutterInv ==
  ASSUME QueueInv, UNCHANGED queueVars
  PROVE  QueueInv'
BY DEF queueVars, QueueInv, TypeOK, ProcessingHeld, Serialised, QueueExact, NoDeadlineStranded

\* Every step preserves the invariant; Controller uses this for the queue it drives.
LEMMA QueueStepInv ==
  ASSUME QueueInv, QueueNext \/ UNCHANGED queueVars
  PROVE  QueueInv'
<1>1. CASE Produce
  BY <1>1, AddAfterInv DEF Produce
<1>2. ASSUME NEW c \in Consumers, Consume(c)
      PROVE  QueueInv'
  BY <1>2, TakeInv, FindNoneInv, DoneInv, MoveInv DEF Consume
<1>3. CASE Shutdown
  BY <1>3, MoveInv
<1>4. CASE Tick
  BY <1>4, TickInv
<1> QED
  BY <1>1, <1>2, <1>3, <1>4, StutterInv DEF QueueNext

\* The queue's invariant holds in every run of the queue (workqueue.py:33-156).
THEOREM QueueInvariant == QueueSpec => []QueueInv
<1>1. QueueInv /\ [QueueNext]_queueVars => QueueInv'
  BY QueueStepInv
<1> QED
  BY <1>1, InitInv, PTL DEF QueueSpec

\* Whatever is added, delayed, taken and released, the variables keep their types.
THEOREM QueueTypes == QueueSpec => []TypeOK
<1>1. QueueInv => TypeOK
  BY DEF QueueInv
<1> QED
  BY <1>1, QueueInvariant, PTL

\* Popping the heap in order never misses a delayed key: its live entry is there,
\* however often it was rescheduled (workqueue.py:68-77, 150-156).
THEOREM DeadlinesInHeap == QueueSpec => []NoDeadlineStranded
<1>1. QueueInv => NoDeadlineStranded
  BY DEF QueueInv
<1> QED
  BY <1>1, QueueInvariant, PTL

\* No two consumers ever hold the same key (workqueue.py:11-13).
THEOREM Serialisation == QueueSpec => []Serialised
<1>1. QueueInv => Serialised
  BY DEF QueueInv
<1> QED
  BY <1>1, QueueInvariant, PTL

\* The queue is always exactly the wanted keys nobody holds, each once
\* (workqueue.py:8-17).
THEOREM Exactness == QueueSpec => []QueueExact
<1>1. QueueInv => QueueExact
  BY DEF QueueInv
<1> QED
  BY <1>1, QueueInvariant, PTL

(***************************************************************************)
(* What a step may never do.                                               *)
(***************************************************************************)

\* One step of the queue loses no request.
LEMMA StepLosesNothing ==
  ASSUME QueueInv, [QueueNext]_queueVars, NEW k \in dirty \cup DOMAIN deadlines
  PROVE  \/ k \in dirty' \cup DOMAIN deadlines'
         \/ k \notin processing /\ k \in processing'
<1>1. ASSUME NEW j \in Keys, NEW d \in 0 .. MaxDelay, AddAfter(j, d)
      PROVE  k \in dirty' \cup DOMAIN deadlines'
  <2>1. CASE Add(j)
    <3>1. CASE AddFresh(j)
      BY <2>1, <3>1, WithoutInv DEF Add, AddFresh
    <3>2. CASE UNCHANGED <<queue, dirty, deadlines>>
      BY <3>2
    <3> QED
      BY <2>1, <3>1, <3>2 DEF Add
  <2>2. CASE Delay(j, d)
    BY <2>2 DEF Delay
  <2>3. CASE UNCHANGED queueVars
    BY <2>3 DEF queueVars
  <2> QED
    BY <1>1, <2>1, <2>2, <2>3 DEF AddAfter
<1>2. ASSUME NEW c \in Consumers, Take(c)
      PROVE  \/ k \in dirty' \cup DOMAIN deadlines'
             \/ k \notin processing /\ k \in processing'
  <2>1. PICK s \in Promoted :
          /\ queue \o s # <<>>
          /\ dirty' = (dirty \cup Due) \ {Head(queue \o s)}
          /\ processing' = processing \cup {Head(queue \o s)}
    BY <1>2 DEF Take
  <2>2. DOMAIN deadlines' = DOMAIN deadlines \ Due
    BY <1>2, PromoteInv DEF Take
  <2>3. Head(queue \o s) \notin processing
    <3>1. s \in Seq(Keys) /\ Range(s) = Due \ (dirty \cup processing) /\ IsInjective(s)
      BY PromotedExact
    <3>2. queue \in Seq(Keys) /\ Range(queue) = dirty \ processing /\ IsInjective(queue)
      BY DEF QueueInv, TypeOK, QueueExact
    <3>3. /\ queue \o s \in Seq(Keys)
          /\ Range(queue \o s) = Range(queue) \cup Range(s)
          /\ IsInjective(queue \o s)
      BY <3>1, <3>2, ConcatExact
    <3>4. Head(queue \o s) \in Range(queue \o s)
      BY <2>1, <3>3, TailExact
    <3> QED
      BY <3>1, <3>2, <3>3, <3>4
  <2> QED
    BY <2>1, <2>2, <2>3
<1>3. ASSUME NEW c \in Consumers, FindNone(c)
      PROVE  k \in dirty' \cup DOMAIN deadlines'
  BY <1>3, PromoteInv DEF FindNone
<1>4. ASSUME NEW c \in Consumers, Enter(c) \/ TurnAway(c) \/ Wake(c) \/ Done(c) \/ Shutdown
      PROVE  k \in dirty' \cup DOMAIN deadlines'
  BY <1>4 DEF Enter, TurnAway, Wake, Done, Shutdown
<1>5. CASE Shutdown \/ Tick \/ UNCHANGED queueVars
  BY <1>5 DEF Shutdown, Tick, queueVars
<1> QED
  BY <1>1, <1>2, <1>3, <1>4, <1>5 DEF QueueNext, Produce, Consume

\* One step of the queue pushes no deadline back.
LEMMA StepDelaysNothing ==
  ASSUME QueueInv, [QueueNext]_queueVars,
         NEW k \in DOMAIN deadlines, k \in DOMAIN deadlines'
  PROVE  deadlines'[k] <= deadlines[k]
<1>0. deadlines[k] \in 0 .. MaxDelay
  BY DEF QueueInv, TypeOK
<1>1. ASSUME NEW S, deadlines' = Without(S)
      PROVE  deadlines'[k] = deadlines[k]
  BY <1>1 DEF Without, Restrict
<1>2. ASSUME NEW j \in Keys, NEW d \in 0 .. MaxDelay, AddAfter(j, d)
      PROVE  deadlines'[k] <= deadlines[k]
  <2>1. CASE Add(j)
    <3>1. CASE AddFresh(j)
      <4>1. deadlines' = Without({j})
        BY <3>1 DEF AddFresh
      <4> QED
        BY <1>0, <1>1, <4>1, QueueAssumption
    <3>2. CASE deadlines' = deadlines
      BY <1>0, <3>2, QueueAssumption
    <3> QED
      BY <2>1, <3>1, <3>2 DEF Add
  <2>2. CASE Delay(j, d)
    BY <1>0, <2>2, QueueAssumption DEF Delay
  <2>3. CASE UNCHANGED queueVars
    BY <1>0, <2>3, QueueAssumption DEF queueVars
  <2> QED
    BY <1>2, <2>1, <2>2, <2>3 DEF AddAfter
<1>3. ASSUME NEW c \in Consumers, Take(c) \/ FindNone(c)
      PROVE  deadlines'[k] <= deadlines[k]
  <2>1. deadlines' = Without(Due)
    BY <1>3 DEF Take, FindNone, Promote
  <2> QED
    BY <1>0, <1>1, <2>1, QueueAssumption
<1>4. CASE Tick
  BY <1>0, <1>4, QueueAssumption DEF Tick, Less
<1>5. CASE UNCHANGED deadlines
  BY <1>0, <1>5, QueueAssumption
<1> QED
  BY <1>2, <1>3, <1>4, <1>5
     DEF QueueNext, Produce, Consume, Enter, TurnAway, Wake, Done, Shutdown, queueVars

\* "An event that races a reconcile is neither lost nor run concurrently"
\* (workqueue.py:16-17): no step loses a request.
THEOREM Losslessness == QueueSpec => NothingLost
<1>1. QueueInv /\ [QueueNext]_queueVars =>
        [\A k \in dirty \cup DOMAIN deadlines :
           \/ k \in dirty' \cup DOMAIN deadlines'
           \/ k \notin processing /\ k \in processing']_queueVars
  BY StepLosesNothing
<1> QED
  BY <1>1, QueueInvariant, PTL DEF QueueSpec, NothingLost

\* "The earliest pending deadline for a key wins" (workqueue.py:62).
THEOREM EarliestDeadline == QueueSpec => EarliestWins
<1>1. QueueInv /\ [QueueNext]_queueVars =>
        [\A k \in DOMAIN deadlines \cap DOMAIN deadlines' :
           deadlines'[k] <= deadlines[k]]_queueVars
  BY StepDelaysNothing
<1> QED
  BY <1>1, QueueInvariant, PTL DEF QueueSpec, EarliestWins

(***************************************************************************)
(* The queue keeps KeyedWork's promise.                                    *)
(***************************************************************************)

\* An add is a request, or nothing new; a delayed add a schedule, or nothing new.
LEMMA AddAfterPromise ==
  ASSUME QueueInv, NEW k \in Keys, NEW d \in 0 .. MaxDelay, AddAfter(k, d)
  PROVE  Promise!Request(k) \/ Promise!Schedule(k) \/ UNCHANGED Promise!vars
<1>1. CASE Add(k)
  <2>1. CASE AddFresh(k)
    <3>1. DOMAIN deadlines' = DOMAIN deadlines \ {k}
      BY <1>1, <2>1, WithoutInv DEF Add, AddFresh
    <3> QED
      BY <1>1, <2>1, <3>1 DEF Add, AddFresh, Promise!Request
  <2>2. CASE UNCHANGED <<queue, dirty, deadlines>>
    BY <1>1, <2>2 DEF Add, Promise!vars
  <2> QED
    BY <1>1, <2>1, <2>2 DEF Add
<1>2. CASE Delay(k, d)
  BY <1>2 DEF Delay, Promise!Schedule
<1>3. CASE UNCHANGED queueVars
  BY <1>3 DEF queueVars, Promise!vars
<1> QED
  BY <1>1, <1>2, <1>3 DEF AddAfter

\* A take fires what is due and starts a wanted key nobody runs.
LEMMA TakePromise ==
  ASSUME QueueInv, NEW c \in Consumers, Take(c)
  PROVE  \E k \in Keys : Promise!Start(c, k, Due)
<1>1. PICK s \in Promoted :
        /\ queue \o s # <<>>
        /\ dirty' = (dirty \cup Due) \ {Head(queue \o s)}
        /\ held' = [held EXCEPT ![c] = Head(queue \o s)]
  BY DEF Take
<1>2. DOMAIN deadlines' = DOMAIN deadlines \ Due
  BY PromoteInv DEF Take
<1>3. s \in Seq(Keys) /\ Range(s) = Due \ (dirty \cup processing) /\ IsInjective(s)
  BY PromotedExact
<1>4. queue \in Seq(Keys) /\ Range(queue) = dirty \ processing /\ IsInjective(queue)
  BY DEF QueueInv, TypeOK, QueueExact
<1>5. /\ queue \o s \in Seq(Keys)
      /\ Range(queue \o s) = Range(queue) \cup Range(s)
      /\ IsInjective(queue \o s)
  BY <1>3, <1>4, ConcatExact
<1>6. Head(queue \o s) \in Range(queue \o s)
  BY <1>1, <1>5, TailExact
<1>7. Head(queue \o s) \in (dirty \cup Due) \ processing /\ Head(queue \o s) \in Keys
  BY <1>3, <1>4, <1>5, <1>6 DEF Due, QueueInv, TypeOK
<1>8. \A b \in Consumers : held[b] # Head(queue \o s)
  BY <1>7, QueueAssumption DEF QueueInv, ProcessingHeld
<1>9. held[c] = NoKey /\ ~shutdown /\ shutdown' = shutdown
  BY DEF Take, QueueInv, TypeOK, ProcessingHeld
<1> QED
  BY <1>1, <1>2, <1>7, <1>8, <1>9 DEF Promise!Start

LEMMA StepPromise ==
  ASSUME QueueInv, QueueNext \/ UNCHANGED queueVars
  PROVE  Promise!Next \/ UNCHANGED Promise!vars
<1>1. CASE Produce
  BY <1>1, AddAfterPromise DEF Produce, Promise!Next
<1>2. ASSUME NEW c \in Consumers, Take(c)
      PROVE  Promise!Next
  <2>1. Due \in SUBSET DOMAIN deadlines
    BY DEF Due
  <2> QED
    BY <1>2, <2>1, TakePromise DEF Promise!Next
<1>3. ASSUME NEW c \in Consumers, FindNone(c)
      PROVE  Promise!Next
  <2>1. Due \in SUBSET DOMAIN deadlines
    BY DEF Due
  <2>2. Promise!Fire(Due)
    BY <1>3, PromoteInv DEF FindNone, Promise!Fire
  <2> QED
    BY <2>1, <2>2 DEF Promise!Next
<1>4. ASSUME NEW c \in Consumers, Done(c)
      PROVE  Promise!Next
  <2>1. Promise!Finish(c)
    BY <1>4 DEF Done, Promise!Finish, QueueInv, ProcessingHeld
  <2> QED
    BY <2>1 DEF Promise!Next
<1>5. CASE Shutdown
  BY <1>5 DEF Shutdown, Promise!Close, Promise!Next
<1>6. CASE Tick
  BY <1>6 DEF Tick, Promise!vars
<1>7. ASSUME NEW c \in Consumers, Enter(c) \/ TurnAway(c) \/ Wake(c)
      PROVE  UNCHANGED Promise!vars
  BY <1>7 DEF Enter, TurnAway, Wake, Promise!vars
<1>8. CASE UNCHANGED queueVars
  BY <1>8 DEF queueVars, Promise!vars
<1> QED
  BY <1>1, <1>2, <1>3, <1>4, <1>5, <1>6, <1>7, <1>8 DEF QueueNext, Consume

\* The queue implements what its documentation promises (workqueue.py:6-20, 86-90).
THEOREM Implementation == QueueSpec => KeepsPromise
<1>1. QueueInit => Promise!Init
  BY DEF QueueInit, Promise!Init
<1>2. QueueInv /\ [QueueNext]_queueVars => [Promise!Next]_Promise!vars
  BY StepPromise
<1> QED
  BY <1>1, <1>2, QueueInvariant, PTL DEF QueueSpec, KeepsPromise, Promise!Spec
=============================================================================
