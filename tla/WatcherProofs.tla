---------------------------- MODULE WatcherProofs ----------------------------
(***************************************************************************)
(* Theorems about Watcher, for any publications and any number of writes   *)
(* and failures: that no change is missed, however the watch ends, breaks, *)
(* expires or is denied, and that what is remembered tells changes from    *)
(* status writes.                                                          *)
(***************************************************************************)
EXTENDS Watcher, FiniteSetTheorems, TLAPS

\* What a dictionary says of k, and what an event leaves of its publication: nothing,
\* or the fields it has.
Known(f, k) == {f[j] : j \in DOMAIN f \cap {k}}
Left(e) == IF e.type = "DELETED" THEN {} ELSE {e.fields}

\* An event that is to be passed on by one who knows this of its publication.
Differs(known, e) == \/ e.type = "DELETED"
                     \/ known = {}
                     \/ \E f \in known : \/ f.generation # e.fields.generation
                                         \/ f.signing /\ ~e.fields.signing

\* What the watcher knows, as far as it has got with a list.
Held(k) == IF k \in DOMAIN toSeed THEN Known(toSeed, k) ELSE Known(seen, k)

\* No event from i to j is of k.
Quiet(l, k, i, j) == \A n \in i .. j : l[n].key # k

-----------------------------------------------------------------------------
Events == [key : Keys, type : {"ADDED", "MODIFIED", "DELETED"}, fields : Fields, due : BOOLEAN]

IsDict(f) == DOMAIN f \subseteq Keys /\ f \in [DOMAIN f -> Fields]

\* WatcherTypeOK, with the log as a sequence and the dictionaries as functions.
DataTypes == /\ IsDict(pubs) /\ IsDict(toSeed) /\ IsDict(seen)
             /\ log \in Seq(Events) /\ owed \subseteq Keys

LoopTypes == /\ access \in BOOLEAN /\ synced \in BOOLEAN
             /\ failures \in 0 .. MaxFailures
             /\ at \in {"top", "seed", "connect", "stream", "wait"}
             /\ compacted \in 0 .. Len(log)
             /\ cursor \in 0 .. Len(log) /\ heard \in 0 .. Len(log)
             /\ resume = {} \/ \E v \in 0 .. Len(log) : resume = {v}

Types == DataTypes /\ LoopTypes

\* The last event of a publication left what there is of it, and each is due by what
\* the one before it left.
LogTrue ==
  /\ \A i \in 1 .. Len(log) :
       Quiet(log, log[i].key, i + 1, Len(log)) => Known(pubs, log[i].key) = Left(log[i])
  /\ \A i, j \in 1 .. Len(log) :
       /\ i < j /\ log[i].key = log[j].key
       /\ Quiet(log, log[i].key, i + 1, j - 1)
       => (log[j].due <=> Differs(Left(log[i]), log[j]))

\* Where the loop is, by how far it got.
Places == /\ cursor <= heard /\ \A v \in resume : v <= heard
          /\ at = "seed" => resume = {}
          /\ at # "seed" => DOMAIN toSeed = {}
          /\ at = "stream" => resume # {} /\ \A v \in resume : v <= cursor

\* A reader of the events after v knows each publication that has none as it is, and
\* tells rightly whether the first one it never heard before is due.
Reads(v) ==
  /\ \A k \in Keys : Quiet(log, k, v + 1, Len(log)) => Held(k) = Known(pubs, k)
  /\ \A j \in heard + 1 .. Len(log) :
       Quiet(log, log[j].key, v + 1, j - 1) => (log[j].due <=> Differs(Held(log[j].key), log[j]))

InStep == \A v \in Position : Reads(v)

\* A change not passed on was never heard of, or is left of the list.
OwedAhead ==
  \A k \in owed \cap DOMAIN pubs :
    \/ k \in DOMAIN toSeed
    \/ \E i \in heard + 1 .. Len(log) : log[i].key = k /\ log[i].due

\* The inductive invariant.
WatcherInv == Types /\ LogTrue /\ Places /\ InStep /\ OwedAhead

-----------------------------------------------------------------------------
(* Dictionaries. *)

LEMMA KnownWith ==
  ASSUME NEW f, NEW k, NEW x
  PROVE  \A j : Known(With(f, k, x), j) = IF j = k THEN {x} ELSE Known(f, j)
BY DEF Known, With

LEMMA KnownWithout ==
  ASSUME NEW f, NEW k
  PROVE  \A j : Known(Without(f, k), j) = IF j = k THEN {} ELSE Known(f, j)
BY DEF Known, Without

LEMMA KnownExcept ==
  ASSUME NEW f, NEW k \in DOMAIN f, NEW x
  PROVE  \A j : Known([f EXCEPT ![k] = x], j) = IF j = k THEN {x} ELSE Known(f, j)
BY DEF Known

LEMMA KnownEmpty == \A k : Known(Empty, k) = {}
BY DEF Known, Empty

LEMMA KnownDomain ==
  ASSUME NEW f, NEW k
  PROVE  /\ k \notin DOMAIN f <=> Known(f, k) = {}
         /\ k \in DOMAIN f => Known(f, k) = {f[k]}
BY DEF Known

\* Dictionaries that say the same of every key are the same.
LEMMA KnownAll ==
  ASSUME NEW f, NEW g, IsDict(f), IsDict(g), \A k \in Keys : Known(f, k) = Known(g, k)
  PROVE  f = g
<1>1. \A k \in Keys : k \in DOMAIN f <=> k \in DOMAIN g
  BY KnownDomain
<1>2. DOMAIN f = DOMAIN g
  BY <1>1 DEF IsDict
<1>3. \A k \in DOMAIN f : f[k] = g[k]
  <2> TAKE k \in DOMAIN f
  <2>1. {f[k]} = {g[k]}
    BY <1>2, KnownDomain DEF IsDict
  <2> QED
    BY <2>1
<1> QED
  BY <1>2, <1>3 DEF IsDict

LEMMA DictWith ==
  ASSUME NEW f, IsDict(f), NEW k \in Keys, NEW x \in Fields
  PROVE  IsDict(With(f, k, x)) /\ DOMAIN With(f, k, x) = DOMAIN f \cup {k}
BY DEF IsDict, With

LEMMA DictExcept ==
  ASSUME NEW f, IsDict(f), NEW k \in DOMAIN f, NEW x \in Fields
  PROVE  IsDict([f EXCEPT ![k] = x]) /\ DOMAIN [f EXCEPT ![k] = x] = DOMAIN f
BY DEF IsDict

LEMMA DictWithout ==
  ASSUME NEW f, IsDict(f), NEW k
  PROVE  IsDict(Without(f, k)) /\ DOMAIN Without(f, k) = DOMAIN f \ {k}
BY DEF IsDict, Without

LEMMA DictEmpty == IsDict(Empty) /\ DOMAIN Empty = {}
BY DEF IsDict, Empty

\* The filter of _handle and what it remembers.
LEMMA Filter ==
  ASSUME NEW e
  PROVE  /\ SpecChanged(e) <=> Differs(Known(seen, e.key), e)
         /\ \A k : Known(Remembered(e), k) = IF k = e.key THEN Left(e) ELSE Known(seen, k)
<1>1. SpecChanged(e) <=> Differs(Known(seen, e.key), e)
  BY KnownDomain DEF SpecChanged, Differs
<1>2. \A k : Known(Remembered(e), k) = IF k = e.key THEN Left(e) ELSE Known(seen, k)
  <2> TAKE k
  <2>1. CASE e.type = "DELETED"
    <3>1. Remembered(e) = Without(seen, e.key) /\ Left(e) = {}
      BY <2>1 DEF Remembered, Left
    <3> QED
      BY <3>1, KnownWithout
  <2>2. CASE e.type # "DELETED"
    <3>1. Remembered(e) = With(seen, e.key, e.fields) /\ Left(e) = {e.fields}
      BY <2>2 DEF Remembered, Left
    <3> QED
      BY <3>1, KnownWith
  <2> QED
    BY <2>1, <2>2
<1> QED
  BY <1>1, <1>2

-----------------------------------------------------------------------------
(* Writes. *)

\* What any write of k does: it posts an event that tells what it left of k, and
\* is due just if it differs from what there was.
Posted(k, e) ==
  /\ e.key = k
  /\ log' = Append(log, e)
  /\ IsDict(pubs') /\ DOMAIN pubs' \ {k} = DOMAIN pubs \ {k}
  /\ \A j : Known(pubs', j) = IF j = k THEN Left(e) ELSE Known(pubs, j)
  /\ e.due <=> Differs(Known(pubs, k), e)
  /\ owed' = IF e.due THEN owed \cup {k} ELSE owed
  /\ UNCHANGED <<compacted, access, failures, loopVars, heard>>

LEMMA ModifyPosts ==
  ASSUME Types, NEW k \in DOMAIN pubs, NEW new \in Fields, NEW due \in BOOLEAN,
         Modify(k, new, due),
         due <=> \/ pubs[k].generation # new.generation
                 \/ pubs[k].signing /\ ~new.signing
  PROVE  \E e \in Events : Posted(k, e)
<1> DEFINE e == [key |-> k, type |-> "MODIFIED", fields |-> new, due |-> due]
<1>1. k \in Keys /\ IsDict(pubs)
  BY DEF Types, DataTypes, LoopTypes, IsDict
<1>2. e \in Events
  BY <1>1 DEF Events
<1>3. IsDict(pubs') /\ DOMAIN pubs' = DOMAIN pubs
  BY <1>1, DictExcept DEF Modify
<1>4. \A j : Known(pubs', j) = IF j = k THEN {new} ELSE Known(pubs, j)
  <2>1. pubs' = [pubs EXCEPT ![k] = new]
    BY DEF Modify
  <2>2. \A j : Known([pubs EXCEPT ![k] = new], j) = IF j = k THEN {new} ELSE Known(pubs, j)
    BY KnownExcept
  <2> QED
    BY <2>1, <2>2
<1>5. Left(e) = {new}
  BY DEF Left
<1>6. Known(pubs, k) = {pubs[k]}
  BY KnownDomain
<1>7. e.due <=> Differs(Known(pubs, k), e)
  BY <1>6 DEF Differs
<1>8. Posted(k, e)
  BY <1>3, <1>4, <1>5, <1>7 DEF Posted, Modify, Post
<1> QED
  BY <1>2, <1>8

LEMMA WritePosts ==
  ASSUME Types, NEW k \in Keys, Write(k)
  PROVE  \E e \in Events : Posted(k, e)
<1>1. IsDict(pubs)
  BY DEF Types, DataTypes, LoopTypes
<1>2. CASE Create(k)
  <2> DEFINE new == [generation |-> 1, signing |-> FALSE]
             e == [key |-> k, type |-> "ADDED", fields |-> new, due |-> TRUE]
  <2>1. new \in Fields /\ e \in Events
    BY DEF Fields, Events
  <2>2. pubs' = With(pubs, k, new) /\ Post(k, "ADDED", new, TRUE) /\ k \notin DOMAIN pubs
    BY <1>2 DEF Create
  <2>3. Left(e) = {new} /\ Differs(Known(pubs, k), e)
    BY <2>2, KnownDomain DEF Left, Differs
  <2> HIDE DEF new
  <2>4. IsDict(pubs') /\ DOMAIN pubs' = DOMAIN pubs \cup {k}
    <3>1. new \in Fields /\ pubs' = With(pubs, k, new)
      BY <2>1, <2>2
    <3>2. IsDict(With(pubs, k, new)) /\ DOMAIN With(pubs, k, new) = DOMAIN pubs \cup {k}
      BY <1>1, <3>1, DictWith
    <3> QED
      BY <3>1, <3>2
  <2>5. \A j : Known(pubs', j) = IF j = k THEN {new} ELSE Known(pubs, j)
    BY <2>2, KnownWith
  <2>6. Posted(k, e)
    BY <2>2, <2>3, <2>4, <2>5 DEF Posted, Post
  <2> QED
    BY <2>1, <2>6
<1>3. CASE Delete(k)
  <2> DEFINE e == [key |-> k, type |-> "DELETED", fields |-> pubs[k], due |-> TRUE]
  <2>1. e \in Events
    BY <1>1, <1>3 DEF Delete, Events, IsDict
  <2>2. pubs' = Without(pubs, k) /\ Post(k, "DELETED", pubs[k], TRUE)
    BY <1>3 DEF Delete
  <2>3. IsDict(pubs') /\ DOMAIN pubs' = DOMAIN pubs \ {k}
    BY <1>1, <2>2, DictWithout
  <2>4. \A j : Known(pubs', j) = IF j = k THEN {} ELSE Known(pubs, j)
    BY <2>2, KnownWithout
  <2>5. Left(e) = {} /\ Differs(Known(pubs, k), e)
    BY DEF Left, Differs
  <2>6. Posted(k, e)
    BY <2>2, <2>3, <2>4, <2>5 DEF Posted, Post
  <2> QED
    BY <2>1, <2>6
<1>4. CASE Edit(k)
  <2>1. k \in DOMAIN pubs /\ pubs[k] \in Fields
    BY <1>1, <1>4 DEF Edit, IsDict
  <2> DEFINE new == [pubs[k] EXCEPT !.generation = @ + 1]
  <2>2. new \in Fields /\ new.generation # pubs[k].generation
    BY <2>1 DEF Fields
  <2>3. Modify(k, new, TRUE)
    BY <1>4 DEF Edit
  <2> QED
    BY <2>1, <2>2, <2>3, ModifyPosts
<1>5. CASE WriteStatus(k)
  <2>1. k \in DOMAIN pubs /\ pubs[k] \in Fields
    BY <1>1, <1>5 DEF WriteStatus, IsDict
  <2>2. PICK s \in {TRUE, pubs[k].signing} : Modify(k, [pubs[k] EXCEPT !.signing = s], FALSE)
    BY <1>5 DEF WriteStatus
  <2> DEFINE new == [pubs[k] EXCEPT !.signing = s]
  <2>3. /\ new \in Fields /\ new.generation = pubs[k].generation
        /\ ~(pubs[k].signing /\ ~new.signing)
    BY <2>1 DEF Fields
  <2> QED
    BY <2>1, <2>2, <2>3, ModifyPosts
<1>6. CASE Clear(k)
  <2>1. k \in DOMAIN pubs /\ pubs[k] \in Fields /\ pubs[k].signing
    BY <1>1, <1>6 DEF Clear, IsDict
  <2> DEFINE new == [pubs[k] EXCEPT !.signing = FALSE]
  <2>2. new \in Fields /\ ~new.signing
    BY <2>1 DEF Fields
  <2>3. Modify(k, new, TRUE)
    BY <1>6 DEF Clear
  <2> QED
    BY <2>1, <2>2, <2>3, ModifyPosts
<1> QED
  BY <1>2, <1>3, <1>4, <1>5, <1>6 DEF Write

LEMMA WriteInv ==
  ASSUME WatcherInv, NEW k \in Keys, Write(k)
  PROVE  WatcherInv'
<1> USE DEF WatcherInv
<1>1. PICK e \in Events : Posted(k, e)
  BY WritePosts
<1> DEFINE n == Len(log)
<1>2. /\ n \in Nat /\ Len(log') = n + 1 /\ log' \in Seq(Events)
      /\ \A i \in 1 .. n : log'[i] = log[i]
      /\ log'[n + 1] = e
  BY <1>1 DEF Posted, Types, DataTypes, LoopTypes
<1>3. UNCHANGED <<compacted, access, failures, at, resume, cursor, toSeed, seen, synced, heard>>
  BY <1>1 DEF Posted, loopVars
<1>4. /\ cursor \in 0 .. n /\ heard \in 0 .. n
      /\ \A v \in Position : v \in 0 .. n
  BY DEF Types, DataTypes, LoopTypes, Position
<1> HIDE DEF n
\* Up to the old end of the log nothing is new.
<1>5. \A j : \A a, b \in Nat : a >= 1 /\ b <= n => (Quiet(log', j, a, b) <=> Quiet(log, j, a, b))
  BY <1>2 DEF Quiet
\* Up to the new end, all but k are as quiet as before.
<1>6. \A j : \A a \in 1 .. n + 1 : Quiet(log', j, a, n + 1) => j # k /\ Quiet(log, j, a, n)
  BY <1>1, <1>2 DEF Quiet, Posted
<1>7. Types'
  <2>1. IsDict(pubs') /\ owed' \subseteq Keys
    BY <1>1 DEF Posted, Types, DataTypes, LoopTypes
  <2> QED
    BY <1>2, <1>3, <1>4, <2>1 DEF Types, DataTypes, LoopTypes, n
<1>8. Places'
  BY <1>3 DEF Places
<1>9. LogTrue'
  <2>1. ASSUME NEW i \in 1 .. n + 1, Quiet(log', log'[i].key, i + 1, n + 1)
        PROVE  Known(pubs', log'[i].key) = Left(log'[i])
    <3>1. CASE i = n + 1
      BY <1>1, <1>2, <3>1 DEF Posted
    <3>2. CASE i \in 1 .. n
      <4>1. log'[i].key # k /\ Quiet(log, log[i].key, i + 1, n)
        BY <1>2, <1>6, <2>1, <3>2
      <4> QED
        BY <1>1, <1>2, <3>2, <4>1 DEF LogTrue, Posted, n
    <3> QED
      BY <1>2, <3>1, <3>2
  <2>2. ASSUME NEW i \in 1 .. n + 1, NEW j \in 1 .. n + 1, i < j, log'[i].key = log'[j].key,
               Quiet(log', log'[i].key, i + 1, j - 1)
        PROVE  log'[j].due <=> Differs(Left(log'[i]), log'[j])
    <3>1. i \in 1 .. n /\ log'[i] = log[i] /\ Quiet(log, log[i].key, i + 1, j - 1)
      BY <1>2, <1>5, <2>2
    <3>2. CASE j = n + 1
      <4>1. Known(pubs, k) = Left(log[i])
        BY <1>1, <1>2, <2>2, <3>1, <3>2 DEF LogTrue, Posted, n
      <4> QED
        BY <1>1, <1>2, <3>1, <3>2, <4>1 DEF Posted
    <3>3. CASE j \in 1 .. n
      BY <1>2, <2>2, <3>1, <3>3 DEF LogTrue, n
    <3> QED
      BY <1>2, <3>2, <3>3
  <2> QED
    BY <1>2, <2>1, <2>2 DEF LogTrue
<1>10. InStep'
  <2> SUFFICES ASSUME NEW v \in Position, Reads(v) PROVE Reads(v)'
    BY <1>3 DEF InStep, Position
  <2>1. \A j : Held(j)' = Held(j)
    BY <1>3 DEF Held, Known
  <2>2. v \in 0 .. n
    BY <1>4
  <2>3. ASSUME NEW j \in Keys, Quiet(log', j, v + 1, n + 1)
        PROVE  Held(j) = Known(pubs', j)
    <3>1. j # k /\ Quiet(log, j, v + 1, n)
      BY <1>2, <1>6, <2>2, <2>3
    <3> QED
      BY <1>1, <3>1 DEF Reads, Posted, n
  <2>4. ASSUME NEW j \in heard + 1 .. n + 1, Quiet(log', log'[j].key, v + 1, j - 1)
        PROVE  log'[j].due <=> Differs(Held(log'[j].key), log'[j])
    <3>1. Quiet(log, log'[j].key, v + 1, j - 1)
      BY <1>2, <1>4, <1>5, <2>2, <2>4
    <3>2. CASE j = n + 1
      <4>1. Held(k) = Known(pubs, k)
        BY <1>1, <1>2, <3>1, <3>2 DEF Reads, Posted, n
      <4> QED
        BY <1>1, <1>2, <3>2, <4>1 DEF Posted
    <3>3. CASE j \in heard + 1 .. n
      <4>1. log'[j] = log[j]
        BY <1>2, <1>4, <3>3
      <4> QED
        BY <3>1, <3>3, <4>1 DEF Reads, n
    <3> QED
      BY <1>2, <1>4, <3>2, <3>3
  <2> QED
    BY <1>2, <1>3, <2>1, <2>3, <2>4 DEF Reads
<1>11. OwedAhead'
  <2> SUFFICES ASSUME NEW j \in owed' \cap DOMAIN pubs'
               PROVE  \/ j \in DOMAIN toSeed
                      \/ \E i \in heard + 1 .. n + 1 : log'[i].key = j /\ log'[i].due
    BY <1>2, <1>3 DEF OwedAhead
  <2>1. CASE j = k /\ e.due
    BY <1>1, <1>2, <1>4, <2>1 DEF Posted
  <2>2. CASE ~(j = k /\ e.due)
    <3>1. j \in owed /\ j \in DOMAIN pubs
      <4>1. j = k => Known(pubs, k) # {}
        BY <1>1, <2>2 DEF Posted, Differs
      <4> QED
        BY <1>1, <2>2, <4>1, KnownDomain DEF Posted
    <3>2. j \in DOMAIN toSeed \/ \E i \in heard + 1 .. n : log[i].key = j /\ log[i].due
      BY <3>1 DEF OwedAhead, n
    <3> QED
      BY <1>2, <1>4, <3>2
  <2> QED
    BY <2>1, <2>2
<1> QED
  BY <1>7, <1>8, <1>9, <1>10, <1>11

-----------------------------------------------------------------------------
(* The loop. *)

\* One who reads on from an earlier event has to know no more.
LEMMA Earlier ==
  ASSUME NEW v \in Nat, NEW w \in Nat, v <= w, Len(log) \in Nat, heard \in Nat, Reads(w)
  PROVE  Reads(v)
<1>1. \A k : \A j \in Nat : Quiet(log, k, v + 1, j) => Quiet(log, k, w + 1, j)
  BY DEF Quiet
<1>2. \A j \in heard + 1 .. Len(log) : j - 1 \in Nat
  OBVIOUS
<1> QED
  BY <1>1, <1>2 DEF Reads

\* What the loop reads is in its past.
LEMMA PlaceTypes ==
  ASSUME Types
  PROVE  /\ Len(log) \in Nat
         /\ cursor \in 0 .. Len(log) /\ heard \in 0 .. Len(log)
         /\ resume \subseteq 0 .. Len(log) /\ Position \subseteq 0 .. Len(log)
BY DEF Types, DataTypes, LoopTypes, Position

\* A step after which the loop reads on from where it was, or from before.
Moves == /\ UNCHANGED <<pubs, log, heard, toSeed, seen, owed>>
         /\ \A w \in Position' : \E v \in Position : w <= v

LEMMA MoveInStep ==
  ASSUME WatcherInv, Moves, Types'
  PROVE  LogTrue' /\ InStep' /\ OwedAhead'
<1>1. LogTrue' /\ OwedAhead'
  BY DEF WatcherInv, Moves, LogTrue, OwedAhead
<1>2. ASSUME NEW w \in Position' PROVE Reads(w)'
  <2>1. PICK v \in Position : w <= v
    BY <1>2 DEF Moves
  <2>2. w \in Nat /\ v \in Nat /\ Len(log) \in Nat /\ heard \in Nat
    <3>1. Position' \subseteq 0 .. Len(log')
      BY PlaceTypes DEF Types, DataTypes, LoopTypes, Position
    <3> QED
      BY <1>2, <3>1, PlaceTypes DEF WatcherInv, Moves
  <2>3. Reads(w)
    BY <2>1, <2>2, Earlier DEF WatcherInv, InStep
  <2> QED
    BY <2>3 DEF Reads, Moves, Held
<1> QED
  BY <1>1, <1>2 DEF InStep

LEMMA MoveInv ==
  ASSUME WatcherInv,
         Seeded \/ Open \/ Expired \/ Denied \/ CallFails \/ Retry \/ EndOfStream
  PROVE  WatcherInv'
<1> USE PlaceTypes DEF WatcherInv
<1>1. Types'
  <2>1. DataTypes' /\ Len(log') = Len(log) /\ UNCHANGED <<compacted, access, heard>>
    BY DEF Types, DataTypes, Seeded, Open, Expired, Denied, CallFails, Retry, EndOfStream, apiVars
  <2>2. at' \in {"top", "connect", "stream", "wait"} /\ synced' \in BOOLEAN
    BY DEF Types, LoopTypes, Seeded, Open, Expired, Denied, CallFails, Retry, EndOfStream
  <2>3. failures' \in 0 .. MaxFailures
    BY WatcherAssumption DEF WatcherAssumption, Types, LoopTypes, Seeded, Open, Expired, Denied,
       CallFails, Retry, EndOfStream
  <2>4. cursor' \in {cursor} \cup resume
    BY DEF Seeded, Open, Expired, Denied, CallFails, Retry, EndOfStream
  <2>5. resume' \in {{}, resume, {cursor}}
    BY DEF Seeded, Open, Expired, Denied, CallFails, Retry, EndOfStream
  <2> QED
    BY <2>1, <2>2, <2>3, <2>4, <2>5 DEF Types, LoopTypes
<1>2. Moves
  <2>1. CASE Seeded
    BY <2>1 DEF Seeded, Moves, Position, apiVars
  <2>2. CASE Open
    BY <2>2 DEF Open, Connecting, Moves, Position, apiVars
  <2>3. CASE Expired \/ Denied
    BY <2>3 DEF Expired, Denied, Moves, Position, apiVars
  <2>4. CASE CallFails
    BY <2>4 DEF CallFails, Listing, Connecting, Moves, Position, Places, apiVars
  <2>5. CASE Retry
    BY <2>5 DEF Retry, Moves, Position, apiVars
  <2>6. CASE EndOfStream
    BY <2>6 DEF EndOfStream, Moves, Position, apiVars
  <2> QED
    BY <2>1, <2>2, <2>3, <2>4, <2>5, <2>6
<1>3. Places'
  <2>1. CASE Seeded \/ EndOfStream
    BY <2>1 DEF Places, Seeded, EndOfStream
  <2>2. CASE Open
    <3>1. /\ resume' = resume /\ toSeed' = toSeed /\ heard' = heard /\ at' = "stream"
          /\ at \in {"top", "connect"} /\ cursor' \in resume
      BY <2>2 DEF Open, Connecting
    <3>2. PICK v \in 0 .. Len(log) : resume = {v}
      BY <3>1 DEF Types, LoopTypes
    <3>3. v <= heard /\ v <= v
      BY <3>2 DEF Places
    <3>4. cursor' <= heard' /\ \A w \in resume' : w <= heard' /\ w <= cursor'
      BY <3>1, <3>2, <3>3
    <3>5. DOMAIN toSeed' = {} /\ at' # "seed" /\ resume' # {}
      BY <3>1 DEF Places
    <3> QED
      BY <3>4, <3>5 DEF Places
  <2>3. CASE Expired \/ Denied
    BY <2>3 DEF Places, Expired, Denied, Connecting, Listing
  <2>4. CASE CallFails \/ Retry
    BY <2>4 DEF Places, CallFails, Retry, Connecting, Listing
  <2> QED
    BY <2>1, <2>2, <2>3, <2>4
<1> QED
  BY <1>1, <1>2, <1>3, MoveInStep

LEMMA ApiInv ==
  ASSUME WatcherInv, Compact \/ Allow
  PROVE  WatcherInv'
<1> USE PlaceTypes DEF WatcherInv
<1>1. Types' /\ Places'
  <2>1. /\ UNCHANGED <<pubs, log, failures, at, resume, cursor, toSeed, seen, synced, owed, heard>>
        /\ access' \in BOOLEAN /\ compacted' \in 0 .. Len(log)
    <3>1. CASE Compact
      BY <3>1 DEF Types, LoopTypes, Compact, loopVars
    <3>2. CASE Allow
      BY <3>2 DEF Types, LoopTypes, Allow, loopVars
    <3> QED
      BY <3>1, <3>2
  <2> QED
    BY <2>1 DEF Types, DataTypes, LoopTypes, Places
<1>2. Moves
  BY DEF Moves, Compact, Allow, loopVars, Position
<1> QED
  BY <1>1, <1>2, MoveInStep

LEMMA ListInv ==
  ASSUME WatcherInv, List
  PROVE  WatcherInv'
<1> USE PlaceTypes DEF WatcherInv
<1>1. /\ toSeed' = pubs /\ seen' = Empty /\ cursor' = Len(log) /\ heard' = Len(log)
      /\ at' = "seed" /\ resume' = resume /\ resume = {}
      /\ UNCHANGED <<pubs, log, compacted, access, failures, synced, owed>>
  BY DEF List, Listing, apiVars
<1>2. Types' /\ Places' /\ LogTrue'
  BY <1>1, DictEmpty DEF Types, DataTypes, LoopTypes, Places, LogTrue
<1>3. \A k : Held(k)' = Known(pubs, k)
  <2> TAKE k
  <2>1. Held(k)' = IF k \in DOMAIN pubs THEN Known(pubs, k) ELSE Known(Empty, k)
    BY <1>1 DEF Held
  <2> QED
    BY <2>1, KnownEmpty, KnownDomain
<1>4. InStep'
  BY <1>1, <1>3 DEF InStep, Position, Reads
<1>5. OwedAhead'
  BY <1>1 DEF OwedAhead
<1> QED
  BY <1>2, <1>4, <1>5

LEMMA SeedInv ==
  ASSUME WatcherInv, NEW k \in Keys, Seed(k)
  PROVE  WatcherInv'
<1> USE PlaceTypes DEF WatcherInv
<1>1. /\ at = "seed" /\ k \in DOMAIN toSeed
      /\ toSeed' = Without(toSeed, k) /\ seen' = With(seen, k, toSeed[k]) /\ owed' = owed \ {k}
      /\ UNCHANGED <<pubs, log, compacted, access, failures, at, resume, cursor, synced, heard>>
  BY DEF Seed, apiVars
<1>2. IsDict(toSeed') /\ DOMAIN toSeed' = DOMAIN toSeed \ {k} /\ IsDict(seen')
  <2>1. IsDict(toSeed) /\ IsDict(seen) /\ toSeed[k] \in Fields
    BY <1>1 DEF Types, DataTypes, LoopTypes, IsDict
  <2> QED
    BY <1>1, <2>1, DictWith, DictWithout
<1>3. Types' /\ Places' /\ LogTrue'
  BY <1>1, <1>2 DEF Types, DataTypes, LoopTypes, Places, LogTrue
<1>4. \A j : Held(j)' = Held(j)
  <2> TAKE j
  <2>1. /\ Known(toSeed', j) = IF j = k THEN {} ELSE Known(toSeed, j)
        /\ Known(seen', j) = IF j = k THEN {toSeed[k]} ELSE Known(seen, j)
    BY <1>1, KnownWith, KnownWithout
  <2>2. Known(toSeed, k) = {toSeed[k]}
    BY <1>1, KnownDomain
  <2>3. Held(j)' = IF j \in DOMAIN toSeed' THEN Known(toSeed', j) ELSE Known(seen', j)
    BY DEF Held
  <2> QED
    BY <1>1, <1>2, <2>1, <2>2, <2>3 DEF Held
<1>5. InStep'
  BY <1>1, <1>4 DEF InStep, Position, Reads
<1>6. OwedAhead'
  BY <1>1, <1>2 DEF OwedAhead
<1> QED
  BY <1>3, <1>5, <1>6

LEMMA HandleInv ==
  ASSUME WatcherInv, Handle
  PROVE  WatcherInv'
<1> USE PlaceTypes DEF WatcherInv
<1> DEFINE n == Len(log)
           c == cursor + 1
           e == log[c]
<1>1. /\ at = "stream" /\ c \in 1 .. n /\ DOMAIN toSeed = {}
      /\ seen' = Remembered(e) /\ owed' = IF SpecChanged(e) THEN owed \ {e.key} ELSE owed
      /\ cursor' = c /\ heard' = IF cursor < heard THEN heard ELSE c
      /\ heard >= cursor
      /\ UNCHANGED <<pubs, log, compacted, access, failures, at, resume, toSeed, synced>>
  BY DEF Handle, Readable, apiVars, Places
<1>2. e \in Events /\ e.key \in Keys
  <2>1. e \in Events
    BY <1>1 DEF Types, DataTypes
  <2> QED
    BY <2>1 DEF Events
<1>3. Types'
  <2>1. IsDict(seen) /\ e.fields \in Fields
    BY <1>2 DEF Types, DataTypes, LoopTypes, Events
  <2>2. IsDict(seen')
    BY <1>1, <1>2, <2>1, DictWith, DictWithout DEF Remembered
  <2> QED
    BY <1>1, <2>2 DEF Types, DataTypes, LoopTypes
<1>4. Places' /\ LogTrue'
  BY <1>1 DEF Places, LogTrue
<1>5. \A k : /\ Held(k) = Known(seen, k)
             /\ Held(k)' = IF k = e.key THEN Left(e) ELSE Known(seen, k)
  <2> TAKE k
  <2>1. Held(k) = Known(seen, k) /\ Held(k)' = Known(seen', k)
    BY <1>1 DEF Held
  <2> QED
    BY <1>1, <2>1, Filter
<1>6. Reads(cursor)
  BY <1>1 DEF InStep, Position
<1> HIDE DEF e
\* What is quiet after this event was quiet before it, but for its own publication.
<1>7. \A k : \A j \in Nat : k # e.key /\ Quiet(log, k, c + 1, j) => Quiet(log, k, cursor + 1, j)
  BY <1>1 DEF Quiet, e
<1>8. Reads(cursor)'
  <2>1. ASSUME NEW k \in Keys, Quiet(log, k, c + 1, n)
        PROVE  Held(k)' = Known(pubs, k)
    BY <1>1, <1>5, <1>6, <1>7, <2>1 DEF LogTrue, Reads, e
  <2>2. ASSUME NEW j \in heard' + 1 .. n, NEW k \in Keys, k = log[j].key,
               Quiet(log, k, c + 1, j - 1)
        PROVE  log[j].due <=> Differs(Held(k)', log[j])
    <3>1. j \in heard + 1 .. n /\ c < j /\ j - 1 \in Nat
      BY <1>1
    <3>2. CASE k = e.key
      <4>1. log[j].due <=> Differs(Left(e), log[j])
        <5>1. j \in 1 .. n /\ c \in 1 .. n /\ c < j /\ log[c].key = log[j].key
          BY <1>1, <2>2, <3>1, <3>2 DEF e
        <5>2. Quiet(log, log[c].key, c + 1, j - 1)
          BY <2>2, <3>2 DEF e
        <5> QED
          BY <5>1, <5>2 DEF LogTrue, e
      <4> QED
        BY <1>5, <3>2, <4>1
    <3>3. CASE k # e.key
      <4>1. log[j].due <=> Differs(Held(k), log[j])
        BY <1>6, <1>7, <2>2, <3>1, <3>3 DEF Reads
      <4> QED
        BY <1>5, <3>3, <4>1
    <3> QED
      BY <3>2, <3>3
  <2>3. \A j \in heard' + 1 .. n : log[j].key \in Keys
    <3> TAKE j \in heard' + 1 .. n
    <3>1. j \in 1 .. n /\ log \in Seq(Events)
      BY <1>1 DEF Types, DataTypes
    <3>2. log[j] \in Events
      BY <3>1
    <3> QED
      BY <3>2 DEF Events
  <2> QED
    BY <1>1, <2>1, <2>2, <2>3 DEF Reads
<1>9. InStep'
  BY <1>1, <1>8 DEF InStep, Position
<1>10. OwedAhead'
  <2> SUFFICES ASSUME NEW k \in owed' \cap DOMAIN pubs
               PROVE  \E i \in heard' + 1 .. n : log[i].key = k /\ log[i].due
    BY <1>1 DEF OwedAhead
  <2>1. PICK i \in heard + 1 .. n : log[i].key = k /\ log[i].due
    BY <1>1 DEF OwedAhead
  <2>2. CASE i >= heard' + 1
    BY <2>1, <2>2
  <2>3. CASE ~(i >= heard' + 1)
    <3>1. i = c /\ i = heard + 1
      BY <1>1, <2>3
    <3>2. Quiet(log, e.key, cursor + 1, i - 1)
      BY <1>1, <3>1 DEF Quiet
    <3>3. Differs(Known(seen, e.key), e)
      BY <1>1, <1>5, <1>6, <2>1, <3>1, <3>2 DEF Reads, e
    <3> QED
      BY <1>1, <2>1, <3>1, <3>3, Filter DEF e
  <2> QED
    BY <1>1, <2>2, <2>3
<1> QED
  BY <1>3, <1>4, <1>9, <1>10

-----------------------------------------------------------------------------
LEMMA InitInv == Init => WatcherInv
<1> SUFFICES ASSUME Init PROVE WatcherInv
  OBVIOUS
<1>1. IsDict(pubs)
  BY DEF Init, IsDict, Fields
<1>2. log \in Seq(Events) /\ Len(log) = 0
  BY DEF Init
<1>3. Types
  <2>1. DataTypes
    BY <1>1, <1>2, DictEmpty DEF Init, DataTypes
  <2>2. failures \in 0 .. MaxFailures
    BY WatcherAssumption DEF Init, WatcherAssumption
  <2>3. access \in BOOLEAN /\ synced \in BOOLEAN
    BY DEF Init
  <2>4. compacted \in 0 .. Len(log) /\ cursor \in 0 .. Len(log) /\ heard \in 0 .. Len(log)
    BY <1>2 DEF Init
  <2>5. at = "top" /\ resume = {}
    BY DEF Init
  <2> QED
    BY <2>1, <2>2, <2>3, <2>4, <2>5 DEF Types, LoopTypes
<1>4. Places /\ LogTrue /\ OwedAhead
  BY <1>2, DictEmpty DEF Init, Places, LogTrue, OwedAhead
<1>5. InStep
  BY DEF Init, InStep, Position
<1> QED
  BY <1>3, <1>4, <1>5 DEF WatcherInv

LEMMA StepInv == WatcherInv /\ [Next]_vars => WatcherInv'
<1> SUFFICES ASSUME WatcherInv, [Next]_vars PROVE WatcherInv'
  OBVIOUS
<1>1. CASE UNCHANGED vars
  BY <1>1 DEF vars, apiVars, loopVars, WatcherInv, Types, DataTypes, LoopTypes, LogTrue, Places,
              InStep, OwedAhead, Position, Reads, Held
<1>2. CASE Steady \/ CallFails
  BY <1>2, MoveInv, ListInv, SeedInv DEF Steady
<1>3. CASE Compact \/ Allow \/ \E k \in Keys : Write(k)
  BY <1>3, ApiInv, WriteInv
<1> QED
  BY <1>1, <1>2, <1>3, HandleInv DEF Next

-----------------------------------------------------------------------------
\* At any point of the loop (controller.py:192-371) what is known of each publication is
\* what its events up to there left of it, whatever was replayed, and each change not
\* passed on is an event never heard or left of a list.
THEOREM WatcherInvariant == Spec => []WatcherInv
BY InitInv, StepInv, PTL DEF Spec

LEMMA TypesOK == Types => WatcherTypeOK
<1> SUFFICES ASSUME Types PROVE WatcherTypeOK
  OBVIOUS
<1>1. \A i \in 1 .. Len(log) : /\ log[i].key \in Keys /\ log[i].fields \in Fields
                              /\ log[i].type \in {"ADDED", "MODIFIED", "DELETED"}
                              /\ log[i].due \in BOOLEAN
  <2> TAKE i \in 1 .. Len(log)
  <2>1. log[i] \in Events
    BY DEF Types, DataTypes
  <2> QED
    BY <2>1 DEF Events
<1>2. Cardinality(resume) <= 1
  <2>1. resume = {} \/ \E v : resume = {v}
    BY DEF Types, LoopTypes
  <2> QED
    BY <2>1, FS_EmptySet, FS_Singleton
<1>3. resume \subseteq 0 .. Len(log)
  BY PlaceTypes
<1> QED
  BY <1>1, <1>2, <1>3 DEF Types, DataTypes, LoopTypes, IsDict, WatcherTypeOK

\* The watcher's state (controller.py:118-148) has its types: no position lies beyond the
\* newest event, and there is never more than one to resume from.
THEOREM WatcherTypes == Spec => []WatcherTypeOK
BY WatcherInvariant, TypesOK, PTL DEF WatcherInv

\* No change is missed (controller.py:202-225, 265-277, 350-371): one not passed on is
\* still in the list, ahead of the position to read from, or will be listed, however
\* watches ended, broke, expired or were denied.
THEOREM NoChangeMissed == Spec => []NothingMissed
<1>1. WatcherInv => NothingMissed
  <2> SUFFICES ASSUME WatcherInv, NEW k \in owed \cap DOMAIN pubs, k \notin DOMAIN toSeed,
                      NEW w \in Position
               PROVE  \E v \in Position, i \in 1 .. Len(log) :
                        i > v /\ log[i].key = k /\ log[i].due
    BY DEF NothingMissed
  <2> USE PlaceTypes DEF WatcherInv
  <2>1. PICK i \in heard + 1 .. Len(log) : log[i].key = k /\ log[i].due
    BY DEF OwedAhead
  <2>2. w \in Nat /\ heard \in Nat /\ Len(log) \in Nat /\ w <= heard
    BY DEF Places, Position
  <2>3. i \in 1 .. Len(log) /\ i > w
    BY <2>2
  <2> QED
    BY <2>1, <2>3
<1> QED
  BY <1>1, WatcherInvariant, PTL

\* What _handle compares with (controller.py:130-146, 373-400) is, at the end of the
\* stream, each publication as it is, though older events were replayed over it.
THEOREM RememberedAsIs == Spec => []RememberedRight
<1>1. WatcherInv => RememberedRight
  <2> SUFFICES ASSUME WatcherInv, at = "stream", cursor = Len(log) PROVE seen = pubs
    BY DEF RememberedRight
  <2> USE PlaceTypes DEF WatcherInv
  <2>1. Reads(cursor)
    BY DEF InStep, Position
  <2>2. \A k \in Keys : Quiet(log, k, cursor + 1, Len(log))
    BY DEF Quiet
  <2>3. \A k \in Keys : Known(seen, k) = Known(pubs, k)
    BY <2>1, <2>2 DEF Reads, Held, Places
  <2> QED
    BY <2>3, KnownAll DEF Types, DataTypes
<1> QED
  BY <1>1, WatcherInvariant, PTL

\* Of an event heard for the first time, the filter says rightly whether it is due.
LEMMA FirstHeard ==
  ASSUME WatcherInv, Handle, cursor = heard
  PROVE  log[cursor + 1].due <=> SpecChanged(log[cursor + 1])
<1> USE PlaceTypes DEF WatcherInv
<1> DEFINE c == cursor + 1
<1>1. at = "stream" /\ c \in heard + 1 .. Len(log) /\ DOMAIN toSeed = {}
  BY DEF Handle, Readable, Places
<1>2. Reads(cursor) /\ Quiet(log, log[c].key, cursor + 1, c - 1)
  BY <1>1 DEF InStep, Position, Quiet
<1>3. Held(log[c].key) = Known(seen, log[c].key)
  BY <1>1 DEF Held
<1> HIDE DEF c
<1>4. log[c].due <=> Differs(Known(seen, log[c].key), log[c])
  BY <1>1, <1>2, <1>3 DEF Reads
<1> QED
  BY <1>4, Filter DEF c

\* A status write passes nothing on (controller.py:138-142) when it is first heard, so a
\* reconcile does not queue the next.
THEOREM StatusWritesIgnored == Spec => StatusIgnored
<1>1. WatcherInv /\ [Next]_vars =>
        [Handle /\ cursor = heard /\ ~log[cursor + 1].due => ~SpecChanged(log[cursor + 1])]_vars
  BY FirstHeard
<1> QED
  BY <1>1, WatcherInvariant, PTL DEF Spec, StatusIgnored

-----------------------------------------------------------------------------
(* The loop keeps what Feed promises the controller. *)

\* A write that is due is a change; one that is not leaves what the controller goes by.
LEMMA WriteFeeds ==
  ASSUME WatcherInv, NEW k \in Keys, Write(k)
  PROVE  Watched!Change(k) \/ UNCHANGED Watched!vars
<1> USE DEF WatcherInv
<1>1. PICK e \in Events : Posted(k, e)
  BY WritePosts
<1>2. /\ Len(log) \in Nat /\ Len(log') = Len(log) + 1 /\ heard \in 0 .. Len(log)
      /\ \A i \in 1 .. Len(log) : log'[i] = log[i]
      /\ log'[Len(log) + 1] = e
  BY <1>1 DEF Posted, Types, DataTypes, LoopTypes
<1>3. UNCHANGED <<heard, at, resume, cursor, toSeed>> /\ Position' = Position
  BY <1>1 DEF Posted, loopVars, Position
<1>4. Unheard' = IF Position # {} /\ e.due THEN Unheard \cup {k} ELSE Unheard
  <2>1. CASE Position = {}
    BY <1>3, <2>1 DEF Unheard
  <2>2. CASE Position # {}
    <3>1. {log'[i].key : i \in {j \in heard + 1 .. Len(log) : log'[j].due}}
            = {log[i].key : i \in {j \in heard + 1 .. Len(log) : log[j].due}}
      BY <1>2
    <3>2. {j \in heard + 1 .. Len(log) + 1 : log'[j].due}
            = {j \in heard + 1 .. Len(log) : log'[j].due}
              \cup (IF e.due THEN {Len(log) + 1} ELSE {})
      BY <1>2
    <3>3. e.key = k
      BY <1>1 DEF Posted
    <3> QED
      BY <1>2, <1>3, <2>2, <3>1, <3>2, <3>3 DEF Unheard
  <2> QED
    BY <2>1, <2>2
<1>5. CASE e.due
  <2>1. owed' = owed \cup {k} /\ DOMAIN pubs' \ {k} = DOMAIN pubs \ {k}
    BY <1>1, <1>5 DEF Posted
  <2>2. DOMAIN pubs' \in {DOMAIN pubs \cup {k}, DOMAIN pubs \ {k}}
    BY <2>1
  <2>3. Keys \ owed' = (Keys \ owed) \ {k}
    BY <2>1
  <2> QED
    BY <1>3, <1>4, <1>5, <2>2, <2>3 DEF Watched!Change
<1>6. CASE ~e.due
  <2>1. owed' = owed /\ DOMAIN pubs' \ {k} = DOMAIN pubs \ {k}
    BY <1>1, <1>6 DEF Posted
  <2>2. Known(pubs, k) # {} /\ Known(pubs', k) # {}
    BY <1>1, <1>6 DEF Posted, Differs, Left
  <2>3. k \in DOMAIN pubs /\ k \in DOMAIN pubs'
    BY <2>2 DEF Known
  <2> QED
    BY <1>3, <1>4, <1>6, <2>1, <2>3 DEF Watched!vars
<1> QED
  BY <1>5, <1>6

\* A step that hears nothing and keeps its place, or loses it.
LEMMA MoveFeeds ==
  ASSUME WatcherInv,
         \/ Seeded \/ Open \/ Expired \/ Denied \/ CallFails \/ Retry \/ EndOfStream
         \/ Compact \/ Allow
  PROVE  Watched!Lose \/ UNCHANGED Watched!vars
<1>1. UNCHANGED <<pubs, log, heard, toSeed, owed>>
  BY DEF Seeded, Open, Expired, Denied, CallFails, Retry, EndOfStream, Compact, Allow,
         apiVars, loopVars
<1>2. CASE Expired \/ Denied
  <2>1. Position' = {} /\ at # "seed"
    BY <1>2 DEF Expired, Denied, Listing, Connecting, Position
  <2>2. DOMAIN toSeed = {} /\ Unheard' = {}
    BY <2>1 DEF WatcherInv, Places, Unheard
  <2> QED
    BY <1>1, <2>1, <2>2 DEF Watched!Lose
<1>3. CASE Position' = {} <=> Position = {}
  BY <1>1, <1>3 DEF Unheard, Watched!vars
<1>4. CASE Seeded \/ Open \/ CallFails \/ Retry \/ EndOfStream \/ Compact \/ Allow
  <2>1. Position' = {} <=> Position = {}
    <3>1. CASE Seeded \/ EndOfStream
      BY <3>1 DEF Seeded, EndOfStream, Position
    <3>2. CASE Open
      BY <3>2 DEF Open, Connecting, Position
    <3>3. CASE CallFails
      BY <3>3 DEF CallFails, Listing, Connecting, Position, WatcherInv, Places
    <3>4. CASE Retry \/ Compact \/ Allow
      BY <3>4 DEF Retry, Compact, Allow, loopVars, Position
    <3> QED
      BY <1>4, <3>1, <3>2, <3>3, <3>4
  <2> QED
    BY <1>3, <2>1
<1> QED
  BY <1>2, <1>4

LEMMA ListFeeds ==
  ASSUME WatcherInv, List \/ \E k \in Keys : Seed(k)
  PROVE  Watched!List \/ \E k \in Keys : Watched!Sync(k)
<1> USE PlaceTypes DEF WatcherInv
<1>1. CASE List
  <2>1. Position = {} /\ Position' # {} /\ DOMAIN toSeed = {}
    BY <1>1 DEF List, Listing, Position, Places
  <2>2. heard' = Len(log) /\ UNCHANGED <<pubs, log, owed>> /\ toSeed' = pubs
    BY <1>1 DEF List, apiVars
  <2>3. Unheard' = {}
    <3>1. heard' + 1 .. Len(log') = {}
      BY <2>2
    <3> QED
      BY <3>1 DEF Unheard
  <2> QED
    BY <2>1, <2>2, <2>3 DEF Watched!List
<1>2. ASSUME NEW k \in Keys, Seed(k)
      PROVE  Watched!Sync(k)
  <2>1. /\ at = "seed" /\ k \in DOMAIN toSeed /\ toSeed' = Without(toSeed, k)
        /\ owed' = owed \ {k}
        /\ UNCHANGED <<pubs, log, heard, at, cursor>>
    BY <1>2 DEF Seed, apiVars
  <2>2. DOMAIN toSeed' = DOMAIN toSeed \ {k}
    BY <2>1 DEF Without
  <2>3. Position' = Position /\ Unheard' = Unheard /\ Keys \ owed' = (Keys \ owed) \cup {k}
    BY <2>1 DEF Position, Unheard
  <2> QED
    BY <2>1, <2>2, <2>3 DEF Watched!Sync
<1> QED
  BY <1>1, <1>2

\* An event heard for the first time is passed on just if it is due; one heard again may be.
LEMMA HandleFeeds ==
  ASSUME WatcherInv, Handle
  PROVE  \/ \E k \in Keys : Watched!Deliver(k) \/ Watched!Repeat(k)
         \/ UNCHANGED Watched!vars
<1> USE PlaceTypes DEF WatcherInv
<1>1. PICK c \in 1 .. Len(log) : c = cursor + 1
  BY DEF Handle, Readable
<1>2. PICK e \in Events : e = log[c]
  BY <1>1 DEF Types, DataTypes
<1>3. PICK k \in Keys : k = e.key
  BY <1>2 DEF Events
<1>4. /\ at = "stream" /\ DOMAIN toSeed = {} /\ cursor' = c
      /\ owed' = IF SpecChanged(e) THEN owed \ {k} ELSE owed
      /\ heard' = IF cursor < heard THEN heard ELSE c
      /\ heard >= cursor
      /\ UNCHANGED <<pubs, log, at, resume, toSeed>>
  BY <1>1, <1>2, <1>3 DEF Handle, Readable, apiVars, Places
<1>5. Position # {} /\ Position' # {}
  BY <1>4 DEF Position
<1>6. SpecChanged(e) => Keys \ owed' = (Keys \ owed) \cup {k}
  BY <1>4
<1>7. CASE cursor < heard
  <2>1. Unheard' = Unheard
    BY <1>4, <1>5, <1>7 DEF Unheard
  <2> QED
    BY <1>4, <1>5, <1>6, <2>1 DEF Watched!Repeat, Watched!vars
<1>8. CASE cursor = heard
  <2>1. e.due <=> SpecChanged(e)
    BY <1>1, <1>2, <1>8, FirstHeard
  <2>2. heard' = c /\ c = heard + 1
    BY <1>1, <1>4, <1>8
  <2>3. heard + 1 .. Len(log) = {c} \cup (c + 1 .. Len(log))
    BY <1>1, <2>2
  <2>4. Unheard = Unheard' \cup (IF e.due THEN {k} ELSE {})
    BY <1>2, <1>3, <1>4, <1>5, <2>2, <2>3 DEF Unheard
  <2>5. CASE SpecChanged(e) /\ k \notin Unheard'
    BY <1>4, <1>5, <1>6, <2>1, <2>4, <2>5 DEF Watched!Deliver
  <2>6. CASE SpecChanged(e) /\ k \in Unheard'
    BY <1>4, <1>5, <1>6, <2>1, <2>4, <2>6 DEF Watched!Repeat
  <2>7. CASE ~SpecChanged(e)
    BY <1>4, <1>5, <2>1, <2>4, <2>7 DEF Watched!vars
  <2> QED
    BY <2>5, <2>6, <2>7
<1> QED
  BY <1>1, <1>4, <1>7, <1>8

\* The loop does what the controller takes a watch to do (controller.py:192-371): a listed
\* publication or a change counts as passed on only when its key is, and a place that is
\* lost is followed by a list.
THEOREM WatchKeepsFeed == Spec => KeepsFeed
<1>1. Init => Watched!Init
  BY DictEmpty DEF Init, Position, Unheard, Watched!Init
<1>2. WatcherInv /\ [Next]_vars => [Watched!Next]_Watched!vars
  <2> SUFFICES ASSUME WatcherInv, [Next]_vars
               PROVE  Watched!Next \/ UNCHANGED Watched!vars
    OBVIOUS
  <2>1. CASE UNCHANGED vars
    BY <2>1 DEF vars, apiVars, loopVars, Watched!vars, Position, Unheard
  <2>2. CASE Steady \/ CallFails \/ Compact \/ Allow
    BY <2>2, MoveFeeds, ListFeeds DEF Steady, Watched!Next
  <2>3. CASE Handle
    BY <2>3, HandleFeeds DEF Watched!Next
  <2>4. CASE \E k \in Keys : Write(k)
    BY <2>4, WriteFeeds DEF Watched!Next
  <2> QED
    BY <2>1, <2>2, <2>3, <2>4 DEF Next
<1> QED
  BY <1>1, <1>2, WatcherInvariant, PTL DEF Spec, KeepsFeed, Watched!Spec

=============================================================================
