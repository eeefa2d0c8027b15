------------------------------- MODULE Watcher -------------------------------
(***************************************************************************)
(* _Watcher of src/src/cert_publisher/controller.py, on publications: it   *)
(* lists them, then watches from the list's version and passes on the key  *)
(* of each event but those of status writes.  A watch the apiserver closes *)
(* is resumed where it got to, one that breaks is resumed where it began,  *)
(* and one whose position is compacted away, or that is denied, begins     *)
(* with another list.  Controller has this loop in short: there every      *)
(* change is passed on or listed, which is what is shown here.             *)
(***************************************************************************)
EXTENDS Naturals, Sequences, FiniteSets

CONSTANTS Keys,
          MaxEvents,  \* bound: writes to publications
          MaxFailures \* bound: calls that fail, other than for the position or for access

ASSUME WatcherAssumption == MaxEvents \in Nat /\ MaxFailures \in Nat

VARIABLES
  pubs,      \* what a watcher reads of each publication there is: its generation and
             \* whether it has a lastSigningTime
  log,       \* the events of all writes; versions are positions in it
  compacted, \* versions before this one can no longer be resumed from
  access,    \* whether the watcher may list and watch
  failures,
  at,        \* "top" of the loop, "seed", "connect", "stream" or "wait"
  resume,    \* the version to watch from, as a set of at most one
  cursor,    \* how far the stream, or the list, got
  toSeed,    \* what is left of a list
  seen,      \* _seen
  synced,
  owed,      \* history: keys whose spec was changed, or stamp cleared, since they were
             \* last passed on
  heard      \* history: how far any stream or list got

apiVars == <<pubs, log, compacted, access>>
loopVars == <<at, resume, cursor, toSeed, seen, synced>>
vars == <<apiVars, failures, loopVars, owed, heard>>

Fields == [generation : Nat, signing : BOOLEAN]
Empty == [k \in {} |-> 0]

\* A dictionary with k set to x, or removed.
With(f, k, x) == [j \in DOMAIN f \cup {k} |-> IF j = k THEN x ELSE f[j]]
Without(f, k) == [j \in DOMAIN f \ {k} |-> f[j]]

Init == /\ pubs \in UNION {[S -> [generation : {1}, signing : BOOLEAN]] : S \in SUBSET Keys}
        /\ log = <<>> /\ compacted = 0 /\ access \in BOOLEAN
        /\ failures = 0
        /\ at = "top" /\ resume = {} /\ cursor = 0
        /\ toSeed = Empty /\ seen = Empty /\ synced = FALSE
        /\ owed = {} /\ heard = 0

-----------------------------------------------------------------------------
(* The apiserver.  An event tells whether it is one to pass on. *)

Post(k, type, fields, due) ==
  /\ Len(log) < MaxEvents
  /\ log' = Append(log, [key |-> k, type |-> type, fields |-> fields, due |-> due])
  /\ owed' = IF due THEN owed \cup {k} ELSE owed
  /\ UNCHANGED <<compacted, access, failures, loopVars, heard>>

Create(k) == /\ k \notin DOMAIN pubs
             /\ LET new == [generation |-> 1, signing |-> FALSE]
                IN  pubs' = With(pubs, k, new) /\ Post(k, "ADDED", new, TRUE)

Delete(k) == /\ k \in DOMAIN pubs
             /\ pubs' = Without(pubs, k)
             /\ Post(k, "DELETED", pubs[k], TRUE)

Modify(k, new, due) == pubs' = [pubs EXCEPT ![k] = new] /\ Post(k, "MODIFIED", new, due)

Edit(k) == /\ k \in DOMAIN pubs
           /\ Modify(k, [pubs[k] EXCEPT !.generation = @ + 1], TRUE)

\* A status write of a reconcile, which may set lastSigningTime.
WriteStatus(k) == /\ k \in DOMAIN pubs
                  /\ \E s \in {TRUE, pubs[k].signing} :
                       Modify(k, [pubs[k] EXCEPT !.signing = s], FALSE)

\* An operator clears lastSigningTime.
Clear(k) == /\ k \in DOMAIN pubs /\ pubs[k].signing
            /\ Modify(k, [pubs[k] EXCEPT !.signing = FALSE], TRUE)

Compact == /\ \E v \in compacted + 1 .. Len(log) : compacted' = v
           /\ UNCHANGED <<pubs, log, access, failures, loopVars, owed, heard>>

Allow == /\ access' = ~access
         /\ UNCHANGED <<pubs, log, compacted, failures, loopVars, owed, heard>>

-----------------------------------------------------------------------------
(* The loop: _run. *)

Listing == at = "top" /\ resume = {}
Connecting == at = "connect" \/ (at = "top" /\ resume # {})

List == /\ Listing /\ access
        /\ toSeed' = pubs
        /\ seen' = Empty
        /\ cursor' = Len(log) /\ heard' = Len(log)
        /\ at' = "seed"
        /\ UNCHANGED <<apiVars, failures, resume, synced, owed>>

\* (Operators named Faulty... are bugs this code could have; they are part of no
\* specification and show that the properties would find them.)
\* Only publications that were never edited are queued.
FaultySeed(k) == /\ at = "seed" /\ k \in DOMAIN toSeed
                 /\ toSeed' = Without(toSeed, k)
                 /\ seen' = With(seen, k, toSeed[k])
                 /\ owed' = IF toSeed[k].generation = 1 THEN owed \ {k} ELSE owed
                 /\ UNCHANGED <<apiVars, failures, at, resume, cursor, synced, heard>>

\* _sync remembers each publication and queues it.
Seed(k) == /\ at = "seed" /\ k \in DOMAIN toSeed
           /\ toSeed' = Without(toSeed, k)
           /\ seen' = With(seen, k, toSeed[k])
           /\ owed' = owed \ {k}
           /\ UNCHANGED <<apiVars, failures, at, resume, cursor, synced, heard>>

Seeded == /\ at = "seed" /\ DOMAIN toSeed = {}
          /\ resume' = {cursor}
          /\ synced' = TRUE
          /\ at' = "connect"
          /\ UNCHANGED <<apiVars, failures, cursor, toSeed, seen, owed, heard>>

Open == /\ Connecting /\ access
        /\ \E v \in resume : v >= compacted /\ cursor' = v
        /\ at' = "stream"
        /\ UNCHANGED <<apiVars, failures, resume, toSeed, seen, synced, owed, heard>>

\* 410
Expired == /\ \/ Connecting /\ access /\ \E v \in resume : v < compacted
              \/ at = "stream" /\ cursor < compacted
           /\ resume' = {}
           /\ at' = "wait"
           /\ UNCHANGED <<apiVars, failures, cursor, toSeed, seen, synced, owed, heard>>

\* The pod goes on reporting ready.
FaultyDenied == /\ Listing \/ Connecting
                /\ ~access
                /\ resume' = {}
                /\ at' = "wait"
                /\ UNCHANGED <<apiVars, failures, cursor, toSeed, seen, synced, owed, heard>>

\* _ACCESS_LOST: a position from before the gap is not resumed from.
Denied == /\ Listing \/ Connecting
          /\ ~access
          /\ synced' = FALSE
          /\ resume' = {}
          /\ at' = "wait"
          /\ UNCHANGED <<apiVars, failures, cursor, toSeed, seen, owed, heard>>

\* Any other failure keeps the position the watch began at, if there is one.
CallFails == /\ failures < MaxFailures
             /\ Listing \/ Connecting \/ at = "stream"
             /\ failures' = failures + 1
             /\ at' = "wait"
             /\ UNCHANGED <<apiVars, resume, cursor, toSeed, seen, synced, owed, heard>>

\* The pause before a reconnect, and the backoff after a failure.
Retry == /\ at = "wait"
         /\ at' = "top"
         /\ UNCHANGED <<apiVars, failures, resume, cursor, toSeed, seen, synced, owed, heard>>

-----------------------------------------------------------------------------
(* The stream: _watch_from and _handle. *)

\* A cleared stamp is taken for a status write like any other.
FaultySpecChanged(e) == \/ e.type = "DELETED"
                        \/ e.key \notin DOMAIN seen
                        \/ seen[e.key].generation # e.fields.generation

\* A stamp is taken for a change, too.
FaultySpecChangedByStamp(e) == \/ e.type = "DELETED"
                               \/ e.key \notin DOMAIN seen
                               \/ seen[e.key] # e.fields

SpecChanged(e) == \/ e.type = "DELETED"
                  \/ e.key \notin DOMAIN seen
                  \/ seen[e.key].generation # e.fields.generation
                  \/ seen[e.key].signing /\ ~e.fields.signing

\* What is ignored is not remembered.
FaultyRemembered(e) == IF e.type = "DELETED" THEN Without(seen, e.key)
                       ELSE IF SpecChanged(e) THEN With(seen, e.key, e.fields) ELSE seen

Remembered(e) == IF e.type = "DELETED" THEN Without(seen, e.key) ELSE With(seen, e.key, e.fields)

Readable == at = "stream" /\ compacted <= cursor /\ cursor < Len(log)

Handle == /\ Readable
          /\ LET e == log[cursor + 1]
             IN  /\ seen' = Remembered(e)
                 /\ owed' = IF SpecChanged(e) THEN owed \ {e.key} ELSE owed
          /\ cursor' = cursor + 1
          /\ heard' = IF cursor < heard THEN heard ELSE cursor + 1
          /\ UNCHANGED <<apiVars, failures, at, resume, toSeed, synced>>

\* The next watch begins after the event to come.
FaultyEndOfStream == /\ at = "stream"
                     /\ resume' = {cursor + 1}
                     /\ at' = "wait"
                     /\ UNCHANGED <<apiVars, failures, cursor, toSeed, seen, synced, owed, heard>>

\* The apiserver closes the watch at its timeout.
EndOfStream == /\ at = "stream"
               /\ resume' = {cursor}
               /\ at' = "wait"
               /\ UNCHANGED <<apiVars, failures, cursor, toSeed, seen, synced, owed, heard>>

-----------------------------------------------------------------------------
Write(k) == Create(k) \/ Delete(k) \/ Edit(k) \/ WriteStatus(k) \/ Clear(k)

Steady == \/ List \/ Seeded \/ Open \/ Expired \/ Denied \/ Retry \/ EndOfStream
          \/ \E k \in Keys : Seed(k)

Next == \/ Steady \/ Handle \/ CallFails
        \/ Compact \/ Allow \/ \E k \in Keys : Write(k)

\* The thread runs, no watch outlasts its timeout, and one that is opened again and again
\* delivers events.  (Failures other than those of access and position are bounded.)
Fairness == WF_vars(Steady) /\ SF_vars(Handle) /\ WF_vars(Retry \/ Denied)

Spec == Init /\ [][Next]_vars /\ Fairness

-----------------------------------------------------------------------------
WatcherTypeOK ==
  /\ DOMAIN pubs \subseteq Keys /\ \A k \in DOMAIN pubs : pubs[k] \in Fields
  /\ \A i \in 1 .. Len(log) : /\ log[i].key \in Keys /\ log[i].fields \in Fields
                              /\ log[i].type \in {"ADDED", "MODIFIED", "DELETED"}
                              /\ log[i].due \in BOOLEAN
  /\ compacted \in 0 .. Len(log) /\ access \in BOOLEAN
  /\ failures \in 0 .. MaxFailures
  /\ at \in {"top", "seed", "connect", "stream", "wait"}
  /\ resume \subseteq 0 .. Len(log) /\ Cardinality(resume) <= 1
  /\ cursor \in 0 .. Len(log)
  /\ DOMAIN toSeed \subseteq Keys /\ \A k \in DOMAIN toSeed : toSeed[k] \in Fields
  /\ DOMAIN seen \subseteq Keys /\ \A k \in DOMAIN seen : seen[k] \in Fields
  /\ synced \in BOOLEAN
  /\ owed \subseteq Keys /\ heard \in 0 .. Len(log)

\* The version events are, or will be, read from.
Position == IF at \in {"seed", "stream"} THEN {cursor} ELSE resume

\* No change is missed (controller.py:202-225, 265-277, 350-371): one that was not passed on
\* is still ahead of the watcher, in its list, or to be listed, whatever was replayed,
\* skipped as a status write, compacted or denied in between.
NothingMissed ==
  \A k \in owed \cap DOMAIN pubs :
    \/ Position = {}
    \/ k \in DOMAIN toSeed
    \/ \E v \in Position, i \in 1 .. Len(log) : i > v /\ log[i].key = k /\ log[i].due

\* Keys of changes the stream has still to come to.
Unheard == IF Position = {} THEN {}
           ELSE {log[i].key : i \in {j \in heard + 1 .. Len(log) : log[j].due}}

\* The loop does what the controller takes a watch to do: whatever is replayed, skipped or
\* lost, a listed publication or a change counts as passed on only when its key is.
Watched == INSTANCE Feed WITH exists <- DOMAIN pubs, listed <- Position # {},
                              toSync <- DOMAIN toSeed, unseen <- Unheard,
                              wanted <- Keys \ owed
KeepsFeed == Watched!Spec

\* What the filter compares with is what there was at the stream's position: at its end,
\* what there is, also when older events were replayed.
RememberedRight == at = "stream" /\ cursor = Len(log) => seen = pubs

\* A status write queues nothing (controller.py:138-142): else every reconcile would
\* queue the next.  A replayed event may be passed on again.
StatusIgnored ==
  [][Handle /\ cursor = heard /\ ~log[cursor + 1].due => ~SpecChanged(log[cursor + 1])]_vars

\* Readiness follows access (controller.py:150-153): a pod that loses it for good is
\* unready at last, and one that has it is ready at last.
ReadyFollowsAccess == /\ <>[]~access => <>[]~synced
                      /\ <>[]access => <>[]synced

\* Every change is passed on at last, unless access is lost.
ChangesPassedOn ==
  <>[]access => \A k \in Keys : k \in owed ~> k \notin owed \cap DOMAIN pubs
=============================================================================
