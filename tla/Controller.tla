----------------------------- MODULE Controller -----------------------------
(***************************************************************************)
(* The controller of src/src/cert_publisher/controller.py: worker threads  *)
(* that take keys from the queue and reconcile the publications they name, *)
(* a watch that feeds the queue, and main's shutdown.  The workers are     *)
(* WorkQueue's consumers; what a reconcile does to hosts is the business   *)
(* of HostKeyed and SecretKeyed, here it only succeeds or fails.           *)
(***************************************************************************)
EXTENDS WorkQueue

CONSTANTS StartupSpread, \* longest delay of _enqueue_startup
          MaxBackoff,    \* longest delay of add_rate_limited, jitter included
          Requeues,      \* delays a Result asks for, and the resync interval
          MaxEdits,      \* bound: changes made to publications
          MaxPods        \* bound: processes started; the last one is left running

ASSUME ControllerAssumption ==
  /\ StartupSpread \in 0 .. MaxDelay
  /\ MaxBackoff \in 1 .. MaxDelay
  /\ Requeues \subseteq 1 .. MaxDelay

VARIABLES exists,    \* the publications there are
          edits,     \* how often each key's publication was created or edited
          listed,    \* whether the watch has a position to resume from
          toSync,    \* publications of the last list not queued yet
          unseen,    \* changes the watch has still to deliver
          step,      \* what each worker does next with the key it holds
          read,      \* the edit each worker's copy of the publication is of
          attempted, \* the last edit of each publication a reconcile has run on
          main,      \* main: "running", "signalled", "joining" or "exited"
          pods

apiVars == <<exists, edits>>
watchVars == <<listed, toSync, unseen>>
workVars == <<step, read, attempted>>
mainVars == <<main, pods>>
vars == <<queueVars, apiVars, watchVars, workVars, mainVars>>

Init == /\ QueueInit
        /\ exists \in SUBSET Keys
        /\ edits = [k \in Keys |-> 1]
        /\ listed = FALSE /\ toSync = {} /\ unseen = {}
        /\ step = [w \in Consumers |-> "idle"]
        /\ read = [w \in Consumers |-> 0]
        /\ attempted = [k \in Keys |-> 0]
        /\ main = "running" /\ pods = 1

Running == main # "exited"

-----------------------------------------------------------------------------
(* Publications, as their owners change them. *)

Change(k) == /\ SumFunction(edits) < Cardinality(Keys) + MaxEdits
             /\ edits' = [edits EXCEPT ![k] = @ + 1]
             /\ unseen' = IF listed THEN unseen \cup {k} ELSE unseen
             /\ UNCHANGED <<queueVars, listed, toSync, workVars, mainVars>>

Write(k) == Change(k) /\ exists' = exists \cup {k}
Delete(k) == k \in exists /\ Change(k) /\ exists' = exists \ {k}

-----------------------------------------------------------------------------
(* The watch on publications, and nudges from the owned resources' watches. *)

List == /\ Running /\ ~listed /\ toSync = {} /\ main = "running"
        /\ listed' = TRUE
        /\ toSync' = exists
        /\ unseen' = {}
        /\ UNCHANGED <<queueVars, apiVars, workVars, mainVars>>

Sync(k) == /\ Running /\ k \in toSync
           /\ toSync' = toSync \ {k}
           /\ \E d \in 0 .. StartupSpread : AddAfter(k, d)
           /\ UNCHANGED <<apiVars, listed, unseen, workVars, mainVars>>

\* An event for a publication in hand is taken for this reconcile's own writes.
FaultyDeliver(k) == /\ main = "running" /\ k \in unseen /\ toSync = {}
                    /\ unseen' = unseen \ {k}
                    /\ IF k \in processing THEN UNCHANGED queueVars ELSE Add(k)
                    /\ UNCHANGED <<apiVars, listed, toSync, workVars, mainVars>>

Deliver(k) == /\ main = "running" /\ k \in unseen /\ toSync = {}
              /\ unseen' = unseen \ {k}
              /\ Add(k)
              /\ UNCHANGED <<apiVars, listed, toSync, workVars, mainVars>>

\* The watch's position is compacted away (410), or access to it is lost.
Expire == /\ main = "running" /\ listed /\ toSync = {}
          /\ listed' = FALSE
          /\ unseen' = {}
          /\ UNCHANGED <<queueVars, apiVars, toSync, workVars, mainVars>>

\* An event of an owned resource, which may outlive its publication, or a publication's
\* delivered twice.
Nudge(k) == /\ main = "running"
            /\ Add(k)
            /\ UNCHANGED <<apiVars, watchVars, workVars, mainVars>>

-----------------------------------------------------------------------------
(* The workers. *)

GoTo(w, s) == step' = [step EXCEPT ![w] = s]

\* _work's loop condition is tested before get, and not again after it.
Poll(w) == /\ main = "running"
           /\ Enter(w)
           /\ UNCHANGED <<apiVars, watchVars, workVars, mainVars>>

\* A worker that gets no key goes on without one.
FaultyAwait(w) == /\ Running
                  /\ \/ Wake(w) /\ UNCHANGED step
                     \/ /\ FindNone(w) \/ TurnAway(w)
                        /\ IF at'[w] = "out" THEN GoTo(w, "read") ELSE UNCHANGED step
                  /\ UNCHANGED <<apiVars, watchVars, read, attempted, mainVars>>

Await(w) == /\ Running
            /\ FindNone(w) \/ TurnAway(w) \/ Wake(w)
            /\ UNCHANGED <<apiVars, watchVars, workVars, mainVars>>

Accept(w) == /\ Running
             /\ Take(w)
             /\ GoTo(w, "read")
             /\ UNCHANGED <<apiVars, watchVars, read, attempted, mainVars>>

Fetch(w) == /\ Running /\ step[w] = "read" /\ held[w] \in exists
            /\ GoTo(w, "run")
            /\ read' = [read EXCEPT ![w] = edits[held[w]]]
            /\ UNCHANGED <<queueVars, apiVars, watchVars, attempted, mainVars>>

\* A deleted publication is retried like one that could not be read.
FaultyFetchGone(w) == /\ Running /\ step[w] = "read" /\ held[w] \notin exists
                      /\ GoTo(w, "retry")
                      /\ UNCHANGED <<queueVars, apiVars, watchVars, read, attempted, mainVars>>

FetchGone(w) == /\ Running /\ step[w] = "read" /\ held[w] \notin exists
                /\ GoTo(w, "done")
                /\ UNCHANGED <<queueVars, apiVars, watchVars, read, attempted, mainVars>>

FetchFails(w) == /\ Running /\ step[w] = "read"
                 /\ GoTo(w, "retry")
                 /\ UNCHANGED <<queueVars, apiVars, watchVars, read, attempted, mainVars>>

\* reconcile_publication returns a Result or raises.
Reconcile(w) == /\ Running /\ step[w] = "run"
                /\ \E s \in {"requeue", "retry"} : GoTo(w, s)
                /\ attempted' = [attempted EXCEPT ![held[w]] = read[w]]
                /\ UNCHANGED <<queueVars, apiVars, watchVars, read, mainVars>>

Requeue(w) == /\ Running /\ step[w] = "requeue"
              /\ \E d \in Requeues : AddAfter(held[w], d)
              /\ GoTo(w, "done")
              /\ UNCHANGED <<apiVars, watchVars, read, attempted, mainVars>>

\* A failure is not scheduled again.
FaultyRetry(w) == /\ Running /\ step[w] = "retry"
                  /\ GoTo(w, "done")
                  /\ UNCHANGED <<queueVars, apiVars, watchVars, read, attempted, mainVars>>

Retry(w) == /\ Running /\ step[w] = "retry"
            /\ \E d \in 1 .. MaxBackoff : AddAfter(held[w], d)
            /\ GoTo(w, "done")
            /\ UNCHANGED <<apiVars, watchVars, read, attempted, mainVars>>

Release(w) == /\ Running /\ step[w] = "done"
              /\ Done(w)
              /\ GoTo(w, "idle")
              /\ UNCHANGED <<apiVars, watchVars, read, attempted, mainVars>>

Work(w) == \/ Poll(w) \/ Await(w) \/ Accept(w)
           \/ Fetch(w) \/ FetchGone(w) \/ FetchFails(w)
           \/ Reconcile(w) \/ Requeue(w) \/ Retry(w) \/ Release(w)

-----------------------------------------------------------------------------
(* main and Controller.stop. *)

Signal == /\ main = "running" /\ pods < MaxPods
          /\ main' = "signalled"
          /\ UNCHANGED <<queueVars, apiVars, watchVars, workVars, pods>>

CloseQueue == /\ main = "signalled"
              /\ Shutdown
              /\ main' = "joining"
              /\ UNCHANGED <<apiVars, watchVars, workVars, pods>>

\* Every worker's thread has ended, or the shutdown timeout is over: either way
\* the process exits.  It may also be killed or crash at any time.
Exit == /\ main # "exited" /\ pods < MaxPods
        /\ main' = "exited"
        /\ UNCHANGED <<queueVars, apiVars, watchVars, workVars, pods>>

NewPod == /\ main = "exited"
          /\ main' = "running" /\ pods' = pods + 1
          /\ queue' = <<>> /\ dirty' = {} /\ processing' = {} /\ waiting' = {}
          /\ deadlines' = [k \in {} |-> 0] /\ shutdown' = FALSE
          /\ at' = [w \in Consumers |-> "out"] /\ held' = [w \in Consumers |-> NoKey]
          /\ listed' = FALSE /\ toSync' = {} /\ unseen' = {}
          /\ step' = [w \in Consumers |-> "idle"]
          /\ read' = [w \in Consumers |-> 0]
          /\ UNCHANGED <<apiVars, attempted>>

Pass == Running /\ Tick /\ UNCHANGED <<apiVars, watchVars, workVars, mainVars>>

Next == \/ \E k \in Keys : Write(k) \/ Delete(k) \/ Sync(k) \/ Deliver(k) \/ Nudge(k)
        \/ List \/ Expire
        \/ \E w \in Consumers : Work(w)
        \/ Signal \/ CloseQueue \/ Exit \/ NewPod \/ Pass

\* Threads run, the watch lists and delivers, reconciles end (the liveness probe
\* restarts the pod when one does not) and reads of a publication do not fail forever.  Nothing
\* makes anyone edit a publication or stop the pod.
Fairness == /\ \A w \in Consumers : WF_vars(Work(w))
            /\ \A w \in Consumers, k \in Keys : SF_vars(held[w] = k /\ (Fetch(w) \/ FetchGone(w)))
            /\ WF_vars(List) /\ WF_vars(Pass) /\ WF_vars(CloseQueue) /\ WF_vars(NewPod)
            /\ \A k \in Keys : WF_vars(Sync(k)) /\ WF_vars(Deliver(k))

Spec == Init /\ [][Next]_vars /\ Fairness

-----------------------------------------------------------------------------
\* The variables have the types the code gives them, and a worker is at work only on a key.
ControllerTypeOK ==
  /\ TypeOK
  /\ exists \subseteq Keys /\ toSync \subseteq Keys /\ unseen \subseteq Keys
  /\ listed \in BOOLEAN
  /\ edits \in [Keys -> Nat] /\ attempted \in [Keys -> Nat]
  /\ step \in [Consumers -> {"idle", "read", "run", "requeue", "retry", "done"}]
  /\ \A w \in Consumers : step[w] # "idle" => held[w] \in Keys
  /\ read \in [Consumers -> Nat]
  /\ main \in {"running", "signalled", "joining", "exited"}
  /\ pods \in Nat

\* A worker that holds k and has not yet scheduled its next pass.
InHand(k, steps) == \E w \in Consumers : held[w] = k /\ step[w] \in steps

\* No publication is forgotten: until the queue is shut down, whatever fails, every
\* publication the watch has listed or reported is going to be looked at again
\* (controller.py:588-613: every outcome but "gone" requeues the key).
NotForgotten ==
  listed /\ ~shutdown =>
    \A k \in exists : \/ k \in dirty \cup DOMAIN deadlines \cup toSync \cup unseen
                      \/ InHand(k, {"read", "run", "requeue", "retry"})

\* An edit is not left for the resync: one no reconcile has run on is on its way to
\* the queue, in it, about to be read, or due within a retry's or the startup's
\* delay, also when it was made while the publication was being reconciled.
EditNoticed ==
  listed /\ ~shutdown =>
    \A k \in exists : attempted[k] # edits[k] =>
      \/ k \in dirty \cup toSync \cup unseen
      \/ k \in DOMAIN deadlines /\ (deadlines[k] <= MaxBackoff \/ deadlines[k] <= StartupSpread)
      \/ InHand(k, {"read", "retry"})
      \/ \E w \in Consumers : held[w] = k /\ step[w] = "run" /\ read[w] = edits[k]

\* Keys passed on to this pod and not taken yet; one that is shutting down wants no more.
Wanted == IF shutdown THEN Keys ELSE dirty \cup DOMAIN deadlines

\* What the controller has of a watch, and makes of it, is no more than Feed allows.
Watched == INSTANCE Feed WITH wanted <- Wanted
KeepsFeed == Watched!Spec

\* Every publication is looked at again and again, unless it is deleted or the pod stops.
LookedAt == \A k \in Keys : k \in exists ~> k \notin exists \/ main # "running" \/ InHand(k, {"run"})

\* Every edit is reconciled, unless another replaces it or the pod stops.
EditReconciled ==
  \A k \in Keys, n \in 1 .. MaxEdits + 1 :
    k \in exists /\ edits[k] = n ~>
      attempted[k] = n \/ k \notin exists \/ edits[k] # n \/ main # "running"

\* A publication deleted for good leaves the queue for good, whatever retries of it
\* were scheduled, once what it owned is gone too.
GoneDropped ==
  \A k \in Keys : <>[](k \notin exists) /\ <>[][~Nudge(k)]_vars =>
    <>[](main = "running" => k \notin dirty \cup DOMAIN deadlines \cup processing)
=============================================================================
